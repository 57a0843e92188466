------------------------------ MODULE DrmLease ------------------------------
(***************************************************************************)
(* Connectors that a device offers for lease, the binds that hear of them  *)
(* and the requests that collect them: server/drm_lease_v1.cpp.  A bind    *)
(* waits for a file descriptor before it is told of connectors; connectors *)
(* come and go at any time, and so does the device.                        *)
(***************************************************************************)
EXTENDS Naturals, Lists

CONSTANTS
  Bind,      \* binds of the global, each there once
  Connector, \* drm_lease_connector_v1 objects, each there once
  Request    \* drm_lease_request_v1 objects

VARIABLES
  device,     \* the drm_lease_device_v1 exists
  waiting,    \* drm_lease_device_v1::Private::waiting_binds
  active,     \* drm_lease_device_v1::Private::active_binds
  gone,       \* binds that were released
  connectors, \* connectors that exist
  offered,    \* drm_lease_device_v1::Private::connectors
  destroyed,  \* connectors that were destroyed
  told,       \* how often a bind was sent a connector
  resources,  \* drm_lease_connector_v1_res by bind and connector
  requests,   \* requests that are open
  asked,      \* drm_lease_request_v1::Private::connectors
  leased,     \* connectors of the last lease
  fault       \* the null connector of a resource was followed

vars == <<device, waiting, active, gone, connectors, offered, destroyed, told, resources,
          requests, asked, leased, fault>>

TypeOK ==
  /\ device \in BOOLEAN /\ fault \in BOOLEAN
  /\ Range(waiting) \cup active \cup gone \subseteq Bind
  /\ connectors \cup destroyed \subseteq Connector /\ offered \subseteq connectors
  /\ told \in [Bind -> [Connector -> 0 .. 2]]
  /\ resources \subseteq Bind \X Connector
  /\ requests \subseteq Request /\ asked \in [Request -> SUBSET Connector]
  /\ leased \subseteq Connector

Init ==
  /\ device = TRUE /\ waiting = <<>> /\ active = {} /\ gone = {}
  /\ connectors = {} /\ offered = {} /\ destroyed = {}
  /\ told = [b \in Bind |-> [c \in Connector |-> 0]] /\ resources = {}
  /\ requests = {} /\ asked = [r \in Request |-> {}] /\ leased = {} /\ fault = FALSE

-----------------------------------------------------------------------------
(* send_connector                                                          *)
Send(bs, cs) ==
  /\ told' = [b \in Bind |-> [c \in Connector |->
                told[b][c] + IF b \in bs /\ c \in cs THEN 1 ELSE 0]]
  /\ resources' = resources \cup (bs \X cs)

(* bindInit asks the compositor for a file descriptor.                     *)
BindDevice(b) ==
  /\ device /\ b \notin Range(waiting) \cup active \cup gone
  /\ waiting' = Append(waiting, b)
  /\ UNCHANGED <<device, active, gone, connectors, offered, destroyed, told, resources,
                 requests, asked, leased, fault>>

(* release_callback or the end of the client's connection                  *)
Release(b) ==
  /\ device /\ b \in Range(waiting) \cup active
  /\ waiting' = RemoveOne(waiting, b)
  /\ active' = active \ {b} /\ gone' = gone \cup {b}
  /\ UNCHANGED <<device, connectors, offered, destroyed, told, resources, requests, asked,
                 leased, fault>>

(* add_connector                                                           *)
AllBinds == active \cup Range(waiting) \* mutated form of Listening
Listening == active

CreateConnector(c) ==
  /\ device /\ c \notin connectors \cup destroyed
  /\ connectors' = connectors \cup {c} /\ offered' = offered \cup {c}
  /\ Send(Listening, {c})
  /\ UNCHANGED <<device, waiting, active, gone, destroyed, requests, asked, leased, fault>>

(* ~drm_lease_connector_v1 withdraws its resources.                        *)
DestroyConnector(c) ==
  /\ c \in connectors
  /\ connectors' = connectors \ {c} /\ offered' = offered \ {c}
  /\ destroyed' = destroyed \cup {c}
  /\ UNCHANGED <<device, waiting, active, gone, told, resources, requests, asked, leased,
                 fault>>

(* update_fd serves the bind that waits longest.                           *)
UpdateFd ==
  /\ device /\ waiting # <<>>
  /\ Send({Head(waiting)}, offered)
  /\ waiting' = Tail(waiting)
  /\ active' = active \cup {Head(waiting)}
  /\ UNCHANGED <<device, gone, connectors, offered, destroyed, requests, asked, leased, fault>>

DestroyDevice ==
  /\ device
  /\ device' = FALSE /\ offered' = {} /\ waiting' = <<>> /\ active' = {}
  /\ UNCHANGED <<gone, connectors, destroyed, told, resources, requests, asked, leased, fault>>

(* ~drm_lease_connector_v1_res                                             *)
DestroyResource(b, c) ==
  /\ <<b, c>> \in resources
  /\ resources' = resources \ {<<b, c>>}
  /\ UNCHANGED <<device, waiting, active, gone, connectors, offered, destroyed, told,
                 requests, asked, leased, fault>>

CreateRequest(r) ==
  /\ device /\ active \cup Range(waiting) # {} /\ r \notin requests
  /\ requests' = requests \cup {r}
  /\ asked' = [asked EXCEPT ![r] = {}]
  /\ UNCHANGED <<device, waiting, active, gone, connectors, offered, destroyed, told,
                 resources, leased, fault>>

(* request_connector_callback: the connector of a withdrawn resource is    *)
(* null.  Errors end the client and are not followed further.              *)
RequestConnector(r, b, c) ==
  /\ r \in requests /\ <<b, c>> \in resources
  /\ device
  /\ c \in destroyed \cup (offered \ asked[r])
  /\ fault' = (c \in destroyed)
  /\ asked' = [asked EXCEPT ![r] = @ \cup ({c} \cap offered)]
  /\ UNCHANGED <<device, waiting, active, gone, connectors, offered, destroyed, told,
                 resources, requests, leased>>

(* submit_callback; without device the lease is finished at once.          *)
Submit(r) ==
  /\ r \in requests /\ asked[r] # {}
  /\ requests' = requests \ {r}
  /\ leased' = IF device THEN asked[r] ELSE leased
  /\ asked' = [asked EXCEPT ![r] = {}]
  /\ UNCHANGED <<device, waiting, active, gone, connectors, offered, destroyed, told,
                 resources, fault>>

Next ==
  /\ ~fault
  /\ \/ \E b \in Bind : BindDevice(b) \/ Release(b)
     \/ \E c \in Connector : CreateConnector(c) \/ DestroyConnector(c)
     \/ UpdateFd \/ DestroyDevice
     \/ \E b \in Bind, c \in Connector : DestroyResource(b, c)
     \/ \E r \in Request : CreateRequest(r) \/ Submit(r)
     \/ \E r \in Request, b \in Bind, c \in Connector : RequestConnector(r, b, c)

Spec == Init /\ [][Next]_vars

-----------------------------------------------------------------------------
(* A bind is told of every connector of the device once, whether it or the *)
(* connector was there first and whenever its descriptor came; one that    *)
(* waits was told of none (drm_lease_v1.cpp:77-93, 118-140).               *)
ToldOnce ==
  /\ \A b \in active, c \in offered : told[b][c] = 1
  /\ \A b \in Range(waiting), c \in Connector : told[b][c] = 0

(* "Global has been deleted server-side, fail silently."                   *)
(* (drm_lease_v1.cpp:268): a request never follows a null connector.       *)
NoNullConnector == ~fault

(* What is leased exists when the compositor hears of it                   *)
(* (drm_lease_v1.cpp:286-313).                                             *)
LeasedAlive == [][leased' # leased => leased' \subseteq connectors]_leased
=============================================================================
