--------------------------- MODULE VirtualDesktops ---------------------------
(***************************************************************************)
(* The ordered virtual desktops of the compositor and their mirror in a    *)
(* client: server/plasma_virtual_desktop.cpp and                           *)
(* src/client/plasmavirtualdesktop.cpp.  The client asks for the object of *)
(* a desktop when it reads that the desktop was created; by then it may be *)
(* gone, or there may be another one of the same id.  Each request for an  *)
(* object makes a new one, numbered in the order they are made.            *)
(***************************************************************************)
EXTENDS Naturals, Lists

CONSTANTS
  Id,         \* ids of desktops
  MaxChanges  \* bound of changes by the compositor

(* What is assumed of the constants.                                       *)
Assumptions == MaxChanges \in Nat

VARIABLES
  desktops,   \* server: PlasmaVirtualDesktopManager::Private::desktops
  active,     \* server: ids of those that are active
  resources,  \* server: PlasmaVirtualDesktop::Private::resources
  orphans,    \* server: resources without virtualDesktop
  bound,      \* the client has the manager
  changes,    \* changes by the compositor so far
  events,     \* to the client
  requests,   \* to the server
  list,       \* client: PlasmaVirtualDesktopManagement::Private::desktops
  idOf,       \* client: ids of the objects made so far
  isActive,   \* client: objects with PlasmaVirtualDesktop::Private::active
  fault       \* a request named an object that the server does not know

serverVars == <<desktops, active, resources, orphans, bound, changes>>
vars == <<serverVars, events, requests, list, idOf, isActive, fault>>

Event(kind, id, value) == [kind |-> kind, id |-> id, value |-> value]
Objects == 1 .. MaxChanges + 1

TypeOK ==
  /\ Range(desktops) \subseteq Id /\ active \subseteq Range(desktops)
  /\ resources \in [Id -> SUBSET Objects] /\ orphans \subseteq Objects
  /\ bound \in BOOLEAN /\ changes \in 0 .. MaxChanges /\ fault \in BOOLEAN
  /\ \A e \in Range(events) : e.kind \in {"created", "removed", "activated", "deactivated"}
  /\ \A r \in Range(requests) : r.kind \in {"get", "activate"} /\ r.value \in Objects
  /\ Range(list) \subseteq DOMAIN idOf /\ Len(idOf) <= MaxChanges + 1 /\ Range(idOf) \subseteq Id
  /\ isActive \subseteq DOMAIN idOf

Init ==
  /\ desktops = <<>> /\ active = {} /\ resources = [d \in Id |-> {}] /\ orphans = {}
  /\ bound = FALSE /\ changes = 0 /\ events = <<>> /\ requests = <<>>
  /\ list = <<>> /\ idOf = <<>> /\ isActive = {} /\ fault = FALSE

-----------------------------------------------------------------------------
Send(es) == events' = IF bound THEN events \o es ELSE events
SendTo(objects, kind, d) ==
  LET os == Listing(objects)
  IN  events' = events \o [i \in DOMAIN os |-> Event(kind, d, os[i])]

Changed ==
  /\ changes < MaxChanges
  /\ changes' = changes + 1
  /\ UNCHANGED <<bound, requests, list, idOf, isActive, fault>>

(* bindInit: the place of each desktop counts those before it.             *)
AllFirst(i) == 0 \* mutated form of Place
Place(i) == i - 1

Bind ==
  /\ ~bound
  /\ bound' = TRUE
  /\ events' = [i \in DOMAIN desktops |-> Event("created", desktops[i], Place(i))]
  /\ UNCHANGED <<desktops, active, resources, orphans, changes, requests, list, idOf,
                 isActive, fault>>

(* createDesktop: the first desktop becomes active by itself.              *)
CreateDesktop(d, asked) ==
  LET position == IF asked <= Len(desktops) THEN asked ELSE Len(desktops)
  IN  /\ Changed /\ d \notin Range(desktops)
      /\ desktops' = InsertAt(desktops, position, d)
      /\ active' = IF desktops = <<>> THEN {d} ELSE active
      /\ Send(<<Event("created", d, position)>>)
      /\ UNCHANGED <<resources, orphans>>

(* removeDesktop: its resources lose the desktop.                          *)
WithoutResources(d) == [resources EXCEPT ![d] = {}]

RemoveDesktop(d) ==
  /\ Changed /\ d \in Range(desktops)
  /\ desktops' = RemoveOne(desktops, d)
  /\ active' = active \ {d}
  /\ orphans' = orphans \cup resources[d]
  /\ resources' = WithoutResources(d)
  /\ Send(<<Event("removed", d, 0)>>)

SetActive(d, b) ==
  /\ Changed /\ d \in Range(desktops) /\ (d \in active) # b
  /\ active' = IF b THEN active \cup {d} ELSE active \ {d}
  /\ SendTo(resources[d], IF b THEN "activated" ELSE "deactivated", d)
  /\ UNCHANGED <<desktops, resources, orphans>>

(* getVirtualDesktopCallback, which ignores ids that are not there, and    *)
(* createResource.                                                         *)
HandleGet(r) ==
  /\ r.kind = "get"
  /\ IF r.id \in Range(desktops)
       THEN /\ resources' = [resources EXCEPT ![r.id] = @ \cup {r.value}]
            /\ SendTo({o \in {r.value} : r.id \in active}, "activated", r.id)
       ELSE UNCHANGED <<resources, events>>
  /\ UNCHANGED fault

(* requestActivateCallback only tells the compositor.                      *)
HandleActivate(r) ==
  /\ r.kind = "activate"
  /\ fault' = (r.value \notin orphans \cup UNION {resources[d] : d \in Id})
  /\ UNCHANGED <<resources, events>>

HandleRequest ==
  /\ requests # <<>> /\ ~fault
  /\ requests' = Tail(requests)
  /\ HandleGet(Head(requests)) \/ HandleActivate(Head(requests))
  /\ UNCHANGED <<desktops, active, orphans, bound, changes, list, idOf, isActive>>

-----------------------------------------------------------------------------
Listed(d) == {o \in Range(list) : idOf[o] = d}

(* createdCallback: getVirtualDesktop makes an object for an id that is    *)
(* not listed and returns the listed one otherwise.                        *)
ReadCreated(e) ==
  LET new == Len(idOf) + 1
  IN  /\ e.kind = "created"
      /\ IF Listed(e.id) = {}
           THEN /\ idOf' = Append(idOf, e.id)
                /\ requests' = Append(requests, [kind |-> "get", id |-> e.id, value |-> new])
                /\ list' = InsertAt(list, e.value, new)
           ELSE /\ list' = InsertAt(list, e.value, CHOOSE o \in Listed(e.id) : TRUE)
                /\ UNCHANGED <<idOf, requests>>
      /\ UNCHANGED isActive

(* removedCallback: the object is released; what is sent to it is dropped. *)
KeepListed(d) == list \* mutated form of Unlisted
Unlisted(d) == EraseFirst(list, {i \in DOMAIN list : idOf[list[i]] = d})

ReadRemoved(e) ==
  /\ e.kind = "removed"
  /\ list' = Unlisted(e.id)
  /\ isActive' = isActive \ Listed(e.id)
  /\ UNCHANGED <<idOf, requests>>

ReadActive(e) ==
  /\ e.kind \in {"activated", "deactivated"}
  /\ isActive' = IF e.value \notin Range(list) THEN isActive
                 ELSE IF e.kind = "activated" THEN isActive \cup {e.value}
                 ELSE isActive \ {e.value}
  /\ UNCHANGED <<list, idOf, requests>>

ReadEvent ==
  /\ events # <<>>
  /\ events' = Tail(events)
  /\ ReadCreated(Head(events)) \/ ReadRemoved(Head(events)) \/ ReadActive(Head(events))
  /\ UNCHANGED <<serverVars, fault>>

(* One request at a time is on its way.                                    *)
RequestActivate(o) ==
  /\ o \in Range(list) /\ \A r \in Range(requests) : r.kind = "get"
  /\ requests' = Append(requests, [kind |-> "activate", id |-> idOf[o], value |-> o])
  /\ UNCHANGED <<serverVars, events, list, idOf, isActive, fault>>

Next ==
  \/ Bind \/ HandleRequest \/ ReadEvent
  \/ \E d \in Id : RemoveDesktop(d)
  \/ \E d \in Id, position \in 0 .. MaxChanges : CreateDesktop(d, position)
  \/ \E d \in Id, b \in BOOLEAN : SetActive(d, b)
  \/ \E o \in DOMAIN idOf : RequestActivate(o)

Spec == Init /\ [][Next]_vars

-----------------------------------------------------------------------------
(* Once everything sent has arrived, the client lists the desktops of the  *)
(* compositor in their order and knows which are active, whenever it bound *)
(* the manager and however often an id came and went in between            *)
(* (plasma_virtual_desktop.cpp:60-67, 89-102, 152-193,                     *)
(* src/client/plasmavirtualdesktop.cpp:114-151).                           *)
SameDesktops ==
  bound /\ events = <<>> /\ requests = <<>> =>
    /\ [i \in DOMAIN list |-> idOf[list[i]]] = desktops
    /\ \A o \in Range(list) : (o \in isActive) = (idOf[o] \in active)

(* Every request names an object that the server has.                      *)
ObjectsKnown == ~fault
=============================================================================
