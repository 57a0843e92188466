------------------------------ MODULE Globals ------------------------------
(***************************************************************************)
(* The life of a Wayland global in the server library.  A Global object is *)
(* owned by the compositor.  Its Nucleus stands between it and libwayland: *)
(* it outlives the Global by a grace period, so that a bind a client sent  *)
(* before it saw the removal still meets an object, and it owns the list   *)
(* of Binds, one per wl_resource a client bound (server/wayland/global.h,  *)
(* nucleus.h, bind.h, display.cpp, client.cpp).                            *)
(*                                                                         *)
(* libwayland is external: a wl_global is removed by wl_global_remove and  *)
(* freed by wl_display_destroy only.  Undefined behaviour and failed       *)
(* assertions end the run and are recorded in `fault'.                     *)
(***************************************************************************)
EXTENDS Integers, FiniteSets

CONSTANTS
  Global,     \* Global objects, each created at most once
  Client,     \* wl_client objects
  Resource,   \* names of wl_resources for bound globals
  MaxStarts   \* bound: calls of Display::start

ASSUME MaxStartsAssumption == MaxStarts \in Nat

VARIABLES
  display,    \* "idle", "running" or "deleted": the Display and its m_display
  starts,     \* number of starts so far
  object,     \* Global objects that exist
  nucleus,    \* globals whose Nucleus exists
  native,     \* nuclei whose native_global is not null
  wlGlobal,   \* wlGlobal[g]: the wl_global in libwayland
  data,       \* wl_globals whose user data is their Nucleus
  globals,    \* Display::m_globals
  stale,      \* Display::m_stale_globals, each with its timer running
  connected,  \* clients that have a connection
  known,      \* Display::m_clients
  bound,      \* resources that exist
  of,         \* of[r]: the global and the client r was bound by
  linked,     \* resources whose Bind::global_nucleus is not null
  binds,      \* binds[g]: Nucleus::binds
  fault       \* "none", or what went wrong

displayVars == <<display, starts>>
globalVars == <<object, nucleus, native, wlGlobal, data, globals, stale>>
clientVars == <<connected, known>>
bindVars == <<bound, of, linked, binds>>
vars == <<displayVars, globalVars, clientVars, bindVars, fault>>

TypeOK ==
  /\ display \in {"idle", "running", "deleted"}
  /\ starts \in 0 .. MaxStarts
  /\ object \subseteq Global
  /\ nucleus \subseteq Global
  /\ native \subseteq nucleus
  /\ wlGlobal \in [Global -> {"none", "advertised", "removed", "freed"}]
  /\ data \subseteq Global
  /\ globals \subseteq Global
  /\ stale \subseteq Global
  /\ connected \subseteq Client
  /\ known \subseteq Client
  /\ bound \subseteq Resource
  /\ of \in [Resource -> [global : Global, client : Client]]
  /\ linked \subseteq Resource
  /\ binds \in [Global -> SUBSET Resource]
  /\ fault \in {"none", "no_nucleus", "freed_wl_global", "freed_nucleus"}

Init ==
  /\ display = "idle" /\ starts = 0
  /\ object = {} /\ nucleus = {} /\ native = {}
  /\ wlGlobal = [g \in Global |-> "none"]
  /\ data = {} /\ globals = {} /\ stale = {}
  /\ connected = {} /\ known = {}
  /\ bound = {} /\ linked = {}
  /\ of \in [Resource -> [global : Global, client : Client]]
  /\ binds = [g \in Global |-> {}]
  /\ fault = "none"

Fail(what) ==
  fault' = what /\ UNCHANGED <<displayVars, globalVars, clientVars, bindVars>>

-----------------------------------------------------------------------------
(* Destroying the resources gone: each Bind that still has its nucleus     *)
(* leaves that nucleus' list.                                              *)
Lingering(gone) == binds  \* mutated form of WithoutBinds
WithoutBinds(gone) == [g \in Global |-> binds[g] \ (gone \cap linked)]

DestroyResources(gone) ==
  /\ bound' = bound \ gone
  /\ linked' = linked \ gone
  /\ binds' = WithoutBinds(gone)
  /\ UNCHANGED of

(* ~Nucleus: the wl_global forgets it and so do the binds in its list.     *)
Unlinked(gs) == linked \ UNION {binds[g] : g \in gs}
KeepData(gs) == data  \* mutated form of DataWithout
DataWithout(gs) == data \ (gs \cap native)

NativeWithout(gs) == native \ gs

DeleteNuclei(gs) ==
  /\ nucleus' = nucleus \ gs
  /\ native' = NativeWithout(gs)
  /\ data' = DataWithout(gs)
  /\ linked' = Unlinked(gs)
  /\ binds' = [g \in Global |-> IF g \in gs THEN {} ELSE binds[g]]

(* Deleting a Nucleus writes to its wl_global, which may have been freed.  *)
WritesFreed(gs) == \E g \in gs \cap native : wlGlobal[g] = "freed"

-----------------------------------------------------------------------------
(* The constructor of a Global: a Nucleus, registered with the display,    *)
(* then create().                                                          *)
CreateGlobal(g) ==
  /\ display = "running"
  /\ wlGlobal[g] = "none"
  /\ object' = object \cup {g}
  /\ nucleus' = nucleus \cup {g}
  /\ native' = native \cup {g}
  /\ globals' = globals \cup {g}
  /\ wlGlobal' = [wlGlobal EXCEPT ![g] = "advertised"]
  /\ data' = data \cup {g}
  /\ UNCHANGED <<displayVars, stale, clientVars, bindVars, fault>>

(* ~Global calls Nucleus::remove, which keeps the nucleus for a while if   *)
(* there is a wl_global, and deletes it at once after a terminate.         *)
NoTimer(g) == stale  \* mutated form of StaleWith
StaleWith(g) == stale \cup {g}

DestroyGlobal(g) ==
  /\ g \in object /\ g \in native
  /\ object' = object \ {g}
  /\ globals' = globals \ {g}
  /\ stale' = StaleWith(g)
  /\ wlGlobal' = [wlGlobal EXCEPT ![g] = "removed"]
  /\ UNCHANGED <<displayVars, nucleus, native, data, clientVars, bindVars, fault>>

DestroyReleased(g) ==
  /\ g \in object /\ g \notin native
  /\ object' = object \ {g}
  /\ DeleteNuclei({g})
  /\ UNCHANGED <<displayVars, wlGlobal, globals, stale, clientVars, bound, of, fault>>

(* The timer started by Display::removeGlobal fires.                       *)
StaleTimeout(g) ==
  /\ g \in stale /\ display # "deleted"
  /\ IF WritesFreed({g}) THEN Fail("freed_wl_global")
     ELSE /\ DeleteNuclei({g})
          /\ stale' = stale \ {g}
          /\ UNCHANGED <<displayVars, object, wlGlobal, globals, clientVars,
                         bound, of, fault>>

-----------------------------------------------------------------------------
Connect(c) ==
  /\ display = "running" /\ c \notin connected
  /\ connected' = connected \cup {c}
  /\ UNCHANGED <<displayVars, globalVars, known, bindVars, fault>>

(* Display::createClient, called by the compositor for its own clients.    *)
CreateClient(c) ==
  /\ c \in connected \ known
  /\ known' = known \cup {c}
  /\ UNCHANGED <<displayVars, globalVars, connected, bindVars, fault>>

(* wl_registry.bind.  libwayland accepts it as long as the wl_global is    *)
(* there.  Nucleus::bind makes an unknown client known; without a nucleus  *)
(* it returns and creates no resource.                                     *)
KnownWith(c) == known \cup {c}

Bind(c, g, r) ==
  /\ c \in connected /\ r \notin bound
  /\ wlGlobal[g] \in {"advertised", "removed"}
  /\ g \in data
  /\ known' = KnownWith(c)
  /\ bound' = bound \cup {r}
  /\ of' = [of EXCEPT ![r] = [global |-> g, client |-> c]]
  /\ linked' = linked \cup {r}
  /\ binds' = [binds EXCEPT ![g] = @ \cup {r}]
  /\ UNCHANGED <<displayVars, globalVars, connected, fault>>

(* A request on a bound resource asks Bind::global() for the Global.  A    *)
(* served request changes the state of that global's module, none here;    *)
(* without a Global it is ignored.  What is left is the assertion.         *)
RequestAsserts(r) ==
  /\ r \in bound \ linked
  /\ Fail("no_nucleus")

DestroyBind(r) ==
  /\ r \in bound
  /\ DestroyResources({r})
  /\ UNCHANGED <<displayVars, globalVars, clientVars, fault>>

ResourcesOf(cs) == {r \in bound : of[r].client \in cs}

(* The connection is closed: the Client goes first, its resources follow.  *)
Disconnect(c) ==
  /\ c \in connected
  /\ connected' = connected \ {c}
  /\ known' = known \ {c}
  /\ DestroyResources(ResourcesOf({c}))
  /\ UNCHANGED <<displayVars, globalVars, fault>>

-----------------------------------------------------------------------------
Start ==
  /\ display = "idle" /\ starts < MaxStarts
  /\ display' = "running"
  /\ starts' = starts + 1
  /\ UNCHANGED <<globalVars, clientVars, bindVars, fault>>

(* Display::terminate: all clients go, the nuclei of m_globals are         *)
(* released, the wl_display is destroyed with its wl_globals.              *)
ShutDown ==
  /\ connected' = {} /\ known' = {}
  /\ bound' = {} /\ UNCHANGED of
  /\ wlGlobal' = [g \in Global |-> IF wlGlobal[g] = "none" THEN "none" ELSE "freed"]

Terminate ==
  /\ display = "running"
  /\ IF \E g \in globals : g \notin nucleus THEN Fail("freed_nucleus")
     ELSE /\ ShutDown
          /\ linked' = {}
          /\ binds' = WithoutBinds(bound)
          /\ native' = native \ globals
          /\ data' = {}
          /\ display' = "idle"
          /\ UNCHANGED <<starts, object, nucleus, globals, stale, fault>>

(* ~Display deletes the stale nuclei and then terminates, if running.      *)
DeleteDisplay ==
  /\ display # "deleted"
  /\ IF WritesFreed(stale) THEN Fail("freed_wl_global")
     ELSE IF display = "running" /\ \E g \in globals : g \notin nucleus
       THEN Fail("freed_nucleus")
     ELSE /\ ShutDown
          /\ linked' = {}
          /\ binds' = [g \in Global |-> {}]
          /\ nucleus' = nucleus \ stale
          /\ native' = (native \ globals) \ stale
          /\ data' = {}
          /\ stale' = {}
          /\ display' = "deleted"
          /\ UNCHANGED <<starts, object, globals, fault>>

GlobalStep(g) ==
  \/ CreateGlobal(g)
  \/ DestroyGlobal(g)
  \/ DestroyReleased(g)
  \/ StaleTimeout(g)

ClientStep(c) ==
  \/ Connect(c)
  \/ CreateClient(c)
  \/ \E g \in Global, r \in Resource : Bind(c, g, r)
  \/ Disconnect(c)

ResourceStep(r) == RequestAsserts(r) \/ DestroyBind(r)

Next ==
  /\ fault = "none"
  /\ \/ \E g \in Global : GlobalStep(g)
     \/ \E c \in Client : ClientStep(c)
     \/ \E r \in Resource : ResourceStep(r)
     \/ Start \/ Terminate \/ DeleteDisplay

Spec == Init /\ [][Next]_vars

(* Qt's event loop delivers the expiry of a timer as long as it runs.      *)
FairSpec ==
  Spec /\ \A g \in Global : WF_vars(fault = "none" /\ StaleTimeout(g))

-----------------------------------------------------------------------------
(* A Bind points to a nucleus exactly when that nucleus exists and lists   *)
(* it: global() never follows a dangling pointer and sends to all binds of *)
(* a nucleus never reach a destroyed one (bind.h:64, nucleus.h:88).        *)
BindsLinked ==
  /\ linked \subseteq bound
  /\ \A g \in Global : binds[g] = {r \in linked : of[r].global = g}
  /\ \A r \in linked : of[r].global \in nucleus

(* The user data a late wl_registry.bind reads is the nucleus, if it       *)
(* exists, or null (nucleus.h:128).                                        *)
DataValid == data \subseteq nucleus

(* A nucleus without Global does not stay for ever (display.cpp:99).       *)
NucleusFreed ==
  \A g \in Global :
    (g \in nucleus \ object) ~> (g \notin nucleus \/ fault # "none")

(* Every nucleus is told when its wl_global is freed (CHANGELOG.md:732).   *)
TerminateReleasesAll == \A g \in native : wlGlobal[g] # "freed"

(* A request on a global that is gone is ignored (global.h:289).           *)
LateRequestIgnored == fault # "no_nucleus"
=============================================================================
