---------------------------- MODULE GlobalsProofs ----------------------------
(***************************************************************************)
(* Proofs about Globals: for any number of globals, clients and resources  *)
(* and of starts of the display, the types hold and the binds and their    *)
(* nuclei point to each other.                                             *)
(***************************************************************************)
EXTENDS Globals, TLAPS

(* What a bind and its nucleus know of each other is inductive together    *)
(* with the types and with the user data of the wl_globals, which a bind   *)
(* finds its nucleus by: a wl_global points to a nucleus only as long as   *)
(* that nucleus points to it.                                              *)
DataNative == data \subseteq native
Inv == TypeOK /\ BindsLinked /\ DataNative

(* Destroying resources keeps the links of the others.                     *)
LEMMA ResourcesGone ==
  ASSUME Inv, NEW gone \in SUBSET Resource, DestroyResources(gone), nucleus' = nucleus
  PROVE  /\ bound' \subseteq Resource /\ linked' \subseteq Resource
         /\ of' \in [Resource -> [global : Global, client : Client]]
         /\ binds' \in [Global -> SUBSET Resource]
         /\ BindsLinked'
BY DEF Inv, TypeOK, BindsLinked, DataNative, DestroyResources, WithoutBinds

(* Deleting nuclei unlinks exactly their own binds.                        *)
LEMMA NucleiGone ==
  ASSUME Inv, NEW gs \in SUBSET Global, DeleteNuclei(gs), bound' = bound, of' = of
  PROVE  /\ nucleus' \subseteq Global /\ native' \subseteq nucleus'
         /\ data' \subseteq Global /\ linked' \subseteq Resource
         /\ DataNative' /\ binds' \in [Global -> SUBSET Resource]
         /\ BindsLinked'
<1>1. /\ nucleus' \subseteq Global /\ native' \subseteq nucleus' /\ data' \subseteq Global
      /\ DataNative' /\ linked' \subseteq Resource /\ binds' \in [Global -> SUBSET Resource]
  BY DEF Inv, TypeOK, DataNative, DeleteNuclei, Unlinked, NativeWithout, DataWithout
<1>2. \A r \in Resource : r \in linked' <=> r \in linked /\ of[r].global \notin gs
  <2>1. \A r \in linked : r \in binds[of[r].global] /\ of[r].global \in Global
    BY DEF Inv, TypeOK, BindsLinked, DataNative
  <2>2. \A g \in gs : \A r \in binds[g] : of[r].global = g
    BY DEF Inv, BindsLinked
  <2>3. linked' = linked \ UNION {binds[g] : g \in gs}
    BY DEF DeleteNuclei, Unlinked
  <2> QED
    BY <2>1, <2>2, <2>3
<1>3. \A g \in Global : binds'[g] = IF g \in gs THEN {} ELSE binds[g]
  BY DEF DeleteNuclei
<1>4. linked' \subseteq bound' /\ \A r \in linked' : of'[r].global \in nucleus'
  BY <1>1, <1>2 DEF Inv, TypeOK, BindsLinked, DataNative, DeleteNuclei
<1>5. ASSUME NEW g \in Global PROVE binds'[g] = {r \in linked' : of'[r].global = g}
  <2>1. binds[g] = {r \in linked : of[r].global = g} /\ linked \subseteq Resource
    BY DEF Inv, TypeOK, BindsLinked, DataNative
  <2>2. CASE g \in gs
    BY <1>1, <1>2, <1>3, <2>2
  <2>3. CASE g \notin gs
    BY <1>1, <1>2, <1>3, <2>1, <2>3
  <2> QED
    BY <2>2, <2>3
<1> QED
  BY <1>1, <1>4, <1>5 DEF BindsLinked

LEMMA InitInv == Init => Inv
BY MaxStartsAssumption DEF Init, Inv, TypeOK, BindsLinked, DataNative

(* A fault leaves everything else as it was.                               *)
LEMMA FailInv ==
  ASSUME Inv, NEW what \in {"no_nucleus", "freed_wl_global", "freed_nucleus"}, Fail(what)
  PROVE  Inv'
BY DEF Inv, TypeOK, BindsLinked, DataNative, Fail, displayVars, globalVars, clientVars, bindVars

LEMMA GlobalStepInv ==
  ASSUME Inv, NEW g \in Global, GlobalStep(g)
  PROVE  Inv'
<1> USE DEF displayVars, globalVars, clientVars, bindVars
<1>1. CASE CreateGlobal(g)
  BY <1>1 DEF Inv, TypeOK, BindsLinked, DataNative, CreateGlobal
<1>2. CASE DestroyGlobal(g)
  BY <1>2 DEF Inv, TypeOK, BindsLinked, DataNative, DestroyGlobal, StaleWith
<1>3. CASE DestroyReleased(g)
  <2>1. DeleteNuclei({g}) /\ bound' = bound /\ of' = of
    BY <1>3 DEF DestroyReleased
  <2>2. BindsLinked' /\ DataNative' /\ TypeOK'
    BY <1>3, <2>1, NucleiGone DEF Inv, TypeOK, DestroyReleased
  <2> QED
    BY <2>2 DEF Inv
<1>4. CASE StaleTimeout(g)
  <2>1. CASE WritesFreed({g})
    BY <1>4, <2>1, FailInv DEF StaleTimeout
  <2>2. CASE ~WritesFreed({g})
    <3>1. DeleteNuclei({g}) /\ bound' = bound /\ of' = of
      BY <1>4, <2>2 DEF StaleTimeout
    <3>2. BindsLinked' /\ DataNative' /\ TypeOK'
      BY <1>4, <2>2, <3>1, NucleiGone DEF Inv, TypeOK, StaleTimeout
    <3> QED
      BY <3>2 DEF Inv
  <2> QED
    BY <2>1, <2>2
<1> QED
  BY <1>1, <1>2, <1>3, <1>4 DEF GlobalStep

LEMMA ClientStepInv ==
  ASSUME Inv, NEW c \in Client, ClientStep(c)
  PROVE  Inv'
<1> USE DEF displayVars, globalVars, clientVars, bindVars
<1>1. CASE Connect(c)
  BY <1>1 DEF Inv, TypeOK, BindsLinked, DataNative, Connect
<1>2. CASE CreateClient(c)
  BY <1>2 DEF Inv, TypeOK, BindsLinked, DataNative, CreateClient
<1>3. ASSUME NEW g \in Global, NEW r \in Resource, Bind(c, g, r)
      PROVE  Inv'
  <2>1. /\ known' \subseteq Client /\ bound' \subseteq Resource /\ linked' \subseteq Resource
        /\ of' \in [Resource -> [global : Global, client : Client]]
        /\ binds' \in [Global -> SUBSET Resource]
    BY <1>3 DEF Inv, TypeOK, Bind, KnownWith
  <2>2. TypeOK'
    BY <1>3, <2>1 DEF Inv, TypeOK, Bind
  <2>3. g \in nucleus
    BY <1>3 DEF Inv, TypeOK, DataNative, Bind
  <2>4. BindsLinked'
    <3>1. /\ linked' = linked \cup {r} /\ bound' = bound \cup {r} /\ nucleus' = nucleus
          /\ \A h \in Global : binds'[h] = IF h = g THEN binds[g] \cup {r} ELSE binds[h]
          /\ \A q \in Resource : of'[q].global = IF q = r THEN g ELSE of[q].global
      BY <1>3 DEF Inv, TypeOK, Bind, globalVars
    <3>2. r \notin linked /\ linked \subseteq Resource
      BY <1>3 DEF Inv, TypeOK, BindsLinked, Bind
    <3>3. linked' \subseteq bound' /\ \A q \in linked' : of'[q].global \in nucleus'
      BY <2>3, <3>1, <3>2 DEF Inv, BindsLinked
    <3>4. \A h \in Global : binds'[h] = {q \in linked' : of'[q].global = h}
      BY <3>1, <3>2 DEF Inv, BindsLinked
    <3> QED
      BY <3>3, <3>4 DEF BindsLinked
  <2>5. DataNative'
    BY <1>3 DEF Inv, DataNative, Bind
  <2> QED
    BY <2>2, <2>4, <2>5 DEF Inv
<1>4. CASE Disconnect(c)
  <2>1. ResourcesOf({c}) \in SUBSET Resource
    BY DEF Inv, TypeOK, ResourcesOf
  <2>2. DestroyResources(ResourcesOf({c})) /\ nucleus' = nucleus
    BY <1>4 DEF Disconnect
  <2> QED
    BY <1>4, <2>1, <2>2, ResourcesGone DEF Inv, TypeOK, DataNative, Disconnect
<1> QED
  BY <1>1, <1>2, <1>3, <1>4 DEF ClientStep

LEMMA ResourceStepInv ==
  ASSUME Inv, NEW r \in Resource, ResourceStep(r)
  PROVE  Inv'
<1>1. CASE RequestAsserts(r)
  BY <1>1, FailInv DEF RequestAsserts
<1>2. CASE DestroyBind(r)
  BY <1>2, ResourcesGone
  DEF Inv, TypeOK, DataNative, DestroyBind, displayVars, globalVars, clientVars
<1> QED
  BY <1>1, <1>2 DEF ResourceStep

LEMMA DisplayInv ==
  ASSUME Inv, Start \/ Terminate \/ DeleteDisplay
  PROVE  Inv'
<1> USE DEF displayVars, globalVars, clientVars, bindVars
<1>1. CASE Start
  <2>1. starts' \in 0 .. MaxStarts
    <3>1. starts \in 0 .. MaxStarts /\ starts < MaxStarts /\ starts' = starts + 1
      BY <1>1 DEF Inv, TypeOK, Start
    <3> QED
      BY <3>1, MaxStartsAssumption
  <2>2. display' = "running" /\ UNCHANGED <<globalVars, clientVars, bindVars, fault>>
    BY <1>1 DEF Start
  <2> QED
    BY <2>1, <2>2 DEF Inv, TypeOK, BindsLinked, DataNative
<1>2. CASE Terminate
  <2>1. CASE \E g \in globals : g \notin nucleus
    BY <1>2, <2>1, FailInv DEF Terminate
  <2>2. CASE ~ \E g \in globals : g \notin nucleus
    <3>1. linked \subseteq bound /\ \A g \in Global : binds[g] \subseteq linked
      BY DEF Inv, BindsLinked
    <3>2. binds' = [g \in Global |-> {}]
      BY <1>2, <2>2, <3>1 DEF Terminate, WithoutBinds
    <3>3. linked' = {} /\ bound' = {} /\ of' = of
      BY <1>2, <2>2 DEF Terminate, ShutDown
    <3>4. BindsLinked'
      BY <3>2, <3>3 DEF BindsLinked
    <3>5. wlGlobal' \in [Global -> {"none", "advertised", "removed", "freed"}]
      BY <1>2, <2>2 DEF Inv, TypeOK, Terminate, ShutDown
    <3>6. TypeOK'
      BY <1>2, <2>2, <3>2, <3>3, <3>5 DEF Inv, TypeOK, Terminate, ShutDown
    <3> QED
      BY <1>2, <2>2, <3>4, <3>6 DEF Inv, DataNative, Terminate
  <2> QED
    BY <2>1, <2>2
<1>3. CASE DeleteDisplay
  <2> DEFINE Crash == WritesFreed(stale) \/ (display = "running" /\ \E g \in globals : g \notin nucleus)
  <2>1. CASE Crash
    BY <1>3, <2>1, FailInv DEF DeleteDisplay
  <2>2. CASE ~Crash
    <3>1. /\ ShutDown /\ linked' = {} /\ binds' = [g \in Global |-> {}]
          /\ nucleus' = nucleus \ stale /\ native' = (native \ globals) \ stale
          /\ data' = {} /\ stale' = {} /\ display' = "deleted"
          /\ starts' = starts /\ object' = object /\ globals' = globals /\ fault' = fault
      BY <1>3, <2>2 DEF DeleteDisplay
    <3>2. BindsLinked' /\ DataNative'
      BY <3>1 DEF BindsLinked, DataNative, ShutDown
    <3>3. wlGlobal' \in [Global -> {"none", "advertised", "removed", "freed"}]
      BY <3>1 DEF Inv, TypeOK, ShutDown
    <3>4. TypeOK'
      BY <3>1, <3>3 DEF Inv, TypeOK, ShutDown
    <3> QED
      BY <3>2, <3>4 DEF Inv
  <2> QED
    BY <2>1, <2>2
<1> QED
  BY <1>1, <1>2, <1>3

LEMMA NextInv == Inv /\ [Next]_vars => Inv'
<1> SUFFICES ASSUME Inv, [Next]_vars PROVE Inv'
  OBVIOUS
<1>1. CASE UNCHANGED vars
  BY <1>1 DEF Inv, TypeOK, BindsLinked, DataNative, vars, displayVars, globalVars, clientVars, bindVars
<1>2. CASE Next
  BY <1>2, GlobalStepInv, ClientStepInv, ResourceStepInv, DisplayInv DEF Next
<1> QED
  BY <1>1, <1>2

(* Every variable keeps its type, for any globals, clients and resources.  *)
THEOREM TypeCorrect == Spec => []TypeOK
<1>1. Inv => TypeOK
  BY DEF Inv
<1> QED
  BY <1>1, InitInv, NextInv, PTL DEF Spec

(* Bind::global_nucleus and Nucleus::binds agree in every reachable state: *)
(* a nucleus that is deleted, by the timer or with its display, leaves no  *)
(* bind pointing to it, and a resource that is destroyed leaves no entry   *)
(* in a nucleus (nucleus.h:88, bind.h:50).                                 *)
THEOREM BindsLinkedCorrect == Spec => []BindsLinked
<1>1. Inv => BindsLinked
  BY DEF Inv
<1> QED
  BY <1>1, InitInv, NextInv, PTL DEF Spec

(* A late wl_registry.bind never reaches a nucleus that is gone: the user  *)
(* data of a wl_global is cleared when its nucleus is deleted, whoever     *)
(* deletes it (nucleus.h:128).                                             *)
THEOREM DataValidCorrect == Spec => []DataValid
<1>1. Inv => DataValid
  BY DEF Inv, TypeOK, DataNative, DataValid
<1> QED
  BY <1>1, InitInv, NextInv, PTL DEF Spec
=============================================================================
