--------------------------- MODULE SurfaceEffects ---------------------------
(***************************************************************************)
(* How a surface takes over an object that a request of another protocol   *)
(* gave it: a Shadow, Blur, Contrast or Slide (server/surface.cpp,         *)
(* surface_p.h; the four are treated alike, this module follows one).  The *)
(* pointer goes through the double-buffered state of the surface, and      *)
(* through the cached state while the surface is a synchronized            *)
(* subsurface.  The surface listens for the destruction of an object only  *)
(* once it is current.  Reading an object that is gone ends the run and is *)
(* recorded in `fault'.                                                    *)
(***************************************************************************)
EXTENDS FiniteSets

CONSTANTS
  Effect,       \* effect objects, each created at most once
  None          \* the null pointer

(* What is assumed of the constants.                                       *)
Assumptions == None \notin Effect

VARIABLES
  plain,        \* whether the surface never gets the role of a subsurface
  synchronized, \* whether the surface is a subsurface and synchronized
  created,      \* effects created so far
  alive,        \* effects that exist
  pending,      \* surface.pending: the flag of the field, and the field
  cached,       \* subsurface.cached
  current,      \* surface.current, its field alone
  notifier,     \* the effect destroy_notifiers is connected to
  asked,        \* history: what the client asked for since its last commit
  fault         \* whether an effect was used after its destruction

vars == <<plain, synchronized, created, alive, pending, cached, current, notifier, asked, fault>>

Pointer == Effect \cup {None}
Field == [set : BOOLEAN, effect : Pointer]
Unset == [set |-> FALSE, effect |-> None]  \* the field of a SurfaceState()

TypeOK ==
  /\ plain \in BOOLEAN
  /\ synchronized \in BOOLEAN
  /\ alive \subseteq created /\ created \subseteq Effect
  /\ pending \in Field
  /\ cached \in Field
  /\ current \in Pointer
  /\ notifier \in Pointer
  /\ asked \in Field
  /\ fault \in BOOLEAN

Init ==
  /\ plain \in BOOLEAN
  /\ synchronized = FALSE
  /\ created = {} /\ alive = {}
  /\ pending = Unset /\ cached = Unset
  /\ current = None /\ notifier = None /\ asked = Unset
  /\ fault = FALSE

-----------------------------------------------------------------------------
Set(e) == [set |-> TRUE, effect |-> e]

(* create: a new object, given to the surface.                             *)
Create(e) ==
  /\ e \notin created
  /\ created' = created \cup {e}
  /\ alive' = alive \cup {e}
  /\ pending' = Set(e) /\ asked' = Set(e)
  /\ UNCHANGED <<plain, synchronized, cached, current, notifier, fault>>

(* unset: setShadow(nullptr).                                              *)
UnsetEffect ==
  /\ pending' = Set(None) /\ asked' = Set(None)
  /\ UNCHANGED <<plain, synchronized, created, alive, cached, current, notifier, fault>>

(* The effect is destroyed by its client.  The resetter of the surface     *)
(* runs only if it is connected, and what it resets is the pending state.  *)
ResetIfPending(e) == pending.set /\ pending.effect = e  \* mutated form of NeedsReset
NeedsReset(e) ==
  \/ pending.set /\ pending.effect = e
  \/ current = e
  \/ ~pending.set

Destroy(e) ==
  /\ e \in alive
  /\ alive' = alive \ {e}
  /\ pending' = IF notifier = e /\ NeedsReset(e) THEN Set(None) ELSE pending
  /\ UNCHANGED <<plain, synchronized, created, cached, current, notifier, asked, fault>>

(* move_state_resource: connecting to an object that is gone is a use of   *)
(* freed memory.                                                           *)
KeepNotifier(source) == IF notifier = None THEN source.effect ELSE notifier  \* mutated form of Notified
Notified(source) == source.effect

MoveToCurrent(source) ==
  IF source.set
  THEN /\ current' = source.effect
       /\ notifier' = Notified(source)
       /\ fault' = (source.effect \in created \ alive)
  ELSE UNCHANGED <<current, notifier, fault>>

(* wl_surface.commit, and for a synchronized subsurface the caching of it. *)
Commit ==
  /\ ~synchronized
  /\ MoveToCurrent(pending)
  /\ pending' = Unset /\ asked' = Unset
  /\ UNCHANGED <<plain, synchronized, created, alive, cached>>

CommitCached ==
  /\ synchronized
  /\ cached' = pending
  /\ pending' = Unset /\ asked' = Unset
  /\ UNCHANGED <<plain, synchronized, created, alive, current, notifier, fault>>

(* The parent commits: applyCached.                                        *)
ApplyCached ==
  /\ synchronized
  /\ MoveToCurrent(cached)
  /\ cached' = Unset
  /\ UNCHANGED <<plain, synchronized, created, alive, pending, asked>>

(* wl_subcompositor.get_subsurface, or set_sync.                           *)
Synchronize ==
  /\ ~plain /\ ~synchronized
  /\ synchronized' = TRUE
  /\ UNCHANGED <<plain, created, alive, pending, cached, current, notifier, asked, fault>>

(* set_desync below a parent that is not synchronized applies the cache;   *)
(* destroying the wl_subsurface drops it.                                  *)
Desynchronize ==
  /\ synchronized
  /\ synchronized' = FALSE
  /\ MoveToCurrent(cached)
  /\ cached' = Unset
  /\ UNCHANGED <<plain, created, alive, pending, asked>>

DestroySubsurface ==
  /\ synchronized
  /\ synchronized' = FALSE
  /\ cached' = Unset
  /\ UNCHANGED <<plain, created, alive, pending, current, notifier, asked, fault>>

Next ==
  /\ ~fault
  /\ \/ \E e \in Effect : Create(e) \/ Destroy(e)
     \/ UnsetEffect
     \/ Commit \/ CommitCached \/ ApplyCached
     \/ Synchronize \/ Desynchronize \/ DestroySubsurface

Spec == Init /\ [][Next]_vars

-----------------------------------------------------------------------------
(* A surface that is no subsurface never goes on showing an effect that is *)
(* gone: if its current effect was destroyed, the next commit replaces it  *)
(* (the resetters of surface.cpp:556-599).  With a cached state the flag   *)
(* of the replacement may be lost on its way.                              *)
DeadEffectLeaves ==
  plain /\ ~fault => current \notin created \ alive \/ pending.set

(* A surface gives up an effect that lives only when its client asks for  *)
(* it: what awaits the next commit is what the client asked for, and is a  *)
(* reset only if the effect shown is gone.  In particular the end of an    *)
(* effect the surface gave up earlier, or never showed, does not reset the *)
(* one it shows (surface_p.h:195-233).                                     *)
LiveEffectStays ==
  plain /\ ~fault =>
    pending = asked \/ (pending = Set(None) /\ current \in created \ alive)

(* An object set on a surface is replaced when it goes, before it is used: *)
(* "The object is pending. Needs to be changed in any case."               *)
(* (surface_p.h:205).                                                      *)
NoFreedEffect == ~fault

(* Destroying the current effect leaves another one that is pending alone: *)
(* "Needs reset if the object is current and there is no other pending     *)
(* object." (surface_p.h:209).                                             *)
OtherPendingKept ==
  [][\A e \in alive \ alive' :
       pending.set /\ pending.effect # e => pending' = pending]_vars
=============================================================================
