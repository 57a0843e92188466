------------------------- MODULE SurfacePartsProofs -------------------------
(***************************************************************************)
(* Proofs about the parts of a surface, each for any values of its         *)
(* constants.                                                              *)
(***************************************************************************)
EXTENDS SurfaceParts, SequenceTheorems, FiniteSetTheorems, TLAPS

-----------------------------------------------------------------------------
(* Presentation feedback: one without an answer is in one list.            *)

(* HeldOnce, said of the feedbacks one by one.                             *)
In(f) == f \in pending \/ f \in cached \/ f \in current \/ \E i \in open : f \in waiting[i]

HeldBy(f) ==
  /\ fate[f] = "held" <=> In(f)
  /\ f \in pending => f \notin cached \cup current /\ \A i \in open : f \notin waiting[i]
  /\ f \in cached => f \notin current /\ \A i \in open : f \notin waiting[i]
  /\ f \in current => \A i \in open : f \notin waiting[i]
  /\ \A i, j \in open : f \in waiting[i] /\ f \in waiting[j] => i = j

Inv == TypeOK /\ (\A f \in Feedback : HeldBy(f)) /\ WaitingOnOutput

LEMMA OpenIds ==
  ASSUME Assumptions, TypeOK
  PROVE  open \subseteq Id /\ lastId \in Nat /\ MaxLocks \in Nat
  BY DEF Assumptions, TypeOK, Id

LEMMA HeldOnceFromEach ==
  ASSUME Assumptions, TypeOK, \A f \in Feedback : HeldBy(f)
  PROVE  HeldOnce
<1>1. \A i \in open : i \in Id /\ waiting[i] \subseteq Feedback
  BY OpenIds DEF TypeOK
<1>2. pending \cup cached \cup current \cup AllWaiting = {f \in Feedback : fate[f] = "held"}
  <2>1. pending \cup cached \cup current \cup AllWaiting \subseteq Feedback
    BY <1>1 DEF AllWaiting, TypeOK
  <2>2. ASSUME NEW f \in Feedback
        PROVE  f \in pending \cup cached \cup current \cup AllWaiting <=> In(f)
    BY DEF AllWaiting, In
  <2> QED
    BY <2>1, <2>2 DEF HeldBy
<1>3. /\ pending \cap (cached \cup current \cup AllWaiting) = {}
      /\ cached \cap (current \cup AllWaiting) = {} /\ current \cap AllWaiting = {}
  BY <1>1 DEF HeldBy, AllWaiting, TypeOK
<1>4. \A i, j \in open : i # j => waiting[i] \cap waiting[j] = {}
  BY <1>1 DEF HeldBy
<1> QED
  BY <1>2, <1>3, <1>4 DEF HeldOnce

LEMMA InitInv == Assumptions /\ Init => Inv
<1> SUFFICES ASSUME Assumptions, Init PROVE Inv
  OBVIOUS
<1>1. TypeOK
  <2>1. waiting \in [Id -> SUBSET Feedback] /\ output \in [Id -> Output \cup {None}]
    BY DEF Init
  <2>2. {surface, synchronized, locked} \subseteq BOOLEAN
    BY DEF Init
  <2>3. fate \in [Feedback -> {"new", "held", "presented", "discarded"}]
    BY DEF Init
  <2>4. lastId \in 0 .. MaxLocks /\ open = {}
    BY DEF Assumptions, Init
  <2> QED
    BY <2>1, <2>2, <2>3, <2>4 DEF Init, TypeOK
<1>2. (\A f \in Feedback : HeldBy(f)) /\ WaitingOnOutput
  BY DEF Init, HeldBy, In, WaitingOnOutput
<1> QED
  BY <1>1, <1>2 DEF Inv

(* What an answer changes.                                                 *)
LEMMA AnswerFate ==
  ASSUME TypeOK, NEW fs, NEW what \in {"presented", "discarded"}
  PROVE  /\ Answer(fs, what) \in [Feedback -> {"new", "held", "presented", "discarded"}]
         /\ \A f \in Feedback : Answer(fs, what)[f] = IF f \in fs THEN what ELSE fate[f]
  BY DEF TypeOK, Answer

-----------------------------------------------------------------------------
LEMMA RequestInv ==
  ASSUME Assumptions, Inv, NEW f \in Feedback, Request(f)
  PROVE  Inv'
<1>1. TypeOK'
  BY DEF Inv, TypeOK, Request, locks
<1>2. ASSUME NEW g \in Feedback PROVE HeldBy(g)'
  BY DEF Inv, TypeOK, Request, locks, HeldBy, In
<1>3. WaitingOnOutput'
  BY DEF Inv, Request, locks, WaitingOnOutput
<1> QED
  BY <1>1, <1>2, <1>3 DEF Inv

(* A commit of any kind answers the list that is superseded, and puts      *)
(* another one in its place.                                               *)
LEMMA CommitInv ==
  ASSUME Assumptions, Inv, Commit \/ CommitCached \/ ApplyCached \/ Desynchronize
  PROVE  Inv'
<1>1. WaitingOnOutput'
  BY DEF Inv, WaitingOnOutput, Commit, CommitCached, ApplyCached, Desynchronize, locks
<1>2. CASE Commit
  <2>1. TypeOK'
    BY <1>2, AnswerFate DEF Inv, TypeOK, Commit, MoveToCurrent, Discard, locks
  <2>2. \A f \in Feedback : HeldBy(f)'
    BY <1>2, AnswerFate DEF Inv, Commit, MoveToCurrent, Discard, locks, HeldBy, In
  <2> QED
    BY <1>1, <2>1, <2>2 DEF Inv
<1>3. CASE CommitCached
  <2>1. TypeOK'
    BY <1>3, AnswerFate DEF Inv, TypeOK, CommitCached, Discard, locks
  <2>2. \A f \in Feedback : HeldBy(f)'
    BY <1>3, AnswerFate DEF Inv, CommitCached, Discard, locks, HeldBy, In
  <2> QED
    BY <1>1, <2>1, <2>2 DEF Inv
<1>4. CASE ApplyCached \/ Desynchronize
  <2>1. TypeOK'
    <3>1. UNCHANGED locks /\ synchronized' \in BOOLEAN /\ fate' = Discard(current)
      BY <1>4 DEF ApplyCached, Desynchronize, MoveToCurrent, Inv, TypeOK
    <3> QED
      BY <1>4, <3>1, AnswerFate DEF Inv, TypeOK, ApplyCached, Desynchronize, MoveToCurrent,
                                    Discard, locks
  <2>2. \A f \in Feedback : HeldBy(f)'
    BY <1>4, AnswerFate DEF Inv, ApplyCached, Desynchronize, MoveToCurrent, Discard, locks,
                            HeldBy, In
  <2> QED
    BY <1>1, <2>1, <2>2 DEF Inv
<1> QED
  BY <1>2, <1>3, <1>4

LEMMA SynchronizeInv ==
  ASSUME Assumptions, Inv, Synchronize
  PROVE  Inv'
  BY DEF Inv, TypeOK, Synchronize, lists, locks, HeldBy, In, WaitingOnOutput

LEMMA DestroySubsurfaceInv ==
  ASSUME Assumptions, Inv, DestroySubsurface
  PROVE  Inv'
<1>1. TypeOK'
  BY AnswerFate DEF Inv, TypeOK, DestroySubsurface, Discard, locks
<1>2. \A f \in Feedback : HeldBy(f)'
  BY AnswerFate DEF Inv, DestroySubsurface, Discard, locks, HeldBy, In
<1>3. WaitingOnOutput'
  BY DEF Inv, WaitingOnOutput, DestroySubsurface, locks
<1> QED
  BY <1>1, <1>2, <1>3 DEF Inv

(* The lists of the surface are answered, the cached one is kept.          *)
LEMMA DestroySurfaceInv ==
  ASSUME Assumptions, Inv, DestroySurface
  PROVE  Inv'
<1>1. TypeOK'
  BY AnswerFate DEF Inv, TypeOK, DestroySurface, Discard
<1>2. ASSUME NEW f \in Feedback PROVE HeldBy(f)'
  <2>1. f \in pending \cup current \cup AllWaiting <=>
          f \in pending \/ f \in current \/ \E i \in open : f \in waiting[i]
    BY DEF AllWaiting
  <2>2. fate'[f] = IF f \in pending \cup current \cup AllWaiting THEN "discarded" ELSE fate[f]
    BY AnswerFate DEF Inv, DestroySurface, Discard
  <2> QED
    BY <2>1, <2>2 DEF Inv, DestroySurface, HeldBy, In
<1>3. WaitingOnOutput'
  BY DEF WaitingOnOutput, DestroySurface
<1> QED
  BY <1>1, <1>2, <1>3 DEF Inv

-----------------------------------------------------------------------------
(* The current list moves under a key that no list waits under.            *)
LEMMA LockPresentationInv ==
  ASSUME Assumptions, Inv, NEW o \in Output, LockPresentation(o)
  PROVE  Inv'
<1> DEFINE n == lastId + 1
<1>1. n \in Id /\ n \notin open /\ open \subseteq Id /\ lastId \in Nat
  BY OpenIds DEF Inv, TypeOK, LockPresentation, Id
<1>2. waiting'[n] = current /\ \A i \in open : waiting'[i] = waiting[i]
  BY <1>1 DEF Inv, TypeOK, LockPresentation
<1>3. output'[n] = o /\ \A i \in open : output'[i] = output[i]
  BY <1>1 DEF Inv, TypeOK, LockPresentation
<1>4. open' = open \cup {n} /\ current' = {}
      /\ UNCHANGED <<surface, synchronized, outputs, fate, pending, cached>>
  BY DEF LockPresentation, CurrentAfterLock
<1>5. TypeOK'
  BY <1>1, <1>4 DEF Assumptions, Inv, TypeOK, LockPresentation, Id
<1>6. \A f \in Feedback : HeldBy(f)'
  BY <1>1, <1>2, <1>4 DEF Inv, HeldBy, In
<1>7. WaitingOnOutput'
  BY <1>2, <1>3, <1>4 DEF Inv, WaitingOnOutput, LockPresentation
<1> QED
  BY <1>5, <1>6, <1>7 DEF Inv

LEMMA AnsweredInv ==
  ASSUME Assumptions, Inv, NEW i \in Id, NEW what \in {"presented", "discarded"},
         Answered(i, what)
  PROVE  Inv'
<1>1. /\ i \in open /\ open' = open \ {i} /\ open \subseteq Id
      /\ \A j \in open' : waiting'[j] = waiting[j]
  BY OpenIds DEF Inv, TypeOK, Answered
<1>2. TypeOK'
  BY AnswerFate DEF Inv, TypeOK, Answered, lists
<1>3. \A f \in Feedback : HeldBy(f)'
  BY <1>1, AnswerFate DEF Inv, Answered, lists, HeldBy, In
<1>4. WaitingOnOutput'
  BY <1>1 DEF Inv, Answered, WaitingOnOutput
<1> QED
  BY <1>2, <1>3, <1>4 DEF Inv

(* The lists that wait for the output are answered and stay empty.         *)
LEMMA RemoveOutputInv ==
  ASSUME Assumptions, Inv, NEW o \in Output, RemoveOutput(o)
  PROVE  Inv'
<1> DEFINE fs == UNION {waiting[i] : i \in ToDiscard(o)}
<1>1. ASSUME NEW f PROVE f \in fs <=> \E i \in open : output[i] = o /\ f \in waiting[i]
  BY DEF ToDiscard, OnOutput
<1>2. ASSUME NEW i \in open
      PROVE  /\ i \in Id
             /\ waiting'[i] = IF output[i] = o THEN {} ELSE waiting[i]
             /\ output'[i] = IF output[i] = o THEN None ELSE output[i]
  BY OpenIds DEF Inv, TypeOK, RemoveOutput, ToDiscard, OnOutput
<1>3. fate' = Discard(fs) /\ outputs' = outputs \ {o}
      /\ UNCHANGED <<surface, synchronized, lists, lastId, open>>
  BY DEF RemoveOutput
<1> HIDE DEF fs
<1>4. TypeOK'
  BY <1>3, AnswerFate DEF Inv, TypeOK, RemoveOutput, Discard, lists
<1>5. ASSUME NEW f \in Feedback PROVE HeldBy(f)'
  <2>1. fate'[f] = IF f \in fs THEN "discarded" ELSE fate[f]
    BY <1>3, AnswerFate DEF Inv, Discard
  <2> QED
    BY <1>1, <1>2, <1>3, <2>1 DEF Inv, lists, HeldBy, In
<1>6. WaitingOnOutput'
  BY <1>2, <1>3 DEF Inv, WaitingOnOutput
<1> QED
  BY <1>4, <1>5, <1>6 DEF Inv

LEMMA NextInv == Assumptions /\ Inv /\ [Next]_vars => Inv'
<1> SUFFICES ASSUME Assumptions, Inv, [Next]_vars PROVE Inv'
  OBVIOUS
<1>1. ASSUME NEW f \in Feedback, Request(f) PROVE Inv'
  BY <1>1, RequestInv
<1>2. CASE Commit \/ CommitCached \/ ApplyCached \/ Desynchronize
  BY <1>2, CommitInv
<1>3. CASE Synchronize
  BY <1>3, SynchronizeInv
<1>4. CASE DestroySubsurface
  BY <1>4, DestroySubsurfaceInv
<1>5. CASE DestroySurface
  BY <1>5, DestroySurfaceInv
<1>6. ASSUME NEW o \in Output, LockPresentation(o) PROVE Inv'
  BY <1>6, LockPresentationInv
<1>7. ASSUME NEW o \in Output, RemoveOutput(o) PROVE Inv'
  BY <1>7, RemoveOutputInv
<1>8. ASSUME NEW i \in Id, Presented(i) \/ Discarded(i) PROVE Inv'
  BY <1>8, AnsweredInv DEF Presented, Discarded
<1>9. CASE UNCHANGED vars
  BY <1>9 DEF Inv, TypeOK, vars, lists, locks, HeldBy, In, WaitingOnOutput
<1> QED
  BY <1>1, <1>2, <1>3, <1>4, <1>5, <1>6, <1>7, <1>8, <1>9 DEF Next

(* A feedback is answered once and never forgotten, and waits for an       *)
(* output that exists, through any number of commits, locks and removals   *)
(* (surface.cpp:668, 1041, 1073-1149).                                     *)
THEOREM FeedbackHeldCorrect ==
  ASSUME Assumptions
  PROVE  Spec => []FeedbackHeld
<1>1. Inv => FeedbackHeld
  BY HeldOnceFromEach DEF Inv, FeedbackHeld
<1> QED
  BY InitInv, NextInv, <1>1, PTL DEF Spec

-----------------------------------------------------------------------------
(* Effects: one lemma for the inductive invariant of both properties.  It  *)
(* adds that the surface listens to the effect it shows.                   *)

EffectsInv ==
  /\ Effects!TypeOK /\ notifier = effectCurrent /\ DeadEffectLeaves /\ LiveEffectStays
  /\ effectPlain => ~effectSynced

LEMMA UnsetField == Effects!Unset \in Effects!Field
  BY DEF Effects!Unset, Effects!Field, Effects!Pointer

LEMMA EffectsInitInv == Effects!Init => EffectsInv
  BY UnsetField DEF Effects!Init, Effects!TypeOK, Effects!Pointer, EffectsInv, LiveEffectStays,
       DeadEffectLeaves, Effects!LiveEffectStays, Effects!DeadEffectLeaves

LEMMA MoveToCurrentInv ==
  ASSUME EffectsInv, ~effectFault, NEW source \in Effects!Field, Effects!MoveToCurrent(source),
         source = effectPending \/ ~effectPlain,
         UNCHANGED <<effectPlain, created, alive>>
  PROVE  /\ effectCurrent' \in Effects!Pointer /\ effectFault' \in BOOLEAN
         /\ notifier' = effectCurrent'
         /\ effectPlain /\ ~effectFault' => effectCurrent' \notin created \ alive
  BY DEF EffectsInv, Effects!TypeOK, Effects!MoveToCurrent, Effects!Notified, Effects!Field,
         LiveEffectStays, DeadEffectLeaves, Effects!LiveEffectStays, Effects!DeadEffectLeaves

LEMMA EffectsNextInv == Effects!Assumptions /\ EffectsInv /\ [Effects!Next]_(Effects!vars) => EffectsInv'
<1> SUFFICES ASSUME Effects!Assumptions, EffectsInv, [Effects!Next]_(Effects!vars)
             PROVE  EffectsInv'
  OBVIOUS
<1> USE DEF EffectsInv, Effects!TypeOK, LiveEffectStays, DeadEffectLeaves,
            Effects!LiveEffectStays, Effects!DeadEffectLeaves
<1>1. ASSUME NEW e \in Effect, Effects!Create(e) PROVE EffectsInv'
  BY <1>1 DEF Effects!Create, Effects!Set, Effects!Field, Effects!Pointer, Effects!Assumptions
<1>2. ASSUME NEW e \in Effect, Effects!Destroy(e) PROVE EffectsInv'
  BY <1>2 DEF Effects!Destroy, Effects!NeedsReset, Effects!Set, Effects!Field, Effects!Pointer
<1>3. CASE Effects!UnsetEffect
  BY <1>3 DEF Effects!UnsetEffect, Effects!Set, Effects!Field, Effects!Pointer
<1>4. CASE ~effectFault /\ Effects!Commit
  <2>1. /\ UNCHANGED <<effectPlain, effectSynced, created, alive, effectCached>>
        /\ effectPending' = Effects!Unset /\ effectAsked' = Effects!Unset
        /\ Effects!MoveToCurrent(effectPending)
    BY <1>4 DEF Effects!Commit
  <2> QED
    BY <1>4, <2>1, UnsetField, MoveToCurrentInv
<1>5. CASE Effects!CommitCached
  BY <1>5, UnsetField DEF Effects!CommitCached
<1>6. CASE ~effectFault /\ (Effects!ApplyCached \/ Effects!Desynchronize)
  <2>1. /\ UNCHANGED <<effectPlain, created, alive, effectPending, effectAsked>>
        /\ effectSynced /\ effectSynced' \in BOOLEAN
        /\ effectCached' = Effects!Unset /\ Effects!MoveToCurrent(effectCached)
    BY <1>6 DEF Effects!ApplyCached, Effects!Desynchronize
  <2> QED
    BY <1>6, <2>1, UnsetField, MoveToCurrentInv
<1>7. CASE Effects!Synchronize
  BY <1>7 DEF Effects!Synchronize
<1>8. CASE Effects!DestroySubsurface
  BY <1>8, UnsetField DEF Effects!DestroySubsurface
<1>9. CASE UNCHANGED Effects!vars
  BY <1>9 DEF Effects!vars
<1> QED
  BY <1>1, <1>2, <1>3, <1>4, <1>5, <1>6, <1>7, <1>8, <1>9 DEF Effects!Next

(* A surface that is no subsurface gives up a live effect only when its    *)
(* client asks for it, for any number of effects and any order of commits  *)
(* and destructions (surface_p.h:195-233).                                 *)
THEOREM LiveEffectStaysCorrect ==
  ASSUME Effects!Assumptions
  PROVE  Effects!Spec => []LiveEffectStays
<1>1. EffectsInv => LiveEffectStays
  BY DEF EffectsInv
<1> QED
  BY EffectsInitInv, EffectsNextInv, <1>1, PTL DEF Effects!Spec

(* A surface that is no subsurface does not go on showing an effect that   *)
(* is gone (surface.cpp:556-599).                                          *)
THEOREM DeadEffectLeavesCorrect ==
  ASSUME Effects!Assumptions
  PROVE  Effects!Spec => []DeadEffectLeaves
<1>1. EffectsInv => DeadEffectLeaves
  BY DEF EffectsInv
<1> QED
  BY EffectsInitInv, EffectsNextInv, <1>1, PTL DEF Effects!Spec

-----------------------------------------------------------------------------
(* Constraints of the pointer: what ConstraintLive says of one surface,    *)
(* and of which kind the constraint in each of its two pointers is.        *)

ConstraintTypes ==
  /\ Constraints!TypeOK
  /\ lockedBy \in [Surface -> Constraint \cup {None}]
  /\ confined \in [Surface -> Constraint \cup {None}]
  /\ oneShotConnection \in [Surface -> Constraint \cup {None}]
  /\ unboundConnection \in [Surface -> Constraint \cup {None}]

LiveOn(s) ==
  /\ lockedBy[s] # None =>
       /\ confined[s] = None /\ unboundConnection[s] = lockedBy[s]
       /\ lockedBy[s] \in pointerLocks \ spent
  /\ confined[s] # None =>
       /\ unboundConnection[s] = confined[s]
       /\ confined[s] \in constraints \ (pointerLocks \cup spent)
  /\ lockedBy[s] = None /\ confined[s] = None => unboundConnection[s] = None
  /\ oneShotConnection[s] =
       IF unboundConnection[s] \in oneShots THEN unboundConnection[s] ELSE None

ConstraintsInv == ConstraintTypes /\ \A s \in constrainable : LiveOn(s)

LEMMA ConstraintsInvLive ==
  ASSUME Constraints!Assumptions, ConstraintsInv
  PROVE  ConstraintLive
<1> SUFFICES ASSUME NEW s \in constrainable
             PROVE  /\ Constraints!ConstraintOn(s) \subseteq constraints \ spent
                    /\ lockedBy[s] = None \/ confined[s] = None
                    /\ Constraints!ConstraintOn(s) = {unboundConnection[s]} \ {None}
                    /\ Constraints!ConstraintOn(s) \cap oneShots = {oneShotConnection[s]} \ {None}
  BY DEF ConstraintLive, Constraints!ConstraintLive
<1>1. /\ LiveOn(s) /\ None \notin oneShots /\ pointerLocks \subseteq constraints
  BY DEF ConstraintsInv, ConstraintTypes, Constraints!TypeOK, Constraints!Assumptions
<1> QED
  BY <1>1 DEF LiveOn, Constraints!ConstraintOn

LEMMA ConstraintsInitInv ==
  ASSUME Constraints!Assumptions, Constraints!Init
  PROVE  ConstraintsInv
  BY DEF Constraints!Assumptions, Constraints!Init, Constraints!TypeOK, Constraints!Pointers,
         ConstraintsInv, ConstraintTypes, LiveOn

LEMMA ConstraintCreated ==
  ASSUME Constraints!Assumptions, ConstraintsInv, NEW c \in Constraint, NEW s \in Surface,
         NEW isLock \in BOOLEAN, NEW isOneShot \in BOOLEAN,
         Constraints!Create(c, s, isLock, isOneShot)
  PROVE  ConstraintsInv'
  BY DEF Constraints!Assumptions, Constraints!Create, Constraints!Unconstrained,
         Constraints!ConstraintOn, Constraints!TypeOK, Constraints!Pointers,
         ConstraintsInv, ConstraintTypes, LiveOn

LEMMA ConstraintActivated ==
  ASSUME Constraints!Assumptions, ConstraintsInv, NEW c \in Constraint, Constraints!Activate(c)
  PROVE  ConstraintsInv'
  BY DEF Constraints!Activate, Constraints!surfaceVars, Constraints!TypeOK, Constraints!Pointers,
         ConstraintsInv, ConstraintTypes, LiveOn

LEMMA ConstraintDeactivated ==
  ASSUME Constraints!Assumptions, ConstraintsInv, NEW c \in Constraint, Constraints!Deactivate(c)
  PROVE  ConstraintsInv'
  BY DEF Constraints!Assumptions, Constraints!Deactivate, Constraints!CleanUp,
         Constraints!OneShotOf, Constraints!Cleaned, Constraints!TypeOK, Constraints!Pointers,
         ConstraintsInv, ConstraintTypes, LiveOn

LEMMA ConstraintDestroyed ==
  ASSUME Constraints!Assumptions, ConstraintsInv, NEW c \in Constraint, Constraints!Destroy(c)
  PROVE  ConstraintsInv'
  BY DEF Constraints!Assumptions, Constraints!Destroy, Constraints!CleanUp,
         Constraints!UnboundOf, Constraints!Cleaned, Constraints!TypeOK, Constraints!Pointers,
         ConstraintsInv, ConstraintTypes, LiveOn

LEMMA ConstrainedDestroyed ==
  ASSUME Constraints!Assumptions, ConstraintsInv, NEW s \in Surface,
         Constraints!DestroySurface(s)
  PROVE  ConstraintsInv'
  BY DEF Constraints!Assumptions, Constraints!DestroySurface, Constraints!Cleaned,
         Constraints!TypeOK, Constraints!Pointers, ConstraintsInv, ConstraintTypes, LiveOn

LEMMA ConstraintsNextInv ==
  ASSUME Constraints!Assumptions, ConstraintsInv, [Constraints!Next]_(Constraints!vars)
  PROVE  ConstraintsInv'
<1>1. CASE Constraints!Next
  BY <1>1, ConstraintCreated, ConstraintActivated, ConstraintDeactivated, ConstraintDestroyed,
     ConstrainedDestroyed DEF Constraints!Next
<1>2. CASE UNCHANGED Constraints!vars
  BY <1>2 DEF Constraints!vars, Constraints!surfaceVars, Constraints!TypeOK, Constraints!Pointers, ConstraintsInv,
              ConstraintTypes, LiveOn
<1> QED
  BY <1>1, <1>2

(* A surface has one live constraint of one kind and hears of its end and  *)
(* of nobody else's, for any number of surfaces and constraints            *)
(* (surface.cpp:273-335).                                                  *)
THEOREM ConstraintLiveCorrect ==
  ASSUME Constraints!Assumptions
  PROVE  Constraints!Spec => []ConstraintLive
<1>1. Constraints!Init => ConstraintsInv
  BY ConstraintsInitInv
<1>2. ConstraintsInv /\ [Constraints!Next]_(Constraints!vars) => ConstraintsInv'
  BY ConstraintsNextInv
<1>3. ConstraintsInv => ConstraintLive
  BY ConstraintsInvLive
<1> QED
  BY <1>1, <1>2, <1>3, PTL
     DEF Constraints!Spec

-----------------------------------------------------------------------------
(* Release of buffers: a Buffer that is pending is not shown yet and of a  *)
(* wl_buffer the client may use, and of two that were committed and are in *)
(* use each has its own.                                                   *)
Shown(o) == o \in Buffers!Objects \cap committed

ReleaseInv ==
  /\ buffers \subseteq Resource /\ busy \subseteq Resource
  /\ madeOf \in [Object -> Resource \cup {None}]
  /\ {bufferPending, bufferCurrent} \subseteq Object \cup {None}
  /\ held \subseteq Object /\ committed \subseteq Object
  /\ ReleasedWhenUnused
  /\ bufferPending # None =>
       /\ bufferPending \notin committed \cup held \cup {bufferCurrent}
       /\ madeOf[bufferPending] \in buffers \ busy
  /\ \A o, q \in Object : Shown(o) /\ Shown(q) /\ madeOf[o] = madeOf[q] => o = q \/ madeOf[o] \notin buffers

LEMMA ReleaseInit ==
  ASSUME Buffers!Assumptions, Buffers!Init
  PROVE  ReleaseInv
  BY DEF Buffers!Init, Buffers!Objects, Buffers!References, ReleaseInv, ReleasedWhenUnused,
         Buffers!ReleasedWhenUnused, Shown

LEMMA ReleaseAttach ==
  ASSUME Buffers!Assumptions, ~Recommits, ReleaseInv, NEW o \in Object, NEW r \in Resource,
         Buffers!Attach(o, r)
  PROVE  ReleaseInv'
  BY DEF Buffers!Assumptions, Buffers!Attach, Buffers!Released, Buffers!Dropped, Buffers!Objects,
         Buffers!References, ReleaseInv, ReleasedWhenUnused, Buffers!ReleasedWhenUnused, Shown

LEMMA ReleaseAttachNull ==
  ASSUME Buffers!Assumptions, ~Recommits, ReleaseInv, Buffers!AttachNull
  PROVE  ReleaseInv'
  BY DEF Buffers!Assumptions, Buffers!AttachNull, Buffers!Released, Buffers!Dropped, Buffers!Objects,
         Buffers!References, ReleaseInv, ReleasedWhenUnused, Buffers!ReleasedWhenUnused, Shown

LEMMA ReleaseCommit ==
  ASSUME Buffers!Assumptions, ~Recommits, ReleaseInv, Buffers!Commit
  PROVE  ReleaseInv'
  BY DEF Buffers!Assumptions, Buffers!Commit, Buffers!Released, Buffers!Dropped, Buffers!Objects,
         Buffers!References, ReleaseInv, ReleasedWhenUnused, Buffers!ReleasedWhenUnused, Shown

LEMMA ReleaseHold ==
  ASSUME Buffers!Assumptions, ~Recommits, ReleaseInv, Buffers!Hold
  PROVE  ReleaseInv'
  BY DEF Buffers!Assumptions, Buffers!Hold, Buffers!Released, Buffers!Dropped, Buffers!Objects,
         Buffers!References, ReleaseInv, ReleasedWhenUnused, Buffers!ReleasedWhenUnused, Shown

LEMMA ReleaseDrop ==
  ASSUME Buffers!Assumptions, ~Recommits, ReleaseInv, NEW o \in Object, Buffers!Drop(o)
  PROVE  ReleaseInv'
  BY DEF Buffers!Assumptions, Buffers!Drop, Buffers!Released, Buffers!Dropped, Buffers!Objects,
         Buffers!References, ReleaseInv, ReleasedWhenUnused, Buffers!ReleasedWhenUnused, Shown

LEMMA ReleaseDestroyResource ==
  ASSUME Buffers!Assumptions, ~Recommits, ReleaseInv, NEW r \in Resource, Buffers!DestroyResource(r)
  PROVE  ReleaseInv'
  BY DEF Buffers!Assumptions, Buffers!DestroyResource, Buffers!Released, Buffers!Dropped, Buffers!Objects,
         Buffers!References, ReleaseInv, ReleasedWhenUnused, Buffers!ReleasedWhenUnused, Shown

LEMMA ReleaseNext ==
  ASSUME Buffers!Assumptions, ~Recommits, ReleaseInv, [Buffers!Next]_(Buffers!vars)
  PROVE  ReleaseInv'
<1> USE DEF ReleaseInv, ReleasedWhenUnused, Buffers!ReleasedWhenUnused, Shown, Buffers!Objects,
            Buffers!References
<1>1. ASSUME NEW o \in Object,
             \/ Buffers!GetImage(o) \/ Buffers!CopyImage(o) \/ Buffers!CreateQImage(o)
             \/ Buffers!DestroyImage(o)
      PROVE  ReleaseInv'
  BY <1>1 DEF Buffers!GetImage, Buffers!CopyImage, Buffers!CreateQImage, Buffers!DestroyImage,
              Buffers!surfaceVars
<1>2. ASSUME NEW r \in Resource, Buffers!DestroyQImage(r) PROVE ReleaseInv'
  BY <1>2 DEF Buffers!DestroyQImage, Buffers!surfaceVars
<1>3. CASE UNCHANGED Buffers!vars
  BY <1>3 DEF Buffers!vars, Buffers!surfaceVars
<1> QED
  BY <1>1, <1>2, <1>3, ReleaseAttach, ReleaseAttachNull, ReleaseCommit, ReleaseHold, ReleaseDrop,
     ReleaseDestroyResource DEF Buffers!Next

(* A client that waits for releases is sent one exactly when the server    *)
(* uses the wl_buffer no more, for any number of buffers kept by the       *)
(* compositor (buffer.cpp:375-381, surface.cpp:451-482, 733-763).          *)
THEOREM ReleasedWhenUnusedCorrect ==
  ASSUME Buffers!Assumptions, ~Recommits
  PROVE  Buffers!Spec => []ReleasedWhenUnused
<1>1. Buffers!Init => ReleaseInv
  BY ReleaseInit
<1>2. ReleaseInv /\ [Buffers!Next]_(Buffers!vars) => ReleaseInv'
  BY ReleaseNext
<1>3. ReleaseInv => ReleasedWhenUnused
  BY DEF ReleaseInv
<1> QED
  BY <1>1, <1>2, <1>3, PTL DEF Buffers!Spec

-----------------------------------------------------------------------------
(* Access to shared memory: the images are finitely many, so that adding   *)
(* or taking one changes their number by one.                              *)

LEMMA SameCardinality == \A S : Buffers!Cardinality(S) = Cardinality(S)
  BY DEF Buffers!Cardinality, Cardinality, Buffers!IsFiniteSet, IsFiniteSet

LEMMA OneImageMore ==
  ASSUME NEW M, NEW count \in [M -> Nat], NEW m \in M, IsFiniteSet(Buffers!ImagesOf(count, M))
  PROVE  LET more == [count EXCEPT ![m] = @ + 1] IN
         /\ more \in [M -> Nat]
         /\ IsFiniteSet(Buffers!ImagesOf(more, M))
         /\ Cardinality(Buffers!ImagesOf(more, M)) = Cardinality(Buffers!ImagesOf(count, M)) + 1
<1> DEFINE more == [count EXCEPT ![m] = @ + 1]
           new == <<m, count[m] + 1>>
<1>1. new \notin Buffers!ImagesOf(count, M)
  BY DEF Buffers!ImagesOf
<1>2. Buffers!ImagesOf(more, M) = Buffers!ImagesOf(count, M) \cup {new}
  BY DEF Buffers!ImagesOf
<1>3. more \in [M -> Nat]
  OBVIOUS
<1> HIDE DEF new
<1>4. /\ IsFiniteSet(Buffers!ImagesOf(count, M) \cup {new})
      /\ Cardinality(Buffers!ImagesOf(count, M) \cup {new})
           = Cardinality(Buffers!ImagesOf(count, M)) + 1
  BY <1>1, FS_AddElement
<1> QED
  BY <1>2, <1>3, <1>4

LEMMA OneImageLess ==
  ASSUME NEW M, NEW count \in [M -> Nat], NEW m \in M, count[m] > 0,
         IsFiniteSet(Buffers!ImagesOf(count, M))
  PROVE  LET less == [count EXCEPT ![m] = @ - 1] IN
         /\ less \in [M -> Nat]
         /\ IsFiniteSet(Buffers!ImagesOf(less, M))
         /\ Cardinality(Buffers!ImagesOf(less, M)) = Cardinality(Buffers!ImagesOf(count, M)) - 1
<1> DEFINE less == [count EXCEPT ![m] = @ - 1]
           old == <<m, count[m]>>
<1>1. old \in Buffers!ImagesOf(count, M)
  BY DEF Buffers!ImagesOf
<1>2. Buffers!ImagesOf(less, M) = Buffers!ImagesOf(count, M) \ {old}
  BY DEF Buffers!ImagesOf
<1>3. less \in [M -> Nat]
  OBVIOUS
<1> QED
  BY ZenonT(40), <1>1, <1>2, <1>3, FS_RemoveElement

(* None are left exactly when every maker has none.                        *)
LEMMA NoImage ==
  ASSUME NEW M, NEW count \in [M -> Nat], IsFiniteSet(Buffers!ImagesOf(count, M))
  PROVE  /\ Cardinality(Buffers!ImagesOf(count, M)) \in Nat
         /\ Cardinality(Buffers!ImagesOf(count, M)) = 0 <=> \A m \in M : count[m] = 0
<1>1. (\A m \in M : count[m] = 0) => Buffers!ImagesOf(count, M) = {}
  BY DEF Buffers!ImagesOf
<1>2. ASSUME NEW m \in M, count[m] # 0 PROVE <<m, 1>> \in Buffers!ImagesOf(count, M)
  <2>1. 1 \in 1 .. count[m]
    BY <1>2
  <2> QED
    BY <2>1 DEF Buffers!ImagesOf
<1> QED
  BY <1>1, <1>2, FS_EmptySet, FS_CardinalityType

AccessInv ==
  /\ madeOf \in [Object -> Resource \cup {None}]
  /\ {bufferPending, bufferCurrent} \subseteq Object \cup {None} /\ held \subseteq Object
  /\ \A o \in Buffers!Objects : madeOf[o] # None
  /\ images \in [Object -> Nat] /\ qimages \in [Resource -> Nat]
  /\ accessed \in Resource \cup {None}
  /\ IsFiniteSet(Buffers!ImagesOf(images, Object))
  /\ IsFiniteSet(Buffers!ImagesOf(qimages, Resource))
  /\ AccessCounted

LEMMA AccessInit ==
  ASSUME Buffers!Assumptions, Buffers!Init
  PROVE  AccessInv
<1>1. /\ Buffers!ImagesOf(images, Object) = {}
      /\ Buffers!ImagesOf(qimages, Resource) = {}
  BY DEF Buffers!Init, Buffers!ImagesOf
<1>2. AccessCounted
  <2>1. counter = 0 /\ accessed = None
    BY DEF Buffers!Init
  <2>2. /\ Cardinality(Buffers!ImagesOf(images, Object)) = 0
        /\ Cardinality(Buffers!ImagesOf(qimages, Resource)) = 0
    BY <1>1, FS_EmptySet
  <2>3. \A o \in Object : images[o] = 0
    BY DEF Buffers!Init
  <2>4. \A r \in Resource : qimages[r] = 0
    BY DEF Buffers!Init
  <2> QED
    BY <2>1, <2>2, <2>3, <2>4, SameCardinality DEF AccessCounted, Buffers!AccessCounted
<1>3. Buffers!Objects = {}
  BY DEF Buffers!Init, Buffers!Objects, Buffers!References
<1>4. images \in [Object -> Nat] /\ qimages \in [Resource -> Nat]
  BY DEF Buffers!Init
<1> QED
  BY <1>1, <1>2, <1>3, <1>4, FS_EmptySet DEF Buffers!Init, AccessInv

(* What a step changes of access, if one image is made or goes.            *)
LEMMA ImageMade ==
  ASSUME Buffers!Assumptions, AccessInv, NEW r \in Resource, accessed \in {None, r},
         Buffers!BeginAccess(r), UNCHANGED <<madeOf, Buffers!surfaceVars>>,
         \/ /\ \E o \in Object : madeOf[o] = r /\ images' = [images EXCEPT ![o] = @ + 1]
            /\ UNCHANGED qimages
         \/ qimages' = [qimages EXCEPT ![r] = @ + 1] /\ UNCHANGED images
  PROVE  AccessInv'
<1>1. /\ images' \in [Object -> Nat] /\ qimages' \in [Resource -> Nat]
      /\ IsFiniteSet(Buffers!ImagesOf(images', Object))
      /\ IsFiniteSet(Buffers!ImagesOf(qimages', Resource))
      /\ counter' = Cardinality(Buffers!ImagesOf(images', Object))
                      + Cardinality(Buffers!ImagesOf(qimages', Resource))
      /\ counter' # 0
  BY OneImageMore, NoImage, SameCardinality DEF AccessInv, AccessCounted, Buffers!AccessCounted,
                               Buffers!BeginAccess
<1>2. /\ \A o \in Object : images'[o] > 0 => madeOf[o] = r
      /\ \A q \in Resource : qimages'[q] > 0 => q = r
  BY NoImage, SameCardinality DEF AccessInv, AccessCounted, Buffers!AccessCounted
<1> QED
  BY <1>1, <1>2, SameCardinality DEF AccessInv, AccessCounted, Buffers!AccessCounted, Buffers!BeginAccess,
                    Buffers!surfaceVars, Buffers!Objects, Buffers!References, Buffers!Assumptions

LEMMA ImageGone ==
  ASSUME Buffers!Assumptions, AccessInv, Buffers!EndAccess, UNCHANGED <<madeOf, Buffers!surfaceVars>>,
         \/ /\ \E o \in Object : images[o] > 0 /\ images' = [images EXCEPT ![o] = @ - 1]
            /\ UNCHANGED qimages
         \/ /\ \E r \in Resource : qimages[r] > 0 /\ qimages' = [qimages EXCEPT ![r] = @ - 1]
            /\ UNCHANGED images
  PROVE  AccessInv'
<1>1. /\ images' \in [Object -> Nat] /\ qimages' \in [Resource -> Nat]
      /\ IsFiniteSet(Buffers!ImagesOf(images', Object))
      /\ IsFiniteSet(Buffers!ImagesOf(qimages', Resource))
      /\ counter' = Cardinality(Buffers!ImagesOf(images', Object))
                      + Cardinality(Buffers!ImagesOf(qimages', Resource))
      /\ counter # 0
  BY OneImageLess, NoImage, SameCardinality DEF AccessInv, AccessCounted, Buffers!AccessCounted,
                               Buffers!EndAccess
<1>2. counter' = 0 => /\ \A o \in Object : images'[o] = 0
                      /\ \A r \in Resource : qimages'[r] = 0
  BY <1>1, NoImage
<1>3. /\ \A o \in Object : images'[o] > 0 => images[o] > 0
      /\ \A r \in Resource : qimages'[r] > 0 => qimages[r] > 0
  BY DEF AccessInv
<1> QED
  BY <1>1, <1>2, <1>3, SameCardinality
     DEF AccessInv, AccessCounted, Buffers!AccessCounted, Buffers!EndAccess, Buffers!AfterAccess,
         Buffers!surfaceVars, Buffers!Objects, Buffers!References, Buffers!Assumptions

LEMMA AccessNext ==
  ASSUME Buffers!Assumptions, AccessInv, [Buffers!Next]_(Buffers!vars)
  PROVE  AccessInv'
<1>1. ASSUME NEW o \in Object, Buffers!GetImage(o) \/ Buffers!CopyImage(o) \/ Buffers!CreateQImage(o)
      PROVE  AccessInv'
  <2>0. images[o] > 0 => madeOf[o] = accessed /\ accessed # None
    BY NoImage, SameCardinality DEF AccessInv, AccessCounted, Buffers!AccessCounted
  <2>1. madeOf[o] \in Resource /\ accessed \in {None, madeOf[o]}
    BY <1>1, <2>0 DEF Buffers!GetImage, Buffers!CopyImage, Buffers!CreateQImage,
         Buffers!MayAccess, AccessInv, AccessCounted, Buffers!AccessCounted
  <2>2. Buffers!BeginAccess(madeOf[o]) /\ UNCHANGED <<madeOf, Buffers!surfaceVars>>
    BY <1>1 DEF Buffers!GetImage, Buffers!CopyImage, Buffers!CreateQImage
  <2>3. \/ images' = [images EXCEPT ![o] = @ + 1] /\ UNCHANGED qimages
        \/ qimages' = [qimages EXCEPT ![madeOf[o]] = @ + 1] /\ UNCHANGED images
    BY <1>1 DEF Buffers!GetImage, Buffers!CopyImage, Buffers!CreateQImage
  <2> QED
    BY <2>1, <2>2, <2>3, ImageMade
<1>2. ASSUME NEW o \in Object, Buffers!DestroyImage(o) PROVE AccessInv'
  BY <1>2, ImageGone DEF Buffers!DestroyImage
<1>3. ASSUME NEW r \in Resource, Buffers!DestroyQImage(r) PROVE AccessInv'
  BY <1>3, ImageGone DEF Buffers!DestroyQImage
<1> USE DEF AccessInv, AccessCounted, Buffers!AccessCounted, Buffers!Objects, Buffers!References,
            Buffers!accessVars, Buffers!Assumptions
<1>4. ASSUME NEW o \in Object, NEW r \in Resource, Buffers!Attach(o, r) PROVE AccessInv'
  BY <1>4 DEF Buffers!Attach
<1>5. CASE Buffers!AttachNull
  BY <1>5 DEF Buffers!AttachNull
<1>6. CASE Buffers!Commit
  BY <1>6 DEF Buffers!Commit
<1>7. CASE Buffers!Hold
  BY <1>7 DEF Buffers!Hold
<1>8. ASSUME NEW o \in Object, Buffers!Drop(o) PROVE AccessInv'
  BY <1>8 DEF Buffers!Drop
<1>9. ASSUME NEW r \in Resource, Buffers!DestroyResource(r) PROVE AccessInv'
  BY <1>9 DEF Buffers!DestroyResource
<1>10. CASE UNCHANGED Buffers!vars
  BY <1>10 DEF Buffers!vars, Buffers!surfaceVars
<1> QED
  BY <1>1, <1>2, <1>3, <1>4, <1>5, <1>6, <1>7, <1>8, <1>9, <1>10 DEF Buffers!Next

(* The wl_buffer in access is that of every image there is, and access     *)
(* ends with the last image, for any number of images                      *)
(* (buffer_manager.cpp:53-79).                                             *)
THEOREM AccessCountedCorrect ==
  ASSUME Buffers!Assumptions
  PROVE  Buffers!Spec => []AccessCounted
<1>1. Buffers!Init => AccessInv
  BY AccessInit
<1>2. AccessInv /\ [Buffers!Next]_(Buffers!vars) => AccessInv'
  BY AccessNext
<1>3. AccessInv => AccessCounted
  BY DEF AccessInv
<1> QED
  BY <1>1, <1>2, <1>3, PTL DEF Buffers!Spec

-----------------------------------------------------------------------------
(* The order of children: what the vectors' operations do to the elements  *)
(* of a list that names a child once at most, and with it to the pairs the *)
(* list stands for.                                                        *)

Listed(s) == {s[i] : i \in 1 .. Len(s)}
Once(s) == s \in Seq(Child) /\ \A i, j \in 1 .. Len(s) : s[i] = s[j] => i = j

LEMMA ListLength ==
  ASSUME NEW s \in Seq(Child)
  PROVE  Len(s) \in Nat /\ Children!ToSet(s) = Listed(s) /\ Listed(s) \subseteq Child
  BY LenProperties DEF Children!ToSet, Listed

LEMMA IndexOfElement ==
  ASSUME NEW s, Once(s), NEW k \in 1 .. Len(s)
  PROVE  Children!IndexOf(s, s[k]) = k
<1>1. {i \in 1 .. Len(s) : s[i] = s[k]} = {k}
  BY DEF Once
<1>2. Children!Min({k}) = k
  <2>1. k \in Int
    BY ListLength DEF Once
  <2> QED
    BY <2>1 DEF Children!Min
<1> QED
  BY <1>1, <1>2 DEF Children!IndexOf, Children!SelectInSeq

LEMMA InsertElements ==
  ASSUME NEW s \in Seq(Child), NEW k \in 1 .. Len(s) + 1, NEW c \in Child
  PROVE  LET t == Children!InsertAt(s, k, c)
         IN  /\ t \in Seq(Child) /\ Len(t) = Len(s) + 1
             /\ \A i \in 1 .. Len(s) + 1 :
                  t[i] = IF i < k THEN s[i] ELSE IF i = k THEN c ELSE s[i - 1]
<1> DEFINE n == Len(s)
           before == SubSeq(s, 1, k - 1)
           after == SubSeq(s, k, n)
           upTo == before \o <<c>>
<1>1. n \in Nat /\ k \in Int /\ k - 1 \in Int /\ \A i \in 1 .. n : s[i] \in Child
  BY LenProperties
<1>2. /\ before \in Seq(Child) /\ Len(before) = k - 1
      /\ \A i \in 1 .. k - 1 : before[i] = s[i]
  BY <1>1, SubSeqProperties
<1>3. /\ after \in Seq(Child) /\ Len(after) = n + 1 - k
      /\ \A i \in 1 .. n + 1 - k : after[i] = s[k + i - 1]
  BY <1>1, SubSeqProperties
<1> HIDE DEF before, after
<1>4. /\ upTo \in Seq(Child) /\ Len(upTo) = k
      /\ \A i \in 1 .. k - 1 : upTo[i] = s[i]
      /\ upTo[k] = c
  <2>1. <<c>> \in Seq(Child) /\ Len(<<c>>) = 1 /\ <<c>>[1] = c
    OBVIOUS
  <2> QED
    BY <1>1, <1>2, <2>1, ConcatProperties
<1> HIDE DEF upTo
<1> DEFINE t == upTo \o after
<1>5. /\ t \in Seq(Child) /\ Len(t) = n + 1
      /\ \A i \in 1 .. n + 1 : t[i] = IF i <= k THEN upTo[i] ELSE after[i - k]
  <2>1. /\ t \in Seq(Child) /\ Len(t) = Len(upTo) + Len(after)
        /\ \A i \in 1 .. Len(upTo) + Len(after) :
             t[i] = IF i <= Len(upTo) THEN upTo[i] ELSE after[i - Len(upTo)]
    BY <1>3, <1>4, ConcatProperties
  <2>2. Len(upTo) = k /\ Len(upTo) + Len(after) = n + 1
    BY <1>1, <1>3, <1>4
  <2> QED
    BY <2>1, <2>2
<1>6. ASSUME NEW i \in 1 .. n + 1
      PROVE  t[i] = IF i < k THEN s[i] ELSE IF i = k THEN c ELSE s[i - 1]
  BY <1>1, <1>3, <1>4, <1>5
<1> QED
  BY <1>5, <1>6 DEF Children!InsertAt, upTo, before, after

LEMMA RemoveElements ==
  ASSUME NEW s, Once(s), NEW k \in 1 .. Len(s)
  PROVE  LET t == Children!RemoveFirst(s, s[k])
         IN  /\ t \in Seq(Child) /\ Len(t) = Len(s) - 1
             /\ \A i \in 1 .. Len(s) - 1 : t[i] = IF i < k THEN s[i] ELSE s[i + 1]
<1> DEFINE n == Len(s)
           before == SubSeq(s, 1, k - 1)
           after == SubSeq(s, k + 1, n)
<1>1. n \in Nat /\ k \in Int /\ k - 1 \in Int /\ k + 1 \in Int /\ \A i \in 1 .. n : s[i] \in Child
  BY LenProperties DEF Once
<1>2. /\ before \in Seq(Child) /\ Len(before) = k - 1
      /\ \A i \in 1 .. k - 1 : before[i] = s[i]
  BY <1>1, SubSeqProperties
<1>3. /\ after \in Seq(Child) /\ Len(after) = n - k
      /\ \A i \in 1 .. n - k : after[i] = s[k + i]
  BY <1>1, SubSeqProperties
<1>4. Children!RemoveFirst(s, s[k]) = before \o after
  <2>1. Children!SelectInSeq(s, LAMBDA v : v = s[k]) = k
    BY IndexOfElement DEF Children!IndexOf
  <2> QED
    BY <2>1 DEF Children!RemoveFirst, Children!RemoveAt
<1> HIDE DEF before, after
<1> DEFINE t == before \o after
<1>5. /\ t \in Seq(Child) /\ Len(t) = n - 1
      /\ \A i \in 1 .. n - 1 : t[i] = IF i <= k - 1 THEN before[i] ELSE after[i - (k - 1)]
  <2>1. /\ t \in Seq(Child) /\ Len(t) = Len(before) + Len(after)
        /\ \A i \in 1 .. Len(before) + Len(after) :
             t[i] = IF i <= Len(before) THEN before[i] ELSE after[i - Len(before)]
    BY <1>2, <1>3, ConcatProperties
  <2>2. Len(before) = k - 1 /\ Len(before) + Len(after) = n - 1
    BY <1>1, <1>2, <1>3
  <2> QED
    BY <2>1, <2>2
<1> HIDE DEF t
<1>6. ASSUME NEW i \in 1 .. n - 1
      PROVE  t[i] = IF i < k THEN s[i] ELSE s[i + 1]
  <2>1. CASE i < k
    BY <1>1, <1>2, <1>5, <2>1
  <2>2. CASE ~(i < k)
    <3>1. i - (k - 1) \in 1 .. n - k /\ k + (i - (k - 1)) = i + 1
      BY <1>1, <2>2
    <3> QED
      BY <1>1, <1>3, <1>5, <2>2, <3>1
  <2> QED
    BY <2>1, <2>2
<1> QED
  BY <1>4, <1>5, <1>6 DEF t

LEMMA PairsElement ==
  ASSUME NEW s \in Seq(Child), NEW p
  PROVE  p \in Children!Pairs(s) <=> \E i \in 1 .. Len(s) : \E j \in 1 .. i : p = <<s[i], s[j]>>
  BY LenProperties DEF Children!Pairs

LEMMA KidsAreListed ==
  ASSUME NEW s \in Seq(Child)
  PROVE  Children!Order!KidsIn(Children!Pairs(s)) = Listed(s)
<1>1. ASSUME NEW i \in 1 .. Len(s)
      PROVE  s[i] \in Child /\ <<s[i], s[i]>> \in Children!Pairs(s)
  <2>1. i \in 1 .. i /\ s[i] \in Child
    BY LenProperties
  <2> QED
    BY <2>1, PairsElement
<1>2. ASSUME NEW x, <<x, x>> \in Children!Pairs(s)
      PROVE  x \in Listed(s)
  <2>1. PICK i \in 1 .. Len(s) : \E j \in 1 .. i : <<x, x>> = <<s[i], s[j]>>
    BY <1>2, PairsElement
  <2> QED
    BY <2>1 DEF Listed
<1> QED
  BY <1>1, <1>2 DEF Children!Order!KidsIn, Listed

(* What is over the k-th child and no lower than it.                       *)
LEMMA OverElement ==
  ASSUME NEW s, Once(s), NEW k \in 1 .. Len(s)
  PROVE  Children!Order!OverOf(Children!Pairs(s), s[k]) = {s[i] : i \in 1 .. k}
<1>1. s \in Seq(Child) /\ Len(s) \in Nat
  BY LenProperties DEF Once
<1>2. ASSUME NEW y, <<s[k], y>> \in Children!Pairs(s) PROVE y \in {s[i] : i \in 1 .. k}
  <2>1. PICK i \in 1 .. Len(s) : \E j \in 1 .. i : <<s[k], y>> = <<s[i], s[j]>>
    BY <1>1, <1>2, PairsElement
  <2>2. i = k
    BY <2>1 DEF Once
  <2> QED
    BY <2>1, <2>2
<1>3. ASSUME NEW i \in 1 .. k PROVE s[i] \in Listed(s) /\ <<s[k], s[i]>> \in Children!Pairs(s)
  BY <1>1, PairsElement DEF Listed
<1> QED
  BY <1>1, <1>2, <1>3, KidsAreListed DEF Children!Order!OverOf

(* The list t is s with c in the k-th place.                               *)
Inserted(s, k, c, t) ==
  /\ t \in Seq(Child) /\ Len(t) = Len(s) + 1
  /\ \A i \in 1 .. Len(s) + 1 : t[i] = IF i < k THEN s[i] ELSE IF i = k THEN c ELSE s[i - 1]

(* The children below the k-th place.                                      *)
Lower(s, k) == {s[i] : i \in 1 .. k - 1}

LEMMA PairsInserted ==
  ASSUME NEW s, Once(s), NEW k \in 1 .. Len(s) + 1, NEW c \in Child \ Listed(s), NEW t,
         Inserted(s, k, c, t)
  PROVE  /\ Once(t) /\ Listed(t) = Listed(s) \cup {c}
         /\ Children!Pairs(t)
              = Children!Order!Put(Children!Pairs(s), c, Lower(s, k))
<1> DEFINE n == Len(s)
           below == {s[i] : i \in 1 .. k - 1}
           put == Children!Order!Put(Children!Pairs(s), c, below)
           Place(m) == IF m < k THEN m ELSE m + 1
<1>1. /\ s \in Seq(Child) /\ n \in Nat /\ k \in Nat /\ k <= n + 1 /\ k > 0
      /\ t \in Seq(Child) /\ Len(t) = n + 1
  BY LenProperties DEF Once, Inserted
<1>2. /\ t[k] = c
      /\ \A i \in 1 .. n + 1 : i < k => i \in 1 .. n /\ t[i] = s[i]
      /\ \A i \in 1 .. n + 1 : i > k => i - 1 \in 1 .. n /\ t[i] = s[i - 1]
  BY <1>1 DEF Inserted
<1>3. \A m \in 1 .. n : Place(m) \in 1 .. n + 1 /\ Place(m) # k /\ t[Place(m)] = s[m]
  BY <1>1, <1>2
<1>4. Listed(t) = Listed(s) \cup {c}
  <2>1. ASSUME NEW i \in 1 .. n + 1 PROVE t[i] \in Listed(s) \cup {c}
    BY <1>1, <1>2 DEF Listed
  <2>2. c \in Listed(t) /\ \A m \in 1 .. n : s[m] \in Listed(t)
    BY <1>1, <1>2, <1>3 DEF Listed
  <2> QED
    BY <1>1, <2>1, <2>2 DEF Listed
<1>5. Once(t)
  <2> SUFFICES ASSUME NEW i \in 1 .. n + 1, NEW j \in 1 .. n + 1, t[i] = t[j]
               PROVE  i = j
    BY <1>1 DEF Once
  <2>1. \A m \in 1 .. n : s[m] # c
    BY DEF Listed
  <2>2. \A m \in 1 .. n + 1 : m # k => t[m] # c
    <3> SUFFICES ASSUME NEW m \in 1 .. n + 1, m # k PROVE t[m] # c
      OBVIOUS
    <3>1. CASE m < k
      BY <1>2, <2>1, <3>1
    <3>2. CASE m > k
      BY <1>2, <2>1, <3>2
    <3> QED
      BY <1>1, <3>1, <3>2
  <2>3. CASE i # k /\ j # k
    <3> DEFINE a == IF i < k THEN i ELSE i - 1
               b == IF j < k THEN j ELSE j - 1
    <3>1. a \in 1 .. n /\ b \in 1 .. n /\ s[a] = s[b]
      BY <1>1, <1>2, <2>3
    <3>2. a = b
      BY <3>1 DEF Once
    <3>3. i < k <=> j < k
      BY <1>1, <2>3, <3>2
    <3> QED
      BY <2>3, <3>2, <3>3
  <2> QED
    BY <1>2, <2>2, <2>3
<1>6. ASSUME NEW p \in Children!Pairs(t) PROVE p \in put
  <2>1. PICK i \in 1 .. n + 1 : \E j \in 1 .. i : p = <<t[i], t[j]>>
    BY <1>1, PairsElement
  <2>2. PICK j \in 1 .. i : p = <<t[i], t[j]>>
    BY <2>1
  <2>3. CASE i = k /\ j = k
    BY <1>2, <2>2, <2>3 DEF Children!Order!Put
  <2>4. CASE i = k /\ j < k
    BY <1>1, <1>2, <2>2, <2>4 DEF Children!Order!Put
  <2>5. CASE i > k /\ j = k
    <3>1. i - 1 \in 1 .. n /\ p = <<s[i - 1], c>>
      BY <1>1, <1>2, <2>2, <2>5
    <3>2. s[i - 1] \notin below
      BY <1>1, <2>5, <3>1 DEF Once
    <3>3. s[i - 1] \in Children!Order!KidsIn(Children!Pairs(s)) \ below
      BY <1>1, <3>1, <3>2, KidsAreListed DEF Listed
    <3> QED
      BY <3>1, <3>3 DEF Children!Order!Put
  <2>6. CASE i # k /\ j # k
    <3>1. \E a \in 1 .. n : \E b \in 1 .. a : p = <<s[a], s[b]>>
      <4> DEFINE a == IF i < k THEN i ELSE i - 1
                 b == IF j < k THEN j ELSE j - 1
      <4>1. a \in 1 .. n /\ b \in 1 .. a /\ p = <<s[a], s[b]>>
        BY <1>1, <1>2, <2>2, <2>6
      <4> QED
        BY <4>1
    <3> QED
      BY <1>1, <3>1, PairsElement DEF Children!Order!Put
  <2> QED
    BY <1>1, <2>3, <2>4, <2>5, <2>6
<1>7. ASSUME NEW p \in put PROVE p \in Children!Pairs(t)
  <2> SUFFICES \E i \in 1 .. n + 1 : \E j \in 1 .. i : p = <<t[i], t[j]>>
    BY <1>1, PairsElement
  <2>1. CASE p \in Children!Pairs(s)
    <3>1. PICK a \in 1 .. n : \E b \in 1 .. a : p = <<s[a], s[b]>>
      BY <1>1, <2>1, PairsElement
    <3>2. PICK b \in 1 .. a : p = <<s[a], s[b]>>
      BY <3>1
    <3>3. b \in 1 .. n /\ Place(b) \in 1 .. Place(a)
      BY <1>1, <1>3
    <3> QED
      BY <1>3, <3>2, <3>3
  <2>2. CASE p = <<c, c>>
    BY <1>1, <1>2, <2>2
  <2>3. ASSUME NEW x \in below, p = <<c, x>> PROVE \E i \in 1 .. n + 1 : \E j \in 1 .. i : p = <<t[i], t[j]>>
    <3>1. PICK m \in 1 .. k - 1 : x = s[m]
      BY <2>3
    <3>2. m \in 1 .. n + 1 /\ m < k /\ k \in 1 .. n + 1 /\ m \in 1 .. k
      BY <1>1
    <3> QED
      BY <1>2, <2>3, <3>1, <3>2
  <2>4. ASSUME NEW x \in Children!Order!KidsIn(Children!Pairs(s)) \ below, p = <<x, c>>
        PROVE  \E i \in 1 .. n + 1 : \E j \in 1 .. i : p = <<t[i], t[j]>>
    <3>1. PICK m \in 1 .. n : x = s[m]
      BY <1>1, <2>4, KidsAreListed DEF Listed
    <3>2. ~(m < k)
      BY <1>1, <2>4, <3>1
    <3>3. Place(m) \in 1 .. n + 1 /\ k \in 1 .. Place(m) /\ t[Place(m)] = x
      BY <1>1, <1>3, <3>1, <3>2
    <3> QED
      BY <1>2, <2>4, <3>3
  <2> QED
    BY <2>1, <2>2, <2>3, <2>4 DEF Children!Order!Put
<1> QED
  BY <1>4, <1>5, <1>6, <1>7 DEF Lower

LEMMA PairsRemoved ==
  ASSUME NEW s, Once(s), NEW c
  PROVE  LET t == Children!RemoveFirst(s, c)
         IN  /\ Once(t) /\ Listed(t) = Listed(s) \ {c}
             /\ Children!Pairs(t) = Children!Order!Without(Children!Pairs(s), c)
<1> DEFINE n == Len(s)
           t == Children!RemoveFirst(s, c)
           without == Children!Order!Without(Children!Pairs(s), c)
<1>1. s \in Seq(Child) /\ n \in Nat /\ \A i \in 1 .. n : s[i] \in Child
  BY LenProperties DEF Once
<1>2. CASE c \notin Listed(s)
  <2>1. t = s
    BY <1>2 DEF Children!RemoveFirst, Listed
  <2>2. \A p \in Children!Pairs(s) : c \notin {p[1], p[2]}
    <3> SUFFICES ASSUME NEW p \in Children!Pairs(s) PROVE c \notin {p[1], p[2]}
      OBVIOUS
    <3>1. PICK i \in 1 .. n : \E j \in 1 .. i : p = <<s[i], s[j]>>
      BY <1>1, PairsElement
    <3>2. PICK j \in 1 .. i : p = <<s[i], s[j]>>
      BY <3>1
    <3>3. j \in 1 .. n
      BY <1>1
    <3> QED
      BY <1>2, <3>2, <3>3 DEF Listed
  <2> QED
    BY <1>2, <2>1, <2>2 DEF Children!Order!Without
<1>3. ASSUME NEW k \in 1 .. n, s[k] = c
      PROVE  Once(t) /\ Listed(t) = Listed(s) \ {c} /\ Children!Pairs(t) = without
  <2> DEFINE Back(i) == IF i < k THEN i ELSE i + 1
             Place(m) == IF m < k THEN m ELSE m - 1
  <2>1. /\ t \in Seq(Child) /\ Len(t) = n - 1
        /\ \A i \in 1 .. n - 1 : t[i] = IF i < k THEN s[i] ELSE s[i + 1]
    BY <1>3, RemoveElements
  <2>2. \A i \in 1 .. n - 1 : Back(i) \in 1 .. n /\ Back(i) # k /\ t[i] = s[Back(i)]
    BY <1>1, <2>1
  <2>3. \A m \in 1 .. n : m # k => /\ Place(m) \in 1 .. n - 1 /\ t[Place(m)] = s[m]
                                  /\ s[m] # c
    <3> SUFFICES ASSUME NEW m \in 1 .. n, m # k
                 PROVE  Place(m) \in 1 .. n - 1 /\ t[Place(m)] = s[m] /\ s[m] # c
      OBVIOUS
    <3>1. s[m] # c
      BY <1>3 DEF Once
    <3>2. Place(m) \in 1 .. n - 1
      BY <1>1
    <3>3. t[Place(m)] = s[m]
      BY <1>1, <2>1, <3>2
    <3> QED
      BY <3>1, <3>2, <3>3
  <2>4. Once(t)
    <3> SUFFICES ASSUME NEW i \in 1 .. n - 1, NEW j \in 1 .. n - 1, t[i] = t[j]
                 PROVE  i = j
      BY <2>1 DEF Once
    <3>1. Back(i) = Back(j)
      BY <2>2 DEF Once
    <3> QED
      BY <1>1, <3>1
  <2>5. Listed(t) = Listed(s) \ {c}
    <3>1. ASSUME NEW i \in 1 .. n - 1 PROVE t[i] \in Listed(s) \ {c}
      BY <2>2, <2>3 DEF Listed
    <3>2. ASSUME NEW m \in 1 .. n, s[m] # c PROVE s[m] \in Listed(t)
      BY <1>3, <2>1, <2>3, <3>2 DEF Listed
    <3> QED
      BY <2>1, <3>1, <3>2 DEF Listed
  <2>6. ASSUME NEW p \in Children!Pairs(t) PROVE p \in without
    <3>1. PICK i \in 1 .. n - 1 : \E j \in 1 .. i : p = <<t[i], t[j]>>
      BY <2>1, PairsElement
    <3>2. PICK j \in 1 .. i : p = <<t[i], t[j]>>
      BY <3>1
    <3>3. j \in 1 .. n - 1 /\ Back(i) \in 1 .. n /\ Back(j) \in 1 .. Back(i)
      BY <1>1
    <3>4. p = <<s[Back(i)], s[Back(j)]>> /\ s[Back(i)] # c /\ s[Back(j)] # c
      BY <2>2, <2>3, <3>2, <3>3
    <3>5. p \in Children!Pairs(s)
      BY <1>1, <3>3, <3>4, PairsElement
    <3> QED
      BY <3>4, <3>5 DEF Children!Order!Without
  <2>7. ASSUME NEW p \in without PROVE p \in Children!Pairs(t)
    <3>1. PICK a \in 1 .. n : \E b \in 1 .. a : p = <<s[a], s[b]>>
      BY <1>1, PairsElement DEF Children!Order!Without
    <3>2. PICK b \in 1 .. a : p = <<s[a], s[b]>>
      BY <3>1
    <3>3. a # k /\ b # k /\ b \in 1 .. n
      BY <1>1, <1>3, <3>2 DEF Children!Order!Without
    <3>4. Place(a) \in 1 .. n - 1 /\ Place(b) \in 1 .. Place(a)
      BY <1>1, <3>3
    <3>5. p = <<t[Place(a)], t[Place(b)]>>
      BY <2>3, <3>2, <3>3
    <3> QED
      BY <2>1, <3>4, <3>5, PairsElement
  <2> QED
    BY <2>4, <2>5, <2>6, <2>7
<1> QED
  BY <1>2, <1>3 DEF Listed

(* The vectors' other operations, as insertions in the last, the first and *)
(* the k-th place.                                                         *)
LEMMA Insertions ==
  ASSUME NEW s \in Seq(Child), NEW c \in Child
  PROVE  /\ Inserted(s, Len(s) + 1, c, Append(s, c))
         /\ Inserted(s, 1, c, <<c>> \o s)
         /\ \A k \in 1 .. Len(s) + 1 : Inserted(s, k, c, Children!InsertAt(s, k, c))
<1>1. Len(s) \in Nat /\ \A i \in 1 .. Len(s) : s[i] \in Child
  BY LenProperties
<1>2. Inserted(s, Len(s) + 1, c, Append(s, c))
  BY <1>1, AppendProperties DEF Inserted
<1>3. Inserted(s, 1, c, <<c>> \o s)
  <2>1. <<c>> \in Seq(Child) /\ Len(<<c>>) = 1 /\ <<c>>[1] = c
    OBVIOUS
  <2>2. /\ <<c>> \o s \in Seq(Child) /\ Len(<<c>> \o s) = 1 + Len(s)
        /\ \A i \in 1 .. 1 + Len(s) : (<<c>> \o s)[i] = IF i <= 1 THEN <<c>>[i] ELSE s[i - 1]
    BY <2>1, ConcatProperties
  <2> QED
    BY <1>1, <2>1, <2>2 DEF Inserted
<1> QED
  BY <1>2, <1>3, InsertElements DEF Inserted

(* A child that is not in a list goes on top of it.                        *)
LEMMA AddedOnTop ==
  ASSUME NEW s, Once(s), NEW c \in Child \ Listed(s)
  PROVE  /\ Once(Append(s, c)) /\ Listed(Append(s, c)) = Listed(s) \cup {c}
         /\ Children!Pairs(Append(s, c)) = Children!Order!OnTop(Children!Pairs(s), c)
<1> DEFINE n == Len(s)
<1>1. s \in Seq(Child) /\ n \in Nat /\ n + 1 \in 1 .. n + 1 /\ n + 1 - 1 = n
  BY LenProperties DEF Once
<1>2. Children!Order!Without(Children!Pairs(s), c) = Children!Pairs(s)
  <2>1. Children!RemoveFirst(s, c) = s
    BY DEF Children!RemoveFirst, Listed
  <2> QED
    BY <2>1, PairsRemoved
<1>3. Inserted(s, n + 1, c, Append(s, c))
  BY <1>1, Insertions
<1>4. /\ Once(Append(s, c)) /\ Listed(Append(s, c)) = Listed(s) \cup {c}
      /\ Children!Pairs(Append(s, c))
           = Children!Order!Put(Children!Pairs(s), c, Lower(s, n + 1))
  BY <1>1, <1>3, PairsInserted
<1>5. Lower(s, n + 1) = Children!Order!KidsIn(Children!Pairs(s))
  BY <1>1, KidsAreListed DEF Listed, Lower
<1> QED
  BY <1>2, <1>4, <1>5 DEF Children!Order!OnTop

(* A child that leaves its place and goes on top, to the bottom, over or   *)
(* under a sibling.                                                        *)
LEMMA Moved ==
  ASSUME NEW s, Once(s), NEW c \in Listed(s)
  PROVE  LET e == Children!RemoveFirst(s, c)
             IsMove(t, to) == Once(t) /\ Listed(t) = Listed(s) /\ Children!Pairs(t) = to
         IN  /\ IsMove(Append(e, c), Children!Order!OnTop(Children!Pairs(s), c))
             /\ IsMove(<<c>> \o e, Children!Order!AtBottom(Children!Pairs(s), c))
             /\ \A sib \in Listed(s) \ {c} :
                  /\ IsMove(Children!InsertAt(e, Children!IndexOf(e, sib) + 1, c),
                            Children!Order!DirectlyOver(Children!Pairs(s), c, sib))
                  /\ IsMove(Children!InsertAt(e, Children!IndexOf(e, sib), c),
                            Children!Order!DirectlyUnder(Children!Pairs(s), c, sib))
<1> DEFINE e == Children!RemoveFirst(s, c)
           n == Len(e)
           rest == Children!Order!Without(Children!Pairs(s), c)
           IsMove(t, to) == Once(t) /\ Listed(t) = Listed(s) /\ Children!Pairs(t) = to
<1>1. c \in Child
  BY ListLength DEF Once
<1>2. /\ Once(e) /\ Listed(e) = Listed(s) \ {c} /\ Children!Pairs(e) = rest
  BY PairsRemoved
<1> HIDE DEF e, rest
<1>3. e \in Seq(Child) /\ n \in Nat
  BY <1>2, LenProperties DEF Once
<1>4. ASSUME NEW k \in 1 .. n + 1, NEW t, Inserted(e, k, c, t)
      PROVE  IsMove(t, Children!Order!Put(rest, c, Lower(e, k)))
  BY <1>1, <1>2, <1>4, PairsInserted
<1>5. IsMove(Append(e, c), Children!Order!OnTop(Children!Pairs(s), c))
  <2>0. n + 1 \in 1 .. n + 1
    BY <1>3
  <2>3. Inserted(e, n + 1, c, Append(e, c))
    BY <1>1, <1>3, Insertions
  <2>1. IsMove(Append(e, c), Children!Order!Put(rest, c, Lower(e, n + 1)))
    BY <1>4, <2>0, <2>3
  <2>2. Lower(e, n + 1) = Children!Order!KidsIn(rest)
    BY <1>2, <1>3, KidsAreListed DEF Listed, Lower
  <2> QED
    BY <2>1, <2>2 DEF Children!Order!OnTop, rest
<1>6. IsMove(<<c>> \o e, Children!Order!AtBottom(Children!Pairs(s), c))
  <2>1. IsMove(<<c>> \o e, Children!Order!Put(rest, c, Lower(e, 1)))
    BY <1>1, <1>3, <1>4, Insertions
  <2>2. Lower(e, 1) = {}
    BY DEF Lower
  <2> QED
    BY <2>1, <2>2 DEF Children!Order!AtBottom, rest
<1>7. ASSUME NEW sib \in Listed(s) \ {c}
      PROVE  /\ IsMove(Children!InsertAt(e, Children!IndexOf(e, sib) + 1, c),
                        Children!Order!DirectlyOver(Children!Pairs(s), c, sib))
             /\ IsMove(Children!InsertAt(e, Children!IndexOf(e, sib), c),
                        Children!Order!DirectlyUnder(Children!Pairs(s), c, sib))
  <2>1. PICK m \in 1 .. n : sib = e[m]
    BY <1>2 DEF Listed
  <2>2. Children!IndexOf(e, sib) = m
    BY <1>2, <2>1, IndexOfElement
  <2>3. m \in 1 .. n + 1 /\ m + 1 \in 1 .. n + 1 /\ m + 1 - 1 = m
    BY <1>3
  <2>4. Children!Order!OverOf(rest, sib) = Lower(e, m + 1)
    BY <1>2, <2>1, <2>3, OverElement DEF Lower
  <2>5. Lower(e, m) = Lower(e, m + 1) \ {sib}
    BY <1>2, <1>3, <2>1 DEF Once, Lower
  <2>6. /\ IsMove(Children!InsertAt(e, m + 1, c),
                  Children!Order!Put(rest, c, Lower(e, m + 1)))
        /\ IsMove(Children!InsertAt(e, m, c),
                  Children!Order!Put(rest, c, Lower(e, m)))
    BY <1>1, <1>3, <1>4, <2>3, Insertions
  <2>7. /\ Children!Order!DirectlyOver(Children!Pairs(s), c, sib)
             = Children!Order!Put(rest, c, Children!Order!OverOf(rest, sib))
        /\ Children!Order!DirectlyUnder(Children!Pairs(s), c, sib)
             = Children!Order!Put(rest, c, Children!Order!OverOf(rest, sib) \ {sib})
    BY DEF Children!Order!DirectlyOver, Children!Order!DirectlyUnder, rest
  <2> QED
    BY <2>2, <2>3, <2>4, <2>5, <2>6, <2>7
<1> QED
  BY <1>5, <1>6, <1>7 DEF e

(* A vector of children implements the requested order step by step; what  *)
(* is shown is it unless the next commit is going to change that.          *)
StackInv ==
  /\ Once(order) /\ Once(shown)
  /\ flag \in BOOLEAN
  /\ Children!ShownUnlessFlagged

LEMMA ListedIsToSet ==
  ASSUME NEW s \in Seq(Child)
  PROVE  Children!ToSet(s) = Listed(s) /\ \A c : Children!Contains(s, c) <=> c \in Listed(s)
  BY LenProperties DEF Children!ToSet, Children!Contains, Listed

LEMMA StackInit == Children!Init => StackInv /\ Children!Order!Init
<1> SUFFICES ASSUME Children!Init PROVE StackInv /\ Children!Order!Init
  OBVIOUS
<1>1. <<>> \in Seq(Child) /\ Len(<<>>) = 0
  OBVIOUS
<1>2. Once(<<>>)
  BY <1>1 DEF Once
<1>3. Children!Pairs(<<>>) = {}
  <2>1. \A p : p \notin Children!Pairs(<<>>)
    <3> TAKE p
    <3>1. ~ \E i \in 1 .. 0 : TRUE
      OBVIOUS
    <3> QED
      BY <1>1, <3>1, PairsElement
  <2> QED
    BY <2>1
<1> QED
  BY <1>2, <1>3 DEF Children!Init, StackInv, Children!ShownUnlessFlagged, Children!Order!Init

LEMMA StackAdd ==
  ASSUME StackInv, NEW c \in Child, Children!AddChild(c)
  PROVE  StackInv' /\ Children!Order!Add(c)
<1>1. c \in Child \ Listed(order)
  BY ListedIsToSet DEF Children!AddChild, StackInv, Once
<1>2. /\ Once(order') /\ Children!Pairs(order') = Children!Order!OnTop(Children!Pairs(order), c)
  BY <1>1, AddedOnTop DEF Children!AddChild, StackInv
<1>3. c \notin Children!Order!KidsIn(Children!Pairs(order))
  BY <1>1, KidsAreListed DEF StackInv, Once
<1> QED
  BY <1>2, <1>3 DEF Children!AddChild, StackInv, Children!ShownUnlessFlagged, Children!Order!Add, Once

LEMMA StackRemove ==
  ASSUME StackInv, NEW c \in Child, Children!RemoveChild(c)
  PROVE  StackInv' /\ Children!Order!Remove(c)
<1>1. /\ Once(order') /\ Children!Pairs(order') = Children!Order!Without(Children!Pairs(order), c)
      /\ Once(shown') /\ Children!Pairs(shown') = Children!Order!Without(Children!Pairs(shown), c)
  BY PairsRemoved DEF Children!RemoveChild, StackInv
<1> QED
  BY <1>1 DEF Children!RemoveChild, StackInv, Children!ShownUnlessFlagged, Children!Order!Remove

(* What the two requests that move a child ask for.                        *)
LEMMA StackAbove ==
  ASSUME StackInv, Children!Assumptions, NEW c \in Child, NEW sib, Children!PlaceAbove(c, sib)
  PROVE  /\ StackInv' /\ Children!Order!Rearrange(c)
         /\ sib \in Child =>
              Children!Pairs(order')
                = Children!Order!DirectlyOver(Children!Pairs(order), c, sib)
<1> DEFINE e == Children!RemoveFirst(order, c)
<1>1. c \in Listed(order) /\ Children!Order!KidsIn(Children!Pairs(order)) = Listed(order)
  BY ListedIsToSet, KidsAreListed DEF Children!PlaceAbove, StackInv, Once
<1>2. shown' = shown /\ flag' = TRUE
  BY DEF Children!PlaceAbove, Children!Restacked
<1>3. CASE sib = Parent /\ Children!Restacked(Append(e, c))
  <2>1. Once(order') /\ Children!Pairs(order') = Children!Order!OnTop(Children!Pairs(order), c)
    BY <1>1, <1>3, Moved DEF Children!Restacked, StackInv
  <2>2. sib \notin Child
    BY <1>3 DEF Children!Assumptions
  <2> QED
    BY <1>1, <1>2, <2>1, <2>2 DEF StackInv, Children!ShownUnlessFlagged, Children!Order!Rearrange
<1>4. CASE Children!IsSibling(c, sib) /\ Children!Restacked(Children!InsertNextTo(c, sib, 1))
  <2>1. sib \in Listed(order) \ {c}
    BY <1>4, ListedIsToSet DEF Children!IsSibling, StackInv, Once
  <2>2. order' = Children!InsertAt(e, Children!IndexOf(e, sib) + 1, c)
    BY <1>4 DEF Children!Restacked, Children!InsertNextTo
  <2>3. /\ Once(order')
        /\ Children!Pairs(order')
             = Children!Order!DirectlyOver(Children!Pairs(order), c, sib)
    BY <1>1, <2>1, <2>2, Moved DEF StackInv
  <2> QED
    BY <1>1, <1>2, <2>1, <2>3 DEF StackInv, Children!ShownUnlessFlagged, Children!Order!Rearrange
<1> QED
  BY <1>3, <1>4 DEF Children!PlaceAbove

LEMMA StackBelow ==
  ASSUME StackInv, Children!Assumptions, NEW c \in Child, NEW sib, Children!PlaceBelow(c, sib)
  PROVE  /\ StackInv' /\ Children!Order!Rearrange(c)
         /\ sib \in Child =>
              Children!Pairs(order')
                = Children!Order!DirectlyUnder(Children!Pairs(order), c, sib)
<1> DEFINE e == Children!RemoveFirst(order, c)
<1>1. c \in Listed(order) /\ Children!Order!KidsIn(Children!Pairs(order)) = Listed(order)
  BY ListedIsToSet, KidsAreListed DEF Children!PlaceBelow, StackInv, Once
<1>2. shown' = shown /\ flag' = TRUE
  BY DEF Children!PlaceBelow, Children!Restacked
<1>3. CASE sib = Parent /\ Children!Restacked(<<c>> \o e)
  <2>1. Once(order') /\ Children!Pairs(order') = Children!Order!AtBottom(Children!Pairs(order), c)
    BY <1>1, <1>3, Moved DEF Children!Restacked, StackInv
  <2>2. sib \notin Child
    BY <1>3 DEF Children!Assumptions
  <2> QED
    BY <1>1, <1>2, <2>1, <2>2 DEF StackInv, Children!ShownUnlessFlagged, Children!Order!Rearrange
<1>4. CASE Children!IsSibling(c, sib) /\ Children!Restacked(Children!InsertNextTo(c, sib, 0))
  <2>1. sib \in Listed(order) \ {c}
    BY <1>4, ListedIsToSet DEF Children!IsSibling, StackInv, Once
  <2>2. Children!IndexOf(e, sib) + 0 = Children!IndexOf(e, sib)
    <3>1. Once(e) /\ Listed(e) = Listed(order) \ {c}
      BY PairsRemoved DEF StackInv
    <3>2. PICK m \in 1 .. Len(e) : sib = e[m]
      BY <2>1, <3>1 DEF Listed
    <3>3. Children!IndexOf(e, sib) = m /\ Len(e) \in Nat
      BY <3>1, <3>2, IndexOfElement, LenProperties DEF Once
    <3> QED
      BY <3>2, <3>3
  <2>3. order' = Children!InsertAt(e, Children!IndexOf(e, sib), c)
    BY <1>4, <2>2 DEF Children!Restacked, Children!InsertNextTo
  <2>4. /\ Once(order')
        /\ Children!Pairs(order')
             = Children!Order!DirectlyUnder(Children!Pairs(order), c, sib)
    BY <1>1, <2>1, <2>3, Moved DEF StackInv
  <2> QED
    BY <1>1, <1>2, <2>1, <2>4 DEF StackInv, Children!ShownUnlessFlagged, Children!Order!Rearrange
<1> QED
  BY <1>3, <1>4 DEF Children!PlaceBelow

LEMMA StackCommit ==
  ASSUME StackInv, Children!CommitParent
  PROVE  StackInv' /\ Children!Order!Commit
<1>1. shown' = order /\ order' = order
  BY DEF Children!CommitParent, StackInv, Children!ShownUnlessFlagged
<1> QED
  BY <1>1 DEF Children!CommitParent, StackInv, Children!ShownUnlessFlagged,
              Children!Order!Commit

LEMMA StackDesync ==
  ASSUME StackInv, NEW c \in Child, Children!SetDesync(c)
  PROVE  /\ StackInv'
         /\ Children!Order!ShowOnTop(c) \/ UNCHANGED <<order, shown>>
<1>1. /\ c \in Listed(order) /\ UNCHANGED <<order, flag>> /\ shown' = Children!ShownWith(c)
      /\ Children!Contains(shown, c) <=> c \in Listed(shown)
  BY ListedIsToSet DEF Children!SetDesync, StackInv, Once
<1>2. CASE c \in Listed(shown)
  <2>1. shown' = shown
    BY <1>1, <1>2 DEF Children!ShownWith
  <2> QED
    BY <1>1, <2>1 DEF StackInv, Children!ShownUnlessFlagged
<1>3. CASE c \notin Listed(shown)
  <2>1. shown' = Append(shown, c)
    BY <1>1, <1>3 DEF Children!ShownWith
  <2>2. Once(shown') /\ Children!Pairs(shown') = Children!Order!OnTop(Children!Pairs(shown), c)
    BY <1>3, <2>1, AddedOnTop DEF StackInv
  <2>3. c \in Children!Order!KidsIn(Children!Pairs(order))
               \ Children!Order!KidsIn(Children!Pairs(shown))
    BY <1>1, <1>3, KidsAreListed DEF StackInv, Once
  <2>4. flag
    BY <1>1, <1>3 DEF StackInv, Children!ShownUnlessFlagged
  <2> QED
    BY <1>1, <2>2, <2>3, <2>4
    DEF StackInv, Children!ShownUnlessFlagged, Children!Order!ShowOnTop
<1> QED
  BY <1>2, <1>3

(* Every step is a step of the order that is promised, or none of it.      *)
LEMMA StackNext ==
  ASSUME Children!Assumptions, StackInv, [Children!Next]_(Children!vars)
  PROVE  /\ StackInv'
         /\ [Children!Order!Next]_<<Children!Pairs(order), Children!Pairs(shown)>>
<1>1. ASSUME NEW c \in Child, Children!AddChild(c) PROVE StackInv' /\ Children!Order!Next
  BY <1>1, StackAdd DEF Children!Order!Next
<1>2. ASSUME NEW c \in Child, Children!RemoveChild(c) PROVE StackInv' /\ Children!Order!Next
  BY <1>2, StackRemove DEF Children!Order!Next
<1>3. ASSUME NEW c \in Child, NEW sib, Children!PlaceAbove(c, sib)
      PROVE  StackInv' /\ Children!Order!Next
  BY <1>3, StackAbove DEF Children!Order!Next
<1>4. ASSUME NEW c \in Child, NEW sib, Children!PlaceBelow(c, sib)
      PROVE  StackInv' /\ Children!Order!Next
  BY <1>4, StackBelow DEF Children!Order!Next
<1>5. ASSUME NEW c \in Child, Children!SetDesync(c)
      PROVE  StackInv' /\ (Children!Order!Next \/ UNCHANGED <<order, shown>>)
  BY <1>5, StackDesync DEF Children!Order!Next
<1>6. ASSUME Children!CommitParent PROVE StackInv' /\ Children!Order!Next
  BY <1>6, StackCommit DEF Children!Order!Next
<1>7. ASSUME UNCHANGED <<order, flag, shown>> PROVE StackInv' /\ UNCHANGED <<order, shown>>
  BY <1>7 DEF StackInv, Children!ShownUnlessFlagged
<1>8. \A c, sib :
        \/ Children!WrongSibling(c, sib) \/ Children!SetSync(c) \/ UNCHANGED Children!vars
        => UNCHANGED <<order, flag, shown>>
  BY DEF Children!WrongSibling, Children!SetSync, Children!vars
<1>9. UNCHANGED <<order, shown>>
        => UNCHANGED <<Children!Pairs(order), Children!Pairs(shown)>>
  BY DEF Children!Pairs
<1> QED
  BY <1>1, <1>2, <1>3, <1>4, <1>5, <1>6, <1>7, <1>8, <1>9
  DEF Children!Next, Children!ChildStep

(* The vectors of children and the requests on them implement the order    *)
(* that is promised to clients, however many children there are            *)
(* (server/surface.cpp:149-262, src/client/subsurface.h:104-158).          *)
THEOREM ImplementsOrderCorrect ==
  ASSUME Children!Assumptions
  PROVE  Children!Spec => ImplementsOrder
<1>1. Children!Init => StackInv /\ Children!Order!Init
  BY StackInit
<1>2. StackInv /\ [Children!Next]_(Children!vars)
        => /\ StackInv'
           /\ [Children!Order!Next]_<<Children!Pairs(order), Children!Pairs(shown)>>
  BY StackNext
<1> QED
  BY <1>1, <1>2, PTL DEF Children!Spec, ImplementsOrder, Children!ImplementsOrder,
                         Children!Order!Spec

(* A child that its client places over or under a sibling is directly over *)
(* or under it, wherever the two were (server/surface.cpp:181-262).        *)
THEOREM PlacedAsAskedCorrect ==
  ASSUME Children!Assumptions
  PROVE  Children!Spec => PlacedAsAsked
<1> DEFINE Asked ==
      \A c, sib \in Child :
        LET over == Children!Pairs(order)
        IN  /\ Children!PlaceAbove(c, sib)
                 => Children!Pairs(order') = Children!Order!DirectlyOver(over, c, sib)
            /\ Children!PlaceBelow(c, sib)
                 => Children!Pairs(order') = Children!Order!DirectlyUnder(over, c, sib)
<1>1. Children!Init => StackInv
  BY StackInit
<1>2. StackInv /\ [Children!Next]_(Children!vars) => StackInv'
  BY StackNext
<1>3. StackInv => [Asked]_(Children!vars)
  BY StackAbove, StackBelow
<1> QED
  BY <1>1, <1>2, <1>3, PTL DEF Children!Spec, PlacedAsAsked, Children!PlacedAsAsked

-----------------------------------------------------------------------------
(* The size of a surface: what is shown is well defined and its changes    *)
(* are flagged.                                                            *)

(* A flag a request has not set goes with the initial value.  Of a surface *)
(* without the role of a subsurface nothing is cached, so that without a   *)
(* viewport it has no source rectangle or the next commit takes it away.   *)
Initial(s) == ~s.destinationSet => s.destination = 0

SizeInv ==
  /\ Sizes!TypeOK
  /\ Initial(sizePending) /\ Initial(sizeCached)
  /\ sizePlain => ~sizeSynced
  /\ sizePlain /\ ~viewport =>
       \/ sizeCurrent.source = Sizes!NoRect /\ ~sizePending.sourceSet
       \/ sizePending.sourceSet /\ sizePending.source = Sizes!NoRect
  /\ sizePlain /\ outcome = "running" =>
       /\ sizeCurrent.source.whole \/ sizeCurrent.destination # 0
       /\ sizeCurrent.buffer # 0 => sizeCurrent.source.size <= sizeCurrent.buffer

LEMMA SizeTypes ==
  ASSUME Sizes!Assumptions
  PROVE  /\ Sizes!Size \subseteq Nat /\ 0 \in Sizes!Size
         /\ Sizes!NoRect \in Sizes!Rect /\ Sizes!NoRect.size = 0 /\ Sizes!NoRect.whole
         /\ \A r \in Sizes!Rect : r.size \in Nat /\ r.whole \in BOOLEAN
         /\ Sizes!Fresh \in Sizes!State /\ Initial(Sizes!Fresh)
<1>1. Sizes!Size \subseteq Nat /\ 0 \in Sizes!Size
  BY DEF Sizes!Assumptions, Sizes!Size
<1>2. Sizes!NoRect \in Sizes!Rect
  BY DEF Sizes!Rect
<1>3. Sizes!NoRect.size = 0 /\ Sizes!NoRect.whole
  BY DEF Sizes!NoRect
<1>4. ASSUME NEW r \in Sizes!Rect PROVE r.size \in Nat /\ r.whole \in BOOLEAN
  <2>1. CASE r = Sizes!NoRect
    BY <2>1 DEF Sizes!NoRect
  <2>2. CASE r # Sizes!NoRect
    <3>1. r \in [size : 1 .. MaxSize, whole : BOOLEAN]
      BY <2>2 DEF Sizes!Rect
    <3> QED
      BY <3>1 DEF Sizes!Assumptions
  <2> QED
    BY <2>1, <2>2
<1>5. Sizes!Fresh \in Sizes!State
  BY <1>1, <1>2 DEF Sizes!Fresh, Sizes!State
<1>6. Initial(Sizes!Fresh)
  BY DEF Sizes!Fresh, Initial
<1> QED
  BY <1>1, <1>2, <1>3, <1>4, <1>5, <1>6

LEMMA SizeInit == Sizes!Assumptions /\ Sizes!Init => SizeInv
<1> SUFFICES ASSUME Sizes!Assumptions, Sizes!Init PROVE SizeInv
  OBVIOUS
<1>1. Sizes!TypeOK
  BY SizeTypes DEF Sizes!Init, Sizes!TypeOK
<1> QED
  BY <1>1, SizeTypes DEF Sizes!Init, Sizes!Fresh, SizeInv

LEMMA SizeRequest ==
  ASSUME Sizes!Assumptions, SizeInv, outcome = "running", Sizes!Requests
  PROVE  SizeInv'
<1> USE SizeTypes DEF SizeInv, Sizes!TypeOK
<1>1. ASSUME NEW b \in Sizes!Size, Sizes!Attach(b) PROVE SizeInv'
  BY <1>1 DEF Sizes!Attach, Sizes!State, Initial
<1>2. ASSUME Sizes!BufferDestroyed PROVE SizeInv'
  BY <1>2 DEF Sizes!BufferDestroyed, Sizes!State, Initial
<1>3. ASSUME Sizes!GetViewport PROVE SizeInv'
  BY <1>3 DEF Sizes!GetViewport
<1>4. ASSUME NEW r \in Sizes!Rect, Sizes!SetSource(r) PROVE SizeInv'
  BY <1>4 DEF Sizes!SetSource, Sizes!State, Initial
<1>5. ASSUME NEW d \in Sizes!Size, Sizes!SetDestination(d) PROVE SizeInv'
  BY <1>5 DEF Sizes!SetDestination, Sizes!State, Initial
<1>6. ASSUME Sizes!DestroyViewport PROVE SizeInv'
  BY <1>6 DEF Sizes!DestroyViewport, Sizes!WithoutViewport, Sizes!State, Initial
<1> QED
  BY <1>1, <1>2, <1>3, <1>4, <1>5, <1>6 DEF Sizes!Requests

(* What a commit of the state s makes current.                             *)
LEMMA StateApplied ==
  ASSUME Sizes!Assumptions, SizeInv, NEW s \in Sizes!State, Sizes!UpdateCurrentState(s)
  PROVE  /\ sizeCurrent' \in [buffer : Sizes!Size, source : Sizes!Rect, destination : Sizes!Size]
         /\ updates' \subseteq {"size", "mapped"}
         /\ outcome' \in {"running", "bad_size", "out_of_buffer", "no_viewport"}
         /\ sizeCurrent'.source = IF s.sourceSet THEN s.source ELSE sizeCurrent.source
         /\ outcome' = "running" =>
              /\ sizeCurrent'.source.whole \/ sizeCurrent'.destination # 0
              /\ viewport /\ sizeCurrent'.buffer # 0
                   => sizeCurrent'.source.size <= sizeCurrent'.buffer
<1>1. sizeCurrent' = Sizes!Applied(s) /\ outcome' = Sizes!Checked(sizeCurrent')
  BY DEF Sizes!UpdateCurrentState
<1>2. /\ sizeCurrent' \in [buffer : Sizes!Size, source : Sizes!Rect, destination : Sizes!Size]
      /\ sizeCurrent'.source = IF s.sourceSet THEN s.source ELSE sizeCurrent.source
  BY <1>1 DEF Sizes!Applied, SizeInv, Sizes!TypeOK, Sizes!State
<1>3. updates' \subseteq {"size", "mapped"}
  BY DEF Sizes!UpdateCurrentState, Sizes!Mapped
<1>4. outcome' \in {"running", "bad_size", "out_of_buffer", "no_viewport"}
  BY <1>1 DEF Sizes!Checked
<1>5. /\ sizeCurrent'.source \in Sizes!Rect /\ sizeCurrent'.buffer \in Nat
      /\ sizeCurrent'.source.size \in Nat
  BY <1>2, SizeTypes
<1>6. outcome' = "running" =>
        /\ sizeCurrent'.source.whole \/ sizeCurrent'.destination # 0
        /\ viewport /\ sizeCurrent'.buffer # 0
             => sizeCurrent'.source.size <= sizeCurrent'.buffer
  BY <1>1, <1>5, SizeTypes DEF Sizes!Checked
<1> QED
  BY <1>2, <1>3, <1>4, <1>6

LEMMA SizeCommits ==
  ASSUME Sizes!Assumptions, SizeInv, outcome = "running",
         Sizes!Commits \/ Sizes!Synchronize \/ Sizes!Desynchronize \/ Sizes!DestroySubsurface
  PROVE  SizeInv'
<1> USE SizeTypes
<1>1. sizePending \in Sizes!State /\ sizeCached \in Sizes!State
  BY DEF SizeInv, Sizes!TypeOK
<1>2. CASE Sizes!Commit
  <2>1. sizePlain /\ ~viewport => sizeCurrent'.source = Sizes!NoRect
    <3>1. sizeCurrent'.source
            = IF sizePending.sourceSet THEN sizePending.source ELSE sizeCurrent.source
      BY <1>1, <1>2, StateApplied DEF Sizes!Commit
    <3> QED
      BY <3>1 DEF SizeInv
  <2>2. Sizes!TypeOK'
    BY <1>1, <1>2, StateApplied DEF Sizes!Commit, SizeInv, Sizes!TypeOK
  <2>3. sizePlain /\ outcome' = "running" =>
          /\ sizeCurrent'.source.whole \/ sizeCurrent'.destination # 0
          /\ sizeCurrent'.buffer # 0 => sizeCurrent'.source.size <= sizeCurrent'.buffer
    <3>1. sizeCurrent'.buffer \in Nat
      BY <2>2 DEF Sizes!TypeOK
    <3> QED
      BY <1>1, <1>2, <2>1, <3>1, StateApplied DEF Sizes!Commit
  <2> QED
    BY <1>2, <2>1, <2>2, <2>3 DEF Sizes!Commit, Sizes!Fresh, SizeInv
<1>3. CASE Sizes!CommitCached
  BY <1>3 DEF Sizes!CommitCached, SizeInv, Sizes!TypeOK
<1>4. CASE Sizes!ApplyCached
  BY <1>1, <1>4, StateApplied DEF Sizes!ApplyCached, SizeInv, Sizes!TypeOK
<1>5. CASE Sizes!Synchronize
  BY <1>5 DEF Sizes!Synchronize, SizeInv, Sizes!TypeOK
<1>6. CASE Sizes!Desynchronize
  BY <1>1, <1>6, StateApplied DEF Sizes!Desynchronize, SizeInv, Sizes!TypeOK
<1>7. CASE Sizes!DestroySubsurface
  BY <1>7 DEF Sizes!DestroySubsurface, SizeInv, Sizes!TypeOK
<1> QED
  BY <1>2, <1>3, <1>4, <1>5, <1>6, <1>7 DEF Sizes!Commits

LEMMA SizeNext ==
  ASSUME Sizes!Assumptions, SizeInv, [Sizes!Next]_(Sizes!vars)
  PROVE  SizeInv'
<1>1. CASE UNCHANGED Sizes!vars
  BY <1>1 DEF Sizes!vars, SizeInv, Sizes!TypeOK
<1> QED
  BY <1>1, SizeRequest, SizeCommits DEF Sizes!Next

(* A surface that is no subsurface never shows a fractional size, nor more *)
(* than its buffer has (surface.cpp:397-440).                              *)
THEOREM SourceWellDefinedCorrect ==
  ASSUME Sizes!Assumptions
  PROVE  Sizes!Spec => []SourceWellDefined
<1>1. Sizes!Init => SizeInv
  BY SizeInit
<1>2. SizeInv /\ [Sizes!Next]_(Sizes!vars) => SizeInv'
  BY SizeNext
<1>3. SizeInv => Sizes!SourceWellDefined
  BY DEF SizeInv, Sizes!SourceWellDefined
<1> QED
  BY <1>1, <1>2, <1>3, PTL DEF Sizes!Spec, SourceWellDefined

(* The commit of a state flags the change of the size it makes.            *)
LEMMA ChangeFlagged ==
  ASSUME SizeInv, NEW s \in Sizes!State, Initial(s), Sizes!UpdateCurrentState(s),
         Sizes!ChangedSize, sizeCurrent'.source # Sizes!NoRect \/ sizeCurrent.source = Sizes!NoRect
  PROVE  "size" \in updates'
<1> SUFFICES Sizes!Resized(s, sizeCurrent'.buffer)
  BY DEF Sizes!UpdateCurrentState
<1>1. sizeCurrent' = Sizes!Applied(s)
  BY DEF Sizes!UpdateCurrentState
<1>2. /\ sizeCurrent'.buffer = IF s.bufferSet THEN s.buffer ELSE sizeCurrent.buffer
      /\ sizeCurrent'.source = IF s.sourceSet THEN s.source ELSE sizeCurrent.source
      /\ sizeCurrent'.destination
           = IF s.destinationSet THEN s.destination ELSE sizeCurrent.destination
  BY <1>1 DEF Sizes!Applied
<1> QED
  BY <1>2 DEF Sizes!ChangedSize, Sizes!SizeOf, Sizes!Resized, Initial

(* No commit changes the size of a mapped surface without a flag for it,   *)
(* unless it takes a source rectangle away (surface.cpp:602-619, 664).     *)
THEOREM SizeFlaggedCorrect ==
  ASSUME Sizes!Assumptions
  PROVE  Sizes!Spec => SizeFlagged
<1> DEFINE Flagged ==
      /\ Sizes!ChangedSize
      /\ sizeCurrent'.source # Sizes!NoRect \/ sizeCurrent.source = Sizes!NoRect
      => "size" \in updates'
<1>1. Sizes!Init => SizeInv
  BY SizeInit
<1>2. SizeInv /\ [Sizes!Next]_(Sizes!vars) => SizeInv'
  BY SizeNext
<1>3. SizeInv /\ [Sizes!Next]_(Sizes!vars) => [Flagged]_(Sizes!vars)
  <2> SUFFICES ASSUME SizeInv, Sizes!Next, Sizes!ChangedSize PROVE Flagged
    BY DEF Flagged
  <2>1. sizePending \in Sizes!State /\ sizeCached \in Sizes!State
        /\ Initial(sizePending) /\ Initial(sizeCached)
    BY DEF SizeInv, Sizes!TypeOK
  <2>2. sizeCurrent' # sizeCurrent /\ sizeCurrent'.buffer # 0
    BY DEF Sizes!ChangedSize
  <2>3. ~Sizes!Requests
    BY ZenonT(40), <2>2 DEF Sizes!Requests, Sizes!Attach, Sizes!BufferDestroyed, Sizes!GetViewport,
                Sizes!SetSource, Sizes!SetDestination, Sizes!DestroyViewport, SizeInv, Sizes!TypeOK
  <2>4. Sizes!UpdateCurrentState(sizePending) \/ Sizes!UpdateCurrentState(sizeCached)
    BY <2>2, <2>3 DEF Sizes!Next, Sizes!Commits, Sizes!Commit, Sizes!CommitCached,
          Sizes!ApplyCached, Sizes!Synchronize, Sizes!Desynchronize, Sizes!DestroySubsurface
  <2> QED
    BY <2>1, <2>4, ChangeFlagged
<1> QED
  BY <1>1, <1>2, <1>3, PTL DEF Sizes!Spec, SizeFlagged, Sizes!SizeFlagged
=============================================================================
