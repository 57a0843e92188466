------------------------- MODULE PointerConstraints -------------------------
(***************************************************************************)
(* Locks and confinements of the pointer on surfaces:                      *)
(* server/pointer_constraints_v1.cpp and                                   *)
(* Surface::Private::installPointerConstraint.  A surface has one of them  *)
(* at most, and shares two connections between both kinds.  The compositor *)
(* may keep a one-shot constraint that left its surface.                   *)
(***************************************************************************)
CONSTANTS
  Surface,    \* surfaces that are there from the start
  Constraint, \* LockedPointerV1 and ConfinedPointerV1 objects
  None        \* the null pointer

(* What is assumed of the constants.                                       *)
Assumptions == None \notin Constraint

VARIABLES
  surfaces,    \* surfaces that are not destroyed
  constraints, \* constraints that exist
  locks,       \* those of them that are locks
  oneShots,    \* those of them with LifeTime::OneShot
  active,      \* those of them that are locked or confined
  spent,       \* one-shot constraints that were active and are no longer
  locked,      \* Surface::Private::lockedPointer
  confined,    \* Surface::Private::confinedPointer
  oneShotConnection, \* whose change constrainsOneShotConnection tells of
  unboundConnection  \* whose end constrainsUnboundConnection tells of

surfaceVars == <<locked, confined, oneShotConnection, unboundConnection>>
vars == <<surfaces, constraints, locks, oneShots, active, spent, surfaceVars>>

Pointers == [Surface -> Constraint \cup {None}]

TypeOK ==
  /\ surfaces \subseteq Surface /\ constraints \subseteq Constraint
  /\ locks \subseteq constraints /\ oneShots \subseteq constraints /\ active \subseteq constraints
  /\ spent \subseteq oneShots
  /\ {locked, confined, oneShotConnection, unboundConnection} \subseteq Pointers

Init ==
  /\ surfaces = Surface /\ constraints = {} /\ locks = {} /\ oneShots = {}
  /\ active = {} /\ spent = {}
  /\ locked = [s \in Surface |-> None] /\ confined = locked
  /\ oneShotConnection = locked /\ unboundConnection = locked

-----------------------------------------------------------------------------
ConstraintOn(s) == {locked[s], confined[s]} \ {None}

(* createConstraint and installPointerConstraint; a surface that is        *)
(* constrained already is an error that ends the client.                   *)
MayConfine(s) == locked[s] = None \* mutated form of Unconstrained
Unconstrained(s) == ConstraintOn(s) = {}

Create(c, s, isLock, isOneShot) ==
  /\ c \notin constraints /\ s \in surfaces /\ Unconstrained(s)
  /\ constraints' = constraints \cup {c}
  /\ locks' = IF isLock THEN locks \cup {c} ELSE locks
  /\ oneShots' = IF isOneShot THEN oneShots \cup {c} ELSE oneShots
  /\ locked' = IF isLock THEN [locked EXCEPT ![s] = c] ELSE locked
  /\ confined' = IF isLock THEN confined ELSE [confined EXCEPT ![s] = c]
  /\ oneShotConnection' = [oneShotConnection EXCEPT ![s] = IF isOneShot THEN c ELSE @]
  /\ unboundConnection' = [unboundConnection EXCEPT ![s] = c]
  /\ UNCHANGED <<surfaces, active, spent>>

(* cleanUp, on the surfaces that hear of it: the constraint of the kind    *)
(* that was installed leaves, with both connections.                       *)
Cleaned(pointers, ss) == [s \in Surface |-> IF s \in ss THEN None ELSE pointers[s]]
CleanUp(ss, isLock) ==
  /\ locked' = IF isLock THEN Cleaned(locked, ss) ELSE locked
  /\ confined' = IF isLock THEN confined ELSE Cleaned(confined, ss)
  /\ oneShotConnection' = Cleaned(oneShotConnection, ss)
  /\ unboundConnection' = Cleaned(unboundConnection, ss)

OneShotOf(c) == {s \in surfaces : oneShotConnection[s] = c}

(* setLocked and setConfined                                               *)
Activate(c) ==
  /\ c \in constraints \ active
  /\ active' = active \cup {c}
  /\ UNCHANGED <<surfaces, constraints, locks, oneShots, spent, surfaceVars>>

Deactivate(c) ==
  /\ c \in active
  /\ active' = active \ {c}
  /\ spent' = spent \cup ({c} \cap oneShots)
  /\ CleanUp(OneShotOf(c), c \in locks)
  /\ UNCHANGED <<surfaces, constraints, locks, oneShots>>

(* The end of the resource deactivates the constraint before the surface   *)
(* hears of it; names are free for new objects.                            *)
NoConnection(c) == {} \* mutated form of UnboundOf
UnboundOf(c) == {s \in surfaces : unboundConnection[s] = c}

Destroy(c) ==
  /\ c \in constraints
  /\ constraints' = constraints \ {c} /\ active' = active \ {c}
  /\ locks' = locks \ {c} /\ oneShots' = oneShots \ {c} /\ spent' = spent \ {c}
  /\ CleanUp(UnboundOf(c), c \in locks)
  /\ UNCHANGED surfaces

DestroySurface(s) ==
  /\ s \in surfaces
  /\ surfaces' = surfaces \ {s}
  /\ locked' = Cleaned(locked, {s}) /\ confined' = Cleaned(confined, {s})
  /\ oneShotConnection' = Cleaned(oneShotConnection, {s})
  /\ unboundConnection' = Cleaned(unboundConnection, {s})
  /\ UNCHANGED <<constraints, locks, oneShots, active, spent>>

Next ==
  \/ \E c \in Constraint, s \in Surface, isLock, isOneShot \in BOOLEAN :
       Create(c, s, isLock, isOneShot)
  \/ \E c \in Constraint : Activate(c) \/ Deactivate(c) \/ Destroy(c)
  \/ \E s \in Surface : DestroySurface(s)

Spec == Init /\ [][Next]_vars

-----------------------------------------------------------------------------
(* A surface has a constraint that exists, of one kind, and hears of its   *)
(* end and of nobody else's; a one-shot constraint that was active once    *)
(* constrains no surface any more (surface.cpp:273-335).                   *)
ConstraintLive ==
  \A s \in surfaces :
    /\ ConstraintOn(s) \subseteq constraints \ spent
    /\ locked[s] = None \/ confined[s] = None
    /\ ConstraintOn(s) = {unboundConnection[s]} \ {None}
    /\ ConstraintOn(s) \cap oneShots = {oneShotConnection[s]} \ {None}
=============================================================================
