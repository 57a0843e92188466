-------------------------- MODULE SurfaceTreeProofs --------------------------
(***************************************************************************)
(* Proofs about SurfaceTree for every set of surfaces, every nesting and   *)
(* any number of buffers and callbacks.                                    *)
(***************************************************************************)
EXTENDS SurfaceTree, FiniteSetTheorems, WellFoundedInduction, TLAPS

USE NoneAssumption, PositionAssumption, MaxAttachAssumption

-----------------------------------------------------------------------------
(* Applying a state of the right type gives a state of the right type.     *)
LEMMA MergeType ==
  ASSUME NEW shown \in ShownState, NEW source \in SurfaceState
  PROVE  Merge(shown, source) \in ShownState
BY DEF Merge, ShownState, SurfaceState

(* A state that was moved on keeps nothing but a list of children.         *)
LEMMA ClearedType ==
  ASSUME NEW state, NEW kids \in SUBSET Surface
  PROVE  Cleared(state, kids) \in SurfaceState
BY DEF Cleared, Fresh, SurfaceState

(* updateCurrentState with all the subsurfaces it visits keeps the types.  *)
LEMMA ApplyType ==
  ASSUME TypeOK, NEW md, NEW shown \in [Surface -> ShownState],
         NEW r \in Surface, NEW source \in SurfaceState,
         NEW others \in [Surface -> SurfaceState],
         ApplyFrom(md, shown, r, source, others)
  PROVE  /\ current' \in [Surface -> ShownState]
         /\ cached' \in [Surface -> SurfaceState]
         /\ position' \in [Surface -> Position]
         /\ wanted' \in [Surface -> Position \cup {None}]
<1> DEFINE top == Merge(shown[r], source)
           visited == Visited(md, top.kids)
           synced == {c \in visited : Synced(md, c)}
<1>1. /\ current' = [s \in Surface |->
                       IF s = r THEN top
                       ELSE IF s \in synced THEN Merge(shown[s], cached[s])
                       ELSE shown[s]]
      /\ cached' = [s \in Surface |->
                      IF s \in synced
                        THEN Cleared(cached[s], Merge(shown[s], cached[s]).kids)
                        ELSE others[s]]
      /\ position' = [s \in Surface |->
                        IF s \in visited THEN Moved(s) ELSE position[s]]
      /\ wanted' = [s \in Surface |-> IF s \in visited THEN None ELSE wanted[s]]
  BY DEF ApplyFrom
<1>2. top \in ShownState
  BY MergeType
<1>3. \A s \in Surface : Merge(shown[s], cached[s]) \in ShownState
  BY MergeType DEF TypeOK
<1>4. \A s \in Surface :
        Cleared(cached[s], Merge(shown[s], cached[s]).kids) \in SurfaceState
  <2>1. \A s \in Surface : Merge(shown[s], cached[s]).kids \in SUBSET Surface
    BY <1>3 DEF ShownState
  <2>2. QED
    BY <2>1, ClearedType
<1>5. \A s \in Surface : Moved(s) \in Position
  BY DEF Moved, TypeOK
<1> HIDE DEF top, visited, synced
<1>6. current' \in [Surface -> ShownState]
  BY <1>1, <1>2, <1>3
<1>7. cached' \in [Surface -> SurfaceState]
  BY <1>1, <1>4
<1>8. position' \in [Surface -> Position] /\ wanted' \in [Surface -> Position \cup {None}]
  BY <1>1, <1>5 DEF TypeOK
<1>9. QED
  BY <1>6, <1>7, <1>8

(* Record updates of a state stay in its type. *)
LEMMA StateUpdates ==
  ASSUME NEW state \in SurfaceState, NEW b \in 0 .. MaxAttach,
         NEW kids \in SUBSET Surface, NEW frames \in SUBSET Callback
  PROVE  /\ [state EXCEPT !.buffer = b] \in SurfaceState
         /\ [state EXCEPT !.buffer = b, !.newBuffer = TRUE] \in SurfaceState
         /\ [state EXCEPT !.kids = kids] \in SurfaceState
         /\ [state EXCEPT !.newKids = TRUE] \in SurfaceState
         /\ [state EXCEPT !.kids = kids, !.newKids = TRUE] \in SurfaceState
         /\ [state EXCEPT !.frames = frames] \in SurfaceState
BY DEF SurfaceState

LEMMA ShownUpdates ==
  ASSUME NEW shown \in ShownState, NEW b \in 0 .. MaxAttach,
         NEW kids \in SUBSET Surface, NEW frames \in SUBSET Callback
  PROVE  /\ [shown EXCEPT !.buffer = b] \in ShownState
         /\ [shown EXCEPT !.kids = kids] \in ShownState
         /\ [shown EXCEPT !.frames = frames] \in ShownState
BY DEF ShownState

(* removeChild keeps the types of the three lists. *)
LEMMA WithoutChildType ==
  ASSUME TypeOK, NEW s \in Surface
  PROVE  /\ WithoutChild(pending, s) \in [Surface -> SurfaceState]
         /\ WithoutChild(current, s) \in [Surface -> ShownState]
         /\ CachedWithoutChild(s) \in [Surface -> SurfaceState]
<1>1. /\ \A state \in SurfaceState : RemoveKid(state, s) \in SurfaceState
      /\ \A state \in ShownState : RemoveKid(state, s) \in ShownState
  BY DEF RemoveKid, SurfaceState, ShownState
<1>2. QED
  BY <1>1 DEF WithoutChild, CachedWithoutChild, TypeOK

(* Showing one child more keeps the type of the shown states. *)
LEMMA WithChildType ==
  ASSUME NEW states \in [Surface -> ShownState], NEW p \in Surface, NEW s \in Surface
  PROVE  [states EXCEPT ![p].kids = @ \cup {s}] \in [Surface -> ShownState]
<1>1. states[p].kids \cup {s} \in SUBSET Surface
  BY DEF ShownState
<1>2. [states[p] EXCEPT !.kids = states[p].kids \cup {s}] \in ShownState
  BY <1>1 DEF ShownState
<1>3. QED
  BY <1>2

LEMMA FreshType ==
  /\ Fresh({}) \in SurfaceState
  /\ Blank \in ShownState
BY DEF Fresh, Blank, SurfaceState, ShownState

-----------------------------------------------------------------------------
(* Every state of every run is well typed (all variables of SurfaceTree).  *)
THEOREM TypeCorrect == Spec => []TypeOK
<1>1. Init => TypeOK
  BY FreshType DEF Init, TypeOK
<1>2. TypeOK /\ [Next]_vars => TypeOK'
  <2> SUFFICES ASSUME TypeOK, [Next]_vars PROVE TypeOK'
    OBVIOUS
  <2>1. ASSUME NEW s \in Surface, CreateSurface(s) PROVE TypeOK'
    BY <2>1 DEF CreateSurface, TypeOK, subVars
  <2>2. ASSUME NEW s \in Surface, AttachBuffer(s) PROVE TypeOK'
    <3>1. attached' \in 0 .. MaxAttach
      <4>1. attached \in 0 .. MaxAttach
        BY DEF TypeOK
      <4>2. attached < MaxAttach /\ attached' = attached + 1
        BY <2>2 DEF AttachBuffer
      <4>3. QED
        BY <4>1, <4>2
    <3>2. pending' \in [Surface -> SurfaceState]
      <4>1. pending' = [pending EXCEPT ![s] =
              [pending[s] EXCEPT !.buffer = attached', !.newBuffer = TRUE]]
        BY <2>2 DEF AttachBuffer, TypeOK
      <4>2. QED
        BY ZenonT(40), <4>1, <3>1, StateUpdates DEF TypeOK
    <3>3. QED
      BY <2>2, <3>1, <3>2 DEF AttachBuffer, TypeOK, subVars
  <2>3. ASSUME NEW s \in Surface, AttachNull(s) PROVE TypeOK'
    <3>1. pending' \in [Surface -> SurfaceState]
      <4>1. pending' = [pending EXCEPT ![s] =
              [pending[s] EXCEPT !.buffer = 0, !.newBuffer = TRUE]]
        BY <2>3 DEF AttachNull, TypeOK
      <4>2. 0 \in 0 .. MaxAttach
        OBVIOUS
      <4>3. QED
        BY ZenonT(40), <4>1, <4>2, StateUpdates DEF TypeOK
    <3>2. QED
      BY <2>3, <3>1 DEF AttachNull, TypeOK, subVars
  <2>4. ASSUME NEW s \in Surface, NEW b \in 1 .. MaxAttach, BufferDestroyed(s, b)
        PROVE TypeOK'
    <3>1. /\ pending' \in [Surface -> SurfaceState]
          /\ current' \in [Surface -> ShownState]
          /\ cached' \in [Surface -> SurfaceState]
      <4>1. 0 \in 0 .. MaxAttach
        OBVIOUS
      <4>2. /\ [pending[s] EXCEPT !.buffer = 0] \in SurfaceState
            /\ [current[s] EXCEPT !.buffer = 0] \in ShownState
            /\ [cached[s] EXCEPT !.buffer = 0] \in SurfaceState
        BY ZenonT(40), <4>1, StateUpdates, ShownUpdates DEF TypeOK
      <4>3. CASE pending' = [pending EXCEPT ![s] = [pending[s] EXCEPT !.buffer = 0]]
                 /\ current' = current /\ cached' = cached
        BY <4>2, <4>3 DEF TypeOK
      <4>4. CASE current' = [current EXCEPT ![s] = [current[s] EXCEPT !.buffer = 0]]
                 /\ pending' = pending /\ cached' = cached
        BY <4>2, <4>4 DEF TypeOK
      <4>5. CASE cached' = [cached EXCEPT ![s] = [cached[s] EXCEPT !.buffer = 0]]
                 /\ pending' = pending /\ current' = current
        BY <4>2, <4>5 DEF TypeOK
      <4>6. QED
        BY <2>4, <4>3, <4>4, <4>5 DEF BufferDestroyed
    <3>2. QED
      BY <2>4, <3>1 DEF BufferDestroyed, TypeOK
  <2>5. ASSUME NEW s \in Surface, NEW cb \in Callback, AddFrameCallback(s, cb)
        PROVE TypeOK'
    <3>1. pending[s].frames \cup {cb} \in SUBSET Callback
      BY DEF TypeOK, SurfaceState
    <3>2. pending' \in [Surface -> SurfaceState]
      BY ZenonT(40), <2>5, <3>1, StateUpdates DEF AddFrameCallback, TypeOK
    <3>3. QED
      BY <2>5, <3>2 DEF AddFrameCallback, TypeOK, subVars
  <2>6. ASSUME NEW s \in Surface, CommitToCache(s) PROVE TypeOK'
    <3>1. Cleared(pending[s], pending[s].kids) \in SurfaceState
      BY ClearedType DEF TypeOK, SurfaceState
    <3>2. QED
      BY <2>6, <3>1 DEF CommitToCache, TypeOK
  <2>7. ASSUME NEW s \in Surface, CommitToCurrent(s) PROVE TypeOK'
    <3>1. ApplyFrom(mode, current, s, pending[s], cached)
      BY <2>7 DEF CommitToCurrent
    <3>2. /\ current' \in [Surface -> ShownState]
          /\ cached' \in [Surface -> SurfaceState]
          /\ position' \in [Surface -> Position]
          /\ wanted' \in [Surface -> Position \cup {None}]
      BY <3>1, ApplyType DEF TypeOK
    <3>3. Cleared(pending[s], Merge(current[s], pending[s]).kids) \in SurfaceState
      BY ClearedType, MergeType DEF TypeOK, ShownState
    <3>4. QED
      BY <2>7, <3>2, <3>3 DEF CommitToCurrent, TypeOK
  <2>8. ASSUME NEW s \in Surface, CommitFaults(s) PROVE TypeOK'
    BY <2>8 DEF CommitFaults, Fail, TypeOK, surfaceVars, subVars
  <2>9. ASSUME NEW s \in Surface, FrameRendered(s) PROVE TypeOK'
    <3>1. \A c \in Surface : [current[c] EXCEPT !.frames = {}] \in ShownState
      BY ShownUpdates DEF TypeOK
    <3>2. current' \in [Surface -> ShownState] /\ owner' \in [Callback -> Surface \cup {None}]
      BY <2>9, <3>1 DEF FrameRendered, TypeOK
    <3>3. QED
      BY <2>9, <3>2 DEF FrameRendered, TypeOK, subVars
  <2>10. ASSUME NEW s \in Surface, DestroySurface(s) PROVE TypeOK'
    <3>1. /\ pending' \in [Surface -> SurfaceState]
          /\ current' \in [Surface -> ShownState]
          /\ cached' \in [Surface -> SurfaceState]
      <4>1. /\ WithoutChild(pending, s) \in [Surface -> SurfaceState]
            /\ WithoutChild(current, s) \in [Surface -> ShownState]
            /\ CachedWithoutChild(s) \in [Surface -> SurfaceState]
        BY WithoutChildType
      <4>2. QED
        BY <2>10, <4>1, FreshType DEF DestroySurface
    <3>2. QED
      BY <2>10, <3>1 DEF DestroySurface, TypeOK
  <2>11. ASSUME NEW s \in Surface, NEW p \in Surface, CreateSubsurface(s, p)
         PROVE TypeOK'
    <3>1. pending' \in [Surface -> SurfaceState] /\ cached' \in [Surface -> SurfaceState]
      <4>1. /\ [pending[p] EXCEPT !.kids = pending[p].kids \cup {s}, !.newKids = TRUE]
                 \in SurfaceState
            /\ [cached[p] EXCEPT !.kids = cached[p].kids \cup {s}] \in SurfaceState
        <5>1. pending[p] \in SurfaceState /\ cached[p] \in SurfaceState
          BY DEF TypeOK
        <5>2. QED
          BY <5>1 DEF SurfaceState
      <4>2. pending \in [Surface -> SurfaceState] /\ cached \in [Surface -> SurfaceState]
        BY DEF TypeOK
      <4>3. pending' = [pending EXCEPT ![p] =
              [pending[p] EXCEPT !.kids = pending[p].kids \cup {s}, !.newKids = TRUE]]
        BY <2>11, <4>2 DEF CreateSubsurface
      <4>4. pending' \in [Surface -> SurfaceState]
        BY <4>1, <4>2, <4>3
      <4>5. cached' \in [Surface -> SurfaceState]
        BY <2>11, <4>1, <4>2, FreshType DEF CreateSubsurface
      <4>6. QED
        BY <4>4, <4>5
    <3>2. QED
      BY <2>11, <3>1 DEF CreateSubsurface, TypeOK
  <2>12. ASSUME NEW s \in Surface, DestroySubsurface(s) PROVE TypeOK'
    <3>1. /\ pending' \in [Surface -> SurfaceState]
          /\ current' \in [Surface -> ShownState]
          /\ cached' \in [Surface -> SurfaceState]
      <4>1. /\ WithoutChild(pending, s) \in [Surface -> SurfaceState]
            /\ WithoutChild(current, s) \in [Surface -> ShownState]
            /\ CachedWithoutChild(s) \in [Surface -> SurfaceState]
        BY WithoutChildType
      <4>2. QED
        BY <2>12, <4>1, FreshType DEF DestroySubsurface
    <3>2. QED
      BY <2>12, <3>1 DEF DestroySubsurface, TypeOK
  <2>13. ASSUME NEW s \in Surface, DestroyFaults(s) PROVE TypeOK'
    BY <2>13 DEF DestroyFaults, Fail, TypeOK, surfaceVars, subVars
  <2>14. ASSUME NEW s \in Surface, SetSync(s) PROVE TypeOK'
    BY <2>14 DEF SetSync, TypeOK, surfaceVars
  <2>15. ASSUME NEW s \in Surface, SetDesync(s) PROVE TypeOK'
    <3> DEFINE shown == [current EXCEPT ![parent[s]].kids = @ \cup {s}]
               others == [cached EXCEPT ![s] = Cleared(@, Merge(shown[s], @).kids)]
    <3>1. shown \in [Surface -> ShownState]
      <4>1. parent[s] \in Surface
        BY <2>15 DEF SetDesync, TypeOK
      <4>2. current \in [Surface -> ShownState]
        BY DEF TypeOK
      <4>3. QED
        BY <4>1, <4>2, WithChildType
    <3>2. others \in [Surface -> SurfaceState]
      <4>1. Merge(shown[s], cached[s]).kids \in SUBSET Surface
        BY <3>1, MergeType DEF TypeOK, ShownState
      <4>2. QED
        BY <4>1, ClearedType DEF TypeOK
    <3>3. CASE AppliesAtOnce(parent[s])
      <4>1. ApplyFrom([mode EXCEPT ![s] = "desync"], shown, s, cached[s], others)
        BY <2>15, <3>3 DEF SetDesync
      <4> HIDE DEF shown, others
      <4>2. /\ current' \in [Surface -> ShownState]
            /\ cached' \in [Surface -> SurfaceState]
            /\ position' \in [Surface -> Position]
            /\ wanted' \in [Surface -> Position \cup {None}]
        BY <3>1, <3>2, <4>1, ApplyType DEF TypeOK
      <4>3. QED
        BY <2>15, <4>2 DEF SetDesync, TypeOK
    <3>4. CASE ~AppliesAtOnce(parent[s])
      BY <2>15, <3>4 DEF SetDesync, TypeOK
    <3>5. QED
      BY <3>3, <3>4
  <2>16. ASSUME NEW s \in Surface, SetDesyncFaults(s) PROVE TypeOK'
    BY <2>16 DEF SetDesyncFaults, Fail, TypeOK, surfaceVars, subVars
  <2>17. ASSUME NEW s \in Surface, NEW pos \in Position, SetPosition(s, pos)
         PROVE TypeOK'
    BY <2>17 DEF SetPosition, TypeOK, surfaceVars
  <2>18. ASSUME NEW s \in Surface, Restack(s) PROVE TypeOK'
    <3>1. pending' \in [Surface -> SurfaceState]
      BY ZenonT(40), <2>18, StateUpdates DEF Restack, TypeOK
    <3>2. QED
      BY <2>18, <3>1 DEF Restack, TypeOK, subVars
  <2>19. CASE UNCHANGED vars
    BY <2>19 DEF vars, surfaceVars, subVars, TypeOK
  <2>20. QED
    BY <2>1, <2>2, <2>3, <2>4, <2>5, <2>6, <2>7, <2>8, <2>9, <2>10, <2>11, <2>12,
       <2>13, <2>14, <2>15, <2>16, <2>17, <2>18, <2>19
       DEF Next, SurfaceStep, SubsurfaceStep
<1>3. QED
  BY <1>1, <1>2, PTL DEF Spec

-----------------------------------------------------------------------------
(* c is a subsurface with a surface that points back to its parent s. *)
Linked(s, c) == c \in sub /\ c \in alive /\ parent[c] = s

CurrentLinked == \A s \in alive : \A c \in current[s].kids : Linked(s, c)
PendingLinked == \A s \in alive : \A c \in pending[s].kids : Linked(s, c)
CachedLinked == \A s \in alive \cap sub : \A c \in cached[s].kids : Linked(s, c)
DeadBare ==
  \A s \in Surface \ alive :
    pending[s].kids = {} /\ current[s].kids = {} /\ parent[s] = None

(* The first three conjuncts say what KidsKnowParent says.  They are not   *)
(* inductive alone: a destroyed surface must have left no list behind when *)
(* its name is used again, and its wl_subsurface no parent, or set_desync  *)
(* would show a child without a surface.                                   *)
TreeInv == CurrentLinked /\ PendingLinked /\ CachedLinked /\ DeadBare

(* A step that leaves the lists and the links alone keeps the invariant.   *)
LEMMA ListsUntouched ==
  ASSUME TypeOK, TreeInv, UNCHANGED <<alive, sub, parent>>,
         \A s \in Surface : /\ pending'[s].kids = pending[s].kids
                            /\ current'[s].kids = current[s].kids
                            /\ cached'[s].kids = cached[s].kids
  PROVE  TreeInv'
<1>1. alive \subseteq Surface
  BY DEF TypeOK
<1>2. CurrentLinked' /\ PendingLinked' /\ CachedLinked' /\ DeadBare'
  BY <1>1 DEF TreeInv, CurrentLinked, PendingLinked, CachedLinked, DeadBare, Linked
<1>3. QED
  BY <1>2 DEF TreeInv

LEMMA MergeKids ==
  ASSUME NEW shown, NEW source
  PROVE  Merge(shown, source).kids \in {shown.kids, source.kids}
BY DEF Merge

LEMMA RemovedKids ==
  ASSUME NEW state \in SurfaceState \cup ShownState, NEW s
  PROVE  RemoveKid(state, s).kids = state.kids \ {s}
<1>1. CASE state \in SurfaceState
  BY <1>1 DEF RemoveKid, SurfaceState
<1>2. CASE state \in ShownState
  BY <1>2 DEF RemoveKid, ShownState
<1>3. QED
  BY <1>1, <1>2

LEMMA AddedKids ==
  ASSUME NEW states \in [Surface -> ShownState], NEW p, NEW s
  PROVE  \A x \in Surface : [states EXCEPT ![p].kids = @ \cup {s}][x].kids =
           IF x = p THEN states[x].kids \cup {s} ELSE states[x].kids
BY DEF ShownState

LEMMA ClearedKids ==
  ASSUME NEW state, NEW kids
  PROVE  Cleared(state, kids).kids = kids
BY DEF Cleared, Fresh

(* The lists of children that states holds for the surfaces of owners are  *)
(* linked; those of destroyed surfaces are empty.                          *)
Tied(owners, states) == \A s \in owners : \A c \in states[s].kids : Linked(s, c)
Bare(states) == \A s \in Surface \ alive : states[s].kids = {}

(* updateCurrentState from lists of linked children gives such lists.      *)
LEMMA ApplyTree ==
  ASSUME NEW md, NEW shown, NEW r \in alive, NEW source, NEW others, TypeOK,
         ApplyFrom(md, shown, r, source, others),
         \A c \in source.kids : Linked(r, c),
         Tied(alive, shown), Tied(alive \cap sub, cached),
         Tied(alive \cap sub, others), Bare(shown)
  PROVE  /\ Tied(alive, current')
         /\ Tied(alive \cap sub, cached')
         /\ Bare(current')
<1> DEFINE top == Merge(shown[r], source)
           visited == Visited(md, top.kids)
           synced == {c \in visited : Synced(md, c)}
<1>1. /\ \A c \in synced : IsSub(c)
      /\ current' = [s \in Surface |->
                       IF s = r THEN top
                       ELSE IF s \in synced THEN Merge(shown[s], cached[s])
                       ELSE shown[s]]
      /\ cached' = [s \in Surface |->
                      IF s \in synced
                        THEN Cleared(cached[s], Merge(shown[s], cached[s]).kids)
                        ELSE others[s]]
  BY DEF ApplyFrom
<1>2. \A c \in top.kids : Linked(r, c)
  BY MergeKids DEF Tied
<1>3. \A s \in alive \cap sub : \A c \in Merge(shown[s], cached[s]).kids : Linked(s, c)
  <2>1. TAKE s \in alive \cap sub
  <2>2. Merge(shown[s], cached[s]).kids \in {shown[s].kids, cached[s].kids}
    BY MergeKids
  <2>3. QED
    BY <2>2 DEF Tied
<1>4. alive \subseteq Surface
  BY DEF TypeOK
<1> HIDE DEF top, synced
<1>5. ASSUME NEW s \in alive, NEW c \in current'[s].kids PROVE Linked(s, c)
  BY <1>1, <1>2, <1>3, <1>4, <1>5 DEF IsSub, Tied
<1>6. ASSUME NEW s \in alive \cap sub, NEW c \in cached'[s].kids PROVE Linked(s, c)
  BY <1>1, <1>3, <1>4, <1>6, ClearedKids DEF Tied
<1>7. ASSUME NEW s \in Surface \ alive PROVE current'[s].kids = {}
  BY <1>1, <1>7 DEF IsSub, Bare
<1>8. QED
  BY <1>5, <1>6, <1>7 DEF Tied, Bare

(* Children and parents know each other, whatever clients do.              *)
LEMMA TreeAlways == Spec => []TreeInv
<1>1. Init => TreeInv
  BY DEF Init, TreeInv, CurrentLinked, PendingLinked, CachedLinked, DeadBare,
     Fresh, Blank
<1>2. TypeOK /\ TreeInv /\ [Next]_vars => TreeInv'
  <2> SUFFICES ASSUME TypeOK, TreeInv, [Next]_vars PROVE TreeInv'
    OBVIOUS
  <2>0. /\ alive \subseteq Surface
        /\ \A s \in Surface : pending[s] \in SurfaceState /\ cached[s] \in SurfaceState
        /\ \A s \in Surface : current[s] \in ShownState
        /\ pending \in [Surface -> SurfaceState]
        /\ current \in [Surface -> ShownState]
        /\ cached \in [Surface -> SurfaceState]
    BY DEF TypeOK
  <2>1. ASSUME NEW s \in Surface, CreateSurface(s) PROVE TreeInv'
    <3>1. s \notin alive /\ s \notin sub /\ alive' = alive \cup {s}
          /\ UNCHANGED <<pending, current, cached, sub, parent>>
      BY <2>1 DEF CreateSurface, subVars
    <3>2. CurrentLinked' /\ PendingLinked' /\ CachedLinked' /\ DeadBare'
      BY <3>1 DEF TreeInv, CurrentLinked, PendingLinked, CachedLinked, DeadBare, Linked
    <3>3. QED
      BY <3>2 DEF TreeInv
  <2>2. ASSUME NEW s \in Surface, AttachBuffer(s) PROVE TreeInv'
    <3>1. \A x \in Surface : pending'[x].kids = pending[x].kids
      BY <2>0, <2>2 DEF AttachBuffer, SurfaceState
    <3>2. QED
      BY <2>2, <3>1, ListsUntouched DEF AttachBuffer, subVars
  <2>3. ASSUME NEW s \in Surface, AttachNull(s) PROVE TreeInv'
    <3>1. \A x \in Surface : pending'[x].kids = pending[x].kids
      BY <2>0, <2>3 DEF AttachNull, SurfaceState
    <3>2. QED
      BY <2>3, <3>1, ListsUntouched DEF AttachNull, subVars
  <2>4. ASSUME NEW s \in Surface, NEW b \in 1 .. MaxAttach, BufferDestroyed(s, b)
        PROVE TreeInv'
    <3>1. \A x \in Surface : /\ pending'[x].kids = pending[x].kids
                             /\ current'[x].kids = current[x].kids
                             /\ cached'[x].kids = cached[x].kids
      <4>1. CASE UNCHANGED <<current, cached>>
                 /\ pending' = [pending EXCEPT ![s].buffer = 0]
        BY <2>0, <4>1 DEF SurfaceState
      <4>2. CASE UNCHANGED <<pending, cached>>
                 /\ current' = [current EXCEPT ![s].buffer = 0]
        BY <2>0, <4>2 DEF ShownState
      <4>3. CASE UNCHANGED <<pending, current>>
                 /\ cached' = [cached EXCEPT ![s].buffer = 0]
        BY <2>0, <4>3 DEF SurfaceState
      <4>4. QED
        BY <2>4, <4>1, <4>2, <4>3 DEF BufferDestroyed
    <3>2. QED
      BY <2>4, <3>1, ListsUntouched DEF BufferDestroyed
  <2>5. ASSUME NEW s \in Surface, NEW cb \in Callback, AddFrameCallback(s, cb)
        PROVE TreeInv'
    <3>1. \A x \in Surface : pending'[x].kids = pending[x].kids
      BY <2>0, <2>5 DEF AddFrameCallback, SurfaceState
    <3>2. QED
      BY <2>5, <3>1, ListsUntouched DEF AddFrameCallback, subVars
  <2>6. ASSUME NEW s \in Surface, CommitToCache(s) PROVE TreeInv'
    <3>1. /\ UNCHANGED <<alive, sub, parent, current>>
          /\ cached' = [cached EXCEPT ![s] = pending[s]]
          /\ pending' = [pending EXCEPT ![s] = Cleared(pending[s], pending[s].kids)]
      BY <2>6 DEF CommitToCache
    <3>2. \A x \in Surface : pending'[x].kids = pending[x].kids
      BY <2>0, <3>1, ClearedKids
    <3>3. CachedLinked'
      BY <2>0, <3>1 DEF TreeInv, CachedLinked, PendingLinked, Linked
    <3>4. CurrentLinked' /\ PendingLinked' /\ DeadBare'
      BY <2>0, <3>1, <3>2 DEF TreeInv, CurrentLinked, PendingLinked, DeadBare, Linked
    <3>5. QED
      BY <3>3, <3>4 DEF TreeInv
  <2>7. ASSUME NEW s \in Surface, CommitToCurrent(s) PROVE TreeInv'
    <3>1. /\ s \in alive
          /\ ApplyFrom(mode, current, s, pending[s], cached)
          /\ UNCHANGED <<alive, sub, parent>>
          /\ pending' = [pending EXCEPT ![s] =
               Cleared(pending[s], Merge(current[s], pending[s]).kids)]
      BY <2>7 DEF CommitToCurrent
    <3>2. /\ \A x \in alive : \A c \in current'[x].kids : Linked(x, c)
          /\ \A x \in alive \cap sub : \A c \in cached'[x].kids : Linked(x, c)
          /\ \A x \in Surface \ alive : current'[x].kids = {}
      <4>1. /\ \A c \in pending[s].kids : Linked(s, c)
            /\ Tied(alive, current)
            /\ Tied(alive \cap sub, cached)
            /\ Bare(current)
        BY <3>1 DEF TreeInv, CurrentLinked, PendingLinked, CachedLinked, DeadBare,
                    Tied, Bare
      <4>2. Tied(alive, current') /\ Tied(alive \cap sub, cached') /\ Bare(current')
        BY <3>1, <4>1, ApplyTree
      <4>3. QED
        BY <4>2 DEF Tied, Bare
    <3>3. \A c \in Merge(current[s], pending[s]).kids : Linked(s, c)
      BY <3>1, MergeKids DEF TreeInv, CurrentLinked, PendingLinked
    <3>4. \A x \in Surface :
            pending'[x].kids = IF x = s THEN Merge(current[s], pending[s]).kids
                                        ELSE pending[x].kids
      BY <2>0, <3>1, ClearedKids
    <3>5. CurrentLinked' /\ CachedLinked'
      BY <3>1, <3>2 DEF CurrentLinked, CachedLinked, Linked
    <3>6. PendingLinked' /\ DeadBare'
      BY <2>0, <3>1, <3>2, <3>3, <3>4 DEF TreeInv, PendingLinked, DeadBare, Linked
    <3>7. QED
      BY <3>5, <3>6 DEF TreeInv
  <2>8. ASSUME NEW s \in Surface, CommitFaults(s) PROVE TreeInv'
    BY <2>8, ListsUntouched DEF CommitFaults, Fail, surfaceVars, subVars
  <2>9. ASSUME NEW s \in Surface, FrameRendered(s) PROVE TreeInv'
    <3>1. \A x \in Surface : current'[x].kids = current[x].kids
      BY <2>0, <2>9 DEF FrameRendered, ShownState
    <3>2. QED
      BY <2>9, <3>1, ListsUntouched DEF FrameRendered, subVars
  <2>10. ASSUME NEW s \in Surface, DestroySurface(s) PROVE TreeInv'
    <3>1. /\ alive' = alive \ {s} /\ sub' = sub
          /\ parent[s] # None => parent[s] \in alive
          /\ parent' = [x \in Surface |->
               IF x = s \/ x \in LinkedKids(s) THEN None ELSE parent[x]]
          /\ s \in alive
      BY <2>10 DEF DestroySurface, Dangles
    <3>2. /\ \A x \in Surface : pending'[x].kids =
               IF x = s THEN {}
               ELSE IF x = parent[s] THEN pending[x].kids \ {s} ELSE pending[x].kids
          /\ \A x \in Surface : current'[x].kids =
               IF x = s THEN {}
               ELSE IF x = parent[s] THEN current[x].kids \ {s} ELSE current[x].kids
          /\ \A x \in Surface : cached'[x].kids =
               IF x = parent[s] /\ x \in sub THEN cached[x].kids \ {s} ELSE cached[x].kids
      BY <2>0, <2>10, RemovedKids
         DEF DestroySurface, WithoutChild, CachedWithoutChild, Fresh, Blank
    <3>3. \A x \in alive \ {s} : \A c \in LinkedKids(s) : ~Linked(x, c)
      BY <3>1 DEF LinkedKids, TreeInv, CurrentLinked, PendingLinked, Linked
    <3>4. \A x \in alive \ {s} : \A c : Linked(x, c) /\ (x = parent[s] => c # s)
                                        => Linked(x, c)'
      BY <2>0, <3>1, <3>3 DEF Linked, TypeOK
    <3>5. CurrentLinked'
      <4>1. ASSUME NEW x \in alive', NEW c \in current'[x].kids PROVE Linked(x, c)'
        BY <2>0, <3>1, <3>2, <3>4, <4>1 DEF TreeInv, CurrentLinked
      <4>2. QED
        BY <4>1 DEF CurrentLinked
    <3>6. PendingLinked'
      <4>1. ASSUME NEW x \in alive', NEW c \in pending'[x].kids PROVE Linked(x, c)'
        BY <2>0, <3>1, <3>2, <3>4, <4>1 DEF TreeInv, PendingLinked
      <4>2. QED
        BY <4>1 DEF PendingLinked
    <3>7. CachedLinked'
      <4>1. ASSUME NEW x \in alive' \cap sub', NEW c \in cached'[x].kids PROVE Linked(x, c)'
        BY <2>0, <3>1, <3>2, <3>4, <4>1 DEF TreeInv, CachedLinked
      <4>2. QED
        BY <4>1 DEF CachedLinked
    <3>8. DeadBare'
      <4>1. ASSUME NEW x \in Surface \ alive'
            PROVE  pending'[x].kids = {} /\ current'[x].kids = {} /\ parent'[x] = None
        BY <2>0, <3>1, <3>2, <4>1 DEF TreeInv, DeadBare
      <4>2. QED
        BY <4>1 DEF DeadBare
    <3>9. QED
      BY <3>5, <3>6, <3>7, <3>8 DEF TreeInv
  <2>11. ASSUME NEW s \in Surface, NEW p \in Surface, CreateSubsurface(s, p)
         PROVE TreeInv'
    <3>1. /\ s \in alive /\ p \in alive /\ s \notin sub /\ sub' = sub \cup {s}
          /\ alive' = alive /\ current' = current
          /\ parent' = [parent EXCEPT ![s] = p]
      BY <2>11 DEF CreateSubsurface
    <3>2. /\ \A x \in Surface : pending'[x].kids =
               IF x = p THEN pending[x].kids \cup {s} ELSE pending[x].kids
          /\ \A x \in Surface : cached'[x].kids =
               IF x = s THEN {}
               ELSE IF x = p /\ p \in sub THEN cached[x].kids \cup {s}
               ELSE cached[x].kids
      <4>1. /\ pending' = [pending EXCEPT ![p].kids = @ \cup {s}, ![p].newKids = TRUE]
            /\ cached' = [x \in Surface |->
                  IF x = s THEN Fresh({})
                  ELSE IF x = p /\ p \in sub
                    THEN [cached[p] EXCEPT !.kids = @ \cup {s}]
                  ELSE cached[x]]
        BY <2>11 DEF CreateSubsurface
      <4>2. [pending[p] EXCEPT !.kids = @ \cup {s}, !.newKids = TRUE].kids
              = pending[p].kids \cup {s}
        BY <2>0 DEF SurfaceState
      <4>3. [cached[p] EXCEPT !.kids = @ \cup {s}].kids = cached[p].kids \cup {s}
        BY <2>0 DEF SurfaceState
      <4>4. \A x \in Surface : pending'[x].kids =
               IF x = p THEN pending[x].kids \cup {s} ELSE pending[x].kids
        BY <2>0, <4>1, <4>2 DEF SurfaceState
      <4>5. Fresh({}).kids = {}
        BY DEF Fresh
      <4>6. QED
        BY <4>1, <4>3, <4>4, <4>5
    <3>3. \A x, c : Linked(x, c) => Linked(x, c)'
      BY <3>1 DEF Linked, TypeOK
    <3>4. Linked(p, s)'
      BY <3>1 DEF Linked, TypeOK
    <3>5. CurrentLinked' /\ PendingLinked' /\ CachedLinked'
      <4>1. CurrentLinked'
        BY <3>1, <3>3 DEF TreeInv, CurrentLinked
      <4>2. PendingLinked'
        BY ZenonT(40), <2>0, <3>1, <3>2, <3>3, <3>4 DEF TreeInv, PendingLinked
      <4>3. CachedLinked'
        <5>1. ASSUME NEW x \in alive' \cap sub', NEW c \in cached'[x].kids
              PROVE  Linked(x, c)'
          <6>1. x \in Surface /\ x # s /\ x \in alive \cap sub
            BY <2>0, <3>1, <3>2, <5>1
          <6>2. c \in cached[x].kids \/ (x = p /\ c = s)
            BY <3>2, <5>1, <6>1
          <6>3. QED
            BY <3>3, <3>4, <6>1, <6>2 DEF TreeInv, CachedLinked
        <5>2. QED
          BY <5>1 DEF CachedLinked
      <4>4. QED
        BY <4>1, <4>2, <4>3
    <3>6. DeadBare'
      BY <2>0, <3>1, <3>2 DEF TreeInv, DeadBare, TypeOK
    <3>7. QED
      BY <3>5, <3>6 DEF TreeInv
  <2>12. ASSUME NEW s \in Surface, DestroySubsurface(s) PROVE TreeInv'
    <3>1. /\ alive' = alive /\ sub' = sub \ {s}
          /\ parent' = [parent EXCEPT ![s] = None]
      BY <2>12 DEF DestroySubsurface
    <3>2. /\ \A x \in Surface : pending'[x].kids =
               IF x = parent[s] THEN pending[x].kids \ {s} ELSE pending[x].kids
          /\ \A x \in Surface : current'[x].kids =
               IF x = parent[s] THEN current[x].kids \ {s} ELSE current[x].kids
          /\ \A x \in Surface \ {s} : cached'[x].kids =
               IF x = parent[s] /\ x \in sub THEN cached[x].kids \ {s} ELSE cached[x].kids
      BY <2>0, <2>12, RemovedKids
         DEF DestroySubsurface, WithoutChild, CachedWithoutChild
    <3>3. \A x \in alive : \A c : Linked(x, c) /\ (x = parent[s] => c # s)
                                  => Linked(x, c)'
      BY <2>0, <3>1 DEF Linked, TypeOK
    <3>4. CurrentLinked' /\ PendingLinked'
      <4>1. ASSUME NEW x \in alive', NEW c \in current'[x].kids PROVE Linked(x, c)'
        BY <2>0, <3>1, <3>2, <3>3, <4>1 DEF TreeInv, CurrentLinked
      <4>2. ASSUME NEW x \in alive', NEW c \in pending'[x].kids PROVE Linked(x, c)'
        BY <2>0, <3>1, <3>2, <3>3, <4>2 DEF TreeInv, PendingLinked
      <4>3. QED
        BY <4>1, <4>2 DEF CurrentLinked, PendingLinked
    <3>5. CachedLinked'
      <4>1. ASSUME NEW x \in alive' \cap sub', NEW c \in cached'[x].kids PROVE Linked(x, c)'
        BY <2>0, <3>1, <3>2, <3>3, <4>1 DEF TreeInv, CachedLinked
      <4>2. QED
        BY <4>1 DEF CachedLinked
    <3>6. DeadBare'
      <4>1. ASSUME NEW x \in Surface \ alive'
            PROVE  pending'[x].kids = {} /\ current'[x].kids = {} /\ parent'[x] = None
        BY ZenonT(40), <2>0, <3>1, <3>2, <4>1 DEF TreeInv, DeadBare, TypeOK
      <4>2. QED
        BY <4>1 DEF DeadBare
    <3>7. QED
      BY <3>4, <3>5, <3>6 DEF TreeInv
  <2>13. ASSUME NEW s \in Surface, DestroyFaults(s) PROVE TreeInv'
    BY <2>13, ListsUntouched DEF DestroyFaults, Fail, surfaceVars, subVars
  <2>14. ASSUME NEW s \in Surface, SetSync(s) PROVE TreeInv'
    BY <2>14, ListsUntouched DEF SetSync, surfaceVars
  <2>15. ASSUME NEW s \in Surface, SetDesync(s) PROVE TreeInv'
    <3> DEFINE md == [mode EXCEPT ![s] = "desync"]
               shown == [current EXCEPT ![parent[s]].kids = @ \cup {s}]
               others == [cached EXCEPT ![s] = Cleared(@, Merge(shown[s], @).kids)]
    <3>1. CASE AppliesAtOnce(parent[s])
      <4>1. /\ ApplyFrom(md, shown, s, cached[s], others)
            /\ UNCHANGED <<alive, sub, parent, pending>>
        BY <2>15, <3>1 DEF SetDesync
      <4>2. s \in sub /\ parent[s] \in alive
        BY <2>15 DEF SetDesync
      <4>3. s \in alive
        BY <2>0, <4>2, NoneAssumption DEF TreeInv, DeadBare
      <4>4. \A x \in Surface : shown[x].kids =
              IF x = parent[s] THEN current[x].kids \cup {s} ELSE current[x].kids
        BY <2>0, AddedKids
      <4>5. \A x \in alive : \A c \in shown[x].kids : Linked(x, c)
        BY <2>0, <4>2, <4>3, <4>4 DEF TreeInv, CurrentLinked, Linked
      <4>6. \A x \in Surface \ alive : shown[x].kids = {}
        BY <4>2, <4>4 DEF TreeInv, DeadBare
      <4> HIDE DEF shown
      <4>7. \A c \in Merge(shown[s], cached[s]).kids : Linked(s, c)
        BY <4>2, <4>3, <4>5, MergeKids DEF TreeInv, CachedLinked
      <4>8. \A x \in alive \cap sub : \A c \in others[x].kids : Linked(x, c)
        <5>1. \A x \in Surface : others[x].kids =
                IF x = s THEN Merge(shown[s], cached[s]).kids ELSE cached[x].kids
          BY <2>0, ClearedKids
        <5> HIDE DEF others
        <5>2. QED
          BY <2>0, <4>7, <5>1 DEF TreeInv, CachedLinked
      <4> HIDE DEF others, md
      <4>9. /\ \A x \in alive : \A c \in current'[x].kids : Linked(x, c)
            /\ \A x \in alive \cap sub : \A c \in cached'[x].kids : Linked(x, c)
            /\ \A x \in Surface \ alive : current'[x].kids = {}
        <5>1. /\ \A c \in cached[s].kids : Linked(s, c)
              /\ Tied(alive \cap sub, cached)
          BY <4>2, <4>3 DEF TreeInv, CachedLinked, Tied
        <5>2. Tied(alive, shown) /\ Tied(alive \cap sub, others) /\ Bare(shown)
          BY <4>5, <4>6, <4>8 DEF Tied, Bare
        <5>3. ApplyFrom(md, shown, s, cached[s], others)
          BY <4>1
        <5>4. Tied(alive, current') /\ Tied(alive \cap sub, cached') /\ Bare(current')
          BY <4>3, <5>1, <5>2, <5>3, ApplyTree
        <5>5. QED
          BY <5>4 DEF Tied, Bare
      <4>10. CurrentLinked' /\ PendingLinked' /\ CachedLinked' /\ DeadBare'
        BY <4>1, <4>9
           DEF TreeInv, CurrentLinked, PendingLinked, CachedLinked, DeadBare, Linked
      <4>11. QED
        BY <4>10 DEF TreeInv
    <3>2. CASE ~AppliesAtOnce(parent[s])
      BY <2>15, <3>2, ListsUntouched DEF SetDesync
    <3>3. QED
      BY <3>1, <3>2
  <2>16. ASSUME NEW s \in Surface, SetDesyncFaults(s) PROVE TreeInv'
    BY <2>16, ListsUntouched DEF SetDesyncFaults, Fail, surfaceVars, subVars
  <2>17. ASSUME NEW s \in Surface, NEW pos \in Position, SetPosition(s, pos)
         PROVE TreeInv'
    BY <2>17, ListsUntouched DEF SetPosition, surfaceVars
  <2>18. ASSUME NEW s \in Surface, Restack(s) PROVE TreeInv'
    <3>1. \A x \in Surface : pending'[x].kids = pending[x].kids
      BY <2>0, <2>18 DEF Restack, SurfaceState
    <3>2. QED
      BY <2>18, <3>1, ListsUntouched DEF Restack, subVars
  <2>19. CASE UNCHANGED vars
    BY <2>19, ListsUntouched DEF vars, surfaceVars, subVars
  <2>20. QED
    BY <2>1, <2>2, <2>3, <2>4, <2>5, <2>6, <2>7, <2>8, <2>9, <2>10, <2>11, <2>12,
       <2>13, <2>14, <2>15, <2>16, <2>17, <2>18, <2>19
       DEF Next, SurfaceStep, SubsurfaceStep
<1> QED
  BY TypeCorrect, <1>1, <1>2, PTL DEF Spec

(* Whatever list a child is in, it is a subsurface with a live surface and *)
(* points back to the surface of the list: applyCached and frameRendered   *)
(* never follow a pointer to a surface that is gone.                       *)
THEOREM KidsCorrect == Spec => []KidsKnowParent
<1>1. TreeInv => KidsKnowParent
  BY DEF TreeInv, CurrentLinked, PendingLinked, CachedLinked, Linked,
     KidsKnowParent, KidsOf
<1> QED
  BY TreeAlways, <1>1, PTL

-----------------------------------------------------------------------------
(* What a surface holds: no buffer or callback is in two of its states.    *)
Apart(p, c, k) ==
  /\ p.buffer = c.buffer => p.buffer = 0
  /\ k.buffer \in {p.buffer, c.buffer} => k.buffer = 0
  /\ p.frames \cap c.frames = {} /\ (p.frames \cup c.frames) \cap k.frames = {}

(* This is not inductive alone: what is attached or asked for next has to  *)
(* be new to every state, those of destroyed surfaces included.            *)
Buffers(p, c, k) == {p.buffer, c.buffer, k.buffer}
Frames(p, c, k) == p.frames \cup c.frames \cup k.frames
Known(p, c, k, s) ==
  /\ Buffers(p, c, k) \subseteq 0 .. attached
  /\ \A cb \in Frames(p, c, k) : owner[cb] = s

HeldInv ==
  \A s \in Surface : /\ Apart(pending[s], current[s], cached[s])
                     /\ Known(pending[s], current[s], cached[s], s)

(* A state that moves to the next one leaves nothing behind.               *)
LEMMA MovedApart ==
  ASSUME NEW p, NEW c, NEW k, NEW kids, NEW more, Apart(p, c, k)
  PROVE  /\ Apart(Cleared(p, kids), c, p)
         /\ Apart(Cleared(p, kids), Merge(c, p), k)
         /\ Apart(p, Merge(c, k), Cleared(k, more))
         /\ Apart(Cleared(p, kids), Merge(c, p), Cleared(k, more))
BY DEF Apart, Cleared, Fresh, Merge

LEMMA MovedKnown ==
  ASSUME NEW p, NEW c, NEW k, NEW kids, NEW more
  PROVE  /\ Buffers(Cleared(p, kids), c, p) \subseteq Buffers(p, c, k) \cup {0}
         /\ Buffers(Cleared(p, kids), Merge(c, p), k) \subseteq Buffers(p, c, k) \cup {0}
         /\ Buffers(p, Merge(c, k), Cleared(k, more)) \subseteq Buffers(p, c, k) \cup {0}
         /\ Buffers(Cleared(p, kids), Merge(c, p), Cleared(k, more))
               \subseteq Buffers(p, c, k) \cup {0}
         /\ Frames(Cleared(p, kids), c, p) \subseteq Frames(p, c, k)
         /\ Frames(Cleared(p, kids), Merge(c, p), k) \subseteq Frames(p, c, k)
         /\ Frames(p, Merge(c, k), Cleared(k, more)) \subseteq Frames(p, c, k)
         /\ Frames(Cleared(p, kids), Merge(c, p), Cleared(k, more)) \subseteq Frames(p, c, k)
BY DEF Buffers, Frames, Cleared, Fresh, Merge

(* A state q keeps of state p at most what it held.                        *)
Less(q, p) == q.buffer \in {p.buffer, 0} /\ q.frames \subseteq p.frames

LEMMA LessApart ==
  ASSUME NEW p, NEW c, NEW k, NEW p2, NEW c2, NEW k2, Apart(p, c, k),
         Less(p2, p), Less(c2, c), Less(k2, k)
  PROVE  /\ Apart(p2, c2, k2)
         /\ Buffers(p2, c2, k2) \subseteq Buffers(p, c, k) \cup {0}
         /\ Frames(p2, c2, k2) \subseteq Frames(p, c, k)
BY DEF Apart, Less, Buffers, Frames

LEMMA ZeroAttached == ASSUME TypeOK PROVE 0 \in 0 .. attached
<1>1. attached \in 0 .. MaxAttach
  BY DEF TypeOK
<1> QED
  BY <1>1

(* So a step keeps the invariant if the states of every surface only lose  *)
(* what they held, and the owners of what is left stay.                    *)
LEMMA LessHeld ==
  ASSUME TypeOK, HeldInv, attached' = attached,
         \A s \in Surface :
           /\ Less(pending'[s], pending[s]) /\ Less(current'[s], current[s])
           /\ Less(cached'[s], cached[s])
           /\ \A cb \in Frames(pending'[s], current'[s], cached'[s]) : owner'[cb] = owner[cb]
  PROVE  HeldInv'
<1> SUFFICES ASSUME NEW s \in Surface
             PROVE  /\ Apart(pending'[s], current'[s], cached'[s])
                    /\ Buffers(pending'[s], current'[s], cached'[s]) \subseteq 0 .. attached'
                    /\ \A cb \in Frames(pending'[s], current'[s], cached'[s]) : owner'[cb] = s
  BY DEF HeldInv, Known
<1>1. /\ Apart(pending[s], current[s], cached[s])
      /\ Buffers(pending[s], current[s], cached[s]) \subseteq 0 .. attached
      /\ \A cb \in Frames(pending[s], current[s], cached[s]) : owner[cb] = s
  BY DEF HeldInv, Known
<1>2. /\ Apart(pending'[s], current'[s], cached'[s])
      /\ Buffers(pending'[s], current'[s], cached'[s])
           \subseteq Buffers(pending[s], current[s], cached[s]) \cup {0}
      /\ Frames(pending'[s], current'[s], cached'[s])
           \subseteq Frames(pending[s], current[s], cached[s])
  <2>1. /\ Less(pending'[s], pending[s]) /\ Less(current'[s], current[s])
        /\ Less(cached'[s], cached[s])
    OBVIOUS
  <2> QED
    BY <1>1, <2>1, LessApart
<1>3. 0 \in 0 .. attached
  BY ZeroAttached
<1> QED
  BY <1>1, <1>2, <1>3

LEMMA SameHeld ==
  ASSUME TypeOK, HeldInv, UNCHANGED <<attached, owner>>,
         \A s \in Surface :
           /\ pending'[s].buffer = pending[s].buffer /\ pending'[s].frames = pending[s].frames
           /\ current'[s].buffer = current[s].buffer /\ current'[s].frames = current[s].frames
           /\ cached'[s].buffer = cached[s].buffer /\ cached'[s].frames = cached[s].frames
  PROVE  HeldInv'
BY LessHeld DEF Less

(* What one surface holds after its states moved on.                       *)
LEMMA MovedHeld ==
  ASSUME TypeOK, NEW p, NEW c, NEW k, NEW kids, NEW more, NEW s,
         Apart(p, c, k), Known(p, c, k, s),
         NEW p2, NEW c2, NEW k2,
         \/ p2 = Cleared(p, kids) /\ c2 = c /\ k2 = p
         \/ p2 = Cleared(p, kids) /\ c2 = Merge(c, p) /\ k2 = k
         \/ p2 = p /\ c2 = Merge(c, k) /\ k2 = Cleared(k, more)
         \/ p2 = Cleared(p, kids) /\ c2 = Merge(c, p) /\ k2 = Cleared(k, more)
  PROVE  Apart(p2, c2, k2) /\ Known(p2, c2, k2, s)
<1>1. /\ Apart(p2, c2, k2)
      /\ Buffers(p2, c2, k2) \subseteq Buffers(p, c, k) \cup {0}
      /\ Frames(p2, c2, k2) \subseteq Frames(p, c, k)
  <2>1. CASE p2 = Cleared(p, kids) /\ c2 = c /\ k2 = p
    BY <2>1, MovedApart, MovedKnown
  <2>2. CASE p2 = Cleared(p, kids) /\ c2 = Merge(c, p) /\ k2 = k
    BY <2>2, MovedApart, MovedKnown
  <2>3. CASE p2 = p /\ c2 = Merge(c, k) /\ k2 = Cleared(k, more)
    BY <2>3, MovedApart, MovedKnown
  <2>4. CASE p2 = Cleared(p, kids) /\ c2 = Merge(c, p) /\ k2 = Cleared(k, more)
    BY <2>4, MovedApart, MovedKnown
  <2> QED
    BY <2>1, <2>2, <2>3, <2>4
<1>2. 0 \in 0 .. attached
  BY ZeroAttached
<1> QED
  BY <1>1, <1>2 DEF Known

(* What updateCurrentState does to one surface: the committed one, one     *)
(* below it whose cached state is applied, or any other.                   *)
AppliedTo(shown, r, source, others, s) ==
  \E kids :
    \/ /\ s = r /\ current'[s] = Merge(shown[s], source)
       /\ \/ cached'[s] = others[s]
          \/ cached'[s] = Cleared(cached[s], kids)
    \/ /\ s # r /\ current'[s] = Merge(shown[s], cached[s])
       /\ cached'[s] = Cleared(cached[s], kids)
    \/ s # r /\ current'[s] = shown[s] /\ cached'[s] = others[s]

LEMMA Applied ==
  ASSUME NEW md, NEW shown, NEW r \in Surface, NEW source, NEW others,
         ApplyFrom(md, shown, r, source, others), NEW s \in Surface
  PROVE  AppliedTo(shown, r, source, others, s)
<1> DEFINE synced == {c \in Visited(md, Merge(shown[r], source).kids) : Synced(md, c)}
           kids == Merge(shown[s], cached[s]).kids
<1>1. /\ current'[s] = IF s = r THEN Merge(shown[r], source)
                       ELSE IF s \in synced THEN Merge(shown[s], cached[s])
                       ELSE shown[s]
      /\ cached'[s] = IF s \in synced THEN Cleared(cached[s], kids) ELSE others[s]
  BY DEF ApplyFrom
<1> HIDE DEF synced, kids
<1> QED
  BY <1>1 DEF AppliedTo

LEMMA KnownStays ==
  ASSUME NEW p, NEW c, NEW k, NEW s, Known(p, c, k, s), UNCHANGED <<attached, owner>>
  PROVE  /\ Buffers(p, c, k) \subseteq 0 .. attached'
         /\ \A cb \in Frames(p, c, k) : owner'[cb] = s
BY DEF Known

LEMMA CommitHeld ==
  ASSUME TypeOK, HeldInv, NEW r \in Surface, CommitToCurrent(r)
  PROVE  HeldInv'
<1>1. ApplyFrom(mode, current, r, pending[r], cached) /\ UNCHANGED <<attached, owner>>
  BY DEF CommitToCurrent
<1>2. \A s \in Surface : pending'[s] =
        IF s = r THEN Cleared(pending[r], Merge(current[r], pending[r]).kids) ELSE pending[s]
  BY DEF CommitToCurrent, TypeOK
<1> SUFFICES ASSUME NEW s \in Surface
             PROVE  /\ Apart(pending'[s], current'[s], cached'[s])
                    /\ Buffers(pending'[s], current'[s], cached'[s]) \subseteq 0 .. attached'
                    /\ \A cb \in Frames(pending'[s], current'[s], cached'[s]) : owner'[cb] = s
  BY DEF HeldInv, Known
<1>3. Apart(pending[s], current[s], cached[s]) /\ Known(pending[s], current[s], cached[s], s)
  BY DEF HeldInv
<1>4. AppliedTo(current, r, pending[r], cached, s)
  BY <1>1, Applied
<1>5. /\ Apart(pending'[s], current'[s], cached'[s])
      /\ Known(pending'[s], current'[s], cached'[s], s)
  <2> DEFINE left == Merge(current[r], pending[r]).kids
  <2>0. PICK kids :
          \/ /\ s = r /\ current'[s] = Merge(current[s], pending[r])
             /\ \/ cached'[s] = cached[s]
                \/ cached'[s] = Cleared(cached[s], kids)
          \/ /\ s # r /\ current'[s] = Merge(current[s], cached[s])
             /\ cached'[s] = Cleared(cached[s], kids)
          \/ s # r /\ current'[s] = current[s] /\ cached'[s] = cached[s]
    BY <1>4 DEF AppliedTo
  <2>1. CASE s = r
    <3>1. pending'[s] = Cleared(pending[s], left) /\ current'[s] = Merge(current[s], pending[s])
      BY <1>2, <2>0, <2>1
    <3>2. cached'[s] = cached[s] \/ cached'[s] = Cleared(cached[s], kids)
      BY <2>0, <2>1
    <3> HIDE DEF left
    <3> QED
      BY <1>3, <3>1, <3>2, MovedHeld
  <2>2. CASE s # r
    <3>1. pending'[s] = pending[s]
      BY <1>2, <2>2
    <3>2. CASE current'[s] = Merge(current[s], cached[s]) /\ cached'[s] = Cleared(cached[s], kids)
      BY <1>3, <3>1, <3>2, MovedHeld
    <3>3. CASE current'[s] = current[s] /\ cached'[s] = cached[s]
      BY <1>3, <3>1, <3>3
    <3> QED
      BY <2>0, <2>2, <3>2, <3>3
  <2> QED
    BY <2>1, <2>2
<1> QED
  BY <1>1, <1>5, KnownStays

(* Switching to desynchronized mode applies the cached state of r, after   *)
(* listing r as a child shown by its parent.                               *)
LEMMA DesyncHeld ==
  ASSUME TypeOK, HeldInv, NEW r \in Surface, SetDesync(r), AppliesAtOnce(parent[r])
  PROVE  HeldInv'
<1> DEFINE md == [mode EXCEPT ![r] = "desync"]
           shown == [current EXCEPT ![parent[r]].kids = @ \cup {r}]
           kept == Merge(shown[r], cached[r]).kids
           others == [cached EXCEPT ![r] = Cleared(@, kept)]
<1>1. /\ ApplyFrom(md, shown, r, cached[r], others)
      /\ UNCHANGED <<pending, attached, owner>>
  BY DEF SetDesync
<1>2. \A s \in Surface : /\ shown[s].buffer = current[s].buffer
                         /\ shown[s].frames = current[s].frames
  <2>1. current \in [Surface -> ShownState]
    BY DEF TypeOK
  <2>2. \A q \in ShownState : \A kids :
           /\ [q EXCEPT !.kids = kids].buffer = q.buffer
           /\ [q EXCEPT !.kids = kids].frames = q.frames
    BY DEF ShownState
  <2> QED
    BY <2>1, <2>2
<1>3. \A s \in Surface : others[s] = IF s = r THEN Cleared(cached[r], kept) ELSE cached[s]
  BY DEF TypeOK
<1> HIDE DEF md, shown, kept, others
<1> SUFFICES ASSUME NEW s \in Surface
             PROVE  /\ Apart(pending'[s], current'[s], cached'[s])
                    /\ Buffers(pending'[s], current'[s], cached'[s]) \subseteq 0 .. attached'
                    /\ \A cb \in Frames(pending'[s], current'[s], cached'[s]) : owner'[cb] = s
  BY DEF HeldInv, Known
<1>4. Apart(pending[s], shown[s], cached[s]) /\ Known(pending[s], shown[s], cached[s], s)
  BY <1>2 DEF HeldInv, Apart, Known, Buffers, Frames
<1>5. AppliedTo(shown, r, cached[r], others, s)
  BY <1>1, Applied
<1>6. /\ Apart(pending'[s], current'[s], cached'[s])
      /\ Known(pending'[s], current'[s], cached'[s], s)
  <2>1. pending'[s] = pending[s]
    BY <1>1
  <2>2. PICK kids :
          \/ /\ s = r /\ current'[s] = Merge(shown[s], cached[r])
             /\ \/ cached'[s] = others[s]
                \/ cached'[s] = Cleared(cached[s], kids)
          \/ /\ s # r /\ current'[s] = Merge(shown[s], cached[s])
             /\ cached'[s] = Cleared(cached[s], kids)
          \/ s # r /\ current'[s] = shown[s] /\ cached'[s] = others[s]
    BY <1>5 DEF AppliedTo
  <2>3. \/ current'[s] = Merge(shown[s], cached[s]) /\ cached'[s] = Cleared(cached[s], kids)
        \/ current'[s] = Merge(shown[s], cached[s]) /\ cached'[s] = Cleared(cached[s], kept)
        \/ current'[s] = shown[s] /\ cached'[s] = cached[s]
    BY <1>3, <2>2
  <2>4. CASE current'[s] = Merge(shown[s], cached[s]) /\ cached'[s] = Cleared(cached[s], kids)
    BY <1>4, <2>1, <2>4, MovedHeld
  <2>5. CASE current'[s] = Merge(shown[s], cached[s]) /\ cached'[s] = Cleared(cached[s], kept)
    BY <1>4, <2>1, <2>5, MovedHeld
  <2>6. CASE current'[s] = shown[s] /\ cached'[s] = cached[s]
    BY <1>4, <2>1, <2>6
  <2> QED
    BY <2>3, <2>4, <2>5, <2>6
<1> QED
  BY <1>1, <1>6, KnownStays

(* removeChild takes a child off a list and leaves the rest of the state.  *)
LEMMA WithoutChildHeld ==
  ASSUME TypeOK, NEW s \in Surface, NEW x \in Surface
  PROVE  /\ Less(WithoutChild(pending, s)[x], pending[x])
         /\ Less(WithoutChild(current, s)[x], current[x])
         /\ Less(CachedWithoutChild(s)[x], cached[x])
<1>1. /\ \A q \in SurfaceState : Less(RemoveKid(q, s), q) /\ Less(q, q)
      /\ \A q \in ShownState : Less(RemoveKid(q, s), q) /\ Less(q, q)
  BY DEF RemoveKid, SurfaceState, ShownState, Less
<1>2. pending[x] \in SurfaceState /\ current[x] \in ShownState /\ cached[x] \in SurfaceState
  BY DEF TypeOK
<1> QED
  BY <1>1, <1>2 DEF WithoutChild, CachedWithoutChild

(* Nothing that a surface still holds loses its owner. *)
LEMMA OwnersStay ==
  ASSUME HeldInv, NEW s \in Surface, NEW gone,
         \A cb \in gone : owner[cb] = s,
         \A cb \in Callback : owner'[cb] = IF cb \in gone THEN None ELSE owner[cb],
         NEW x \in Surface, NEW cb \in Callback,
         cb \in Frames(pending[x], current[x], cached[x]), x = s => cb \notin gone
  PROVE  owner'[cb] = owner[cb]
BY DEF HeldInv, Known

LEMMA FramesType ==
  ASSUME TypeOK, NEW x \in Surface
  PROVE  Frames(pending[x], current[x], cached[x]) \subseteq Callback
BY DEF TypeOK, SurfaceState, ShownState, Frames

LEMMA LessFrames ==
  ASSUME NEW p, NEW c, NEW k, NEW p2, NEW c2, NEW k2,
         Less(p2, p), Less(c2, c), Less(k2, k)
  PROVE  Frames(p2, c2, k2) \subseteq Frames(p, c, k)
BY DEF Less, Frames

(* What a surface holds stays apart, in every state of a behaviour.        *)
LEMMA HeldAlways == Spec => []HeldInv
<1>1. Init => HeldInv
  <2> SUFFICES ASSUME Init, NEW s \in Surface
               PROVE  /\ Apart(pending[s], current[s], cached[s])
                      /\ Known(pending[s], current[s], cached[s], s)
    BY DEF HeldInv
  <2>1. pending[s] = Fresh({}) /\ current[s] = Blank /\ cached[s] = Fresh({}) /\ attached = 0
    BY DEF Init
  <2> QED
    BY <2>1 DEF Apart, Known, Buffers, Frames, Fresh, Blank
<1>2. TypeOK /\ HeldInv /\ [Next]_vars => HeldInv'
  <2> SUFFICES ASSUME TypeOK, HeldInv, [Next]_vars PROVE HeldInv'
    OBVIOUS
  <2>0. /\ pending \in [Surface -> SurfaceState]
        /\ current \in [Surface -> ShownState]
        /\ cached \in [Surface -> SurfaceState]
    BY DEF TypeOK
  <2>1. ASSUME NEW s \in Surface, CreateSurface(s) PROVE HeldInv'
    BY <2>1, SameHeld DEF CreateSurface, subVars
  <2>2. ASSUME NEW s \in Surface, AttachBuffer(s) PROVE HeldInv'
    <3>1. /\ attached' = attached + 1 /\ attached \in Nat
          /\ UNCHANGED <<current, cached, owner>>
      <4>1. attached \in 0 .. MaxAttach
        BY DEF TypeOK
      <4>2. attached' = attached + 1 /\ UNCHANGED <<current, cached, owner>>
        BY <2>2 DEF AttachBuffer, subVars
      <4> QED
        BY <4>1, <4>2
    <3>2. \A x \in Surface :
            /\ pending'[x].frames = pending[x].frames
            /\ pending'[x].buffer = IF x = s THEN attached' ELSE pending[x].buffer
      <4>1. pending' = [pending EXCEPT ![s] =
              [pending[s] EXCEPT !.buffer = attached', !.newBuffer = TRUE]]
        BY <2>2, <2>0 DEF AttachBuffer
      <4>2. pending[s] \in SurfaceState
        BY <2>0
      <4>3. /\ [pending[s] EXCEPT !.buffer = attached', !.newBuffer = TRUE].buffer = attached'
            /\ [pending[s] EXCEPT !.buffer = attached', !.newBuffer = TRUE].frames
                 = pending[s].frames
        BY <4>2 DEF SurfaceState
      <4> QED
        BY <2>0, <4>1, <4>3
    <3> SUFFICES ASSUME NEW x \in Surface
                 PROVE  /\ Apart(pending'[x], current'[x], cached'[x])
                        /\ Buffers(pending'[x], current'[x], cached'[x]) \subseteq 0 .. attached'
                        /\ \A cb \in Frames(pending'[x], current'[x], cached'[x]) :
                             owner'[cb] = x
      BY DEF HeldInv, Known
    <3>3. /\ Apart(pending[x], current[x], cached[x])
          /\ Buffers(pending[x], current[x], cached[x]) \subseteq 0 .. attached
          /\ \A cb \in Frames(pending[x], current[x], cached[x]) : owner[cb] = x
      BY DEF HeldInv, Known
    <3>4. Frames(pending'[x], current'[x], cached'[x]) = Frames(pending[x], current[x], cached[x])
      BY <3>1, <3>2 DEF Frames
    <3>5. /\ current[x].buffer \in 0 .. attached /\ cached[x].buffer \in 0 .. attached
          /\ pending[x].buffer \in 0 .. attached
      BY <3>3 DEF Buffers
    <3>6. Buffers(pending'[x], current'[x], cached'[x]) \subseteq 0 .. attached'
      BY <3>1, <3>2, <3>5 DEF Buffers
    <3>7. CASE x = s
      <4>1. pending'[x].buffer \notin {current[x].buffer, cached[x].buffer}
        BY <3>1, <3>2, <3>5, <3>7
      <4> QED
        BY <3>1, <3>2, <3>3, <3>4, <3>6, <4>1 DEF Apart
    <3>8. CASE x # s
      BY <3>1, <3>2, <3>3, <3>4, <3>6, <3>8 DEF Apart
    <3> QED
      BY <3>7, <3>8
  <2>3. ASSUME NEW s \in Surface, AttachNull(s) PROVE HeldInv'
    <3>1. UNCHANGED <<attached, current, cached, owner>>
      BY <2>3 DEF AttachNull, subVars
    <3>2. \A x \in Surface : Less(pending'[x], pending[x]) /\ pending'[x].frames = pending[x].frames
      <4>1. pending' = [pending EXCEPT ![s] =
              [pending[s] EXCEPT !.buffer = 0, !.newBuffer = TRUE]]
        BY <2>0, <2>3 DEF AttachNull
      <4>2. \A q \in SurfaceState :
              /\ [q EXCEPT !.buffer = 0, !.newBuffer = TRUE].buffer = 0
              /\ [q EXCEPT !.buffer = 0, !.newBuffer = TRUE].frames = q.frames
        BY DEF SurfaceState
      <4> QED
        BY <2>0, <4>1, <4>2 DEF Less
    <3> QED
      BY <3>1, <3>2, LessHeld DEF Less
  <2>4. ASSUME NEW s \in Surface, NEW b \in 1 .. MaxAttach, BufferDestroyed(s, b)
        PROVE HeldInv'
    <3>1. UNCHANGED <<attached, owner>>
      BY <2>4 DEF BufferDestroyed
    <3>2. /\ \A q \in SurfaceState : /\ [q EXCEPT !.buffer = 0].buffer = 0
                                     /\ [q EXCEPT !.buffer = 0].frames = q.frames
          /\ \A q \in ShownState : /\ [q EXCEPT !.buffer = 0].buffer = 0
                                   /\ [q EXCEPT !.buffer = 0].frames = q.frames
      BY DEF SurfaceState, ShownState
    <3>3. CASE pending' = [pending EXCEPT ![s] = [pending[s] EXCEPT !.buffer = 0]]
               /\ current' = current /\ cached' = cached
      BY <2>0, <3>1, <3>2, <3>3, LessHeld DEF Less
    <3>4. CASE current' = [current EXCEPT ![s] = [current[s] EXCEPT !.buffer = 0]]
               /\ pending' = pending /\ cached' = cached
      BY <2>0, <3>1, <3>2, <3>4, LessHeld DEF Less
    <3>5. CASE cached' = [cached EXCEPT ![s] = [cached[s] EXCEPT !.buffer = 0]]
               /\ pending' = pending /\ current' = current
      BY <2>0, <3>1, <3>2, <3>5, LessHeld DEF Less
    <3> QED
      BY <2>4, <3>3, <3>4, <3>5 DEF BufferDestroyed
  <2>5. ASSUME NEW s \in Surface, NEW cb \in Callback, AddFrameCallback(s, cb)
        PROVE HeldInv'
    <3>1. /\ owner[cb] = None /\ owner' = [owner EXCEPT ![cb] = s] /\ cb \in Callback
          /\ UNCHANGED <<attached, current, cached>>
      BY <2>5 DEF AddFrameCallback, subVars
    <3>2. \A x \in Surface :
            /\ pending'[x].buffer = pending[x].buffer
            /\ pending'[x].frames = pending[x].frames \cup (IF x = s THEN {cb} ELSE {})
      BY <2>0, <2>5 DEF AddFrameCallback, SurfaceState
    <3>3. owner \in [Callback -> Surface \cup {None}]
      BY DEF TypeOK
    <3> SUFFICES ASSUME NEW x \in Surface
                 PROVE  /\ Apart(pending'[x], current'[x], cached'[x])
                        /\ Buffers(pending'[x], current'[x], cached'[x]) \subseteq 0 .. attached'
                        /\ \A c \in Frames(pending'[x], current'[x], cached'[x]) :
                             owner'[c] = x
      BY DEF HeldInv, Known
    <3>4. /\ Apart(pending[x], current[x], cached[x])
          /\ Buffers(pending[x], current[x], cached[x]) \subseteq 0 .. attached
          /\ \A c \in Frames(pending[x], current[x], cached[x]) : owner[c] = x
      BY DEF HeldInv, Known
    <3>5. cb \notin Frames(pending[x], current[x], cached[x])
      BY <3>1, <3>4
    <3>6. Frames(pending'[x], current'[x], cached'[x])
            = Frames(pending[x], current[x], cached[x]) \cup (IF x = s THEN {cb} ELSE {})
      BY <3>1, <3>2 DEF Frames
    <3>7. \A c \in Frames(pending'[x], current'[x], cached'[x]) : owner'[c] = x
      <4>1. Frames(pending[x], current[x], cached[x]) \subseteq Callback
        BY FramesType
      <4> QED
        BY <3>1, <3>3, <3>4, <3>5, <3>6, <4>1
    <3>8. Buffers(pending'[x], current'[x], cached'[x]) \subseteq 0 .. attached'
      BY <3>1, <3>2, <3>4 DEF Buffers
    <3>9. Apart(pending'[x], current'[x], cached'[x])
      BY <3>1, <3>2, <3>4, <3>5 DEF Apart, Frames
    <3> QED
      BY <3>7, <3>8, <3>9
  <2>6. ASSUME NEW s \in Surface, CommitToCache(s) PROVE HeldInv'
    <3> DEFINE left == pending[s].kids
    <3>1. /\ pending' = [pending EXCEPT ![s] = Cleared(pending[s], left)]
          /\ cached' = [cached EXCEPT ![s] = pending[s]]
          /\ UNCHANGED <<attached, current, owner>>
      BY <2>0, <2>6 DEF CommitToCache
    <3> HIDE DEF left
    <3> SUFFICES ASSUME NEW x \in Surface
                 PROVE  /\ Apart(pending'[x], current'[x], cached'[x])
                        /\ Buffers(pending'[x], current'[x], cached'[x]) \subseteq 0 .. attached'
                        /\ \A cb \in Frames(pending'[x], current'[x], cached'[x]) :
                             owner'[cb] = x
      BY DEF HeldInv, Known
    <3>2. Apart(pending[x], current[x], cached[x]) /\ Known(pending[x], current[x], cached[x], x)
      BY DEF HeldInv
    <3>3. CASE x = s
      <4>1. pending'[x] = Cleared(pending[x], left) /\ cached'[x] = pending[x]
            /\ current'[x] = current[x]
        BY <2>0, <3>1, <3>3
      <4>2. /\ Apart(pending'[x], current'[x], cached'[x])
            /\ Known(pending'[x], current'[x], cached'[x], x)
        BY <3>2, <4>1, MovedHeld
      <4> QED
        BY <3>1, <4>2, KnownStays
    <3>4. CASE x # s
      <4>1. pending'[x] = pending[x] /\ cached'[x] = cached[x] /\ current'[x] = current[x]
        BY <2>0, <3>1, <3>4
      <4> QED
        BY <3>1, <3>2, <4>1, KnownStays
    <3> QED
      BY <3>3, <3>4
  <2>7. ASSUME NEW s \in Surface, CommitToCurrent(s) PROVE HeldInv'
    BY <2>7, CommitHeld
  <2>8. ASSUME NEW s \in Surface, CommitFaults(s) PROVE HeldInv'
    BY <2>8, SameHeld DEF CommitFaults, Fail, surfaceVars, subVars
  <2>9. ASSUME NEW s \in Surface, FrameRendered(s) PROVE HeldInv'
    <3> DEFINE tree == ShownBelow(s)
               sent == UNION {current[c].frames : c \in tree \cap alive}
    <3>1. /\ current' = [c \in Surface |->
                           IF c \in tree THEN [current[c] EXCEPT !.frames = {}]
                           ELSE current[c]]
          /\ owner' = [cb \in Callback |-> IF cb \in sent THEN None ELSE owner[cb]]
          /\ UNCHANGED <<attached, pending, cached>>
      BY <2>9 DEF FrameRendered, subVars
    <3> HIDE DEF tree
    <3>2. \A c \in Surface :
            /\ [current[c] EXCEPT !.frames = {}].buffer = current[c].buffer
            /\ [current[c] EXCEPT !.frames = {}].frames = {}
      BY <2>0 DEF ShownState
    <3>3. \A x \in Surface :
            /\ current'[x].buffer = current[x].buffer
            /\ current'[x].frames = IF x \in tree THEN {} ELSE current[x].frames
      BY <3>1, <3>2
    <3>4. ASSUME NEW x \in Surface, NEW cb \in Frames(pending'[x], current'[x], cached'[x])
          PROVE  owner'[cb] = owner[cb]
      <4>1. cb \in pending[x].frames \cup cached[x].frames \cup current'[x].frames
        BY <3>1, <3>4 DEF Frames
      <4>2. cb \in Frames(pending[x], current[x], cached[x])
        BY <3>3, <4>1 DEF Frames
      <4>3. cb \in Callback
        BY <4>2, FramesType
      <4>4. ASSUME cb \in sent PROVE FALSE
        <5>1. PICK c \in tree \cap alive : cb \in current[c].frames
          BY <4>4
        <5>2. c \in Surface
          BY <5>1 DEF TypeOK
        <5>3. owner[cb] = c /\ owner[cb] = x
          BY <4>2, <5>1, <5>2 DEF HeldInv, Known, Frames
        <5>4. cb \in current[x].frames /\ current'[x].frames = {}
          BY <3>3, <5>1, <5>3
        <5>5. Apart(pending[x], current[x], cached[x])
          BY DEF HeldInv
        <5> QED
          BY <4>1, <5>4, <5>5 DEF Apart
      <4> HIDE DEF sent
      <4> QED
        BY <3>1, <4>3, <4>4
    <3> QED
      <4>1. \A x \in Surface : /\ Less(pending'[x], pending[x]) /\ Less(current'[x], current[x])
                               /\ Less(cached'[x], cached[x])
        BY <3>1, <3>3 DEF Less
      <4>2. attached' = attached
        BY <3>1
      <4> QED
        BY <3>4, <4>1, <4>2, LessHeld
  <2>10. ASSUME NEW s \in Surface, DestroySurface(s) PROVE HeldInv'
    <3> DEFINE gone == current[s].frames \cup pending[s].frames
    <3>1. /\ pending' = [WithoutChild(pending, s) EXCEPT ![s] = Fresh({})]
          /\ current' = [WithoutChild(current, s) EXCEPT ![s] = Blank]
          /\ cached' = CachedWithoutChild(s)
          /\ owner' = [cb \in Callback |-> IF cb \in gone THEN None ELSE owner[cb]]
          /\ attached' = attached
      BY <2>10 DEF DestroySurface
    <3>2. \A x \in Surface : /\ Less(WithoutChild(pending, s)[x], pending[x])
                             /\ Less(WithoutChild(current, s)[x], current[x])
                             /\ Less(CachedWithoutChild(s)[x], cached[x])
      BY WithoutChildHeld
    <3>3. \A x \in Surface :
            /\ pending'[x] = IF x = s THEN Fresh({}) ELSE WithoutChild(pending, s)[x]
            /\ current'[x] = IF x = s THEN Blank ELSE WithoutChild(current, s)[x]
      BY <3>1 DEF WithoutChild
    <3>4. Fresh({}).buffer = 0 /\ Fresh({}).frames = {} /\ Blank.buffer = 0 /\ Blank.frames = {}
      BY DEF Fresh, Blank
    <3>5. \A x \in Surface : /\ Less(pending'[x], pending[x]) /\ Less(current'[x], current[x])
                             /\ Less(cached'[x], cached[x])
      BY <3>1, <3>2, <3>3, <3>4 DEF Less
    <3>6. ASSUME NEW x \in Surface, NEW cb \in Frames(pending'[x], current'[x], cached'[x])
          PROVE  owner'[cb] = owner[cb]
      <4>1. cb \in Frames(pending[x], current[x], cached[x])
        BY <3>5, <3>6, LessFrames
      <4>2. cb \in Callback
        BY <4>1, FramesType
      <4>3. x = s => cb \notin gone
        <5>1. ASSUME x = s PROVE cb \notin gone
          <6>1. cb \in cached[s].frames
            BY <3>3, <3>4, <3>5, <3>6, <5>1 DEF Frames, Less
          <6>2. Apart(pending[s], current[s], cached[s])
            BY DEF HeldInv
          <6> QED
            BY <6>1, <6>2 DEF Apart
        <5> QED
          BY <5>1
      <4>4. \A c \in gone : owner[c] = s
        BY DEF HeldInv, Known, Frames
      <4>5. \A c \in Callback : owner'[c] = IF c \in gone THEN None ELSE owner[c]
        BY <3>1
      <4> HIDE DEF gone
      <4> QED
        BY <4>1, <4>2, <4>3, <4>4, <4>5, OwnersStay
    <3> HIDE DEF gone
    <3> QED
      BY <3>1, <3>5, <3>6, LessHeld
  <2>11. ASSUME NEW s \in Surface, NEW p \in Surface, CreateSubsurface(s, p)
         PROVE HeldInv'
    <3>1. UNCHANGED <<attached, current, owner>>
      BY <2>11 DEF CreateSubsurface
    <3>2. \A x \in Surface : /\ pending'[x].buffer = pending[x].buffer
                             /\ pending'[x].frames = pending[x].frames
      <4>1. pending' = [pending EXCEPT ![p] =
              [pending[p] EXCEPT !.kids = pending[p].kids \cup {s}, !.newKids = TRUE]]
        BY <2>0, <2>11 DEF CreateSubsurface
      <4>2. \A q \in SurfaceState : \A kids :
              /\ [q EXCEPT !.kids = kids, !.newKids = TRUE].buffer = q.buffer
              /\ [q EXCEPT !.kids = kids, !.newKids = TRUE].frames = q.frames
        BY DEF SurfaceState
      <4> QED
        BY <2>0, <4>1, <4>2
    <3>3. \A x \in Surface : Less(cached'[x], cached[x])
      <4>1. \A x \in Surface :
              \/ cached'[x] = Fresh({})
              \/ cached'[x] = [cached[x] EXCEPT !.kids = @ \cup {s}]
              \/ cached'[x] = cached[x]
        BY <2>11 DEF CreateSubsurface
      <4>2. \A q \in SurfaceState : /\ [q EXCEPT !.kids = @ \cup {s}].buffer = q.buffer
                                    /\ [q EXCEPT !.kids = @ \cup {s}].frames = q.frames
        BY DEF SurfaceState
      <4>3. Fresh({}).buffer = 0 /\ Fresh({}).frames = {}
        BY DEF Fresh
      <4> QED
        BY <2>0, <4>1, <4>2, <4>3 DEF Less
    <3> QED
      BY <3>1, <3>2, <3>3, LessHeld DEF Less
  <2>12. ASSUME NEW s \in Surface, DestroySubsurface(s) PROVE HeldInv'
    <3>1. /\ pending' = WithoutChild(pending, s) /\ current' = WithoutChild(current, s)
          /\ cached' = [CachedWithoutChild(s) EXCEPT ![s] = Fresh({})]
          /\ UNCHANGED <<attached, owner>>
      BY <2>12 DEF DestroySubsurface
    <3>2. \A x \in Surface : /\ Less(WithoutChild(pending, s)[x], pending[x])
                             /\ Less(WithoutChild(current, s)[x], current[x])
                             /\ Less(CachedWithoutChild(s)[x], cached[x])
      BY WithoutChildHeld
    <3>3. \A x \in Surface :
            cached'[x] = IF x = s THEN Fresh({}) ELSE CachedWithoutChild(s)[x]
      BY <3>1 DEF CachedWithoutChild
    <3>4. Fresh({}).buffer = 0 /\ Fresh({}).frames = {}
      BY DEF Fresh
    <3> QED
      BY <3>1, <3>2, <3>3, <3>4, LessHeld DEF Less
  <2>13. ASSUME NEW s \in Surface, DestroyFaults(s) PROVE HeldInv'
    BY <2>13, SameHeld DEF DestroyFaults, Fail, surfaceVars, subVars
  <2>14. ASSUME NEW s \in Surface, SetSync(s) PROVE HeldInv'
    BY <2>14, SameHeld DEF SetSync, surfaceVars
  <2>15. ASSUME NEW s \in Surface, SetDesync(s) PROVE HeldInv'
    <3>1. CASE AppliesAtOnce(parent[s])
      BY <2>15, <3>1, DesyncHeld
    <3>2. CASE ~AppliesAtOnce(parent[s])
      BY <2>15, <3>2, SameHeld DEF SetDesync
    <3> QED
      BY <3>1, <3>2
  <2>16. ASSUME NEW s \in Surface, SetDesyncFaults(s) PROVE HeldInv'
    BY <2>16, SameHeld DEF SetDesyncFaults, Fail, surfaceVars, subVars
  <2>17. ASSUME NEW s \in Surface, NEW pos \in Position, SetPosition(s, pos)
         PROVE HeldInv'
    BY <2>17, SameHeld DEF SetPosition, surfaceVars
  <2>18. ASSUME NEW s \in Surface, Restack(s) PROVE HeldInv'
    <3>1. \A x \in Surface : /\ pending'[x].buffer = pending[x].buffer
                             /\ pending'[x].frames = pending[x].frames
      BY <2>0, <2>18 DEF Restack, SurfaceState
    <3> QED
      BY <2>18, <3>1, SameHeld DEF Restack, subVars
  <2>19. CASE UNCHANGED vars
    BY <2>19, SameHeld DEF vars, surfaceVars, subVars
  <2>20. QED
    BY <2>1, <2>2, <2>3, <2>4, <2>5, <2>6, <2>7, <2>8, <2>9, <2>10, <2>11, <2>12,
       <2>13, <2>14, <2>15, <2>16, <2>17, <2>18, <2>19
       DEF Next, SurfaceStep, SubsurfaceStep
<1> QED
  BY TypeCorrect, <1>1, <1>2, PTL DEF Spec

(* Every buffer and every frame callback of a live surface is in one of    *)
(* its states only (HeldOnce): no wl_callback is destroyed twice, and one  *)
(* branch of bufferDestroyed forgets a destroyed wl_buffer.                *)
THEOREM HeldCorrect == Spec => []HeldOnce
<1>1. TypeOK /\ HeldInv => HeldOnce
  <2> SUFFICES ASSUME TypeOK, HeldInv PROVE CallbacksListedOnce /\ BufferHeldOnce
    BY DEF HeldOnce
  <2>1. ASSUME NEW s \in alive
        PROVE  /\ Apart(pending[s], current[s], cached[s])
               /\ \A cb \in Frames(pending[s], current[s], cached[s]) : owner[cb] = s
    BY DEF HeldInv, Known, TypeOK
  <2>2. CallbacksListedOnce
    BY <2>1 DEF CallbacksListedOnce, Apart, Frames
  <2>3. BufferHeldOnce
    BY <2>1 DEF BufferHeldOnce, Apart
  <2> QED
    BY <2>2, <2>3
<1> QED
  BY TypeCorrect, HeldAlways, <1>1, PTL

-----------------------------------------------------------------------------
(* What is computed up and down the tree.  Induction over numbers is said  *)
(* of sets of numbers.                                                     *)
LEMMA AllNumbers ==
  ASSUME NEW S, 0 \in S, \A n \in Nat : n \in S => n + 1 \in S
  PROVE  Nat \subseteq S
<1> SUFFICES ASSUME Nat \ S # {} PROVE FALSE
  OBVIOUS
<1> DEFINE Others == Nat \ S
           Smaller == OpToRel(<, Nat)
<1>1. Others \subseteq Nat /\ Others # {}
  OBVIOUS
<1> HIDE DEF Others
<1>2. PICK m \in Others : \A k \in Others : ~(<<k, m>> \in Smaller)
  BY ZenonT(40), <1>1, NatLessThanWellFounded, WFMin
<1>3. m \in Nat \ S /\ \A k \in Nat \ S : ~(k < m)
  BY <1>2 DEF OpToRel, Others
<1> HIDE DEF Smaller
<1>4. m # 0 /\ m - 1 \in S
  BY <1>3
<1> QED
  BY <1>3, <1>4

(* A step can be iterated.                                                 *)
Iterated(f, V, v, step, N) ==
  f \in [0 .. N -> V] /\ f[0] = v /\ \A n \in 1 .. N : f[n] = step[f[n - 1]]

LEMMA Iterates ==
  ASSUME NEW V, NEW v \in V, NEW step \in [V -> V], NEW N \in Nat
  PROVE  \E f : Iterated(f, V, v, step, N)
<1> DEFINE Done(k) == \E f \in [0 .. k -> V] :
                        f[0] = v /\ \A n \in 1 .. k : f[n] = step[f[n - 1]]
           S == {k \in Nat : Done(k)}
<1>1. 0 \in S
  <2>1. PICK f : f = [n \in 0 .. 0 |-> v]
    OBVIOUS
  <2>2. f \in [0 .. 0 -> V] /\ f[0] = v /\ \A n \in 1 .. 0 : f[n] = step[f[n - 1]]
    BY <2>1
  <2> QED
    BY <2>2
<1>2. ASSUME NEW k \in Nat, k \in S PROVE k + 1 \in S
  <2>1. PICK f \in [0 .. k -> V] : f[0] = v /\ \A n \in 1 .. k : f[n] = step[f[n - 1]]
    BY <1>2
  <2>2. PICK g : g = [n \in 0 .. k + 1 |-> IF n <= k THEN f[n] ELSE step[f[k]]]
    OBVIOUS
  <2>3. g \in [0 .. k + 1 -> V] /\ g[0] = v
    BY <2>1, <2>2
  <2>4. ASSUME NEW n \in 1 .. k + 1 PROVE g[n] = step[g[n - 1]]
    <3>1. n - 1 \in 0 .. k /\ g[n - 1] = f[n - 1]
      BY <2>2
    <3>2. CASE n <= k
      BY <2>1, <2>2, <3>1, <3>2
    <3>3. CASE n = k + 1
      BY <2>1, <2>2, <3>1, <3>3
    <3> QED
      BY <3>2, <3>3
  <2> QED
    BY <2>3, <2>4
<1> HIDE DEF S
<1>3. N \in S
  BY <1>1, <1>2, AllNumbers
<1> QED
  BY <1>3 DEF S, Iterated

(* Sets that grow step by step.                                            *)
LEMMA Grows ==
  ASSUME NEW N \in Nat, NEW f, \A n \in 1 .. N : f[n - 1] \subseteq f[n],
         NEW i \in 0 .. N
  PROVE  f[i] \subseteq f[N]
<1> DEFINE S == {d \in Nat : i + d <= N => f[i] \subseteq f[i + d]}
<1>1. 0 \in S
  OBVIOUS
<1>2. ASSUME NEW d \in Nat, d \in S PROVE d + 1 \in S
  <2> SUFFICES ASSUME i + (d + 1) <= N PROVE f[i] \subseteq f[i + (d + 1)]
    OBVIOUS
  <2>1. f[i] \subseteq f[i + d]
    BY <1>2
  <2>2. i + (d + 1) \in 1 .. N /\ i + (d + 1) - 1 = i + d
    OBVIOUS
  <2>3. f[i + d] \subseteq f[i + (d + 1)]
    BY <2>2
  <2> QED
    BY <2>1, <2>3
<1> HIDE DEF S
<1>3. N - i \in S
  <2>1. N - i \in Nat
    OBVIOUS
  <2> QED
    BY <1>1, <1>2, <2>1, AllNumbers
<1> QED
  BY <1>3 DEF S

LEMMA HeightNat == Height \in Nat
  BY SurfaceAssumption, FS_CardinalityType DEF Height

-----------------------------------------------------------------------------
(* The surfaces above x, level by level.                                   *)
UpFrom(x) ==
  LET up[n \in 0 .. Height] ==
        IF n = 0 THEN {x}
        ELSE up[n - 1] \cup ({parent[y] : y \in up[n - 1]} \ {None})
  IN  up

LEMMA AboveUp ==
  ASSUME NEW x
  PROVE  Above(x) = UpFrom(x)[Height] \ {x}
  BY DEF Above, UpFrom

LEMMA UpLevels ==
  ASSUME TypeOK, NEW x \in Surface
  PROVE  /\ UpFrom(x)[0] = {x}
         /\ \A n \in 1 .. Height :
              UpFrom(x)[n] = UpFrom(x)[n - 1]
                               \cup ({parent[y] : y \in UpFrom(x)[n - 1]} \ {None})
<1> DEFINE levels(up) == [n \in 0 .. Height |->
                            IF n = 0 THEN {x}
                            ELSE up[n - 1] \cup ({parent[y] : y \in up[n - 1]} \ {None})]
<1>1. \E f : f = levels(f)
  <2>1. PICK V : V = SUBSET Surface
    OBVIOUS
  <2>2. PICK step : step = [A \in V |-> A \cup ({parent[y] : y \in A} \ {None})]
    OBVIOUS
  <2>3. PICK v : v = {x}
    OBVIOUS
  <2>5. v \in V /\ step \in [V -> V]
    BY <2>1, <2>2, <2>3 DEF TypeOK
  <2>4. PICK f : Iterated(f, V, v, step, Height)
    BY <2>5, HeightNat, Iterates
  <2>6. f \in [0 .. Height -> V] /\ f[0] = v /\ \A n \in 1 .. Height : f[n] = step[f[n - 1]]
    BY <2>4 DEF Iterated
  <2>7. ASSUME NEW n \in 0 .. Height PROVE f[n] = levels(f)[n]
    <3>1. CASE n = 0
      BY <2>3, <2>6, <3>1
    <3>2. CASE n # 0
      <4>1. n \in 1 .. Height /\ n - 1 \in 0 .. Height
        BY <3>2, HeightNat
      <4>2. f[n - 1] \in V
        BY <2>6, <4>1
      <4> QED
        BY <2>2, <2>6, <3>2, <4>1, <4>2
    <3> QED
      BY <3>1, <3>2
  <2>8. f = levels(f)
    <3>1. f = [n \in 0 .. Height |-> f[n]]
      BY <2>6
    <3>2. levels(f) = [n \in 0 .. Height |-> levels(f)[n]]
      OBVIOUS
    <3> HIDE DEF levels
    <3> QED
      BY <2>7, <3>1, <3>2
  <2> QED
    BY <2>8
<1>2. UpFrom(x) = CHOOSE f : f = levels(f)
  BY DEF UpFrom
<1> HIDE DEF levels
<1>3. UpFrom(x) = levels(UpFrom(x))
  BY <1>1, <1>2, Zenon
<1> QED
  BY <1>3, HeightNat DEF levels

(* The same the other way: what applyCached goes down to from the list of  *)
(* children top.                                                           *)
DownFrom(md, top) ==
  LET down[n \in 0 .. Height] ==
        IF n = 0 THEN top
        ELSE down[n - 1] \cup UNION {KidsAfter(md, c) : c \in down[n - 1]}
  IN  down

LEMMA VisitedDown ==
  ASSUME NEW md, NEW top
  PROVE  Visited(md, top) = DownFrom(md, top)[Height]
  BY DEF Visited, DownFrom

LEMMA KidsAfterType ==
  ASSUME TypeOK, NEW md, NEW c \in Surface
  PROVE  KidsAfter(md, c) \subseteq Surface
<1>1. current[c] \in ShownState /\ cached[c] \in SurfaceState
  BY DEF TypeOK
<1>2. Merge(current[c], cached[c]) \in ShownState
  BY <1>1, MergeType
<1> QED
  BY <1>1, <1>2 DEF KidsAfter, ShownState

LEMMA DownLevels ==
  ASSUME TypeOK, NEW md, NEW top \in SUBSET Surface
  PROVE  /\ DownFrom(md, top)[0] = top
         /\ \A n \in 1 .. Height :
              DownFrom(md, top)[n] = DownFrom(md, top)[n - 1]
                \cup UNION {KidsAfter(md, c) : c \in DownFrom(md, top)[n - 1]}
         /\ \A n \in 0 .. Height : DownFrom(md, top)[n] \subseteq Surface
<1> DEFINE levels(down) == [n \in 0 .. Height |->
                              IF n = 0 THEN top
                              ELSE down[n - 1] \cup UNION {KidsAfter(md, c) : c \in down[n - 1]}]
<1>1. \E f : f = levels(f)
  <2>1. PICK V : V = SUBSET Surface
    OBVIOUS
  <2>2. PICK step : step = [A \in V |-> A \cup UNION {KidsAfter(md, c) : c \in A}]
    OBVIOUS
  <2>3. top \in V /\ step \in [V -> V]
    <3>1. ASSUME NEW A \in V PROVE A \cup UNION {KidsAfter(md, c) : c \in A} \in V
      BY <2>1, KidsAfterType
    <3> QED
      BY <2>1, <2>2, <3>1
  <2>4. PICK f : Iterated(f, V, top, step, Height)
    BY <2>3, HeightNat, Iterates
  <2>5. f \in [0 .. Height -> V] /\ f[0] = top /\ \A n \in 1 .. Height : f[n] = step[f[n - 1]]
    BY <2>4 DEF Iterated
  <2>6. ASSUME NEW n \in 0 .. Height PROVE f[n] = levels(f)[n]
    <3>1. CASE n = 0
      BY <2>5, <3>1
    <3>2. CASE n # 0
      <4>1. n \in 1 .. Height /\ n - 1 \in 0 .. Height
        BY <3>2, HeightNat
      <4>2. f[n - 1] \in V
        BY <2>5, <4>1
      <4> QED
        BY <2>2, <2>5, <3>2, <4>1, <4>2
    <3> QED
      BY <3>1, <3>2
  <2>7. f = levels(f)
    <3>1. f = [n \in 0 .. Height |-> f[n]]
      BY <2>5
    <3>2. levels(f) = [n \in 0 .. Height |-> levels(f)[n]]
      OBVIOUS
    <3> HIDE DEF levels
    <3> QED
      BY <2>6, <3>1, <3>2
  <2> QED
    BY <2>7
<1>2. DownFrom(md, top) = CHOOSE f : f = levels(f)
  BY DEF DownFrom
<1> HIDE DEF levels
<1>3. DownFrom(md, top) = levels(DownFrom(md, top))
  BY <1>1, <1>2, Zenon
<1>4. /\ DownFrom(md, top)[0] = top
      /\ \A n \in 1 .. Height :
           DownFrom(md, top)[n] = DownFrom(md, top)[n - 1]
             \cup UNION {KidsAfter(md, c) : c \in DownFrom(md, top)[n - 1]}
  BY <1>3, HeightNat DEF levels
<1>5. \A n \in 0 .. Height : DownFrom(md, top)[n] \subseteq Surface
  <2> DEFINE S == {n \in Nat : n <= Height => DownFrom(md, top)[n] \subseteq Surface}
  <2>1. 0 \in S
    BY <1>4
  <2>2. ASSUME NEW n \in Nat, n \in S PROVE n + 1 \in S
    <3> SUFFICES ASSUME n + 1 <= Height PROVE DownFrom(md, top)[n + 1] \subseteq Surface
      OBVIOUS
    <3>1. DownFrom(md, top)[n] \subseteq Surface
      BY <2>2, HeightNat
    <3>2. n + 1 \in 1 .. Height /\ (n + 1) - 1 = n
      BY HeightNat
    <3>3. DownFrom(md, top)[n + 1] = DownFrom(md, top)[n]
             \cup UNION {KidsAfter(md, c) : c \in DownFrom(md, top)[n]}
      BY <1>4, <3>2
    <3> QED
      BY <3>1, <3>3, KidsAfterType
  <2> HIDE DEF S
  <2>3. Nat \subseteq S
    BY <2>1, <2>2, AllNumbers
  <2> QED
    BY <2>3, HeightNat DEF S
<1> QED
  BY <1>4, <1>5

(* The surfaces that are synchronized by their mode or by one of the n     *)
(* surfaces above them, for the modes md, the parents par and subsurfaces  *)
(* in subs that have a surface in lives.                                   *)
UpTo(md, par, subs, lives) ==
  LET upTo[n \in 0 .. Height] ==
        {x \in Surface :
           \/ md[x] = "sync"
           \/ /\ n > 0 /\ par[x] # None /\ (par[x] \in subs /\ par[x] \in lives)
              /\ par[x] \in upTo[n - 1]}
  IN  upTo

LEMMA SyncedUpTo ==
  ASSUME NEW md, NEW x
  PROVE  Synced(md, x) = (x \in UpTo(md, parent, sub, alive)[Height])
  BY DEF Synced, UpTo, IsSub

LEMMA UpToMember ==
  ASSUME NEW md, NEW par \in [Surface -> Surface \cup {None}], NEW subs, NEW lives,
         NEW n \in 0 .. Height
  PROVE  /\ \A x \in Surface :
              x \in UpTo(md, par, subs, lives)[n] <=>
                \/ md[x] = "sync"
                \/ /\ n > 0 /\ par[x] # None /\ (par[x] \in subs /\ par[x] \in lives)
                   /\ par[x] \in UpTo(md, par, subs, lives)[n - 1]
         /\ UpTo(md, par, subs, lives)[n] \subseteq Surface
<1> DEFINE levels(up) == [m \in 0 .. Height |->
              {x \in Surface :
                 \/ md[x] = "sync"
                 \/ /\ m > 0 /\ par[x] # None /\ (par[x] \in subs /\ par[x] \in lives)
                    /\ par[x] \in up[m - 1]}]
<1>1. \E f : f = levels(f)
  <2>1. PICK V : V = SUBSET Surface
    OBVIOUS
  <2>2. PICK v : v = {y \in Surface : md[y] = "sync"}
    OBVIOUS
  <2>3. PICK step : step = [A \in V |->
          {y \in Surface : \/ md[y] = "sync"
                           \/ /\ par[y] # None /\ (par[y] \in subs /\ par[y] \in lives)
                              /\ par[y] \in A}]
    OBVIOUS
  <2>4. v \in V /\ step \in [V -> V]
    BY <2>1, <2>2, <2>3
  <2>5. PICK f : Iterated(f, V, v, step, Height)
    BY <2>4, HeightNat, Iterates
  <2>6. f \in [0 .. Height -> V] /\ f[0] = v /\ \A m \in 1 .. Height : f[m] = step[f[m - 1]]
    BY <2>5 DEF Iterated
  <2>7. ASSUME NEW m \in 0 .. Height PROVE f[m] = levels(f)[m]
    <3>1. CASE m = 0
      BY <2>2, <2>6, <3>1
    <3>2. CASE m # 0
      <4>1. m \in 1 .. Height /\ m - 1 \in 0 .. Height /\ m > 0
        BY <3>2, HeightNat
      <4>2. f[m - 1] \in V
        BY <2>6, <4>1
      <4> QED
        BY <2>3, <2>6, <4>1, <4>2
    <3> QED
      BY <3>1, <3>2
  <2>8. f = levels(f)
    <3>1. f = [m \in 0 .. Height |-> f[m]]
      BY <2>6
    <3>2. levels(f) = [m \in 0 .. Height |-> levels(f)[m]]
      OBVIOUS
    <3> HIDE DEF levels
    <3> QED
      BY <2>7, <3>1, <3>2
  <2> QED
    BY <2>8
<1>2. UpTo(md, par, subs, lives) = CHOOSE f : f = levels(f)
  BY DEF UpTo
<1> HIDE DEF levels
<1>3. UpTo(md, par, subs, lives) = levels(UpTo(md, par, subs, lives))
  BY <1>1, <1>2, Zenon
<1>4. UpTo(md, par, subs, lives)[n] =
        {x \in Surface :
           \/ md[x] = "sync"
           \/ /\ n > 0 /\ par[x] # None /\ (par[x] \in subs /\ par[x] \in lives)
              /\ par[x] \in UpTo(md, par, subs, lives)[n - 1]}
  BY <1>3, HeightNat DEF levels
<1> QED
  BY <1>4

(* A set of levels that starts and goes on below the height holds all.     *)
LEMMA AllLevels ==
  ASSUME NEW S, 0 \in S, \A n \in Nat : n + 1 <= Height /\ n \in S => n + 1 \in S,
         NEW n \in 0 .. Height
  PROVE  n \in S
<1> DEFINE R == {m \in Nat : m <= Height => m \in S}
<1>1. 0 \in R
  OBVIOUS
<1>2. ASSUME NEW m \in Nat, m \in R PROVE m + 1 \in R
  BY <1>2, HeightNat
<1> HIDE DEF R
<1>3. n \in R
  BY <1>1, <1>2, AllNumbers, HeightNat
<1> QED
  BY <1>3, HeightNat DEF R

LEMMA NextLevel ==
  ASSUME NEW n \in Nat, n + 1 <= Height
  PROVE  n + 1 \in 1 .. Height /\ n \in 0 .. Height /\ (n + 1) - 1 = n /\ n + 1 \in 0 .. Height
  BY HeightNat

(* What is above the parent is above the child, one level further.         *)
LEMMA UpShift ==
  ASSUME TypeOK, NEW x \in Surface, NEW p \in Surface, parent[x] = p,
         NEW n \in Nat, n + 1 <= Height
  PROVE  UpFrom(p)[n] \subseteq UpFrom(x)[n + 1]
<1> DEFINE S == {m \in Nat : m + 1 <= Height => UpFrom(p)[m] \subseteq UpFrom(x)[m + 1]}
<1>1. ASSUME NEW m \in Nat, m + 1 <= Height
      PROVE  UpFrom(x)[m + 1] = UpFrom(x)[m] \cup ({parent[y] : y \in UpFrom(x)[m]} \ {None})
  BY <1>1, NextLevel, UpLevels
<1>2. 0 \in S
  <2> SUFFICES ASSUME 0 + 1 <= Height PROVE UpFrom(p)[0] \subseteq UpFrom(x)[0 + 1]
    OBVIOUS
  <2>1. UpFrom(p)[0] = {p} /\ UpFrom(x)[0] = {x}
    BY UpLevels
  <2>2. UpFrom(x)[0 + 1] = UpFrom(x)[0] \cup ({parent[y] : y \in UpFrom(x)[0]} \ {None})
    BY <1>1
  <2> QED
    BY <2>1, <2>2
<1>3. ASSUME NEW m \in Nat, m + 1 <= Height, m \in S PROVE m + 1 \in S
  <2> SUFFICES ASSUME (m + 1) + 1 <= Height
               PROVE  UpFrom(p)[m + 1] \subseteq UpFrom(x)[(m + 1) + 1]
    OBVIOUS
  <2>1. UpFrom(p)[m] \subseteq UpFrom(x)[m + 1]
    BY <1>3
  <2>2. UpFrom(p)[m + 1] = UpFrom(p)[m] \cup ({parent[y] : y \in UpFrom(p)[m]} \ {None})
    BY <1>3, NextLevel, UpLevels
  <2>3. UpFrom(x)[(m + 1) + 1] = UpFrom(x)[m + 1]
          \cup ({parent[y] : y \in UpFrom(x)[m + 1]} \ {None})
    BY <1>1
  <2> QED
    BY <2>1, <2>2, <2>3
<1> HIDE DEF S
<1>4. n \in S
  BY <1>2, <1>3, AllLevels, HeightNat
<1> QED
  BY <1>4 DEF S

LEMMA UpGrows ==
  ASSUME TypeOK, NEW x \in Surface, NEW i \in 0 .. Height
  PROVE  UpFrom(x)[i] \subseteq UpFrom(x)[Height]
<1>1. \A n \in 1 .. Height : UpFrom(x)[n - 1] \subseteq UpFrom(x)[n]
  BY UpLevels
<1> QED
  BY <1>1, HeightNat, Grows

-----------------------------------------------------------------------------
(* Clients nest surfaces as Nesting says; a rank, which Nesting has, tells *)
(* parents from children.                                                  *)
Nested == \A x \in Surface : parent[x] # None => <<x, parent[x]>> \in Nesting

Ranks(rank) ==
  /\ rank \in [Surface -> 0 .. Height]
  /\ \A e \in Nesting : rank[e[2]] < rank[e[1]]

LEMMA RankExists == \E rank : Ranks(rank)
  BY NestingAssumption DEF Ranks, Height

LEMMA ParentRank ==
  ASSUME Nested, NEW rank, Ranks(rank), NEW x \in Surface, NEW p \in Surface, parent[x] = p
  PROVE  /\ rank[p] < rank[x]
         /\ rank[p] \in Nat /\ rank[x] \in Nat /\ rank[x] <= Height /\ rank[p] <= Height
<1>1. <<x, p>> \in Nesting
  BY DEF Nested
<1> QED
  BY <1>1, HeightNat DEF Ranks

(* Whatever applyCached goes down to from a surface r is below r, and it   *)
(* goes on to all the children of what it visits.                          *)
LEMMA VisitedBelow ==
  ASSUME TypeOK, Nested, NEW rank, Ranks(rank), NEW md, NEW top \in SUBSET Surface,
         NEW r \in Surface, \A c \in top : parent[c] = r,
         \A c \in Visited(md, top) : \A k \in KidsAfter(md, c) : parent[k] = c
  PROVE  /\ top \subseteq Visited(md, top)
         /\ \A c \in Visited(md, top) : KidsAfter(md, c) \subseteq Visited(md, top)
         /\ \A c \in Visited(md, top) : rank[r] < rank[c] /\ r \in Above(c)
<1>1. PICK D : D = DownFrom(md, top)
  OBVIOUS
<1>2. /\ D[0] = top
      /\ \A n \in 1 .. Height : D[n] = D[n - 1] \cup UNION {KidsAfter(md, c) : c \in D[n - 1]}
      /\ \A n \in 0 .. Height : D[n] \subseteq Surface
  BY <1>1, DownLevels
<1>3. \A n \in 0 .. Height : D[n] \subseteq D[Height]
  BY <1>2, HeightNat, Grows
<1>4. Visited(md, top) = D[Height] /\ Height \in Nat
  BY <1>1, VisitedDown, HeightNat
<1>5. ASSUME NEW n \in Nat, n + 1 <= Height, NEW k \in D[n + 1]
      PROVE  \/ k \in D[n]
             \/ \E c \in D[n] : k \in KidsAfter(md, c) /\ parent[k] = c
  <2>1. D[n + 1] = D[n] \cup UNION {KidsAfter(md, c) : c \in D[n]}
    BY <1>2, <1>5, NextLevel
  <2>2. D[n] \subseteq D[Height]
    BY <1>3, <1>5, NextLevel
  <2> QED
    BY <1>4, <1>5, <2>1, <2>2
<1>6. \A x \in Surface : rank[x] \in Nat /\ rank[x] <= Height
  BY HeightNat DEF Ranks
<1>7. ASSUME NEW n \in 0 .. Height, NEW c \in D[n] PROVE rank[r] < rank[c]
  <2> DEFINE S == {m \in Nat : m <= Height => \A x \in D[m] : rank[r] < rank[x]}
  <2>1. 0 \in S
    BY <1>2, ParentRank
  <2>2. ASSUME NEW m \in Nat, m + 1 <= Height, m \in S PROVE m + 1 \in S
    <3> SUFFICES ASSUME NEW k \in D[m + 1] PROVE rank[r] < rank[k]
      OBVIOUS
    <3>1. D[m] \subseteq Surface /\ D[m + 1] \subseteq Surface /\ \A x \in D[m] : rank[r] < rank[x]
      BY <1>2, <2>2, NextLevel
    <3>2. CASE k \in D[m]
      BY <3>1, <3>2
    <3>3. ASSUME NEW x \in D[m], parent[k] = x PROVE rank[r] < rank[k]
      BY <1>6, <3>1, <3>3, ParentRank
    <3> QED
      BY <1>5, <2>2, <3>2, <3>3
  <2> HIDE DEF S
  <2>3. n \in S
    BY <2>1, <2>2, AllLevels
  <2> QED
    BY <2>3, <1>7, <1>4 DEF S
<1>8. ASSUME NEW n \in Nat, n + 1 <= Height, NEW c \in D[n + 1] \ D[n]
      PROVE  rank[r] + n + 2 <= rank[c]
  <2> DEFINE S == {m \in Nat : m + 1 <= Height =>
                     \A x \in D[m + 1] \ D[m] : rank[r] + m + 2 <= rank[x]}
  <2>1. 0 \in S
    <3> SUFFICES ASSUME 0 + 1 <= Height, NEW k \in D[0 + 1] \ D[0]
                 PROVE  rank[r] + 2 <= rank[k]
      BY <1>6
    <3>1. PICK x \in D[0] : parent[k] = x
      BY <1>5
    <3>2. x \in Surface /\ k \in Surface /\ rank[r] < rank[x]
      BY <1>2, <1>4, <1>7
    <3> QED
      BY <1>6, <3>1, <3>2, ParentRank
  <2>2. ASSUME NEW m \in Nat, m + 1 <= Height, m \in S PROVE m + 1 \in S
    <3> SUFFICES ASSUME (m + 1) + 1 <= Height, NEW k \in D[(m + 1) + 1] \ D[m + 1]
                 PROVE  rank[r] + (m + 1) + 2 <= rank[k]
      OBVIOUS
    <3>1. PICK x \in D[m + 1] : k \in KidsAfter(md, x) /\ parent[k] = x
      BY <1>5
    <3>2. x \notin D[m]
      <4>1. D[m + 1] = D[m] \cup UNION {KidsAfter(md, y) : y \in D[m]}
        BY <1>2, <2>2, NextLevel
      <4> QED
        BY <3>1, <4>1
    <3>3. rank[r] + m + 2 <= rank[x]
      BY <2>2, <3>2
    <3>4. x \in Surface /\ k \in Surface
      BY <1>2, <2>2, NextLevel
    <3>5. rank[x] < rank[k] /\ rank[x] \in Nat /\ rank[k] \in Nat /\ rank[r] \in Nat
      BY <1>6, <3>1, <3>4, ParentRank
    <3> QED
      BY <3>3, <3>5
  <2> HIDE DEF S
  <2>3. n \in S
    <3>1. n \in 0 .. Height
      BY <1>8, NextLevel
    <3> QED
      BY <2>1, <2>2, <3>1, AllLevels
  <2> QED
    BY <2>3, <1>8 DEF S
<1>9. ASSUME NEW c \in D[Height], NEW k \in KidsAfter(md, c) PROVE k \in D[Height]
  <2>1. c \in Surface /\ rank[r] < rank[c] /\ rank[c] <= Height /\ rank[r] \in Nat /\ rank[c] \in Nat
    BY <1>2, <1>4, <1>6, <1>7
  <2>2. PICK h : h = Height - 1
    OBVIOUS
  <2>3. h \in Nat /\ h + 1 = Height
    BY <1>4, <2>1, <2>2
  <2>4. c \in D[h]
    <3> SUFFICES ASSUME c \notin D[h] PROVE FALSE
      OBVIOUS
    <3>1. rank[r] + h + 2 <= rank[c]
      BY <1>8, <2>3
    <3> QED
      BY <2>1, <2>3, <3>1
  <2>5. D[h + 1] = D[h] \cup UNION {KidsAfter(md, x) : x \in D[h]}
    BY <1>2, <2>3, NextLevel
  <2> QED
    BY <2>3, <2>4, <2>5
<1>10. ASSUME NEW n \in 0 .. Height, NEW c \in D[n]
       PROVE  \E d \in 1 .. Height : d <= rank[c] - rank[r] /\ r \in UpFrom(c)[d]
  <2> DEFINE S == {m \in Nat : m <= Height =>
                     \A x \in D[m] : \E d \in 1 .. Height :
                       d <= rank[x] - rank[r] /\ r \in UpFrom(x)[d]}
  <2>1. 0 \in S
    <3> SUFFICES ASSUME NEW x \in D[0]
                 PROVE  \E d \in 1 .. Height : d <= rank[x] - rank[r] /\ r \in UpFrom(x)[d]
      OBVIOUS
    <3>1. x \in Surface /\ parent[x] = r /\ rank[r] < rank[x]
      BY <1>2, <1>4, <1>7
    <3>2. 1 \in 1 .. Height /\ 1 <= rank[x] - rank[r]
      BY <1>4, <1>6, <3>1
    <3>3. /\ UpFrom(x)[0] = {x}
          /\ UpFrom(x)[1] = UpFrom(x)[0] \cup ({parent[y] : y \in UpFrom(x)[0]} \ {None})
      <4>1. 1 - 1 = 0
        OBVIOUS
      <4> QED
        BY <3>1, <3>2, <4>1, UpLevels
    <3> QED
      BY <3>1, <3>2, <3>3
  <2>2. ASSUME NEW m \in Nat, m + 1 <= Height, m \in S PROVE m + 1 \in S
    <3> SUFFICES ASSUME NEW k \in D[m + 1]
                 PROVE  \E d \in 1 .. Height : d <= rank[k] - rank[r] /\ r \in UpFrom(k)[d]
      OBVIOUS
    <3>1. D[m] \subseteq Surface /\ D[m + 1] \subseteq Surface
      BY <1>2, <2>2, NextLevel
    <3>2. CASE k \in D[m]
      BY <1>4, <2>2, <3>2
    <3>3. ASSUME NEW x \in D[m], parent[k] = x
          PROVE  \E d \in 1 .. Height : d <= rank[k] - rank[r] /\ r \in UpFrom(k)[d]
      <4>1. PICK d \in 1 .. Height : d <= rank[x] - rank[r] /\ r \in UpFrom(x)[d]
        BY <1>4, <2>2, <3>3
      <4>2. x \in Surface /\ k \in Surface
        BY <3>1, <3>3
      <4>3. rank[x] < rank[k] /\ rank[x] \in Nat /\ rank[k] \in Nat /\ rank[r] \in Nat /\ rank[k] <= Height
        BY <1>6, <3>3, <4>2, ParentRank
      <4>4. d \in Nat /\ d + 1 <= Height /\ d + 1 \in 1 .. Height /\ d + 1 <= rank[k] - rank[r]
        BY <1>4, <4>1, <4>3
      <4>5. UpFrom(x)[d] \subseteq UpFrom(k)[d + 1]
        BY <3>3, <4>2, <4>4, UpShift
      <4> QED
        BY <4>1, <4>4, <4>5
    <3> QED
      BY <1>5, <2>2, <3>2, <3>3
  <2> HIDE DEF S
  <2>3. n \in S
    BY <2>1, <2>2, AllLevels
  <2> QED
    BY <2>3, <1>10, <1>4 DEF S
<1>11. ASSUME NEW c \in D[Height] PROVE rank[r] < rank[c] /\ r \in Above(c)
  <2>1. c \in Surface /\ rank[r] < rank[c]
    BY <1>2, <1>4, <1>7
  <2>2. PICK d \in 1 .. Height : r \in UpFrom(c)[d]
    BY <1>4, <1>10
  <2>3. r \in UpFrom(c)[Height]
    <3>1. d \in 0 .. Height
      BY <1>4
    <3> QED
      BY <2>1, <2>2, <3>1, UpGrows
  <2>4. r # c
    BY <1>6, <2>1
  <2> QED
    BY <2>1, <2>3, <2>4, AboveUp
<1> QED
  BY <1>2, <1>3, <1>4, <1>9, <1>11


(* No step nests surfaces otherwise.                                       *)
LEMMA NestedNext == TypeOK /\ Nested /\ [Next]_vars => Nested'
<1> SUFFICES ASSUME TypeOK, Nested, [Next]_vars PROVE Nested'
  OBVIOUS
<1>1. ASSUME NEW s \in Surface, NEW p \in Surface, CreateSubsurface(s, p) PROVE Nested'
  BY <1>1 DEF Nested, CreateSubsurface, TypeOK
<1>2. ASSUME NEW s \in Surface, DestroySubsurface(s) \/ DestroySurface(s) PROVE Nested'
  BY <1>2 DEF Nested, DestroySubsurface, DestroySurface, TypeOK
<1>3. ASSUME parent' = parent PROVE Nested'
  BY <1>3 DEF Nested
<1>4. ASSUME NEW s \in Surface, SurfaceStep(s), ~DestroySurface(s) PROVE parent' = parent
  BY <1>4 DEF SurfaceStep, CreateSurface, AttachBuffer, AttachNull, BufferDestroyed,
     AddFrameCallback, CommitToCache, CommitToCurrent, CommitFaults, FrameRendered, Fail, subVars
<1>5. ASSUME NEW s \in Surface, SubsurfaceStep(s), ~DestroySubsurface(s),
             \A p \in Surface : ~CreateSubsurface(s, p)
      PROVE  parent' = parent
  BY <1>5 DEF SubsurfaceStep, DestroyFaults, SetSync, SetDesync, SetDesyncFaults, SetPosition,
     Restack, Fail, subVars
<1>6. CASE UNCHANGED vars
  BY <1>3, <1>6 DEF vars, subVars
<1> QED
  BY <1>1, <1>2, <1>3, <1>4, <1>5, <1>6 DEF Next, SurfaceStep, SubsurfaceStep

(* A surface that is no desynchronized one below the surface r stays       *)
(* synchronized by what is above it, whatever the mode of r.               *)
LEMMA SyncedAbove ==
  ASSUME TypeOK, Nested, NEW rank, Ranks(rank), NEW r \in Surface,
         Synced([mode EXCEPT ![r] = "desync"], r)
  PROVE  IsSub(parent[r]) /\ Synced(mode, parent[r])
<1>1. PICK md : md = [mode EXCEPT ![r] = "desync"]
  OBVIOUS
<1>2. PICK U : U = UpTo(md, parent, sub, alive)
  OBVIOUS
<1>3. PICK W : W = UpTo(mode, parent, sub, alive)
  OBVIOUS
<1>4. parent \in [Surface -> Surface \cup {None}]
  BY DEF TypeOK
<1>5. ASSUME NEW n \in 0 .. Height, NEW x \in Surface
      PROVE  x \in U[n] <=>
               \/ md[x] = "sync"
               \/ /\ n > 0 /\ parent[x] # None /\ (parent[x] \in sub /\ parent[x] \in alive)
                  /\ parent[x] \in U[n - 1]
  BY <1>2, <1>4, UpToMember
<1>6. ASSUME NEW n \in 0 .. Height, NEW x \in Surface
      PROVE  x \in W[n] <=>
               \/ mode[x] = "sync"
               \/ /\ n > 0 /\ parent[x] # None /\ (parent[x] \in sub /\ parent[x] \in alive)
                  /\ parent[x] \in W[n - 1]
  BY <1>3, <1>4, UpToMember
<1>7. \A n \in 0 .. Height : U[n] \subseteq Surface /\ W[n] \subseteq Surface
  BY <1>2, <1>3, <1>4, UpToMember
<1>8. \A x \in Surface : x # r => md[x] = mode[x]
  BY <1>1 DEF TypeOK
<1>9. md[r] = "desync"
  BY <1>1 DEF TypeOK
<1>10. ASSUME NEW n \in 0 .. Height, NEW x \in U[n], rank[x] < rank[r] PROVE x \in W[n]
  <2> DEFINE S == {m \in Nat : m <= Height => \A y \in U[m] : rank[y] < rank[r] => y \in W[m]}
  <2>1. 0 \in S
    <3> SUFFICES ASSUME NEW y \in U[0], rank[y] < rank[r] PROVE y \in W[0]
      OBVIOUS
    <3>1. 0 \in 0 .. Height
      BY HeightNat
    <3>2. y \in Surface /\ md[y] = "sync"
      BY <1>5, <1>7, <3>1
    <3>3. y # r
      BY HeightNat DEF Ranks
    <3> QED
      BY <1>6, <1>8, <3>1, <3>2, <3>3
  <2>2. ASSUME NEW m \in Nat, m + 1 <= Height, m \in S PROVE m + 1 \in S
    <3> SUFFICES ASSUME NEW y \in U[m + 1], rank[y] < rank[r] PROVE y \in W[m + 1]
      OBVIOUS
    <3>1. m + 1 \in 0 .. Height /\ m + 1 > 0 /\ (m + 1) - 1 = m
      BY <2>2, NextLevel
    <3>2. /\ y \in Surface
          /\ \/ md[y] = "sync"
             \/ /\ parent[y] # None /\ (parent[y] \in sub /\ parent[y] \in alive)
                /\ parent[y] \in U[m]
      BY <1>5, <1>7, <3>1
    <3>3. y # r
      BY <3>2, HeightNat DEF Ranks
    <3>4. CASE md[y] = "sync"
      BY <1>6, <1>8, <3>1, <3>2, <3>3, <3>4
    <3>5. CASE /\ parent[y] # None /\ (parent[y] \in sub /\ parent[y] \in alive)
               /\ parent[y] \in U[m]
      <4>1. parent[y] \in Surface
        BY <1>4, <3>2, <3>5
      <4>2. rank[parent[y]] < rank[y] /\ rank[parent[y]] \in Nat /\ rank[y] \in Nat /\ rank[r] \in Nat
        BY <3>2, <4>1, ParentRank, HeightNat DEF Ranks
      <4>3. parent[y] \in W[m]
        BY <2>2, <3>5, <4>2, HeightNat
      <4> QED
        BY <1>6, <3>1, <3>2, <3>5, <4>3
    <3> QED
      BY <3>2, <3>4, <3>5
  <2> HIDE DEF S
  <2>3. n \in S
    BY <2>1, <2>2, AllLevels
  <2> QED
    BY <2>3, <1>10, HeightNat DEF S
<1>11. ASSUME NEW n \in 1 .. Height PROVE W[n - 1] \subseteq W[n]
  <2> DEFINE S == {m \in Nat : m + 1 <= Height => W[m] \subseteq W[m + 1]}
  <2>1. 0 \in S
    <3> SUFFICES ASSUME 0 + 1 <= Height, NEW y \in W[0] PROVE y \in W[0 + 1]
      OBVIOUS
    <3>1. 0 \in 0 .. Height /\ 0 + 1 \in 0 .. Height
      BY HeightNat
    <3> QED
      BY <1>6, <1>7, <3>1
  <2>2. ASSUME NEW m \in Nat, m + 1 <= Height, m \in S PROVE m + 1 \in S
    <3> SUFFICES ASSUME (m + 1) + 1 <= Height, NEW y \in W[m + 1] PROVE y \in W[(m + 1) + 1]
      OBVIOUS
    <3>1. /\ m + 1 \in 0 .. Height /\ m + 1 > 0 /\ (m + 1) - 1 = m
          /\ (m + 1) + 1 \in 0 .. Height /\ (m + 1) + 1 > 0 /\ ((m + 1) + 1) - 1 = m + 1
      BY HeightNat
    <3>2. W[m] \subseteq W[m + 1]
      BY <2>2
    <3> QED
      BY <1>6, <1>7, <3>1, <3>2
  <2> HIDE DEF S
  <2>3. n - 1 \in S
    BY <2>1, <2>2, AllLevels, HeightNat
  <2> QED
    BY <2>3, HeightNat DEF S
<1>12. r \in U[Height]
  BY <1>1, <1>2, SyncedUpTo
<1>13. /\ Height > 0 /\ parent[r] # None /\ (parent[r] \in sub /\ parent[r] \in alive)
       /\ parent[r] \in U[Height - 1]
  <2>1. Height \in 0 .. Height
    BY HeightNat
  <2> QED
    BY <1>5, <1>9, <1>12, <2>1
<1>14. parent[r] \in Surface
  BY <1>4, <1>13
<1>15. parent[r] \in W[Height - 1]
  <2>1. rank[parent[r]] < rank[r]
    BY <1>14, ParentRank
  <2>2. Height - 1 \in 0 .. Height
    BY <1>13, HeightNat
  <2> QED
    BY <1>10, <1>13, <2>1, <2>2
<1>16. parent[r] \in W[Height]
  <2>1. Height \in 1 .. Height
    BY <1>13, HeightNat
  <2> QED
    BY <1>11, <1>15, <2>1
<1> QED
  BY <1>3, <1>13, <1>16, SyncedUpTo DEF IsSub

(* Whatever shows a new buffer is the surface r of the request or below    *)
(* it, and has its synchronized children, as md tells them, show theirs.   *)
ShowsWhole(md, r) ==
  /\ \A s \in Surface : current'[s].buffer # current[s].buffer /\ s # r => r \in Above(s)
  /\ \A s \in Surface : current'[s].buffer # current[s].buffer =>
       \A c \in current'[s].kids : Synced(md, c) => Idle(cached'[c])

(* What a request of r changes before it applies a state is no buffer and  *)
(* nothing below r.                                                        *)
Prepared(shown, rank, r) ==
  /\ \A x \in Surface : shown[x].buffer = current[x].buffer
  /\ \A x \in Surface : rank[r] < rank[x] => shown[x] = current[x]
OwnKids(state, r) == \A c \in state.kids : Linked(r, c)

(* What a commit shows: the new state of r, and with it that of all the    *)
(* synchronized subsurfaces below r; whatever shows a new buffer has its   *)
(* synchronized children shown with it.                                    *)
LEMMA Shows ==
  ASSUME TypeOK, TreeInv, Nested, NEW rank, Ranks(rank), NEW md, NEW r \in alive,
         NEW shown \in [Surface -> ShownState], NEW source \in SurfaceState, NEW others,
         ApplyFrom(md, shown, r, source, others), OwnKids(Merge(shown[r], source), r),
         Prepared(shown, rank, r)
  PROVE  ShowsWhole(md, r)
<1> USE DEF OwnKids, Prepared
<1>1. PICK top : top = Merge(shown[r], source)
  OBVIOUS
<1>2. PICK V : V = Visited(md, top.kids)
  OBVIOUS
<1>3. /\ \A c \in V : IsSub(c)
      /\ current' = [s \in Surface |->
                       IF s = r THEN top
                       ELSE IF s \in {c \in V : Synced(md, c)} THEN Merge(shown[s], cached[s])
                       ELSE shown[s]]
      /\ cached' = [s \in Surface |->
                      IF s \in {c \in V : Synced(md, c)}
                        THEN Cleared(cached[s], Merge(shown[s], cached[s]).kids)
                        ELSE others[s]]
  BY <1>1, <1>2 DEF ApplyFrom
<1>4. r \in Surface /\ alive \subseteq Surface /\ sub \subseteq Surface
  BY DEF TypeOK
<1>5. top.kids \subseteq Surface /\ \A c \in top.kids : parent[c] = r
  BY <1>1, <1>4 DEF Linked
<1>6. ASSUME NEW c \in V, NEW k \in KidsAfter(md, c) PROVE parent[k] = c
  <2>1. c \in alive \cap sub
    BY <1>3 DEF IsSub
  <2>2. KidsAfter(md, c) \subseteq current[c].kids \cup cached[c].kids
    BY MergeKids DEF KidsAfter
  <2> QED
    BY <1>6, <2>1, <2>2 DEF TreeInv, CurrentLinked, CachedLinked, Linked
<1>7. /\ top.kids \subseteq V
      /\ \A c \in V : KidsAfter(md, c) \subseteq V
      /\ \A c \in V : rank[r] < rank[c] /\ r \in Above(c)
  <2>1. PICK K : K = top.kids
    OBVIOUS
  <2>2. K \in SUBSET Surface /\ \A c \in K : parent[c] = r
    BY <1>5, <2>1
  <2>3. \A c \in Visited(md, K) : \A k \in KidsAfter(md, c) : parent[k] = c
    BY <1>2, <1>6, <2>1
  <2> QED
    BY <1>2, <1>4, <2>1, <2>2, <2>3, VisitedBelow
<1>8. V \subseteq Surface
  BY <1>3, <1>4 DEF IsSub
<1>9. ASSUME NEW s \in Surface, current'[s].buffer # current[s].buffer, s # r
      PROVE  s \in V /\ Synced(md, s) /\ current'[s] = Merge(shown[s], cached[s])
  BY <1>3, <1>9
<1>10. ASSUME NEW s \in Surface, current'[s].buffer # current[s].buffer,
              NEW c \in current'[s].kids
       PROVE  c \in V
  <2>1. CASE s = r
    BY <1>3, <1>4, <1>7, <1>10, <2>1
  <2>2. CASE s # r
    <3>1. s \in V /\ Synced(md, s) /\ current'[s] = Merge(shown[s], cached[s])
      BY <1>9, <1>10, <2>2
    <3>2. shown[s] = current[s]
      BY <1>7, <3>1
    <3>3. KidsAfter(md, s) = current'[s].kids
      BY <3>1, <3>2 DEF KidsAfter
    <3> QED
      BY <1>7, <1>10, <3>1, <3>3
  <2> QED
    BY <2>1, <2>2
<1>11. ASSUME NEW c \in V, Synced(md, c) PROVE Idle(cached'[c])
  <2>1. cached'[c] = Cleared(cached[c], Merge(shown[c], cached[c]).kids)
    BY <1>3, <1>8, <1>11
  <2> QED
    BY <2>1 DEF Idle, Cleared, Fresh
<1> QED
  BY <1>7, <1>9, <1>10, <1>11 DEF ShowsWhole

(* Only a commit, and set_desync, shows another buffer.                    *)
LEMMA NewBuffer ==
  ASSUME TypeOK, Next, NEW s \in Surface, current'[s].buffer \notin {current[s].buffer, 0}
  PROVE  \E r \in Surface : CommitToCurrent(r) \/ SetDesync(r)
<1> SUFFICES ASSUME NEW r \in Surface, SurfaceStep(r) \/ SubsurfaceStep(r),
                    ~CommitToCurrent(r), ~SetDesync(r)
             PROVE  FALSE
  BY DEF Next
<1>1. \A x \in Surface : current[x] \in ShownState
  BY DEF TypeOK
<1>2. current' # current
  OBVIOUS
<1>3. \/ \E b \in 1 .. MaxAttach : BufferDestroyed(r, b)
      \/ FrameRendered(r)
      \/ DestroySurface(r)
      \/ DestroySubsurface(r)
  BY <1>2 DEF SurfaceStep, SubsurfaceStep, CreateSurface, AttachBuffer, AttachNull,
     AddFrameCallback, CommitToCache, CommitFaults, Fail, surfaceVars, subVars, CreateSubsurface,
     DestroyFaults, SetSync, SetDesyncFaults, SetPosition, Restack
<1>4. ASSUME NEW b \in 1 .. MaxAttach, BufferDestroyed(r, b) PROVE FALSE
  <2>1. current' = [current EXCEPT ![r].buffer = 0]
    BY <1>2, <1>4 DEF BufferDestroyed
  <2>2. [current[r] EXCEPT !.buffer = 0].buffer = 0
    BY <1>1 DEF ShownState
  <2>3. current \in [Surface -> ShownState]
    BY DEF TypeOK
  <2> QED
    BY <2>1, <2>2, <2>3
<1>5. CASE FrameRendered(r)
  <2>1. \A x \in Surface : [current[x] EXCEPT !.frames = {}].buffer = current[x].buffer
    BY <1>1 DEF ShownState
  <2>2. current'[s] \in {current[s], [current[s] EXCEPT !.frames = {}]}
    BY <1>5 DEF FrameRendered
  <2> QED
    BY <2>1, <2>2
<1>6. \A x \in Surface : RemoveKid(current[x], r).buffer = current[x].buffer
  BY <1>1 DEF ShownState, RemoveKid
<1>7. WithoutChild(current, r)[s] \in {current[s], RemoveKid(current[s], r)}
  BY DEF WithoutChild
<1>8. CASE DestroySubsurface(r)
  BY <1>6, <1>7, <1>8 DEF DestroySubsurface
<1>9. CASE DestroySurface(r)
  <2>1. current'[s] = (IF s = r THEN Blank ELSE WithoutChild(current, r)[s])
    BY <1>9 DEF DestroySurface, WithoutChild
  <2>2. Blank.buffer = 0
    BY DEF Blank
  <2> QED
    BY <1>6, <1>7, <2>1, <2>2
<1> QED
  BY <1>3, <1>4, <1>5, <1>8, <1>9


(* Shows, of the two requests that show something.                         *)
LEMMA CommitShows ==
  ASSUME TypeOK, TreeInv, Nested, NEW r \in Surface, CommitToCurrent(r)
  PROVE  ShowsWhole(mode, r)
<1>1. PICK rank : Ranks(rank)
  BY RankExists
<1>2. /\ r \in alive /\ ApplyFrom(mode, current, r, pending[r], cached)
      /\ current \in [Surface -> ShownState] /\ pending[r] \in SurfaceState
  BY DEF CommitToCurrent, TypeOK
<1>3. OwnKids(Merge(current[r], pending[r]), r)
  BY <1>2, MergeKids DEF OwnKids, TreeInv, CurrentLinked, PendingLinked
<1>4. Prepared(current, rank, r)
  BY DEF Prepared
<1> QED
  BY <1>1, <1>2, <1>3, <1>4, Shows

LEMMA DesyncShows ==
  ASSUME TypeOK, TreeInv, Nested, NEW r \in Surface, SetDesync(r), current' # current
  PROVE  /\ AppliesAtOnce(parent[r])
         /\ ShowsWhole([mode EXCEPT ![r] = "desync"], r)
<1>1. PICK rank : Ranks(rank)
  BY RankExists
<1>2. PICK p : p = parent[r]
  OBVIOUS
<1>3. PICK shown : shown = [current EXCEPT ![p].kids = @ \cup {r}]
  OBVIOUS
<1>4. PICK others : others = [cached EXCEPT ![r] = Cleared(@, Merge(shown[r], @).kids)]
  OBVIOUS
<1>5. PICK md : md = [mode EXCEPT ![r] = "desync"]
  OBVIOUS
<1>6. /\ AppliesAtOnce(p) /\ ApplyFrom(md, shown, r, cached[r], others)
      /\ r \in sub /\ p \in alive
  BY <1>2, <1>3, <1>4, <1>5 DEF SetDesync
<1>7. /\ current \in [Surface -> ShownState] /\ cached[r] \in SurfaceState
      /\ p \in Surface /\ alive \subseteq Surface
  BY <1>6 DEF TypeOK
<1>8. shown \in [Surface -> ShownState]
  BY <1>3, <1>7, WithChildType
<1>9. /\ \A x \in Surface : x # p => shown[x] = current[x]
      /\ \A x \in Surface : shown[x].buffer = current[x].buffer
      /\ \A x \in Surface : shown[x].kids = IF x = p THEN current[x].kids \cup {r}
                                            ELSE current[x].kids
  BY ZenonT(40), <1>3, <1>7 DEF ShownState
<1>10. r \in alive /\ Linked(p, r)
  BY <1>2, <1>6, <1>7 DEF TreeInv, DeadBare, Linked
<1>11. rank[p] < rank[r] /\ \A x \in Surface : rank[x] \in Nat
  BY <1>1, <1>2, <1>7, ParentRank, HeightNat DEF Ranks
<1>12. r # p
  BY <1>7, <1>11
<1>13. \A x \in Surface : rank[r] < rank[x] => shown[x] = current[x]
  BY <1>7, <1>9, <1>11
<1>14. \A c \in Merge(shown[r], cached[r]).kids : Linked(r, c)
  BY <1>6, <1>9, <1>10, <1>12, MergeKids DEF TreeInv, CurrentLinked, CachedLinked
<1>15. PICK source : source = cached[r]
  OBVIOUS
<1>16. source \in SurfaceState /\ ApplyFrom(md, shown, r, source, others)
  BY <1>6, <1>7, <1>15
<1>17. OwnKids(Merge(shown[r], source), r)
  BY <1>14, <1>15 DEF OwnKids
<1>18. Prepared(shown, rank, r)
  BY <1>9, <1>13 DEF Prepared
<1>19. ShowsWhole(md, r)
  BY <1>1, <1>8, <1>10, <1>16, <1>17, <1>18, Shows
<1> QED
  BY <1>2, <1>5, <1>6, <1>19

(* In a step that leaves surfaces and subsurfaces in place only the modes  *)
(* decide who is synchronized.                                             *)
LEMMA SyncedNext ==
  ASSUME UNCHANGED <<alive, sub, parent>>, NEW x
  PROVE  Synced(mode, x)' = Synced(mode', x)
  BY SyncedUpTo DEF Synced, UpTo, IsSub

(* A synchronized subsurface shows a new buffer only in a step of a        *)
(* surface above it.                                                       *)
LEMMA WaitsNext ==
  ASSUME TypeOK, TreeInv, Nested, Next, NEW s \in sub, Synced(mode, s), Synced(mode, s)',
         current'[s].buffer \notin {current[s].buffer, 0}
  PROVE  \E r \in Above(s) : CommitToCurrent(r) \/ SetDesync(r)
<1>1. s \in Surface
  BY DEF TypeOK
<1>2. PICK r \in Surface : CommitToCurrent(r) \/ SetDesync(r)
  BY <1>1, NewBuffer
<1>3. CASE CommitToCurrent(r)
  <2>1. s # r
    BY <1>3 DEF CommitToCurrent, CommitsDirectly, IsSub
  <2> QED
    BY <1>1, <1>3, <2>1, CommitShows DEF ShowsWhole
<1>4. CASE SetDesync(r)
  <2>1. AppliesAtOnce(parent[r])
    BY <1>4, DesyncShows
  <2>2. s # r
    <3> SUFFICES ASSUME s = r PROVE FALSE
      OBVIOUS
    <3>1. UNCHANGED <<alive, sub, parent>> /\ mode' = [mode EXCEPT ![r] = "desync"]
      BY <1>4 DEF SetDesync
    <3>2. Synced([mode EXCEPT ![r] = "desync"], r)
      BY <3>1, SyncedNext
    <3>3. IsSub(parent[r]) /\ Synced(mode, parent[r])
      BY <3>2, RankExists, SyncedAbove
    <3> QED
      BY <2>1, <3>3 DEF AppliesAtOnce
  <2> QED
    BY <1>1, <1>4, <2>2, DesyncShows DEF ShowsWhole
<1> QED
  BY <1>2, <1>3, <1>4

(* A surface that shows a new buffer has its synchronized children show    *)
(* theirs.                                                                 *)
LEMMA WholeNext ==
  ASSUME TypeOK, TreeInv, Nested, Next, NEW p \in alive,
         current'[p].buffer \notin {current[p].buffer, 0},
         NEW c \in current'[p].kids, Synced(mode, c)'
  PROVE  Idle(cached'[c])
<1>1. p \in Surface
  BY DEF TypeOK
<1>2. PICK r \in Surface : CommitToCurrent(r) \/ SetDesync(r)
  BY <1>1, NewBuffer
<1>3. CASE CommitToCurrent(r)
  <2>1. UNCHANGED <<alive, sub, parent, mode>>
    BY <1>3 DEF CommitToCurrent
  <2>2. Synced(mode, c)
    BY <2>1, SyncedNext
  <2> QED
    BY <1>1, <1>3, <2>2, CommitShows DEF ShowsWhole
<1>4. CASE SetDesync(r)
  <2>1. UNCHANGED <<alive, sub, parent>> /\ mode' = [mode EXCEPT ![r] = "desync"]
    BY <1>4 DEF SetDesync
  <2>2. Synced([mode EXCEPT ![r] = "desync"], c)
    BY <2>1, SyncedNext
  <2> QED
    BY <1>1, <1>4, <2>2, DesyncShows DEF ShowsWhole
<1> QED
  BY <1>2, <1>3, <1>4

(* A synchronized subsurface shows new content only when a surface above   *)
(* it is committed or switched to desynchronized mode.                     *)
THEOREM WaitsCorrect == Spec => SyncedWaitsForParent
<1>1. Init => Nested
  BY DEF Init, Nested
<1>2. TypeOK /\ TreeInv /\ Nested /\ [Next]_vars =>
        [\A s \in sub :
           /\ Synced(mode, s) /\ Synced(mode, s)'
           /\ current'[s].buffer \notin {current[s].buffer, 0}
           => \E r \in Above(s) : CommitToCurrent(r) \/ SetDesync(r)]_vars
  BY WaitsNext
<1> QED
  BY TypeCorrect, TreeAlways, NestedNext, <1>1, <1>2, PTL DEF Spec, SyncedWaitsForParent

(* No frame mixes old and new content: a surface that shows a new buffer   *)
(* has the state of its synchronized children applied in the same step,    *)
(* however deep the tree is.                                               *)
THEOREM WholeCorrect == Spec => NoTornFrame
<1>1. Init => Nested
  BY DEF Init, Nested
<1>2. TypeOK /\ TreeInv /\ Nested /\ [Next]_vars =>
        [\A p \in alive :
           current'[p].buffer \notin {current[p].buffer, 0}
           => \A c \in current'[p].kids : Synced(mode, c)' => Idle(cached'[c])]_vars
  BY WholeNext
<1> QED
  BY TypeCorrect, TreeAlways, NestedNext, <1>1, <1>2, PTL DEF Spec, NoTornFrame

-----------------------------------------------------------------------------
(* What is shown never goes back, as long as subsurfaces are not nested in *)
(* each other: below a second level the cached state of a desynchronized   *)
(* subsurface may outlive a newer one, see DesyncAppliesCache.             *)
Flat == \A e \in Nesting, f \in Nesting : e[2] # f[1]

(* Of the states p, c and k of a surface, pending holds the newest buffer  *)
(* and current the oldest one.                                             *)
Rising(p, c, k) ==
  /\ p.newBuffer /\ p.buffer # 0 =>
       p.buffer >= c.buffer /\ (k.newBuffer => p.buffer >= k.buffer)
  /\ k.newBuffer /\ k.buffer # 0 => k.buffer >= c.buffer

(* Only subsurfaces in synchronized mode cache a buffer.                   *)
CachesInSync == \A s \in Surface : cached[s].newBuffer => s \in sub /\ mode[s] = "sync"
SubsNested == \A s \in sub : \E e \in Nesting : e[1] = s
OrderInv ==
  /\ \A s \in Surface : Rising(pending[s], current[s], cached[s])
  /\ CachesInSync /\ SubsNested

LEMMA MovedRising ==
  ASSUME NEW p, NEW c, NEW k, NEW kids, NEW more, Rising(p, c, k),
         p.buffer \in Nat, c.buffer \in Nat, k.buffer \in Nat
  PROVE  /\ Rising(Cleared(p, kids), c, p)
         /\ ~k.newBuffer => Rising(Cleared(p, kids), Merge(c, p), k)
         /\ Rising(p, Merge(c, k), Cleared(k, more))
         /\ Rising(Cleared(p, kids), Merge(c, p), Cleared(k, more))
         /\ Merge(c, p).buffer = 0 \/ Merge(c, p).buffer >= c.buffer
         /\ Merge(c, k).buffer = 0 \/ Merge(c, k).buffer >= c.buffer
BY DEF Rising, Cleared, Fresh, Merge

(* The states p2, c2 and k2 hold no buffer that p, c and k do not.         *)
Fewer(p, c, k, p2, c2, k2) ==
  /\ p2.newBuffer /\ p2.buffer # 0 => p.newBuffer /\ p2.buffer = p.buffer
  /\ c2.buffer \in {c.buffer, 0}
  /\ k2.newBuffer => k.newBuffer /\ k2.buffer \in {k.buffer, 0}

LEMMA FewerRising ==
  ASSUME NEW p, NEW c, NEW k, NEW p2, NEW c2, NEW k2, Rising(p, c, k),
         p.buffer \in Nat, c.buffer \in Nat, k.buffer \in Nat,
         Fewer(p, c, k, p2, c2, k2)
  PROVE  Rising(p2, c2, k2)
BY DEF Rising, Fewer

LEMMA BuffersNat ==
  ASSUME TypeOK, NEW s \in Surface
  PROVE  /\ pending[s].buffer \in 0 .. MaxAttach /\ current[s].buffer \in 0 .. MaxAttach
         /\ cached[s].buffer \in 0 .. MaxAttach
         /\ pending[s].buffer \in Nat /\ current[s].buffer \in Nat /\ cached[s].buffer \in Nat
<1>1. pending[s] \in SurfaceState /\ current[s] \in ShownState /\ cached[s] \in SurfaceState
  BY DEF TypeOK
<1>2. /\ pending[s].buffer \in 0 .. MaxAttach /\ current[s].buffer \in 0 .. MaxAttach
      /\ cached[s].buffer \in 0 .. MaxAttach
  BY <1>1 DEF SurfaceState, ShownState
<1> QED
  BY <1>2

(* A request after which every surface holds and shows at most what it did *)
(* before.                                                                 *)
Drops ==
  \A s \in Surface :
    Fewer(pending[s], current[s], cached[s], pending'[s], current'[s], cached'[s])
NeverBack ==
  \A s \in Surface : current'[s].buffer = 0 \/ current'[s].buffer >= current[s].buffer

LEMMA DropsKeep ==
  ASSUME TypeOK, OrderInv, Drops, CachesInSync', SubsNested'
  PROVE  OrderInv' /\ NeverBack
<1>1. ASSUME NEW s \in Surface
      PROVE  /\ Rising(pending'[s], current'[s], cached'[s])
             /\ current'[s].buffer = 0 \/ current'[s].buffer >= current[s].buffer
  <2>1. /\ Fewer(pending[s], current[s], cached[s], pending'[s], current'[s], cached'[s])
        /\ Rising(pending[s], current[s], cached[s])
    BY DEF Drops, OrderInv
  <2>2. Rising(pending'[s], current'[s], cached'[s])
    BY <2>1, BuffersNat, FewerRising
  <2>3. current'[s].buffer \in {current[s].buffer, 0} /\ current[s].buffer \in Nat
    BY <2>1, BuffersNat DEF Fewer
  <2> QED
    BY <2>2, <2>3
<1> QED
  BY <1>1 DEF OrderInv, NeverBack

(* With one level of subsurfaces only the own mode counts.                 *)
LEMMA SyncedFlat ==
  ASSUME TypeOK, Flat, Nested, SubsNested, NEW md, NEW s \in Surface
  PROVE  /\ Synced(md, s) <=> md[s] = "sync"
         /\ parent[s] # None => parent[s] \notin sub
<1>1. parent[s] # None => parent[s] \notin sub
  <2> SUFFICES ASSUME parent[s] # None, parent[s] \in sub PROVE FALSE
    OBVIOUS
  <2>1. <<s, parent[s]>> \in Nesting
    BY DEF Nested
  <2>2. PICK f \in Nesting : f[1] = parent[s]
    BY DEF SubsNested
  <2> QED
    BY <2>1, <2>2 DEF Flat
<1>2. parent \in [Surface -> Surface \cup {None}] /\ Height \in 0 .. Height
  BY HeightNat DEF TypeOK
<1>3. s \in UpTo(md, parent, sub, alive)[Height] <=>
        \/ md[s] = "sync"
        \/ /\ Height > 0 /\ parent[s] # None /\ (parent[s] \in sub /\ parent[s] \in alive)
           /\ parent[s] \in UpTo(md, parent, sub, alive)[Height - 1]
  BY <1>2, UpToMember
<1> QED
  BY <1>1, <1>3, SyncedUpTo

(* The four requests that move buffers.                                    *)
LEMMA FlatCache ==
  ASSUME TypeOK, OrderInv, Flat, Nested, NEW r \in Surface, CommitToCache(r)
  PROVE  OrderInv' /\ NeverBack
<1>1. /\ cached' = [cached EXCEPT ![r] = pending[r]]
      /\ pending' = [pending EXCEPT ![r] = Cleared(pending[r], pending[r].kids)]
      /\ UNCHANGED <<current, sub, mode>>
      /\ r \in sub /\ Synced(mode, r)
  BY DEF CommitToCache, IsSub
<1>2. mode[r] = "sync"
  BY <1>1, SyncedFlat DEF OrderInv
<1>3. cached \in [Surface -> SurfaceState] /\ pending \in [Surface -> SurfaceState]
  BY DEF TypeOK
<1>4. CachesInSync' /\ SubsNested'
  BY <1>1, <1>2, <1>3 DEF OrderInv, CachesInSync, SubsNested
<1>5. ASSUME NEW s \in Surface PROVE Rising(pending'[s], current'[s], cached'[s])
  <2>1. Rising(pending[s], current[s], cached[s])
    BY DEF OrderInv
  <2>2. CASE s = r
    <3>1. /\ cached'[s] = pending[s] /\ current'[s] = current[s]
          /\ pending'[s] = Cleared(pending[s], pending[s].kids)
      BY <1>1, <1>3, <2>2
    <3> QED
      BY <2>1, <3>1, MovedRising, BuffersNat
  <2>3. CASE s # r
    BY <1>1, <1>3, <2>1, <2>3
  <2> QED
    BY <2>2, <2>3
<1>6. NeverBack
  <2>1. \A s \in Surface : current'[s].buffer = current[s].buffer /\ current[s].buffer \in Nat
    BY <1>1, BuffersNat
  <2> QED
    BY <2>1 DEF NeverBack
<1> QED
  BY <1>4, <1>5, <1>6 DEF OrderInv

LEMMA FlatCommit ==
  ASSUME TypeOK, OrderInv, Flat, Nested, NEW r \in Surface, CommitToCurrent(r)
  PROVE  OrderInv' /\ NeverBack
<1> DEFINE left == Merge(current[r], pending[r]).kids
<1>1. /\ ApplyFrom(mode, current, r, pending[r], cached) /\ UNCHANGED <<sub, mode>>
      /\ pending' = [pending EXCEPT ![r] = Cleared(pending[r], left)]
      /\ r \in alive /\ CommitsDirectly(r)
  BY DEF CommitToCurrent
<1>2. ~cached[r].newBuffer
  <2> SUFFICES ASSUME cached[r].newBuffer PROVE FALSE
    OBVIOUS
  <2>1. r \in sub /\ mode[r] = "sync"
    BY DEF OrderInv, CachesInSync
  <2>2. Synced(mode, r)
    BY <2>1, SyncedFlat DEF OrderInv
  <2> QED
    BY <1>1, <2>1, <2>2 DEF CommitsDirectly, IsSub
<1> HIDE DEF left
<1>3. \A kids : ~Cleared(cached[r], kids).newBuffer
  BY DEF Cleared, Fresh
<1>4. ASSUME NEW s \in Surface
      PROVE  /\ Rising(pending'[s], current'[s], cached'[s])
             /\ current'[s].buffer = 0 \/ current'[s].buffer >= current[s].buffer
             /\ cached'[s].newBuffer => cached[s].newBuffer
  <2>1. AppliedTo(current, r, pending[r], cached, s)
    BY <1>1, Applied
  <2>2. PICK kids :
          \/ /\ s = r /\ current'[s] = Merge(current[s], pending[r])
             /\ \/ cached'[s] = cached[s]
                \/ cached'[s] = Cleared(cached[s], kids)
          \/ /\ s # r /\ current'[s] = Merge(current[s], cached[s])
             /\ cached'[s] = Cleared(cached[s], kids)
          \/ s # r /\ current'[s] = current[s] /\ cached'[s] = cached[s]
    BY <2>1 DEF AppliedTo
  <2>3. /\ pending[s].buffer \in Nat /\ current[s].buffer \in Nat /\ cached[s].buffer \in Nat
        /\ Rising(pending[s], current[s], cached[s])
    BY BuffersNat DEF OrderInv
  <2>4. pending'[s] = IF s = r THEN Cleared(pending[s], left) ELSE pending[s]
    BY <1>1 DEF TypeOK
  <2>5. ~Cleared(cached[s], kids).newBuffer
    BY DEF Cleared, Fresh
  <2>6. CASE s = r /\ current'[s] = Merge(current[s], pending[s]) /\ cached'[s] = cached[s]
    BY <1>2, <2>3, <2>4, <2>6, MovedRising
  <2>7. CASE /\ s = r /\ current'[s] = Merge(current[s], pending[s])
             /\ cached'[s] = Cleared(cached[s], kids)
    BY <2>3, <2>4, <2>5, <2>7, MovedRising
  <2>8. CASE /\ s # r /\ current'[s] = Merge(current[s], cached[s])
             /\ cached'[s] = Cleared(cached[s], kids)
    BY <2>3, <2>4, <2>5, <2>8, MovedRising
  <2>9. CASE s # r /\ current'[s] = current[s] /\ cached'[s] = cached[s]
    BY <2>3, <2>4, <2>9
  <2> QED
    BY <2>2, <2>6, <2>7, <2>8, <2>9
<1>5. CachesInSync' /\ SubsNested'
  BY <1>1, <1>4 DEF OrderInv, CachesInSync, SubsNested
<1> QED
  BY <1>4, <1>5 DEF OrderInv, NeverBack

LEMMA FlatDesync ==
  ASSUME TypeOK, OrderInv, Flat, Nested, NEW r \in Surface, SetDesync(r)
  PROVE  OrderInv' /\ NeverBack
<1> DEFINE md == [mode EXCEPT ![r] = "desync"]
           shown == [current EXCEPT ![parent[r]].kids = @ \cup {r}]
           kept == Merge(shown[r], cached[r]).kids
           others == [cached EXCEPT ![r] = Cleared(@, kept)]
<1>1. parent[r] \notin sub
  <2>1. parent[r] \in alive
    BY DEF SetDesync
  <2> QED
    BY <2>1, SyncedFlat, NoneAssumption DEF OrderInv, TypeOK
<1>2. /\ ApplyFrom(md, shown, r, cached[r], others)
      /\ mode' = md /\ r \in sub /\ UNCHANGED <<pending, sub>>
  BY <1>1 DEF SetDesync, AppliesAtOnce, IsSub
<1>3. \A s \in Surface : shown[s].buffer = current[s].buffer
  <2>1. current \in [Surface -> ShownState]
    BY DEF TypeOK
  <2>2. \A q \in ShownState : \A kids : [q EXCEPT !.kids = kids].buffer = q.buffer
    BY DEF ShownState
  <2> QED
    BY <2>1, <2>2
<1>4. \A s \in Surface : others[s] = IF s = r THEN Cleared(cached[r], kept) ELSE cached[s]
  BY DEF TypeOK
<1>5. \A s \in Surface : mode'[s] = IF s = r THEN "desync" ELSE mode[s]
  BY <1>2 DEF TypeOK
<1> HIDE DEF md, shown, kept, others
<1>6. ASSUME NEW s \in Surface
      PROVE  /\ Rising(pending'[s], current'[s], cached'[s])
             /\ current'[s].buffer = 0 \/ current'[s].buffer >= current[s].buffer
             /\ cached'[s].newBuffer => cached[s].newBuffer /\ s # r
  <2>1. AppliedTo(shown, r, cached[r], others, s)
    BY <1>2, Applied
  <2>2. PICK kids :
          \/ /\ s = r /\ current'[s] = Merge(shown[s], cached[r])
             /\ \/ cached'[s] = others[s]
                \/ cached'[s] = Cleared(cached[s], kids)
          \/ /\ s # r /\ current'[s] = Merge(shown[s], cached[s])
             /\ cached'[s] = Cleared(cached[s], kids)
          \/ s # r /\ current'[s] = shown[s] /\ cached'[s] = others[s]
    BY <2>1 DEF AppliedTo
  <2>3. /\ pending[s].buffer \in Nat /\ shown[s].buffer \in Nat /\ cached[s].buffer \in Nat
        /\ Rising(pending[s], shown[s], cached[s])
    BY <1>3, BuffersNat DEF OrderInv, Rising
  <2>4. pending'[s] = pending[s]
    BY <1>2
  <2>5. ~Cleared(cached[s], kids).newBuffer /\ ~Cleared(cached[s], kept).newBuffer
    BY DEF Cleared, Fresh
  <2>6. CASE current'[s] = Merge(shown[s], cached[s]) /\ cached'[s] = Cleared(cached[s], kids)
    BY <1>3, <2>3, <2>4, <2>5, <2>6, MovedRising
  <2>7. CASE current'[s] = Merge(shown[s], cached[s]) /\ cached'[s] = Cleared(cached[s], kept)
    BY <1>3, <2>3, <2>4, <2>5, <2>7, MovedRising
  <2>8. CASE s # r /\ current'[s] = shown[s] /\ cached'[s] = cached[s]
    BY <1>3, <2>3, <2>4, <2>8
  <2> QED
    BY <1>4, <2>2, <2>6, <2>7, <2>8
<1>7. CachesInSync' /\ SubsNested'
  BY <1>2, <1>5, <1>6 DEF OrderInv, CachesInSync, SubsNested
<1> QED
  BY <1>6, <1>7 DEF OrderInv, NeverBack

(* What is attached is newer than anything held.                           *)
LEMMA FlatAttach ==
  ASSUME TypeOK, OrderInv, HeldInv, NEW r \in Surface, AttachBuffer(r)
  PROVE  OrderInv' /\ NeverBack
<1>1. /\ attached' = attached + 1 /\ UNCHANGED <<current, cached, sub, mode>>
      /\ pending' = [pending EXCEPT ![r] =
                       [pending[r] EXCEPT !.buffer = attached', !.newBuffer = TRUE]]
  BY DEF AttachBuffer, subVars, TypeOK
<1>2. attached \in Nat /\ pending \in [Surface -> SurfaceState]
  <2>1. attached \in 0 .. MaxAttach
    BY DEF TypeOK
  <2> QED
    BY <2>1 DEF TypeOK
<1>3. ASSUME NEW s \in Surface PROVE Rising(pending'[s], current'[s], cached'[s])
  <2>1. /\ current[s].buffer \in 0 .. attached /\ cached[s].buffer \in 0 .. attached
        /\ Rising(pending[s], current[s], cached[s])
    BY DEF HeldInv, Known, Buffers, OrderInv
  <2>2. CASE s = r
    <3>1. pending[r] \in SurfaceState
      BY <1>2
    <3>2. pending'[s].buffer = attached'
      BY <1>1, <1>2, <2>2, <3>1 DEF SurfaceState
    <3> QED
      BY <1>1, <1>2, <2>1, <3>2 DEF Rising
  <2>3. CASE s # r
    BY <1>1, <1>2, <2>1, <2>3
  <2> QED
    BY <2>2, <2>3
<1>4. NeverBack
  <2>1. \A s \in Surface : current'[s].buffer = current[s].buffer /\ current[s].buffer \in Nat
    BY <1>1, BuffersNat
  <2> QED
    BY <2>1 DEF NeverBack
<1> QED
  BY <1>1, <1>3, <1>4 DEF OrderInv, CachesInSync, SubsNested

(* Leaving the states as they are, apart from lists of children and        *)
(* callbacks.                                                              *)
SameBuffers ==
  \A s \in Surface : /\ pending'[s].buffer = pending[s].buffer
                     /\ pending'[s].newBuffer = pending[s].newBuffer
                     /\ current'[s].buffer = current[s].buffer
                     /\ cached'[s].newBuffer = cached[s].newBuffer
                     /\ cached'[s].buffer = cached[s].buffer

LEMMA SameDrops == SameBuffers => Drops
  BY DEF SameBuffers, Drops, Fewer

LEMMA FieldsOf ==
  ASSUME NEW q \in SurfaceState, NEW c \in ShownState, NEW kids, NEW frames, NEW flag
  PROVE  /\ [q EXCEPT !.buffer = 0].buffer = 0
         /\ [q EXCEPT !.buffer = 0].newBuffer = q.newBuffer
         /\ [q EXCEPT !.buffer = 0, !.newBuffer = TRUE].buffer = 0
         /\ [q EXCEPT !.frames = frames].buffer = q.buffer
         /\ [q EXCEPT !.frames = frames].newBuffer = q.newBuffer
         /\ [q EXCEPT !.kids = kids].buffer = q.buffer
         /\ [q EXCEPT !.kids = kids].newBuffer = q.newBuffer
         /\ [q EXCEPT !.kids = kids, !.newKids = flag].buffer = q.buffer
         /\ [q EXCEPT !.kids = kids, !.newKids = flag].newBuffer = q.newBuffer
         /\ [q EXCEPT !.newKids = flag].buffer = q.buffer
         /\ [q EXCEPT !.newKids = flag].newBuffer = q.newBuffer
         /\ [c EXCEPT !.buffer = 0].buffer = 0
         /\ [c EXCEPT !.frames = frames].buffer = c.buffer
         /\ [c EXCEPT !.kids = kids].buffer = c.buffer
  BY DEF SurfaceState, ShownState

LEMMA WithoutDrops ==
  ASSUME TypeOK, NEW r \in Surface, NEW s \in Surface
  PROVE  /\ WithoutChild(pending, r)[s].buffer = pending[s].buffer
         /\ WithoutChild(pending, r)[s].newBuffer = pending[s].newBuffer
         /\ WithoutChild(current, r)[s].buffer = current[s].buffer
         /\ CachedWithoutChild(r)[s].buffer = cached[s].buffer
         /\ CachedWithoutChild(r)[s].newBuffer = cached[s].newBuffer
<1>1. pending[s] \in SurfaceState /\ current[s] \in ShownState /\ cached[s] \in SurfaceState
  BY DEF TypeOK
<1>2. /\ RemoveKid(pending[s], r).buffer = pending[s].buffer
      /\ RemoveKid(pending[s], r).newBuffer = pending[s].newBuffer
      /\ RemoveKid(current[s], r).buffer = current[s].buffer
      /\ RemoveKid(cached[s], r).buffer = cached[s].buffer
      /\ RemoveKid(cached[s], r).newBuffer = cached[s].newBuffer
  BY <1>1, FieldsOf DEF RemoveKid
<1>3. /\ WithoutChild(pending, r)[s] \in {pending[s], RemoveKid(pending[s], r)}
      /\ WithoutChild(current, r)[s] \in {current[s], RemoveKid(current[s], r)}
      /\ CachedWithoutChild(r)[s] \in {cached[s], RemoveKid(cached[s], r)}
  BY DEF WithoutChild, CachedWithoutChild
<1> QED
  BY <1>2, <1>3

(* Every other request leaves at most the buffers that were there.         *)
LEMMA FlatOther ==
  ASSUME TypeOK, OrderInv, NEW r \in Surface, SurfaceStep(r) \/ SubsurfaceStep(r),
         ~AttachBuffer(r), ~CommitToCache(r), ~CommitToCurrent(r), ~SetDesync(r)
  PROVE  Drops /\ CachesInSync' /\ SubsNested'
<1> USE DEF OrderInv
<1>0. /\ pending \in [Surface -> SurfaceState] /\ current \in [Surface -> ShownState]
      /\ cached \in [Surface -> SurfaceState] /\ mode \in [Surface -> {"sync", "desync"}]
      /\ \A s \in Surface : /\ pending[s] \in SurfaceState /\ cached[s] \in SurfaceState
                            /\ current[s] \in ShownState
  BY DEF TypeOK
<1>1. ASSUME UNCHANGED <<pending, current, cached, sub, mode>>
      PROVE  Drops /\ CachesInSync' /\ SubsNested'
  BY <1>1, SameDrops DEF SameBuffers, CachesInSync, SubsNested
<1>2. CASE \/ CreateSurface(r) \/ CommitFaults(r) \/ DestroyFaults(r) \/ SetDesyncFaults(r)
           \/ \E pos \in Position : SetPosition(r, pos)
  BY <1>1, <1>2 DEF CreateSurface, CommitFaults, DestroyFaults, SetDesyncFaults, SetPosition,
     Fail, surfaceVars, subVars
<1>3. CASE AttachNull(r)
  <2>1. /\ UNCHANGED <<current, cached, sub, mode>>
        /\ pending' = [pending EXCEPT ![r] =
                         [pending[r] EXCEPT !.buffer = 0, !.newBuffer = TRUE]]
    BY <1>0, <1>3 DEF AttachNull, subVars
  <2>2. \A s \in Surface : pending'[s] = pending[s] \/ pending'[s].buffer = 0
    BY <1>0, <2>1, FieldsOf
  <2> QED
    BY <2>1, <2>2 DEF Drops, Fewer, CachesInSync, SubsNested
<1>4. ASSUME NEW b \in 1 .. MaxAttach, BufferDestroyed(r, b)
      PROVE  Drops /\ CachesInSync' /\ SubsNested'
  <2>1. UNCHANGED <<sub, mode>>
    BY <1>4 DEF BufferDestroyed
  <2>2. CASE pending' = [pending EXCEPT ![r] = [pending[r] EXCEPT !.buffer = 0]]
             /\ UNCHANGED <<current, cached>>
    <3>1. \A s \in Surface : pending'[s] = pending[s] \/ pending'[s].buffer = 0
      BY <1>0, <2>2, FieldsOf
    <3> QED
      BY <2>1, <2>2, <3>1 DEF Drops, Fewer, CachesInSync, SubsNested
  <2>3. CASE current' = [current EXCEPT ![r] = [current[r] EXCEPT !.buffer = 0]]
             /\ UNCHANGED <<pending, cached>>
    <3>1. \A s \in Surface : current'[s] = current[s] \/ current'[s].buffer = 0
      BY <1>0, <2>3, FieldsOf
    <3> QED
      BY <2>1, <2>3, <3>1 DEF Drops, Fewer, CachesInSync, SubsNested
  <2>4. CASE cached' = [cached EXCEPT ![r] = [cached[r] EXCEPT !.buffer = 0]]
             /\ UNCHANGED <<pending, current>>
    <3>1. \A s \in Surface : \/ cached'[s] = cached[s]
                             \/ cached'[s].buffer = 0 /\ cached'[s].newBuffer = cached[s].newBuffer
      BY <1>0, <2>4, FieldsOf
    <3> QED
      BY <2>1, <2>4, <3>1 DEF Drops, Fewer, CachesInSync, SubsNested
  <2> QED
    BY <1>0, <1>4, <2>2, <2>3, <2>4 DEF BufferDestroyed
<1>5. ASSUME NEW cb \in Callback, AddFrameCallback(r, cb)
      PROVE  Drops /\ CachesInSync' /\ SubsNested'
  <2>1. /\ UNCHANGED <<current, cached, sub, mode>>
        /\ pending' = [pending EXCEPT ![r] =
                         [pending[r] EXCEPT !.frames = pending[r].frames \cup {cb}]]
    BY <1>0, <1>5 DEF AddFrameCallback, subVars
  <2>2. SameBuffers
    BY <1>0, <2>1, FieldsOf DEF SameBuffers
  <2> QED
    BY <2>1, <2>2, SameDrops DEF CachesInSync, SubsNested
<1>6. CASE FrameRendered(r)
  <2>1. /\ UNCHANGED <<pending, cached, sub, mode>>
        /\ \A s \in Surface : current'[s] \in {current[s], [current[s] EXCEPT !.frames = {}]}
    BY <1>6 DEF FrameRendered, subVars
  <2>2. \A s \in Surface : [current[s] EXCEPT !.frames = {}].buffer = current[s].buffer
    BY <1>0 DEF ShownState
  <2>3. SameBuffers
    BY <2>1, <2>2 DEF SameBuffers
  <2> QED
    BY <2>1, <2>3, SameDrops DEF CachesInSync, SubsNested
<1>7. CASE DestroySurface(r)
  <2>1. /\ UNCHANGED <<sub, mode>> /\ cached' = CachedWithoutChild(r)
        /\ \A s \in Surface :
             /\ pending'[s] = IF s = r THEN Fresh({}) ELSE WithoutChild(pending, r)[s]
             /\ current'[s] = IF s = r THEN Blank ELSE WithoutChild(current, r)[s]
    BY <1>7 DEF DestroySurface, WithoutChild
  <2>2. ~Fresh({}).newBuffer /\ Blank.buffer = 0
    BY DEF Fresh, Blank
  <2>3. Drops
    BY <2>1, <2>2, WithoutDrops DEF Drops, Fewer
  <2>4. CachesInSync'
    BY <2>1, WithoutDrops DEF CachesInSync
  <2> QED
    BY <2>1, <2>3, <2>4 DEF SubsNested
<1>8. ASSUME NEW p \in Surface, CreateSubsurface(r, p)
      PROVE  Drops /\ CachesInSync' /\ SubsNested'
  <2>1. /\ <<r, p>> \in Nesting /\ sub' = sub \cup {r} /\ current' = current
        /\ mode' = [mode EXCEPT ![r] = "sync"]
        /\ pending' = [pending EXCEPT ![p] =
             [pending[p] EXCEPT !.kids = pending[p].kids \cup {r}, !.newKids = TRUE]]
    BY <1>0, <1>8 DEF CreateSubsurface
  <2>2. \A s \in Surface : \/ cached'[s] = Fresh({})
                           \/ cached'[s] = [cached[s] EXCEPT !.kids = cached[s].kids \cup {r}]
                           \/ cached'[s] = cached[s]
    BY <1>8 DEF CreateSubsurface
  <2>3. ~Fresh({}).newBuffer
    BY DEF Fresh
  <2>4. \A s \in Surface : /\ pending'[s].buffer = pending[s].buffer
                           /\ pending'[s].newBuffer = pending[s].newBuffer
    BY <1>0, <2>1, FieldsOf
  <2>5. \A s \in Surface : cached'[s].newBuffer => /\ cached[s].newBuffer
                                                   /\ cached'[s].buffer = cached[s].buffer
    <3> SUFFICES ASSUME NEW s \in Surface, cached'[s].newBuffer
                 PROVE  cached[s].newBuffer /\ cached'[s].buffer = cached[s].buffer
      OBVIOUS
    <3>1. PICK kids : kids = cached[s].kids \cup {r}
      OBVIOUS
    <3>2. PICK k : k = cached[s]
      OBVIOUS
    <3>3. k \in SurfaceState /\ cached'[s] \in {k, [k EXCEPT !.kids = kids]}
      BY <1>0, <2>2, <2>3, <3>1, <3>2
    <3>4. [k EXCEPT !.kids = kids].buffer = k.buffer /\ [k EXCEPT !.kids = kids].newBuffer = k.newBuffer
      BY <3>3 DEF SurfaceState
    <3> QED
      BY <3>2, <3>3, <3>4
  <2>6. Drops
    BY <2>1, <2>4, <2>5 DEF Drops, Fewer
  <2>7. CachesInSync'
    BY <1>0, <2>1, <2>5 DEF CachesInSync
  <2>8. SubsNested'
    BY <2>1 DEF SubsNested
  <2> QED
    BY <2>6, <2>7, <2>8
<1>9. CASE DestroySubsurface(r)
  <2>1. /\ sub' = sub \ {r} /\ mode' = [mode EXCEPT ![r] = "sync"]
        /\ pending' = WithoutChild(pending, r) /\ current' = WithoutChild(current, r)
    BY <1>9 DEF DestroySubsurface
  <2>2. \A s \in Surface : cached'[s] = IF s = r THEN Fresh({}) ELSE CachedWithoutChild(r)[s]
    BY <1>9 DEF DestroySubsurface, CachedWithoutChild
  <2>3. ~Fresh({}).newBuffer
    BY DEF Fresh
  <2>4. Drops
    BY <2>1, <2>2, <2>3, WithoutDrops DEF Drops, Fewer
  <2>5. CachesInSync'
    BY <1>0, <2>1, <2>2, <2>3, WithoutDrops DEF CachesInSync
  <2> QED
    BY <2>1, <2>4, <2>5 DEF SubsNested
<1>10. CASE SetSync(r)
  <2>1. /\ UNCHANGED <<pending, current, cached, sub>> /\ mode' = [mode EXCEPT ![r] = "sync"]
    BY <1>10 DEF SetSync, surfaceVars
  <2>2. Drops
    BY <2>1 DEF Drops, Fewer
  <2> QED
    BY <1>0, <2>1, <2>2 DEF CachesInSync, SubsNested
<1>11. CASE Restack(r)
  <2>1. /\ UNCHANGED <<current, cached, sub, mode>>
        /\ pending' = [pending EXCEPT ![parent[r]] = [pending[parent[r]] EXCEPT !.newKids = TRUE]]
        /\ parent[r] \in Surface
    BY <1>0, <1>11 DEF Restack, subVars, TypeOK
  <2>2. SameBuffers
    BY <1>0, <2>1, FieldsOf DEF SameBuffers
  <2> QED
    BY <2>1, <2>2, SameDrops DEF CachesInSync, SubsNested
<1> QED
  BY <1>2, <1>3, <1>4, <1>5, <1>6, <1>7, <1>8, <1>9, <1>10, <1>11 DEF SurfaceStep, SubsurfaceStep

LEMMA FlatNext ==
  Flat => (TypeOK /\ TypeOK' /\ Nested /\ HeldInv /\ OrderInv /\ [Next]_vars
             => OrderInv' /\ [\A s \in alive \cap alive' :
                                current'[s].buffer \in {0} \cup (current[s].buffer .. MaxAttach)]_vars)
<1> SUFFICES ASSUME Flat, TypeOK, TypeOK', Nested, HeldInv, OrderInv, [Next]_vars
             PROVE  /\ OrderInv'
                    /\ [\A s \in alive \cap alive' :
                          current'[s].buffer \in {0} \cup (current[s].buffer .. MaxAttach)]_vars
  OBVIOUS
<1>1. CASE UNCHANGED vars
  BY <1>1 DEF vars, surfaceVars, subVars, OrderInv, CachesInSync, SubsNested
<1>2. CASE Next
  <2>1. PICK r \in Surface : SurfaceStep(r) \/ SubsurfaceStep(r)
    BY <1>2 DEF Next
  <2>2. OrderInv' /\ NeverBack
    <3>1. CASE ~AttachBuffer(r) /\ ~CommitToCache(r) /\ ~CommitToCurrent(r) /\ ~SetDesync(r)
      BY <2>1, <3>1, FlatOther, DropsKeep
    <3> QED
      BY <3>1, FlatAttach, FlatCache, FlatCommit, FlatDesync
  <2>3. \A s \in Surface : current'[s].buffer \in 0 .. MaxAttach /\ current[s].buffer \in Nat
    BY BuffersNat DEF TypeOK, ShownState
  <2> QED
    BY <2>2, <2>3, MaxAttachAssumption DEF NeverBack, TypeOK
<1> QED
  BY <1>1, <1>2

(* Content never goes back to a buffer attached before the one shown, with *)
(* any number of subsurfaces that are not nested in each other.            *)
THEOREM NewestCorrect ==
  ASSUME Flat
  PROVE  Spec => NewestShown
<1>1. Init => Nested /\ OrderInv
  BY DEF Init, Nested, OrderInv, Rising, CachesInSync, SubsNested, Fresh, Blank
<1>2. TypeOK /\ TypeOK' /\ Nested /\ HeldInv /\ OrderInv /\ [Next]_vars
        => OrderInv' /\ [\A s \in alive \cap alive' :
                           current'[s].buffer \in {0} \cup (current[s].buffer .. MaxAttach)]_vars
  BY FlatNext
<1> QED
  BY TypeCorrect, HeldAlways, NestedNext, <1>1, <1>2, PTL DEF Spec, NewestShown
=============================================================================
