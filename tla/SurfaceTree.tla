----------------------------- MODULE SurfaceTree -----------------------------
(***************************************************************************)
(* The tree of wl_surface and wl_subsurface objects of the server library: *)
(* double-buffered state, the synchronized and desynchronized commit modes *)
(* of subsurfaces, frame callbacks and the destruction of either object    *)
(* (server/surface.cpp, server/subcompositor.cpp).                         *)
(*                                                                         *)
(* A surface and the wl_subsurface made for it share one name.  Of the     *)
(* surface state the model keeps what commits race over: the attached      *)
(* buffer (numbered as they are attached, 0 for none), the set of children *)
(* (their order is the subject of module Stacking), the frame callbacks    *)
(* and the position.  Undefined behaviour ends the run: `fault' records    *)
(* which pointer was followed.                                             *)
(***************************************************************************)
EXTENDS Integers, FiniteSets

CONSTANTS
  Surface,     \* names of wl_surface objects
  Callback,    \* names of wl_callback objects created by wl_surface.frame
  Position,    \* subsurface positions, 0 being QPoint(0, 0)
  Nesting,     \* the pairs <<child, parent>> clients ask get_subsurface for
  MaxAttach,   \* bound: buffers attached, to all surfaces together
  None         \* the null pointer

ASSUME NoneAssumption == None \notin Surface
ASSUME PositionAssumption == 0 \in Position /\ None \notin Position
ASSUME MaxAttachAssumption == MaxAttach \in Nat
ASSUME SurfaceAssumption == IsFiniteSet(Surface)

(* The server does not check for cycles (subcompositor.cpp:86); clients    *)
(* that keep the protocol never ask for one.                               *)
ASSUME NestingAssumption ==
  /\ Nesting \subseteq Surface \X Surface
  /\ \E rank \in [Surface -> 0 .. Cardinality(Surface)] :
       \A e \in Nesting : rank[e[2]] < rank[e[1]]

VARIABLES
  alive,       \* surfaces whose wl_surface resource exists
  attached,    \* number of buffers attached so far
  pending,     \* pending[s]: Surface::Private::pending
  current,     \* current[s]: Surface::Private::current
  sub,         \* surfaces a wl_subsurface object exists for
  parent,      \* parent[s]: Subsurface::Private::parent
  mode,        \* mode[s]: Subsurface::Private::mode
  cached,      \* cached[s]: Subsurface::Private::cached
  position,    \* position[s]: Subsurface::Private::pos
  wanted,      \* wanted[s]: scheduledPos when scheduledPosChange, else None
  asked,       \* history: asked[s] is the last position requested for s
  owner,       \* owner[cb]: surface of the live wl_callback resource cb
  fault        \* "none", or the invalid pointer that was dereferenced

surfaceVars == <<alive, attached, pending, current>>
subVars == <<sub, parent, mode, cached, position, wanted, asked>>
vars == <<surfaceVars, subVars, owner, fault>>

SurfaceState ==
  [buffer : 0 .. MaxAttach, newBuffer : BOOLEAN,
   kids : SUBSET Surface, newKids : BOOLEAN, frames : SUBSET Callback]
ShownState ==
  [buffer : 0 .. MaxAttach, kids : SUBSET Surface, frames : SUBSET Callback]

(* A default-constructed SurfaceState that was given a list of children.   *)
Fresh(kids) ==
  [buffer |-> 0, newBuffer |-> FALSE,
   kids |-> kids, newKids |-> FALSE, frames |-> {}]
Blank == [buffer |-> 0, kids |-> {}, frames |-> {}]

(* What is left of a state that was applied or moved on: the children.     *)
NotCleared(state, kids) == [state EXCEPT !.kids = kids]  \* mutated form of Cleared
Cleared(state, kids) == Fresh(kids)

-----------------------------------------------------------------------------
(* surface->subsurface() is set. *)
IsSub(s) == s \in sub /\ s \in alive

Height == Cardinality(Surface)

(* Subsurface::isSynchronized, for the modes md: the mode of s, or else    *)
(* that of the subsurfaces above it.                                       *)
Synced(md, s) ==
  LET upTo[n \in 0 .. Height] ==
        {x \in Surface :
           \/ md[x] = "sync"
           \/ /\ n > 0 /\ parent[x] # None /\ IsSub(parent[x])
              /\ parent[x] \in upTo[n - 1]}
  IN  s \in upTo[Height]

(* isSynchronized reads the parents of s upwards: one of them is freed.    *)
WalkDangles(s) ==
  LET upTo[n \in 0 .. Height, x \in Surface] ==
        /\ n > 0 /\ mode[x] = "desync" /\ parent[x] # None
        /\ \/ parent[x] \notin alive
           \/ IsSub(parent[x]) /\ upTo[n - 1, parent[x]]
  IN  upTo[Height, s]

Dangles(s) == parent[s] # None /\ parent[s] \notin alive

-----------------------------------------------------------------------------
(* What updateCurrentState makes of the current state `shown'.             *)
Merge(shown, source) ==
  [buffer |-> IF source.newBuffer THEN source.buffer ELSE shown.buffer,
   kids   |-> IF source.newKids THEN source.kids ELSE shown.kids,
   frames |-> shown.frames \cup source.frames]

(* The children applyCached goes on to from s: those of its cached state   *)
(* when that is applied, of its current state otherwise.                   *)
KidsAfter(md, s) ==
  IF Synced(md, s) THEN Merge(current[s], cached[s]).kids ELSE current[s].kids

(* The subsurfaces applyCached is called on when top becomes the list of   *)
(* children of the committed surface.  The parameter `force' is only true  *)
(* below a synchronized subsurface, whose children are synchronized too    *)
(* (KidsKnowParent), so that the applied ones are the synchronized ones.   *)
VisitedTop(md, top) == top  \* mutated form of Visited
Visited(md, top) ==
  LET down[n \in 0 .. Height] ==
        IF n = 0 THEN top
        ELSE down[n - 1] \cup UNION {KidsAfter(md, c) : c \in down[n - 1]}
  IN  down[Height]

(* The position of a visited subsurface: the scheduled one, if any.        *)
Moved(s) == IF wanted[s] # None THEN wanted[s] ELSE position[s]

(* updateCurrentState(source, force) on r, with the applyCached recursion. *)
(* Its assertion that a visited subsurface has a surface is a guard here;  *)
(* KidsKnowParent makes it true.                                           *)
ApplyFrom(md, shown, r, source, others) ==
  LET top == Merge(shown[r], source)
      visited == Visited(md, top.kids)
      synced == {c \in visited : Synced(md, c)}
  IN  /\ \A c \in visited : IsSub(c)
      /\ current' = [s \in Surface |->
                       IF s = r THEN top
                       ELSE IF s \in synced THEN Merge(shown[s], cached[s])
                       ELSE shown[s]]
      /\ cached' = [s \in Surface |->
                      IF s \in synced
                        THEN Cleared(cached[s], Merge(shown[s], cached[s]).kids)
                        ELSE others[s]]
      /\ position' = [s \in Surface |->
                        IF s \in visited THEN Moved(s) ELSE position[s]]
      /\ wanted' = [s \in Surface |-> IF s \in visited THEN None ELSE wanted[s]]

-----------------------------------------------------------------------------
TypeOK ==
  /\ alive \in SUBSET Surface
  /\ attached \in 0 .. MaxAttach
  /\ pending \in [Surface -> SurfaceState]
  /\ current \in [Surface -> ShownState]
  /\ sub \in SUBSET Surface
  /\ parent \in [Surface -> Surface \cup {None}]
  /\ mode \in [Surface -> {"sync", "desync"}]
  /\ cached \in [Surface -> SurfaceState]
  /\ position \in [Surface -> Position]
  /\ wanted \in [Surface -> Position \cup {None}]
  /\ asked \in [Surface -> Position]
  /\ owner \in [Callback -> Surface \cup {None}]
  /\ fault \in {"none", "null_parent", "freed_parent"}

Init ==
  /\ alive = {}
  /\ attached = 0
  /\ pending = [s \in Surface |-> Fresh({})]
  /\ current = [s \in Surface |-> Blank]
  /\ sub = {}
  /\ parent = [s \in Surface |-> None]
  /\ mode = [s \in Surface |-> "sync"]
  /\ cached = [s \in Surface |-> Fresh({})]
  /\ position = [s \in Surface |-> 0]
  /\ wanted = [s \in Surface |-> None]
  /\ asked = [s \in Surface |-> 0]
  /\ owner = [cb \in Callback |-> None]
  /\ fault = "none"

Fail(what) == fault' = what /\ UNCHANGED <<surfaceVars, subVars, owner>>

(* wl_compositor.create_surface, for a name nothing refers to any more.    *)
CreateSurface(s) ==
  /\ s \notin alive \cup sub
  /\ \A x \in Surface : parent[x] # s
  /\ \A cb \in Callback : owner[cb] # s
  /\ alive' = alive \cup {s}
  /\ UNCHANGED <<attached, pending, current, subVars, owner, fault>>

(* wl_surface.attach of a new buffer, and of NULL. *)
AttachBuffer(s) ==
  /\ s \in alive
  /\ attached < MaxAttach
  /\ attached' = attached + 1
  /\ pending' = [pending EXCEPT ![s].buffer = attached',
                                ![s].newBuffer = TRUE]
  /\ UNCHANGED <<alive, current, subVars, owner, fault>>

AttachNull(s) ==
  /\ s \in alive
  /\ pending' = [pending EXCEPT ![s].buffer = 0, ![s].newBuffer = TRUE]
  /\ UNCHANGED <<alive, attached, current, subVars, owner, fault>>

(* The client destroys the wl_buffer: the first state holding it drops it. *)
BufferDestroyed(s, b) ==
  /\ s \in alive
  /\ b # 0
  /\ \/ /\ pending[s].buffer = b
        /\ pending' = [pending EXCEPT ![s].buffer = 0]
        /\ UNCHANGED <<current, cached>>
     \/ /\ pending[s].buffer # b
        /\ current[s].buffer = b
        /\ current' = [current EXCEPT ![s].buffer = 0]
        /\ UNCHANGED <<pending, cached>>
     \/ /\ pending[s].buffer # b /\ current[s].buffer # b
        /\ IsSub(s) /\ cached[s].buffer = b
        /\ cached' = [cached EXCEPT ![s].buffer = 0]
        /\ UNCHANGED <<pending, current>>
  /\ UNCHANGED <<alive, attached, sub, parent, mode, position, wanted, asked, owner, fault>>

(* wl_surface.frame *)
AddFrameCallback(s, cb) ==
  /\ s \in alive
  /\ owner[cb] = None
  /\ owner' = [owner EXCEPT ![cb] = s]
  /\ pending' = [pending EXCEPT ![s].frames = @ \cup {cb}]
  /\ UNCHANGED <<alive, attached, current, subVars, fault>>

(* wl_surface.commit of a synchronized subsurface: pending replaces cached.*)
CommitToCache(s) ==
  /\ IsSub(s)
  /\ ~WalkDangles(s) /\ Synced(mode, s)
  /\ cached' = [cached EXCEPT ![s] = pending[s]]
  /\ pending' = [pending EXCEPT ![s] = Cleared(@, @.kids)]
  /\ UNCHANGED <<alive, attached, current, sub, parent, mode, position, wanted,
                 asked, owner, fault>>

(* wl_surface.commit of any other surface: pending is applied to current.  *)
OwnModeOnly(s) == IsSub(s) => mode[s] = "desync"  \* mutated form of CommitsDirectly
CommitsDirectly(s) == IsSub(s) => ~Synced(mode, s)

CommitToCurrent(s) ==
  /\ s \in alive
  /\ IsSub(s) => ~WalkDangles(s)
  /\ CommitsDirectly(s)
  /\ ApplyFrom(mode, current, s, pending[s], cached)
  /\ pending' = [pending EXCEPT ![s] = Cleared(@, Merge(current[s], @).kids)]
  /\ UNCHANGED <<alive, attached, sub, parent, mode, asked, owner, fault>>

CommitFaults(s) ==
  /\ IsSub(s) /\ WalkDangles(s)
  /\ Fail("freed_parent")

Commit(s) == CommitToCache(s) \/ CommitToCurrent(s) \/ CommitFaults(s)

(* The compositor calls frameRendered on a surface after presenting it.    *)
ShownBelow(s) ==
  LET down[n \in 0 .. Height] ==
        IF n = 0 THEN {s}
        ELSE down[n - 1] \cup UNION {current[c].kids : c \in down[n - 1]}
  IN  down[Height]
FrameRendered(s) ==
  /\ s \in alive
  /\ LET tree == ShownBelow(s)
         sent == UNION {current[c].frames : c \in tree \cap alive}
     IN  /\ current' = [c \in Surface |->
                          IF c \in tree THEN [current[c] EXCEPT !.frames = {}]
                          ELSE current[c]]
         /\ owner' = [cb \in Callback |-> IF cb \in sent THEN None ELSE owner[cb]]
  /\ UNCHANGED <<alive, attached, pending, subVars, fault>>

-----------------------------------------------------------------------------
(* wl_subcompositor.get_subsurface.  That the surface has no subsurface    *)
(* yet is not checked (subcompositor.cpp:85), but kept by clients that     *)
(* keep the protocol, as Nesting is.                                       *)
CreateSubsurface(s, p) ==
  /\ <<s, p>> \in Nesting
  /\ s \in alive /\ p \in alive /\ s \notin sub
  /\ sub' = sub \cup {s}
  /\ parent' = [parent EXCEPT ![s] = p]
  /\ mode' = [mode EXCEPT ![s] = "sync"]
  /\ cached' = [x \in Surface |->
                  IF x = s THEN Fresh({})
                  ELSE IF x = p /\ p \in sub
                    THEN [cached[p] EXCEPT !.kids = @ \cup {s}]
                  ELSE cached[x]]
  /\ pending' = [pending EXCEPT ![p].kids = @ \cup {s}, ![p].newKids = TRUE]
  /\ position' = [position EXCEPT ![s] = 0]
  /\ wanted' = [wanted EXCEPT ![s] = None]
  /\ asked' = [asked EXCEPT ![s] = 0]
  /\ UNCHANGED <<alive, attached, current, owner, fault>>

(* Surface::Private::removeChild on the parent of s, for its pending and   *)
(* current states and for the cached state of its own wl_subsurface.       *)
RemoveKid(state, s) == [state EXCEPT !.kids = @ \ {s}]
WithoutChild(states, s) ==
  [x \in Surface |-> IF x = parent[s] THEN RemoveKid(states[x], s) ELSE states[x]]
CachedUntouched(s) == cached  \* mutated form of CachedWithoutChild
CachedWithoutChild(s) ==
  [x \in Surface |->
     IF x = parent[s] /\ x \in sub THEN RemoveKid(cached[x], s) ELSE cached[x]]

(* wl_subsurface.destroy: Subsurface::~Subsurface. *)
DestroySubsurface(s) ==
  /\ s \in sub
  /\ ~Dangles(s)
  /\ pending' = WithoutChild(pending, s)
  /\ current' = WithoutChild(current, s)
  /\ cached' = [CachedWithoutChild(s) EXCEPT ![s] = Fresh({})]
  /\ sub' = sub \ {s}
  /\ parent' = [parent EXCEPT ![s] = None]
  /\ mode' = [mode EXCEPT ![s] = "sync"]
  /\ position' = [position EXCEPT ![s] = 0]
  /\ wanted' = [wanted EXCEPT ![s] = None]
  /\ asked' = [asked EXCEPT ![s] = 0]
  /\ UNCHANGED <<alive, attached, owner, fault>>

(* The children that ~Private lets forget their parent. *)
LinkedKids(s) == current[s].kids \cup pending[s].kids

(* wl_surface.destroy: resourceDestroyed unlinks the subsurface of s, then *)
(* ~Private destroys the callbacks of current and pending and lets the     *)
(* children in these two lists forget their parent.                        *)
DestroySurface(s) ==
  /\ s \in alive
  /\ ~Dangles(s)
  /\ pending' = [WithoutChild(pending, s) EXCEPT ![s] = Fresh({})]
  /\ current' = [WithoutChild(current, s) EXCEPT ![s] = Blank]
  /\ cached' = CachedWithoutChild(s)
  /\ parent' = [x \in Surface |->
                  IF x = s \/ x \in LinkedKids(s) THEN None ELSE parent[x]]
  /\ owner' = [cb \in Callback |->
                 IF cb \in current[s].frames \cup pending[s].frames THEN None
                 ELSE owner[cb]]
  /\ alive' = alive \ {s}
  /\ UNCHANGED <<attached, sub, mode, position, wanted, asked, fault>>

DestroyFaults(s) ==
  /\ s \in sub /\ Dangles(s)
  /\ Fail("freed_parent")

(* wl_subsurface.set_sync *)
SetSync(s) ==
  /\ s \in sub /\ mode[s] = "desync"
  /\ mode' = [mode EXCEPT ![s] = "sync"]
  /\ UNCHANGED <<surfaceVars, sub, parent, cached, position, wanted, asked,
                 owner, fault>>

(* The parent is in effect desynchronized. *)
NeverAtOnce(p) == FALSE  \* mutated form of AppliesAtOnce
AppliesAtOnce(p) == ~(IsSub(p) /\ Synced(mode, p))

(* wl_subsurface.set_desync.  The mode changes; unless the parent is       *)
(* synchronized, the cached state is applied at once.                      *)
SetDesync(s) ==
  /\ s \in sub /\ mode[s] = "sync"
  /\ parent[s] \in alive
  /\ ~(parent[s] \in sub /\ WalkDangles(parent[s]))
  /\ LET p == parent[s]
         md == [mode EXCEPT ![s] = "desync"]
     IN  /\ mode' = md
         /\ \/ /\ ~AppliesAtOnce(p)
               /\ UNCHANGED <<current, cached, position, wanted>>
            \/ /\ AppliesAtOnce(p)
               /\ LET shown == [current EXCEPT ![p].kids = @ \cup {s}]
                  IN  ApplyFrom(md, shown, s, cached[s],
                        [cached EXCEPT ![s] = Cleared(@, Merge(shown[s], @).kids)])
  /\ UNCHANGED <<alive, attached, pending, sub, parent, asked, owner, fault>>

(* parent->subsurface() on a null or a freed parent. *)
SetDesyncFaults(s) ==
  /\ s \in sub /\ mode[s] = "sync"
  /\ \/ parent[s] = None /\ Fail("null_parent")
     \/ Dangles(s) /\ Fail("freed_parent")
     \/ /\ parent[s] \in alive /\ parent[s] \in sub /\ WalkDangles(parent[s])
        /\ Fail("freed_parent")

(* wl_subsurface.set_position: the position already in force is ignored.   *)
SetPosition(s, pos) ==
  /\ s \in sub
  /\ asked' = [asked EXCEPT ![s] = pos]
  /\ wanted' = IF position[s] = pos THEN wanted ELSE [wanted EXCEPT ![s] = pos]
  /\ UNCHANGED <<surfaceVars, sub, parent, mode, cached, position, owner, fault>>

(* wl_subsurface.place_above and place_below next to a sibling or the      *)
(* parent: with the order abstracted, the children flag is what is left.   *)
Restack(s) ==
  /\ s \in sub /\ parent[s] \in alive
  /\ s \in pending[parent[s]].kids
  /\ Cardinality(pending[parent[s]].kids) > 1
  /\ pending' = [pending EXCEPT ![parent[s]].newKids = TRUE]
  /\ UNCHANGED <<alive, attached, current, subVars, owner, fault>>

SurfaceStep(s) ==
  \/ CreateSurface(s)
  \/ AttachBuffer(s)
  \/ AttachNull(s)
  \/ \E b \in 1 .. MaxAttach : BufferDestroyed(s, b)
  \/ \E cb \in Callback : AddFrameCallback(s, cb)
  \/ CommitToCache(s)
  \/ CommitToCurrent(s)
  \/ CommitFaults(s)
  \/ FrameRendered(s)
  \/ DestroySurface(s)

SubsurfaceStep(s) ==
  \/ \E p \in Surface : CreateSubsurface(s, p)
  \/ DestroySubsurface(s)
  \/ DestroyFaults(s)
  \/ SetSync(s)
  \/ SetDesync(s)
  \/ SetDesyncFaults(s)
  \/ \E pos \in Position : SetPosition(s, pos)
  \/ Restack(s)

Next ==
  /\ fault = "none"
  /\ \E s \in Surface : SurfaceStep(s) \/ SubsurfaceStep(s)

Spec == Init /\ [][Next]_vars

-----------------------------------------------------------------------------
(* The states of s that are in use: cached belongs to its wl_subsurface.   *)
KidsOf(s) ==
  current[s].kids \cup pending[s].kids \cup (IF s \in sub THEN cached[s].kids ELSE {})

(* Whatever list of a live surface a child is in, the child has its        *)
(* surface and points back to that surface: the assertion of applyCached   *)
(* and the surface that frameRendered and commits follow down are there    *)
(* (subcompositor.cpp:151, surface.cpp:386).                               *)
KidsKnowParent ==
  \A s \in alive : \A c \in KidsOf(s) :
    c \in sub /\ c \in alive /\ parent[c] = s

(* A listed frame callback is a live resource of that surface, listed only *)
(* once: frameRendered and ~Private never destroy a wl_callback twice      *)
(* (surface.cpp:377, surface.cpp:61).                                      *)
CallbacksListedOnce ==
  \A s \in alive :
    LET kept == IF s \in sub THEN cached[s].frames ELSE {}
    IN  /\ \A cb \in pending[s].frames \cup current[s].frames \cup kept :
             owner[cb] = s
        /\ pending[s].frames \cap current[s].frames = {}
        /\ (pending[s].frames \cup current[s].frames) \cap kept = {}

(* A buffer is held by one state of its surface, so that the else-if chain *)
(* run when the wl_buffer goes away forgets every use of it                *)
(* (surface.cpp:754).                                                      *)
BufferHeldOnce ==
  \A s \in alive :
    LET holders == {pending[s].buffer, current[s].buffer} \ {0}
    IN  /\ pending[s].buffer = current[s].buffer => pending[s].buffer = 0
        /\ s \in sub => cached[s].buffer \notin holders

(* What a client attaches to a surface is in one of its states only        *)
(* (surface.cpp:670).                                                      *)
HeldOnce == CallbacksListedOnce /\ BufferHeldOnce

(* Surfaces above s. *)
Above(s) ==
  LET up[n \in 0 .. Height] ==
        IF n = 0 THEN {s}
        ELSE up[n - 1] \cup ({parent[x] : x \in up[n - 1]} \ {None})
  IN  up[Height] \ {s}

(* A synchronized subsurface shows new content only in a step in which a   *)
(* surface above it applies its own state: a commit, or a switch to        *)
(* desynchronized mode (autotests/client/subsurface.cpp:651).              *)
SyncedWaitsForParent ==
  [][\A s \in sub :
       /\ Synced(mode, s) /\ Synced(mode, s)'
       /\ current'[s].buffer \notin {current[s].buffer, 0}
       => \E r \in Above(s) : CommitToCurrent(r) \/ SetDesync(r)]_vars

Idle(state) == ~state.newBuffer /\ ~state.newKids /\ state.frames = {}

(* When a surface shows a new buffer, the synchronized children it shows   *)
(* have their committed state applied in the same step: no frame mixes old *)
(* and new content (surface.cpp:673).                                      *)
NoTornFrame ==
  [][\A p \in alive :
       current'[p].buffer \notin {current[p].buffer, 0}
       => \A c \in current'[p].kids : Synced(mode, c)' => Idle(cached'[c])]_vars

(* A desynchronized subsurface has no committed state left in its cache    *)
(* (autotests/client/subsurface.cpp:783).                                  *)
DesyncAppliesCache ==
  \A s \in Surface : IsSub(s) /\ ~Synced(mode, s) => Idle(cached[s])

(* Content never goes back to a buffer attached before the one shown.      *)
NewestShown ==
  [][\A s \in alive \cap alive' :
       current'[s].buffer \in {0} \cup (current[s].buffer .. MaxAttach)]_vars

(* A wl_subsurface never keeps a pointer to a destroyed parent             *)
(* (surface.cpp:84).                                                       *)
ParentsAlive == \A s \in sub : ~Dangles(s)

(* A subsurface whose parent is gone stays usable, being inert             *)
(* (subcompositor.cpp:121).                                                *)
InertWithoutParent == fault # "null_parent"

(* The callbacks of a subsurface wait in one of its states: none is        *)
(* dropped before its done event (autotests/client/subsurface.cpp:694).    *)
NoCallbackDropped ==
  \A cb \in Callback :
    LET s == owner[cb]
    IN  s \in alive \cap sub =>
          cb \in pending[s].frames \cup cached[s].frames \cup current[s].frames

(* No wl_callback outlives its surface (surface.cpp:63). *)
CallbacksDieWithSurface ==
  \A cb \in Callback : owner[cb] \in alive \cup {None}

(* The position in force or scheduled is the last one requested            *)
(* (src/client/subsurface.h:100).                                          *)
LastPositionWins ==
  \A s \in sub : asked[s] = IF wanted[s] = None THEN position[s] ELSE wanted[s]
=============================================================================
