----------------------------- MODULE PointerPool -----------------------------
(***************************************************************************)
(* Pointer input of a seat: the pointer_pool (server/pointer_pool.cpp),    *)
(* the Pointer objects of its clients with the surface each believes to be *)
(* focused on (server/pointer.cpp), buttons and the drags they start and   *)
(* drop, and gestures (server/pointer_gestures_v1.cpp).  The pool comes    *)
(* and goes with the capability of the seat, the Pointers outlive it.      *)
(* Position, motion, axes and the cursor change none of this and are left  *)
(* out.                                                                    *)
(*                                                                         *)
(* Using a destroyed pool ends the run and is recorded in `fault'.         *)
(***************************************************************************)
EXTENDS Integers, FiniteSets

CONSTANTS
  Surface,       \* names of wl_surface objects
  Pointer,       \* names of wl_pointer objects
  Gesture,       \* names of gesture objects
  Kind,          \* kinds of gestures
  KindOf,        \* the kind of each gesture object
  PointerOf,     \* the pointer each gesture object is made for
  ClientOf,      \* the client of each surface and pointer
  Button,
  MaxSerials,    \* bound: presses and releases, each with a serial of its own
  SharedButtons, \* whether a button may be pressed while it is, by another mouse
  None           \* the null pointer

(* What is assumed of the constants.                                       *)
Assumptions ==
  /\ None \notin Surface /\ MaxSerials \in Nat /\ SharedButtons \in BOOLEAN
  /\ Surface \cup Pointer \subseteq DOMAIN ClientOf
  /\ KindOf \in [Gesture -> Kind] /\ PointerOf \in [Gesture -> Pointer]

VARIABLES
  hasPool,      \* whether seat.pointers holds a pool
  surfaces,     \* the surfaces that exist
  pointers,     \* the Pointers that exist
  devices,      \* pointer_pool::devices
  focus,        \* pointer_pool::focus.surface
  focusDevices, \* pointer_pool::focus.devices
  focused,      \* focused[p]: Pointer::Private::focusedSurface
  pressed,      \* buttons whose state in buttonStates is pressed
  serialOf,     \* buttonSerials, 0 for none
  serials,      \* number of presses and releases so far
  drag,         \* source.serial of the pointer drag in progress, 0 for none
  origin,       \* source.surfaces.origin of the drag
  epoch,        \* serials when the pool was made
  gestures,     \* gesture objects that are registered with their pointer
  begun,        \* those of them that were sent a begin, and no end yet
  gesture,      \* pointer_pool::gesture.surface
  orphans,      \* surfaces whose end runs cleanup_gesture of a destroyed pool
  fault         \* "none" or "destroyed_pool"

focusVars == <<focus, focusDevices, focused>>
buttonVars == <<pressed, serialOf, serials>>
dragVars == <<drag, origin>>
gestureVars == <<gestures, begun, gesture, orphans>>
poolVars == <<hasPool, epoch, devices>>
vars == <<poolVars, surfaces, pointers, focusVars, buttonVars, dragVars, gestureVars, fault>>

TypeOK ==
  /\ hasPool \in BOOLEAN /\ epoch \in 0 .. serials
  /\ surfaces \subseteq Surface /\ pointers \subseteq Pointer
  /\ devices \subseteq Pointer /\ focusDevices \subseteq Pointer
  /\ focus \in Surface \cup {None} /\ focused \in [Pointer -> Surface \cup {None}]
  /\ pressed \subseteq Button /\ serialOf \in [Button -> 0 .. serials]
  /\ serials \in 0 .. MaxSerials
  /\ drag \in 0 .. serials /\ origin \in Surface \cup {None}
  /\ gestures \subseteq Gesture /\ begun \subseteq gestures
  /\ gesture \in Surface \cup {None} /\ orphans \subseteq Surface
  /\ fault \in {"none", "destroyed_pool"}

Init ==
  /\ hasPool = TRUE /\ epoch = 0 /\ devices = {}
  /\ surfaces = Surface /\ pointers = {}
  /\ focus = None /\ focusDevices = {}
  /\ focused = [p \in Pointer |-> None]
  /\ pressed = {} /\ serialOf = [b \in Button |-> 0] /\ serials = 0
  /\ drag = 0 /\ origin = None
  /\ gestures = {} /\ begun = {} /\ gesture = None /\ orphans = {}
  /\ fault = "none"

(* interfacesForSurface, forEachInterface *)
DevicesOf(s, among) ==
  IF s = None THEN {} ELSE {p \in among : ClientOf[p] = ClientOf[s]}

-----------------------------------------------------------------------------
(* wl_seat.get_pointer: a pointer of the focused client joins the focus.   *)
CreateDevice(p) ==
  LET joins == DevicesOf(focus, {p})
  IN  /\ hasPool /\ p \notin pointers
      /\ pointers' = pointers \cup {p}
      /\ devices' = devices \cup {p}
      /\ focusDevices' = focusDevices \cup joins
      /\ focused' = [focused EXCEPT ![p] = IF joins = {} THEN None ELSE focus]
      /\ UNCHANGED <<hasPool, epoch, surfaces, focus, buttonVars, dragVars, gestureVars, fault>>

OnlyDevices(p) == focusDevices  \* mutated form of FocusWithout
FocusWithout(p) == focusDevices \ {p}

(* Gesture objects of a destroyed pointer are reached no more.             *)
GesturesWithout(gone) ==
  /\ gestures' = {g \in gestures : PointerOf[g] \notin gone}
  /\ begun' = {g \in begun : PointerOf[g] \notin gone}

DestroyDevice(p) ==
  /\ p \in pointers
  /\ pointers' = pointers \ {p}
  /\ devices' = devices \ {p}
  /\ focusDevices' = FocusWithout(p)
  /\ focused' = [focused EXCEPT ![p] = None]
  /\ GesturesWithout({p})
  /\ UNCHANGED <<hasPool, epoch, surfaces, focus, buttonVars, dragVars, gesture, orphans, fault>>

(* Seat::setHasPointer.  The destructor of the pool disconnects the slots  *)
(* of focus and devices, not the one on the surface of a gesture.          *)
SetHasPointer ==
  /\ hasPool' = ~hasPool
  /\ epoch' = serials
  /\ devices' = {} /\ focus' = None /\ focusDevices' = {}
  /\ pressed' = {} /\ serialOf' = [b \in Button |-> 0]
  /\ gesture' = None
  /\ orphans' = IF gesture = None THEN orphans ELSE orphans \cup {gesture}
  /\ UNCHANGED <<surfaces, pointers, focused, serials, dragVars, gestures, begun, fault>>

-----------------------------------------------------------------------------
AlwaysMayFocus == TRUE  \* mutated form of MayFocus
MayFocus == drag = 0

SetFocusedSurface(s) ==
  LET to == DevicesOf(s, devices)
  IN  /\ hasPool /\ MayFocus
      /\ focus' = s
      /\ focusDevices' = to
      /\ focused' = [p \in Pointer |-> IF p \in to THEN s
                                       ELSE IF p \in focusDevices THEN None ELSE focused[p]]
      /\ UNCHANGED <<poolVars, surfaces, pointers, buttonVars, dragVars, gestureVars, fault>>

KeepGesture(gone) == gesture  \* mutated form of GestureWithout
GestureWithout(gone) == IF gesture \in gone THEN None ELSE gesture

(* Surfaces go, one or all of a client: the slots of the pool, of each     *)
(* Pointer and of the running gesture, and those left by earlier pools.    *)
SurfacesGone(gone) ==
  /\ surfaces' = surfaces \ gone
  /\ focus' = IF focus \in gone THEN None ELSE focus
  /\ gesture' = GestureWithout(gone)
  /\ orphans' = orphans \ gone
  /\ fault' = IF orphans \cap gone # {} THEN "destroyed_pool" ELSE fault

DestroySurface(s) ==
  /\ SurfacesGone({s})
  /\ focusDevices' = IF focus = s THEN {} ELSE focusDevices
  /\ focused' = [p \in Pointer |-> IF focused[p] = s THEN None ELSE focused[p]]
  /\ UNCHANGED <<poolVars, pointers, buttonVars, dragVars, gestures, begun>>

Disconnect(client) ==
  LET mine == {p \in pointers : ClientOf[p] = client}
  IN  /\ SurfacesGone({s \in surfaces : ClientOf[s] = client})
      /\ pointers' = pointers \ mine /\ devices' = devices \ mine
      /\ focusDevices' = focusDevices \ mine
      /\ focused' = [p \in Pointer |-> IF p \in mine THEN None ELSE focused[p]]
      /\ GesturesWithout(mine)
      /\ UNCHANGED <<hasPool, epoch, buttonVars, dragVars>>

-----------------------------------------------------------------------------
ButtonPressed(b) ==
  /\ hasPool /\ serials < MaxSerials
  /\ b \in pressed => SharedButtons
  /\ serials' = serials + 1
  /\ serialOf' = [serialOf EXCEPT ![b] = serials + 1]
  /\ pressed' = pressed \cup {b}
  /\ UNCHANGED <<poolVars, surfaces, pointers, focusVars, dragVars, gestureVars, fault>>

(* The button whose press started the drag drops it.                       *)
NewSerialDrops(b) == drag # 0 /\ drag = serials + 1  \* mutated form of Drops
Drops(b) == drag # 0 /\ drag = serialOf[b]

EndsDrag == drag' = 0 /\ origin' = None

ButtonReleased(b) ==
  /\ hasPool /\ serials < MaxSerials /\ b \in pressed
  /\ serials' = serials + 1
  /\ serialOf' = [serialOf EXCEPT ![b] = serials + 1]
  /\ pressed' = pressed \ {b}
  /\ IF Drops(b) THEN EndsDrag ELSE UNCHANGED dragVars
  /\ UNCHANGED <<poolVars, surfaces, pointers, focusVars, gestureVars, fault>>

HasImplicitGrab(serial) == \E b \in pressed : serialOf[b] = serial

(* wl_data_device.start_drag from the focused surface, also in a drag.     *)
StartDrag(serial) ==
  /\ hasPool /\ HasImplicitGrab(serial) /\ focus # None
  /\ drag' = serial /\ origin' = focus
  /\ UNCHANGED <<poolVars, surfaces, pointers, focusVars, buttonVars, gestureVars, fault>>

(* The source of the drag is destroyed, or the compositor cancels.         *)
EndDrag ==
  /\ drag # 0
  /\ EndsDrag
  /\ UNCHANGED <<poolVars, surfaces, pointers, focusVars, buttonVars, gestureVars, fault>>

-----------------------------------------------------------------------------
Register(g) ==
  /\ g \notin gestures /\ PointerOf[g] \in pointers
  /\ gestures' = gestures \cup {g}
  /\ UNCHANGED <<poolVars, surfaces, pointers, focusVars, buttonVars, dragVars, begun, gesture,
                 orphans, fault>>

DestroyGesture(g) ==
  /\ g \in gestures
  /\ gestures' = gestures \ {g} /\ begun' = begun \ {g}
  /\ UNCHANGED <<poolVars, surfaces, pointers, focusVars, buttonVars, dragVars, gesture,
                 orphans, fault>>

(* The gesture objects of a kind with the pointers of the gesture surface. *)
Addressed(kind, s) ==
  {g \in gestures : KindOf[g] = kind /\ PointerOf[g] \in DevicesOf(s, devices)}

(* start_{swipe,pinch,hold}_gesture *)
StartGesture(kind) ==
  /\ hasPool /\ gesture = None /\ focus # None
  /\ gesture' = focus
  /\ begun' = begun \cup Addressed(kind, focus)
  /\ UNCHANGED <<poolVars, surfaces, pointers, focusVars, buttonVars, dragVars, gestures,
                 orphans, fault>>

(* end_ and cancel_{swipe,pinch,hold}_gesture: of any kind, whichever runs *)
EndGesture(kind) ==
  /\ hasPool /\ gesture # None
  /\ begun' = begun \ Addressed(kind, gesture)
  /\ gesture' = None
  /\ UNCHANGED <<poolVars, surfaces, pointers, focusVars, buttonVars, dragVars, gestures,
                 orphans, fault>>

Next ==
  /\ fault = "none"
  /\ \/ \E p \in Pointer : CreateDevice(p) \/ DestroyDevice(p)
     \/ SetHasPointer
     \/ \E s \in surfaces \cup {None} : SetFocusedSurface(s)
     \/ \E s \in surfaces : DestroySurface(s)
     \/ \E c \in {ClientOf[s] : s \in surfaces} : Disconnect(c)
     \/ \E b \in Button : ButtonPressed(b) \/ ButtonReleased(b)
     \/ \E serial \in 1 .. serials : StartDrag(serial)
     \/ EndDrag
     \/ \E g \in Gesture : Register(g) \/ DestroyGesture(g)
     \/ \E k \in Kind : StartGesture(k) \/ EndGesture(k)

Spec == Init /\ [][Next]_vars

-----------------------------------------------------------------------------
(* The pool and its Pointers agree on who is focused, and on what: those   *)
(* of the client of the focused surface, each on that surface; each other  *)
(* was sent a leave.  Buttons, axes and motion rely on it by assertions    *)
(* (pointer.cpp:304, 312, 395), with pointers, surfaces, clients and pools *)
(* that come and go in any order.                                          *)
PointersAgree ==
  /\ focusDevices = DevicesOf(focus, devices)
  /\ devices \subseteq pointers
  /\ \A p \in devices : focused[p] = IF p \in focusDevices THEN focus ELSE None

(* No pointer to a surface is left when it goes: the pool's two, the one   *)
(* of each Pointer, and that of the drag as far as motion follows it,      *)
(* although no slot clears it (pointer.cpp:400).                           *)
SurfacesAlive ==
  /\ {focus, gesture} \subseteq surfaces \cup {None}
  /\ \A p \in pointers : focused[p] \in surfaces \cup {None}
  /\ drag # 0 /\ focusDevices # {} => origin \in surfaces

(* A pointer drag ends no later than its button, as long as the seat keeps *)
(* its pool and buttons are not shared: no drag is left that swallows all  *)
(* pointer input and that no release drops (pointer_pool.cpp:274).         *)
DragButtonHeld == drag > epoch => HasImplicitGrab(drag)

(* A gesture that began ends before the next one of its object begins, and *)
(* every end has a begin: the client waits for "A gesture ended."          *)
(* (src/client/pointergestures.h:340).                                     *)
GesturesPaired == begun # {} => gesture # None

(* A pool that is gone is not used: its destructor disconnects what calls  *)
(* it (pointer_pool.cpp:64).                                               *)
PoolAlive == fault # "destroyed_pool"
=============================================================================
