------------------------------ MODULE TouchPool ------------------------------
(***************************************************************************)
(* Touch sequences from the compositor to the clients: the touch_pool of a *)
(* seat (server/touch_pool.cpp, seat_p.h) with the touch drags that hang   *)
(* on its points, and what the Touch objects of the client library make of *)
(* the events (client/touch.cpp).  Events arrive in order and nothing the  *)
(* client does depends on how late they are, so that a step sends and      *)
(* delivers them.  Motion and frame events change no state and are left    *)
(* out.                                                                    *)
(*                                                                         *)
(* A failed assertion ends the run and is recorded in `fault'.             *)
(***************************************************************************)
EXTENDS Integers, FiniteSets, Functions

CONSTANTS
  Surface,    \* names of wl_surface objects
  Device,     \* names of wl_touch objects
  Pointer,    \* the wl_pointer objects, all bound from the start
  ClientOf,   \* the client of each of these
  MaxTouch,   \* bound: touch points in all, each with a serial of its own
  None        \* the null pointer

(* What is assumed of the constants.                                       *)
Assumptions ==
  /\ None \notin Surface
  /\ MaxTouch \in Nat
  /\ Surface \cup Device \cup Pointer \subseteq DOMAIN ClientOf

VARIABLES
  hasTouch,     \* whether seat.touches holds a pool
  hasPointer,   \* whether seat.pointers does, which stays so
  pointerFocus, \* the focused surface of the pointer pool
  surfaces,     \* the surfaces that exist
  bound,        \* the wl_touch objects that exist
  devices,      \* touch_pool::devices
  focus,        \* touch_pool::focus.surface
  focused,      \* touch_pool::focus.devices
  ids,          \* touch_pool::ids, the serial of each id in use
  serials,      \* number of touch points so far
  drag,         \* serial of the touch drag in progress, 0 for none
  active,       \* client: active[d], whether a sequence is going on
  down,         \* client: the points of sequence[d] that say isDown()
  fault         \* "none", or the assertion that failed

poolVars == <<devices, focus, focused, ids>>
seatVars == <<hasTouch, hasPointer, pointerFocus>>
clientVars == <<active, down>>
vars == <<seatVars, surfaces, bound, poolVars, serials, drag, clientVars, fault>>

Id == 0 .. MaxTouch - 1
Point == [id : Id, serial : 1 .. MaxTouch, surface : Surface]

TypeOK ==
  /\ hasTouch \in BOOLEAN /\ hasPointer \in BOOLEAN
  /\ surfaces \subseteq Surface
  /\ pointerFocus \in surfaces \cup {None} /\ focus \in surfaces \cup {None}
  /\ focused \subseteq devices /\ devices \subseteq bound /\ bound \subseteq Device
  /\ DOMAIN ids \subseteq Id /\ \A i \in DOMAIN ids : ids[i] \in 1 .. serials
  /\ serials \in 0 .. MaxTouch /\ drag \in 0 .. serials
  /\ active \in [Device -> BOOLEAN]
  /\ down \in [Device -> SUBSET Point]
  /\ fault \in {"none", "touch_drag", "unfocused_pointer", "no_pointer_pool"}

NoIds == [i \in {} |-> 0]

Init ==
  /\ hasTouch = TRUE /\ hasPointer \in BOOLEAN
  /\ pointerFocus = None
  /\ surfaces = Surface
  /\ bound = {} /\ devices = {}
  /\ focus = None /\ focused = {}
  /\ ids = NoIds
  /\ serials = 0
  /\ drag = 0
  /\ active = [d \in Device |-> FALSE]
  /\ down = [d \in Device |-> {}]
  /\ fault = "none"

InProgress == ids # NoIds

(* interfacesForSurface *)
Interfaces(s, among) ==
  IF s = None THEN {} ELSE {d \in among : ClientOf[d] = ClientOf[s]}

-----------------------------------------------------------------------------
(* The handlers of the client's Touch, on the devices the event is for.    *)
ClientDown(p) ==
  /\ down' = [d \in Device |-> IF d \notin focused THEN down[d]
                               ELSE IF active[d] THEN down[d] \cup {p} ELSE {p}]
  /\ active' = [d \in Device |-> active[d] \/ d \in focused]

ClientUp(id) ==
  LET left(d) == {p \in down[d] : p.id # id}
      ends(d) == left(d) # down[d] /\ left(d) = {}
  IN  /\ down' = [d \in Device |-> IF d \in focused THEN left(d) ELSE down[d]]
      /\ active' = [d \in Device |-> active[d] /\ ~(d \in focused /\ ends(d))]

ClientCancel == active' = [d \in Device |-> active[d] /\ d \notin focused]

-----------------------------------------------------------------------------
(* wl_seat.get_touch: the device joins the focus, a sequence that goes on  *)
(* is not sent to it.                                                      *)
CreateDevice(d) ==
  /\ hasTouch /\ d \notin bound
  /\ bound' = bound \cup {d}
  /\ devices' = devices \cup {d}
  /\ focused' = focused \cup Interfaces(focus, {d})
  /\ active' = [active EXCEPT ![d] = FALSE]
  /\ down' = [down EXCEPT ![d] = {}]
  /\ UNCHANGED <<seatVars, surfaces, focus, ids, serials, drag, fault>>

FocusedWithout(d) == focused \ {d}

DestroyDevice(d) ==
  /\ d \in bound
  /\ bound' = bound \ {d}
  /\ devices' = devices \ {d}
  /\ focused' = FocusedWithout(d)
  /\ UNCHANGED <<seatVars, surfaces, focus, ids, serials, drag, clientVars, fault>>

(* Seat::setHasTouch: the pool goes with all it knows, or a new one comes. *)
SetHasTouch ==
  /\ hasTouch' = ~hasTouch
  /\ devices' = {} /\ focus' = None /\ focused' = {} /\ ids' = NoIds
  /\ UNCHANGED <<hasPointer, pointerFocus, surfaces, bound, serials, drag,
                 clientVars, fault>>

(* set_focused_surface returns early during a sequence, and asserts that   *)
(* there is no touch drag.                                                 *)
AlwaysMayFocus == TRUE  \* mutated form of MayFocus
MayFocus == ~InProgress

SetFocusedSurface(s) ==
  /\ hasTouch /\ MayFocus
  /\ IF drag # 0 THEN /\ fault' = "touch_drag"
                      /\ UNCHANGED poolVars
     ELSE /\ focus' = s
          /\ focused' = Interfaces(s, devices)
          /\ UNCHANGED <<devices, ids, fault>>
  /\ UNCHANGED <<seatVars, surfaces, bound, serials, drag, clientVars>>

(* pointer_pool::set_focused_surface *)
SetPointerFocus(s) ==
  /\ hasPointer
  /\ pointerFocus' = s
  /\ UNCHANGED <<hasTouch, hasPointer, surfaces, bound, poolVars, serials, drag,
                 clientVars, fault>>

(* The focused surface is lost: its sequence is cancelled for the client   *)
(* and goes on without devices.                                            *)
DestroySurface(s) ==
  /\ surfaces' = surfaces \ {s}
  /\ pointerFocus' = IF pointerFocus = s THEN None ELSE pointerFocus
  /\ IF focus = s
       THEN /\ IF InProgress THEN ClientCancel ELSE UNCHANGED active
            /\ focus' = None /\ focused' = {}
       ELSE UNCHANGED <<focus, focused, active>>
  /\ UNCHANGED <<hasTouch, hasPointer, bound, devices, ids, serials, drag, down, fault>>

-----------------------------------------------------------------------------
(* Without a wl_touch of the client, its pointers get the first point as   *)
(* button events, which assert that the pointer is focused.                *)
Emulates(id) == id = 0 /\ focused = {} /\ hasPointer /\ Interfaces(focus, Pointer) # {}

Emulate(id) ==
  fault' = IF Emulates(id) /\ (pointerFocus = None \/ ClientOf[pointerFocus] # ClientOf[focus])
             THEN "unfocused_pointer" ELSE fault

CountIds == Cardinality(DOMAIN ids)  \* mutated form of NextId
NextId == IF ~InProgress THEN 0
          ELSE 1 + CHOOSE i \in DOMAIN ids : \A j \in DOMAIN ids : j <= i

TouchDown ==
  LET id == NextId
      serial == serials + 1
  IN  /\ hasTouch /\ serials < MaxTouch
      /\ serials' = serial
      /\ ids' = [i \in DOMAIN ids \cup {id} |-> IF i = id THEN serial ELSE ids[i]]
      /\ ClientDown([id |-> id, serial |-> serial, surface |-> focus])
      /\ Emulate(id)
      /\ UNCHANGED <<seatVars, surfaces, bound, devices, focus, focused, drag>>

(* touch_up: the point that started a drag drops it.                       *)
DragGoesOn(id) == drag  \* mutated form of DragAfterUp
DragAfterUp(id) == IF drag = ids[id] THEN 0 ELSE drag

TouchUp(id) ==
  /\ id \in DOMAIN ids
  /\ drag' = DragAfterUp(id)
  /\ ClientUp(id)
  /\ Emulate(id)
  /\ ids' = Restrict(ids, DOMAIN ids \ {id})
  /\ UNCHANGED <<seatVars, surfaces, bound, devices, focus, focused, serials>>

CancelSequence ==
  /\ hasTouch
  /\ ClientCancel
  /\ drag' = 0
  /\ ids' = NoIds
  /\ UNCHANGED <<seatVars, surfaces, bound, devices, focus, focused, serials, down, fault>>

-----------------------------------------------------------------------------
(* wl_data_device.start_drag from the focused surface with the serial of a *)
(* point; drag_pool::start asks for the pointer pool first.                *)
StartDrag(serial) ==
  /\ focus # None
  /\ \E id \in DOMAIN ids : ids[id] = serial
  /\ IF hasPointer THEN drag' = serial /\ UNCHANGED fault
     ELSE fault' = "no_pointer_pool" /\ UNCHANGED drag
  /\ UNCHANGED <<seatVars, surfaces, bound, poolVars, serials, clientVars>>

(* The data source of the drag is destroyed.                               *)
EndDrag ==
  /\ drag' = 0
  /\ UNCHANGED <<seatVars, surfaces, bound, poolVars, serials, clientVars, fault>>

Next ==
  /\ fault = "none"
  /\ \/ \E d \in Device : CreateDevice(d) \/ DestroyDevice(d)
     \/ SetHasTouch
     \/ \E s \in surfaces \cup {None} : SetFocusedSurface(s) \/ SetPointerFocus(s)
     \/ \E s \in surfaces : DestroySurface(s)
     \/ TouchDown
     \/ \E id \in Id : TouchUp(id)
     \/ CancelSequence
     \/ \E serial \in 1 .. MaxTouch : StartDrag(serial)
     \/ EndDrag

Spec == Init /\ [][Next]_vars

-----------------------------------------------------------------------------
(* A sequence a client believes to be going on is one: it has points down, *)
(* which the pool still counts under the same id and serial, on the        *)
(* surface the pool is focused on.  No point is stuck when a focus change, *)
(* a cancel, a lost surface or a late wl_touch comes in between            *)
(* (touch_pool.cpp:67-91, touch.cpp of the client).                        *)
PointsAgree ==
  \A d \in devices : active[d] =>
    /\ d \in focused /\ down[d] # {}
    /\ \A p \in down[d] : /\ p.id \in DOMAIN ids /\ ids[p.id] = p.serial
                          /\ p.surface = focus

(* "Unique in the scope of all TouchPoints currently being down"           *)
(* (client/touch.h:43), for points lifted and put down in any order.       *)
IdsUnique == \A d \in bound : \A p, q \in down[d] : p.id = q.id => p = q

(* A touch drag ends no later than its touch point, as long as the seat    *)
(* keeps its touch capability: no drag is left that nothing can drop       *)
(* (touch_pool.cpp:124, 187; assertions in lines 73 and 170).              *)
Held == drag # 0 => \E id \in DOMAIN ids : ids[id] = drag
DragHeld == [][Held /\ hasTouch' => Held']_vars

(* A point of a client that says it is down is down: "true if currently    *)
(* down" (client/touch.h:84).                                              *)
DownMeansDown == \A d \in devices : \A p \in down[d] : p.id \in DOMAIN ids

(* A drag from a seat without pointer finds its way (seat.cpp:121).        *)
PointerPoolPresent == fault # "no_pointer_pool"
=============================================================================
