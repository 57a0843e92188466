------------------------------ MODULE SeatInput ------------------------------
(***************************************************************************)
(* The keyboards of a seat, its drags and its touch sequences.  DragPool   *)
(* has the grabs that start and end a drag and TouchPool the drags that    *)
(* hang on touch points, each with what it needs of the other, so that the *)
(* three share no state.                                                   *)
(***************************************************************************)
EXTENDS KeyboardPool

CONSTANTS
  Source, Offer, DataDevice, DeviceOf, MaxGrabs,  \* of drags
  Touch, Pointer, MaxTouch                        \* of touch sequences

VARIABLES
  grabs, grab, sources, dragSurfaces, dragDevices, started, mode, source, serial, notifier,
  resetting, ending, surface, device, offer, offers, offerOf, matching, performed, dropped,
  dragFault,
  hasTouch, hasPointer, pointerFocus, touchSurfaces, bound, touchDevices, touchFocus,
  touchFocused, ids, serials, touchDrag, active, down, touchFault

dragVars == <<grabs, grab, sources, dragSurfaces, dragDevices, started, mode, source, serial,
              notifier, resetting, ending, surface, device, offer, offers, offerOf, matching,
              performed, dropped, dragFault>>
touchVars == <<hasTouch, hasPointer, pointerFocus, touchSurfaces, bound, touchDevices,
               touchFocus, touchFocused, ids, serials, touchDrag, active, down, touchFault>>

Drags == INSTANCE DragPool
  WITH Device <- DataDevice,
       surfaces <- dragSurfaces, devices <- dragDevices, fault <- dragFault
Touches == INSTANCE TouchPool
  WITH Device <- Touch,
       surfaces <- touchSurfaces, devices <- touchDevices, focus <- touchFocus,
       focused <- touchFocused, drag <- touchDrag, fault <- touchFault

(* What the parts assume of the constants.                                 *)
ASSUME PartsAssumption == Assumptions /\ Drags!Assumptions /\ Touches!Assumptions

-----------------------------------------------------------------------------
(* The pools only hold values of their types (keyboard_pool.h,             *)
(* drag_pool.h, touch_pool.h).                                             *)
TypesOK == TypeOK /\ Drags!TypeOK /\ Touches!TypeOK

(* The drag never goes to an object that is gone (drag_pool.cpp:214), and  *)
(* the offer of its target is of its source (drag_pool.cpp:226).           *)
TargetAlive == Drags!TargetAlive /\ Drags!OfferOfDrag

(* An offer that left the target has no say on the action                  *)
(* (drag_pool.cpp:292).                                                    *)
OnlyTargetMatches == Drags!OnlyTargetMatches

(* The points clients believe to be down are down (touch_pool.cpp:67-91),  *)
(* under ids that are unique among them (src/client/touch.h:43).           *)
PointsAgree == Touches!PointsAgree /\ Touches!IdsUnique

(* A touch drag ends no later than its touch point (touch_pool.cpp:124).   *)
DragHeld == Touches!DragHeld

-----------------------------------------------------------------------------
(* Where the code does other than its comments and tests say; see the      *)
(* modules, also for what is said of the keyboards.                        *)

(* A drag matches actions with its source (drag_pool.cpp:292).             *)
SourceToMatch == Drags!SourceToMatch

(* The offer of the target exists (drag_pool.cpp:214).                     *)
OfferAlive == Drags!OfferAlive

(* A drag ends with its own source only (drag_pool.cpp:151).               *)
OwnSourceEndsDrag == Drags!OwnSourceEndsDrag

(* A source is told of a drop only where there was one                     *)
(* (drag_pool.cpp:63).                                                     *)
PerformedWhenDropped == Drags!PerformedWhenDropped

(* A point the client believes to be down is down (src/client/touch.h).    *)
DownMeansDown == Touches!DownMeansDown

(* Touch drags find a pool of pointers (drag_pool.cpp:128).                *)
PointerPoolPresent == Touches!PointerPoolPresent
=============================================================================
