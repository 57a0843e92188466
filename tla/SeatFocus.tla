------------------------------ MODULE SeatFocus ------------------------------
(***************************************************************************)
(* What follows the focus of a seat: the selection and the text input that *)
(* of the keyboards, Pointers and gestures that of the pointers.  They     *)
(* share no state but the focus of the keyboards, which the first two move *)
(* each for itself.                                                        *)
(***************************************************************************)
EXTENDS Selection

CONSTANTS TextSurface, TextInput2, TextInput3, Text, Empty, MaxTexts, \* of text input
  PointerSurface, Pointer, Gesture, Kind, KindOf, PointerOf, Button, MaxSerials,
  SharedButtons                                                        \* of pointers

VARIABLES
  tSurfaces, tKeyFocus, tFocus, v2Devices, v3Devices, v2, v3, entered, pendingOn, on,
  hasMethod, active, stale, pending, current, requests, typed, refused,
  hasPool, pSurfaces, pointers, pDevices, pFocus, pFocusDevices, focused, pressed, serialOf,
  serials, drag, origin, epoch, gestures, begun, gesture, orphans, fault

textVars == <<tSurfaces, tKeyFocus, tFocus, v2Devices, v3Devices, v2, v3, entered, pendingOn,
              on, hasMethod, active, stale, pending, current, requests, typed, refused>>
pointerVars == <<hasPool, pSurfaces, pointers, pDevices, pFocus, pFocusDevices, focused,
                 pressed, serialOf, serials, drag, origin, epoch, gestures, begun, gesture,
                 orphans, fault>>

Texts == INSTANCE TextInput
  WITH Surface <- TextSurface, surfaces <- tSurfaces, keyFocus <- tKeyFocus, focus <- tFocus
Pointers == INSTANCE PointerPool
  WITH Surface <- PointerSurface, surfaces <- pSurfaces, devices <- pDevices,
       focus <- pFocus, focusDevices <- pFocusDevices

(* What the parts assume of the constants.                                 *)
ASSUME PartsAssumption == Assumptions /\ Texts!Assumptions /\ Pointers!Assumptions

-----------------------------------------------------------------------------
(* The pools of the seat only hold values of their types                   *)
(* (selection_pool.h, text_input_pool.h, pointer_pool.h).                  *)
TypesOK == TypeOK /\ Texts!TypeOK /\ Pointers!TypeOK

(* The text inputs with the focus agree with their clients                 *)
(* (text_input_pool.cpp:21-120).                                           *)
TextFocusAgrees == Texts!TextFocusAgrees

(* Text is typed once (input_method_v2.cpp:109-130).                       *)
TypedOnce == Texts!TypedOnce

(* The pool and its Pointers agree on who is focused, and on what          *)
(* (pointer.cpp:304, 312, 395).                                            *)
PointersAgree == Pointers!PointersAgree

(* No pointer to a surface is left when it goes (pointer.cpp:400).         *)
SurfacesAlive == Pointers!SurfacesAlive

(* A pointer drag ends no later than its button (pointer_pool.cpp:274).    *)
DragButtonHeld == Pointers!DragButtonHeld

-----------------------------------------------------------------------------
(* Where the code does other than its comments say; see the modules, also  *)
(* for what is said of the selection.                                      *)

(* A refused commit is ignored: "Reset pending to current state and wait   *)
(* for next commit." (input_method_v2.cpp:117).                            *)
TextOnce == Texts!TextOnce

(* The input method is active for an enabled text input                    *)
(* (text_input_pool.cpp:261).                                              *)
ActivatedWhenEnabled == Texts!ActivatedWhenEnabled

(* And only then (text_input_pool.cpp:261).                                *)
ActiveMeansEnabled == Texts!ActiveMeansEnabled

(* Text goes into enabled text inputs (text_input_pool.cpp:192).           *)
TypesIntoEnabled == Texts!TypesIntoEnabled

(* "Focused text input surface follows keyboard." (seat.cpp:262)           *)
FollowsKeyboard == Texts!FollowsKeyboard

(* A gesture that began ends before the next one                           *)
(* (src/client/pointergestures.h:340).                                     *)
GesturesPaired == Pointers!GesturesPaired

(* A pool of pointers that is gone is not used (pointer_pool.cpp:64).      *)
PoolAlive == Pointers!PoolAlive
=============================================================================
