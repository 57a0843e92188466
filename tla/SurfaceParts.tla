---------------------------- MODULE SurfaceParts ----------------------------
(***************************************************************************)
(* Parts of a surface that share no state: its presentation feedback, the  *)
(* order of its children, its effects, its buffers, its size and the       *)
(* constraints of the pointer on it.                                       *)
(***************************************************************************)
EXTENDS PresentationFeedback

CONSTANTS
  Child, Stranger, Parent,        \* of the order of children
  Effect,                         \* of effects
  Resource, Object, MaxAccess,    \* of buffers
  Recommits, \* whether clients commit a buffer again that they committed before
  MaxSize, Fractions,             \* of the size
  Surface, Constraint             \* of constraints of the pointer

VARIABLES
  order, flag, shown, desync, failed,
  effectPlain, effectSynced, created, alive, effectPending, effectCached,
  effectCurrent, notifier, effectAsked, effectFault,
  buffers, madeOf, bufferPending, attached, bufferCurrent, held, committed, busy, images,
  qimages, accessed, counter, accessFault,
  sizePlain, sizeSynced, viewport, sizePending, sizeCached, sizeCurrent, updates, outcome,
  constrainable, constraints, pointerLocks, oneShots, active, spent, lockedBy, confined,
  oneShotConnection, unboundConnection

childrenVars == <<order, flag, shown, desync, failed>>
effectsVars == <<effectPlain, effectSynced, created, alive, effectPending, effectCached,
                 effectCurrent, notifier, effectAsked, effectFault>>
buffersVars == <<buffers, madeOf, bufferPending, attached, bufferCurrent, held, committed, busy,
                 images, qimages, accessed, counter, accessFault>>
sizesVars == <<sizePlain, sizeSynced, viewport, sizePending, sizeCached, sizeCurrent, updates,
               outcome>>
constraintsVars == <<constrainable, constraints, pointerLocks, oneShots, active, spent, lockedBy,
                     confined, oneShotConnection, unboundConnection>>

Children == INSTANCE Stacking
  WITH pending <- order, current <- shown
Effects == INSTANCE SurfaceEffects
  WITH plain <- effectPlain, synchronized <- effectSynced,
       pending <- effectPending, cached <- effectCached, current <- effectCurrent,
       asked <- effectAsked, fault <- effectFault
Buffers == INSTANCE BufferUse
  WITH resources <- buffers, pending <- bufferPending, current <- bufferCurrent,
       fault <- accessFault
Sizes == INSTANCE SurfaceSize
  WITH plain <- sizePlain, synchronized <- sizeSynced,
       pending <- sizePending, cached <- sizeCached, current <- sizeCurrent
Constraints == INSTANCE PointerConstraints
  WITH surfaces <- constrainable, locks <- pointerLocks, locked <- lockedBy

(* What the parts assume of the constants.                                 *)
ASSUME PartsAssumption ==
  /\ Assumptions /\ Children!Assumptions /\ Effects!Assumptions /\ Buffers!Assumptions
  /\ Sizes!Assumptions /\ Constraints!Assumptions

-----------------------------------------------------------------------------
(* The members of surfaces and of what hangs off them only take values of  *)
(* their types (surface_p.h:120-180).                                      *)
TypesOK ==
  /\ TypeOK /\ Children!TypeOK /\ Effects!TypeOK /\ Buffers!TypeOK /\ Sizes!TypeOK
  /\ Constraints!TypeOK

(* Requests that rearrange children implement the promised order           *)
(* (src/client/subsurface.h:122).                                          *)
ImplementsOrder == Children!ImplementsOrder

(* A child ends up next to the sibling its client names                    *)
(* (src/client/subsurface.h:128).                                          *)
PlacedAsAsked == Children!PlacedAsAsked

(* A surface that is no subsurface gives up a live effect only when its    *)
(* client asks for it (surface_p.h:195-233).                               *)
LiveEffectStays == Effects!LiveEffectStays

(* A surface that is no subsurface replaces a destroyed effect with its    *)
(* next commit (surface.cpp:556-599).                                      *)
DeadEffectLeaves == Effects!DeadEffectLeaves

(* A wl_buffer is released when, and only when, nobody on the server uses  *)
(* it any more (buffer.cpp:375-381).                                       *)
ReleasedWhenUnused == Buffers!ReleasedWhenUnused

(* Access to shared memory lasts as long as its images                     *)
(* (buffer_manager.cpp:53-79).                                             *)
AccessCounted == Buffers!AccessCounted

(* A surface that is no subsurface never shows a fractional size, nor more *)
(* than its buffer has (surface.cpp:397-440).                              *)
SourceWellDefined == Sizes!SourceWellDefined

(* A commit that changes the size flags it, unless it takes a source       *)
(* rectangle away (surface.cpp:602-619, 664).                              *)
SizeFlagged == Sizes!SizeFlagged

(* A surface has one live constraint and listens to it                     *)
(* (surface.cpp:273-335).                                                  *)
ConstraintLive == Constraints!ConstraintLive

-----------------------------------------------------------------------------
(* Where the code does other than its comments and tests say; see the      *)
(* modules.                                                                *)

(* The effects a commit applies exist (surface.cpp:556-599).               *)
NoFreedEffect == Effects!NoFreedEffect

(* The end of one effect leaves another pending (surface.cpp:556-599).     *)
OtherPendingKept == Effects!OtherPendingKept

(* Access to a buffer ends no later than the buffer (buffer_manager.cpp).  *)
AccessAlive == Buffers!AccessAlive

(* Every commit that changes the size flags it                             *)
(* (autotests/client/viewporter.cpp:358).                                  *)
EverySizeFlagged == Sizes!EverySizeFlagged

(* A source rectangle is applied with a viewport (surface.cpp:408).        *)
ViewportPresent == Sizes!ViewportPresent
=============================================================================
