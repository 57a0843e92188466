---------------------------- MODULE MCSurfaceParts ----------------------------
(***************************************************************************)
(* The parts of a surface on a small instance.  They share no state, so    *)
(* that a behaviour is one of one of them, chosen at the start; the others *)
(* stay in an initial state.                                               *)
(***************************************************************************)
EXTENDS SurfaceParts

CONSTANT Parts \* the parts that a run checks

VARIABLE part

MCInit ==
  /\ part \in Parts
  /\ Init /\ Children!Init /\ Effects!Init /\ Buffers!Init /\ Sizes!Init
  /\ Constraints!Init
  /\ part # "effects" => effectPlain
  /\ part # "sizes" => sizePlain

ChildrenStep ==
  /\ part = "children" /\ Children!Next
  /\ UNCHANGED <<effectsVars, vars, buffersVars, sizesVars, constraintsVars>>
EffectsStep ==
  /\ part = "effects" /\ Effects!Next
  /\ UNCHANGED <<childrenVars, vars, buffersVars, sizesVars, constraintsVars>>
FeedbacksStep ==
  /\ part = "feedback" /\ Next
  /\ UNCHANGED <<childrenVars, effectsVars, buffersVars, sizesVars, constraintsVars>>
BuffersStep ==
  /\ part = "buffers" /\ Buffers!Next
  /\ UNCHANGED <<childrenVars, effectsVars, vars, sizesVars, constraintsVars>>
SizesStep ==
  /\ part = "sizes" /\ Sizes!Next
  /\ UNCHANGED <<childrenVars, effectsVars, vars, buffersVars, constraintsVars>>
ConstraintsStep ==
  /\ part = "constraints" /\ Constraints!Next
  /\ UNCHANGED <<childrenVars, effectsVars, vars, buffersVars, sizesVars>>

MCNext ==
  /\ UNCHANGED part
  /\ ChildrenStep \/ EffectsStep \/ FeedbacksStep \/ BuffersStep \/ SizesStep
     \/ ConstraintsStep

MCSpec ==
  MCInit /\ [][MCNext]_<<part, vars, childrenVars, effectsVars, buffersVars, sizesVars,
                         constraintsVars>>
=============================================================================
