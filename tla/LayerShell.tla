------------------------------ MODULE LayerShell ------------------------------
(***************************************************************************)
(* Layer surfaces of layer_shell_v1.cpp: their surface and output, which   *)
(* go at any time, the state that a commit of the surface makes current,   *)
(* and configures with their acknowledgements.                             *)
(***************************************************************************)
EXTENDS Naturals, Sequences, Functions

CONSTANTS
  Surface,   \* surfaces that are there from the start
  Layer,     \* LayerSurfaceV1 objects
  Output,    \* outputs that are enabled at the start
  MaxSerial, \* bound of the serials of the display
  None       \* the null pointer

(* What is assumed of the constants.                                       *)
Assumptions == None \notin Surface \cup Layer \cup Output

VARIABLES
  surfaces,  \* surfaces that exist
  attached,  \* Surface::Private::had_buffer_attached
  otherRole, \* surfaces with a toplevel or a popup
  subs,      \* surfaces that are subsurfaces
  layers,    \* layer surfaces that exist
  layerOf,   \* Surface::Private::layer_surface
  surfaceOf, \* LayerSurfaceV1::Private::surface
  enabled,   \* outputs with a WlOutput
  stale,     \* outputs with binds of a WlOutput that was removed
  outputOf,  \* LayerSurfaceV1::Private::output
  pending,   \* LayerSurfaceV1::Private::pending
  current,   \* LayerSurfaceV1::Private::current
  serials,   \* LayerSurfaceV1::Private::configure_serials
  serial,    \* the last serial of the display
  acked,     \* the last serial in configure_acknowledged
  closed,    \* LayerSurfaceV1::Private::closed
  fault      \* an error was posted or a null pointer followed

surfaceVars == <<surfaces, attached, otherRole, subs>>
linkVars == <<layers, layerOf, surfaceOf, outputOf, closed>>
outputVars == <<enabled, stale>>
stateVars == <<pending, current>>
configureVars == <<serials, serial, acked>>
vars == <<surfaceVars, linkVars, outputVars, stateVars, configureVars, fault>>

(* sized says whether each size is there or has anchors at both edges; the *)
(* other members are set along.                                            *)
State == [sized : BOOLEAN, set : BOOLEAN]
Fresh == [sized |-> FALSE, set |-> TRUE]
Serial == 0 .. MaxSerial

TypeOK ==
  /\ surfaces \subseteq Surface /\ layers \subseteq Layer
  /\ attached \cup otherRole \cup subs \subseteq Surface
  /\ layerOf \in [Surface -> Layer \cup {None}]
  /\ surfaceOf \in [Layer -> Surface \cup {None}]
  /\ enabled \cup stale \subseteq Output /\ outputOf \in [Layer -> Output \cup {None}]
  /\ {pending, current} \subseteq [Layer -> State]
  /\ serials \in [Layer -> Seq(Serial)] /\ serial \in Serial /\ acked \in [Layer -> Serial]
  /\ closed \subseteq layers /\ fault \in {"none", "error", "null"}

Init ==
  /\ surfaces = Surface /\ attached = {} /\ otherRole = {} /\ subs = {}
  /\ layers = {} /\ layerOf = [s \in Surface |-> None] /\ surfaceOf = [l \in Layer |-> None]
  /\ enabled = Output /\ stale = {} /\ outputOf = [l \in Layer |-> None]
  /\ pending = [l \in Layer |-> Fresh] /\ current = pending
  /\ serials = [l \in Layer |-> <<>>] /\ serial = 0 /\ acked = [l \in Layer |-> 0]
  /\ closed = {} /\ fault = "none"

-----------------------------------------------------------------------------
(* Surface::Private::has_role and had_buffer_attached refuse a role.       *)
HasRole(s) == s \in otherRole \cup subs \/ layerOf[s] # None
NoLayer(s) == s \notin otherRole \cup subs \cup attached \* mutated form of MayTake
MayTake(s) == ~HasRole(s) /\ s \notin attached

Error ==
  /\ fault' = "error"
  /\ UNCHANGED <<surfaceVars, linkVars, outputVars, stateVars, configureVars>>

AttachBuffer(s) ==
  /\ s \in surfaces
  /\ attached' = attached \cup {s}
  /\ UNCHANGED <<surfaces, otherRole, subs, linkVars, outputVars, stateVars, configureVars,
                 fault>>

(* get_toplevel and get_popup                                              *)
TakeOtherRole(s) ==
  /\ s \in surfaces /\ s \notin otherRole
  /\ \/ /\ MayTake(s)
        /\ otherRole' = otherRole \cup {s}
        /\ UNCHANGED <<surfaces, attached, subs, linkVars, outputVars, stateVars, configureVars,
                       fault>>
     \/ ~MayTake(s) /\ Error

(* The toplevel or popup is destroyed.                                     *)
GiveUpOtherRole(s) ==
  /\ s \in surfaces \cap otherRole
  /\ otherRole' = otherRole \ {s}
  /\ UNCHANGED <<surfaces, attached, subs, linkVars, outputVars, stateVars, configureVars,
                 fault>>

(* get_subsurface does not look.                                           *)
MakeSubsurface(s) ==
  /\ s \in surfaces \ subs
  /\ subs' = subs \cup {s}
  /\ UNCHANGED <<surfaces, attached, otherRole, linkVars, outputVars, stateVars, configureVars,
                 fault>>

EndSubsurface(s) ==
  /\ s \in subs
  /\ subs' = subs \ {s}
  /\ UNCHANGED <<surfaces, attached, otherRole, linkVars, outputVars, stateVars, configureVars,
                 fault>>

(* getCallback looks the output up before it checks the surface.           *)
Get(l, s, o) ==
  /\ l \notin layers /\ s \in surfaces /\ o \in enabled \cup {None} /\ MayTake(s)
  /\ layers' = layers \cup {l}
  /\ layerOf' = [layerOf EXCEPT ![s] = l] /\ surfaceOf' = [surfaceOf EXCEPT ![l] = s]
  /\ outputOf' = [outputOf EXCEPT ![l] = o]
  /\ UNCHANGED <<surfaceVars, outputVars, stateVars, closed, configureVars, fault>>

GetRefused(s) == s \in surfaces /\ ~MayTake(s) /\ Error

GetOnStale ==
  /\ stale # {}
  /\ fault' = "null"
  /\ UNCHANGED <<surfaceVars, linkVars, outputVars, stateVars, configureVars>>

(* The requests that set a member of the pending state                     *)
SetState(l) ==
  /\ l \in layers
  /\ \E sized \in BOOLEAN : pending' = [pending EXCEPT ![l] = [sized |-> sized, set |-> TRUE]]
  /\ UNCHANGED <<surfaceVars, linkVars, outputVars, current, configureVars, fault>>

(* Surface::Private::commit, which leaves subsurfaces to the subsurface,   *)
(* and LayerSurfaceV1::Private::commit                                     *)
Commit(l) ==
  /\ l \in layers \ closed /\ surfaceOf[l] \notin subs \cup {None}
  /\ \/ /\ ~pending[l].set
        /\ current' = [current EXCEPT ![l].set = FALSE]
        /\ UNCHANGED <<surfaceVars, linkVars, outputVars, pending, configureVars, fault>>
     \/ /\ pending[l].set /\ pending[l].sized
        /\ current' = [current EXCEPT ![l] = pending[l]]
        /\ pending' = [pending EXCEPT ![l].set = FALSE]
        /\ UNCHANGED <<surfaceVars, linkVars, outputVars, configureVars, fault>>
     \/ pending[l].set /\ ~pending[l].sized /\ Error

-----------------------------------------------------------------------------
(* configure by the compositor                                             *)
Configure(l) ==
  /\ l \in layers /\ serial < MaxSerial
  /\ serial' = serial + 1
  /\ serials' = [serials EXCEPT ![l] = Append(@, serial + 1)]
  /\ UNCHANGED <<surfaceVars, linkVars, outputVars, stateVars, acked, fault>>

(* ackConfigureCallback drops the serial with those before it.             *)
OnlyAcked(l, n) == SelectSeq(serials[l], LAMBDA m : m # n) \* mutated form of AfterAck
AfterAck(l, n) ==
  LET i == CHOOSE k \in DOMAIN serials[l] : serials[l][k] = n
  IN  SubSeq(serials[l], i + 1, Len(serials[l]))

AckConfigure(l, n) ==
  /\ l \in layers /\ n \in Range(serials[l])
  /\ serials' = [serials EXCEPT ![l] = AfterAck(l, n)]
  /\ acked' = [acked EXCEPT ![l] = n]
  /\ UNCHANGED <<surfaceVars, linkVars, outputVars, stateVars, serial, fault>>

(* close and set_output by the compositor, which has a surface without     *)
(* output placed on one that is enabled                                    *)
Close(l) ==
  /\ l \in layers
  /\ closed' = closed \cup {l}
  /\ UNCHANGED <<surfaceVars, layers, layerOf, surfaceOf, outputOf, outputVars, stateVars,
                 configureVars, fault>>

SetOutput(l, o) ==
  /\ l \in layers /\ outputOf[l] = None /\ o \in enabled
  /\ outputOf' = [outputOf EXCEPT ![l] = o]
  /\ UNCHANGED <<surfaceVars, layers, layerOf, surfaceOf, closed, outputVars, stateVars,
                 configureVars, fault>>

(* WlOutput::removed                                                       *)
On(o) == {l \in layers : outputOf[l] = o}
OutputsWithout(o) == [l \in Layer |-> IF l \in On(o) THEN None ELSE outputOf[l]]

DisableOutput(o) ==
  /\ o \in enabled
  /\ enabled' = enabled \ {o} /\ stale' = stale \cup {o}
  /\ outputOf' = OutputsWithout(o)
  /\ closed' = closed \cup On(o)
  /\ UNCHANGED <<surfaceVars, layers, layerOf, surfaceOf, stateVars, configureVars, fault>>

EnableOutput(o) ==
  /\ o \in Output \ enabled
  /\ enabled' = enabled \cup {o}
  /\ UNCHANGED <<surfaceVars, linkVars, stale, stateVars, configureVars, fault>>

(* LayerSurfaceV1::Private::~Private                                       *)
Kept(l) == layerOf \* mutated form of Unlinked
Unlinked(l) == [s \in Surface |-> IF s = surfaceOf[l] THEN None ELSE layerOf[s]]

DestroyLayer(l) ==
  /\ l \in layers
  /\ layers' = layers \ {l} /\ closed' = closed \ {l}
  /\ layerOf' = Unlinked(l)
  /\ surfaceOf' = [surfaceOf EXCEPT ![l] = None] /\ outputOf' = [outputOf EXCEPT ![l] = None]
  /\ pending' = [pending EXCEPT ![l] = Fresh] /\ current' = [current EXCEPT ![l] = Fresh]
  /\ serials' = [serials EXCEPT ![l] = <<>>] /\ acked' = [acked EXCEPT ![l] = 0]
  /\ UNCHANGED <<surfaceVars, outputVars, serial, fault>>

(* Surface::resourceDestroyed                                              *)
DestroySurface(s) ==
  /\ s \in surfaces
  /\ surfaces' = surfaces \ {s}
  /\ surfaceOf' = [l \in Layer |-> IF surfaceOf[l] = s THEN None ELSE surfaceOf[l]]
  /\ layerOf' = [layerOf EXCEPT ![s] = None]
  /\ UNCHANGED <<attached, otherRole, subs, layers, outputOf, closed, outputVars, stateVars,
                 configureVars, fault>>

Next ==
  /\ fault = "none"
  /\ \/ GetOnStale
     \/ \E s \in Surface : \/ AttachBuffer(s) \/ TakeOtherRole(s) \/ GiveUpOtherRole(s)
                           \/ MakeSubsurface(s) \/ EndSubsurface(s) \/ GetRefused(s)
                           \/ DestroySurface(s)
     \/ \E l \in Layer, s \in Surface, o \in Output \cup {None} : Get(l, s, o)
     \/ \E l \in Layer : \/ SetState(l) \/ Commit(l) \/ Configure(l)
                         \/ Close(l) \/ DestroyLayer(l)
     \/ \E l \in Layer, n \in Serial : AckConfigure(l, n)
     \/ \E l \in Layer, o \in Output : SetOutput(l, o)
     \/ \E o \in Output : DisableOutput(o) \/ EnableOutput(o)

Spec == Init /\ [][Next]_vars

-----------------------------------------------------------------------------
(* A surface and its layer surface point to each other until one goes,     *)
(* whichever it is, and a layer surface is on an output that is enabled    *)
(* (layer_shell_v1.cpp:127-141, 274-283).                                  *)
LayersLinked ==
  /\ \A s \in surfaces : layerOf[s] # None => layerOf[s] \in layers /\ surfaceOf[layerOf[s]] = s
  /\ \A l \in layers :
       /\ surfaceOf[l] # None => surfaceOf[l] \in surfaces /\ layerOf[surfaceOf[l]] = l
       /\ outputOf[l] \in enabled \cup {None}

(* A surface is not a layer surface and a window at once, in whatever      *)
(* order roles are taken and given up (layer_shell_v1.cpp:53-61,           *)
(* surface.cpp:390-395).                                                   *)
LayerIsOnlyRole == \A s \in surfaces : layerOf[s] # None => s \notin otherRole

(* Acknowledgements of a layer surface go forward: none that is accepted   *)
(* later is of a configure before one that was                             *)
(* (layer_shell_v1.cpp:238-264).                                           *)
AcksForward == \A l \in layers : \A n \in Range(serials[l]) : n > acked[l]

(* "add check that surface is not already used in an interface"            *)
(* (subcompositor.cpp:85): a layer surface that is a subsurface as well    *)
(* hears of no commit.                                                     *)
HearsCommits == \A s \in surfaces : layerOf[s] # None => s \notin subs

(* An output whose removal the client does not know yet is none at all     *)
(* (layer_shell_v1.cpp:50).                                                *)
OutputThere == fault # "null"
=============================================================================
