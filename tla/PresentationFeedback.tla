------------------------ MODULE PresentationFeedback ------------------------
(***************************************************************************)
(* Presentation feedbacks of one surface: a client asks for one with its   *)
(* pending state, commits carry it to the current state, the compositor    *)
(* locks the feedbacks of the current state to an output when it paints,   *)
(* and answers them when the output has shown the frame (server/           *)
(* presentation_time.cpp, surface.cpp).  A list of feedbacks that is       *)
(* destroyed or replaced answers `discarded' to all in it.                 *)
(***************************************************************************)
EXTENDS Naturals

CONSTANTS
  Feedback,    \* wp_presentation_feedback objects, each requested at most once
  Output,      \* outputs, present from the start
  None,        \* the null output
  MaxLocks     \* bound: calls of lockPresentation

(* What is assumed of the constants.                                       *)
Assumptions ==
  /\ None \notin Output
  /\ MaxLocks \in Nat

VARIABLES
  surface,      \* whether the surface exists
  synchronized, \* whether it is a subsurface and synchronized
  outputs,      \* outputs not removed yet
  fate,         \* fate[f]: what became of a feedback
  pending,      \* pending.feedbacks
  cached,       \* cached.feedbacks of the subsurface
  current,      \* current.feedbacks
  locked,       \* current.feedbacks has been moved away
  lastId,       \* feedbackId
  open,         \* keys of waitingFeedbacks
  waiting,      \* waiting[i]: the feedbacks under key i
  output        \* output[i]: their m_output

vars == <<surface, synchronized, outputs, fate, pending, cached, current, locked,
          lastId, open, waiting, output>>
lists == <<pending, cached, current, locked>>
locks == <<lastId, open, waiting, output>>

Id == 1 .. MaxLocks

TypeOK ==
  /\ surface \in BOOLEAN /\ synchronized \in BOOLEAN
  /\ outputs \subseteq Output
  /\ fate \in [Feedback -> {"new", "held", "presented", "discarded"}]
  /\ pending \subseteq Feedback /\ cached \subseteq Feedback /\ current \subseteq Feedback
  /\ locked \in BOOLEAN /\ (locked => current = {})
  /\ lastId \in 0 .. MaxLocks /\ open \subseteq 1 .. lastId
  /\ waiting \in [Id -> SUBSET Feedback]
  /\ output \in [Id -> Output \cup {None}]

Init ==
  /\ surface = TRUE /\ synchronized = FALSE
  /\ outputs = Output
  /\ fate = [f \in Feedback |-> "new"]
  /\ pending = {} /\ cached = {} /\ current = {} /\ locked = FALSE
  /\ lastId = 0 /\ open = {}
  /\ waiting = [i \in Id |-> {}] /\ output = [i \in Id |-> None]

-----------------------------------------------------------------------------
(* presented() and discard() of a list.                                    *)
Answer(fs, what) == [f \in Feedback |-> IF f \in fs THEN what ELSE fate[f]]
Forget(fs) == fate  \* mutated form of Discard
Discard(fs) == Answer(fs, "discarded")

(* wp_presentation.feedback.                                               *)
Request(f) ==
  /\ surface /\ fate[f] = "new"
  /\ fate' = [fate EXCEPT ![f] = "held"]
  /\ pending' = pending \cup {f}
  /\ UNCHANGED <<surface, synchronized, outputs, cached, current, locked, locks>>

(* The end of updateCurrentState: what was current is superseded.          *)
MoveToCurrent(source) ==
  /\ current' = source
  /\ locked' = FALSE
  /\ fate' = Discard(current)

Commit ==
  /\ surface /\ ~synchronized
  /\ MoveToCurrent(pending)
  /\ pending' = {}
  /\ UNCHANGED <<surface, synchronized, outputs, cached, locks>>

CommitCached ==
  /\ surface /\ synchronized
  /\ fate' = Discard(cached)
  /\ cached' = pending
  /\ pending' = {}
  /\ UNCHANGED <<surface, synchronized, outputs, current, locked, locks>>

ApplyCached ==
  /\ surface /\ synchronized
  /\ MoveToCurrent(cached)
  /\ cached' = {}
  /\ UNCHANGED <<surface, synchronized, outputs, pending, locks>>

Synchronize ==
  /\ surface /\ ~synchronized
  /\ synchronized' = TRUE
  /\ UNCHANGED <<surface, outputs, fate, lists, locks>>

Desynchronize ==
  /\ surface /\ synchronized
  /\ synchronized' = FALSE
  /\ MoveToCurrent(cached)
  /\ cached' = {}
  /\ UNCHANGED <<surface, outputs, pending, locks>>

(* The wl_subsurface goes, with the surface or after it, and its cached    *)
(* state with it.                                                          *)
DestroySubsurface ==
  /\ synchronized
  /\ synchronized' = FALSE
  /\ fate' = Discard(cached)
  /\ cached' = {}
  /\ UNCHANGED <<surface, outputs, pending, current, locked, locks>>

(* ~Surface: all lists but the cached one are destroyed.                   *)
AllWaiting == UNION {waiting[i] : i \in open}

DestroySurface ==
  /\ surface
  /\ surface' = FALSE
  /\ fate' = Discard(pending \cup current \cup AllWaiting)
  /\ pending' = {} /\ current' = {} /\ open' = {}
  /\ waiting' = [i \in Id |-> {}]
  /\ UNCHANGED <<synchronized, outputs, cached, locked, lastId, output>>

-----------------------------------------------------------------------------
(* Surface::lockPresentation, called by the compositor with a live output. *)
CurrentAfterLock == {}

LockPresentation(o) ==
  /\ surface /\ o \in outputs
  /\ ~locked /\ current # {}
  /\ lastId < MaxLocks
  /\ lastId' = lastId + 1
  /\ open' = open \cup {lastId + 1}
  /\ waiting' = [waiting EXCEPT ![lastId + 1] = current]
  /\ output' = [output EXCEPT ![lastId + 1] = o]
  /\ current' = CurrentAfterLock
  /\ locked' = TRUE
  /\ UNCHANGED <<surface, synchronized, outputs, fate, pending, cached>>

(* presentationFeedback and presentationDiscarded, once per id.            *)
Answered(i, what) ==
  /\ surface /\ i \in open
  /\ fate' = Answer(waiting[i], what)
  /\ open' = open \ {i}
  /\ waiting' = [waiting EXCEPT ![i] = {}]
  /\ UNCHANGED <<surface, synchronized, outputs, lists, lastId, output>>

Presented(i) == Answered(i, "presented")
Discarded(i) == Answered(i, "discarded")

(* WlOutput::removed reaches the lists locked to the output.               *)
OnOutput(o) == {i \in open : output[i] = o}
KeepOnOutput(o) == {}  \* mutated form of ToDiscard
ToDiscard(o) == OnOutput(o)

RemoveOutput(o) ==
  /\ o \in outputs
  /\ outputs' = outputs \ {o}
  /\ fate' = Discard(UNION {waiting[i] : i \in ToDiscard(o)})
  /\ waiting' = [i \in Id |-> IF i \in ToDiscard(o) THEN {} ELSE waiting[i]]
  /\ output' = [i \in Id |-> IF i \in OnOutput(o) THEN None ELSE output[i]]
  /\ UNCHANGED <<surface, synchronized, lists, lastId, open>>

Next ==
  \/ \E f \in Feedback : Request(f)
  \/ Commit \/ CommitCached \/ ApplyCached
  \/ Synchronize \/ Desynchronize \/ DestroySubsurface \/ DestroySurface
  \/ \E o \in Output : LockPresentation(o) \/ RemoveOutput(o)
  \/ \E i \in Id : Presented(i) \/ Discarded(i)

Spec == Init /\ [][Next]_vars

-----------------------------------------------------------------------------
(* A feedback that has no answer yet is in exactly one list, and a list    *)
(* holds nothing that was answered (and deleted): no feedback is forgotten *)
(* or answered twice, whatever is replaced, moved or destroyed             *)
(* (surface.cpp:668, 1041, 1073-1149).                                     *)
HeldOnce ==
  /\ pending \cup cached \cup current \cup AllWaiting = {f \in Feedback : fate[f] = "held"}
  /\ pending \cap (cached \cup current \cup AllWaiting) = {}
  /\ cached \cap (current \cup AllWaiting) = {} /\ current \cap AllWaiting = {}
  /\ \A i, j \in open : i # j => waiting[i] \cap waiting[j] = {}

(* Feedbacks that wait for a frame wait for an output that exists, so that *)
(* sync never follows the pointer of a removed output (surface.cpp:1136).  *)
WaitingOnOutput ==
  \A i \in open : waiting[i] # {} => output[i] \in outputs

(* Whoever asked for feedback gets it, once, from an output that exists.   *)
FeedbackHeld == HeldOnce /\ WaitingOnOutput
=============================================================================
