----------------------------- MODULE SurfaceSize -----------------------------
(***************************************************************************)
(* The buffer and the viewport of a surface, and the size they give it     *)
(* (server/surface.cpp: update_buffer, copy_to_current, the checks of the  *)
(* source rectangle, size; viewporter.cpp).  The surface may be a          *)
(* synchronized subsurface, whose commits are cached.                      *)
(*                                                                         *)
(* A size is a number from 1; 0 is the invalid size, the null buffer or    *)
(* the unset rectangle.  A source rectangle is a size, integer or not; it  *)
(* is contained in a buffer that is at least as large.  A protocol error   *)
(* ends the client, a failed assertion the server: `outcome' records both. *)
(***************************************************************************)
EXTENDS Integers

CONSTANTS
  MaxSize,      \* bound: the largest size of a buffer, rectangle or destination
  Fractions     \* whether a source rectangle may be fractional

(* What is assumed of the constants.                                       *)
Assumptions == MaxSize \in Nat \ {0} /\ Fractions \in BOOLEAN

VARIABLES
  plain,        \* whether the surface never gets the role of a subsurface
  synchronized, \* whether the surface is a subsurface and synchronized
  viewport,     \* whether the surface has a viewport
  pending,      \* surface.pending
  cached,       \* subsurface.cached
  current,      \* surface.current
  updates,      \* the flags "size" and "mapped" in current.updates
  outcome       \* "running", "bad_size", "out_of_buffer" or "no_viewport"

vars == <<plain, synchronized, viewport, pending, cached, current, updates, outcome>>

Size == 0 .. MaxSize
NoRect == [size |-> 0, whole |-> TRUE]
Rect == [size : 1 .. MaxSize, whole : IF Fractions THEN BOOLEAN ELSE {TRUE}] \cup {NoRect}

(* The fields of a SurfaceState with the flags a request sets.             *)
State == [buffer : Size, bufferSet : BOOLEAN,
          source : Rect, sourceSet : BOOLEAN,
          destination : Size, destinationSet : BOOLEAN]
Fresh == [buffer |-> 0, bufferSet |-> FALSE,
          source |-> NoRect, sourceSet |-> FALSE,
          destination |-> 0, destinationSet |-> FALSE]

TypeOK ==
  /\ plain \in BOOLEAN
  /\ synchronized \in BOOLEAN
  /\ viewport \in BOOLEAN
  /\ pending \in State /\ cached \in State
  /\ current \in [buffer : Size, source : Rect, destination : Size]
  /\ updates \subseteq {"size", "mapped"}
  /\ outcome \in {"running", "bad_size", "out_of_buffer", "no_viewport"}

Init ==
  /\ plain \in BOOLEAN
  /\ synchronized = FALSE
  /\ viewport = FALSE
  /\ pending = Fresh /\ cached = Fresh
  /\ current = [buffer |-> 0, source |-> NoRect, destination |-> 0]
  /\ updates = {}
  /\ outcome = "running"

-----------------------------------------------------------------------------
(* Surface::size().                                                        *)
SizeOf(c) ==
  IF c.buffer = 0 THEN 0
  ELSE IF c.destination # 0 THEN c.destination
  ELSE IF c.source # NoRect THEN c.source.size
  ELSE c.buffer

-----------------------------------------------------------------------------
(* wl_surface.attach, with the null buffer for 0.                          *)
Attach(b) ==
  /\ pending' = [pending EXCEPT !.buffer = b, !.bufferSet = TRUE]
  /\ UNCHANGED <<plain, synchronized, viewport, cached, current, updates, outcome>>

(* The wl_buffer of a state is destroyed: the first state that holds it    *)
(* forgets it, no flag is changed.                                         *)
BufferDestroyed ==
  /\ \/ /\ pending.buffer # 0
        /\ pending' = [pending EXCEPT !.buffer = 0]
        /\ UNCHANGED <<cached, current>>
     \/ /\ current.buffer # 0
        /\ current' = [current EXCEPT !.buffer = 0]
        /\ UNCHANGED <<pending, cached>>
     \/ /\ cached.buffer # 0
        /\ cached' = [cached EXCEPT !.buffer = 0]
        /\ UNCHANGED <<pending, current>>
  /\ UNCHANGED <<plain, synchronized, viewport, updates, outcome>>

(* wp_viewporter.get_viewport; a second one is a protocol error.           *)
GetViewport ==
  /\ ~viewport
  /\ viewport' = TRUE
  /\ UNCHANGED <<plain, synchronized, pending, cached, current, updates, outcome>>

(* wp_viewport.set_source and set_destination, with the unset value too.   *)
SetSource(r) ==
  /\ viewport
  /\ pending' = [pending EXCEPT !.source = r, !.sourceSet = TRUE]
  /\ UNCHANGED <<plain, synchronized, viewport, cached, current, updates, outcome>>

SetDestination(d) ==
  /\ viewport
  /\ pending' = [pending EXCEPT !.destination = d, !.destinationSet = TRUE]
  /\ UNCHANGED <<plain, synchronized, viewport, cached, current, updates, outcome>>

(* wp_viewport.destroy resets both, pending a commit.                      *)
WithoutViewport ==
  [pending EXCEPT !.destination = 0, !.destinationSet = TRUE,
                  !.source = NoRect, !.sourceSet = TRUE]

DestroyViewport ==
  /\ viewport
  /\ viewport' = FALSE
  /\ pending' = WithoutViewport
  /\ UNCHANGED <<plain, synchronized, cached, current, updates, outcome>>

-----------------------------------------------------------------------------
(* update_buffer and copy_to_current: the new current state and, in        *)
(* Resized, whether the size is flagged as changed.                        *)
Applied(s) ==
  [buffer |-> IF s.bufferSet THEN s.buffer ELSE current.buffer,
   source |-> IF s.sourceSet THEN s.source ELSE current.source,
   destination |-> IF s.destinationSet THEN s.destination ELSE current.destination]

ResizedByBuffer(s, buffer) ==  \* mutated form of Resized
  s.bufferSet /\ buffer # 0 /\ buffer # current.buffer
Resized(s, buffer) ==
  \/ s.sourceSet /\ buffer # 0 /\ s.destination = 0 /\ s.source # NoRect
  \/ IF s.destinationSet THEN buffer # 0
     ELSE s.bufferSet /\ buffer # 0 /\ buffer # current.buffer

Mapped(s) == IF s.bufferSet /\ ((current.buffer = 0) # (s.buffer = 0)) THEN {"mapped"} ELSE {}

(* soureRectangleIntegerCheck and soureRectangleContainCheck.  A missing   *)
(* viewport fails an assertion in the first and skips the second.          *)
Unchecked(c) == "running"  \* mutated form of Checked
Checked(c) ==
  IF c.source # NoRect /\ c.destination = 0 /\ ~viewport THEN "no_viewport"
  ELSE IF c.source # NoRect /\ c.destination = 0 /\ ~c.source.whole THEN "bad_size"
  ELSE IF c.buffer # 0 /\ viewport /\ c.source.size > c.buffer THEN "out_of_buffer"
  ELSE "running"

UpdateCurrentState(s) ==
  LET c == Applied(s) IN
  /\ current' = c
  /\ updates' = Mapped(s) \cup (IF Resized(s, c.buffer) THEN {"size"} ELSE {})
  /\ outcome' = Checked(c)

(* wl_surface.commit, and for a synchronized subsurface the caching of it. *)
Commit ==
  /\ ~synchronized
  /\ UpdateCurrentState(pending)
  /\ pending' = Fresh
  /\ UNCHANGED <<plain, synchronized, viewport, cached>>

CommitCached ==
  /\ synchronized
  /\ cached' = pending
  /\ pending' = Fresh
  /\ UNCHANGED <<plain, synchronized, viewport, current, updates, outcome>>

(* The parent commits: applyCached.                                        *)
ApplyCached ==
  /\ synchronized
  /\ UpdateCurrentState(cached)
  /\ cached' = Fresh
  /\ UNCHANGED <<plain, synchronized, viewport, pending>>

(* wl_subcompositor.get_subsurface or set_sync, and the ways back.         *)
Synchronize ==
  /\ ~plain /\ ~synchronized
  /\ synchronized' = TRUE
  /\ UNCHANGED <<plain, viewport, pending, cached, current, updates, outcome>>

Desynchronize ==
  /\ synchronized
  /\ synchronized' = FALSE
  /\ UpdateCurrentState(cached)
  /\ cached' = Fresh
  /\ UNCHANGED <<plain, viewport, pending>>

DestroySubsurface ==
  /\ synchronized
  /\ synchronized' = FALSE
  /\ cached' = Fresh
  /\ UNCHANGED <<plain, viewport, pending, current, updates, outcome>>

Requests ==
  \/ \E b \in Size : Attach(b)
  \/ BufferDestroyed
  \/ GetViewport
  \/ \E r \in Rect : SetSource(r)
  \/ \E d \in Size : SetDestination(d)
  \/ DestroyViewport

Commits == Commit \/ CommitCached \/ ApplyCached

Next ==
  /\ outcome = "running"
  /\ Requests \/ Commits \/ Synchronize \/ Desynchronize \/ DestroySubsurface

Spec == Init /\ [][Next]_vars

-----------------------------------------------------------------------------
(* What is shown is well defined: whatever the order of attach, viewport   *)
(* requests and commits, a surface is never left with a fractional size or *)
(* with a source rectangle that reaches out of its buffer while a viewport *)
(* can be told so (surface.cpp:397-440).  The cached state of a subsurface *)
(* may be applied without a viewport, and checked by no commit after it.   *)
SourceWellDefined ==
  plain /\ outcome = "running" =>
    /\ current.source.whole \/ current.destination # 0
    /\ viewport /\ current.buffer # 0 => current.source.size <= current.buffer

(* A change of the size by a commit is flagged, as long as the surface is  *)
(* mapped before and after, and the commit does not take a source          *)
(* rectangle away (surface.cpp:602-619, 664).                              *)
ChangedSize == SizeOf(current') # SizeOf(current) /\ current.buffer # 0 /\ current'.buffer # 0

SizeFlagged ==
  [][ChangedSize /\ (current'.source # NoRect \/ current.source = NoRect)
       => "size" \in updates']_vars

(* The same for every commit: "The size of the surface has changed."       *)
(* (autotests/client/viewporter.cpp:358).                                  *)
EverySizeFlagged == [][ChangedSize => "size" \in updates']_vars

(* The check of an unset destination always has a viewport to blame        *)
(* (Q_ASSERT(viewport), surface.cpp:408).                                  *)
ViewportPresent == outcome # "no_viewport"
=============================================================================
