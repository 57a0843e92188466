---------------------------- MODULE DmabufParams ----------------------------
(***************************************************************************)
(* Parameters that collect the planes of a dma-buf and make a buffer of    *)
(* them once: server/linux_dmabuf_v1.cpp.  Each plane brings a file        *)
(* descriptor, which someone has to close.  Sums and products of 32 bits   *)
(* are taken modulo Word.                                                  *)
(***************************************************************************)
EXTENDS Naturals, FiniteSets

CONSTANTS
  Fd,       \* file descriptors, each sent once
  Planes,   \* number of planes that params can hold
  Word,     \* 2^32 in the code
  Offset, Stride, Height, FileSize, \* values of requests and of files
  Modifier, \* format modifiers
  None      \* no descriptor; unknown file size

(* What is assumed of the constants.                                       *)
Assumptions ==
  /\ None \notin Fd
  /\ Planes \in Nat \ {0}
  /\ Offset \cup Stride \cup Height \cup {Word} \cup (FileSize \ {None}) \subseteq Nat

VARIABLES
  global,    \* linux_dmabuf_params_v1_impl::m_dmabuf is not null
  params,    \* the params exist
  ended,     \* the client was sent an error
  planes,    \* linux_dmabuf_params_v1_impl::m_planes
  count,     \* linux_dmabuf_params_v1_impl::m_planeCount
  modifier,  \* linux_dmabuf_params_v1_impl::modifier, None unless modifier_sent
  requested, \* linux_dmabuf_params_v1_impl::m_createRequested
  buffer,    \* planes of the buffer that was made
  height,    \* its height
  sent,      \* descriptors that were sent
  closed     \* how often a descriptor was closed

vars == <<global, params, ended, planes, count, modifier, requested, buffer, height, sent,
          closed>>

Index == 0 .. Planes - 1
Unset == [fd |-> None, offset |-> 0, stride |-> 0, size |-> None]
Plane == [fd : Fd \cup {None}, offset : Offset \cup {0}, stride : Stride \cup {0},
          size : FileSize \cup {None}]

TypeOK ==
  /\ global \in BOOLEAN /\ params \in BOOLEAN /\ ended \in BOOLEAN /\ requested \in BOOLEAN
  /\ planes \in [Index -> Plane] /\ count \in 0 .. Planes
  /\ modifier \in Modifier \cup {None} /\ buffer \subseteq Plane /\ height \in Height \cup {0}
  /\ sent \subseteq Fd /\ closed \in [Fd -> 0 .. 2]

Init ==
  /\ global = TRUE /\ params = TRUE /\ ended = FALSE
  /\ planes = [i \in Index |-> Unset] /\ count = 0 /\ modifier = None /\ requested = FALSE
  /\ buffer = {} /\ height = 0 /\ sent = {} /\ closed = [fd \in Fd |-> 0]

Closed(fds) == [fd \in Fd |-> IF fd \in fds THEN closed[fd] + 1 ELSE closed[fd]]

-----------------------------------------------------------------------------
(* add: the errors close what they do not keep.                            *)
Refused(i, m) ==
  \/ requested \/ i \notin Index
  \/ planes[i].fd # None
  \/ modifier \notin {None, m}

Add(plane, i, m) ==
  /\ params /\ ~ended /\ plane.fd \notin sent
  /\ sent' = sent \cup {plane.fd}
  /\ IF Refused(i, m)
       THEN /\ ended' = TRUE
            /\ closed' = Closed({plane.fd})
            /\ UNCHANGED <<planes, count, modifier>>
       ELSE /\ planes' = [planes EXCEPT ![i] = plane]
            /\ count' = count + 1 /\ modifier' = m
            /\ UNCHANGED <<ended, closed>>
  /\ UNCHANGED <<global, params, requested, buffer, height>>

(* validate_params, after the flag                                         *)
NoCheck == TRUE \* mutated form of Complete
Complete == count > 0 /\ \A i \in 0 .. count - 1 : planes[i].fd # None

Fits(i, h) ==
  LET p == planes[i]
  IN  /\ p.offset + p.stride < Word
      /\ i = 0 => p.offset + ((p.stride * h) % Word) < Word
      /\ p.size # None =>
           /\ p.offset < p.size
           /\ (p.offset + p.stride) % Word <= p.size
           /\ i = 0 => (p.offset + p.stride * h) % Word <= p.size

Valid(h) == Complete /\ h >= 1 /\ \A i \in 0 .. count - 1 : Fits(i, h)

(* create: the compositor imports the planes or does not; with the buffer  *)
(* it takes the descriptors.                                               *)
KeepFds == planes \* mutated form of FdsTaken
FdsTaken == [i \in Index |-> [planes[i] EXCEPT !.fd = None]]

Create(h, imported) ==
  /\ params /\ ~ended /\ global
  /\ requested' = TRUE
  /\ IF requested \/ ~Valid(h)
       THEN ended' = TRUE /\ UNCHANGED <<planes, buffer, height>>
       ELSE IF imported
       THEN /\ buffer' = {planes[i] : i \in 0 .. count - 1} /\ height' = h
            /\ planes' = FdsTaken
            /\ UNCHANGED ended
       ELSE /\ ended' \in BOOLEAN  \* for create_immed the client is ended
            /\ UNCHANGED <<planes, buffer, height>>
  /\ UNCHANGED <<global, params, count, modifier, sent, closed>>

DestroyGlobal ==
  /\ global
  /\ global' = FALSE
  /\ UNCHANGED <<params, ended, planes, count, modifier, requested, buffer, height, sent,
                 closed>>

(* ~linux_dmabuf_params_v1_impl                                            *)
DestroyParams ==
  /\ params
  /\ params' = FALSE
  /\ closed' = Closed({planes[i].fd : i \in Index})
  /\ planes' = [i \in Index |-> Unset]
  /\ UNCHANGED <<global, ended, count, modifier, requested, buffer, height, sent>>

(* ~linux_dmabuf_buffer_v1                                                 *)
DestroyBuffer ==
  /\ buffer # {}
  /\ buffer' = {} /\ height' = 0
  /\ closed' = Closed({p.fd : p \in buffer})
  /\ UNCHANGED <<global, params, ended, planes, count, modifier, requested, sent>>

Next ==
  \/ \E fd \in Fd, o \in Offset, s \in Stride, size \in FileSize, m \in Modifier,
        i \in 0 .. Planes :
       Add([fd |-> fd, offset |-> o, stride |-> s, size |-> size], i, m)
  \/ \E h \in Height, imported \in BOOLEAN : Create(h, imported)
  \/ DestroyGlobal \/ DestroyParams \/ DestroyBuffer

Spec == Init /\ [][Next]_vars

-----------------------------------------------------------------------------
Holders(fd) ==
  Cardinality({i \in Index : planes[i].fd = fd}) + Cardinality({p \in buffer : p.fd = fd})

(* Every descriptor that a client sent is held by the params or the buffer *)
(* or was closed, once, and a buffer has one for each of its planes        *)
(* (linux_dmabuf_v1.cpp:164-172, 221-271, 363-410).                        *)
OneOwner ==
  /\ \A fd \in sent : Holders(fd) + closed[fd] = 1
  /\ \A p \in buffer : p.fd # None

(* "size overflow for plane %i" and "invalid buffer stride or height for   *)
(* plane %i" (linux_dmabuf_v1.cpp:312, 345): what is accepted fits into    *)
(* the file.                                                               *)
FirstPlaneFits ==
  \A p \in buffer :
    p.size # None /\ Cardinality(buffer) = 1 => p.offset + p.stride * height <= p.size
=============================================================================
