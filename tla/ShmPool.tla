-------------------------------- MODULE ShmPool --------------------------------
(***************************************************************************)
(* Memory that a client shares with the server, cut into buffers that are  *)
(* drawn into, attached, released by the server and taken again:           *)
(* src/client/shm_pool.cpp and src/client/buffer.cpp, with as much of the  *)
(* server as reads the requests in order.  The size, stride and format of  *)
(* an image are its bytes and its format.                                  *)
(***************************************************************************)
EXTENDS Naturals, Sequences, FiniteSetsExt

CONSTANTS
  Bytes,       \* bytes of images, height times stride
  Format,      \* Buffer::Format
  InitialSize, \* ShmPool::Private::size before the first resize
  MaxInt,      \* the greatest int32_t
  MaxBuffers,  \* bound of the buffers
  MaxSetups,   \* bound of the calls of setup
  Redraws      \* whether buffers kept by setUsed are drawn and attached again

(* What is assumed of the constants.                                       *)
Assumptions ==
  /\ Bytes \subseteq Nat \ {0} /\ {InitialSize, MaxInt} \subseteq Nat
  /\ InitialSize <= MaxInt /\ Redraws \in BOOLEAN

VARIABLES
  shm,        \* whether ShmPool::Private::shm is set
  valid,      \* ShmPool::Private::valid
  size,       \* ShmPool::Private::size
  offset,     \* ShmPool::Private::offset
  buffers,    \* ShmPool::Private::buffers
  drawn,      \* buffers the application was handed and draws into
  requests,   \* requests on their way to the server
  serverSize, \* size of the pool of the server
  held,       \* buffers the server reads
  releases,   \* release events on their way to the client
  setups,     \* calls of setup
  fault       \* an int overflowed, the server got a buffer outside its pool, or the
              \* file could not be mapped and nobody noticed

vars == <<shm, valid, size, offset, buffers, drawn, requests, serverSize, held, releases,
          setups, fault>>

Index == 1 .. MaxBuffers
Buffer == [offset : Nat, bytes : Bytes, format : Format, released : BOOLEAN, used : BOOLEAN]
Request == [resize : Nat] \cup [create : Index] \cup [attach : Index]

TypeOK ==
  /\ {shm, valid} \subseteq BOOLEAN /\ {size, offset, serverSize} \subseteq 0 .. MaxInt
  /\ buffers \in Seq(Buffer) /\ drawn \subseteq DOMAIN buffers
  /\ requests \in Seq(Request) /\ releases \in Seq(DOMAIN buffers)
  /\ held \subseteq DOMAIN buffers /\ setups \in 0 .. MaxSetups
  /\ fault \in {"none", "overflow", "outside", "unmapped"}

Init ==
  /\ shm = FALSE /\ valid = FALSE /\ size = InitialSize /\ offset = 0
  /\ buffers = <<>> /\ drawn = {}
  /\ requests = <<>> /\ serverSize = 0 /\ held = {} /\ releases = <<>>
  /\ setups = 0 /\ fault = "none"

-----------------------------------------------------------------------------
(* setup and createPool, which fails when there is no file, no space for   *)
(* it or no memory for the wl_shm_pool; setup asserts that there is no     *)
(* wl_shm from an earlier one, failed or not.                              *)
Setup ==
  /\ ~shm /\ setups < MaxSetups
  /\ shm' = TRUE /\ setups' = setups + 1
  /\ \/ valid' = TRUE /\ serverSize' = size
     \/ UNCHANGED <<valid, serverSize>>
  /\ UNCHANGED <<size, offset, buffers, drawn, requests, held, releases, fault>>

(* release destroys buffers and pool but leaves the size; what is still on *)
(* its way concerns nobody.                                                *)
Release ==
  /\ shm
  /\ shm' = FALSE /\ valid' = FALSE /\ offset' = 0 /\ buffers' = <<>> /\ drawn' = {}
  /\ requests' = <<>> /\ held' = {} /\ releases' = <<>>
  /\ UNCHANGED <<size, serverSize, setups, fault>>

(* getBuffer: the first buffer that fits, or else a new one, for which the *)
(* pool may have to grow                                                   *)
Free(n, f) ==
  {i \in DOMAIN buffers : /\ buffers[i].released /\ ~buffers[i].used
                          /\ buffers[i].bytes = n /\ buffers[i].format = f}

LeaveReleased(i) == buffers \* mutated form of Taken
Taken(i) == [buffers EXCEPT ![i].released = FALSE]

TakeReleased(n, f) ==
  /\ valid /\ Free(n, f) # {}
  /\ LET i == Min(Free(n, f))
     IN  buffers' = Taken(i) /\ drawn' = drawn \cup {i}
  /\ UNCHANGED <<shm, valid, size, offset, requests, serverSize, held, releases, setups, fault>>

OffByOne(n) == offset + n > size + 1 \* mutated form of Grows
Grows(n) == offset + n > size
Overflows(n) == offset + n > MaxInt \/ (Grows(n) /\ size + n > MaxInt)

(* resizePool, which changes nothing when there is no space for the file.  *)
Growth(n) == IF Grows(n) THEN <<[resize |-> size + n]>> ELSE <<>>

Create(n, f) ==
  LET i == Len(buffers) + 1
  IN  /\ valid /\ Free(n, f) = {} /\ i \in Index /\ ~Overflows(n)
      /\ buffers' = Append(buffers, [offset |-> offset, bytes |-> n, format |-> f,
                                     released |-> FALSE, used |-> FALSE])
      /\ offset' = offset + n
      /\ size' = IF Grows(n) THEN size + n ELSE size
      /\ requests' = requests \o Growth(n) \o <<[create |-> i]>>
      /\ drawn' = drawn \cup {i}
      /\ UNCHANGED <<shm, valid, serverSize, held, releases, setups, fault>>

(* The pool has grown, but there is no memory for the wl_buffer.           *)
CreateFails(n, f) ==
  /\ valid /\ Free(n, f) = {} /\ ~Overflows(n) /\ Grows(n)
  /\ size' = size + n
  /\ requests' = requests \o Growth(n)
  /\ UNCHANGED <<shm, valid, offset, buffers, drawn, serverSize, held, releases, setups, fault>>

(* What mmap returns when it fails is not the null pointer that createPool *)
(* and resizePool look for.                                                *)
MappingFails ==
  /\ \/ ~shm /\ setups < MaxSetups
     \/ valid /\ \E n \in Bytes, f \in Format : Free(n, f) = {} /\ ~Overflows(n) /\ Grows(n)
  /\ fault' = "unmapped"
  /\ UNCHANGED <<shm, valid, size, offset, buffers, drawn, requests, serverSize, held, releases,
                 setups>>

Overflow(n, f) ==
  /\ valid /\ Free(n, f) = {} /\ Overflows(n)
  /\ fault' = "overflow"
  /\ UNCHANGED <<shm, valid, size, offset, buffers, drawn, requests, serverSize, held, releases,
                 setups>>

-----------------------------------------------------------------------------
(* The application attaches a buffer that it has drawn.                    *)
Attach(i) ==
  /\ i \in drawn
  /\ drawn' = drawn \ {i}
  /\ requests' = Append(requests, [attach |-> i])
  /\ UNCHANGED <<shm, valid, size, offset, buffers, serverSize, held, releases, setups, fault>>

SetUsed(i, used) ==
  /\ i \in DOMAIN buffers /\ buffers[i].used # used
  /\ buffers' = [buffers EXCEPT ![i].used = used]
  /\ UNCHANGED <<shm, valid, size, offset, drawn, requests, serverSize, held, releases, setups,
                 fault>>

(* With Redraws: a buffer kept by setUsed is drawn again once isReleased   *)
(* says that the server is done with it.                                   *)
Redraw(i) ==
  /\ Redraws
  /\ i \in DOMAIN buffers /\ buffers[i].used /\ buffers[i].released
  /\ drawn' = drawn \cup {i}
  /\ UNCHANGED <<shm, valid, size, offset, buffers, requests, serverSize, held, releases, setups,
                 fault>>

(* Buffer::Private::releasedCallback                                       *)
ReadRelease ==
  /\ releases # <<>>
  /\ buffers' = [buffers EXCEPT ![Head(releases)].released = TRUE]
  /\ releases' = Tail(releases)
  /\ UNCHANGED <<shm, valid, size, offset, drawn, requests, serverSize, held, setups, fault>>

(* The server, which refuses buffers outside its pool                      *)
End(i) == buffers[i].offset + buffers[i].bytes

HandleRequest ==
  /\ requests # <<>>
  /\ requests' = Tail(requests)
  /\ LET r == Head(requests)
     IN  \/ /\ "resize" \in DOMAIN r
            /\ serverSize' = r.resize
            /\ UNCHANGED <<held, fault>>
         \/ /\ "create" \in DOMAIN r
            /\ fault' = IF End(r.create) > serverSize THEN "outside" ELSE fault
            /\ UNCHANGED <<serverSize, held>>
         \/ /\ "attach" \in DOMAIN r
            /\ held' = held \cup {r.attach}
            /\ UNCHANGED <<serverSize, fault>>
  /\ UNCHANGED <<shm, valid, size, offset, buffers, drawn, releases, setups>>

ServerReleases(i) ==
  /\ i \in held
  /\ held' = held \ {i} /\ releases' = Append(releases, i)
  /\ UNCHANGED <<shm, valid, size, offset, buffers, drawn, requests, serverSize, setups, fault>>

Next ==
  /\ fault = "none"
  /\ \/ Setup \/ Release \/ ReadRelease \/ HandleRequest
     \/ MappingFails
     \/ \E n \in Bytes, f \in Format : \/ TakeReleased(n, f) \/ Create(n, f)
                                      \/ CreateFails(n, f) \/ Overflow(n, f)
     \/ \E i \in Index : Attach(i) \/ Redraw(i) \/ ServerReleases(i)
     \/ \E i \in Index, used \in BOOLEAN : SetUsed(i, used)

Spec == Init /\ [][Next]_vars

-----------------------------------------------------------------------------
(* Buffers the server reads, or will when it has read what was sent.       *)
AtServer == held \cup {i \in DOMAIN buffers : [attach |-> i] \in Range(requests)}

(* No two buffers share memory, and all are within the pool as both sides  *)
(* have it when they use them (shm_pool.cpp:245-268).                      *)
SlotsApart ==
  /\ fault # "outside"
  /\ \A i, j \in DOMAIN buffers :
       /\ i < j => End(i) <= buffers[j].offset
       /\ End(i) <= size

(* "the server released the buffer" (shm_pool.h:67): nobody draws what the *)
(* server still reads (shm_pool.cpp:235-244, buffer.cpp:64-69).            *)
NotReadWhileDrawn == drawn \cap AtServer = {}

(* With Redraws: "true if the Wayland server doesn't need the Buffer       *)
(* anymore" (buffer.h:94)                                                  *)
ReleasedMeansFree == \A i \in DOMAIN buffers : buffers[i].released => i \notin AtServer

(* A pool grows as much as an application asks for: buffers of sizes that  *)
(* are not used any more keep their memory (shm_pool.cpp:245-268).         *)
NoOverflow == fault # "overflow"

(* A pool that is valid is mapped: "Creating Shm pool failed"              *)
(* (shm_pool.cpp:129)                                                      *)
MappingNoticed == fault # "unmapped"
=============================================================================
