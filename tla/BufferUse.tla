------------------------------ MODULE BufferUse ------------------------------
(***************************************************************************)
(* Server-side Buffer objects for the wl_buffers of a client, who shares   *)
(* them, when they are released, and access to their shared memory:        *)
(* server/buffer.cpp, server/wayland/buffer_manager.cpp and the states of  *)
(* a surface.  Every attach makes an object; the compositor keeps the      *)
(* current one as long as it likes, and images of their data.              *)
(***************************************************************************)
EXTENDS Naturals, FiniteSets

CONSTANTS
  Resource,  \* wl_buffers, all in shared memory, there from the start
  Object,    \* Buffer objects
  MaxAccess, \* bound of images at a time
  Recommits, \* whether clients attach buffers that were not released
  None       \* the null pointer

(* What is assumed of the constants.                                       *)
Assumptions ==
  /\ None \notin Resource \cup Object
  /\ Recommits \in BOOLEAN

VARIABLES
  resources, \* wl_buffers that are not destroyed
  madeOf,    \* the wl_buffer of a Buffer
  pending,   \* SurfaceState::buffer of the pending state
  attached,  \* surface_change::buffer in its updates
  current,   \* SurfaceState::buffer of the current state
  held,      \* Buffers that the compositor keeps
  committed, \* Buffer::Private::committed
  busy,      \* wl_buffers the client committed and was not sent a release of
  images,    \* number of ShmImages of a Buffer
  qimages,   \* number of QImages of a wl_buffer
  accessed,  \* BufferManager::m_accessedShmBuffer
  counter,   \* BufferManager::m_accessCounter
  fault      \* a wl_shm_buffer or a Buffer was used after it was freed

surfaceVars == <<pending, attached, current, held, committed, busy>>
accessVars == <<images, qimages, accessed, counter>>
vars == <<resources, madeOf, surfaceVars, accessVars, fault>>

References(p, c, hs) == ({p, c} \cup hs) \ {None}
Objects == References(pending, current, held)

TypeOK ==
  /\ resources \subseteq Resource /\ madeOf \in [Object -> Resource \cup {None}]
  /\ {pending, current} \subseteq Object \cup {None} /\ attached \in BOOLEAN
  /\ held \subseteq Object /\ committed \subseteq Object /\ busy \subseteq Resource
  /\ images \in [Object -> 0 .. MaxAccess] /\ qimages \in [Resource -> 0 .. MaxAccess]
  /\ accessed \in Resource \cup {None} /\ counter \in 0 .. MaxAccess /\ fault \in BOOLEAN

Init ==
  /\ resources = Resource /\ madeOf = [o \in Object |-> None]
  /\ pending = None /\ attached = FALSE /\ current = None
  /\ held = {} /\ committed = {} /\ busy = {}
  /\ images = [o \in Object |-> 0] /\ qimages = [r \in Resource |-> 0]
  /\ accessed = None /\ counter = 0 /\ fault = FALSE

-----------------------------------------------------------------------------
(* ~Buffer releases the wl_buffer if it was committed and still exists.    *)
Released(os) == {madeOf[o] : o \in os \cap committed} \cap resources

Replaced(p, c, hs) == Objects \ {p, c} \* mutated form of Dropped
Dropped(p, c, hs) == Objects \ References(p, c, hs)

(* attachBuffer, also of a null buffer                                     *)
Attach(o, r) ==
  /\ o \notin Objects /\ images[o] = 0 /\ r \in resources
  /\ Recommits \/ r \notin busy
  /\ madeOf' = [madeOf EXCEPT ![o] = r]
  /\ committed' = committed \ {o}
  /\ pending' = o /\ attached' = TRUE
  /\ busy' = busy \ Released(Dropped(o, current, held))
  /\ UNCHANGED <<resources, current, held, accessVars, fault>>

AttachNull ==
  /\ pending' = None /\ attached' = TRUE
  /\ busy' = busy \ Released(Dropped(None, current, held))
  /\ UNCHANGED <<resources, madeOf, current, held, committed, accessVars, fault>>

(* Commit and update_buffer                                                *)
Commit ==
  /\ attached
  /\ attached' = FALSE /\ pending' = None
  /\ current' = pending
  /\ committed' = committed \cup ({pending} \ {None})
  /\ busy' = (busy \cup {madeOf[o] : o \in {pending} \ {None}})
             \ Released(Dropped(None, pending, held))
  /\ UNCHANGED <<resources, madeOf, held, accessVars, fault>>

Hold ==
  /\ current \notin held \cup {None}
  /\ held' = held \cup {current}
  /\ UNCHANGED <<resources, madeOf, pending, attached, current, committed, busy, accessVars,
                 fault>>

Drop(o) ==
  /\ o \in held
  /\ held' = held \ {o}
  /\ busy' = busy \ Released(Dropped(pending, current, held \ {o}))
  /\ UNCHANGED <<resources, madeOf, pending, attached, current, committed, accessVars, fault>>

(* The surface lets go of the Buffer, others only lose the resource.       *)
DestroyResource(r) ==
  /\ r \in resources
  /\ resources' = resources \ {r} /\ busy' = busy \ {r}
  /\ pending' = IF pending # None /\ madeOf[pending] = r THEN None ELSE pending
  /\ current' = IF current # None /\ madeOf[current] = r THEN None ELSE current
  /\ UNCHANGED <<madeOf, attached, held, committed, accessVars, fault>>

-----------------------------------------------------------------------------
(* beginShmAccess: one buffer at a time                                    *)
AnyAccess(r) == TRUE \* mutated form of MayAccess
MayAccess(r) == accessed \in {None, r}

BeginAccess(r) ==
  /\ counter < MaxAccess
  /\ counter' = counter + 1 /\ accessed' = r

(* ShmImage::get                                                           *)
GetImage(o) ==
  /\ o \in Objects /\ MayAccess(madeOf[o])
  /\ BeginAccess(madeOf[o])
  /\ images' = [images EXCEPT ![o] = @ + 1]
  /\ fault' = (madeOf[o] \notin resources)
  /\ UNCHANGED <<resources, madeOf, surfaceVars, qimages>>

(* Another ShmImage or a QImage from a ShmImage, which has the Buffer and  *)
(* so the wl_shm_buffer by a plain pointer                                 *)
Stale(o) == o \notin Objects \/ madeOf[o] \notin resources

CopyImage(o) ==
  /\ images[o] > 0
  /\ BeginAccess(madeOf[o])
  /\ images' = [images EXCEPT ![o] = @ + 1]
  /\ fault' = Stale(o)
  /\ UNCHANGED <<resources, madeOf, surfaceVars, qimages>>

CreateQImage(o) ==
  /\ images[o] > 0
  /\ BeginAccess(madeOf[o])
  /\ qimages' = [qimages EXCEPT ![madeOf[o]] = @ + 1]
  /\ fault' = Stale(o)
  /\ UNCHANGED <<resources, madeOf, surfaceVars, images>>

(* endShmAccess                                                            *)
AfterAccess == IF counter = 1 THEN None ELSE accessed
EndAccess ==
  /\ counter' = counter - 1
  /\ accessed' = AfterAccess
  /\ fault' = (accessed \notin resources)

DestroyImage(o) ==
  /\ images[o] > 0
  /\ EndAccess
  /\ images' = [images EXCEPT ![o] = @ - 1]
  /\ UNCHANGED <<resources, madeOf, surfaceVars, qimages>>

DestroyQImage(r) ==
  /\ qimages[r] > 0
  /\ EndAccess
  /\ qimages' = [qimages EXCEPT ![r] = @ - 1]
  /\ UNCHANGED <<resources, madeOf, surfaceVars, images>>

Next ==
  /\ ~fault
  /\ \/ \E o \in Object, r \in Resource : Attach(o, r)
     \/ AttachNull \/ Commit \/ Hold
     \/ \E o \in Object : \/ Drop(o) \/ GetImage(o) \/ CopyImage(o)
                          \/ CreateQImage(o) \/ DestroyImage(o)
     \/ \E r \in Resource : DestroyResource(r) \/ DestroyQImage(r)

Spec == Init /\ [][Next]_vars

-----------------------------------------------------------------------------
(* A client that waits for releases is sent one exactly when nobody on the *)
(* server uses the buffer any more: neither too early, while the surface   *)
(* or the compositor shows it, nor never (buffer.cpp:375-381,              *)
(* surface.cpp:451-482, 733-763).                                          *)
ReleasedWhenUnused == busy = {madeOf[o] : o \in Objects \cap committed} \cap resources

(* The images there are, numbered by what they are made of.                *)
ImagesOf(count, makers) == UNION {{m} \X (1 .. count[m]) : m \in makers}

(* The buffer that is accessed is that of every image there is, and access *)
(* ends with the last (buffer_manager.cpp:53-79).                          *)
AccessCounted ==
  /\ counter = Cardinality(ImagesOf(images, Object)) + Cardinality(ImagesOf(qimages, Resource))
  /\ accessed = None <=> counter = 0
  /\ \A o \in Object : images[o] > 0 => madeOf[o] = accessed
  /\ \A r \in Resource : qimages[r] > 0 => r = accessed

(* Shared memory is accessed while it is there (buffer_manager.cpp:74).    *)
AccessAlive == ~fault
=============================================================================
