----------------------------- MODULE Connection -----------------------------
(***************************************************************************)
(* The connection of a client, its event queue and its registry:           *)
(* src/client/connection_thread.cpp, event_queue.cpp, registry.cpp and     *)
(* wayland_pointer_p.h.  The ConnectionThread lives in a thread of its     *)
(* own: it connects, reads and notices that the connection is lost.  The   *)
(* rest lives in the main thread, which the signals reach in order, but    *)
(* later; whoever connects to a signal does not hear of earlier ones.      *)
(* Reconnecting frees the previous wl_display, and a use of what was made  *)
(* of it ends the run and is recorded in `fault'.                          *)
(*                                                                         *)
(* The application releases its EventQueue when it hears of a loss, as the *)
(* tests do, and creates objects of interfaces that it was told of.        *)
(***************************************************************************)
EXTENDS Naturals, Lists

CONSTANTS
  Name,        \* numeric names of globals
  Interface,   \* interfaces
  MaxConnects, \* bound of attempts to connect
  MaxChanges,  \* bound of globals that come and go
  Reuse,       \* whether a released Registry is set up again
  Careful,     \* whether the application connects only without connection
  None

(* What is assumed of the constants.                                       *)
Assumptions ==
  /\ None \notin Interface /\ IsFiniteSet(Name)
  /\ MaxConnects \in Nat /\ MaxChanges \in Nat
  /\ Reuse \in BOOLEAN /\ Careful \in BOOLEAN

VARIABLES
  globals,     \* server: the interface of each name
  used,        \* server: names that were given
  changes,     \* server: changes so far
  display,     \* ConnectionThread::Private::display, 0 for null
  connects,    \* attempts so far
  established, \* ConnectionThread::Private::established
  error,       \* ConnectionThread::Private::error
  failure,     \* protocolError, or none
  call,        \* doEstablishConnection is queued
  signals,     \* slots of the main thread that are queued
  known,       \* main: what the last establishedChanged said
  queue,       \* main: EventQueue::Private::display
  registry,    \* main: Registry::Private::registry, by its display
  listens,     \* main: the registry is connected to establishedChanged
  interfaces,  \* main: Registry::Private::m_interfaces
  objects,     \* main: objects that the registry created
  misled,      \* main: hasProtocolError returned true without one
  fault        \* "none" or "freed_display"

serverVars == <<globals, used, changes>>
threadVars == <<display, connects, established, failure, call>>
mainVars == <<known, queue, registry, listens, interfaces, objects>>
vars == <<serverVars, threadVars, error, signals, mainVars, misled, fault>>

Announced == [name : Name, interface : Interface]

TypeOK ==
  /\ globals \in [Name -> Interface \cup {None}] /\ used \subseteq Name
  /\ changes \in 0 .. MaxChanges /\ connects \in 0 .. MaxConnects
  /\ {display, queue, registry} \subseteq 0 .. MaxConnects
  /\ {established, call, known, listens, misled} \subseteq BOOLEAN
  /\ error \in {"none", "reset", "protocol"} /\ failure \in BOOLEAN
  /\ Range(interfaces) \subseteq Announced
  /\ objects \subseteq [display : 1 .. MaxConnects, name : Name, removed : BOOLEAN]
  /\ fault \in {"none", "freed_display"}

Init ==
  /\ globals = [n \in Name |-> None] /\ used = {} /\ changes = 0
  /\ display = 0 /\ connects = 0 /\ established = FALSE
  /\ error = "none" /\ failure = FALSE /\ call = FALSE
  /\ signals = <<>> /\ known = FALSE /\ queue = 0 /\ registry = 0 /\ listens = FALSE
  /\ interfaces = <<>> /\ objects = {} /\ misled = FALSE /\ fault = "none"

-----------------------------------------------------------------------------
Signal(kind, name, interface, d) ==
  [kind |-> kind, name |-> name, interface |-> interface, display |-> d]

(* What the server sends to the registry is read and reaches the queue.    *)
Send(s) ==
  signals' = IF registry = display /\ registry # 0 /\ established THEN Append(signals, s)
             ELSE signals

AddGlobal(n, i) ==
  /\ changes < MaxChanges /\ n \notin used
  /\ changes' = changes + 1
  /\ globals' = [globals EXCEPT ![n] = i] /\ used' = used \cup {n}
  /\ Send(Signal("global", n, i, display))
  /\ UNCHANGED <<threadVars, error, mainVars, misled, fault>>

RemoveGlobal(n) ==
  /\ changes < MaxChanges /\ globals[n] # None
  /\ changes' = changes + 1
  /\ globals' = [globals EXCEPT ![n] = None]
  /\ Send(Signal("global_removed", n, None, display))
  /\ UNCHANGED <<used, threadVars, error, mainVars, misled, fault>>

(* The dispatch fails, because the server is gone or by a protocol error.  *)
Lose(serverGone) ==
  /\ established
  /\ established' = FALSE
  /\ error' = IF serverGone THEN "reset" ELSE "protocol"
  /\ failure' = ~serverGone
  /\ signals' = Append(signals, Signal("lost", None, None, IF listens THEN registry ELSE 0))
  /\ IF serverGone THEN globals' = [n \in Name |-> None] /\ used' = {}
     ELSE UNCHANGED <<globals, used>>
  /\ UNCHANGED <<changes, display, connects, call, mainVars, misled, fault>>

(* ConnectionThread::Private::doEstablishConnection                        *)
DoEstablish(succeeds) ==
  /\ call
  /\ call' = FALSE
  /\ connects' = connects + 1
  /\ display' = IF succeeds THEN connects + 1 ELSE 0
  /\ established' = (succeeds \/ established)
  /\ signals' = IF succeeds THEN Append(signals, Signal("established", None, None, 0))
                ELSE signals
  /\ UNCHANGED <<serverVars, error, failure, mainVars, misled, fault>>

-----------------------------------------------------------------------------
(* establishConnection                                                     *)
Establish ==
  /\ ~call /\ connects < MaxConnects
  /\ Careful => ~known /\ queue = 0 /\ ~\E s \in Range(signals) : s.kind # "global_removed"
  /\ call' = TRUE
  /\ error' = "none" /\ failure' = FALSE
  /\ UNCHANGED <<serverVars, display, connects, established, signals, mainVars, misled, fault>>

Freed(d) == d \notin {0, display}

HandleEstablished(s) ==
  /\ s.kind = "established"
  /\ known' = TRUE
  /\ UNCHANGED <<queue, registry, listens, interfaces, objects, fault>>

(* Registry::create tells the objects and releases itself.                 *)
KeepObjects == objects \* mutated form of Surviving
Surviving == {}

HandleLost(s) ==
  LET hears == s.display # 0 /\ registry = s.display
      released == {queue} \cup (IF hears THEN {registry} \cup {o.display : o \in objects} ELSE {})
  IN  /\ s.kind = "lost"
      /\ known' = FALSE /\ queue' = 0
      /\ registry' = IF hears THEN 0 ELSE registry
      /\ objects' = IF hears THEN Surviving ELSE objects
      /\ fault' = IF \E d \in released : Freed(d) THEN "freed_display" ELSE fault
      /\ UNCHANGED <<listens, interfaces>>

(* EventQueue::dispatch, then Registry::Private::handleAnnounce and        *)
(* handleRemove, which erases the first entry of the name; the removed     *)
(* signal of objects is for their name.                                    *)
AllWithout(n) == <<>> \* mutated form of Without
Without(n) == EraseFirst(interfaces, {i \in DOMAIN interfaces : interfaces[i].name = n})

HandleGlobal(s) ==
  /\ s.kind \in {"global", "global_removed"}
  /\ fault' = IF Freed(queue) THEN "freed_display" ELSE fault
  /\ IF s.display # queue \/ s.display # registry THEN UNCHANGED <<interfaces, objects>>
     ELSE IF s.kind = "global"
     THEN /\ interfaces' = Append(interfaces, [name |-> s.name, interface |-> s.interface])
          /\ UNCHANGED objects
     ELSE /\ interfaces' = Without(s.name)
          /\ objects' = {[o EXCEPT !.removed = @ \/ o.name = s.name] : o \in objects}
  /\ UNCHANGED <<known, queue, registry, listens>>

Handle ==
  /\ signals # <<>>
  /\ signals' = Tail(signals)
  /\ HandleEstablished(Head(signals)) \/ HandleLost(Head(signals)) \/ HandleGlobal(Head(signals))
  /\ UNCHANGED <<serverVars, threadVars, error, misled>>

(* EventQueue::setup and Registry::create with a new Registry or with the  *)
(* one that was released; the old one is destroyed.                        *)
Announcements ==
  LET ns == Listing({n \in Name : globals[n] # None})
  IN  [i \in DOMAIN ns |-> Signal("global", ns[i], globals[ns[i]], display)]

Setup(isNew) ==
  /\ known /\ queue = 0 /\ display # 0
  /\ IF isNew THEN TRUE ELSE Reuse /\ listens /\ registry = 0
  /\ IF isNew /\ Freed(registry)
       THEN fault' = "freed_display" /\ UNCHANGED <<queue, registry, listens, interfaces, signals>>
       ELSE /\ queue' = display /\ registry' = display /\ listens' = TRUE
            /\ interfaces' = IF isNew THEN <<>> ELSE interfaces
            /\ signals' = IF established THEN signals \o Announcements ELSE signals
            /\ UNCHANGED fault
  /\ UNCHANGED <<serverVars, threadVars, error, known, objects, misled>>

(* Registry::Private::create and bind                                      *)
Create(n) ==
  /\ registry # 0 /\ \E a \in Range(interfaces) : a.name = n
  /\ ~\E o \in objects : o.name = n
  /\ objects' = objects \cup {[display |-> registry, name |-> n, removed |-> FALSE]}
  /\ fault' = IF Freed(registry) THEN "freed_display" ELSE fault
  /\ UNCHANGED <<serverVars, threadVars, error, signals, known, queue, registry, listens,
                 interfaces, misled>>

Release(o) ==
  /\ o \in objects
  /\ objects' = objects \ {o}
  /\ fault' = IF Freed(o.display) THEN "freed_display" ELSE fault
  /\ UNCHANGED <<serverVars, threadVars, error, signals, known, queue, registry, listens,
                 interfaces, misled>>

(* hasProtocolError: return d->error = EPROTO                              *)
HasProtocolError ==
  /\ error # "protocol"
  /\ error' = "protocol" /\ misled' = TRUE
  /\ UNCHANGED <<serverVars, threadVars, signals, mainVars, fault>>

Next ==
  /\ fault = "none"
  /\ \/ \E n \in Name, i \in Interface : AddGlobal(n, i)
     \/ \E n \in Name : RemoveGlobal(n) \/ Create(n)
     \/ \E b \in BOOLEAN : Lose(b) \/ DoEstablish(b) \/ Setup(b)
     \/ Establish \/ Handle \/ HasProtocolError
     \/ \E o \in objects : Release(o)

Spec == Init /\ [][Next]_vars

-----------------------------------------------------------------------------
(* The objects that a registry created are released before the display     *)
(* that they belong to is freed, however the signals of the thread and the *)
(* calls of the main thread interleave (registry.cpp:711-716, 948-963,     *)
(* connection_thread.cpp:105-136).                                         *)
ObjectsAlive == \A o \in objects : o.display = display

(* Once everything has arrived, a Registry of the living connection knows  *)
(* the globals of the server, and its objects whether theirs was removed   *)
(* (registry.cpp:798-829, 948-963).                                        *)
RegistryKnows ==
  signals = <<>> /\ established /\ registry = display /\ queue = display =>
    /\ \A n \in Name, i \in Interface :
         globals[n] = i <=> [name |-> n, interface |-> i] \in Range(interfaces)
    /\ \A o \in objects : o.removed <=> globals[o.name] = None

(* With a Registry that was released, which "can be setup with another     *)
(* wl_registry interface" (src/client/registry.h:237): RegistryKnows.      *)

(* Nothing of a freed display is used (connection_thread.cpp:114,          *)
(* registry.cpp:711).                                                      *)
DisplayAlive == fault = "none"

(* flush and roundtrip find a display while the connection is established  *)
(* (connection_thread.cpp:251-278), also after an attempt to connect that  *)
(* failed.                                                                 *)
EstablishedHasDisplay == established => display # 0

(* "true if there was a protocol error" (src/client/connection_thread.h:   *)
(* 226)                                                                    *)
NotMisled == ~misled
=============================================================================
