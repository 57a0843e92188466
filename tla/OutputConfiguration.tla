------------------------- MODULE OutputConfiguration -------------------------
(***************************************************************************)
(* Output configurations a client asks of the compositor                   *)
(* (server/wlr_output_manager_v1.cpp, wlr_output_head_v1.cpp and           *)
(* wlr_output_configuration_v1.cpp).  The manager numbers the sets of      *)
(* heads it announces; a configuration is for one number, and is cancelled *)
(* when the next set is announced.  A used configuration belongs to the    *)
(* compositor, which answers it later, while the client may destroy it.    *)
(* The client has one bind; what it configures of a head is left out.      *)
(*                                                                         *)
(* manager::done iterates over the configurations while each one it        *)
(* cancels takes itself out.  What the loop then visits is undefined; this *)
(* is what the vectors of the standard libraries do.                       *)
(* A step that fails an assertion or follows a null or freed pointer ends  *)
(* the run and is recorded in `fault'.                                     *)
(***************************************************************************)
EXTENDS Integers, Lists

CONSTANTS
  Output,     \* the outputs heads are for, which come and go once each
  Config,     \* names of configurations
  MaxSerial   \* bound of announced sets of heads

(* What is assumed of the constants.                                       *)
Assumptions == MaxSerial \in Nat

VARIABLES
  manager,    \* whether the manager exists
  stopped,    \* whether the bind of the client is in finished_binds
  heads,      \* heads of the manager
  gone,       \* heads that are gone
  released,   \* heads whose resource the client released
  changed,    \* manager: whether heads changed since the last done
  serial,     \* manager: number of the last done
  waiting,    \* manager: configurations
  fronts,     \* wlr_output_configuration_v1 objects
  resources,  \* wlr_output_configuration_v1_res objects
  linked,     \* fronts whose manager pointer was not reset
  serialOf,   \* serialOf[c]: the number the client made c with
  on, off,    \* heads each configuration enables and disables
  used,       \* is_used
  cancelled,  \* is_cancelled
  answers,    \* answers[c]: succeeded, failed and cancelled events sent
  fault

headVars == <<heads, gone, released, changed>>
objectVars == <<fronts, resources, linked>>
requestVars == <<serialOf, on, off, used>>
vars == <<manager, stopped, serial, headVars, waiting, objectVars, requestVars, cancelled,
          answers, fault>>

TypeOK ==
  /\ {manager, stopped, changed} \subseteq BOOLEAN
  /\ heads \subseteq Output /\ gone \subseteq Output /\ released \subseteq Output
  /\ serial \in 0 .. MaxSerial /\ Range(waiting) \subseteq Config
  /\ fronts \subseteq Config /\ resources \subseteq Config /\ linked \subseteq Config
  /\ serialOf \in [Config -> 0 .. MaxSerial]
  /\ on \in [Config -> SUBSET Output] /\ off \in [Config -> SUBSET Output]
  /\ used \subseteq Config /\ cancelled \subseteq Config
  /\ answers \in [Config -> 0 .. 2]
  /\ fault \in {"none", "cancelled_twice", "null_head", "freed_head", "null_manager",
               "freed_manager"}

Init ==
  /\ manager = TRUE /\ stopped = FALSE /\ serial = 0
  /\ heads = {} /\ gone = {} /\ released = {} /\ changed = FALSE
  /\ waiting = <<>> /\ fronts = {} /\ resources = {} /\ linked = {}
  /\ serialOf = [c \in Config |-> 0]
  /\ on = [c \in Config |-> {}] /\ off = [c \in Config |-> {}]
  /\ used = {} /\ cancelled = {}
  /\ answers = [c \in Config |-> 0]
  /\ fault = "none"

-----------------------------------------------------------------------------
(* The compositor adds and removes heads and changes their data.           *)
AddHead(h) ==
  /\ manager /\ h \notin heads \cup gone
  /\ heads' = heads \cup {h} /\ changed' = TRUE
  /\ UNCHANGED <<manager, stopped, serial, gone, released, waiting, objectVars, requestVars,
                 cancelled, answers, fault>>

RemoveHead(h) ==
  /\ manager /\ h \in heads
  /\ heads' = heads \ {h} /\ gone' = gone \cup {h} /\ changed' = TRUE
  /\ UNCHANGED <<manager, stopped, serial, released, waiting, objectVars, requestVars,
                 cancelled, answers, fault>>

ChangeHead ==
  /\ manager /\ heads # {}
  /\ changed' = TRUE
  /\ UNCHANGED <<manager, stopped, serial, heads, gone, released, waiting, objectVars,
                 requestVars, cancelled, answers, fault>>

(* Whoever takes itself out moves the others forward: every second one is  *)
(* skipped, and what is left behind the end is the last one, which the     *)
(* loop visits up to the old end, from three on more than once.            *)
Visited == {waiting[i] : i \in {k \in DOMAIN waiting : k % 2 = 1 \/ k = Len(waiting)}}
StillWaiting == waiting \* mutated form of Missed
Missed == [k \in 1 .. (Len(waiting) - 1) \div 2 |-> waiting[2 * k]]

(* wlr_output_manager_v1::done *)
Done ==
  /\ manager /\ changed /\ serial < MaxSerial
  /\ changed' = FALSE
  /\ serial' = serial + 1
  /\ waiting' = Missed
  /\ cancelled' = cancelled \cup Visited
  /\ answers' = [c \in Config |-> IF c \in Visited THEN answers[c] + 1 ELSE answers[c]]
  /\ fault' = IF Len(waiting) > 2 THEN "cancelled_twice" ELSE fault
  /\ UNCHANGED <<manager, stopped, heads, gone, released, objectVars, requestVars>>

(* The heads go before their manager; those that wait forget it.           *)
DestroyManager ==
  /\ manager /\ heads = {}
  /\ manager' = FALSE
  /\ linked' = linked \ Range(waiting)
  /\ waiting' = <<>>
  /\ UNCHANGED <<stopped, serial, headVars, fronts, resources, requestVars, cancelled, answers,
                 fault>>

-----------------------------------------------------------------------------
Stop ==
  /\ manager /\ ~stopped
  /\ stopped' = TRUE
  /\ UNCHANGED <<manager, serial, headVars, waiting, objectVars, requestVars, cancelled, answers,
                 fault>>

(* A client goes by the number of the last done it has read; one for an    *)
(* earlier number is cancelled at once.                                    *)
AlmostFresh(n) == n + 1 >= serial \* mutated form of Fresh
Fresh(n) == n = serial

Create(c, n) ==
  /\ manager /\ ~stopped /\ c \notin fronts \cup resources \cup used \cup cancelled
  /\ fronts' = fronts \cup {c} /\ resources' = resources \cup {c} /\ linked' = linked \cup {c}
  /\ serialOf' = [serialOf EXCEPT ![c] = n]
  /\ on' = [on EXCEPT ![c] = {}] /\ off' = [off EXCEPT ![c] = {}]
  /\ waiting' = IF Fresh(n) THEN Append(waiting, c) ELSE waiting
  /\ cancelled' = IF Fresh(n) THEN cancelled ELSE cancelled \cup {c}
  /\ answers' = [answers EXCEPT ![c] = IF Fresh(n) THEN 0 ELSE 1]
  /\ UNCHANGED <<manager, stopped, serial, headVars, used, fault>>

(* enable_head; a head that is gone while the request is on its way has no *)
(* output to take the state from.  Heads configured twice and used         *)
(* configurations are protocol errors, and not sent.                       *)
EnableHead(c, h) ==
  /\ c \in resources \ used /\ h \notin on[c] \cup off[c]
  /\ h \in (heads \cup gone) \ released
  /\ on' = [on EXCEPT ![c] = @ \cup {h}]
  /\ fault' = IF h \in gone THEN "null_head" ELSE fault
  /\ UNCHANGED <<manager, stopped, serial, headVars, waiting, objectVars, serialOf, off, used,
                 cancelled, answers>>

DisableHead(c, h) ==
  /\ c \in resources \ used /\ h \notin on[c] \cup off[c]
  /\ h \in (heads \cup gone) \ released
  /\ off' = [off EXCEPT ![c] = @ \cup {h}]
  /\ UNCHANGED <<manager, stopped, serial, headVars, waiting, objectVars, serialOf, on, used,
                 cancelled, answers, fault>>

(* The client may release a head that is there or gone.                    *)
ReleaseHead(h) ==
  /\ h \in (heads \cup gone) \ released
  /\ released' = released \cup {h}
  /\ UNCHANGED <<manager, stopped, serial, heads, gone, changed, waiting, objectVars, requestVars,
                 cancelled, answers, fault>>

(* check_all_heads_configured goes through the heads of the manager, and   *)
(* for each through the heads of the configuration up to the one for it:   *)
(* the order of these decides whether it reads one that is gone as well as *)
(* released.                                                               *)
Freed(c) == (on[c] \cup off[c]) \cap released
CheckFaults(c) ==
  IF ~manager THEN {"null_manager"}
  ELSE IF heads \cap Freed(c) # {} THEN {"freed_head"}
  ELSE IF heads # {} /\ Freed(c) # {} THEN {fault, "freed_head"}
  ELSE {fault}

(* apply and test: ignored when cancelled, else every head must be         *)
(* configured, and the compositor gets the configuration.  It is in the    *)
(* list once.                                                              *)
KeepWaiting(c) == waiting \* mutated form of WaitingWithout
WaitingWithout(c) == RemoveOne(waiting, c)

Use(c) ==
  /\ c \in resources \ (used \cup cancelled)
  /\ heads \subseteq on[c] \cup off[c]
  /\ used' = used \cup {c}
  /\ waiting' = WaitingWithout(c)
  /\ fault' \in CheckFaults(c)
  /\ UNCHANGED <<manager, stopped, serial, headVars, objectVars, serialOf, on, off, cancelled,
                 answers>>

(* A front that goes takes itself out of its manager.                      *)
FrontGone(c) ==
  /\ fronts' = fronts \ {c} /\ linked' = linked \ {c}
  /\ waiting' = WaitingWithout(c)
  /\ fault' = IF c \in linked /\ ~manager THEN "freed_manager" ELSE fault

(* The client destroys a configuration.                                    *)
DestroyConfig(c) ==
  /\ c \in resources
  /\ resources' = resources \ {c}
  /\ IF c \in used \/ c \notin fronts
       THEN UNCHANGED <<fronts, linked, waiting, fault>>
       ELSE FrontGone(c)
  /\ UNCHANGED <<manager, stopped, serial, headVars, requestVars, cancelled, answers>>

(* The compositor reports success or failure of a used configuration.      *)
Answer(c) ==
  /\ c \in fronts \cap used
  /\ answers' = [answers EXCEPT ![c] = IF c \in resources THEN @ + 1 ELSE @]
  /\ FrontGone(c)
  /\ UNCHANGED <<manager, stopped, serial, headVars, resources, requestVars, cancelled>>

Next ==
  /\ fault = "none"
  /\ \/ \E h \in Output : AddHead(h) \/ RemoveHead(h) \/ ReleaseHead(h)
     \/ ChangeHead \/ Done \/ DestroyManager \/ Stop
     \/ \E c \in Config, n \in 0 .. serial : Create(c, n)
     \/ \E c \in Config, h \in Output : EnableHead(c, h) \/ DisableHead(c, h)
     \/ \E c \in Config : Use(c) \/ DestroyConfig(c) \/ Answer(c)

Spec == Init /\ [][Next]_vars

-----------------------------------------------------------------------------
(* The compositor is only handed a configuration for the heads announced   *)
(* last: one that waits while other sets are announced is cancelled first, *)
(* and one made late never waits (wlr_output_manager_v1.cpp:65-128).       *)
UsedFresh ==
  fault = "none" => \A c \in Range(waiting) : serialOf[c] = serial /\ c \notin used

(* A configuration is answered once, by the compositor or by a cancel,     *)
(* with fronts and resources that are destroyed in any order               *)
(* (wlr_output_configuration_v1.cpp:35-90).                                *)
AnsweredOnce ==
  fault = "none" => \A c \in Config : answers[c] <= 1

(* Every configuration that waits is cancelled, once: the assertion        *)
(* "assert(!d_ptr->is_cancelled);" (wlr_output_configuration_v1.cpp:264).  *)
CancelledOnce == fault # "cancelled_twice"

(* A request about a head that is gone is harmless.                        *)
HeadsPresent == fault \notin {"null_head", "freed_head"}

(* No configuration outlives its manager.                                  *)
ManagerAlive == fault \notin {"null_manager", "freed_manager"}
=============================================================================
