---------------------------- MODULE MirrorsProofs ----------------------------
(***************************************************************************)
(* What clients see is what the server has, once everything under way has  *)
(* arrived: proofs for any windows, desktops, outputs and globals.  In     *)
(* each part the messages and requests under way make up the difference,   *)
(* in the order they are handled.                                          *)
(***************************************************************************)
EXTENDS ObjectsProofs

-----------------------------------------------------------------------------
(* Globals: what a registry of the living connection was told and will be  *)
(* told makes up what the server has.  A name is announced once and        *)
(* withdrawn once, in this order.                                          *)
Announces(s, n) == s.kind = "global" /\ s.name = n /\ s.display = display
Withdraws(s, n) == s.kind = "global_removed" /\ s.name = n /\ s.display = display
SignalPlaces == 1 .. Len(signals)
Coming(n) == \E i \in SignalPlaces : Announces(signals[i], n)
Leaving(n) == \E i \in SignalPlaces : Withdraws(signals[i], n)
Heard(n) == \E r \in Listed(interfaces) : r.name = n

ToldInOrder(n) ==
  \A i, j \in SignalPlaces :
    /\ Announces(signals[i], n) /\ Announces(signals[j], n) => i = j
    /\ Withdraws(signals[i], n) /\ Withdraws(signals[j], n) => i = j
    /\ Announces(signals[i], n) /\ Withdraws(signals[j], n) => i < j
ComingKnown(n) ==
  /\ Coming(n) => ~Heard(n)
  /\ \A i \in SignalPlaces :
       Announces(signals[i], n) => signals[i].interface = globals[n] \/ Leaving(n)
LeavingKnown(n) == Leaving(n) => globals[n] = None /\ (Heard(n) \/ Coming(n))
HeardKnown(n) ==
  /\ globals[n] # None => Heard(n) \/ Coming(n)
  /\ \A r \in Listed(interfaces) : r.name = n => r.interface = globals[n] \/ Leaving(n)
ObjectsFollow(n) ==
  \A o \in objects : o.name = n => IF o.removed THEN globals[n] = None /\ n \in connectionUsed
                                   ELSE Heard(n)
NewUnheard(n) == n \notin connectionUsed => ~Heard(n) /\ ~Coming(n) /\ ~Leaving(n)
Follows(n) ==
  /\ ToldInOrder(n) /\ ComingKnown(n) /\ LeavingKnown(n) /\ HeardKnown(n)
  /\ ObjectsFollow(n) /\ NewUnheard(n)

Entry == [name : Name, interface : Interface]
NamesOnce ==
  Distinct(interfaces) /\ \A r, t \in Listed(interfaces) : r.name = t.name => r = t
KnowsTypes ==
  /\ \A i \in SignalPlaces :
       /\ signals[i].display <= connects
       /\ signals[i].kind \in {"global", "global_removed"} => signals[i].name \in Name
       /\ signals[i].kind = "global" => signals[i].interface \in Interface
  /\ registry <= connects /\ display <= connects /\ (established => display # 0)
  /\ connectionUsed \subseteq Name
  /\ \A n \in Name : globals[n] # None => n \in connectionUsed
  /\ interfaces \in Seq(Entry)
Serves == established /\ registry = display
Unannounced ==
  established /\ registry # display => \A n \in Name : ~Coming(n) /\ ~Leaving(n)
KnowsInv ==
  /\ KnowsTypes /\ Unannounced
  /\ Serves => queue = display /\ NamesOnce /\ \A n \in Name : Follows(n)

LEMMA KnowsInit ==
  ASSUME Connections!Init
  PROVE  KnowsInv
<1> USE DEF Connections!Init
<1>1. KnowsTypes
  <2>1. interfaces \in Seq(Entry) /\ Len(signals) = 0
    OBVIOUS
  <2> QED
    BY <2>1 DEF KnowsTypes, SignalPlaces
<1>2. ~established
  OBVIOUS
<1> QED
  BY <1>1, <1>2 DEF KnowsInv, Unannounced, Serves

(* Nothing is said of a connection that is down.                           *)
LEMMA KnowsDown ==
  ASSUME KnowsTypes', ~established'
  PROVE  KnowsInv'
BY DEF KnowsInv, Unannounced, Serves

(* A step that a name is not concerned by.                                 *)
Same(n) ==
  /\ \A r : r.name = n => (r \in Listed(interfaces)' <=> r \in Listed(interfaces))
  /\ \A o : o.name = n => (o \in objects' <=> o \in objects)
  /\ globals'[n] = globals[n]
  /\ display' = display /\ (n \in connectionUsed' <=> n \in connectionUsed)

LEMMA FollowsSent ==
  ASSUME NEW n, Follows(n), signals \in Seq(Slot), NEW s \in Slot, s.name # n,
         signals' = Append(signals, s), Same(n)
  PROVE  Follows(n)'
<1>1. /\ Len(signals') = Len(signals) + 1 /\ Len(signals) \in Nat
      /\ \A i \in 1 .. Len(signals) : signals'[i] = signals[i]
      /\ signals'[Len(signals) + 1] = s
  OBVIOUS
<1>2. \A i \in SignalPlaces' : Announces(signals[i], n)' => i \in SignalPlaces /\ Announces(signals[i], n)
  BY <1>1 DEF SignalPlaces, Announces, Same
<1>3. \A i \in SignalPlaces' : Withdraws(signals[i], n)' => i \in SignalPlaces /\ Withdraws(signals[i], n)
  BY <1>1 DEF SignalPlaces, Withdraws, Same
<1>4. \A i \in SignalPlaces : /\ i \in SignalPlaces' /\ signals'[i] = signals[i]
                              /\ Announces(signals[i], n) => Announces(signals[i], n)'
                              /\ Withdraws(signals[i], n) => Withdraws(signals[i], n)'
  BY <1>1 DEF SignalPlaces, Withdraws, Announces, Same
<1>5. (Coming(n)' <=> Coming(n)) /\ (Leaving(n)' <=> Leaving(n)) /\ (Heard(n)' <=> Heard(n))
  BY <1>2, <1>3, <1>4 DEF Coming, Leaving, Heard, Same
<1>6. ToldInOrder(n)'
  BY <1>2, <1>3 DEF ToldInOrder, Follows
<1>7. ComingKnown(n)'
  BY <1>2, <1>4, <1>5 DEF ComingKnown, Follows, Same
<1>8. LeavingKnown(n)' /\ HeardKnown(n)' /\ ObjectsFollow(n)' /\ NewUnheard(n)'
  BY <1>5 DEF LeavingKnown, HeardKnown, ObjectsFollow, NewUnheard, Follows, Same
<1> QED
  BY <1>6, <1>7, <1>8 DEF Follows

LEMMA FollowsHandled ==
  ASSUME NEW n, Follows(n), signals \in Seq(Slot), signals # <<>>,
         ~Announces(signals[1], n), ~Withdraws(signals[1], n),
         signals' = Tail(signals), Same(n)
  PROVE  Follows(n)'
<1>1. /\ Len(signals) \in Nat \ {0} /\ Len(signals') = Len(signals) - 1
      /\ \A i \in 1 .. Len(signals) - 1 : signals'[i] = signals[i + 1]
  OBVIOUS
<1>2. \A i \in SignalPlaces' : i + 1 \in SignalPlaces /\ signals'[i] = signals[i + 1] /\ i \in Int
  BY <1>1 DEF SignalPlaces
<1>3. \A i \in SignalPlaces' : /\ Announces(signals[i], n)' <=> Announces(signals[i + 1], n)
                               /\ Withdraws(signals[i], n)' <=> Withdraws(signals[i + 1], n)
  BY <1>2 DEF Announces, Withdraws, Same
<1>4. \A i \in SignalPlaces : i = 1 \/ (i - 1 \in SignalPlaces' /\ signals'[i - 1] = signals[i])
  BY <1>1 DEF SignalPlaces
<1>5. /\ Coming(n)' <=> Coming(n)
      /\ Leaving(n)' <=> Leaving(n)
      /\ Heard(n)' <=> Heard(n)
  <2>1. Coming(n)' => Coming(n)
    BY <1>2, <1>3 DEF Coming
  <2>2. Leaving(n)' => Leaving(n)
    BY <1>2, <1>3 DEF Leaving
  <2>3. Coming(n) => Coming(n)'
    BY <1>4 DEF Coming, Announces, Same
  <2>4. Leaving(n) => Leaving(n)'
    BY <1>4 DEF Leaving, Withdraws, Same
  <2> QED
    BY <2>1, <2>2, <2>3, <2>4 DEF Heard, Same
<1>6. ToldInOrder(n)'
  <2> SUFFICES ASSUME NEW i \in SignalPlaces', NEW j \in SignalPlaces'
               PROVE  /\ Announces(signals[i], n)' /\ Announces(signals[j], n)' => i = j
                      /\ Withdraws(signals[i], n)' /\ Withdraws(signals[j], n)' => i = j
                      /\ Announces(signals[i], n)' /\ Withdraws(signals[j], n)' => i < j
    BY DEF ToldInOrder
  <2>1. /\ i + 1 \in SignalPlaces /\ j + 1 \in SignalPlaces /\ i \in Int /\ j \in Int
        /\ i + 1 = j + 1 => i = j
        /\ i + 1 < j + 1 => i < j
    BY <1>2
  <2> QED
    BY <1>3, <2>1 DEF ToldInOrder, Follows
<1>7. ComingKnown(n)'
  BY <1>2, <1>3, <1>5 DEF ComingKnown, Follows, Same
<1>8. LeavingKnown(n)' /\ HeardKnown(n)' /\ ObjectsFollow(n)' /\ NewUnheard(n)'
  BY <1>5 DEF LeavingKnown, HeardKnown, ObjectsFollow, NewUnheard, Follows, Same
<1> QED
  BY <1>6, <1>7, <1>8 DEF Follows

(* The server announces a global.                                          *)
LEMMA FollowsAdded ==
  ASSUME NEW n, Follows(n), n \notin connectionUsed, n \in connectionUsed', signals \in Seq(Slot),
         NEW s \in Slot, Announces(s, n), signals' = Append(signals, s), globals'[n] = s.interface,
         UNCHANGED <<interfaces, objects, display>>
  PROVE  Follows(n)'
<1>1. /\ Len(signals') = Len(signals) + 1 /\ Len(signals) \in Nat
      /\ \A i \in 1 .. Len(signals) : signals'[i] = signals[i]
      /\ signals'[Len(signals) + 1] = s
  OBVIOUS
<1>2. ~Heard(n) /\ ~Coming(n) /\ ~Leaving(n)
  BY DEF Follows, NewUnheard
<1>3. \A i \in SignalPlaces' : i = Len(signals) + 1 \/ (i \in SignalPlaces /\ signals'[i] = signals[i])
  BY <1>1 DEF SignalPlaces
<1>4. ~Withdraws(s, n) /\ (Announces(s, n)' <=> Announces(s, n)) /\ (Withdraws(s, n)' <=> Withdraws(s, n))
  BY DEF Announces, Withdraws
<1>5. \A i \in SignalPlaces' : /\ Announces(signals[i], n)' => i = Len(signals) + 1
                               /\ ~Withdraws(signals[i], n)'
  BY <1>1, <1>2, <1>3, <1>4 DEF Coming, Leaving, Announces, Withdraws
<1>6. Coming(n)'
  <2>1. Len(signals) + 1 \in SignalPlaces'
    BY <1>1 DEF SignalPlaces
  <2> QED
    BY <1>1, <1>4, <2>1 DEF Coming, Announces
<1>7. ~Leaving(n)' /\ ~Heard(n)'
  BY <1>2, <1>5 DEF Leaving, Heard, Listed
<1>8. ToldInOrder(n)'
  BY <1>5 DEF ToldInOrder
<1>9. ComingKnown(n)'
  BY <1>1, <1>5, <1>7 DEF ComingKnown
<1>10. LeavingKnown(n)' /\ HeardKnown(n)' /\ NewUnheard(n)'
  BY <1>6, <1>7 DEF LeavingKnown, HeardKnown, NewUnheard, Heard
<1>11. ObjectsFollow(n)'
  BY <1>2 DEF ObjectsFollow, Follows
<1> QED
  BY <1>8, <1>9, <1>10, <1>11 DEF Follows

(* The server withdraws a global.                                          *)
LEMMA FollowsRemoved ==
  ASSUME NEW n, Follows(n), n \in connectionUsed, connectionUsed' = connectionUsed,
         signals \in Seq(Slot), globals[n] # None,
         NEW s \in Slot, Withdraws(s, n), signals' = Append(signals, s), globals'[n] = None,
         UNCHANGED <<interfaces, objects, display>>
  PROVE  Follows(n)'
<1>1. /\ Len(signals') = Len(signals) + 1 /\ Len(signals) \in Nat
      /\ \A i \in 1 .. Len(signals) : signals'[i] = signals[i]
      /\ signals'[Len(signals) + 1] = s
  OBVIOUS
<1>2. ~Leaving(n)
  BY DEF Follows, LeavingKnown
<1>3. \A i \in SignalPlaces' : \/ i = Len(signals) + 1
                               \/ i \in SignalPlaces /\ i < Len(signals) + 1 /\ signals'[i] = signals[i]
  BY <1>1 DEF SignalPlaces
<1>4. ~Announces(s, n) /\ (Announces(s, n)' <=> Announces(s, n)) /\ (Withdraws(s, n)' <=> Withdraws(s, n))
  BY DEF Announces, Withdraws
<1>5. \A i \in SignalPlaces' : /\ Announces(signals[i], n)' =>
                                    /\ i \in SignalPlaces /\ Announces(signals[i], n)
                                    /\ i < Len(signals) + 1 /\ signals'[i] = signals[i]
                               /\ Withdraws(signals[i], n)' => i = Len(signals) + 1
  BY <1>1, <1>2, <1>3, <1>4 DEF Leaving, Announces, Withdraws
<1>6. Leaving(n)'
  <2>1. Len(signals) + 1 \in SignalPlaces'
    BY <1>1 DEF SignalPlaces
  <2> QED
    BY <1>1, <1>4, <2>1 DEF Leaving, Withdraws
<1>7. (Coming(n)' <=> Coming(n)) /\ (Heard(n)' <=> Heard(n))
  <2>1. Coming(n)' => Coming(n)
    BY <1>5 DEF Coming
  <2>2. Coming(n) => Coming(n)'
    BY <1>1 DEF Coming, SignalPlaces, Announces
  <2> QED
    BY <2>1, <2>2 DEF Heard, Listed
<1>8. ToldInOrder(n)'
  <2> SUFFICES ASSUME NEW i \in SignalPlaces', NEW j \in SignalPlaces'
               PROVE  /\ Announces(signals[i], n)' /\ Announces(signals[j], n)' => i = j
                      /\ Withdraws(signals[i], n)' /\ Withdraws(signals[j], n)' => i = j
                      /\ Announces(signals[i], n)' /\ Withdraws(signals[j], n)' => i < j
    BY DEF ToldInOrder
  <2> QED
    BY <1>5 DEF ToldInOrder, Follows
<1>9. ComingKnown(n)'
  BY <1>6, <1>7 DEF ComingKnown, Follows
<1>10. LeavingKnown(n)'
  BY <1>7 DEF LeavingKnown, HeardKnown, Follows
<1>11. HeardKnown(n)' /\ NewUnheard(n)'
  BY <1>6 DEF HeardKnown, NewUnheard
<1>12. ObjectsFollow(n)'
  BY <1>7 DEF ObjectsFollow, Follows
<1> QED
  BY <1>8, <1>9, <1>10, <1>11, <1>12 DEF Follows

(* The registry reads that a global is there.                              *)
LEMMA FollowsHeard ==
  ASSUME NEW n \in Name, Follows(n), signals \in Seq(Slot), signals # <<>>, Announces(signals[1], n),
         signals' = Tail(signals), interfaces \in Seq(Entry), signals[1].interface \in Interface,
         interfaces' = Append(interfaces, [name |-> n, interface |-> signals[1].interface]),
         UNCHANGED <<globals, connectionUsed, objects, display>>
  PROVE  Follows(n)'
<1>1. /\ Len(signals) \in Nat \ {0} /\ Len(signals') = Len(signals) - 1
      /\ \A i \in 1 .. Len(signals) - 1 : signals'[i] = signals[i + 1]
  OBVIOUS
<1>2. /\ 1 \in SignalPlaces
      /\ \A i \in SignalPlaces' : /\ i + 1 \in SignalPlaces /\ signals'[i] = signals[i + 1]
                                  /\ i \in Int /\ i + 1 # 1
  BY <1>1 DEF SignalPlaces
<1>3. \A i \in SignalPlaces : i = 1 \/ (i - 1 \in SignalPlaces' /\ signals'[i - 1] = signals[i])
  BY <1>1 DEF SignalPlaces
<1>4. \A i \in SignalPlaces' : /\ ~Announces(signals[i], n)'
                               /\ Withdraws(signals[i], n)' <=> Withdraws(signals[i + 1], n)
  BY <1>2 DEF Announces, Withdraws, Follows, ToldInOrder
<1>5. ~Coming(n)' /\ Coming(n) /\ ~Heard(n)
  BY <1>2, <1>4 DEF Coming, Follows, ComingKnown
<1>6. Leaving(n)' <=> Leaving(n)
  <2>1. Leaving(n)' => Leaving(n)
    BY <1>2, <1>4 DEF Leaving
  <2>2. Leaving(n) => Leaving(n)'
    BY <1>3 DEF Leaving, Withdraws, Announces
  <2> QED
    BY <2>1, <2>2
<1>7. PICK r \in Entry : r = [name |-> n, interface |-> signals[1].interface]
  BY DEF Entry
<1>8. Listed(interfaces)' = Listed(interfaces) \cup {r}
  <2>1. Listed(Append(interfaces, r)) = Listed(interfaces) \cup {r}
    BY AppendListed
  <2>2. interfaces' = Append(interfaces, r)
    BY <1>7
  <2> QED
    BY <2>1, <2>2
<1>9. Heard(n)'
  BY <1>7, <1>8 DEF Heard
<1>10. ToldInOrder(n)'
  <2> SUFFICES ASSUME NEW i \in SignalPlaces', NEW j \in SignalPlaces'
               PROVE  Withdraws(signals[i], n)' /\ Withdraws(signals[j], n)' => i = j
    BY <1>4 DEF ToldInOrder
  <2>1. i + 1 \in SignalPlaces /\ j + 1 \in SignalPlaces /\ (i + 1 = j + 1 => i = j)
    BY <1>2
  <2> QED
    BY <1>4, <2>1 DEF ToldInOrder, Follows
<1>11. ComingKnown(n)'
  BY <1>4, <1>5 DEF ComingKnown
<1>12. LeavingKnown(n)'
  BY <1>6, <1>9 DEF LeavingKnown, Follows
<1>13. HeardKnown(n)'
  <2>1. r.name = n /\ (r.interface = globals[n] \/ Leaving(n))
    BY <1>2, <1>7 DEF ComingKnown, Follows
  <2> QED
    BY <1>6, <1>8, <1>9, <2>1 DEF HeardKnown, Follows
<1>14. ObjectsFollow(n)' /\ NewUnheard(n)'
  BY <1>5, <1>9 DEF ObjectsFollow, NewUnheard, Follows
<1> QED
  BY <1>10, <1>11, <1>12, <1>13, <1>14 DEF Follows

(* The registry reads that a global is gone.                               *)
LEMMA FollowsUnheard ==
  ASSUME NEW n, Follows(n), signals \in Seq(Slot), signals # <<>>, Withdraws(signals[1], n),
         signals' = Tail(signals),
         Listed(interfaces)' \subseteq {r \in Listed(interfaces) : r.name # n},
         \A o \in objects' : o.name = n => o.removed,
         UNCHANGED <<globals, connectionUsed, display>>
  PROVE  Follows(n)'
<1>1. /\ Len(signals) \in Nat \ {0} /\ Len(signals') = Len(signals) - 1
      /\ \A i \in 1 .. Len(signals) - 1 : signals'[i] = signals[i + 1]
  OBVIOUS
<1>2. /\ 1 \in SignalPlaces
      /\ \A i \in SignalPlaces' : /\ i + 1 \in SignalPlaces /\ signals'[i] = signals[i + 1]
                                  /\ i \in Int /\ i + 1 # 1 /\ ~(i + 1 < 1)
  BY <1>1 DEF SignalPlaces
<1>3. Leaving(n) /\ globals[n] = None /\ n \in connectionUsed
  <2>1. Leaving(n)
    BY <1>2 DEF Leaving
  <2> QED
    BY <2>1 DEF Follows, LeavingKnown, NewUnheard
<1>4. \A i \in SignalPlaces' : ~Announces(signals[i], n)' /\ ~Withdraws(signals[i], n)'
  <2> SUFFICES ASSUME NEW i \in SignalPlaces'
               PROVE  ~Announces(signals[i], n)' /\ ~Withdraws(signals[i], n)'
    OBVIOUS
  <2>1. ~Announces(signals[i + 1], n) /\ ~Withdraws(signals[i + 1], n)
    BY <1>2 DEF Follows, ToldInOrder
  <2> QED
    BY <1>2, <2>1 DEF Announces, Withdraws
<1>5. ~Coming(n)' /\ ~Leaving(n)' /\ ~Heard(n)'
  BY <1>4 DEF Coming, Leaving, Heard
<1>6. ToldInOrder(n)'
  BY <1>4 DEF ToldInOrder
<1>7. ComingKnown(n)' /\ LeavingKnown(n)' /\ HeardKnown(n)' /\ ObjectsFollow(n)' /\ NewUnheard(n)'
  BY <1>3, <1>4, <1>5 DEF ComingKnown, LeavingKnown, HeardKnown, ObjectsFollow, NewUnheard, Heard
<1> QED
  BY <1>6, <1>7 DEF Follows

(* Steps of the server                                                     *)
LEMMA KnowsGlobals ==
  ASSUME Connections!Assumptions, ConnectionInv, KnowsInv, NEW m \in Name,
         \/ \E x \in Interface : Connections!AddGlobal(m, x)
         \/ Connections!RemoveGlobal(m)
  PROVE  KnowsInv'
<1>1. PICK s \in Slot :
        /\ s.name = m /\ s.display = display
        /\ \/ /\ Connections!RemoveGlobal(m) /\ s.kind = "global_removed"
              /\ globals[m] # None /\ globals' = [globals EXCEPT ![m] = None]
              /\ connectionUsed' = connectionUsed
           \/ /\ s.kind = "global" /\ s.interface \in Interface
              /\ m \notin connectionUsed /\ connectionUsed' = connectionUsed \cup {m}
              /\ globals' = [globals EXCEPT ![m] = s.interface]
        /\ Connections!Send(s)
  <2>1. CASE Connections!RemoveGlobal(m)
    <3>1. PICK s : s = Connections!Signal("global_removed", m, None, display)
      OBVIOUS
    <3>2. s \in Slot /\ s.name = m /\ s.display = display /\ s.kind = "global_removed"
      BY <3>1 DEF Connections!Signal, Slot, ConnectionInv, ConnectionTypes
    <3> QED
      BY <2>1, <3>1, <3>2 DEF Connections!RemoveGlobal
  <2>2. ASSUME NEW x \in Interface, Connections!AddGlobal(m, x)
        PROVE  \E s \in Slot :
                 /\ s.name = m /\ s.display = display
                 /\ s.kind = "global" /\ s.interface \in Interface
                 /\ m \notin connectionUsed /\ connectionUsed' = connectionUsed \cup {m}
                 /\ globals' = [globals EXCEPT ![m] = s.interface]
                 /\ Connections!Send(s)
    <3>1. PICK s : s = Connections!Signal("global", m, x, display)
      OBVIOUS
    <3>2. s \in Slot /\ s.name = m /\ s.display = display /\ s.kind = "global" /\ s.interface = x
      BY <3>1 DEF Connections!Signal, Slot, ConnectionInv, ConnectionTypes
    <3> QED
      BY <2>2, <3>1, <3>2 DEF Connections!AddGlobal
  <2> QED
    BY <2>1, <2>2
<1>2. UNCHANGED <<display, connects, established, registry, queue, interfaces, objects>>
  BY DEF Connections!AddGlobal, Connections!RemoveGlobal, Connections!threadVars, Connections!mainVars
<1>3. /\ signals \in Seq(Slot) /\ globals \in [Name -> Interface \cup {None}] /\ None \notin Interface
      /\ display \in Nat /\ connects \in Nat
  BY DEF ConnectionInv, ConnectionTypes, Connections!Assumptions
<1>4. \/ Serves /\ signals' = Append(signals, s)
      \/ ~Serves /\ signals' = signals
  BY <1>1 DEF Connections!Send, Serves, KnowsInv, KnowsTypes
<1>5. /\ \A n \in Name \ {m} : /\ globals'[n] = globals[n]
                               /\ n \in connectionUsed' <=> n \in connectionUsed
      /\ m \in connectionUsed' /\ connectionUsed' \subseteq Name
      /\ globals'[m] = IF s.kind = "global" THEN s.interface ELSE None
  BY <1>1, <1>3 DEF KnowsInv, KnowsTypes
<1>6. KnowsTypes'
  <2>1. /\ registry' <= connects' /\ display' <= connects' /\ (established' => display' # 0)
        /\ connectionUsed' \subseteq Name /\ interfaces' \in Seq(Entry)
        /\ \A n \in Name : globals'[n] # None => n \in connectionUsed'
    BY <1>2, <1>5 DEF KnowsInv, KnowsTypes
  <2>2. \A i \in SignalPlaces' :
          /\ signals'[i].display <= connects
          /\ signals'[i].kind \in {"global", "global_removed"} => signals'[i].name \in Name
          /\ signals'[i].kind = "global" => signals'[i].interface \in Interface
    <3>1. CASE signals' = signals
      BY <3>1 DEF KnowsInv, KnowsTypes, SignalPlaces
    <3>2. CASE signals' = Append(signals, s)
      <4>1. /\ Len(signals') = Len(signals) + 1 /\ Len(signals) \in Nat
            /\ \A i \in 1 .. Len(signals) : signals'[i] = signals[i]
            /\ signals'[Len(signals) + 1] = s
        BY <1>3, <3>2
      <4>2. \A i \in SignalPlaces' : signals'[i] = s \/ (i \in SignalPlaces /\ signals'[i] = signals[i])
        BY <4>1 DEF SignalPlaces
      <4>3. s.display <= connects /\ s.name \in Name /\ (s.kind = "global" => s.interface \in Interface)
        BY <1>1, <1>3 DEF KnowsInv, KnowsTypes
      <4> QED
        BY <4>2, <4>3 DEF KnowsInv, KnowsTypes
    <3> QED
      BY <1>4, <3>1, <3>2
  <2> QED
    BY <1>2, <2>1, <2>2 DEF KnowsTypes
<1>7. CASE ~Serves
  <2>1. ~Serves' /\ signals' = signals
    BY <1>2, <1>4, <1>7 DEF Serves
  <2>2. Unannounced'
    BY <1>2, <2>1 DEF Unannounced, KnowsInv, Coming, Leaving, SignalPlaces, Announces, Withdraws
  <2> QED
    BY <1>6, <2>1, <2>2 DEF KnowsInv
<1>8. CASE Serves
  <2>1. Serves' /\ queue' = display' /\ NamesOnce' /\ signals' = Append(signals, s)
    BY <1>2, <1>4, <1>8 DEF Serves, KnowsInv, NamesOnce, Listed, Distinct
  <2>2. Unannounced'
    BY <2>1 DEF Unannounced, Serves
  <2>3. ASSUME NEW n \in Name PROVE Follows(n)'
    <3>1. Follows(n)
      BY <1>8 DEF KnowsInv
    <3>2. CASE n # m
      <4>1. Same(n)
        BY <1>2, <1>5, <3>2 DEF Same, Listed
      <4> QED
        BY <1>1, <1>3, <2>1, <3>1, <3>2, <4>1, FollowsSent
    <3>3. CASE n = m /\ s.kind = "global"
      <4>1. Announces(s, n) /\ n \notin connectionUsed
        BY <1>1, <3>3 DEF Announces
      <4> QED
        BY <1>2, <1>3, <1>5, <2>1, <3>1, <3>3, <4>1, FollowsAdded
    <3>4. CASE n = m /\ s.kind = "global_removed"
      <4>1. Withdraws(s, n) /\ globals[n] # None /\ connectionUsed' = connectionUsed
        BY <1>1, <3>4 DEF Withdraws
      <4>2. n \in connectionUsed /\ globals'[n] = None
        BY <1>5, <3>4, <4>1
      <4> QED
        BY <1>2, <1>3, <2>1, <3>1, <4>1, <4>2, FollowsRemoved
    <3> QED
      BY <1>1, <3>2, <3>3, <3>4
  <2> QED
    BY <1>6, <2>1, <2>2, <2>3 DEF KnowsInv
<1> QED
  BY <1>7, <1>8

(* The thread connects to a display that nothing was announced for.        *)
LEMMA KnowsThread ==
  ASSUME ConnectionInv, KnowsInv,
         \/ \E b \in BOOLEAN : Connections!Lose(b) \/ Connections!DoEstablish(b)
         \/ Connections!Establish
  PROVE  KnowsInv'
<1>1. /\ signals \in Seq(Slot) /\ globals \in [Name -> Interface \cup {None}]
      /\ display \in Nat /\ connects \in Nat /\ registry \in Nat
      /\ \A i \in SignalPlaces : signals[i].display \in Nat
  <2>1. /\ signals \in Seq(Slot) /\ globals \in [Name -> Interface \cup {None}]
        /\ display \in Nat /\ connects \in Nat /\ registry \in Nat
    BY DEF ConnectionInv, ConnectionTypes
  <2>2. \A i \in SignalPlaces : signals[i] \in Slot
    BY <2>1 DEF SignalPlaces
  <2>3. \A s \in Slot : s.display \in Nat
    BY DEF Slot
  <2> QED
    BY <2>1, <2>2, <2>3
<1>2. ASSUME NEW b \in BOOLEAN, Connections!Lose(b)
      PROVE  KnowsInv'
  <2>1. PICK s : s = Connections!Signal("lost", None, None, IF listens THEN registry ELSE 0)
    OBVIOUS
  <2>2. s \in Slot /\ s.kind = "lost" /\ s.display \in {registry, 0}
    BY <1>1, <2>1 DEF Connections!Signal, Slot
  <2>3. /\ signals' = Append(signals, s) /\ ~established'
        /\ \/ globals' = [n \in Name |-> None] /\ connectionUsed' = {}
           \/ UNCHANGED <<globals, connectionUsed>>
        /\ UNCHANGED <<display, connects, registry, interfaces>>
    BY <1>2, <2>1 DEF Connections!Lose, Connections!mainVars
  <2>4. /\ Len(signals') = Len(signals) + 1 /\ Len(signals) \in Nat
        /\ \A i \in 1 .. Len(signals) : signals'[i] = signals[i]
        /\ signals'[Len(signals) + 1] = s
    BY <1>1, <2>2, <2>3
  <2>5. \A i \in SignalPlaces' : signals'[i] = s \/ (i \in SignalPlaces /\ signals'[i] = signals[i])
    BY <2>4 DEF SignalPlaces
  <2>6. s.display <= connects
    BY <1>1, <2>2 DEF KnowsInv, KnowsTypes
  <2>7. KnowsTypes'
    <3>1. /\ connectionUsed' \subseteq Name
          /\ \A n \in Name : globals'[n] # None => n \in connectionUsed'
      BY <2>3 DEF KnowsInv, KnowsTypes
    <3>2. \A i \in SignalPlaces' :
            /\ signals'[i].display <= connects
            /\ signals'[i].kind \in {"global", "global_removed"} => signals'[i].name \in Name
            /\ signals'[i].kind = "global" => signals'[i].interface \in Interface
      BY <2>2, <2>5, <2>6 DEF KnowsInv, KnowsTypes
    <3> QED
      BY <2>3, <3>1, <3>2 DEF KnowsInv, KnowsTypes
  <2> QED
    BY <2>3, <2>7, KnowsDown
<1>3. ASSUME NEW b \in BOOLEAN, Connections!DoEstablish(b)
      PROVE  KnowsInv'
  <2>1. PICK s : s = Connections!Signal("established", None, None, 0)
    OBVIOUS
  <2>2. s \in Slot /\ s.kind = "established" /\ s.display = 0
    BY <2>1 DEF Connections!Signal, Slot
  <2>3. /\ call /\ connects' = connects + 1 /\ display' = IF b THEN connects + 1 ELSE 0
        /\ established' = (b \/ established)
        /\ signals' = IF b THEN Append(signals, s) ELSE signals
        /\ UNCHANGED <<globals, connectionUsed, registry, interfaces>>
    BY <1>3, <2>1 DEF Connections!DoEstablish, Connections!mainVars, Connections!serverVars
  <2>4. b => /\ Len(signals') = Len(signals) + 1 /\ Len(signals) \in Nat
             /\ \A i \in 1 .. Len(signals) : signals'[i] = signals[i]
             /\ signals'[Len(signals) + 1] = s
    BY <1>1, <2>2, <2>3
  <2>5. \A i \in SignalPlaces' : signals'[i] = s \/ (i \in SignalPlaces /\ signals'[i] = signals[i])
    BY <2>3, <2>4 DEF SignalPlaces
  <2>6. \A i \in SignalPlaces' : signals'[i].display <= connects
    BY <1>1, <2>2, <2>5 DEF KnowsInv, KnowsTypes
  <2>7. ~established /\ connects < connects + 1 /\ registry < connects + 1
    BY <1>1, <2>3 DEF ConnectionInv, HeardAll, KnowsInv, KnowsTypes
  <2>8. KnowsTypes'
    <3>1. registry' <= connects' /\ display' <= connects' /\ (established' => display' # 0)
      BY <1>1, <2>3, <2>7
    <3>2. \A i \in SignalPlaces' :
            /\ signals'[i].display <= connects + 1
            /\ signals'[i].kind \in {"global", "global_removed"} => signals'[i].name \in Name
            /\ signals'[i].kind = "global" => signals'[i].interface \in Interface
      <4>1. \A i \in SignalPlaces' : signals'[i].display \in Nat
        BY <1>1, <2>2, <2>5
      <4>2. \A i \in SignalPlaces' : signals'[i].display <= connects + 1
        BY <1>1, <2>6, <4>1
      <4> QED
        BY <2>2, <2>5, <4>2 DEF KnowsInv, KnowsTypes
    <3> QED
      BY <2>3, <3>1, <3>2 DEF KnowsInv, KnowsTypes
  <2>9. CASE b
    <3>1. \A i \in SignalPlaces' : signals'[i].display # display'
      <4>1. \A i \in SignalPlaces' : signals'[i].display \in Nat
        BY <1>1, <2>2, <2>5
      <4>2. display' = connects + 1 /\ connects \in Nat
        BY <1>1, <2>3, <2>9
      <4>3. \A k \in Nat : k <= connects => k # connects + 1
        BY <4>2
      <4> QED
        BY <2>6, <4>1, <4>2, <4>3
    <3>2. registry' # display'
      BY <1>1, <2>3, <2>7, <2>9
    <3> QED
      BY <2>8, <3>1, <3>2 DEF KnowsInv, Unannounced, Serves, Coming, Leaving, Announces, Withdraws
  <2>10. CASE ~b
    BY <2>3, <2>7, <2>8, <2>10, KnowsDown
  <2> QED
    BY <2>9, <2>10
<1>4. CASE Connections!Establish
  <2>1. UNCHANGED <<globals, connectionUsed, display, connects, established, signals, queue, registry,
                    interfaces, objects>>
    BY <1>4 DEF Connections!Establish, Connections!mainVars, Connections!serverVars
  <2> QED
    BY <2>1 DEF KnowsInv, KnowsTypes, Unannounced, Serves, Coming, Leaving, Announces, Withdraws,
                SignalPlaces, NamesOnce, Listed, Distinct, Follows, ToldInOrder, ComingKnown,
                LeavingKnown, HeardKnown, ObjectsFollow, NewUnheard, Heard
<1> QED
  BY <1>2, <1>3, <1>4

(* Registry::Private::handleRemove takes out the one entry of the name.    *)
LEMMA WithoutName ==
  ASSUME NEW n, interfaces \in Seq(Entry)
  PROVE  /\ Connections!Without(n) \in Seq(Entry)
         /\ NamesOnce => /\ Distinct(Connections!Without(n))
                         /\ Listed(Connections!Without(n)) = {r \in Listed(interfaces) : r.name # n}
<1> DEFINE I == {i \in DOMAIN interfaces : interfaces[i].name = n}
<1>1. Len(interfaces) \in Nat /\ DOMAIN interfaces = 1 .. Len(interfaces)
  OBVIOUS
<1>2. CASE I = {}
  <2>1. Connections!Without(n) = interfaces
    BY <1>2 DEF Connections!Without, Connections!EraseFirst
  <2>2. \A r \in Listed(interfaces) : r.name # n
    BY <1>1, <1>2 DEF Listed
  <2> QED
    BY <2>1, <2>2 DEF NamesOnce
<1>3. CASE I # {}
  <2> DEFINE k == Least(I)
  <2>1. k \in I
    <3>1. \A S1 \in SUBSET (1 .. Len(interfaces)) : S1 # {} => Least(S1) \in S1
      BY <1>1, LeastPlace
    <3> QED
      BY <1>1, <1>3, <3>1
  <2>2. Connections!Without(n) = Rest(interfaces, k)
    BY <1>3 DEF Connections!Without, Connections!EraseFirst, Rest, Least
  <2> HIDE DEF k
  <2>3. k \in 1 .. Len(interfaces) /\ interfaces[k].name = n /\ interfaces[k] \in Listed(interfaces)
    BY <1>1, <2>1 DEF Listed
  <2>4. Rest(interfaces, k) \in Seq(Entry)
    BY <2>3, RestPlaces
  <2>5. NamesOnce => /\ Distinct(Rest(interfaces, k))
                     /\ Listed(Rest(interfaces, k)) = Listed(interfaces) \ {interfaces[k]}
    BY <2>3, RestListed DEF NamesOnce
  <2>6. NamesOnce => \A r \in Listed(interfaces) : r.name = n <=> r = interfaces[k]
    BY <2>3 DEF NamesOnce
  <2> QED
    BY <2>2, <2>4, <2>5, <2>6
<1> QED
  BY <1>2, <1>3

(* The main thread reads what was queued first.                            *)
LEMMA KnowsHandled ==
  ASSUME ConnectionInv, KnowsInv, Connections!Handle
  PROVE  KnowsInv'
<1>1. /\ signals \in Seq(Slot) /\ signals # <<>> /\ signals' = Tail(signals)
      /\ interfaces \in Seq(Entry) /\ registry \in Nat /\ display \in Nat /\ connects \in Nat
      /\ objects \subseteq [display : Nat, name : Name, removed : BOOLEAN]
      /\ UNCHANGED <<globals, connectionUsed, display, connects, established>>
  BY DEF ConnectionInv, ConnectionTypes, KnowsInv, KnowsTypes, Connections!Handle,
         Connections!serverVars, Connections!threadVars
<1>2. PICK s \in Slot : s = signals[1]
  BY <1>1
<1>3. /\ 1 \in SignalPlaces
      /\ \A i \in SignalPlaces' : i + 1 \in SignalPlaces /\ signals'[i] = signals[i + 1]
  <2>1. /\ Len(signals) \in Nat \ {0} /\ Len(signals') = Len(signals) - 1
        /\ \A i \in 1 .. Len(signals) - 1 : signals'[i] = signals[i + 1]
    BY <1>1
  <2> QED
    BY <2>1 DEF SignalPlaces
<1>4. /\ s.kind \in {"global", "global_removed"} => s.name \in Name
      /\ s.kind = "global" => s.interface \in Interface
  BY <1>2, <1>3 DEF KnowsInv, KnowsTypes
<1>5. \/ Connections!HandleEstablished(s) \/ Connections!HandleLost(s)
      \/ Connections!HandleGlobal(s)
  <2>1. s = Head(signals)
    BY <1>1, <1>2
  <2> QED
    BY <2>1 DEF Connections!Handle
<1>6. /\ registry' \in {registry, 0} /\ interfaces' \in Seq(Entry)
      /\ s.kind # "lost" => registry' = registry /\ queue' = queue
  <2>1. CASE Connections!HandleEstablished(s)
    BY <1>1, <2>1 DEF Connections!HandleEstablished
  <2>2. CASE Connections!HandleLost(s)
    BY <1>1, <2>2 DEF Connections!HandleLost
  <2>3. CASE Connections!HandleGlobal(s)
    <3>1. Connections!Without(s.name) \in Seq(Entry)
      BY <1>1, WithoutName
    <3>2. s.kind = "global" =>
            Append(interfaces, [name |-> s.name, interface |-> s.interface]) \in Seq(Entry)
      BY <1>1, <1>4 DEF Entry
    <3> QED
      BY <1>1, <2>3, <3>1, <3>2 DEF Connections!HandleGlobal
  <2> QED
    BY <1>5, <2>1, <2>2, <2>3
<1>7. KnowsTypes'
  <2>1. \A i \in SignalPlaces' :
          /\ signals'[i].display <= connects
          /\ signals'[i].kind \in {"global", "global_removed"} => signals'[i].name \in Name
          /\ signals'[i].kind = "global" => signals'[i].interface \in Interface
    BY <1>3 DEF KnowsInv, KnowsTypes
  <2>2. registry' <= connects
    BY <1>1, <1>6 DEF KnowsInv, KnowsTypes
  <2> QED
    BY <1>1, <1>6, <2>1, <2>2 DEF KnowsInv, KnowsTypes
<1>8. \A n : (Coming(n)' => Coming(n)) /\ (Leaving(n)' => Leaving(n))
  BY <1>1, <1>3 DEF Coming, Leaving, Announces, Withdraws
<1>9. CASE ~established
  BY <1>1, <1>7, <1>9, KnowsDown
<1>10. CASE established /\ registry # display
  <2>1. s.kind # "lost"
    BY <1>2, <1>3, <1>10 DEF ConnectionInv, LossLast, Queued, SignalPlaces
  <2> QED
    BY <1>1, <1>6, <1>7, <1>8, <1>10, <2>1 DEF KnowsInv, Unannounced, Serves
<1>11. CASE Serves
  <2>1. /\ s.kind # "lost" /\ queue = display /\ registry = display /\ established
        /\ NamesOnce /\ (\A n \in Name : Follows(n))
    BY <1>2, <1>3, <1>11 DEF ConnectionInv, LossLast, Queued, SignalPlaces, Serves, KnowsInv
  <2>2. Unannounced' /\ (Serves' => queue' = display')
    BY <1>1, <1>6, <2>1 DEF Unannounced
  <2>3. SUFFICES NamesOnce' /\ \A n \in Name : Follows(n)'
    BY <1>7, <2>2 DEF KnowsInv
  <2>4. CASE UNCHANGED <<interfaces, objects>>
             /\ \A n : ~Announces(s, n) /\ ~Withdraws(s, n)
    <3>1. \A n \in Name : Same(n)
      BY <1>1, <2>4 DEF Same, Listed
    <3>2. NamesOnce'
      BY <2>1, <2>4 DEF NamesOnce, Listed, Distinct
    <3>3. ASSUME NEW n \in Name PROVE Follows(n)'
      BY <1>1, <1>2, <2>1, <2>4, <3>1, FollowsHandled
    <3> QED
      BY <3>2, <3>3
  <2>5. CASE s.kind = "global" /\ s.display = display
    <3>1. PICK r \in Entry : r = [name |-> s.name, interface |-> s.interface]
      BY <1>4, <2>5 DEF Entry
    <3>2. interfaces' = Append(interfaces, r) /\ UNCHANGED objects
      BY <1>5, <2>1, <2>5, <3>1 DEF Connections!HandleGlobal, Connections!HandleEstablished,
                                    Connections!HandleLost
    <3>3. Listed(interfaces)' = Listed(interfaces) \cup {r}
          /\ (r \notin Listed(interfaces) => Distinct(interfaces)')
      <4>1. /\ Listed(Append(interfaces, r)) = Listed(interfaces) \cup {r}
            /\ r \notin Listed(interfaces) => Distinct(Append(interfaces, r))
        BY <1>1, <2>1, AppendListed DEF NamesOnce
      <4> QED
        BY <3>2, <4>1
    <3>4. /\ s.name \in Name /\ r.name = s.name /\ r.interface = s.interface
          /\ Announces(s, s.name) /\ \A n : n # s.name => ~Announces(s, n)
          /\ \A n : ~Withdraws(s, n)
      BY <1>4, <2>5, <3>1 DEF Announces, Withdraws
    <3>5. ~Heard(s.name)
      BY <1>2, <1>3, <2>1, <3>4 DEF Follows, ComingKnown, Coming
    <3>6. NamesOnce'
      BY <2>1, <3>3, <3>4, <3>5 DEF NamesOnce, Heard
    <3>7. ASSUME NEW n \in Name, n # s.name PROVE Follows(n)'
      <4>1. Same(n)
        BY <1>1, <3>2, <3>3, <3>4, <3>7 DEF Same
      <4> QED
        BY <1>1, <1>2, <2>1, <3>4, <3>7, <4>1, FollowsHandled
    <3>8. Follows(s.name)'
      <4>1. interfaces' = Append(interfaces, [name |-> s.name, interface |-> signals[1].interface])
        BY <1>2, <3>1, <3>2
      <4> QED
        BY <1>1, <1>2, <1>4, <2>1, <2>5, <3>2, <3>4, <4>1, FollowsHeard
    <3> QED
      BY <3>6, <3>7, <3>8
  <2>6. CASE s.kind = "global_removed" /\ s.display = display
    <3>1. /\ interfaces' = Connections!Without(s.name)
          /\ objects' = {[o EXCEPT !.removed = @ \/ o.name = s.name] : o \in objects}
      BY <1>5, <2>1, <2>6 DEF Connections!HandleGlobal, Connections!HandleEstablished,
                              Connections!HandleLost
    <3>2. /\ Distinct(interfaces)'
          /\ Listed(interfaces)' = {r \in Listed(interfaces) : r.name # s.name}
      <4>1. /\ Distinct(Connections!Without(s.name))
            /\ Listed(Connections!Without(s.name)) = {r \in Listed(interfaces) : r.name # s.name}
        BY <1>1, <2>1, WithoutName
      <4> QED
        BY <3>1, <4>1
    <3>3. /\ s.name \in Name /\ Withdraws(s, s.name)
          /\ \A n : n # s.name => ~Withdraws(s, n)
          /\ \A n : ~Announces(s, n)
      BY <1>4, <2>6 DEF Announces, Withdraws
    <3>4. NamesOnce'
      BY <2>1, <3>2 DEF NamesOnce
    <3>5. \A o \in objects : /\ o.name = s.name => [o EXCEPT !.removed = @ \/ o.name = s.name].removed
                             /\ o.name # s.name => [o EXCEPT !.removed = @ \/ o.name = s.name] = o
                             /\ [o EXCEPT !.removed = @ \/ o.name = s.name].name = o.name
      BY <1>1
    <3>6. ASSUME NEW n \in Name, n # s.name PROVE Follows(n)'
      <4>1. Same(n)
        <5>1. \A o : o.name = n => (o \in objects' <=> o \in objects)
          BY <3>1, <3>5, <3>6
        <5> QED
          BY <1>1, <3>2, <3>6, <5>1 DEF Same
      <4> QED
        BY <1>1, <1>2, <2>1, <3>3, <3>6, <4>1, FollowsHandled
    <3>7. Follows(s.name)'
      <4>1. \A o \in objects' : o.name = s.name => o.removed
        BY <3>1, <3>5
      <4> QED
        BY <1>1, <1>2, <2>1, <3>2, <3>3, <4>1, FollowsUnheard
    <3> QED
      BY <3>4, <3>6, <3>7
  <2> QED
    BY <1>5, <2>1, <2>4, <2>5, <2>6 DEF Connections!HandleEstablished, Connections!HandleLost,
       Connections!HandleGlobal, Announces, Withdraws
<1> QED
  BY <1>9, <1>10, <1>11 DEF Serves

(* The sequence of the members of a finite set names each of them once.    *)
LEMMA ConnectionsOfAll ==
  ASSUME NEW S, Connections!IsFiniteSet(S)
  PROVE  LET q == Connections!Listing(S) IN q \in Seq(S) /\ Distinct(q) /\ Listed(q) = S
<1>1. IsFiniteSet(S)
  BY DEF Connections!IsFiniteSet, IsFiniteSet
<1>2. PICK n \in Nat : n = Cardinality(S) /\ ExistsBijection(1 .. n, S)
  BY <1>1, FS_CardinalityType
<1>3. Connections!Cardinality(S) = n
  BY <1>2 DEF Connections!Cardinality, Cardinality
<1>4. PICK f \in Bijection(1 .. n, S) : TRUE
  BY <1>2 DEF ExistsBijection
<1>5. f \in Connections!Bijection(1 .. n, S)
  BY <1>4 DEF Bijection, Injection, Surjection, IsInjective, Connections!Bijection, Connections!Injection,
     Connections!Surjection, Connections!IsInjective
<1>6. PICK q : q = Connections!Listing(S)
  OBVIOUS
<1>7. q \in Connections!Bijection(1 .. n, S)
  BY <1>3, <1>5, <1>6 DEF Connections!Listing
<1>8. /\ q \in [1 .. n -> S] /\ (\A i, j \in 1 .. n : q[i] = q[j] => i = j)
      /\ \A x \in S : \E i \in 1 .. n : q[i] = x
  BY <1>7 DEF Connections!Bijection, Connections!Injection, Connections!Surjection,
              Connections!IsInjective
<1>9. q \in Seq(S) /\ Len(q) = n
  BY <1>8
<1>10. Distinct(q)
  BY <1>8, <1>9 DEF Distinct
<1>11. Listed(q) = S
  BY <1>8, <1>9 DEF Listed
<1> QED
  BY <1>6, <1>9, <1>10, <1>11

(* What a new registry is sent: the globals that there are, each once.     *)
LEMMA AnnouncedOnce ==
  ASSUME Connections!Assumptions, ConnectionTypes
  PROVE  LET es == Connections!Announcements
         IN  /\ es \in Seq(Slot)
             /\ \A i \in 1 .. Len(es) : /\ es[i].kind = "global" /\ es[i].display = display
                                       /\ es[i].name \in Name /\ es[i].interface \in Interface
                                       /\ es[i].interface = globals[es[i].name]
             /\ \A i, j \in 1 .. Len(es) : es[i].name = es[j].name => i = j
             /\ \A n \in Name : globals[n] # None => \E i \in 1 .. Len(es) : es[i].name = n
<1> DEFINE S == {n \in Name : globals[n] # None}
<1>1. Connections!IsFiniteSet(S)
  <2>1. \A T : Connections!IsFiniteSet(T) <=> IsFiniteSet(T)
    BY DEF Connections!IsFiniteSet, IsFiniteSet
  <2> QED
    BY <2>1, FS_Subset DEF Connections!Assumptions
<1>2. PICK ns : ns = Connections!Listing(S)
  OBVIOUS
<1>3. ns \in Seq(S) /\ Distinct(ns) /\ Listed(ns) = S
  BY <1>1, <1>2, ConnectionsOfAll
<1>4. Len(ns) \in Nat /\ DOMAIN ns = 1 .. Len(ns)
  BY <1>3
<1>5. \A i \in 1 .. Len(ns) : ns[i] \in Name /\ globals[ns[i]] \in Interface
  <2>1. \A i \in 1 .. Len(ns) : ns[i] \in S
    BY <1>3
  <2>2. \A n \in S : n \in Name /\ globals[n] \in Interface
    BY DEF ConnectionTypes
  <2> QED
    BY <2>1, <2>2
<1>6. PICK es : es = Connections!Announcements
  OBVIOUS
<1>7. es = [i \in DOMAIN ns |-> Connections!Signal("global", ns[i], globals[ns[i]], display)]
  BY <1>2, <1>6 DEF Connections!Announcements
<1>8. \A n \in Name, i \in Interface :
        LET s == Connections!Signal("global", n, i, display)
        IN  s \in Slot /\ s.kind = "global" /\ s.name = n /\ s.interface = i /\ s.display = display
  BY DEF Connections!Signal, Slot, ConnectionTypes
<1>9. ASSUME NEW i \in 1 .. Len(ns)
      PROVE  /\ es[i] \in Slot /\ es[i].kind = "global" /\ es[i].display = display
             /\ es[i].name = ns[i] /\ es[i].interface = globals[ns[i]]
  <2>1. es[i] = Connections!Signal("global", ns[i], globals[ns[i]], display)
    BY <1>4, <1>7
  <2> QED
    BY <1>5, <1>8, <2>1
<1>10. es \in Seq(Slot) /\ Len(es) = Len(ns)
  <2>1. DOMAIN es = 1 .. Len(ns)
    BY <1>4, <1>7
  <2>2. es \in [1 .. Len(ns) -> Slot]
    BY <1>7, <1>9, <2>1
  <2> QED
    BY <1>4, <2>2
<1>11. \A n \in Name : globals[n] # None => \E i \in 1 .. Len(ns) : ns[i] = n
  <2>1. \A n \in S : n \in Listed(ns)
    BY <1>3
  <2> QED
    BY <2>1 DEF Listed
<1> HIDE DEF S
<1>12. \A i, j \in 1 .. Len(es) : es[i].name = es[j].name => i = j
  BY <1>3, <1>9, <1>10 DEF Distinct
<1>13. \A n \in Name : globals[n] # None => \E i \in 1 .. Len(es) : es[i].name = n
  BY <1>9, <1>10, <1>11
<1>14. \A i \in 1 .. Len(es) : /\ es[i].kind = "global" /\ es[i].display = display
                             /\ es[i].name \in Name /\ es[i].interface \in Interface
                             /\ es[i].interface = globals[es[i].name]
  BY <1>5, <1>9, <1>10
<1> QED
  BY <1>6, <1>10, <1>12, <1>13, <1>14

(* A new registry is told of all globals.                                  *)
LEMMA KnowsSetup ==
  ASSUME Connections!Assumptions, ~Reuse, ConnectionInv, KnowsInv, NEW b \in BOOLEAN,
         Connections!Setup(b)
  PROVE  KnowsInv'
<1>1. /\ known /\ display # 0 /\ queue = 0 /\ b
      /\ UNCHANGED <<globals, connectionUsed, display, connects, established, objects>>
  BY DEF Connections!Setup, Connections!threadVars, Connections!serverVars
<1>2. CASE UNCHANGED <<queue, registry, interfaces, signals>>
  BY <1>1, <1>2 DEF KnowsInv, KnowsTypes, Unannounced, Serves, Coming, Leaving, Announces, Withdraws,
                SignalPlaces, NamesOnce, Listed, Distinct, Follows, ToldInOrder, ComingKnown,
                LeavingKnown, HeardKnown, ObjectsFollow, NewUnheard, Heard
<1>3. CASE /\ registry \in {0, display} /\ registry' = display /\ queue' = display
           /\ interfaces' = <<>>
           /\ signals' = IF established THEN signals \o Connections!Announcements ELSE signals
  <2>1. registry' <= connects /\ interfaces' \in Seq(Entry)
    BY <1>3 DEF KnowsInv, KnowsTypes
  <2>2. CASE ~established
    <3>1. KnowsTypes'
      BY <1>1, <1>3, <2>1, <2>2 DEF KnowsInv, KnowsTypes, SignalPlaces
    <3> QED
      BY <1>1, <2>2, <3>1, KnowsDown
  <2>3. CASE established
    <3>1. PICK es : es = Connections!Announcements
      OBVIOUS
    <3>2. /\ es \in Seq(Slot)
          /\ \A i \in 1 .. Len(es) : /\ es[i].kind = "global" /\ es[i].display = display
                                    /\ es[i].name \in Name /\ es[i].interface \in Interface
                                    /\ es[i].interface = globals[es[i].name]
          /\ \A i, j \in 1 .. Len(es) : es[i].name = es[j].name => i = j
          /\ \A n \in Name : globals[n] # None => \E i \in 1 .. Len(es) : es[i].name = n
      BY <3>1, AnnouncedOnce DEF ConnectionInv
    <3>3. signals \in Seq(Slot) /\ signals' = signals \o es
      BY <1>3, <2>3, <3>1 DEF ConnectionInv, ConnectionTypes
    <3>4. registry # display /\ objects = {}
      BY <1>1, <1>3, <2>3 DEF KnowsInv, Serves, ConnectionInv, HearsLoss
    <3>5. \A n \in Name : ~Coming(n) /\ ~Leaving(n)
      BY <2>3, <3>4 DEF KnowsInv, Unannounced
    <3>6. PICK m \in Nat : m = Len(signals)
      BY <3>3
    <3>7. /\ Len(es) \in Nat /\ Len(signals') = m + Len(es)
          /\ \A i \in 1 .. m : signals'[i] = signals[i]
          /\ \A i \in 1 .. Len(es) : signals'[m + i] = es[i]
      BY <3>2, <3>3, <3>6
    <3>8. \A i \in SignalPlaces' : \/ i \in SignalPlaces /\ signals'[i] = signals[i]
                                   \/ i - m \in 1 .. Len(es) /\ signals'[i] = es[i - m]
      <4>1. ASSUME NEW i \in SignalPlaces'
            PROVE  i \in 1 .. m \/ (i - m \in 1 .. Len(es) /\ m + (i - m) = i)
        BY <3>6, <3>7 DEF SignalPlaces
      <4> QED
        BY <3>6, <3>7, <4>1 DEF SignalPlaces
    <3>9. display <= connects
      BY DEF KnowsInv, KnowsTypes
    <3>10. KnowsTypes'
      <4>1. \A i \in SignalPlaces' :
              /\ signals'[i].display <= connects
              /\ signals'[i].kind \in {"global", "global_removed"} => signals'[i].name \in Name
              /\ signals'[i].kind = "global" => signals'[i].interface \in Interface
        BY <3>2, <3>8, <3>9 DEF KnowsInv, KnowsTypes
      <4> QED
        BY <1>1, <2>1, <4>1 DEF KnowsInv, KnowsTypes
    <3>11. NamesOnce'
      BY <1>3, EmptyListed DEF NamesOnce
    <3>12. ASSUME NEW n \in Name PROVE Follows(n)'
      <4>1. \A i \in SignalPlaces' :
              /\ ~Withdraws(signals[i], n)'
              /\ Announces(signals[i], n)' =>
                   /\ i - m \in 1 .. Len(es) /\ es[i - m].name = n
                   /\ signals'[i].interface = globals[n] /\ globals[n] \in Interface
        BY <1>1, <3>2, <3>5, <3>8 DEF Announces, Withdraws, Coming, Leaving
      <4>2. ~Leaving(n)' /\ ~Heard(n)'
        <5>1. Listed(interfaces)' = {}
          BY <1>3, EmptyListed
        <5> QED
          BY <4>1, <5>1 DEF Leaving, Heard
      <4>3. ToldInOrder(n)'
        <5>1. \A i \in SignalPlaces' : i \in Int
          BY DEF SignalPlaces
        <5>2. ASSUME NEW i \in SignalPlaces', NEW j \in SignalPlaces',
                     Announces(signals[i], n)', Announces(signals[j], n)'
              PROVE  i = j
          <6>1. i - m = j - m
            BY <3>2, <4>1, <5>2
          <6> QED
            BY <5>1, <6>1
        <5> QED
          BY <4>1, <5>2 DEF ToldInOrder
      <4>4. Coming(n)' => globals[n] # None
        BY <4>1 DEF Coming, Connections!Assumptions
      <4>5. globals[n] # None => Coming(n)'
        <5>1. ASSUME NEW i \in 1 .. Len(es), es[i].name = n
              PROVE  Coming(n)'
          <6>1. m + i \in SignalPlaces' /\ signals'[m + i] = es[i]
            BY <3>7 DEF SignalPlaces
          <6>2. Announces(signals[m + i], n)'
            BY <1>1, <3>2, <5>1, <6>1 DEF Announces
          <6> QED
            BY <6>1, <6>2 DEF Coming
        <5> QED
          BY <3>2, <5>1
      <4>6. ComingKnown(n)'
        BY <1>1, <4>1, <4>2 DEF ComingKnown
      <4>7. LeavingKnown(n)' /\ HeardKnown(n)' /\ ObjectsFollow(n)'
        BY <1>1, <3>4, <4>2, <4>5 DEF LeavingKnown, HeardKnown, ObjectsFollow, Heard
      <4>8. NewUnheard(n)'
        BY <1>1, <4>2, <4>4 DEF NewUnheard, KnowsInv, KnowsTypes
      <4> QED
        BY <4>3, <4>6, <4>7, <4>8 DEF Follows
    <3> QED
      BY <1>1, <1>3, <3>10, <3>11, <3>12 DEF KnowsInv, Unannounced, Serves
  <2> QED
    BY <2>2, <2>3
<1> QED
  BY <1>1, <1>2, <1>3 DEF Connections!Setup, Connections!Freed

(* The application makes and releases objects.                             *)
LEMMA KnowsObjects ==
  ASSUME ConnectionInv, KnowsInv,
         \/ \E n \in Name : Connections!Create(n)
         \/ \E o \in objects : Connections!Release(o)
  PROVE  KnowsInv'
<1>1. UNCHANGED <<globals, connectionUsed, display, connects, established, signals, queue, registry,
                  interfaces>>
  BY DEF Connections!Create, Connections!Release, Connections!threadVars, Connections!serverVars
<1>2. \A o \in objects' : o \in objects \/ (o.removed = FALSE /\ Heard(o.name))
  <2>1. ASSUME NEW n \in Name, Connections!Create(n)
        PROVE  \A o \in objects' : o \in objects \/ (o.removed = FALSE /\ Heard(o.name))
    <3>1. Heard(n)
      BY <2>1 DEF Connections!Create, Connections!Range, Heard, Listed, KnowsInv, KnowsTypes
    <3> QED
      BY <2>1, <3>1 DEF Connections!Create
  <2> QED
    BY <2>1 DEF Connections!Release
<1>3. \A n : ObjectsFollow(n) => ObjectsFollow(n)'
  BY <1>1, <1>2 DEF ObjectsFollow, Heard, Listed
<1> QED
  BY <1>1, <1>3 DEF KnowsInv, KnowsTypes, Unannounced, Serves, Coming, Leaving, Announces, Withdraws,
                SignalPlaces, NamesOnce, Listed, Distinct, Follows, ToldInOrder, ComingKnown,
                LeavingKnown, HeardKnown, NewUnheard, Heard

LEMMA KnowsNext ==
  Connections!Assumptions /\ ~Reuse /\ ConnectionInv /\ KnowsInv
    /\ [Connections!Next]_(Connections!vars) => KnowsInv'
<1> SUFFICES ASSUME Connections!Assumptions, ~Reuse, ConnectionInv, KnowsInv,
                    [Connections!Next]_(Connections!vars)
             PROVE  KnowsInv'
  OBVIOUS
<1>1. CASE Connections!HasProtocolError \/ UNCHANGED Connections!vars
  <2>1. UNCHANGED <<globals, connectionUsed, display, connects, established, signals, queue, registry,
                    interfaces, objects>>
    BY <1>1 DEF Connections!HasProtocolError, Connections!serverVars, Connections!threadVars,
                Connections!mainVars, Connections!vars
  <2> QED
    BY <2>1 DEF KnowsInv, KnowsTypes, Unannounced, Serves, Coming, Leaving, Announces, Withdraws,
                SignalPlaces, NamesOnce, Listed, Distinct, Follows, ToldInOrder, ComingKnown,
                LeavingKnown, HeardKnown, ObjectsFollow, NewUnheard, Heard
<1> QED
  BY <1>1, KnowsGlobals, KnowsThread, KnowsHandled, KnowsSetup, KnowsObjects DEF Connections!Next

(* Without signals under way the registry knows what there is.             *)
LEMMA RegistryAgrees ==
  ASSUME Connections!Assumptions, ConnectionTypes, KnowsInv
  PROVE  Connections!RegistryKnows
<1> SUFFICES ASSUME signals = <<>>, established, registry = display
             PROVE  /\ \A n \in Name, i \in Interface :
                         globals[n] = i <=> [name |-> n, interface |-> i] \in Connections!Range(interfaces)
                    /\ \A o \in objects : o.removed <=> globals[o.name] = None
  BY DEF Connections!RegistryKnows
<1>1. \A n \in Name : Follows(n) /\ ~Coming(n) /\ ~Leaving(n)
  BY DEF KnowsInv, Serves, Coming, Leaving, SignalPlaces
<1>2. /\ \A n \in Name : globals[n] # None <=> Heard(n)
      /\ \A r \in Listed(interfaces) : r \in Entry /\ r.interface = globals[r.name]
  <2>1. \A r \in Listed(interfaces) : r \in Entry
    BY DEF Listed, KnowsInv, KnowsTypes
  <2>2. \A r \in Entry : r.name \in Name /\ r.interface \in Interface
    BY DEF Entry
  <2>3. \A r \in Listed(interfaces) : r.interface = globals[r.name]
    BY <1>1, <2>1, <2>2 DEF Follows, HeardKnown
  <2>4. \A n \in Name : Heard(n) => globals[n] # None
    BY <2>1, <2>2, <2>3 DEF Heard, Connections!Assumptions
  <2> QED
    BY <1>1, <2>1, <2>3, <2>4 DEF Follows, HeardKnown
<1>3. Connections!Range(interfaces) = Listed(interfaces)
  BY DEF Connections!Range, Listed, KnowsInv, KnowsTypes
<1>4. ASSUME NEW n \in Name, NEW i \in Interface
      PROVE  globals[n] = i <=> [name |-> n, interface |-> i] \in Listed(interfaces)
  <2>1. ASSUME globals[n] = i
        PROVE  [name |-> n, interface |-> i] \in Listed(interfaces)
    <3>1. PICK r \in Listed(interfaces) : r.name = n
      BY <1>2, <2>1 DEF Heard, Connections!Assumptions
    <3>2. r \in Entry /\ r.interface = i
      BY <1>2, <2>1, <3>1
    <3>3. r = [name |-> n, interface |-> i]
      BY <3>1, <3>2 DEF Entry
    <3> QED
      BY <3>3
  <2>2. ASSUME [name |-> n, interface |-> i] \in Listed(interfaces)
        PROVE  globals[n] = i
    BY <1>2, <2>2
  <2> QED
    BY <2>1, <2>2
<1>5. ASSUME NEW o \in objects
      PROVE  o.removed <=> globals[o.name] = None
  <2>1. o.name \in Name /\ o.removed \in BOOLEAN
    BY DEF ConnectionTypes
  <2> QED
    BY <1>1, <1>2, <2>1 DEF Follows, ObjectsFollow
<1> QED
  BY <1>3, <1>4, <1>5

-----------------------------------------------------------------------------
(* What a client knows of a value of the server: of the messages C about   *)
(* it, those in A tell it as it is now.  A message that does not is        *)
(* followed by one that does; if there is none, the client knows it now.   *)
Settles(q, C, A, now) ==
  /\ \A i \in 1 .. Len(q) : q[i] \in C \ A => \E j \in i + 1 .. Len(q) : q[j] \in A
  /\ now \/ \E i \in 1 .. Len(q) : q[i] \in A
Tells(E, C, A) == E \cap A # {} /\ E \cap C \subseteq A

LEMMA SettlesSent ==
  ASSUME NEW S, NEW q \in Seq(S), NEW es \in Seq(S), NEW C, NEW A, NEW now,
         (Settles(q, C, A, now) /\ Listed(es) \cap C = {}) \/ Tells(Listed(es), C, A)
  PROVE  Settles(q \o es, C, A, now)
<1>1. PICK r : r = q \o es
  OBVIOUS
<1>2. /\ Len(q) \in Nat /\ Len(es) \in Nat /\ Len(r) = Len(q) + Len(es)
      /\ \A i \in 1 .. Len(q) : r[i] = q[i]
      /\ \A i \in 1 .. Len(es) : r[Len(q) + i] = es[i]
  BY <1>1
<1>3. ASSUME NEW i \in 1 .. Len(r)
      PROVE  \/ i \in 1 .. Len(q) /\ r[i] = q[i]
             \/ i \notin 1 .. Len(q) /\ r[i] \in Listed(es)
  <2>1. CASE i \in 1 .. Len(q)
    BY <1>2, <2>1
  <2>2. CASE i \notin 1 .. Len(q)
    <3>1. i - Len(q) \in 1 .. Len(es) /\ Len(q) + (i - Len(q)) = i
      BY <1>2, <2>2
    <3> QED
      BY <1>2, <2>2, <3>1 DEF Listed
  <2> QED
    BY <2>1, <2>2
<1>4. CASE Settles(q, C, A, now) /\ Listed(es) \cap C = {}
  <2>1. ASSUME NEW i \in 1 .. Len(r), r[i] \in C \ A
        PROVE  \E j \in i + 1 .. Len(r) : r[j] \in A
    <3>1. i \in 1 .. Len(q) /\ q[i] \in C \ A
      BY <1>3, <1>4, <2>1
    <3>2. PICK j \in i + 1 .. Len(q) : q[j] \in A
      BY <1>4, <3>1 DEF Settles
    <3>3. j \in i + 1 .. Len(r) /\ r[j] = q[j]
      BY <1>2, <3>1, <3>2
    <3> QED
      BY <3>2, <3>3
  <2>2. now \/ \E i \in 1 .. Len(r) : r[i] \in A
    BY <1>2, <1>4 DEF Settles
  <2> QED
    BY <1>1, <2>1, <2>2 DEF Settles
<1>5. CASE Tells(Listed(es), C, A)
  <2>1. PICK k \in 1 .. Len(es) : es[k] \in A
    BY <1>5 DEF Tells, Listed
  <2>2. Len(q) + k \in 1 .. Len(r) /\ r[Len(q) + k] \in A
    BY <1>2, <2>1
  <2>3. ASSUME NEW i \in 1 .. Len(r), r[i] \in C \ A
        PROVE  \E j \in i + 1 .. Len(r) : r[j] \in A
    <3>1. i \in 1 .. Len(q)
      BY <1>3, <1>5, <2>3 DEF Tells
    <3>2. Len(q) + k \in i + 1 .. Len(r)
      BY <1>2, <2>1, <3>1
    <3> QED
      BY <2>2, <3>2
  <2> QED
    BY <1>1, <2>2, <2>3 DEF Settles
<1> QED
  BY <1>4, <1>5

LEMMA SettlesRead ==
  ASSUME NEW S, NEW q \in Seq(S), q # <<>>, NEW C, NEW A, NEW now, NEW later, A \subseteq C,
         Settles(q, C, A, now), q[1] \notin C => (now => later), q[1] \in A => later
  PROVE  Settles(Tail(q), C, A, later)
<1>1. PICK r : r = Tail(q)
  OBVIOUS
<1>2. /\ Len(q) \in Nat \ {0} /\ Len(r) = Len(q) - 1
      /\ \A i \in 1 .. Len(q) - 1 : r[i] = q[i + 1]
  BY <1>1
<1>3. ASSUME NEW j \in 2 .. Len(q)
      PROVE  j - 1 \in 1 .. Len(r) /\ r[j - 1] = q[j]
  <2>1. j - 1 \in 1 .. Len(q) - 1 /\ (j - 1) + 1 = j
    BY <1>2
  <2> QED
    BY <1>2, <2>1
<1>4. ASSUME NEW i \in 1 .. Len(r), r[i] \in C \ A
      PROVE  \E j \in i + 1 .. Len(r) : r[j] \in A
  <2>1. i + 1 \in 1 .. Len(q) /\ q[i + 1] \in C \ A
    BY <1>2, <1>4
  <2>2. PICK j \in (i + 1) + 1 .. Len(q) : q[j] \in A
    BY <2>1 DEF Settles
  <2>3. j \in 2 .. Len(q) /\ j - 1 \in i + 1 .. Len(r)
    BY <1>2, <2>2
  <2> QED
    BY <1>3, <2>2, <2>3
<1>5. later \/ \E i \in 1 .. Len(r) : r[i] \in A
  <2>1. 1 \in 1 .. Len(q)
    BY <1>2
  <2>2. CASE q[1] \in C \ A
    <3>1. PICK j \in 1 + 1 .. Len(q) : q[j] \in A
      BY <2>1, <2>2 DEF Settles
    <3>2. j \in 2 .. Len(q)
      OBVIOUS
    <3> QED
      BY <1>3, <3>1, <3>2
  <2>3. CASE q[1] \in A
    BY <2>3
  <2>4. CASE q[1] \notin C
    <3>1. CASE now
      BY <2>4, <3>1
    <3>2. ASSUME NEW j \in 1 .. Len(q), q[j] \in A
          PROVE  \E i \in 1 .. Len(r) : r[i] \in A
      <4>1. j \in 2 .. Len(q)
        BY <1>2, <2>4, <3>2
      <4> QED
        BY <1>3, <3>2, <4>1
    <3> QED
      BY <3>1, <3>2 DEF Settles
  <2> QED
    BY <2>2, <2>3, <2>4
<1> QED
  BY <1>1, <1>4, <1>5 DEF Settles

(* Two lists, one after the other.                                         *)
LEMMA ConcatListed ==
  ASSUME NEW S, NEW q \in Seq(S), NEW r \in Seq(S)
  PROVE  q \o r \in Seq(S) /\ Listed(q \o r) = Listed(q) \cup Listed(r)
<1>1. PICK s : s = q \o r
  OBVIOUS
<1>2. /\ s \in Seq(S) /\ Len(q) \in Nat /\ Len(r) \in Nat /\ Len(s) = Len(q) + Len(r)
      /\ \A i \in 1 .. Len(q) : s[i] = q[i]
      /\ \A i \in 1 .. Len(r) : s[Len(q) + i] = r[i]
  BY <1>1
<1>3. ASSUME NEW i \in 1 .. Len(s)
      PROVE  s[i] \in Listed(q) \cup Listed(r)
  <2>1. CASE i \in 1 .. Len(q)
    BY <1>2, <2>1 DEF Listed
  <2>2. CASE i \notin 1 .. Len(q)
    <3>1. i - Len(q) \in 1 .. Len(r) /\ Len(q) + (i - Len(q)) = i
      BY <1>2, <2>2
    <3> QED
      BY <1>2, <3>1 DEF Listed
  <2> QED
    BY <2>1, <2>2
<1>4. ASSUME NEW i \in 1 .. Len(q)
      PROVE  q[i] \in Listed(s)
  <2>1. i \in 1 .. Len(s) /\ s[i] = q[i]
    BY <1>2
  <2> QED
    BY <2>1 DEF Listed
<1>5. ASSUME NEW i \in 1 .. Len(r)
      PROVE  r[i] \in Listed(s)
  <2>1. Len(q) + i \in 1 .. Len(s) /\ s[Len(q) + i] = r[i]
    BY <1>2
  <2> QED
    BY <2>1 DEF Listed
<1>6. Listed(s) = Listed(q) \cup Listed(r)
  BY <1>3, <1>4, <1>5 DEF Listed
<1> QED
  BY <1>1, <1>2, <1>6

-----------------------------------------------------------------------------
(* Windows: what was said of a window, and what of it is so.               *)
StateOf(w) == {e \in Message : e.kind = "state" /\ e.window = w}
RightState(w) ==
  {e \in StateOf(w) : (e.value = TRUE /\ w \in windowActive) \/ (e.value = FALSE /\ w \notin windowActive)}
ParentsOf(w) == {e \in Message : e.kind = "parent" /\ e.window = w}
RightParent(w) == {e \in ParentsOf(w) : e.value \in {parent[w], None}}
DesksOf(w, d) == {e \in Message : e.kind \in {"entered", "left"} /\ e.window = w /\ e.value = d}
RightDesk(w, d) == {e \in DesksOf(w, d) : e.kind = "entered" <=> d \in windowOn[w]}

StateMirrored(w) ==
  Settles(windowEvents, StateOf(w), RightState(w), w \in windowIsActive <=> w \in windowActive)
ParentMirrored(w) ==
  Settles(windowEvents, ParentsOf(w), RightParent(w), parentOf[w] \in {parent[w], None})
DeskMirrored(w, d) ==
  Settles(windowEvents, DesksOf(w, d), RightDesk(w, d), d \in entered[w] <=> d \in windowOn[w])
WindowMirrored(w) ==
  StateMirrored(w) /\ ParentMirrored(w) /\ \A d \in Desktop : DeskMirrored(w, d)

(* A window that is there is announced, asked for and bound; one that is   *)
(* not was unmapped or will be.                                            *)
Under(kind, w) ==
  \E i \in 1 .. Len(windowEvents) : windowEvents[i].kind = kind /\ windowEvents[i].window = w
AskedFor(w) == \E i \in 1 .. Len(windowRequests) : windowRequests[i] = w
Kept(w) ==
  /\ w \in proxies \ unmapped =>
       w \in windows \/ AskedFor(w) \/ Under("unmapped", w) \/ Under("window", w)
  /\ w \in windows \ windowBound => Under("window", w) \/ (AskedFor(w) /\ w \in proxies)
  /\ AskedFor(w) => w \in proxies \cup windowGone
  /\ w \in windowBound => w \in proxies /\ (w \in rows \/ Under("initial", w)) /\ WindowMirrored(w)
  /\ w \in rows => w \in proxies \ unmapped
  /\ w \notin windowGone \cup windowBound => entered[w] = {} /\ ~Under("entered", w)

Valued(e) ==
  /\ e.kind = "state" => e.value \in BOOLEAN
  /\ e.kind \in {"entered", "left"} => e.value \in Desktop
MirrorTypes ==
  /\ proxies \subseteq Window /\ unmapped \subseteq proxies /\ rows \subseteq Window
  /\ parentOf \in [Window -> Window \cup {None}] /\ entered \in [Window -> SUBSET Desktop]
  /\ \A i \in 1 .. Len(windowEvents) : Valued(windowEvents[i])
MirrorInv == MirrorTypes /\ \A w \in Window : Kept(w)

LEMMA MirrorInit ==
  ASSUME Windows!Init
  PROVE  MirrorInv
<1> USE DEF Windows!Init
<1>1. Len(windowEvents) = 0 /\ Len(windowRequests) = 0
  OBVIOUS
<1>2. MirrorTypes
  BY <1>1 DEF MirrorTypes
<1>3. \A w \in Window : Kept(w)
  BY <1>1 DEF Kept, AskedFor, Under
<1> QED
  BY <1>2, <1>3 DEF MirrorInv

(* The client is sent the messages E.                                      *)
Sent(E) == \E es \in Seq(Message) : windowEvents' = windowEvents \o es /\ Listed(es) = E

LEMMA SentUnder ==
  ASSUME WindowTypes, NEW E, Sent(E)
  PROVE  /\ \A kind, w : Under(kind, w)' <=> Under(kind, w) \/ \E e \in E : e.kind = kind /\ e.window = w
         /\ Listed(windowEvents)' = Listed(windowEvents) \cup E
<1>1. PICK es \in Seq(Message) : windowEvents' = windowEvents \o es /\ Listed(es) = E
  BY DEF Sent
<1>2. Listed(windowEvents)' = Listed(windowEvents) \cup E
  <2>1. windowEvents \in Seq(Message)
    BY DEF WindowTypes
  <2>2. Listed(windowEvents \o es) = Listed(windowEvents) \cup Listed(es)
    BY <2>1, ConcatListed
  <2> QED
    BY <1>1, <2>2
<1>3. \A kind, w : /\ Under(kind, w) <=> \E e \in Listed(windowEvents) : e.kind = kind /\ e.window = w
                   /\ Under(kind, w)' <=> \E e \in Listed(windowEvents)' : e.kind = kind /\ e.window = w
  BY DEF Under, Listed
<1> QED
  BY <1>2, <1>3

LEMMA SentTypes ==
  ASSUME WindowTypes, MirrorTypes, NEW E, Sent(E), \A e \in E : Valued(e), UNCHANGED Windows!clientVars
  PROVE  MirrorTypes'
<1>1. Listed(windowEvents)' = Listed(windowEvents) \cup E
  BY SentUnder
<1>2. \A e \in Listed(windowEvents) : Valued(e)
  BY DEF MirrorTypes, Listed
<1>3. \A e \in Listed(windowEvents)' : Valued(e)
  BY <1>1, <1>2
<1>4. \A i \in 1 .. Len(windowEvents') : Valued(windowEvents'[i])
  BY <1>3 DEF Listed
<1> QED
  BY <1>4 DEF MirrorTypes, Windows!clientVars, Valued

(* What these messages do to what the client will know of a window.        *)
StateTold(w, E) ==
  \/ StateMirrored(w) /\ E \cap StateOf(w) = {} /\ (w \in windowActive' <=> w \in windowActive)
  \/ Tells(E, StateOf(w), RightState(w)')
ParentTold(w, E) ==
  \/ ParentMirrored(w) /\ E \cap ParentsOf(w) = {} /\ parent'[w] = parent[w]
  \/ Tells(E, ParentsOf(w), RightParent(w)')
DeskTold(w, d, E) ==
  \/ DeskMirrored(w, d) /\ E \cap DesksOf(w, d) = {} /\ (d \in windowOn'[w] <=> d \in windowOn[w])
  \/ Tells(E, DesksOf(w, d), RightDesk(w, d)')

LEMMA StateSent ==
  ASSUME WindowTypes, NEW w, NEW E, Sent(E), StateTold(w, E), UNCHANGED windowIsActive
  PROVE  StateMirrored(w)'
<1>1. PICK es \in Seq(Message) : windowEvents' = windowEvents \o es /\ Listed(es) = E
  BY DEF Sent
<1>2. PICK C, A, now : /\ C = StateOf(w) /\ A = RightState(w)'
                       /\ now = (w \in windowIsActive' <=> w \in windowActive')
  BY ZenonT(40)
<1>3. (Settles(windowEvents, C, A, now) /\ Listed(es) \cap C = {}) \/ Tells(Listed(es), C, A)
  <2>1. (w \in windowActive' <=> w \in windowActive) =>
           A = RightState(w) /\ (now <=> (w \in windowIsActive <=> w \in windowActive))
    BY <1>2 DEF RightState, StateOf
  <2> QED
    BY <1>1, <1>2, <2>1 DEF StateTold, StateMirrored, Settles
<1>4. Settles(windowEvents \o es, C, A, now)
  BY <1>3, SettlesSent DEF WindowTypes
<1>5. StateOf(w)' = StateOf(w)
  BY DEF StateOf
<1> QED
  BY <1>1, <1>2, <1>4, <1>5 DEF StateMirrored, Settles

LEMMA ParentSent ==
  ASSUME WindowTypes, NEW w, NEW E, Sent(E), ParentTold(w, E), UNCHANGED parentOf
  PROVE  ParentMirrored(w)'
<1>1. PICK es \in Seq(Message) : windowEvents' = windowEvents \o es /\ Listed(es) = E
  BY DEF Sent
<1>2. PICK C, A, now : /\ C = ParentsOf(w) /\ A = RightParent(w)'
                       /\ now = (parentOf'[w] \in {parent'[w], None})
  BY ZenonT(40)
<1>3. (Settles(windowEvents, C, A, now) /\ Listed(es) \cap C = {}) \/ Tells(Listed(es), C, A)
  <2>1. parent'[w] = parent[w] =>
           A = RightParent(w) /\ (now <=> parentOf[w] \in {parent[w], None})
    BY <1>2 DEF RightParent, ParentsOf
  <2> QED
    BY <1>1, <1>2, <2>1 DEF ParentTold, ParentMirrored, Settles
<1>4. Settles(windowEvents \o es, C, A, now)
  BY <1>3, SettlesSent DEF WindowTypes
<1>5. ParentsOf(w)' = ParentsOf(w)
  BY DEF ParentsOf
<1> QED
  BY <1>1, <1>2, <1>4, <1>5 DEF ParentMirrored, Settles

LEMMA DeskSent ==
  ASSUME WindowTypes, NEW w, NEW d, NEW E, Sent(E), DeskTold(w, d, E), UNCHANGED entered
  PROVE  DeskMirrored(w, d)'
<1>1. PICK es \in Seq(Message) : windowEvents' = windowEvents \o es /\ Listed(es) = E
  BY DEF Sent
<1>2. PICK C, A, now : /\ C = DesksOf(w, d) /\ A = RightDesk(w, d)'
                       /\ now = (d \in entered'[w] <=> d \in windowOn'[w])
  BY ZenonT(40)
<1>3. (Settles(windowEvents, C, A, now) /\ Listed(es) \cap C = {}) \/ Tells(Listed(es), C, A)
  <2>1. (d \in windowOn'[w] <=> d \in windowOn[w]) =>
           A = RightDesk(w, d) /\ (now <=> (d \in entered[w] <=> d \in windowOn[w]))
    BY <1>2 DEF RightDesk, DesksOf
  <2> QED
    BY <1>1, <1>2, <2>1 DEF DeskTold, DeskMirrored, Settles
<1>4. Settles(windowEvents \o es, C, A, now)
  BY <1>3, SettlesSent DEF WindowTypes
<1>5. DesksOf(w, d)' = DesksOf(w, d)
  BY DEF DesksOf
<1> QED
  BY <1>1, <1>2, <1>4, <1>5 DEF DeskMirrored, Settles

(* A window that stays what it was keeps up with what is told of it.       *)
Stays(w) ==
  /\ w \in windows' <=> w \in windows
  /\ w \in windowGone' <=> w \in windowGone
  /\ w \in windowBound' <=> w \in windowBound
  /\ AskedFor(w)' <=> AskedFor(w)
AllTold(w, E) ==
  /\ StateTold(w, E) /\ ParentTold(w, E) /\ \A d \in Desktop : DeskTold(w, d, E)
EntersBound(w, E) == w \in windowBound \/ \A e \in E : e.window = w => e.kind # "entered"

LEMMA MirroredSent ==
  ASSUME WindowTypes, NEW w, NEW E, Sent(E), AllTold(w, E), UNCHANGED Windows!clientVars
  PROVE  WindowMirrored(w)'
<1>1. StateMirrored(w)' /\ ParentMirrored(w)'
  BY StateSent, ParentSent DEF AllTold, Windows!clientVars
<1>2. ASSUME NEW d \in Desktop
      PROVE  DeskMirrored(w, d)'
  BY DeskSent DEF AllTold, Windows!clientVars
<1> QED
  BY <1>1, <1>2 DEF WindowMirrored

LEMMA KeptSent ==
  ASSUME WindowTypes, NEW w \in Window, NEW E, Kept(w), Sent(E), Stays(w), EntersBound(w, E),
         w \in windowBound => AllTold(w, E), UNCHANGED Windows!clientVars
  PROVE  Kept(w)'
<1>1. UNCHANGED <<proxies, unmapped, rows, entered>>
  BY DEF Windows!clientVars
<1>2. \A kind : /\ Under(kind, w) => Under(kind, w)'
                /\ Under(kind, w)' => Under(kind, w) \/ \E e \in E : e.kind = kind /\ e.window = w
  BY SentUnder
<1>3. w \in windowBound => WindowMirrored(w)'
  BY MirroredSent
<1> QED
  BY <1>1, <1>2, <1>3 DEF Kept, Stays, EntersBound

LEMMA Unconcerned ==
  ASSUME NEW w, NEW E, WindowMirrored(w), \A e \in E : e.window # w,
         w \in windowActive' <=> w \in windowActive, parent'[w] = parent[w],
         \A d \in Desktop : d \in windowOn'[w] <=> d \in windowOn[w]
  PROVE  AllTold(w, E) /\ EntersBound(w, E)
<1>1. /\ E \cap StateOf(w) = {} /\ E \cap ParentsOf(w) = {}
      /\ \A d \in Desktop : E \cap DesksOf(w, d) = {}
  BY DEF StateOf, ParentsOf, DesksOf
<1> QED
  BY <1>1 DEF AllTold, StateTold, ParentTold, DeskTold, WindowMirrored, EntersBound

(* The messages of a list of windows or of desktops.                       *)
LEMMA WindowsOfAll ==
  ASSUME NEW S, IsFiniteSet(S)
  PROVE  /\ Windows!Listing(S) \in Seq(S) /\ Listed(Windows!Listing(S)) = S
         /\ DOMAIN Windows!Listing(S) = 1 .. Len(Windows!Listing(S))
<1>2. PICK n \in Nat : n = Cardinality(S) /\ ExistsBijection(1 .. n, S)
  BY FS_CardinalityType
<1>3. Windows!Cardinality(S) = n
  BY <1>2 DEF Windows!Cardinality, Cardinality
<1>4. PICK f \in Bijection(1 .. n, S) : TRUE
  BY <1>2 DEF ExistsBijection
<1>5. f \in Windows!Bijection(1 .. n, S)
  BY <1>4 DEF Bijection, Injection, Surjection, IsInjective, Windows!Bijection, Windows!Injection,
     Windows!Surjection, Windows!IsInjective
<1>6. PICK q : q = Windows!Listing(S)
  OBVIOUS
<1>7. q \in Windows!Bijection(1 .. n, S)
  BY <1>3, <1>5, <1>6 DEF Windows!Listing
<1>8. q \in [1 .. n -> S] /\ \A x \in S : \E i \in 1 .. n : q[i] = x
  BY <1>7 DEF Windows!Bijection, Windows!Injection, Windows!Surjection
<1>9. q \in Seq(S) /\ Len(q) = n /\ DOMAIN q = 1 .. n
  BY <1>8
<1>10. Listed(q) = S
  BY <1>8, <1>9 DEF Listed
<1> QED
  BY <1>6, <1>9, <1>10

LEMMA EventTyped ==
  ASSUME NEW kind \in {"window", "unmapped", "parent", "state", "entered", "left", "initial"},
         NEW w \in Window, NEW v \in Window \cup Desktop \cup BOOLEAN \cup {None}
  PROVE  /\ Windows!Event(kind, w, v) \in Message
         /\ Windows!Event(kind, w, v).kind = kind
         /\ Windows!Event(kind, w, v).window = w /\ Windows!Event(kind, w, v).value = v
BY DEF Windows!Event, Message

AboutWindows(kind, S, v) == {Windows!Event(kind, c, v) : c \in S}
AboutDesks(kind, w, S) == {Windows!Event(kind, w, d) : d \in S}

LEMMA ListedOfWindows ==
  ASSUME NEW S, IsFiniteSet(S), S \subseteq Window, NEW kind \in {"parent", "left"},
         NEW v \in Window \cup Desktop \cup BOOLEAN \cup {None}, NEW es,
         es = [i \in DOMAIN Windows!Listing(S) |->
                 Windows!Event(kind, Windows!Listing(S)[i], v)]
  PROVE  es \in Seq(Message) /\ Listed(es) = AboutWindows(kind, S, v)
<1>1. PICK q : q = Windows!Listing(S)
  OBVIOUS
<1>2. q \in Seq(S) /\ DOMAIN q = 1 .. Len(q) /\ Listed(q) = S
  BY <1>1, WindowsOfAll
<1>3. Len(q) \in Nat /\ \A i \in 1 .. Len(q) : q[i] \in Window
  BY <1>2
<1>4. es = [i \in 1 .. Len(q) |-> Windows!Event(kind, q[i], v)]
  BY <1>1, <1>2
<1>5. \A i \in 1 .. Len(q) : Windows!Event(kind, q[i], v) \in Message
  BY <1>3, EventTyped
<1>6. es \in [1 .. Len(q) -> Message] /\ \A i \in 1 .. Len(q) : es[i] = Windows!Event(kind, q[i], v)
  BY <1>4, <1>5
<1>7. es \in Seq(Message) /\ Len(es) = Len(q)
  BY <1>3, <1>6
<1>8. Listed(es) = AboutWindows(kind, S, v)
  BY <1>2, <1>6, <1>7 DEF Listed, AboutWindows
<1> QED
  BY <1>7, <1>8

LEMMA ListedOfDesktops ==
  ASSUME NEW S, IsFiniteSet(S), S \subseteq Desktop, NEW kind \in {"entered", "left"},
         NEW w \in Window, NEW es,
         es = [i \in DOMAIN Windows!Listing(S) |->
                 Windows!Event(kind, w, Windows!Listing(S)[i])]
  PROVE  es \in Seq(Message) /\ Listed(es) = AboutDesks(kind, w, S)
<1>1. PICK q : q = Windows!Listing(S)
  OBVIOUS
<1>2. q \in Seq(S) /\ DOMAIN q = 1 .. Len(q) /\ Listed(q) = S
  BY <1>1, WindowsOfAll
<1>3. Len(q) \in Nat /\ \A i \in 1 .. Len(q) : q[i] \in Desktop
  BY <1>2
<1>4. es = [i \in 1 .. Len(q) |-> Windows!Event(kind, w, q[i])]
  BY <1>1, <1>2
<1>5. \A i \in 1 .. Len(q) : Windows!Event(kind, w, q[i]) \in Message
  BY <1>3, EventTyped
<1>6. es \in [1 .. Len(q) -> Message] /\ \A i \in 1 .. Len(q) : es[i] = Windows!Event(kind, w, q[i])
  BY <1>4, <1>5
<1>7. es \in Seq(Message) /\ Len(es) = Len(q)
  BY <1>3, <1>6
<1>8. Listed(es) = AboutDesks(kind, w, S)
  BY <1>2, <1>6, <1>7 DEF Listed, AboutDesks
<1> QED
  BY <1>7, <1>8

LEMMA ListedOne == \A S : \A e \in S : <<e>> \in Seq(S) /\ Listed(<<e>>) = {e}
<1> SUFFICES ASSUME NEW S, NEW e \in S PROVE <<e>> \in Seq(S) /\ Listed(<<e>>) = {e}
  OBVIOUS
<1>1. <<e>> \in Seq(S) /\ Len(<<e>>) = 1 /\ <<e>>[1] = e
  OBVIOUS
<1> QED
  BY <1>1 DEF Listed

LEMMA SentNone ==
  ASSUME WindowTypes, UNCHANGED windowEvents
  PROVE  Sent({})
<1>1. <<>> \in Seq(Message) /\ Listed(<<>>) = {} /\ windowEvents' = windowEvents \o <<>>
  BY EmptyListed DEF WindowTypes
<1> QED
  BY <1>1 DEF Sent

LEMMA SentOne ==
  ASSUME WindowTypes, NEW e \in Message,
         windowEvents' = Append(windowEvents, e) \/ windowEvents' = windowEvents \o <<e>>
  PROVE  Sent({e})
<1>1. <<e>> \in Seq(Message) /\ Listed(<<e>>) = {e}
  BY ListedOne
<1>2. \A q \in Seq(Message) : Append(q, e) = q \o <<e>>
  OBVIOUS
<1>3. windowEvents' = windowEvents \o <<e>>
  BY <1>2 DEF WindowTypes
<1> QED
  BY <1>1, <1>3 DEF Sent

LEMMA SentIfBound ==
  ASSUME WindowTypes, NEW w, NEW es \in Seq(Message), Windows!Send(w, es)
  PROVE  Sent(IF w \in windowBound THEN Listed(es) ELSE {})
<1>1. CASE w \in windowBound
  BY <1>1 DEF Sent, Windows!Send
<1>2. CASE w \notin windowBound
  BY <1>2, SentNone DEF Windows!Send
<1> QED
  BY <1>1, <1>2

-----------------------------------------------------------------------------
(* The server makes a window.                                              *)
LEMMA KeptCreated ==
  ASSUME Windows!Assumptions, WindowInv, MirrorInv, NEW w \in Window, Windows!CreateWindow(w)
  PROVE  MirrorInv'
<1>1. WindowTypes /\ WindowsKnown /\ MirrorTypes
  BY DEF WindowInv, MirrorInv
<1>2. PICK e : e = Windows!Event("window", w, None)
  OBVIOUS
<1>3. e \in Message /\ e.kind = "window" /\ e.window = w
  BY <1>2, EventTyped
<1>4. /\ windows' = windows \cup {w} /\ w \notin windows \cup windowGone /\ Sent({e})
      /\ UNCHANGED <<windowGone, windowActive, parent, desks, windowOn, windowBound, windowRequests>>
      /\ UNCHANGED Windows!clientVars
  BY <1>1, <1>2, <1>3, SentOne DEF Windows!CreateWindow, Windows!Changed
<1>5. MirrorTypes'
  BY <1>1, <1>3, <1>4, SentTypes DEF Valued
<1>6. Kept(w)'
  <2>1. \A kind : Under(kind, w)' <=> Under(kind, w) \/ kind = "window"
    BY <1>1, <1>3, <1>4, SentUnder
  <2>2. w \notin windowBound /\ Kept(w)
    BY <1>1, <1>4 DEF WindowTypes, MirrorInv
  <2> QED
    BY <1>4, <2>1, <2>2 DEF Kept, AskedFor, Windows!clientVars
<1>7. ASSUME NEW v \in Window, v # w PROVE Kept(v)'
  <2>1. Kept(v) /\ Stays(v)
    BY <1>4, <1>7 DEF MirrorInv, Stays, AskedFor
  <2>2. EntersBound(v, {e})
    BY <1>3, <1>7 DEF EntersBound
  <2>3. v \in windowBound => AllTold(v, {e})
    BY <1>3, <1>4, <1>7, <2>1, Unconcerned DEF Kept
  <2> QED
    BY <1>1, <1>4, <2>1, <2>2, <2>3, KeptSent
<1> QED
  BY <1>5, <1>6, <1>7 DEF MirrorInv

(* A window is destroyed, and its children lose their parent.              *)
LEMMA KeptDestroyed ==
  ASSUME Windows!Assumptions, WindowInv, MirrorInv, NEW w \in Window, Windows!DestroyWindow(w)
  PROVE  MirrorInv'
<1>1. WindowTypes /\ WindowsKnown /\ MirrorTypes
  BY DEF WindowInv, MirrorInv
<1>2. PICK children : children = {c \in windowBound \ {w} : parent[c] = w}
  OBVIOUS
<1>3. PICK others : others = [i \in DOMAIN Windows!Listing(children) |->
                                Windows!Event("parent", Windows!Listing(children)[i], None)]
  OBVIOUS
<1>4. others \in Seq(Message) /\ Listed(others) = AboutWindows("parent", children, None)
  <2>1. IsFiniteSet(children) /\ children \subseteq Window
    BY <1>1, <1>2, FiniteParts DEF WindowTypes
  <2> QED
    BY <1>3, <2>1, ListedOfWindows
<1>5. PICK u : u = Windows!Event("unmapped", w, None)
  OBVIOUS
<1>6. u \in Message /\ u.kind = "unmapped" /\ u.window = w
  BY <1>5, EventTyped
<1>7. /\ windows' = windows \ {w} /\ windowGone' = windowGone \cup {w} /\ w \in windows
      /\ windowBound' = windowBound \ {w} /\ windowActive' = windowActive \ {w}
      /\ parent' = [c \in Window |-> IF parent[c] = w \/ c = w THEN None ELSE parent[c]]
      /\ windowOn' = [windowOn EXCEPT ![w] = {}]
      /\ UNCHANGED <<desks, windowRequests>>
      /\ UNCHANGED Windows!clientVars
  BY DEF Windows!DestroyWindow, Windows!Changed
<1>8. windowEvents' = (IF w \in windowBound THEN Append(windowEvents, u) ELSE windowEvents) \o others
  BY <1>2, <1>3, <1>5 DEF Windows!DestroyWindow
<1>9. PICK E : E = (IF w \in windowBound THEN {u} ELSE {}) \cup AboutWindows("parent", children, None)
  OBVIOUS
<1>10. Sent(E)
  <2>1. windowEvents \in Seq(Message)
    BY <1>1 DEF WindowTypes
  <2>2. CASE w \in windowBound
    <3>1. PICK one \in Seq(Message) : one = <<u>> /\ Listed(one) = {u}
      BY <1>6, ListedOne
    <3>2. Append(windowEvents, u) = windowEvents \o one
      BY <1>6, <2>1, <3>1
    <3>3. windowEvents' = windowEvents \o one \o others
      BY <1>8, <2>2, <3>2
    <3>4. windowEvents' = windowEvents \o (one \o others)
      BY SMTT(30), <1>4, <2>1, <3>1, <3>3
    <3>5. one \o others \in Seq(Message) /\ Listed(one \o others) = Listed(one) \cup Listed(others)
      BY <1>4, ConcatListed
    <3> QED
      BY <1>4, <1>9, <2>2, <3>1, <3>4, <3>5 DEF Sent
  <2>3. CASE w \notin windowBound
    BY <1>4, <1>8, <1>9, <2>3 DEF Sent
  <2> QED
    BY <2>2, <2>3
<1>11. \A e \in E : \/ e.kind = "unmapped" /\ e.window = w
                    \/ e.kind = "parent" /\ e.window \in children /\ e.value = None /\ e \in Message
  <2>1. children \subseteq Window
    BY <1>1, <1>2 DEF WindowTypes
  <2>2. ASSUME NEW c \in children, NEW e, e = Windows!Event("parent", c, None)
        PROVE  e.kind = "parent" /\ e.window \in children /\ e.value = None /\ e \in Message
    BY <2>1, <2>2, EventTyped
  <2>3. \A e \in AboutWindows("parent", children, None) :
          e.kind = "parent" /\ e.window \in children /\ e.value = None /\ e \in Message
    BY <2>2 DEF AboutWindows
  <2> QED
    BY <1>6, <1>9, <2>3
<1>12. MirrorTypes'
  BY <1>1, <1>7, <1>10, <1>11, SentTypes DEF Valued
<1>13. Kept(w)'
  <2>1. w \in windowBound => Under("unmapped", w)'
    BY <1>1, <1>6, <1>9, <1>10, SentUnder
  <2>2. Under("window", w) => Under("window", w)'
    BY <1>1, <1>10, SentUnder
  <2>3. Kept(w)
    BY DEF MirrorInv
  <2> QED
    BY <1>7, <2>1, <2>2, <2>3 DEF Kept, AskedFor, Windows!clientVars
<1>14. ASSUME NEW v \in Window, v # w PROVE Kept(v)'
  <2>1. Kept(v) /\ Stays(v)
    BY <1>7, <1>14 DEF MirrorInv, Stays, AskedFor
  <2>2. EntersBound(v, E)
    BY <1>11 DEF EntersBound
  <2>3. ASSUME v \in windowBound PROVE AllTold(v, E)
    <3>1. StateMirrored(v) /\ ParentMirrored(v) /\ \A d \in Desktop : DeskMirrored(v, d)
      BY <2>1, <2>3 DEF Kept, WindowMirrored
    <3>2. /\ (v \in windowActive' <=> v \in windowActive)
          /\ parent'[v] = IF v \in children THEN None ELSE parent[v]
          /\ windowOn'[v] = windowOn[v]
      BY <1>1, <1>2, <1>7, <1>14, <2>3 DEF WindowTypes
    <3>3. E \cap StateOf(v) = {} /\ \A d \in Desktop : E \cap DesksOf(v, d) = {}
      BY <1>11 DEF StateOf, DesksOf
    <3>4. ParentTold(v, E)
      <4>1. CASE v \notin children
        <5>1. E \cap ParentsOf(v) = {}
          BY <1>11, <4>1 DEF ParentsOf
        <5> QED
          BY <3>1, <3>2, <4>1, <5>1 DEF ParentTold
      <4>2. CASE v \in children
        <5>1. \A e \in E : e \in ParentsOf(v) => e \in RightParent(v)'
          BY <1>11 DEF RightParent, ParentsOf
        <5>2. PICK e \in E : e = Windows!Event("parent", v, None)
          BY <1>9, <4>2 DEF AboutWindows
        <5>3. e \in ParentsOf(v)
          BY <5>2, EventTyped DEF ParentsOf
        <5>4. Tells(E, ParentsOf(v), RightParent(v)')
          BY <5>1, <5>2, <5>3 DEF Tells
        <5> QED
          BY <5>4 DEF ParentTold
      <4> QED
        BY <4>1, <4>2
    <3> QED
      BY <3>1, <3>2, <3>3, <3>4 DEF AllTold, StateTold, DeskTold
  <2> QED
    BY <1>1, <1>7, <1>10, <2>1, <2>2, <2>3, KeptSent
<1> QED
  BY <1>12, <1>13, <1>14 DEF MirrorInv

(* Only one window changes.                                                *)
LEMMA KeptAlone ==
  ASSUME WindowInv, MirrorInv, NEW w \in Window, NEW es \in Seq(Message), Windows!Send(w, es),
         \A e \in Listed(es) : Valued(e) /\ e.window = w,
         w \in windowBound /\ WindowMirrored(w) => AllTold(w, Listed(es)),
         \A v \in Window \ {w} : /\ v \in windowActive' <=> v \in windowActive
                                 /\ parent'[v] = parent[v] /\ windowOn'[v] = windowOn[v],
         UNCHANGED <<windows, windowGone, windowBound, windowRequests>>,
         UNCHANGED Windows!clientVars
  PROVE  MirrorInv'
<1>1. WindowTypes /\ MirrorTypes
  BY DEF WindowInv, MirrorInv
<1>2. PICK E : E = IF w \in windowBound THEN Listed(es) ELSE {}
  OBVIOUS
<1>3. Sent(E) /\ \A e \in E : Valued(e) /\ e.window = w
  BY <1>1, <1>2, SentIfBound
<1>4. MirrorTypes'
  BY <1>1, <1>3, SentTypes
<1>5. ASSUME NEW v \in Window PROVE Kept(v)'
  <2>1. Kept(v) /\ Stays(v)
    BY <1>5 DEF MirrorInv, Stays, AskedFor
  <2>2. CASE v = w
    BY <1>1, <1>2, <1>3, <2>1, <2>2, KeptSent DEF EntersBound, Kept
  <2>3. CASE v # w
    <3>1. EntersBound(v, E)
      BY <1>3, <2>3 DEF EntersBound
    <3>2. v \in windowBound => AllTold(v, E)
      BY <1>3, <2>1, <2>3, Unconcerned DEF Kept
    <3> QED
      BY <1>1, <1>3, <2>1, <3>1, <3>2, KeptSent
  <2> QED
    BY <2>2, <2>3
<1> QED
  BY <1>4, <1>5 DEF MirrorInv

LEMMA KeptChanged ==
  ASSUME Windows!Assumptions, WindowInv, MirrorInv, NEW w \in Window,
         \/ \E b \in BOOLEAN : Windows!SetActive(w, b)
         \/ \E p \in Window \cup {None} : Windows!SetParentWindow(w, p)
         \/ \E d \in Desktop : Windows!AddDesktop(w, d)
  PROVE  MirrorInv'
<1>1. WindowTypes
  BY DEF WindowInv
<1>2. ASSUME NEW b \in BOOLEAN, Windows!SetActive(w, b)
      PROVE  MirrorInv'
  <2>1. PICK e : e = Windows!Event("state", w, b)
    OBVIOUS
  <2>2. e \in Message /\ e.kind = "state" /\ e.window = w /\ e.value = b
    BY <2>1, EventTyped
  <2>3. <<e>> \in Seq(Message) /\ Listed(<<e>>) = {e}
    BY <2>2, ListedOne
  <2>4. /\ windowActive' = IF b THEN windowActive \cup {w} ELSE windowActive \ {w}
        /\ Windows!Send(w, <<e>>)
        /\ UNCHANGED <<windows, windowGone, windowBound, windowRequests, parent, windowOn>>
        /\ UNCHANGED Windows!clientVars
    BY <1>2, <2>1 DEF Windows!SetActive, Windows!Changed
  <2>5. e \in StateOf(w) /\ e \in RightState(w)'
    BY <2>2, <2>4 DEF StateOf, RightState
  <2>6. Tells({e}, StateOf(w), RightState(w)')
    BY <2>5 DEF Tells
  <2>7. {e} \cap ParentsOf(w) = {} /\ \A d \in Desktop : {e} \cap DesksOf(w, d) = {}
    BY <2>2 DEF ParentsOf, DesksOf
  <2>8. WindowMirrored(w) => AllTold(w, {e})
    BY <2>4, <2>6, <2>7 DEF AllTold, StateTold, ParentTold, DeskTold, WindowMirrored
  <2>9. Valued(e)
    BY <2>2 DEF Valued
  <2> QED
    BY <2>2, <2>3, <2>4, <2>8, <2>9, KeptAlone
<1>3. ASSUME NEW p \in Window \cup {None}, Windows!SetParentWindow(w, p)
      PROVE  MirrorInv'
  <2>1. PICK e : e = Windows!Event("parent", w, Windows!ResourceOf(p))
    OBVIOUS
  <2>2. e \in Message /\ e.kind = "parent" /\ e.window = w /\ e.value \in {p, None}
    BY <2>1, EventTyped DEF Windows!ResourceOf
  <2>3. <<e>> \in Seq(Message) /\ Listed(<<e>>) = {e}
    BY <2>2, ListedOne
  <2>4. /\ parent' = [parent EXCEPT ![w] = p]
        /\ Windows!Send(w, <<e>>)
        /\ UNCHANGED <<windows, windowGone, windowBound, windowRequests, windowActive, windowOn>>
        /\ UNCHANGED Windows!clientVars
    BY <1>3, <2>1 DEF Windows!SetParentWindow, Windows!Changed
  <2>5. e \in ParentsOf(w) /\ e \in RightParent(w)'
    BY <1>1, <2>2, <2>4 DEF ParentsOf, RightParent, WindowTypes
  <2>6. Tells({e}, ParentsOf(w), RightParent(w)')
    BY <2>5 DEF Tells
  <2>7. {e} \cap StateOf(w) = {} /\ \A d \in Desktop : {e} \cap DesksOf(w, d) = {}
    BY <2>2 DEF StateOf, DesksOf
  <2>8. WindowMirrored(w) => AllTold(w, {e})
    BY <2>4, <2>6, <2>7 DEF AllTold, StateTold, ParentTold, DeskTold, WindowMirrored
  <2>9. Valued(e)
    BY <2>2 DEF Valued
  <2>10. \A v \in Window \ {w} : parent'[v] = parent[v]
    BY <1>1, <2>4 DEF WindowTypes
  <2> QED
    BY <2>2, <2>3, <2>4, <2>8, <2>9, <2>10, KeptAlone
<1>4. ASSUME NEW d \in Desktop, Windows!AddDesktop(w, d)
      PROVE  MirrorInv'
  <2>1. PICK e : e = Windows!Event("entered", w, d)
    OBVIOUS
  <2>2. e \in Message /\ e.kind = "entered" /\ e.window = w /\ e.value = d
    BY <2>1, EventTyped
  <2>3. <<e>> \in Seq(Message) /\ Listed(<<e>>) = {e}
    BY <2>2, ListedOne
  <2>4. /\ windowOn' = [windowOn EXCEPT ![w] = @ \cup {d}]
        /\ Windows!Send(w, <<e>>)
        /\ UNCHANGED <<windows, windowGone, windowBound, windowRequests, windowActive, parent>>
        /\ UNCHANGED Windows!clientVars
    BY <1>4, <2>1 DEF Windows!AddDesktop, Windows!Changed
  <2>5. /\ windowOn'[w] = windowOn[w] \cup {d}
        /\ \A v \in Window \ {w} : windowOn'[v] = windowOn[v]
    BY <1>1, <2>4 DEF WindowTypes
  <2>6. e \in DesksOf(w, d) /\ e \in RightDesk(w, d)'
    BY <2>2, <2>5 DEF DesksOf, RightDesk
  <2>7. Tells({e}, DesksOf(w, d), RightDesk(w, d)')
    BY <2>6 DEF Tells
  <2>8. /\ {e} \cap StateOf(w) = {} /\ {e} \cap ParentsOf(w) = {}
        /\ \A c \in Desktop \ {d} : {e} \cap DesksOf(w, c) = {}
    BY <2>2 DEF StateOf, ParentsOf, DesksOf
  <2>9. WindowMirrored(w) => \A c \in Desktop : DeskTold(w, c, {e})
    BY <2>5, <2>7, <2>8 DEF DeskTold, WindowMirrored
  <2>10. WindowMirrored(w) => AllTold(w, {e})
    BY <2>4, <2>8, <2>9 DEF AllTold, StateTold, ParentTold, WindowMirrored
  <2>11. Valued(e)
    BY <2>2 DEF Valued
  <2> QED
    BY <2>2, <2>3, <2>4, <2>5, <2>10, <2>11, KeptAlone
<1> QED
  BY <1>2, <1>3, <1>4

(* Windows leave a desktop.                                                *)
LEMMA KeptLeft ==
  ASSUME Windows!Assumptions, WindowInv, MirrorInv, NEW ws \in SUBSET Window, NEW d \in Desktop,
         Windows!LeaveIn(ws, d),
         UNCHANGED <<windows, windowGone, windowActive, parent, windowBound, windowRequests>>,
         UNCHANGED Windows!clientVars
  PROVE  MirrorInv'
<1>1. WindowTypes /\ MirrorTypes
  BY DEF WindowInv, MirrorInv
<1>2. PICK left : left = {w \in ws \cap windowBound : d \in windowOn[w]}
  OBVIOUS
<1>3. PICK es : es = [i \in DOMAIN Windows!Listing(left) |->
                        Windows!Event("left", Windows!Listing(left)[i], d)]
  OBVIOUS
<1>4. IsFiniteSet(left) /\ left \subseteq Window
  BY <1>2, FiniteParts
<1>5. es \in Seq(Message) /\ Listed(es) = AboutWindows("left", left, d)
  BY <1>3, <1>4, ListedOfWindows
<1>6. windowEvents' = windowEvents \o es
  BY <1>2, <1>3 DEF Windows!LeaveIn
<1>7. PICK E : E = AboutWindows("left", left, d)
  OBVIOUS
<1>8. Sent(E)
  BY <1>5, <1>6, <1>7 DEF Sent
<1>9. \A e \in E : /\ e \in Message /\ e.kind = "left" /\ e.window \in left /\ e.value = d
  <2>1. ASSUME NEW c \in left, NEW e, e = Windows!Event("left", c, d)
        PROVE  e \in Message /\ e.kind = "left" /\ e.window \in left /\ e.value = d
    BY <1>4, <2>1, EventTyped
  <2> QED
    BY <1>7, <2>1 DEF AboutWindows
<1>10. MirrorTypes'
  BY <1>1, <1>8, <1>9, SentTypes DEF Valued
<1>11. ASSUME NEW v \in Window PROVE Kept(v)'
  <2>1. Kept(v) /\ Stays(v)
    BY <1>11 DEF MirrorInv, Stays, AskedFor
  <2>2. EntersBound(v, E)
    BY <1>9 DEF EntersBound
  <2>3. ASSUME v \in windowBound PROVE AllTold(v, E)
    <3>1. StateMirrored(v) /\ ParentMirrored(v) /\ \A c \in Desktop : DeskMirrored(v, c)
      BY <2>1, <2>3 DEF Kept, WindowMirrored
    <3>2. windowOn'[v] = IF v \in ws THEN windowOn[v] \ {d} ELSE windowOn[v]
      BY <1>11 DEF Windows!LeaveIn
    <3>3. E \cap StateOf(v) = {} /\ E \cap ParentsOf(v) = {}
      BY <1>9 DEF StateOf, ParentsOf
    <3>4. ASSUME NEW c \in Desktop PROVE DeskTold(v, c, E)
      <4>1. CASE c # d
        <5>1. E \cap DesksOf(v, c) = {}
          BY <1>9, <4>1 DEF DesksOf
        <5> QED
          BY <3>1, <3>2, <4>1, <5>1 DEF DeskTold
      <4>2. CASE v \notin left
        <5>1. E \cap DesksOf(v, c) = {}
          BY <1>9, <4>2 DEF DesksOf
        <5>2. v \in ws => d \notin windowOn[v]
          BY <1>2, <2>3, <4>2
        <5> QED
          BY <3>1, <3>2, <5>1, <5>2 DEF DeskTold
      <4>3. CASE c = d /\ v \in left
        <5>1. d \notin windowOn'[v]
          BY <1>2, <3>2, <4>3
        <5>2. \A e \in E : e \in DesksOf(v, d) => e \in RightDesk(v, d)'
          BY <1>9, <5>1 DEF RightDesk, DesksOf
        <5>3. PICK e \in E : e = Windows!Event("left", v, d)
          BY <1>7, <4>3 DEF AboutWindows
        <5>4. e \in DesksOf(v, d)
          BY <5>3, EventTyped DEF DesksOf
        <5>5. Tells(E, DesksOf(v, d), RightDesk(v, d)')
          BY <5>2, <5>3, <5>4 DEF Tells
        <5> QED
          BY <4>3, <5>5 DEF DeskTold
      <4> QED
        BY <4>1, <4>2, <4>3
    <3> QED
      BY <3>1, <3>3, <3>4 DEF AllTold, StateTold, ParentTold
  <2> QED
    BY <1>1, <1>8, <2>1, <2>2, <2>3, KeptSent
<1> QED
  BY <1>10, <1>11 DEF MirrorInv

LEMMA KeptOnAll ==
  ASSUME Windows!Assumptions, WindowInv, MirrorInv, NEW w \in Window, NEW ds \in SUBSET desks,
         Windows!SetOnAllDesktops(w, ds)
  PROVE  MirrorInv'
<1>1. WindowTypes
  BY DEF WindowInv
<1>2. PICK S : S = IF windowOn[w] = {} THEN ds ELSE windowOn[w]
  OBVIOUS
<1>3. PICK kind \in {"entered", "left"} : kind = IF windowOn[w] = {} THEN "entered" ELSE "left"
  OBVIOUS
<1>4. PICK es : es = [i \in DOMAIN Windows!Listing(S) |->
                        Windows!Event(kind, w, Windows!Listing(S)[i])]
  OBVIOUS
<1>5. IsFiniteSet(S) /\ S \subseteq Desktop
  BY <1>1, <1>2, FiniteParts DEF WindowTypes
<1>6. es \in Seq(Message) /\ Listed(es) = AboutDesks(kind, w, S)
  BY <1>4, <1>5, ListedOfDesktops
<1>7. /\ Windows!Send(w, es)
      /\ windowOn' = [windowOn EXCEPT ![w] = IF @ = {} THEN ds ELSE {}]
      /\ UNCHANGED <<windows, windowGone, windowBound, windowRequests, windowActive, parent>>
      /\ UNCHANGED Windows!clientVars
  BY <1>2, <1>3, <1>4 DEF Windows!SetOnAllDesktops, Windows!Changed
<1>8. /\ windowOn'[w] = IF windowOn[w] = {} THEN ds ELSE {}
      /\ \A v \in Window \ {w} : windowOn'[v] = windowOn[v]
  BY <1>1, <1>7 DEF WindowTypes
<1>9. PICK E : E = AboutDesks(kind, w, S)
  OBVIOUS
<1>10. \A e \in E : e \in Message /\ e.kind = kind /\ e.window = w /\ e.value \in S
  <2>1. ASSUME NEW d \in S, NEW e, e = Windows!Event(kind, w, d)
        PROVE  e \in Message /\ e.kind = kind /\ e.window = w /\ e.value \in S
    BY <1>5, <2>1, EventTyped
  <2> QED
    BY <1>9, <2>1 DEF AboutDesks
<1>11. \A e \in E : Valued(e) /\ e.window = w
  BY <1>5, <1>10 DEF Valued
<1>12. ASSUME WindowMirrored(w) PROVE AllTold(w, E)
  <2>1. StateMirrored(w) /\ ParentMirrored(w) /\ \A c \in Desktop : DeskMirrored(w, c)
    BY <1>12 DEF WindowMirrored
  <2>2. E \cap StateOf(w) = {} /\ E \cap ParentsOf(w) = {}
    BY <1>10 DEF StateOf, ParentsOf
  <2>3. ASSUME NEW c \in Desktop PROVE DeskTold(w, c, E)
    <3>1. CASE c \notin S
      <4>1. E \cap DesksOf(w, c) = {}
        BY <1>10, <3>1 DEF DesksOf
      <4>2. c \in windowOn'[w] <=> c \in windowOn[w]
        BY <1>2, <1>8, <3>1
      <4> QED
        BY <2>1, <4>1, <4>2 DEF DeskTold
    <3>2. CASE c \in S
      <4>1. kind = "entered" <=> c \in windowOn'[w]
        BY <1>2, <1>3, <1>8, <3>2
      <4>2. \A e \in E : e \in DesksOf(w, c) => e \in RightDesk(w, c)'
        BY <1>10, <4>1 DEF RightDesk, DesksOf
      <4>3. PICK e \in E : e = Windows!Event(kind, w, c)
        BY <1>9, <3>2 DEF AboutDesks
      <4>4. e \in DesksOf(w, c)
        BY <1>3, <4>3, EventTyped DEF DesksOf
      <4>5. Tells(E, DesksOf(w, c), RightDesk(w, c)')
        BY <4>2, <4>3, <4>4 DEF Tells
      <4> QED
        BY <4>5 DEF DeskTold
    <3> QED
      BY <3>1, <3>2
  <2> QED
    BY <1>7, <2>1, <2>2, <2>3 DEF AllTold, StateTold, ParentTold
<1> QED
  BY <1>6, <1>7, <1>8, <1>9, <1>11, <1>12, KeptAlone

LEMMA KeptDesktops ==
  ASSUME Windows!Assumptions, WindowInv, MirrorInv,
         \/ \E w \in Window, d \in Desktop : Windows!RemoveDesktop(w, d)
         \/ \E d \in Desktop : Windows!DestroyDesktop(d)
         \/ \E w \in Window, ds \in SUBSET desks : Windows!SetOnAllDesktops(w, ds)
  PROVE  MirrorInv'
<1>1. ASSUME NEW w \in Window, NEW d \in Desktop, Windows!RemoveDesktop(w, d)
      PROVE  MirrorInv'
  BY <1>1, KeptLeft DEF Windows!RemoveDesktop, Windows!Changed
<1>2. ASSUME NEW d \in Desktop, Windows!DestroyDesktop(d)
      PROVE  MirrorInv'
  <2>1. PICK ws \in SUBSET Window : ws = windows
    BY DEF WindowInv, WindowTypes
  <2> QED
    BY <1>2, <2>1, KeptLeft DEF Windows!DestroyDesktop, Windows!Changed
<1> QED
  BY <1>1, <1>2, KeptOnAll

(* A resource is made for a window that is there, or for one that is gone. *)
LEMMA OthersBound ==
  ASSUME WindowInv, MirrorInv, NEW w \in Window, NEW E, Sent(E),
         windowRequests # <<>>, w = Head(windowRequests), windowRequests' = Tail(windowRequests),
         windowBound' \in {windowBound, windowBound \cup {w}},
         \A e \in E : e \in Message /\ Valued(e) /\ e.window = w,
         UNCHANGED <<windows, windowGone, windowActive, parent, windowOn>>,
         UNCHANGED Windows!clientVars
  PROVE  /\ MirrorTypes' /\ (AskedFor(w)' => AskedFor(w)) /\ AskedFor(w)
         /\ \A v \in Window \ {w} : Kept(v)'
<1>1. WindowTypes /\ MirrorTypes
  BY DEF WindowInv, MirrorInv
<1>2. /\ Len(windowRequests) \in Nat \ {0} /\ w = windowRequests[1]
      /\ Len(windowRequests') = Len(windowRequests) - 1
      /\ \A i \in 1 .. Len(windowRequests) - 1 : windowRequests'[i] = windowRequests[i + 1]
  BY <1>1 DEF WindowTypes
<1>3. ASSUME NEW v, AskedFor(v)' PROVE AskedFor(v)
  <2>1. PICK i \in 1 .. Len(windowRequests') : windowRequests'[i] = v
    BY <1>3 DEF AskedFor
  <2>2. i + 1 \in 1 .. Len(windowRequests) /\ windowRequests[i + 1] = v
    BY <1>2, <2>1
  <2> QED
    BY <2>2 DEF AskedFor
<1>4. ASSUME NEW v, v # w, AskedFor(v) PROVE AskedFor(v)'
  <2>1. PICK i \in 1 .. Len(windowRequests) : windowRequests[i] = v
    BY <1>4 DEF AskedFor
  <2>2. i # 1
    BY <1>2, <1>4, <2>1
  <2>3. i - 1 \in 1 .. Len(windowRequests) - 1 /\ (i - 1) + 1 = i
    BY <1>2, <2>1, <2>2
  <2>4. i - 1 \in 1 .. Len(windowRequests') /\ windowRequests'[i - 1] = v
    BY <1>2, <2>1, <2>3
  <2> QED
    BY <2>4 DEF AskedFor
<1>5. AskedFor(w)
  <2>1. 1 \in 1 .. Len(windowRequests)
    BY <1>2
  <2> QED
    BY <1>2, <2>1 DEF AskedFor
<1>6. MirrorTypes'
  BY <1>1, SentTypes
<1>7. ASSUME NEW v \in Window, v # w PROVE Kept(v)'
  <2>1. Kept(v) /\ Stays(v)
    BY <1>3, <1>4, <1>7 DEF MirrorInv, Stays
  <2>2. EntersBound(v, E)
    BY <1>7 DEF EntersBound
  <2>3. v \in windowBound => AllTold(v, E)
    BY <1>7, <2>1, Unconcerned DEF Kept
  <2> QED
    BY <1>1, <2>1, <2>2, <2>3, KeptSent
<1> QED
  BY <1>3, <1>5, <1>6, <1>7

LEMMA KeptBound ==
  ASSUME Windows!Assumptions, WindowInv, MirrorInv, Windows!GetWindow
  PROVE  MirrorInv'
<1>1. WindowTypes /\ WindowsKnown /\ MirrorTypes
  BY DEF WindowInv, MirrorInv
<1>2. PICK w : w = Head(windowRequests)
  OBVIOUS
<1>3. w \in Window /\ w \in windows \cup windowGone
  <2>1. Len(windowRequests) \in Nat \ {0} /\ w = windowRequests[1]
    BY <1>1, <1>2 DEF Windows!GetWindow, WindowTypes
  <2>2. 1 \in 1 .. Len(windowRequests)
    BY <2>1
  <2> QED
    BY <1>1, <2>1, <2>2 DEF WindowTypes, WindowsKnown
<1>4. /\ windowRequests # <<>> /\ windowRequests' = Tail(windowRequests)
      /\ UNCHANGED <<windows, windowGone, windowActive, parent, desks, windowOn>>
      /\ UNCHANGED Windows!clientVars
      /\ IF w \in windows
           THEN /\ windowBound' = windowBound \cup {w}
                /\ windowEvents' = windowEvents \o Windows!Initially(w)
           ELSE /\ UNCHANGED windowBound
                /\ windowEvents' = windowEvents \o Windows!Temporary(w)
  BY <1>2 DEF Windows!GetWindow
<1>5. Kept(w)
  BY <1>3 DEF MirrorInv
<1>6. CASE w \in windows
  <2>1. PICK S : S = windowOn[w]
    OBVIOUS
  <2>2. PICK ds : ds = [i \in DOMAIN Windows!Listing(S) |->
                          Windows!Event("entered", w, Windows!Listing(S)[i])]
    OBVIOUS
  <2>3. IsFiniteSet(S) /\ S \subseteq Desktop
    BY <1>1, <1>3, <2>1, FiniteParts DEF WindowTypes
  <2>4. ds \in Seq(Message) /\ Listed(ds) = AboutDesks("entered", w, S)
    BY <1>3, <2>2, <2>3, ListedOfDesktops
  <2>5. PICK on : on = (w \in windowActive)
    BY ZenonT(40)
  <2>6. on \in BOOLEAN
    BY <2>5
  <2>7. PICK a : a = Windows!Event("state", w, on)
    OBVIOUS
  <2>8. PICK b : b = Windows!Event("parent", w, Windows!ResourceOf(parent[w]))
    OBVIOUS
  <2>9. PICK c : c = Windows!Event("initial", w, None)
    OBVIOUS
  <2>10. a \in Message /\ a.kind = "state" /\ a.window = w /\ a.value = on
    BY <1>3, <2>6, <2>7, EventTyped
  <2>11. b \in Message /\ b.kind = "parent" /\ b.window = w /\ b.value \in {parent[w], None}
    BY <1>1, <1>3, <2>8, EventTyped DEF Windows!ResourceOf, WindowTypes
  <2>12. c \in Message /\ c.kind = "initial" /\ c.window = w
    BY <1>3, <2>9, EventTyped
  <2>13. windowEvents' = windowEvents \o (ds \o <<a, b, c>>)
    <3>1. Windows!Event("state", w, w \in windowActive) = a
      BY <2>5, <2>7
    <3> QED
      BY <1>4, <1>6, <2>1, <2>2, <2>8, <2>9, <3>1 DEF Windows!Initially
  <2>14. PICK abc : abc = <<a, b, c>>
    OBVIOUS
  <2>15. abc \in Seq(Message) /\ Listed(abc) = {a, b, c}
    <3>1. /\ abc \in Seq(Message) /\ Len(abc) = 3
          /\ abc[1] = a /\ abc[2] = b /\ abc[3] = c
      BY <2>10, <2>11, <2>12, <2>14
    <3>2. \A i : i \in 1 .. 3 <=> i = 1 \/ i = 2 \/ i = 3
      OBVIOUS
    <3> QED
      BY <3>1, <3>2 DEF Listed
  <2>16. PICK E : E = AboutDesks("entered", w, S) \cup {a, b, c}
    OBVIOUS
  <2>17. Sent(E)
    <3>1. ds \o abc \in Seq(Message) /\ Listed(ds \o abc) = Listed(ds) \cup Listed(abc)
      BY <2>4, <2>15, ConcatListed
    <3> QED
      BY <2>4, <2>13, <2>14, <2>15, <2>16, <3>1 DEF Sent
  <2>18. \A e \in E : \/ e = a \/ e = b \/ e = c
                      \/ e \in Message /\ e.kind = "entered" /\ e.window = w /\ e.value \in S
    <3>1. ASSUME NEW d \in S, NEW e, e = Windows!Event("entered", w, d)
          PROVE  e \in Message /\ e.kind = "entered" /\ e.window = w /\ e.value \in S
      BY <1>3, <2>3, <3>1, EventTyped
    <3> QED
      BY <2>16, <3>1 DEF AboutDesks
  <2>19. \A e \in E : e \in Message /\ Valued(e) /\ e.window = w
    BY <2>3, <2>6, <2>10, <2>11, <2>12, <2>18 DEF Valued
  <2>20. windowBound' = windowBound \cup {w}
    BY <1>4, <1>6
  <2>21. /\ MirrorTypes' /\ (AskedFor(w)' => AskedFor(w)) /\ AskedFor(w)
         /\ \A v \in Window \ {w} : Kept(v)'
    BY <1>2, <1>3, <1>4, <2>17, <2>19, <2>20, OthersBound
  <2>22. StateTold(w, E)
    <3>0. (on = TRUE /\ w \in windowActive) \/ (on = FALSE /\ w \notin windowActive)
      <4>1. CASE w \in windowActive
        <5>1. (w \in windowActive) = TRUE
          BY Zenon, <4>1
        <5> QED
          BY <2>5, <4>1, <5>1
      <4>2. CASE w \notin windowActive
        <5>1. on # TRUE
          BY Zenon, <2>5, <4>2
        <5> QED
          BY <2>6, <4>2, <5>1
      <4> QED
        BY <4>1, <4>2
    <3>1. a \in StateOf(w) /\ a \in RightState(w)'
      BY <1>4, <2>10, <3>0 DEF StateOf, RightState
    <3>2. \A e \in E : e \in StateOf(w) => e = a
      BY <2>11, <2>12, <2>18 DEF StateOf
    <3>3. Tells(E, StateOf(w), RightState(w)')
      BY <2>16, <3>1, <3>2 DEF Tells
    <3> QED
      BY <3>3 DEF StateTold
  <2>23. ParentTold(w, E)
    <3>1. b \in ParentsOf(w) /\ b \in RightParent(w)'
      BY <1>4, <2>11 DEF ParentsOf, RightParent
    <3>2. \A e \in E : e \in ParentsOf(w) => e = b
      BY <2>10, <2>12, <2>18 DEF ParentsOf
    <3>3. Tells(E, ParentsOf(w), RightParent(w)')
      BY <2>16, <3>1, <3>2 DEF Tells
    <3> QED
      BY <3>3 DEF ParentTold
  <2>24. ASSUME NEW d \in Desktop PROVE DeskTold(w, d, E)
    <3>1. windowOn' = windowOn
      BY <1>4
    <3>2. CASE d \in S
      <4>1. \A e \in E : e \in DesksOf(w, d) => e \in RightDesk(w, d)'
        BY <2>1, <2>10, <2>11, <2>12, <2>18, <3>1, <3>2 DEF RightDesk, DesksOf
      <4>2. PICK e \in E : e = Windows!Event("entered", w, d)
        BY <2>16, <3>2 DEF AboutDesks
      <4>3. e \in DesksOf(w, d)
        BY <1>3, <4>2, EventTyped DEF DesksOf
      <4>4. Tells(E, DesksOf(w, d), RightDesk(w, d)')
        BY <4>1, <4>2, <4>3 DEF Tells
      <4> QED
        BY <4>4 DEF DeskTold
    <3>3. CASE d \notin S
      <4>1. E \cap DesksOf(w, d) = {}
        BY <2>10, <2>11, <2>12, <2>18, <3>3 DEF DesksOf
      <4>2. DeskMirrored(w, d)
        <5>1. CASE w \in windowBound
          BY <1>5, <5>1 DEF Kept, WindowMirrored
        <5>2. CASE w \notin windowBound
          <6>1. entered[w] = {} /\ ~Under("entered", w)
            BY <1>1, <1>5, <1>6, <5>2 DEF Kept, WindowsKnown
          <6>2. \A i \in 1 .. Len(windowEvents) : windowEvents[i] \notin DesksOf(w, d) \ RightDesk(w, d)
            BY <2>1, <3>3, <6>1 DEF Under, DesksOf, RightDesk
          <6>3. d \in entered[w] <=> d \in windowOn[w]
            BY <2>1, <3>3, <6>1
          <6> QED
            BY <6>2, <6>3 DEF DeskMirrored, Settles
        <5> QED
          BY <5>1, <5>2
      <4> QED
        BY <3>1, <4>1, <4>2 DEF DeskTold
    <3> QED
      BY <3>2, <3>3
  <2>25. WindowMirrored(w)'
    BY <1>1, <1>4, <2>17, <2>22, <2>23, <2>24, MirroredSent DEF AllTold
  <2>26. Under("initial", w)'
    BY <1>1, <2>12, <2>16, <2>17, SentUnder
  <2>27. w \in proxies /\ w \notin windowGone
    BY <1>1, <1>5, <1>6, <2>21 DEF Kept, WindowsKnown
  <2>28. Kept(w)'
    BY <1>4, <1>5, <1>6, <2>20, <2>25, <2>26, <2>27 DEF Kept, Windows!clientVars
  <2> QED
    BY <2>21, <2>28 DEF MirrorInv
<1>7. CASE w \notin windows
  <2>0. PICK no \in BOOLEAN : no = FALSE
    OBVIOUS
  <2>1. PICK a : a = Windows!Event("state", w, no)
    OBVIOUS
  <2>2. PICK b : b = Windows!Event("parent", w, None)
    OBVIOUS
  <2>3. PICK c : c = Windows!Event("unmapped", w, None)
    OBVIOUS
  <2>4. PICK d : d = Windows!Event("initial", w, None)
    OBVIOUS
  <2>5. a \in Message /\ a.kind = "state" /\ a.window = w /\ a.value = no
    BY <1>3, <2>1, EventTyped
  <2>6. /\ b \in Message /\ b.kind = "parent" /\ b.window = w
        /\ c \in Message /\ c.kind = "unmapped" /\ c.window = w
        /\ d \in Message /\ d.kind = "initial" /\ d.window = w
    BY <1>3, <2>2, <2>3, <2>4, EventTyped
  <2>7. windowEvents' = windowEvents \o <<a, b, c, d, c>>
    BY <1>4, <1>7, <2>0, <2>1, <2>2, <2>3, <2>4 DEF Windows!Temporary
  <2>8. PICK es : es = <<a, b, c, d, c>>
    OBVIOUS
  <2>9. es \in Seq(Message) /\ Listed(es) = {a, b, c, d}
    <3>1. /\ es \in Seq(Message) /\ Len(es) = 5
          /\ es[1] = a /\ es[2] = b /\ es[3] = c /\ es[4] = d /\ es[5] = c
      BY <2>5, <2>6, <2>8
    <3>2. \A i : i \in 1 .. 5 <=> i = 1 \/ i = 2 \/ i = 3 \/ i = 4 \/ i = 5
      OBVIOUS
    <3> QED
      BY <3>1, <3>2 DEF Listed
  <2>10. Sent({a, b, c, d})
    BY <2>7, <2>8, <2>9 DEF Sent
  <2>11. \A e \in {a, b, c, d} : e \in Message /\ Valued(e) /\ e.window = w
    BY <2>5, <2>6 DEF Valued
  <2>12. windowBound' = windowBound
    BY <1>4, <1>7
  <2>13. /\ MirrorTypes' /\ \A v \in Window \ {w} : Kept(v)'
    BY <1>2, <1>3, <1>4, <2>10, <2>11, <2>12, OthersBound
  <2>14. Under("unmapped", w)'
    BY <1>1, <2>6, <2>10, SentUnder
  <2>15. w \in windowGone /\ w \notin windowBound
    BY <1>1, <1>3, <1>7 DEF WindowTypes
  <2>16. Kept(w)'
    BY <1>4, <1>5, <1>7, <2>12, <2>14, <2>15 DEF Kept, Windows!clientVars
  <2> QED
    BY <2>13, <2>16 DEF MirrorInv
<1> QED
  BY <1>6, <1>7

(* What one event changes of what the client knows.                        *)
LEMMA ReadChanges ==
  ASSUME WindowTypes, MirrorTypes, NEW e \in Message, Valued(e),
         \/ Windows!ReadWindow(e) \/ Windows!ReadDropped(e)
         \/ /\ e.window \in proxies
            /\ \/ Windows!ReadState(e) \/ Windows!ReadParent(e) \/ Windows!ReadDesktop(e)
               \/ Windows!ReadInitial(e) \/ Windows!ReadUnmapped(e)
  PROVE  /\ proxies' = IF e.kind = "window" THEN proxies \cup {e.window} ELSE proxies
         /\ unmapped' = IF e.kind = "unmapped" /\ e.window \in proxies
                          THEN unmapped \cup {e.window} ELSE unmapped
         /\ windowRequests' = IF e.kind = "window" THEN Append(windowRequests, e.window)
                                                   ELSE windowRequests
         /\ rows' = IF e.window \notin proxies THEN rows
                    ELSE IF e.kind = "unmapped" THEN rows \ {e.window}
                    ELSE IF e.kind = "initial" /\ e.window \notin unmapped THEN rows \cup {e.window}
                    ELSE rows
         /\ \A v : /\ e \notin StateOf(v) => (v \in windowIsActive' <=> v \in windowIsActive)
                   /\ e \in RightState(v) /\ v \in proxies =>
                        (v \in windowIsActive' <=> v \in windowActive)
         /\ \A v \in Window : /\ e \notin ParentsOf(v) => parentOf'[v] \in {parentOf[v], None}
                              /\ e \in ParentsOf(v) /\ v \in proxies => parentOf'[v] \in {e.value, None}
         /\ parentOf' \in [Window -> Window \cup {None}]
         /\ \A v \in Window : \A d \in Desktop :
              /\ e \notin DesksOf(v, d) => (d \in entered'[v] <=> d \in entered[v])
              /\ e \in DesksOf(v, d) /\ v \in proxies => (d \in entered'[v] <=> e.kind = "entered")
         /\ entered' \in [Window -> SUBSET Desktop]
<1>1. e.window \in Window
  BY DEF Message
<1>2. CASE Windows!ReadWindow(e) \/ Windows!ReadDropped(e)
  BY <1>2 DEF Windows!ReadWindow, Windows!ReadDropped, Windows!clientVars, StateOf, RightState,
              ParentsOf, DesksOf, MirrorTypes
<1>3. CASE e.window \in proxies /\ Windows!ReadState(e)
  <2>1. /\ e.kind = "state"
        /\ windowIsActive' = IF e.value THEN windowIsActive \cup {e.window} ELSE windowIsActive \ {e.window}
        /\ UNCHANGED <<windowRequests, proxies, unmapped, rows, parentOf, entered>>
    BY <1>3 DEF Windows!ReadState
  <2>2. PICK on \in BOOLEAN : on = e.value
    BY <2>1 DEF Valued
  <2>3. windowIsActive' = IF on THEN windowIsActive \cup {e.window} ELSE windowIsActive \ {e.window}
    BY <2>1, <2>2
  <2>4. \A v : /\ e \notin StateOf(v) => (v \in windowIsActive' <=> v \in windowIsActive)
               /\ e \in RightState(v) /\ v \in proxies =>
                    (v \in windowIsActive' <=> v \in windowActive)
    BY <2>1, <2>2, <2>3 DEF StateOf, RightState
  <2> QED
    BY <2>1, <2>4 DEF MirrorTypes, ParentsOf, DesksOf
<1>4. CASE e.window \in proxies /\ Windows!ReadParent(e)
  <2>1. /\ e.kind = "parent"
        /\ parentOf' = [parentOf EXCEPT
             ![e.window] = IF e.value \in proxies \ unmapped THEN e.value ELSE None]
        /\ UNCHANGED <<windowRequests, proxies, unmapped, rows, windowIsActive, entered>>
    BY <1>4 DEF Windows!ReadParent
  <2>2. \A v \in Window : /\ e \notin ParentsOf(v) => parentOf'[v] \in {parentOf[v], None}
                          /\ e \in ParentsOf(v) /\ v \in proxies => parentOf'[v] \in {e.value, None}
    BY <1>1, <2>1 DEF MirrorTypes, ParentsOf
  <2>3. parentOf' \in [Window -> Window \cup {None}]
    BY <1>1, <2>1 DEF MirrorTypes
  <2> QED
    BY <2>1, <2>2, <2>3 DEF MirrorTypes, StateOf, RightState, DesksOf
<1>5. CASE e.window \in proxies /\ Windows!ReadDesktop(e)
  <2>1. /\ e.kind \in {"entered", "left"} /\ e.value \in Desktop
        /\ entered' = [entered EXCEPT
             ![e.window] = IF e.kind = "entered" THEN @ \cup {e.value} ELSE @ \ {e.value}]
        /\ UNCHANGED <<windowRequests, proxies, unmapped, rows, windowIsActive, parentOf>>
    BY <1>5 DEF Windows!ReadDesktop, Valued
  <2>2. \A v \in Window : \A d \in Desktop :
          /\ e \notin DesksOf(v, d) => (d \in entered'[v] <=> d \in entered[v])
          /\ e \in DesksOf(v, d) /\ v \in proxies => (d \in entered'[v] <=> e.kind = "entered")
    BY <1>1, <2>1 DEF MirrorTypes, DesksOf
  <2>3. entered' \in [Window -> SUBSET Desktop]
    BY <1>1, <2>1 DEF MirrorTypes
  <2> QED
    BY <2>1, <2>2, <2>3 DEF MirrorTypes, StateOf, RightState, ParentsOf
<1>6. CASE e.window \in proxies /\ Windows!ReadInitial(e)
  BY <1>6 DEF Windows!ReadInitial, StateOf, RightState, ParentsOf, DesksOf, MirrorTypes
<1>7. CASE e.window \in proxies /\ Windows!ReadUnmapped(e)
  <2>1. /\ e.kind = "unmapped" /\ unmapped' = unmapped \cup {e.window} /\ rows' = rows \ {e.window}
        /\ parentOf' = [c \in Window |-> IF parentOf[c] = e.window THEN None ELSE parentOf[c]]
        /\ UNCHANGED <<windowRequests, proxies, windowIsActive, entered>>
    BY <1>7 DEF Windows!ReadUnmapped
  <2>2. parentOf' \in [Window -> Window \cup {None}] /\ \A v \in Window : parentOf'[v] \in {parentOf[v], None}
    BY <2>1 DEF MirrorTypes
  <2> QED
    BY <1>7, <2>1, <2>2 DEF StateOf, RightState, ParentsOf, DesksOf, MirrorTypes
<1> QED
  BY <1>2, <1>3, <1>4, <1>5, <1>6, <1>7

(* The client reads one event after the other.                             *)
LEMMA KeptRead ==
  ASSUME WindowInv, MirrorInv, Windows!ReadEvent
  PROVE  MirrorInv'
<1>1. WindowTypes /\ WindowsKnown /\ NotRevived /\ MirrorTypes
  BY DEF WindowInv, MirrorInv
<1>2. PICK e : e = Head(windowEvents)
  OBVIOUS
<1>3. /\ Len(windowEvents) \in Nat \ {0} /\ e = windowEvents[1] /\ e \in Message
      /\ windowEvents # <<>> /\ windowEvents \in Seq(Message) /\ windowEvents' = Tail(windowEvents)
      /\ Len(windowEvents') = Len(windowEvents) - 1
      /\ \A i \in 1 .. Len(windowEvents) - 1 : windowEvents'[i] = windowEvents[i + 1]
  BY <1>1, <1>2 DEF Windows!ReadEvent, WindowTypes
<1>4. 1 \in 1 .. Len(windowEvents)
  BY <1>3
<1>5. /\ Valued(e) /\ e.window \in Window
      /\ e.kind = "unmapped" => e.window \in windowGone
  BY <1>1, <1>3, <1>4 DEF MirrorTypes, NotRevived, Message
<1>6. /\ \/ Windows!ReadWindow(e) \/ Windows!ReadDropped(e)
         \/ /\ e.window \in proxies
            /\ \/ Windows!ReadState(e) \/ Windows!ReadParent(e) \/ Windows!ReadDesktop(e)
               \/ Windows!ReadInitial(e) \/ Windows!ReadUnmapped(e)
      /\ UNCHANGED <<windows, windowGone, windowActive, parent, windowOn, windowBound>>
  BY <1>2 DEF Windows!ReadEvent, Windows!serverVars
<1>7. /\ proxies' = IF e.kind = "window" THEN proxies \cup {e.window} ELSE proxies
      /\ unmapped' = IF e.kind = "unmapped" /\ e.window \in proxies
                       THEN unmapped \cup {e.window} ELSE unmapped
      /\ windowRequests' = IF e.kind = "window" THEN Append(windowRequests, e.window)
                                                ELSE windowRequests
      /\ rows' = IF e.window \notin proxies THEN rows
                 ELSE IF e.kind = "unmapped" THEN rows \ {e.window}
                 ELSE IF e.kind = "initial" /\ e.window \notin unmapped THEN rows \cup {e.window}
                 ELSE rows
  BY <1>1, <1>3, <1>5, <1>6, ReadChanges
<1>8. \A v : /\ e \notin StateOf(v) => (v \in windowIsActive' <=> v \in windowIsActive)
             /\ e \in RightState(v) /\ v \in proxies =>
                  (v \in windowIsActive' <=> v \in windowActive)
  BY <1>1, <1>3, <1>5, <1>6, ReadChanges
<1>9. /\ \A v \in Window : /\ e \notin ParentsOf(v) => parentOf'[v] \in {parentOf[v], None}
                           /\ e \in ParentsOf(v) /\ v \in proxies => parentOf'[v] \in {e.value, None}
      /\ parentOf' \in [Window -> Window \cup {None}]
  BY <1>1, <1>3, <1>5, <1>6, ReadChanges
<1>10. /\ \A v \in Window : \A d \in Desktop :
            /\ e \notin DesksOf(v, d) => (d \in entered'[v] <=> d \in entered[v])
            /\ e \in DesksOf(v, d) /\ v \in proxies => (d \in entered'[v] <=> e.kind = "entered")
       /\ entered' \in [Window -> SUBSET Desktop]
  BY <1>1, <1>3, <1>5, <1>6, ReadChanges
<1>11. ASSUME NEW i \in 1 .. Len(windowEvents')
       PROVE  i + 1 \in 1 .. Len(windowEvents) /\ windowEvents'[i] = windowEvents[i + 1]
  BY <1>3, <1>11
<1>12. MirrorTypes'
  <2>1. \A i \in 1 .. Len(windowEvents') : Valued(windowEvents'[i])
    BY <1>1, <1>11 DEF MirrorTypes
  <2>2. proxies' \subseteq Window /\ unmapped' \subseteq proxies' /\ rows' \subseteq Window
    BY <1>1, <1>5, <1>7 DEF MirrorTypes
  <2> QED
    BY <1>9, <1>10, <2>1, <2>2 DEF MirrorTypes, Valued
<1>13. ASSUME NEW kind, NEW v
       PROVE  /\ Under(kind, v)' => Under(kind, v)
              /\ Under(kind, v) => Under(kind, v)' \/ (e.kind = kind /\ e.window = v)
  <2>1. ASSUME NEW i \in 1 .. Len(windowEvents), i # 1
        PROVE  i - 1 \in 1 .. Len(windowEvents') /\ windowEvents'[i - 1] = windowEvents[i]
    <3>1. i - 1 \in 1 .. Len(windowEvents) - 1 /\ (i - 1) + 1 = i
      BY <1>3, <2>1
    <3> QED
      BY <1>3, <3>1
  <2> QED
    BY <1>3, <1>11, <2>1 DEF Under
<1>14. \A v : AskedFor(v)' <=> AskedFor(v) \/ (e.kind = "window" /\ e.window = v)
  <2>1. CASE e.kind # "window"
    BY <1>7, <2>1 DEF AskedFor
  <2>2. CASE e.kind = "window"
    <3>1. /\ Len(windowRequests) \in Nat /\ Len(windowRequests') = Len(windowRequests) + 1
          /\ \A i \in 1 .. Len(windowRequests) : windowRequests'[i] = windowRequests[i]
          /\ windowRequests'[Len(windowRequests) + 1] = e.window
      BY <1>1, <1>5, <1>7, <2>2 DEF WindowTypes
    <3>2. \A i \in 1 .. Len(windowRequests') : i \in 1 .. Len(windowRequests) \/ i = Len(windowRequests) + 1
      BY <3>1
    <3>3. 1 .. Len(windowRequests) \subseteq 1 .. Len(windowRequests')
          /\ Len(windowRequests) + 1 \in 1 .. Len(windowRequests')
      BY <3>1
    <3> QED
      BY <2>2, <3>1, <3>2, <3>3 DEF AskedFor
  <2> QED
    BY <2>1, <2>2
<1>15. ASSUME NEW v \in Window, v \in proxies, WindowMirrored(v) PROVE WindowMirrored(v)'
  <2>1. StateMirrored(v)'
    <3>1. PICK C, A, now, later : /\ C = StateOf(v) /\ A = RightState(v)
                                  /\ now = (v \in windowIsActive <=> v \in windowActive)
                                  /\ later = (v \in windowIsActive' <=> v \in windowActive)
      BY ZenonT(40)
    <3>2. /\ A \subseteq C /\ Settles(windowEvents, C, A, now)
          /\ windowEvents[1] \notin C => (now => later)
          /\ windowEvents[1] \in A => later
      BY <1>3, <1>8, <1>15, <3>1 DEF RightState, WindowMirrored, StateMirrored, Settles
    <3>3. Settles(Tail(windowEvents), C, A, later)
      BY <1>3, <3>2, SettlesRead
    <3>4. StateOf(v)' = StateOf(v) /\ RightState(v)' = RightState(v)
      BY <1>6 DEF StateOf, RightState
    <3> QED
      BY <1>3, <1>6, <3>1, <3>3, <3>4 DEF StateMirrored, Settles
  <2>2. ParentMirrored(v)'
    <3>1. PICK C, A, now, later : /\ C = ParentsOf(v) /\ A = RightParent(v)
                                  /\ now = (parentOf[v] \in {parent[v], None})
                                  /\ later = (parentOf'[v] \in {parent[v], None})
      BY ZenonT(40)
    <3>2. /\ A \subseteq C /\ Settles(windowEvents, C, A, now)
          /\ windowEvents[1] \notin C => (now => later)
          /\ windowEvents[1] \in A => later
      BY <1>3, <1>9, <1>15, <3>1 DEF RightParent, WindowMirrored, ParentMirrored, Settles
    <3>3. Settles(Tail(windowEvents), C, A, later)
      BY <1>3, <3>2, SettlesRead
    <3>4. ParentsOf(v)' = ParentsOf(v) /\ RightParent(v)' = RightParent(v)
      BY <1>6 DEF ParentsOf, RightParent
    <3> QED
      BY <1>3, <1>6, <3>1, <3>3, <3>4 DEF ParentMirrored, Settles
  <2>3. ASSUME NEW d \in Desktop PROVE DeskMirrored(v, d)'
    <3>1. PICK C, A, now, later : /\ C = DesksOf(v, d) /\ A = RightDesk(v, d)
                                  /\ now = (d \in entered[v] <=> d \in windowOn[v])
                                  /\ later = (d \in entered'[v] <=> d \in windowOn[v])
      BY ZenonT(40)
    <3>2. /\ A \subseteq C /\ Settles(windowEvents, C, A, now)
          /\ windowEvents[1] \notin C => (now => later)
          /\ windowEvents[1] \in A => later
      BY <1>3, <1>10, <1>15, <3>1 DEF RightDesk, WindowMirrored, DeskMirrored, Settles
    <3>3. Settles(Tail(windowEvents), C, A, later)
      BY <1>3, <3>2, SettlesRead
    <3>4. DesksOf(v, d)' = DesksOf(v, d) /\ RightDesk(v, d)' = RightDesk(v, d)
      BY <1>6 DEF DesksOf, RightDesk
    <3> QED
      BY <1>3, <1>6, <3>1, <3>3, <3>4 DEF DeskMirrored, Settles
  <2> QED
    BY <2>1, <2>2, <2>3 DEF WindowMirrored
<1>16. ASSUME NEW v \in Window PROVE Kept(v)'
  <2>1. Kept(v) /\ (AskedFor(v)' <=> AskedFor(v) \/ (e.kind = "window" /\ e.window = v))
    BY <1>14 DEF MirrorInv
  <2>2. /\ v \in proxies' \ unmapped' =>
             v \in windows \/ AskedFor(v)' \/ Under("unmapped", v)' \/ Under("window", v)'
        /\ v \in windows \ windowBound => Under("window", v)' \/ (AskedFor(v)' /\ v \in proxies')
        /\ AskedFor(v)' => v \in proxies' \cup windowGone
    BY <1>7, <1>13, <2>1 DEF Kept
  <2>3. v \in windowBound =>
          v \in proxies' /\ (v \in rows' \/ Under("initial", v)') /\ WindowMirrored(v)'
    <3>1. v \in windowBound => v \notin windowGone /\ v \notin unmapped
      BY <1>1 DEF WindowTypes, WindowsKnown, NotRevived
    <3> QED
      BY <1>5, <1>7, <1>13, <1>15, <2>1, <3>1 DEF Kept
  <2>4. v \in rows' => v \in proxies' \ unmapped'
    BY <1>7, <2>1 DEF Kept
  <2>5. v \notin windowGone \cup windowBound => entered'[v] = {} /\ ~Under("entered", v)'
    <3>1. ASSUME v \notin windowGone \cup windowBound, NEW d \in Desktop PROVE d \notin entered'[v]
      <4>1. entered[v] = {} /\ ~Under("entered", v)
        BY <2>1, <3>1 DEF Kept
      <4>2. e.kind = "entered" => e.window # v
        BY <1>3, <1>4, <4>1 DEF Under
      <4>3. CASE e \notin DesksOf(v, d)
        BY <1>10, <4>1, <4>3
      <4>4. CASE e \in DesksOf(v, d) /\ v \in proxies
        BY <1>10, <4>2, <4>4 DEF DesksOf
      <4>5. CASE e \in DesksOf(v, d) /\ v \notin proxies
        <5>1. Windows!ReadDropped(e)
          BY <1>6, <4>5 DEF DesksOf, Windows!ReadWindow
        <5> QED
          BY <4>1, <5>1 DEF Windows!ReadDropped, Windows!clientVars
      <4> QED
        BY <4>3, <4>4, <4>5
    <3> QED
      BY <1>10, <1>13, <2>1, <3>1 DEF Kept
  <2> QED
    BY <1>6, <2>2, <2>3, <2>4, <2>5 DEF Kept
<1> QED
  BY <1>12, <1>16 DEF MirrorInv

(* A window that was unmapped is deleted.                                  *)
LEMMA KeptDeleted ==
  ASSUME WindowInv, MirrorInv, NEW w \in Window, Windows!DeleteWindow(w)
  PROVE  MirrorInv'
<1>1. WindowTypes /\ WindowsKnown /\ NotRevived /\ MirrorTypes
  BY DEF WindowInv, MirrorInv
<1>2. /\ w \in unmapped /\ proxies' = proxies \ {w} /\ unmapped' = unmapped \ {w}
      /\ windowIsActive' = windowIsActive \ {w}
      /\ parentOf' = [parentOf EXCEPT ![w] = None] /\ entered' = [entered EXCEPT ![w] = {}]
      /\ UNCHANGED <<windows, windowGone, windowActive, parent, windowOn, windowBound, windowEvents,
                     windowRequests, rows>>
  BY DEF Windows!DeleteWindow, Windows!serverVars
<1>3. MirrorTypes'
  BY <1>1, <1>2 DEF MirrorTypes, Valued
<1>4. w \in windowGone \ windowBound /\ w \notin windows
  BY <1>1, <1>2 DEF NotRevived, WindowsKnown, WindowTypes
<1>5. ASSUME NEW v \in Window PROVE Kept(v)'
  <2>1. Kept(v)
    BY DEF MirrorInv
  <2>2. /\ AskedFor(v)' <=> AskedFor(v)
        /\ \A kind : Under(kind, v)' <=> Under(kind, v)
    BY <1>2 DEF AskedFor, Under
  <2>3. CASE v = w
    BY <1>2, <1>4, <2>1, <2>2, <2>3 DEF Kept
  <2>4. CASE v # w
    <3>1. /\ v \in windowIsActive' <=> v \in windowIsActive
          /\ parentOf'[v] = parentOf[v] /\ entered'[v] = entered[v]
      BY <1>1, <1>2, <2>4 DEF MirrorTypes
    <3>2. WindowMirrored(v) => WindowMirrored(v)'
      <4>1. /\ StateOf(v)' = StateOf(v) /\ RightState(v)' = RightState(v)
            /\ ParentsOf(v)' = ParentsOf(v) /\ RightParent(v)' = RightParent(v)
            /\ \A d : DesksOf(v, d)' = DesksOf(v, d) /\ RightDesk(v, d)' = RightDesk(v, d)
        BY <1>2 DEF StateOf, RightState, ParentsOf, RightParent, DesksOf, RightDesk
      <4>2. StateMirrored(v) => StateMirrored(v)'
        BY <1>2, <3>1, <4>1 DEF StateMirrored, Settles
      <4>3. ParentMirrored(v) => ParentMirrored(v)'
        BY <1>2, <3>1, <4>1 DEF ParentMirrored, Settles
      <4>4. \A d : DeskMirrored(v, d) => DeskMirrored(v, d)'
        BY <1>2, <3>1, <4>1 DEF DeskMirrored, Settles
      <4> QED
        BY <4>2, <4>3, <4>4 DEF WindowMirrored
    <3> QED
      BY <1>2, <2>1, <2>2, <2>4, <3>1, <3>2 DEF Kept
  <2> QED
    BY <2>3, <2>4
<1> QED
  BY <1>3, <1>5 DEF MirrorInv

LEMMA MirrorNext ==
  /\ Windows!Assumptions /\ WindowInv /\ MirrorInv /\ [Windows!Next]_(Windows!vars)
  => MirrorInv'
<1> SUFFICES ASSUME Windows!Assumptions, WindowInv, MirrorInv, [Windows!Next]_(Windows!vars)
             PROVE  MirrorInv'
  OBVIOUS
<1>1. CASE UNCHANGED Windows!vars
  <2>1. MirrorTypes /\ WindowTypes
    BY DEF MirrorInv, WindowInv
  <2>2. /\ UNCHANGED Windows!clientVars
        /\ UNCHANGED <<windows, windowGone, windowActive, parent, windowOn, windowBound, windowEvents,
                       windowRequests>>
    BY <1>1 DEF Windows!vars, Windows!serverVars
  <2>3. Sent({})
    BY <2>1, <2>2, SentNone
  <2>4. MirrorTypes'
    BY <2>1, <2>2, <2>3, SentTypes
  <2>5. ASSUME NEW v \in Window PROVE Kept(v)'
    <3>1. Kept(v) /\ Stays(v)
      BY <2>2 DEF MirrorInv, Stays, AskedFor
    <3>2. EntersBound(v, {})
      BY DEF EntersBound
    <3>3. v \in windowBound => AllTold(v, {})
      BY <2>2, <3>1, Unconcerned DEF Kept
    <3> QED
      BY <2>1, <2>2, <2>3, <3>1, <3>2, <3>3, KeptSent
  <2> QED
    BY <2>4, <2>5 DEF MirrorInv
<1> QED
  BY <1>1, KeptCreated, KeptDestroyed, KeptDeleted, KeptChanged, KeptDesktops, KeptBound, KeptRead
     DEF Windows!Next

(* When nothing is under way, the client knows the windows as they are.    *)
LEMMA WindowsAgree ==
  ASSUME WindowInv, MirrorInv
  PROVE  Windows!Mirrored
<1> SUFFICES ASSUME Windows!Quiet PROVE
       /\ rows = windows /\ proxies \ unmapped = windows
       /\ \A w \in rows : /\ (w \in windowIsActive) = (w \in windowActive)
                          /\ entered[w] = windowOn[w]
                          /\ parentOf[w] \in {parent[w], None}
  BY DEF Windows!Mirrored
<1>1. WindowTypes /\ WindowsKnown /\ NotRevived /\ MirrorTypes
  BY DEF WindowInv, MirrorInv
<1>2. Len(windowEvents) = 0 /\ Len(windowRequests) = 0
  BY DEF Windows!Quiet
<1>3. /\ \A kind, w : ~Under(kind, w)
      /\ \A w : ~AskedFor(w)
  BY <1>2 DEF Under, AskedFor
<1>4. ASSUME NEW w \in Window
      PROVE  /\ w \in proxies \ unmapped => w \in windows
             /\ w \in windows => w \in windowBound
             /\ w \in windowBound => w \in rows /\ WindowMirrored(w)
             /\ w \in rows => w \in proxies \ unmapped
  BY <1>3 DEF MirrorInv, Kept
<1>5. rows \subseteq Window /\ proxies \subseteq Window /\ windows \subseteq Window
  BY <1>1 DEF MirrorTypes, WindowTypes
<1>6. rows = windows /\ proxies \ unmapped = windows
  BY <1>4, <1>5
<1>7. ASSUME NEW w \in rows
      PROVE  /\ (w \in windowIsActive) = (w \in windowActive)
             /\ entered[w] = windowOn[w]
             /\ parentOf[w] \in {parent[w], None}
  <2>1. w \in Window /\ WindowMirrored(w)
    BY <1>4, <1>5
  <2>2. w \in windowIsActive <=> w \in windowActive
    BY <1>2, <2>1 DEF WindowMirrored, StateMirrored, Settles
  <2>3. (w \in windowIsActive) = (w \in windowActive)
    BY SMT, <2>2
  <2>4. parentOf[w] \in {parent[w], None}
    BY <1>2, <2>1 DEF WindowMirrored, ParentMirrored, Settles
  <2>5. \A d \in Desktop : d \in entered[w] <=> d \in windowOn[w]
    BY <1>2, <2>1 DEF WindowMirrored, DeskMirrored, Settles
  <2>6. entered[w] \subseteq Desktop /\ windowOn[w] \subseteq Desktop
    BY <1>1, <2>1 DEF MirrorTypes, WindowTypes
  <2> QED
    BY <2>3, <2>4, <2>5, <2>6
<1> QED
  BY <1>6, <1>7

-----------------------------------------------------------------------------
(* Lists that one element is put into, and what a function makes of lists. *)
Inserted(q, k, x) == [i \in 1 .. Len(q) + 1 |-> IF i <= k THEN q[i] ELSE IF i = k + 1 THEN x ELSE q[i - 1]]
Mapped(f, q) == [i \in 1 .. Len(q) |-> f[q[i]]]

IsInserted(r, q, k, x) ==
  /\ Len(r) = Len(q) + 1
  /\ \A i \in 1 .. Len(q) + 1 : r[i] = IF i <= k THEN q[i] ELSE IF i = k + 1 THEN x ELSE q[i - 1]
IsMapped(r, f, q) == Len(r) = Len(q) /\ \A i \in 1 .. Len(q) : r[i] = f[q[i]]
MapsTo(f, S, T) == \A x \in S : f[x] \in T

LEMMA InsertedPlaces ==
  ASSUME NEW S, NEW q \in Seq(S), NEW k \in 0 .. Len(q), NEW x \in S
  PROVE  Inserted(q, k, x) \in Seq(S) /\ IsInserted(Inserted(q, k, x), q, k, x)
<1>1. Len(q) \in Nat /\ \A i \in 1 .. Len(q) : q[i] \in S
  BY LenProperties
<1>2. PICK r : r = Inserted(q, k, x)
  OBVIOUS
<1>3. r = [i \in 1 .. Len(q) + 1 |-> IF i <= k THEN q[i] ELSE IF i = k + 1 THEN x ELSE q[i - 1]]
  BY <1>2 DEF Inserted
<1>4. ASSUME NEW i \in 1 .. Len(q) + 1
      PROVE  (IF i <= k THEN q[i] ELSE IF i = k + 1 THEN x ELSE q[i - 1]) \in S
  <2>1. i <= k => i \in 1 .. Len(q)
    BY <1>1
  <2>2. ~(i <= k) /\ i # k + 1 => i - 1 \in 1 .. Len(q)
    BY <1>1
  <2> QED
    BY <1>1, <2>1, <2>2
<1>5. r \in [1 .. Len(q) + 1 -> S] /\ Len(q) + 1 \in Nat
  BY <1>1, <1>3, <1>4
<1>6. r \in Seq(S) /\ Len(r) = Len(q) + 1
  BY <1>5
<1>7. \A i \in 1 .. Len(q) + 1 : r[i] = IF i <= k THEN q[i] ELSE IF i = k + 1 THEN x ELSE q[i - 1]
  BY <1>3
<1> QED
  BY <1>2, <1>6, <1>7 DEF IsInserted

LEMMA InsertAtPlaces ==
  ASSUME NEW S, NEW q \in Seq(S), NEW k \in 0 .. Len(q), NEW x \in S
  PROVE  Desktops!InsertAt(q, k, x) = Inserted(q, k, x)
<1> DEFINE n == Len(q)
           before == SubSeq(q, 1, k)
           after == SubSeq(q, k + 1, n)
           upTo == before \o <<x>>
<1>1. n \in Nat /\ k \in Int /\ k + 1 \in Int /\ \A i \in 1 .. n : q[i] \in S
  BY LenProperties
<1>2. /\ before \in Seq(S) /\ Len(before) = k
      /\ \A i \in 1 .. k : before[i] = q[i]
  BY <1>1, SubSeqProperties
<1>3. /\ after \in Seq(S) /\ Len(after) = n - k
      /\ \A i \in 1 .. n - k : after[i] = q[k + i]
  BY <1>1, AfterPlace
<1> HIDE DEF before, after
<1>4. /\ upTo \in Seq(S) /\ Len(upTo) = k + 1
      /\ \A i \in 1 .. k : upTo[i] = q[i]
      /\ upTo[k + 1] = x
  <2>1. <<x>> \in Seq(S) /\ Len(<<x>>) = 1 /\ <<x>>[1] = x
    OBVIOUS
  <2> QED
    BY <1>1, <1>2, <2>1, ConcatProperties
<1> HIDE DEF upTo
<1> DEFINE t == upTo \o after
<1>5. /\ t \in Seq(S) /\ Len(t) = n + 1
      /\ \A i \in 1 .. n + 1 : t[i] = IF i <= k + 1 THEN upTo[i] ELSE after[i - (k + 1)]
  <2>1. /\ t \in Seq(S) /\ Len(t) = Len(upTo) + Len(after)
        /\ \A i \in 1 .. Len(upTo) + Len(after) :
             t[i] = IF i <= Len(upTo) THEN upTo[i] ELSE after[i - Len(upTo)]
    BY <1>3, <1>4, ConcatProperties
  <2>2. Len(upTo) = k + 1 /\ Len(upTo) + Len(after) = n + 1
    BY <1>1, <1>3, <1>4
  <2> QED
    BY <2>1, <2>2
<1>6. ASSUME NEW i \in 1 .. n + 1
      PROVE  t[i] = IF i <= k THEN q[i] ELSE IF i = k + 1 THEN x ELSE q[i - 1]
  <2>1. CASE i <= k
    <3>1. i \in 1 .. k /\ i <= k + 1
      BY <1>1, <2>1
    <3> QED
      BY <1>4, <1>5, <2>1, <3>1
  <2>2. CASE i = k + 1
    BY <1>1, <1>4, <1>5, <2>2
  <2>3. CASE ~(i <= k) /\ i # k + 1
    <3>1. /\ ~(i <= k + 1) /\ i - (k + 1) \in 1 .. n - k /\ k + (i - (k + 1)) = i - 1
      BY <1>1, <2>3
    <3> QED
      BY <1>3, <1>5, <2>3, <3>1
  <2> QED
    BY <2>1, <2>2, <2>3
<1> HIDE DEF t
<1>7. t = Inserted(q, k, x)
  <2>1. PICK r : r = Inserted(q, k, x)
    OBVIOUS
  <2>2. /\ r \in Seq(S) /\ Len(r) = n + 1
        /\ \A i \in 1 .. n + 1 : r[i] = IF i <= k THEN q[i] ELSE IF i = k + 1 THEN x ELSE q[i - 1]
    <3>1. Inserted(q, k, x) \in Seq(S) /\ IsInserted(Inserted(q, k, x), q, k, x)
      BY InsertedPlaces
    <3> QED
      BY <2>1, <3>1 DEF IsInserted
  <2>3. \A i \in 1 .. Len(t) : t[i] = r[i]
    BY <1>5, <1>6, <2>2
  <2> QED
    BY <1>5, <2>1, <2>2, <2>3, SeqEqual
<1> QED
  BY <1>7 DEF Desktops!InsertAt, upTo, before, after, t

LEMMA InsertedListed ==
  ASSUME NEW S, NEW q \in Seq(S), NEW k \in 0 .. Len(q), NEW x \in S
  PROVE  /\ Listed(Inserted(q, k, x)) = Listed(q) \cup {x}
         /\ Distinct(q) /\ x \notin Listed(q) => Distinct(Inserted(q, k, x))
<1>1. PICK r : r = Inserted(q, k, x)
  OBVIOUS
<1>2. /\ Len(q) \in Nat /\ k \in Nat /\ Len(r) = Len(q) + 1
      /\ \A i \in 1 .. Len(q) + 1 : r[i] = IF i <= k THEN q[i] ELSE IF i = k + 1 THEN x ELSE q[i - 1]
  <2>1. IsInserted(Inserted(q, k, x), q, k, x)
    BY InsertedPlaces
  <2> QED
    BY <1>1, <2>1, LenProperties DEF IsInserted
<1>3. ASSUME NEW i \in 1 .. Len(q)
      PROVE  \E j \in 1 .. Len(r) : r[j] = q[i]
  <2>1. CASE i <= k
    <3>1. i \in 1 .. Len(r) /\ r[i] = q[i]
      BY <1>2, <2>1
    <3> QED
      BY <3>1
  <2>2. CASE ~(i <= k)
    <3>1. i + 1 \in 1 .. Len(r) /\ ~(i + 1 <= k) /\ i + 1 # k + 1 /\ (i + 1) - 1 = i
      BY <1>2, <2>2
    <3>2. r[i + 1] = q[i]
      BY <1>2, <3>1
    <3> QED
      BY <3>1, <3>2
  <2> QED
    BY <2>1, <2>2
<1>4. k + 1 \in 1 .. Len(r) /\ r[k + 1] = x
  BY <1>2
<1>5. ASSUME NEW j \in 1 .. Len(r)
      PROVE  \/ j <= k /\ j \in 1 .. Len(q) /\ r[j] = q[j]
             \/ j = k + 1 /\ r[j] = x
             \/ j > k + 1 /\ j - 1 \in 1 .. Len(q) /\ r[j] = q[j - 1]
  BY <1>2
<1>6. Listed(r) = Listed(q) \cup {x}
  <2>1. \A y \in Listed(r) : y \in Listed(q) \cup {x}
    BY <1>5 DEF Listed
  <2>2. \A y \in Listed(q) : y \in Listed(r)
    BY <1>3 DEF Listed
  <2>3. x \in Listed(r)
    BY <1>4 DEF Listed
  <2> QED
    BY <2>1, <2>2, <2>3
<1>7. ASSUME Distinct(q), x \notin Listed(q), NEW i \in 1 .. Len(r), NEW j \in 1 .. Len(r), r[i] = r[j]
      PROVE  i = j
  <2>1. \A a \in 1 .. Len(q) : q[a] # x
    BY <1>7 DEF Listed
  <2>2. \A a, b \in 1 .. Len(q) : q[a] = q[b] => a = b
    BY <1>7 DEF Distinct
  <2>3. \/ i <= k /\ i \in 1 .. Len(q) /\ r[i] = q[i]
        \/ i = k + 1 /\ r[i] = x
        \/ i > k + 1 /\ i - 1 \in 1 .. Len(q) /\ r[i] = q[i - 1]
    BY <1>5
  <2>4. \/ j <= k /\ j \in 1 .. Len(q) /\ r[j] = q[j]
        \/ j = k + 1 /\ r[j] = x
        \/ j > k + 1 /\ j - 1 \in 1 .. Len(q) /\ r[j] = q[j - 1]
    BY <1>5
  <2>5. i \in Int /\ j \in Int
    OBVIOUS
  <2> QED
    BY <1>2, <1>7, <2>1, <2>2, <2>3, <2>4, <2>5
<1> QED
  BY <1>1, <1>6, <1>7 DEF Distinct

LEMMA MappedPlaces ==
  ASSUME NEW f, NEW S, NEW q \in Seq(S), NEW T, MapsTo(f, S, T)
  PROVE  Mapped(f, q) \in Seq(T) /\ IsMapped(Mapped(f, q), f, q)
<1>1. PICK r : r = Mapped(f, q)
  OBVIOUS
<1>2. Len(q) \in Nat /\ \A i \in 1 .. Len(q) : q[i] \in S
  BY LenProperties
<1>3. r = [i \in 1 .. Len(q) |-> f[q[i]]]
  BY <1>1 DEF Mapped
<1>4. r \in [1 .. Len(q) -> T] /\ \A i \in 1 .. Len(q) : r[i] = f[q[i]]
  BY <1>2, <1>3 DEF MapsTo
<1>5. r \in Seq(T) /\ Len(r) = Len(q)
  BY <1>2, <1>4
<1> QED
  BY <1>1, <1>4, <1>5 DEF IsMapped

(* A list of things made into one of their values, when a new thing is put *)
(* into it or one is taken out.                                            *)
LEMMA MappedInserted ==
  ASSUME NEW T, NEW f \in Seq(T), NEW d \in T, NEW q \in Seq(1 .. Len(f)), NEW k \in 0 .. Len(q)
  PROVE  /\ Inserted(q, k, Len(f) + 1) \in Seq(1 .. Len(f) + 1)
         /\ Mapped(Append(f, d), Inserted(q, k, Len(f) + 1)) = Inserted(Mapped(f, q), k, d)
<1>1. PICK g, n : g = Append(f, d) /\ n = Len(f) + 1
  OBVIOUS
<1>2. /\ Len(f) \in Nat /\ g \in Seq(T) /\ Len(g) = n /\ g[n] = d /\ n \in Nat
      /\ \A o \in 1 .. Len(f) : g[o] = f[o] /\ f[o] \in T
      /\ \A o \in 1 .. n : g[o] \in T
  BY <1>1
<1>3. /\ Len(q) \in Nat /\ q \in Seq(1 .. n) /\ \A i \in 1 .. Len(q) : q[i] \in 1 .. Len(f)
      /\ n \in 1 .. n /\ k \in Nat
  BY <1>1, <1>2
<1>4. PICK r : r = Inserted(q, k, n)
  OBVIOUS
<1>5. /\ r \in Seq(1 .. n) /\ Len(r) = Len(q) + 1
      /\ \A i \in 1 .. Len(q) + 1 : r[i] = IF i <= k THEN q[i] ELSE IF i = k + 1 THEN n ELSE q[i - 1]
  <2>1. Inserted(q, k, n) \in Seq(1 .. n) /\ IsInserted(Inserted(q, k, n), q, k, n)
    BY <1>3, InsertedPlaces
  <2> QED
    BY <1>4, <2>1 DEF IsInserted
<1>6. PICK v : v = Mapped(f, q)
  OBVIOUS
<1>7. v \in Seq(T) /\ Len(v) = Len(q) /\ \A i \in 1 .. Len(q) : v[i] = f[q[i]]
  BY <1>2, <1>6, MappedPlaces DEF IsMapped, MapsTo
<1>8. PICK w : w = Mapped(g, r)
  OBVIOUS
<1>9. w \in Seq(T) /\ Len(w) = Len(r) /\ \A i \in 1 .. Len(r) : w[i] = g[r[i]]
  BY <1>2, <1>5, <1>8, MappedPlaces DEF IsMapped, MapsTo
<1>10. PICK u : u = Inserted(v, k, d)
  OBVIOUS
<1>11. /\ u \in Seq(T) /\ Len(u) = Len(v) + 1
       /\ \A i \in 1 .. Len(v) + 1 : u[i] = IF i <= k THEN v[i] ELSE IF i = k + 1 THEN d ELSE v[i - 1]
  <2>1. k \in 0 .. Len(v)
    BY <1>7
  <2>2. Inserted(v, k, d) \in Seq(T) /\ IsInserted(Inserted(v, k, d), v, k, d)
    BY <1>7, <2>1, InsertedPlaces
  <2> QED
    BY <1>10, <2>2 DEF IsInserted
<1>12. ASSUME NEW i \in 1 .. Len(w) PROVE w[i] = u[i]
  <2>1. i \in 1 .. Len(q) + 1 /\ w[i] = g[r[i]]
    BY <1>5, <1>9
  <2>2. CASE i <= k
    <3>1. i \in 1 .. Len(q)
      BY <1>3, <2>1, <2>2
    <3> QED
      BY <1>2, <1>3, <1>5, <1>7, <1>11, <2>1, <2>2, <3>1
  <2>3. CASE i = k + 1
    <3>1. ~(i <= k)
      BY <1>3, <2>3
    <3>2. r[i] = n /\ u[i] = d
      BY <1>5, <1>7, <1>11, <2>1, <2>3, <3>1
    <3> QED
      BY <1>2, <2>1, <3>2
  <2>4. CASE ~(i <= k) /\ i # k + 1
    <3>1. i - 1 \in 1 .. Len(q)
      BY <1>3, <2>1, <2>4
    <3>2. r[i] = q[i - 1] /\ u[i] = v[i - 1]
      BY <1>5, <1>7, <1>11, <2>1, <2>4
    <3> QED
      BY <1>2, <1>3, <1>7, <2>1, <3>1, <3>2
  <2> QED
    BY <2>2, <2>3, <2>4
<1>13. w = u
  BY <1>5, <1>7, <1>9, <1>11, <1>12, SeqEqual
<1> QED
  BY <1>1, <1>4, <1>5, <1>6, <1>8, <1>10, <1>13

LEMMA MappedRest ==
  ASSUME NEW T, NEW f, NEW S, NEW q \in Seq(S), MapsTo(f, S, T), NEW k \in 1 .. Len(q)
  PROVE  Mapped(f, Rest(q, k)) = Rest(Mapped(f, q), k)
<1>1. Len(q) \in Nat /\ \A i \in 1 .. Len(q) : q[i] \in S
  BY LenProperties
<1>2. PICK r : r = Rest(q, k)
  OBVIOUS
<1>3. /\ r \in Seq(S) /\ Len(r) = Len(q) - 1
      /\ \A i \in 1 .. Len(q) - 1 : r[i] = IF i < k THEN q[i] ELSE q[i + 1]
  BY <1>2, RestPlaces
<1>4. PICK v : v = Mapped(f, q)
  OBVIOUS
<1>5. v \in Seq(T) /\ Len(v) = Len(q) /\ \A i \in 1 .. Len(q) : v[i] = f[q[i]]
  BY <1>4, MappedPlaces DEF IsMapped
<1>6. PICK w : w = Mapped(f, r)
  OBVIOUS
<1>7. w \in Seq(T) /\ Len(w) = Len(r) /\ \A i \in 1 .. Len(r) : w[i] = f[r[i]]
  BY <1>3, <1>6, MappedPlaces DEF IsMapped
<1>8. PICK u : u = Rest(v, k)
  OBVIOUS
<1>9. /\ u \in Seq(T) /\ Len(u) = Len(v) - 1
      /\ \A i \in 1 .. Len(v) - 1 : u[i] = IF i < k THEN v[i] ELSE v[i + 1]
  <2>1. k \in 1 .. Len(v)
    BY <1>5
  <2> QED
    BY <1>5, <1>8, <2>1, RestPlaces
<1>10. ASSUME NEW i \in 1 .. Len(w) PROVE w[i] = u[i]
  <2>1. i \in 1 .. Len(q) - 1 /\ i \in 1 .. Len(q) /\ i + 1 \in 1 .. Len(q)
    BY <1>1, <1>3, <1>7
  <2>2. w[i] = f[r[i]] /\ u[i] = IF i < k THEN v[i] ELSE v[i + 1]
    BY <1>3, <1>5, <1>7, <1>9, <2>1
  <2>3. r[i] = IF i < k THEN q[i] ELSE q[i + 1]
    BY <1>3, <2>1
  <2> QED
    BY <1>5, <2>1, <2>2, <2>3
<1>11. w = u
  BY <1>3, <1>5, <1>7, <1>9, <1>10, SeqEqual
<1> QED
  BY <1>2, <1>4, <1>6, <1>8, <1>11

-----------------------------------------------------------------------------
(* Desktops: the events under way lead a client from the desktops it lists *)
(* to those of the compositor, one desktop of an id at a time.             *)
DeskMessage == [kind : {"created", "removed", "activated", "deactivated"}, id : Id, value : Nat]
DeskRequest == [kind : {"get", "activate"}, id : Id, value : Nat]

Lists(ids) == ids \in Seq(Id) /\ Distinct(ids)
Makes(v, e, w) ==
  /\ Lists(w)
  /\ e.kind = "created" =>
       e.id \notin Listed(v) /\ e.value \in 0 .. Len(v) /\ w = Inserted(v, e.value, e.id)
  /\ e.kind = "removed" => \E k \in 1 .. Len(v) : v[k] = e.id /\ w = Rest(v, k)
  /\ e.kind \notin {"created", "removed"} => w = v
Unfolds(view, q, c, g) ==
  /\ view[0] = c /\ view[Len(q)] = g
  /\ \A n \in 1 .. Len(q) : Makes(view[n - 1], q[n], view[n])
Leads(q, c, g) == \E view : Unfolds(view, q, c, g)

LEMMA LeadsNowhere == \A q, c : q = <<>> => Leads(q, c, c)
<1> SUFFICES ASSUME NEW q, NEW c, q = <<>> PROVE Leads(q, c, c)
  OBVIOUS
<1> DEFINE view == [n \in {0} |-> c]
<1>1. Unfolds(view, <<>>, c, c)
  BY DEF Unfolds
<1> QED
  BY <1>1 DEF Leads

LEMMA LeadsBoth ==
  ASSUME NEW q \in Seq(DeskMessage), NEW r \in Seq(DeskMessage), NEW c, NEW g, NEW h,
         Leads(q, c, g), Leads(r, g, h)
  PROVE  Leads(q \o r, c, h)
<1>1. PICK v : Unfolds(v, q, c, g)
  BY DEF Leads
<1>2. PICK w : Unfolds(w, r, g, h)
  BY DEF Leads
<1> DEFINE view == [n \in 0 .. Len(q) + Len(r) |-> IF n <= Len(q) THEN v[n] ELSE w[n - Len(q)]]
<1>3. /\ Len(q) \in Nat /\ Len(r) \in Nat /\ Len(q \o r) = Len(q) + Len(r)
      /\ \A n \in 1 .. Len(q) + Len(r) : (q \o r)[n] = IF n <= Len(q) THEN q[n] ELSE r[n - Len(q)]
  BY ConcatProperties, LenProperties
<1>4. /\ \A n \in 0 .. Len(q) : view[n] = v[n]
      /\ \A n \in 0 .. Len(r) : view[n + Len(q)] = w[n]
  <2>1. v[Len(q)] = w[0]
    BY <1>1, <1>2 DEF Unfolds
  <2>2. ASSUME NEW n \in 0 .. Len(q) PROVE view[n] = v[n]
    BY <1>3
  <2>3. ASSUME NEW n \in 0 .. Len(r) PROVE view[n + Len(q)] = w[n]
    <3>1. n + Len(q) \in 0 .. Len(q) + Len(r) /\ (n + Len(q)) - Len(q) = n
      BY <1>3
    <3>2. n + Len(q) <= Len(q) => n = 0 /\ n + Len(q) = Len(q)
      BY <1>3
    <3> QED
      BY <2>1, <3>1, <3>2
  <2> QED
    BY <2>2, <2>3
<1> HIDE DEF view
<1>5. ASSUME NEW n \in 1 .. Len(q) + Len(r)
      PROVE  Makes(view[n - 1], (q \o r)[n], view[n])
  <2>1. CASE n <= Len(q)
    <3>1. n \in 1 .. Len(q) /\ n \in 0 .. Len(q) /\ n - 1 \in 0 .. Len(q) /\ (q \o r)[n] = q[n]
      BY <2>1, <1>3
    <3>2. view[n] = v[n] /\ view[n - 1] = v[n - 1]
      BY <3>1, <1>4
    <3> QED
      BY <3>1, <3>2, <1>1 DEF Unfolds
  <2>2. CASE ~(n <= Len(q))
    <3>1. PICK k \in 1 .. Len(r) : n = k + Len(q)
      <4>1. n - Len(q) \in 1 .. Len(r) /\ n = (n - Len(q)) + Len(q)
        BY <2>2, <1>3
      <4> QED
        BY <4>1
    <3>2. k \in 0 .. Len(r) /\ k - 1 \in 0 .. Len(r) /\ n - 1 = (k - 1) + Len(q)
          /\ (q \o r)[n] = r[k]
      BY <3>1, <2>2, <1>3
    <3>3. view[n] = w[k] /\ view[n - 1] = w[k - 1]
      BY <3>1, <3>2, <1>4
    <3> QED
      BY <3>1, <3>2, <3>3, <1>2 DEF Unfolds
  <2> QED
    BY <2>1, <2>2
<1>6. view[0] = c /\ view[Len(q \o r)] = h
  <2>1. 0 \in 0 .. Len(q) /\ Len(r) \in 0 .. Len(r) /\ Len(r) + Len(q) = Len(q \o r)
    BY <1>3
  <2>2. view[0] = v[0] /\ view[Len(r) + Len(q)] = w[Len(r)]
    BY <2>1, <1>4
  <2> QED
    BY <2>1, <2>2, <1>1, <1>2 DEF Unfolds
<1>7. Unfolds(view, q \o r, c, h)
  BY <1>3, <1>5, <1>6 DEF Unfolds
<1> QED
  BY <1>7 DEF Leads

LEMMA LeadsOne ==
  ASSUME NEW e \in DeskMessage, NEW c, NEW g, Makes(c, e, g)
  PROVE  Leads(<<e>>, c, g)
<1> DEFINE view == [n \in 0 .. 1 |-> IF n = 0 THEN c ELSE g]
<1>1. view[0] = c /\ view[1] = g
  OBVIOUS
<1> HIDE DEF view
<1>2. Len(<<e>>) = 1 /\ <<e>>[1] = e
  OBVIOUS
<1>3. \A n \in 1 .. 1 : n = 1 /\ n - 1 = 0
  OBVIOUS
<1>4. Unfolds(view, <<e>>, c, g)
  BY <1>1, <1>2, <1>3 DEF Unfolds
<1> QED
  BY <1>4 DEF Leads

LEMMA LeadsQuietly ==
  ASSUME NEW q \in Seq(DeskMessage), NEW c, Lists(c),
         \A n \in 1 .. Len(q) : q[n].kind \in {"activated", "deactivated"}
  PROVE  Leads(q, c, c)
<1> DEFINE view == [n \in 0 .. Len(q) |-> c]
<1>1. Len(q) \in Nat
  BY LenProperties
<1>2. \A n \in 0 .. Len(q) : view[n] = c
  OBVIOUS
<1> HIDE DEF view
<1>3. \A n \in 1 .. Len(q) : n \in 0 .. Len(q) /\ n - 1 \in 0 .. Len(q)
  BY <1>1
<1>4. 0 \in 0 .. Len(q) /\ Len(q) \in 0 .. Len(q)
  BY <1>1
<1>5. Unfolds(view, q, c, c)
  BY <1>2, <1>3, <1>4 DEF Unfolds, Makes
<1> QED
  BY <1>5 DEF Leads

LEMMA LeadsRest ==
  ASSUME NEW q \in Seq(DeskMessage), q # <<>>, NEW c, NEW g, Leads(q, c, g)
  PROVE  \E h : Makes(c, Head(q), h) /\ Leads(Tail(q), h, g)
<1>1. PICK v : Unfolds(v, q, c, g)
  BY DEF Leads
<1> DEFINE view == [n \in 0 .. Len(q) - 1 |-> v[n + 1]]
<1>2. /\ Len(q) \in Nat \ {0} /\ Head(q) = q[1] /\ Len(Tail(q)) = Len(q) - 1
      /\ \A n \in 1 .. Len(q) - 1 : Tail(q)[n] = q[n + 1]
  BY HeadTailProperties, LenProperties, EmptySeq
<1>3. \A n \in 0 .. Len(q) - 1 : view[n] = v[n + 1]
  OBVIOUS
<1> HIDE DEF view
<1>4. Makes(c, Head(q), v[1])
  <2>1. 1 \in 1 .. Len(q) /\ 1 - 1 = 0
    BY <1>2
  <2>2. Makes(v[1 - 1], q[1], v[1])
    BY <2>1, <1>1 DEF Unfolds
  <2> QED
    BY <2>1, <2>2, <1>1, <1>2 DEF Unfolds
<1>5. ASSUME NEW n \in 1 .. Len(q) - 1
      PROVE  Makes(view[n - 1], Tail(q)[n], view[n])
  <2>1. n \in 0 .. Len(q) - 1 /\ n - 1 \in 0 .. Len(q) - 1 /\ n + 1 \in 1 .. Len(q)
        /\ (n + 1) - 1 = n /\ (n - 1) + 1 = n
    BY <1>2
  <2>2. view[n] = v[n + 1] /\ view[n - 1] = v[(n + 1) - 1]
    BY <2>1, <1>3
  <2>3. Makes(v[(n + 1) - 1], q[n + 1], v[n + 1])
    BY <2>1, <1>1 DEF Unfolds
  <2> QED
    BY <2>2, <2>3, <1>2
<1>6. view[0] = v[1] /\ view[Len(q) - 1] = g
  <2>1. 0 \in 0 .. Len(q) - 1 /\ Len(q) - 1 \in 0 .. Len(q) - 1 /\ (Len(q) - 1) + 1 = Len(q)
        /\ 0 + 1 = 1
    BY <1>2
  <2>2. view[0] = v[0 + 1] /\ view[Len(q) - 1] = v[(Len(q) - 1) + 1]
    BY <2>1, <1>3
  <2> QED
    BY <2>1, <2>2, <1>1 DEF Unfolds
<1>7. Unfolds(view, Tail(q), v[1], g)
  BY <1>2, <1>5, <1>6 DEF Unfolds
<1> QED
  BY <1>4, <1>7 DEF Leads

(* A client that binds the manager is told of each desktop at its place.   *)
LEMMA LeadsToAll ==
  ASSUME NEW q, Lists(q), NEW es,
         es = [i \in DOMAIN q |-> Desktops!Event("created", q[i], Desktops!Place(i))], NEW none, none = <<>>
  PROVE  es \in Seq(DeskMessage) /\ Len(es) = Len(q) /\ Leads(es, none, q)
         /\ \A i \in 1 .. Len(q) : es[i].kind = "created" /\ es[i].id = q[i] /\ es[i].value = i - 1
<1>1. q \in Seq(Id) /\ Distinct(q) /\ Len(q) \in Nat /\ \A i \in 1 .. Len(q) : q[i] \in Id
  BY LenProperties DEF Lists
<1>2. es = [i \in 1 .. Len(q) |-> [kind |-> "created", id |-> q[i], value |-> i - 1]]
  BY <1>1 DEF Desktops!Event, Desktops!Place
<1>3. \A i \in 1 .. Len(q) : [kind |-> "created", id |-> q[i], value |-> i - 1] \in DeskMessage
  BY <1>1 DEF DeskMessage
<1>4. es \in [1 .. Len(q) -> DeskMessage]
  BY <1>2, <1>3
<1>5. es \in Seq(DeskMessage) /\ Len(es) = Len(q)
  BY <1>1, <1>4
<1>6. \A i \in 1 .. Len(q) : es[i].kind = "created" /\ es[i].id = q[i] /\ es[i].value = i - 1
  BY <1>2
<1> DEFINE view == [n \in 0 .. Len(q) |-> SubSeq(q, 1, n)]
<1>7. ASSUME NEW n \in 0 .. Len(q)
      PROVE  /\ view[n] \in Seq(Id) /\ Len(view[n]) = n
             /\ \A i \in 1 .. n : view[n][i] = q[i]
  <2>1. PICK p : p = SubSeq(q, 1, n)
    OBVIOUS
  <2>2. /\ p \in Seq(Id) /\ Len(p) = IF 1 <= n THEN n - 1 + 1 ELSE 0
        /\ \A i \in 1 .. n - 1 + 1 : p[i] = q[1 + i - 1]
    <3>1. n \in Int /\ 1 \in Int /\ \A i \in 1 .. n : q[i] \in Id
      BY <1>1
    <3> QED
      BY <2>1, <3>1, SubSeqProperties
  <2>3. Len(p) = n /\ \A i \in 1 .. n : p[i] = q[i]
    BY <2>2
  <2> QED
    BY <2>1, <2>2, <2>3
<1> HIDE DEF view
<1>8. view[0] = none /\ view[Len(q)] = q
  <2>1. 0 \in 0 .. Len(q) /\ Len(q) \in 0 .. Len(q)
    BY <1>1
  <2>2. view[0] = none
    <3>1. view[0] \in Seq(Id) /\ Len(view[0]) = 0
      BY <1>7, <2>1
    <3> QED
      BY <3>1, EmptySeq
  <2>3. view[Len(q)] = q
    <3>1. PICK p : p = view[Len(q)]
      OBVIOUS
    <3>2. p \in Seq(Id) /\ Len(p) = Len(q) /\ \A i \in 1 .. Len(p) : p[i] = q[i]
      BY <1>7, <2>1, <3>1
    <3> QED
      BY <1>1, <3>1, <3>2, SeqEqual
  <2> QED
    BY <2>2, <2>3
<1>9. ASSUME NEW n \in 1 .. Len(q)
      PROVE  Makes(view[n - 1], es[n], view[n])
  <2>1. n \in 0 .. Len(q) /\ n - 1 \in 0 .. Len(q)
    BY <1>1
  <2>2. PICK v, w : v = view[n - 1] /\ w = view[n]
    OBVIOUS
  <2>3. /\ v \in Seq(Id) /\ Len(v) = n - 1 /\ \A i \in 1 .. n - 1 : v[i] = q[i]
        /\ w \in Seq(Id) /\ Len(w) = n /\ \A i \in 1 .. n : w[i] = q[i]
    BY <1>7, <2>1, <2>2
  <2>4. Lists(w)
    BY <1>1, <2>3 DEF Lists, Distinct
  <2>5. q[n] \notin Listed(v) /\ n - 1 \in 0 .. Len(v)
    BY <1>1, <2>3 DEF Listed, Distinct
  <2>6. w = Inserted(v, n - 1, q[n])
    <3>1. PICK x : x = q[n]
      OBVIOUS
    <3>2. PICK u : u = Inserted(v, n - 1, x)
      OBVIOUS
    <3>3. u \in Seq(Id) /\ IsInserted(u, v, n - 1, x)
      BY <1>1, <2>3, <2>5, <3>1, <3>2, InsertedPlaces
    <3>4. Len(u) = n
      BY <2>3, <3>3 DEF IsInserted
    <3>5. ASSUME NEW i \in 1 .. Len(w) PROVE w[i] = u[i]
      <4>1. i \in 1 .. n /\ (i <= n - 1 \/ i = n)
        BY <2>3
      <4>2. u[i] = IF i <= n - 1 THEN v[i] ELSE IF i = (n - 1) + 1 THEN x ELSE v[i - 1]
        BY <2>3, <3>3, <4>1 DEF IsInserted
      <4> QED
        BY <2>3, <3>1, <4>1, <4>2
    <3>6. w = u
      BY <2>3, <3>3, <3>4, <3>5, SeqEqual
    <3> QED
      BY <3>1, <3>2, <3>6
  <2> QED
    BY <1>6, <2>2, <2>4, <2>5, <2>6 DEF Makes
<1>10. Unfolds(view, es, none, q)
  BY <1>5, <1>8, <1>9 DEF Unfolds
<1> QED
  BY <1>5, <1>6, <1>10 DEF Leads

(* What the client is told of the objects it made.                         *)
Seen == Mapped(idOf, list)
ActsOf(o) == {e \in DeskMessage : e.kind \in {"activated", "deactivated"} /\ e.value = o}
RightActs(o) == {e \in ActsOf(o) : e.kind = "activated" <=> idOf[o] \in desktopActive}
ActMirrored(o) ==
  Settles(desktopEvents, ActsOf(o), RightActs(o), o \in desktopIsActive <=> idOf[o] \in desktopActive)
Goes(d) ==
  \E i \in 1 .. Len(desktopEvents) : desktopEvents[i].kind = "removed" /\ desktopEvents[i].id = d
Awaits(o) ==
  \E i \in 1 .. Len(desktopRequests) : /\ desktopRequests[i].kind = "get"
                                       /\ desktopRequests[i].id = idOf[o]
                                       /\ desktopRequests[i].value = o
Untold(o) ==
  o \notin desktopIsActive /\ \A i \in 1 .. Len(desktopEvents) : desktopEvents[i] \notin ActsOf(o)

(* An object in the list is going to leave it, or its desktop is there and *)
(* the client asked for it and heard nothing yet, or is told.              *)
Followed(o) ==
  \/ Goes(idOf[o])
  \/ /\ idOf[o] \in Listed(desktops)
     /\ \/ Awaits(o) /\ Untold(o)
        \/ o \in desktopResources[idOf[o]] /\ ActMirrored(o)

DeskTypes ==
  /\ Lists(desktops) /\ desktopBound \in BOOLEAN
  /\ desktopEvents \in Seq(DeskMessage) /\ desktopRequests \in Seq(DeskRequest)
  /\ idOf \in Seq(Id) /\ list \in Seq(1 .. Len(idOf)) /\ Lists(Seen)
  /\ desktopIsActive \subseteq 1 .. Len(idOf)
  /\ desktopResources \in [Id -> SUBSET (1 .. Len(idOf))]
DeskBelongs ==
  /\ \A d \in Id : \A o \in desktopResources[d] : idOf[o] = d
  /\ \A i \in 1 .. Len(desktopRequests) :
       desktopRequests[i].kind = "get" =>
         /\ desktopRequests[i].value \in 1 .. Len(idOf)
         /\ idOf[desktopRequests[i].value] = desktopRequests[i].id
  /\ \A i \in 1 .. Len(desktopEvents) :
       desktopEvents[i].kind \in {"activated", "deactivated"} =>
         desktopEvents[i].value \in 1 .. Len(idOf)
CreatedThere ==
  \A i \in 1 .. Len(desktopEvents) : desktopEvents[i].kind = "created" =>
    \/ desktopEvents[i].id \in Listed(desktops)
    \/ \E j \in i + 1 .. Len(desktopEvents) :
         desktopEvents[j].kind = "removed" /\ desktopEvents[j].id = desktopEvents[i].id
DesksLead ==
  /\ desktopBound => Leads(desktopEvents, Seen, desktops)
  /\ ~desktopBound => desktopEvents = <<>> /\ desktopRequests = <<>> /\ list = <<>> /\ idOf = <<>>
DeskInv ==
  /\ DeskTypes /\ DeskBelongs /\ CreatedThere /\ DesksLead
  /\ \A o \in Listed(list) : Followed(o)

LEMMA DeskInit ==
  ASSUME Desktops!Init
  PROVE  DeskInv
<1> USE DEF Desktops!Init
<1>1. Len(desktopEvents) = 0 /\ Len(desktopRequests) = 0 /\ Len(list) = 0 /\ Len(idOf) = 0
  OBVIOUS
<1>2. Listed(list) = {}
  BY <1>1 DEF Listed
<1>3. \A q : q = <<>> => Lists(q)
  BY EmptyListed DEF Lists
<1>4. Seen = <<>>
  BY <1>1 DEF Seen, Mapped
<1>5. DeskTypes
  <2>1. desktopEvents \in Seq(DeskMessage) /\ desktopRequests \in Seq(DeskRequest)
    OBVIOUS
  <2>2. idOf \in Seq(Id) /\ list \in Seq(1 .. Len(idOf))
    OBVIOUS
  <2>3. desktopIsActive \subseteq 1 .. Len(idOf) /\ desktopResources \in [Id -> SUBSET (1 .. Len(idOf))]
    OBVIOUS
  <2> QED
    BY <1>3, <1>4, <2>1, <2>2, <2>3 DEF DeskTypes
<1>6. DeskBelongs /\ CreatedThere
  BY <1>1 DEF DeskBelongs, CreatedThere
<1> QED
  BY <1>2, <1>5, <1>6 DEF DeskInv, DesksLead

-----------------------------------------------------------------------------
(* The client is sent more.                                                *)
LEMMA SentPlaces ==
  ASSUME NEW q \in Seq(DeskMessage), NEW es \in Seq(DeskMessage)
  PROVE  /\ q \o es \in Seq(DeskMessage) /\ Len(q) \in Nat /\ Len(es) \in Nat
         /\ Len(q \o es) = Len(q) + Len(es)
         /\ \A i \in 1 .. Len(q) : (q \o es)[i] = q[i]
         /\ \A i \in 1 .. Len(es) : (q \o es)[Len(q) + i] = es[i]
         /\ \A i \in 1 .. Len(q) + Len(es) :
              i \in 1 .. Len(q) \/ (i - Len(q) \in 1 .. Len(es) /\ i = Len(q) + (i - Len(q)))
OBVIOUS

Appends(es) == es \in Seq(DeskMessage) /\ desktopEvents' = desktopEvents \o es

LEMMA AppendsPlaces ==
  ASSUME DeskTypes, NEW es, Appends(es)
  PROVE  /\ desktopEvents' \in Seq(DeskMessage) /\ Len(desktopEvents) \in Nat /\ Len(es) \in Nat
         /\ Len(desktopEvents') = Len(desktopEvents) + Len(es)
         /\ \A i \in 1 .. Len(desktopEvents) : desktopEvents'[i] = desktopEvents[i]
         /\ \A i \in 1 .. Len(es) : desktopEvents'[Len(desktopEvents) + i] = es[i]
         /\ \A i \in 1 .. Len(desktopEvents) + Len(es) :
              \/ i \in 1 .. Len(desktopEvents)
              \/ i - Len(desktopEvents) \in 1 .. Len(es) /\ i = Len(desktopEvents) + (i - Len(desktopEvents))
BY SentPlaces DEF Appends, DeskTypes

LEMMA GoesSent ==
  ASSUME DeskTypes, NEW es, Appends(es), NEW d
  PROVE  /\ Goes(d) => Goes(d)'
         /\ \A e \in Listed(es) : e.kind = "removed" /\ e.id = d => Goes(d)'
<1>1. /\ Len(desktopEvents) \in Nat /\ Len(es) \in Nat
      /\ Len(desktopEvents') = Len(desktopEvents) + Len(es)
      /\ \A i \in 1 .. Len(desktopEvents) : desktopEvents'[i] = desktopEvents[i]
      /\ \A i \in 1 .. Len(es) : desktopEvents'[Len(desktopEvents) + i] = es[i]
  BY AppendsPlaces
<1>2. \A i \in 1 .. Len(desktopEvents) : i \in 1 .. Len(desktopEvents')
  BY <1>1
<1>3. \A i \in 1 .. Len(es) : Len(desktopEvents) + i \in 1 .. Len(desktopEvents')
  BY <1>1
<1>4. Goes(d) => Goes(d)'
  BY <1>1, <1>2 DEF Goes
<1>5. ASSUME NEW i \in 1 .. Len(es), es[i].kind = "removed", es[i].id = d PROVE Goes(d)'
  BY <1>1, <1>3, <1>5 DEF Goes
<1> QED
  BY <1>4, <1>5 DEF Listed

LEMMA UntoldSent ==
  ASSUME DeskTypes, NEW es, Appends(es), NEW o, Untold(o), Listed(es) \cap ActsOf(o) = {},
         UNCHANGED desktopIsActive
  PROVE  Untold(o)'
<1>1. /\ Len(desktopEvents) \in Nat /\ Len(es) \in Nat
      /\ Len(desktopEvents') = Len(desktopEvents) + Len(es)
      /\ \A i \in 1 .. Len(desktopEvents) : desktopEvents'[i] = desktopEvents[i]
      /\ \A i \in 1 .. Len(es) : desktopEvents'[Len(desktopEvents) + i] = es[i]
      /\ \A i \in 1 .. Len(desktopEvents) + Len(es) :
           \/ i \in 1 .. Len(desktopEvents)
           \/ i - Len(desktopEvents) \in 1 .. Len(es) /\ i = Len(desktopEvents) + (i - Len(desktopEvents))
  BY AppendsPlaces
<1>2. \A i \in 1 .. Len(es) : es[i] \notin ActsOf(o)
  BY DEF Listed
<1>3. ActsOf(o)' = ActsOf(o)
  BY DEF ActsOf
<1>4. ASSUME NEW i \in 1 .. Len(desktopEvents') PROVE desktopEvents'[i] \notin ActsOf(o)
  <2>1. CASE i \in 1 .. Len(desktopEvents)
    BY <1>1, <2>1 DEF Untold
  <2>2. CASE i \notin 1 .. Len(desktopEvents)
    <3>1. PICK j \in 1 .. Len(es) : i = Len(desktopEvents) + j
      BY <1>1, <2>2
    <3> QED
      BY <1>1, <1>2, <3>1
  <2> QED
    BY <2>1, <2>2
<1> QED
  BY <1>3, <1>4 DEF Untold

LEMMA ActSent ==
  ASSUME DeskTypes, NEW es, Appends(es), NEW o,
         \/ /\ ActMirrored(o) /\ Listed(es) \cap ActsOf(o) = {}
            /\ idOf[o] \in desktopActive' <=> idOf[o] \in desktopActive
         \/ Tells(Listed(es), ActsOf(o), RightActs(o)'),
         UNCHANGED <<idOf, desktopIsActive>>
  PROVE  ActMirrored(o)'
<1>1. es \in Seq(DeskMessage) /\ desktopEvents' = desktopEvents \o es /\ desktopEvents \in Seq(DeskMessage)
  BY DEF Appends, DeskTypes
<1>2. PICK C, A, now : /\ C = ActsOf(o) /\ A = RightActs(o)'
                       /\ now = (o \in desktopIsActive' <=> idOf'[o] \in desktopActive')
  BY ZenonT(40)
<1>3. (Settles(desktopEvents, C, A, now) /\ Listed(es) \cap C = {}) \/ Tells(Listed(es), C, A)
  <2>1. (idOf[o] \in desktopActive' <=> idOf[o] \in desktopActive) =>
           A = RightActs(o) /\ (now <=> (o \in desktopIsActive <=> idOf[o] \in desktopActive))
    BY <1>2 DEF RightActs, ActsOf
  <2> QED
    BY <1>1, <1>2, <2>1 DEF ActMirrored, Settles
<1>4. Settles(desktopEvents \o es, C, A, now)
  BY <1>1, <1>3, SettlesSent
<1>5. ActsOf(o)' = ActsOf(o)
  BY DEF ActsOf
<1> QED
  BY <1>1, <1>2, <1>4, <1>5 DEF ActMirrored, Settles

(* What is sent keeps an object followed, if nothing is sent about it.     *)
LEMMA FollowedSent ==
  ASSUME DeskTypes, NEW es, Appends(es), NEW o, Followed(o), Listed(es) \cap ActsOf(o) = {},
         \/ \E e \in Listed(es) : e.kind = "removed" /\ e.id = idOf[o]
         \/ /\ idOf[o] \in Listed(desktops) => idOf[o] \in Listed(desktops)'
            /\ idOf[o] \in Listed(desktops) /\ o \in desktopResources[idOf[o]] =>
                 (idOf[o] \in desktopActive' <=> idOf[o] \in desktopActive)
            /\ o \in desktopResources[idOf[o]] => o \in desktopResources'[idOf[o]]
            /\ Awaits(o) => Awaits(o)',
         UNCHANGED <<idOf, desktopIsActive>>
  PROVE  Followed(o)'
<1>1. /\ Goes(idOf[o]) => Goes(idOf[o])'
      /\ \A e \in Listed(es) : e.kind = "removed" /\ e.id = idOf[o] => Goes(idOf[o])'
  BY GoesSent DEF Goes
<1>2. Untold(o) => Untold(o)'
  BY UntoldSent
<1>3. ActMirrored(o) /\ (idOf[o] \in desktopActive' <=> idOf[o] \in desktopActive) => ActMirrored(o)'
  BY ActSent
<1> QED
  BY <1>1, <1>2, <1>3 DEF Followed, Goes

(* What is sent leaves the other facts about the messages as they are.     *)
LEMMA BelongsSent ==
  ASSUME DeskInv, NEW es, Appends(es),
         \A e \in Listed(es) :
           /\ e.kind \in {"activated", "deactivated"} => e.value \in 1 .. Len(idOf)
           /\ e.kind = "created" => e.id \in Listed(desktops)',
         \A d \in Listed(desktops) : \/ d \in Listed(desktops)'
                                     \/ \E e \in Listed(es) : e.kind = "removed" /\ e.id = d,
         \A d \in Id : \A o \in desktopResources'[d] : idOf[o] = d,
         \A i \in 1 .. Len(desktopRequests') :
           \E j \in 1 .. Len(desktopRequests) : desktopRequests'[i] = desktopRequests[j],
         UNCHANGED idOf
  PROVE  DeskBelongs' /\ CreatedThere'
<1>1. DeskTypes /\ DeskBelongs /\ CreatedThere
  BY DEF DeskInv
<1>2. /\ Len(desktopEvents) \in Nat /\ Len(es) \in Nat
      /\ Len(desktopEvents') = Len(desktopEvents) + Len(es)
      /\ \A i \in 1 .. Len(desktopEvents) : desktopEvents'[i] = desktopEvents[i]
      /\ \A i \in 1 .. Len(es) : desktopEvents'[Len(desktopEvents) + i] = es[i]
      /\ \A i \in 1 .. Len(desktopEvents) + Len(es) :
           \/ i \in 1 .. Len(desktopEvents)
           \/ i - Len(desktopEvents) \in 1 .. Len(es) /\ i = Len(desktopEvents) + (i - Len(desktopEvents))
  BY <1>1, AppendsPlaces
<1>3. ASSUME NEW i \in 1 .. Len(desktopEvents'),
             desktopEvents'[i].kind \in {"activated", "deactivated"}
      PROVE  desktopEvents'[i].value \in 1 .. Len(idOf)
  <2>1. CASE i \in 1 .. Len(desktopEvents)
    BY <1>1, <1>2, <1>3, <2>1 DEF DeskBelongs
  <2>2. CASE i \notin 1 .. Len(desktopEvents)
    <3>1. PICK j \in 1 .. Len(es) : i = Len(desktopEvents) + j
      BY <1>2, <2>2
    <3>2. es[j] \in Listed(es)
      BY DEF Listed
    <3> QED
      BY <1>2, <1>3, <3>1, <3>2
  <2> QED
    BY <2>1, <2>2
<1>4. ASSUME NEW i \in 1 .. Len(desktopRequests'), desktopRequests'[i].kind = "get"
      PROVE  /\ desktopRequests'[i].value \in 1 .. Len(idOf)
             /\ idOf[desktopRequests'[i].value] = desktopRequests'[i].id
  BY <1>1, <1>4 DEF DeskBelongs
<1>5. DeskBelongs'
  BY <1>3, <1>4 DEF DeskBelongs
<1>6. ASSUME NEW i \in 1 .. Len(desktopEvents'), desktopEvents'[i].kind = "created",
             desktopEvents'[i].id \notin Listed(desktops)'
      PROVE  \E j \in i + 1 .. Len(desktopEvents') :
               desktopEvents'[j].kind = "removed" /\ desktopEvents'[j].id = desktopEvents'[i].id
  <2>1. CASE i \in 1 .. Len(desktopEvents)
    <3>1. desktopEvents[i] = desktopEvents'[i]
      BY <1>2, <2>1
    <3>2. CASE desktopEvents[i].id \in Listed(desktops)
      <4>1. PICK e \in Listed(es) : e.kind = "removed" /\ e.id = desktopEvents[i].id
        BY <1>6, <3>1, <3>2
      <4>2. PICK k \in 1 .. Len(es) : e = es[k]
        BY DEF Listed
      <4>3. Len(desktopEvents) + k \in i + 1 .. Len(desktopEvents')
        BY <1>2, <2>1
      <4> QED
        BY <1>2, <3>1, <4>1, <4>2, <4>3
    <3>3. CASE desktopEvents[i].id \notin Listed(desktops)
      <4>1. PICK j \in i + 1 .. Len(desktopEvents) :
              desktopEvents[j].kind = "removed" /\ desktopEvents[j].id = desktopEvents[i].id
        BY <1>1, <1>6, <2>1, <3>1, <3>3 DEF CreatedThere
      <4>2. j \in 1 .. Len(desktopEvents) /\ j \in i + 1 .. Len(desktopEvents')
        BY <1>2, <2>1
      <4> QED
        BY <1>2, <3>1, <4>1, <4>2
    <3> QED
      BY <3>2, <3>3
  <2>2. CASE i \notin 1 .. Len(desktopEvents)
    <3>1. PICK j \in 1 .. Len(es) : i = Len(desktopEvents) + j
      BY <1>2, <2>2
    <3>2. es[j] \in Listed(es)
      BY DEF Listed
    <3> QED
      BY <1>2, <1>6, <3>1, <3>2
  <2> QED
    BY <2>1, <2>2
<1> QED
  BY <1>5, <1>6 DEF CreatedThere

-----------------------------------------------------------------------------
(* The client binds the manager.                                           *)
LEMMA DeskBound ==
  ASSUME DeskInv, Desktops!Bind
  PROVE  DeskInv'
<1>1. /\ DeskTypes /\ ~desktopBound /\ desktopRequests = <<>> /\ list = <<>> /\ idOf = <<>>
      /\ desktopBound' = TRUE
      /\ UNCHANGED <<desktops, desktopActive, desktopResources, desktopRequests, list, idOf,
                     desktopIsActive>>
  BY DEF DeskInv, DesksLead, Desktops!Bind
<1>2. PICK es : es = [i \in DOMAIN desktops |->
                        Desktops!Event("created", desktops[i], Desktops!Place(i))]
  OBVIOUS
<1>3. desktopEvents' = es
  BY <1>2 DEF Desktops!Bind
<1>4. PICK none : none = <<>>
  OBVIOUS
<1>5. /\ es \in Seq(DeskMessage) /\ Len(es) = Len(desktops) /\ Leads(es, none, desktops)
      /\ \A i \in 1 .. Len(desktops) : es[i].kind = "created" /\ es[i].id = desktops[i]
  BY <1>1, <1>2, <1>4, LeadsToAll DEF DeskTypes
<1>6. Seen = none /\ Listed(list) = {} /\ Len(desktopRequests) = 0
  <2>1. Len(list) = 0
    BY <1>1
  <2> QED
    BY <1>1, <1>4, <2>1 DEF Seen, Mapped, Listed
<1>7. Seen' = Seen
  BY <1>1 DEF Seen, Mapped
<1>8. DeskTypes'
  BY <1>1, <1>3, <1>5, <1>7 DEF DeskTypes, Lists, Distinct
<1>9. DeskBelongs' /\ CreatedThere'
  <2>1. \A d \in Id : \A o \in desktopResources[d] : idOf[o] = d
    BY DEF DeskInv, DeskBelongs
  <2>2. \A i \in 1 .. Len(desktops) : desktops[i] \in Listed(desktops)
    BY DEF Listed
  <2>3. DeskBelongs'
    BY <1>1, <1>3, <1>5, <1>6, <2>1 DEF DeskBelongs
  <2>4. CreatedThere'
    BY <1>1, <1>3, <1>5, <2>2 DEF CreatedThere, Listed
  <2> QED
    BY <2>3, <2>4
<1>10. DesksLead'
  BY <1>1, <1>3, <1>5, <1>6, <1>7 DEF DesksLead, Leads, Unfolds
<1>11. Listed(list)' = {}
  BY <1>1, <1>6 DEF Listed
<1> QED
  BY <1>8, <1>9, <1>10, <1>11 DEF DeskInv

(* The compositor makes a desktop.                                         *)
LEMMA DeskListed ==
  ASSUME DeskInv
  PROVE  /\ \A o \in Listed(list) : o \in 1 .. Len(idOf) /\ idOf[o] \in Id
         /\ \A d \in Listed(desktops) : d \in Id
         /\ ~desktopBound => Listed(list) = {}
<1>1. DeskTypes /\ DesksLead
  BY DEF DeskInv
<1>2. ~desktopBound => Len(list) = 0
  BY <1>1 DEF DesksLead
<1> QED
  BY <1>1, <1>2 DEF DeskTypes, Lists, Listed, DesksLead

(* An event about the list of desktops.                                    *)
LEMMA DeskListChanged ==
  ASSUME DeskInv, NEW e \in DeskMessage, Desktops!Send(<<e>>), e.kind \in {"created", "removed"},
         Makes(desktops, e, desktops'),
         \A o \in Listed(list) :
           Followed(o) =>
             \/ e.kind = "removed" /\ e.id = idOf[o]
             \/ /\ idOf[o] \in Listed(desktops) => idOf[o] \in Listed(desktops)'
                /\ idOf[o] \in Listed(desktops) =>
                     (idOf[o] \in desktopActive' <=> idOf[o] \in desktopActive)
                /\ o \in desktopResources[idOf[o]] => o \in desktopResources'[idOf[o]],
         e.kind = "created" => e.id \in Listed(desktops)',
         \A d \in Listed(desktops) : d \in Listed(desktops)' \/ (e.kind = "removed" /\ e.id = d),
         desktopResources' \in [Id -> SUBSET (1 .. Len(idOf))],
         \A d \in Id : \A o \in desktopResources'[d] : idOf[o] = d,
         UNCHANGED <<desktopBound, desktopRequests, list, idOf, desktopIsActive>>
  PROVE  DeskInv'
<1>1. DeskTypes /\ DeskBelongs /\ DesksLead /\ CreatedThere
  BY DEF DeskInv
<1>2. <<e>> \in Seq(DeskMessage) /\ Listed(<<e>>) = {e}
  BY ListedOne
<1>3. Seen' = Seen
  BY DEF Seen, Mapped
<1>4. CASE desktopBound
  <2>1. Appends(<<e>>)
    BY <1>2, <1>4 DEF Appends, Desktops!Send
  <2>2. DeskTypes'
    <3>1. desktopEvents' \in Seq(DeskMessage)
      BY <1>1, <2>1, AppendsPlaces
    <3>2. Lists(desktops')
      BY DEF Makes
    <3> QED
      BY <1>1, <1>3, <3>1, <3>2 DEF DeskTypes, Lists, Distinct
  <2>3. DeskBelongs' /\ CreatedThere'
    BY <1>2, <2>1, BelongsSent
  <2>4. DesksLead'
    <3>1. Leads(<<e>>, desktops, desktops')
      BY LeadsOne
    <3>2. Leads(desktopEvents, Seen, desktops)
      BY <1>1, <1>4 DEF DesksLead
    <3>3. Leads(desktopEvents \o <<e>>, Seen, desktops')
      BY <1>1, <1>2, <3>1, <3>2, LeadsBoth DEF DeskTypes
    <3> QED
      BY <1>3, <1>4, <2>1, <3>3 DEF DesksLead, Appends, Leads, Unfolds
  <2>5. ASSUME NEW o \in Listed(list) PROVE Followed(o)'
    <3>1. Followed(o) /\ Listed(<<e>>) \cap ActsOf(o) = {}
      BY <1>2 DEF DeskInv, ActsOf
    <3>2. Awaits(o) => Awaits(o)'
      BY DEF Awaits
    <3> QED
      BY <1>1, <1>2, <2>1, <3>1, <3>2, FollowedSent
  <2> QED
    BY <2>2, <2>3, <2>4, <2>5 DEF DeskInv, Listed
<1>5. CASE ~desktopBound
  <2>1. desktopEvents' = desktopEvents /\ desktopEvents = <<>>
    BY <1>1, <1>5 DEF DesksLead, Desktops!Send
  <2>2. Listed(list) = {} /\ Len(desktopEvents) = 0
    BY <1>5, <2>1, DeskListed
  <2>3. Lists(desktops')
    BY DEF Makes
  <2>4. DeskTypes'
    BY <1>1, <1>3, <2>1, <2>3 DEF DeskTypes, Lists, Distinct
  <2>5. DeskBelongs' /\ CreatedThere'
    BY <1>1, <2>1, <2>2 DEF DeskBelongs, CreatedThere
  <2>6. DesksLead'
    BY <1>1, <1>5, <2>1 DEF DesksLead
  <2>7. Listed(list)' = {}
    <3>1. list' = <<>> /\ Len(list') = 0
      BY <1>1, <1>5 DEF DesksLead
    <3> QED
      BY <3>1 DEF Listed
  <2> QED
    BY <2>4, <2>5, <2>6, <2>7 DEF DeskInv
<1> QED
  BY <1>4, <1>5

(* The compositor makes a desktop.                                         *)
LEMMA DeskCreated ==
  ASSUME Desktops!Assumptions, DeskInv, NEW d \in Id, NEW asked \in 0 .. MaxDesktopChanges,
         Desktops!CreateDesktop(d, asked)
  PROVE  DeskInv'
<1>1. DeskTypes /\ DeskBelongs
  BY DEF DeskInv
<1>2. PICK position : position = IF asked <= Len(desktops) THEN asked ELSE Len(desktops)
  OBVIOUS
<1>3. Len(desktops) \in Nat /\ asked \in Nat /\ position \in 0 .. Len(desktops) /\ position \in Nat
  BY <1>1, <1>2, LenProperties DEF Desktops!Assumptions, DeskTypes, Lists
<1>4. PICK e : e = Desktops!Event("created", d, position)
  OBVIOUS
<1>5. e \in DeskMessage /\ e.kind = "created" /\ e.id = d /\ e.value = position
  BY <1>3, <1>4 DEF Desktops!Event, DeskMessage
<1>6. /\ desktops' = Desktops!InsertAt(desktops, position, d) /\ Desktops!Send(<<e>>)
      /\ desktopActive' = IF desktops = <<>> THEN {d} ELSE desktopActive
      /\ UNCHANGED <<desktopResources, desktopBound, desktopRequests, list, idOf, desktopIsActive>>
  BY <1>2, <1>4 DEF Desktops!CreateDesktop, Desktops!Changed
<1>7. d \notin Listed(desktops)
  <2>1. DOMAIN desktops = 1 .. Len(desktops)
    BY <1>1, LenProperties DEF DeskTypes, Lists
  <2>2. d \notin Desktops!Range(desktops)
    BY DEF Desktops!CreateDesktop
  <2> QED
    BY <2>1, <2>2 DEF Listed, Desktops!Range
<1>8. PICK q : q = Inserted(desktops, position, d)
  OBVIOUS
<1>9. /\ desktops' = q /\ q \in Seq(Id)
      /\ Listed(q) = Listed(desktops) \cup {d} /\ Distinct(q)
  BY <1>1, <1>3, <1>6, <1>7, <1>8, InsertAtPlaces, InsertedPlaces, InsertedListed DEF DeskTypes, Lists
<1>10. Makes(desktops, e, desktops')
  BY <1>3, <1>5, <1>7, <1>8, <1>9 DEF Makes, Lists
<1>11. Listed(desktops)' = Listed(desktops) \cup {d}
  BY <1>9 DEF Listed
<1>12. \A c \in Listed(desktops) : desktops # <<>>
  BY EmptyListed
<1>13. ASSUME NEW o \in Listed(list)
       PROVE  /\ idOf[o] \in Listed(desktops) => idOf[o] \in Listed(desktops)'
              /\ idOf[o] \in Listed(desktops) =>
                   (idOf[o] \in desktopActive' <=> idOf[o] \in desktopActive)
              /\ o \in desktopResources[idOf[o]] => o \in desktopResources'[idOf[o]]
  BY <1>6, <1>11, <1>12
<1>14. /\ desktopResources' \in [Id -> SUBSET (1 .. Len(idOf))]
       /\ \A c \in Id : \A o \in desktopResources'[c] : idOf[o] = c
  BY <1>1, <1>6 DEF DeskTypes, DeskBelongs
<1> QED
  BY <1>5, <1>6, <1>10, <1>11, <1>13, <1>14, DeskListChanged

(* The compositor removes a desktop.                                       *)
LEMMA DeskRemoveOne ==
  ASSUME NEW S, NEW q \in Seq(S), Distinct(q), NEW d, NEW k \in 1 .. Len(q), q[k] = d
  PROVE  Desktops!RemoveOne(q, d) = Rest(q, k)
<1>1. {i \in 1 .. Len(q) : q[i] = d} = {k}
  BY DEF Distinct
<1>2. (CHOOSE i \in {k} : \A j \in {k} : i <= j) = k
  <2>1. k <= k
    BY LenProperties
  <2> QED
    BY <2>1
<1> QED
  BY <1>1, <1>2 DEF Desktops!RemoveOne, Desktops!EraseFirst, Rest

LEMMA DeskRemoved ==
  ASSUME DeskInv, NEW d \in Id, Desktops!RemoveDesktop(d)
  PROVE  DeskInv'
<1>1. DeskTypes /\ DeskBelongs
  BY DEF DeskInv
<1>2. PICK e : e = Desktops!Event("removed", d, 0)
  OBVIOUS
<1>3. e \in DeskMessage /\ e.kind = "removed" /\ e.id = d
  BY <1>2 DEF Desktops!Event, DeskMessage
<1>4. /\ desktops' = Desktops!RemoveOne(desktops, d) /\ Desktops!Send(<<e>>)
      /\ desktopActive' = desktopActive \ {d} /\ desktopResources' = [desktopResources EXCEPT ![d] = {}]
      /\ UNCHANGED <<desktopBound, desktopRequests, list, idOf, desktopIsActive>>
  BY <1>2 DEF Desktops!RemoveDesktop, Desktops!Changed, Desktops!WithoutResources
<1>5. PICK k \in 1 .. Len(desktops) : desktops[k] = d
  <2>1. DOMAIN desktops = 1 .. Len(desktops)
    BY <1>1, LenProperties DEF DeskTypes, Lists
  <2>2. d \in Desktops!Range(desktops)
    BY DEF Desktops!RemoveDesktop
  <2> QED
    BY <2>1, <2>2 DEF Desktops!Range
<1>6. PICK q : q = Rest(desktops, k)
  OBVIOUS
<1>7. desktops' = q /\ q \in Seq(Id) /\ Listed(q) = Listed(desktops) \ {d} /\ Distinct(q)
  BY <1>1, <1>4, <1>5, <1>6, DeskRemoveOne, RestPlaces, RestListed DEF DeskTypes, Lists
<1>8. Makes(desktops, e, desktops')
  BY <1>3, <1>5, <1>6, <1>7 DEF Makes, Lists
<1>9. Listed(desktops)' = Listed(desktops) \ {d}
  BY <1>7 DEF Listed
<1>10. ASSUME NEW o \in Listed(list)
       PROVE  \/ idOf[o] = d
              \/ /\ idOf[o] \in Listed(desktops) => idOf[o] \in Listed(desktops)'
                 /\ idOf[o] \in Listed(desktops) =>
                      (idOf[o] \in desktopActive' <=> idOf[o] \in desktopActive)
                 /\ o \in desktopResources[idOf[o]] => o \in desktopResources'[idOf[o]]
  <2>1. idOf[o] \in Id
    BY <1>10, DeskListed
  <2> QED
    BY <1>1, <1>4, <1>9, <2>1 DEF DeskTypes
<1>11. /\ desktopResources' \in [Id -> SUBSET (1 .. Len(idOf))]
       /\ \A c \in Id : \A o \in desktopResources'[c] : idOf[o] = c
  BY <1>1, <1>4 DEF DeskTypes, DeskBelongs
<1> QED
  BY <1>3, <1>4, <1>8, <1>9, <1>10, <1>11, DeskListChanged

-----------------------------------------------------------------------------
(* Objects are told that their desktop is active, or not any more.         *)
AboutObjects(kind, d, S) == {Desktops!Event(kind, d, o) : o \in S}
AllSent(E) == \E es : Appends(es) /\ Listed(es) = E

LEMMA ObjectsOfSet ==
  ASSUME NEW S, IsFiniteSet(S)
  PROVE  /\ Desktops!Listing(S) \in Seq(S) /\ Listed(Desktops!Listing(S)) = S
         /\ DOMAIN Desktops!Listing(S) = 1 .. Len(Desktops!Listing(S))
<1>2. PICK n \in Nat : n = Cardinality(S) /\ ExistsBijection(1 .. n, S)
  BY FS_CardinalityType
<1>3. Desktops!Cardinality(S) = n
  BY <1>2 DEF Desktops!Cardinality, Cardinality
<1>4. PICK f \in Bijection(1 .. n, S) : TRUE
  BY <1>2 DEF ExistsBijection
<1>5. f \in Desktops!Bijection(1 .. n, S)
  BY <1>4 DEF Bijection, Injection, Surjection, IsInjective, Desktops!Bijection, Desktops!Injection,
     Desktops!Surjection, Desktops!IsInjective
<1>6. PICK q : q = Desktops!Listing(S)
  OBVIOUS
<1>7. q \in Desktops!Bijection(1 .. n, S)
  BY <1>3, <1>5, <1>6 DEF Desktops!Listing
<1>8. q \in [1 .. n -> S] /\ \A x \in S : \E i \in 1 .. n : q[i] = x
  BY <1>7 DEF Desktops!Bijection, Desktops!Injection, Desktops!Surjection
<1>9. q \in Seq(S) /\ Len(q) = n /\ DOMAIN q = 1 .. n
  BY <1>8
<1>10. Listed(q) = S
  BY <1>8, <1>9 DEF Listed
<1> QED
  BY <1>6, <1>9, <1>10

LEMMA ObjectsTold ==
  ASSUME NEW S, IsFiniteSet(S), S \subseteq Nat, NEW kind \in {"activated", "deactivated"},
         NEW d \in Id, Desktops!SendTo(S, kind, d)
  PROVE  AllSent(AboutObjects(kind, d, S))
<1>1. PICK q : q = Desktops!Listing(S)
  OBVIOUS
<1>2. q \in Seq(S) /\ DOMAIN q = 1 .. Len(q) /\ Listed(q) = S
  BY <1>1, ObjectsOfSet
<1>3. Len(q) \in Nat /\ \A i \in 1 .. Len(q) : q[i] \in Nat
  <2>1. Len(q) \in Nat /\ \A i \in 1 .. Len(q) : q[i] \in S
    BY <1>2, LenProperties
  <2> QED
    BY <2>1
<1>4. PICK es : es = [i \in 1 .. Len(q) |-> Desktops!Event(kind, d, q[i])]
  OBVIOUS
<1>5. desktopEvents' = desktopEvents \o es
  BY <1>1, <1>2, <1>4 DEF Desktops!SendTo
<1>6. \A i \in 1 .. Len(q) : Desktops!Event(kind, d, q[i]) \in DeskMessage
  BY <1>3 DEF Desktops!Event, DeskMessage
<1>7. es \in [1 .. Len(q) -> DeskMessage] /\ \A i \in 1 .. Len(q) : es[i] = Desktops!Event(kind, d, q[i])
  BY <1>4, <1>6
<1>8. es \in Seq(DeskMessage) /\ Len(es) = Len(q)
  BY <1>3, <1>7
<1>9. Listed(es) = AboutObjects(kind, d, S)
  BY <1>2, <1>7, <1>8 DEF Listed, AboutObjects
<1> QED
  BY <1>5, <1>8, <1>9 DEF AllSent, Appends

(* An event about desktops that are there, sent to some of their objects.  *)
ResourcesStay ==
  /\ desktopResources' \in [Id -> SUBSET (1 .. Len(idOf))]
  /\ \A c \in Id : \A o \in desktopResources'[c] : idOf[o] = c
  /\ \A c \in Id : desktopResources[c] \subseteq desktopResources'[c]
RequestsStay ==
  /\ desktopRequests' \in Seq(DeskRequest)
  /\ \A i \in 1 .. Len(desktopRequests') :
       \E j \in 1 .. Len(desktopRequests) : desktopRequests'[i] = desktopRequests[j]
  /\ desktopRequests = <<>> => desktopRequests' = <<>>
IsTold(S, kind, d) ==
  \A o \in S : /\ o \in desktopResources'[idOf[o]] /\ idOf[o] = d
               /\ kind = "activated" <=> d \in desktopActive'
OthersStay(S) ==
  \A o \in Listed(list) \ S :
    /\ o \in desktopResources[idOf[o]] =>
         (idOf[o] \in desktopActive' <=> idOf[o] \in desktopActive)
    /\ Awaits(o) => Awaits(o)'
LEMMA ActivityTold ==
  ASSUME DeskInv, NEW kind \in {"activated", "deactivated"}, NEW d \in Id,
         NEW S, S \subseteq 1 .. Len(idOf), Desktops!SendTo(S, kind, d),
         ResourcesStay, RequestsStay, IsTold(S, kind, d), OthersStay(S),
         UNCHANGED <<desktops, desktopBound, list, idOf, desktopIsActive>>
  PROVE  DeskInv'
<1>1. DeskTypes /\ DeskBelongs /\ DesksLead /\ CreatedThere
  BY DEF DeskInv
<1>12. /\ desktopResources' \in [Id -> SUBSET (1 .. Len(idOf))]
       /\ \A c \in Id : \A o \in desktopResources'[c] : idOf[o] = c
       /\ \A c \in Id : desktopResources[c] \subseteq desktopResources'[c]
  BY DEF ResourcesStay
<1>13. /\ desktopRequests' \in Seq(DeskRequest)
       /\ \A i \in 1 .. Len(desktopRequests') :
            \E j \in 1 .. Len(desktopRequests) : desktopRequests'[i] = desktopRequests[j]
       /\ desktopRequests = <<>> => desktopRequests' = <<>>
  BY DEF RequestsStay
<1>2. PICK E : E = AboutObjects(kind, d, S)
  OBVIOUS
<1>3. Len(idOf) \in Nat /\ IsFiniteSet(S) /\ S \subseteq Nat
  <2>1. Len(idOf) \in Nat
    BY <1>1, LenProperties DEF DeskTypes
  <2>2. IsFiniteSet(1 .. Len(idOf))
    BY <2>1, FS_Interval
  <2>3. IsFiniteSet(S)
    BY <2>2, FS_Subset
  <2>4. S \subseteq Nat
    BY <2>1
  <2> QED
    BY <2>1, <2>3, <2>4
<1>4. PICK es : Appends(es) /\ Listed(es) = E
  <2>1. AllSent(E)
    BY <1>2, <1>3, ObjectsTold
  <2> QED
    BY <2>1 DEF AllSent
<1>5. \A e \in E : e \in DeskMessage /\ e.kind = kind /\ e.value \in S
  <2>1. ASSUME NEW o \in S, NEW e, e = Desktops!Event(kind, d, o)
        PROVE  e \in DeskMessage /\ e.kind = kind /\ e.value \in S
    BY <1>3, <2>1 DEF Desktops!Event, DeskMessage
  <2> QED
    BY <1>2, <2>1 DEF AboutObjects
<1>6. es \in Seq(DeskMessage) /\ desktopEvents' = desktopEvents \o es
      /\ \A i \in 1 .. Len(es) : es[i] \in E
  BY <1>4 DEF Appends, Listed
<1>7. Seen' = Seen /\ Listed(desktops)' = Listed(desktops) /\ Listed(list)' = Listed(list)
  <2>1. desktops' = desktops /\ list' = list
    OBVIOUS
  <2> QED
    BY <2>1 DEF Seen, Mapped, Listed
<1>8. DeskTypes'
  <2>1. desktopEvents' \in Seq(DeskMessage)
    BY <1>1, <1>4, AppendsPlaces
  <2> QED
    BY <1>1, <1>7, <1>12, <1>13, <2>1 DEF DeskTypes, Lists, Distinct
<1>9. DeskBelongs' /\ CreatedThere'
  <2>1. \A e \in Listed(es) :
           /\ e.kind \in {"activated", "deactivated"} => e.value \in 1 .. Len(idOf)
           /\ e.kind = "created" => e.id \in Listed(desktops)'
    BY <1>4, <1>5
  <2>2. \A c \in Listed(desktops) : c \in Listed(desktops)'
    BY <1>7
  <2> QED
    BY <1>4, <1>12, <1>13, <2>1, <2>2, BelongsSent
<1>10. DesksLead'
  <2>1. CASE desktopBound
    <3>1. Leads(es, desktops, desktops)
      BY <1>1, <1>5, <1>6, LeadsQuietly DEF DeskTypes
    <3>2. Leads(desktopEvents, Seen, desktops)
      BY <1>1, <2>1 DEF DesksLead
    <3>3. Leads(desktopEvents \o es, Seen, desktops)
      BY <1>1, <1>6, <3>1, <3>2, LeadsBoth DEF DeskTypes
    <3> QED
      BY <1>6, <1>7, <2>1, <3>3 DEF DesksLead, Leads, Unfolds
  <2>2. CASE ~desktopBound
    <3>1. Len(idOf) = 0 /\ desktopEvents = <<>>
      BY <1>1, <2>2 DEF DesksLead
    <3>2. Len(es) = 0
      <4>1. S = {}
        BY <3>1
      <4>2. \A i \in 1 .. Len(es) : FALSE
        BY <1>5, <1>6, <4>1
      <4>3. Len(es) \in Nat
        BY <1>6, LenProperties
      <4> QED
        BY <4>2, <4>3
    <3>3. desktopEvents' = <<>>
      BY <1>6, <3>1, <3>2, EmptySeq
    <3> QED
      BY <1>1, <1>13, <2>2, <3>3 DEF DesksLead
  <2> QED
    BY <2>1, <2>2
<1>11. ASSUME NEW o \in Listed(list) PROVE Followed(o)'
  <2>1. Followed(o) /\ o \in 1 .. Len(idOf) /\ idOf[o] \in Id
    BY DeskListed DEF DeskInv
  <2>2. CASE o \in S
    <3>1. idOf[o] = d /\ o \in desktopResources'[idOf[o]] /\ (kind = "activated" <=> d \in desktopActive')
      BY <2>2 DEF IsTold
    <3>2. CASE Goes(idOf[o])
      BY <1>1, <1>4, <3>2, GoesSent DEF Followed, Goes
    <3>3. CASE idOf[o] \in Listed(desktops)
      <4>1. PICK e \in E : e = Desktops!Event(kind, d, o)
        BY <1>2, <2>2 DEF AboutObjects
      <4>2. e \in ActsOf(o)
        BY <1>5, <4>1 DEF ActsOf, Desktops!Event
      <4>3. \A m \in E : m \in ActsOf(o) => m \in RightActs(o)'
        BY <1>5, <3>1 DEF ActsOf, RightActs
      <4>4. Tells(Listed(es), ActsOf(o), RightActs(o)')
        BY <1>4, <4>1, <4>2, <4>3 DEF Tells
      <4>5. ActMirrored(o)'
        BY <1>1, <1>4, <4>4, ActSent
      <4> QED
        BY <1>7, <3>1, <3>3, <4>5 DEF Followed
    <3> QED
      BY <2>1, <3>2, <3>3 DEF Followed
  <2>3. CASE o \notin S
    <3>1. Listed(es) \cap ActsOf(o) = {}
      BY <1>4, <1>5, <2>3 DEF ActsOf
    <3>2. /\ o \in desktopResources[idOf[o]] =>
               (idOf[o] \in desktopActive' <=> idOf[o] \in desktopActive)
          /\ Awaits(o) => Awaits(o)'
      BY <2>3 DEF OthersStay
    <3>3. o \in desktopResources[idOf[o]] => o \in desktopResources'[idOf[o]]
      BY <1>12, <2>1
    <3> QED
      BY <1>1, <1>4, <1>7, <2>1, <3>1, <3>2, <3>3, FollowedSent
  <2> QED
    BY <2>2, <2>3
<1> QED
  BY <1>7, <1>8, <1>9, <1>10, <1>11 DEF DeskInv

LEMMA DeskActive ==
  ASSUME DeskInv, NEW d \in Id, NEW b \in BOOLEAN, Desktops!SetActive(d, b)
  PROVE  DeskInv'
<1>1. DeskTypes /\ DeskBelongs
  BY DEF DeskInv
<1>2. PICK kind \in {"activated", "deactivated"} : kind = IF b THEN "activated" ELSE "deactivated"
  OBVIOUS
<1>3. PICK S : S = desktopResources[d]
  OBVIOUS
<1>4. Desktops!SendTo(S, kind, d)
  BY <1>2, <1>3 DEF Desktops!SetActive
<1>5. /\ UNCHANGED <<desktops, desktopResources, desktopBound, desktopRequests, list, idOf,
                     desktopIsActive>>
      /\ desktopActive' = IF b THEN desktopActive \cup {d} ELSE desktopActive \ {d}
  BY DEF Desktops!SetActive, Desktops!Changed
<1>6. /\ S \subseteq 1 .. Len(idOf) /\ desktopResources \in [Id -> SUBSET (1 .. Len(idOf))]
      /\ \A c \in Id : \A o \in desktopResources[c] : idOf[o] = c
      /\ desktopRequests \in Seq(DeskRequest)
  BY <1>1, <1>3 DEF DeskTypes, DeskBelongs
<1>7. kind = "activated" <=> d \in desktopActive'
  <2>1. CASE b
    BY <1>2, <1>5, <2>1
  <2>2. CASE ~b
    BY <1>2, <1>5, <2>2
  <2> QED
    BY <2>1, <2>2
<1>8. \A o \in S : o \in desktopResources'[idOf[o]] /\ idOf[o] = d
  BY <1>3, <1>5, <1>6
<1>9. ASSUME NEW o \in Listed(list) \ S
      PROVE  /\ o \in desktopResources[idOf[o]] =>
                  (idOf[o] \in desktopActive' <=> idOf[o] \in desktopActive)
             /\ Awaits(o) => Awaits(o)'
  <2>1. idOf[o] = d => o \notin desktopResources[idOf[o]]
    BY <1>3
  <2>2. idOf[o] # d => (idOf[o] \in desktopActive' <=> idOf[o] \in desktopActive)
    BY <1>5
  <2>3. Awaits(o) => Awaits(o)'
    BY <1>5 DEF Awaits
  <2> QED
    BY <2>1, <2>2, <2>3
<1>10. \A i \in 1 .. Len(desktopRequests') :
         \E j \in 1 .. Len(desktopRequests) : desktopRequests'[i] = desktopRequests[j]
  BY <1>5
<1>11. /\ desktopResources' \in [Id -> SUBSET (1 .. Len(idOf))]
       /\ \A c \in Id : \A o \in desktopResources'[c] : idOf[o] = c
       /\ \A c \in Id : desktopResources[c] \subseteq desktopResources'[c]
       /\ desktopRequests' \in Seq(DeskRequest)
       /\ desktopRequests = <<>> => desktopRequests' = <<>>
       /\ UNCHANGED <<desktops, desktopBound, list, idOf, desktopIsActive>>
  BY <1>5, <1>6
<1>12. \A o \in S : /\ o \in desktopResources'[idOf[o]] /\ idOf[o] = d
                    /\ kind = "activated" <=> d \in desktopActive'
  BY <1>7, <1>8
<1>13. S \subseteq 1 .. Len(idOf)
  BY <1>6
<1>14. ResourcesStay /\ RequestsStay
  BY <1>10, <1>11 DEF ResourcesStay, RequestsStay
<1>15. IsTold(S, kind, d) /\ OthersStay(S)
  BY <1>9, <1>12 DEF IsTold, OthersStay
<1> QED
  BY <1>4, <1>11, <1>13, <1>14, <1>15, ActivityTold

-----------------------------------------------------------------------------
(* The server handles what the client asked.                               *)
LEMMA DeskHandled ==
  ASSUME DeskTypes, desktopRequests # <<>>, desktopRequests' = Tail(desktopRequests), UNCHANGED idOf
  PROVE  /\ Head(desktopRequests) = desktopRequests[1] /\ 1 \in 1 .. Len(desktopRequests)
         /\ desktopRequests' \in Seq(DeskRequest) /\ Head(desktopRequests) \in DeskRequest
         /\ \A i \in 1 .. Len(desktopRequests') :
              \E j \in 1 .. Len(desktopRequests) : desktopRequests'[i] = desktopRequests[j]
         /\ \A o : Awaits(o) /\ (Head(desktopRequests).kind = "get" => Head(desktopRequests).value # o)
                     => Awaits(o)'
<1>1. PICK q : q = desktopRequests
  OBVIOUS
<1>2. PICK r : r = Tail(q)
  OBVIOUS
<1>3. /\ q \in Seq(DeskRequest) /\ Len(q) \in Nat \ {0} /\ Len(r) = Len(q) - 1 /\ Head(q) = q[1]
      /\ r \in Seq(DeskRequest) /\ Head(q) \in DeskRequest
      /\ \A i \in 1 .. Len(q) - 1 : r[i] = q[i + 1]
  BY <1>1, <1>2 DEF DeskTypes
<1>4. desktopRequests' = r
  BY <1>1, <1>2
<1>5. ASSUME NEW i \in 1 .. Len(r) PROVE \E j \in 1 .. Len(q) : r[i] = q[j]
  <2>1. i + 1 \in 1 .. Len(q) /\ i \in 1 .. Len(q) - 1
    BY <1>3
  <2> QED
    BY <1>3, <2>1
<1>6. ASSUME NEW o, NEW j \in 1 .. Len(q), q[j].kind = "get", q[j].id = idOf[o], q[j].value = o,
             q[1].kind = "get" => q[1].value # o
      PROVE  Awaits(o)'
  <2>1. j # 1
    BY <1>6
  <2>2. j - 1 \in 1 .. Len(r) /\ j - 1 \in 1 .. Len(q) - 1 /\ (j - 1) + 1 = j
    BY <1>3, <2>1
  <2>3. r[j - 1] = q[j]
    BY <1>3, <2>2
  <2> QED
    BY <1>4, <1>6, <2>2, <2>3 DEF Awaits
<1>7. Len(desktopRequests') = Len(r) /\ \A i \in 1 .. Len(r) : desktopRequests'[i] = r[i]
  BY <1>4
<1>8. \A i \in 1 .. Len(desktopRequests') :
        \E j \in 1 .. Len(desktopRequests) : desktopRequests'[i] = desktopRequests[j]
  BY <1>1, <1>5, <1>7
<1>9. ASSUME NEW o, Awaits(o), Head(desktopRequests).kind = "get" => Head(desktopRequests).value # o
      PROVE  Awaits(o)'
  <2>1. PICK j \in 1 .. Len(q) : q[j].kind = "get" /\ q[j].id = idOf[o] /\ q[j].value = o
    BY <1>1, <1>9 DEF Awaits
  <2>2. q[1].kind = "get" => q[1].value # o
    BY <1>1, <1>3, <1>9
  <2> QED
    BY <1>6, <2>1, <2>2
<1> QED
  BY <1>1, <1>3, <1>4, <1>8, <1>9

(* Nothing is sent.                                                        *)
LEMMA DeskAnswered ==
  ASSUME DeskInv, desktopRequests # <<>>, desktopRequests' = Tail(desktopRequests),
         desktopResources' \in [Id -> SUBSET (1 .. Len(idOf))],
         \A c \in Id : \A o \in desktopResources'[c] : idOf[o] = c,
         \A c \in Id : desktopResources[c] \subseteq desktopResources'[c],
         \A o \in 1 .. Len(idOf) :
           /\ Head(desktopRequests).kind = "get" /\ Head(desktopRequests).value = o
           /\ idOf[o] \in Listed(desktops)
           => o \in desktopResources'[idOf[o]] /\ (Untold(o) => idOf[o] \notin desktopActive),
         UNCHANGED <<desktops, desktopActive, desktopBound, desktopEvents, list, idOf, desktopIsActive>>
  PROVE  DeskInv'
<1>1. DeskTypes /\ DeskBelongs /\ DesksLead /\ CreatedThere
  BY DEF DeskInv
<1>2. /\ desktopRequests' \in Seq(DeskRequest)
      /\ \A i \in 1 .. Len(desktopRequests') :
           \E j \in 1 .. Len(desktopRequests) : desktopRequests'[i] = desktopRequests[j]
      /\ \A o : Awaits(o) /\ (Head(desktopRequests).kind = "get" => Head(desktopRequests).value # o)
                  => Awaits(o)'
  BY <1>1, DeskHandled
<1>3. Seen' = Seen /\ Listed(desktops)' = Listed(desktops) /\ Listed(list)' = Listed(list)
  <2>1. desktops' = desktops /\ list' = list
    OBVIOUS
  <2> QED
    BY <2>1 DEF Seen, Mapped, Listed
<1>4. DeskTypes'
  BY <1>1, <1>2, <1>3 DEF DeskTypes, Lists, Distinct
<1>5. DeskBelongs'
  BY <1>1, <1>2 DEF DeskBelongs
<1>6. CreatedThere'
  BY <1>1, <1>3 DEF CreatedThere
<1>7. DesksLead'
  BY <1>1, <1>3 DEF DesksLead, Leads, Unfolds
<1>8. ASSUME NEW o \in Listed(list) PROVE Followed(o)'
  <2>1. Followed(o) /\ o \in 1 .. Len(idOf) /\ idOf[o] \in Id
    BY DeskListed DEF DeskInv
  <2>2. Goes(idOf[o]) => Goes(idOf[o])'
    BY DEF Goes
  <2>3. Untold(o) => Untold(o)'
    BY DEF Untold, ActsOf
  <2>4. ActMirrored(o) => ActMirrored(o)'
    BY DEF ActMirrored, Settles, ActsOf, RightActs
  <2>5. o \in desktopResources[idOf[o]] => o \in desktopResources'[idOf[o]]
    BY <2>1
  <2>6. Untold(o) /\ idOf[o] \notin desktopActive => ActMirrored(o)
    <3>1. Len(desktopEvents) \in Nat
      BY <1>1, LenProperties DEF DeskTypes
    <3> QED
      BY <3>1 DEF Untold, ActMirrored, Settles, RightActs
  <2>7. CASE Head(desktopRequests).kind = "get" /\ Head(desktopRequests).value = o
    BY <1>3, <2>1, <2>2, <2>4, <2>5, <2>6, <2>7 DEF Followed, Goes
  <2>8. CASE ~(Head(desktopRequests).kind = "get" /\ Head(desktopRequests).value = o)
    BY <1>2, <1>3, <2>1, <2>2, <2>3, <2>4, <2>5, <2>8 DEF Followed, Goes
  <2> QED
    BY <2>7, <2>8
<1> QED
  BY <1>3, <1>4, <1>5, <1>6, <1>7, <1>8 DEF DeskInv

LEMMA NobodyTold ==
  ASSUME DeskTypes, NEW S, S = {}, NEW kind \in {"activated", "deactivated"}, NEW d \in Id,
         Desktops!SendTo(S, kind, d)
  PROVE  desktopEvents' = desktopEvents
<1>1. IsFiniteSet(S) /\ S \subseteq Nat
  BY FS_EmptySet
<1>2. AllSent(AboutObjects(kind, d, S))
  BY <1>1, ObjectsTold
<1>3. AboutObjects(kind, d, S) = {}
  BY DEF AboutObjects
<1>4. PICK es : Appends(es) /\ Listed(es) = {}
  BY <1>2, <1>3 DEF AllSent
<1>5. es \in Seq(DeskMessage) /\ desktopEvents' = desktopEvents \o es
  BY <1>4 DEF Appends
<1>6. es = <<>>
  <2>1. \A i \in 1 .. Len(es) : FALSE
    BY <1>4 DEF Listed
  <2> QED
    BY <1>5, <2>1
<1> QED
  BY <1>5, <1>6 DEF DeskTypes

LEMMA DeskGot ==
  ASSUME DeskInv, desktopRequests # <<>>, desktopRequests' = Tail(desktopRequests),
         Desktops!HandleGet(Head(desktopRequests)),
         UNCHANGED <<desktops, desktopActive, desktopBound, list, idOf, desktopIsActive>>
  PROVE  DeskInv'
<1>1. DeskTypes /\ DeskBelongs
  BY DEF DeskInv
<1>2. PICK r : r = Head(desktopRequests)
  OBVIOUS
<1>3. /\ r = desktopRequests[1] /\ 1 \in 1 .. Len(desktopRequests) /\ r \in DeskRequest
      /\ desktopRequests' \in Seq(DeskRequest)
      /\ \A i \in 1 .. Len(desktopRequests') :
           \E j \in 1 .. Len(desktopRequests) : desktopRequests'[i] = desktopRequests[j]
      /\ \A o : Awaits(o) /\ (r.kind = "get" => r.value # o) => Awaits(o)'
  BY <1>1, <1>2, DeskHandled
<1>4. PICK o, d : o = r.value /\ d = r.id
  OBVIOUS
<1>5. r.kind = "get" /\ o \in 1 .. Len(idOf) /\ d \in Id /\ idOf[o] = d
  <2>1. r.kind = "get"
    BY <1>2 DEF Desktops!HandleGet
  <2> QED
    BY <1>1, <1>3, <1>4, <2>1 DEF DeskBelongs, DeskRequest
<1>6. d \in Listed(desktops) <=> d \in Desktops!Range(desktops)
  <2>1. DOMAIN desktops = 1 .. Len(desktops)
    BY <1>1, LenProperties DEF DeskTypes, Lists
  <2> QED
    BY <2>1 DEF Listed, Desktops!Range
<1>7. CASE d \notin Listed(desktops)
  <2>1. UNCHANGED <<desktopResources, desktopEvents>>
    BY <1>2, <1>4, <1>6, <1>7 DEF Desktops!HandleGet
  <2>2. /\ desktopResources' \in [Id -> SUBSET (1 .. Len(idOf))]
        /\ \A c \in Id : \A n \in desktopResources'[c] : idOf[n] = c
        /\ \A c \in Id : desktopResources[c] \subseteq desktopResources'[c]
    BY <1>1, <2>1 DEF DeskTypes, DeskBelongs
  <2>3. \A n \in 1 .. Len(idOf) :
          ~(r.kind = "get" /\ r.value = n /\ idOf[n] \in Listed(desktops))
    BY <1>4, <1>5, <1>7
  <2> QED
    BY <1>2, <2>1, <2>2, <2>3, DeskAnswered
<1>8. CASE d \in Listed(desktops)
  <2>1. desktopResources' = [desktopResources EXCEPT ![d] = @ \cup {o}]
    BY <1>2, <1>4, <1>6, <1>8 DEF Desktops!HandleGet
  <2>2. /\ desktopResources' \in [Id -> SUBSET (1 .. Len(idOf))]
        /\ \A c \in Id : \A n \in desktopResources'[c] : idOf[n] = c
        /\ \A c \in Id : desktopResources[c] \subseteq desktopResources'[c]
        /\ o \in desktopResources'[d]
    BY <1>1, <1>5, <2>1 DEF DeskTypes, DeskBelongs
  <2>3. PICK S : S = {n \in {o} : d \in desktopActive}
    OBVIOUS
  <2>4. PICK kind \in {"activated", "deactivated"} : kind = "activated"
    OBVIOUS
  <2>5. Desktops!SendTo(S, kind, d)
    BY <1>2, <1>4, <1>6, <1>8, <2>3, <2>4 DEF Desktops!HandleGet
  <2>6. CASE d \in desktopActive
    <3>1. S = {o} /\ S \subseteq 1 .. Len(idOf)
      BY <1>5, <2>3, <2>6
    <3>2. ResourcesStay
      BY <2>2 DEF ResourcesStay
    <3>3. RequestsStay
      BY <1>3 DEF RequestsStay
    <3>4. IsTold(S, kind, d)
      BY <1>5, <2>2, <2>4, <2>6, <3>1 DEF IsTold
    <3>5. OthersStay(S)
      BY <1>3, <1>4, <3>1 DEF OthersStay
    <3> QED
      BY <1>5, <2>5, <3>1, <3>2, <3>3, <3>4, <3>5, ActivityTold
  <2>7. CASE d \notin desktopActive
    <3>1. S = {}
      BY <2>3, <2>7
    <3>2. desktopEvents' = desktopEvents
      BY <1>1, <1>5, <2>5, <3>1, NobodyTold
    <3>3. \A n \in 1 .. Len(idOf) : r.kind = "get" /\ r.value = n /\ idOf[n] \in Listed(desktops)
            => n \in desktopResources'[idOf[n]] /\ (Untold(n) => idOf[n] \notin desktopActive)
      BY <1>4, <1>5, <2>2, <2>7
    <3> QED
      BY <1>2, <2>2, <3>2, <3>3, DeskAnswered
  <2> QED
    BY <2>6, <2>7
<1> QED
  BY <1>7, <1>8

LEMMA DeskRequested ==
  ASSUME DeskInv, Desktops!HandleRequest
  PROVE  DeskInv'
<1>1. /\ desktopRequests # <<>> /\ desktopRequests' = Tail(desktopRequests)
      /\ UNCHANGED <<desktops, desktopActive, desktopBound, list, idOf, desktopIsActive>>
      /\ Desktops!HandleGet(Head(desktopRequests)) \/ Desktops!HandleActivate(Head(desktopRequests))
  BY DEF Desktops!HandleRequest
<1>2. CASE Desktops!HandleGet(Head(desktopRequests))
  BY <1>1, <1>2, DeskGot
<1>3. CASE Desktops!HandleActivate(Head(desktopRequests))
  <2>1. UNCHANGED <<desktopResources, desktopEvents>> /\ Head(desktopRequests).kind # "get"
    BY <1>3 DEF Desktops!HandleActivate
  <2>2. DeskTypes /\ DeskBelongs
    BY DEF DeskInv
  <2>3. /\ desktopResources' \in [Id -> SUBSET (1 .. Len(idOf))]
        /\ \A c \in Id : \A n \in desktopResources'[c] : idOf[n] = c
        /\ \A c \in Id : desktopResources[c] \subseteq desktopResources'[c]
    BY <2>1, <2>2 DEF DeskTypes, DeskBelongs
  <2> QED
    BY <1>1, <2>1, <2>3, DeskAnswered
<1> QED
  BY <1>1, <1>2, <1>3

(* The client asks for one of its desktops to become active.               *)
LEMMA DeskAsked ==
  ASSUME DeskInv, NEW o \in 1 .. Len(idOf), Desktops!RequestActivate(o)
  PROVE  DeskInv'
<1>1. DeskTypes /\ DeskBelongs /\ DesksLead /\ CreatedThere
  BY DEF DeskInv
<1>2. PICK r : r = [kind |-> "activate", id |-> idOf[o], value |-> o]
  OBVIOUS
<1>3. /\ desktopRequests' = Append(desktopRequests, r) /\ o \in Desktops!Range(list)
      /\ UNCHANGED <<desktops, desktopActive, desktopResources, desktopBound, desktopEvents, list,
                     idOf, desktopIsActive>>
  BY <1>2 DEF Desktops!RequestActivate, Desktops!serverVars
<1>4. r \in DeskRequest /\ r.kind # "get"
  <2>1. idOf[o] \in Id /\ o \in Nat
    BY <1>1, LenProperties DEF DeskTypes
  <2> QED
    BY <1>2, <2>1 DEF DeskRequest
<1>5. PICK p, q : p = desktopRequests /\ q = Append(p, r)
  OBVIOUS
<1>6. /\ p \in Seq(DeskRequest) /\ q \in Seq(DeskRequest) /\ Len(p) \in Nat
      /\ Len(q) = Len(p) + 1 /\ q[Len(p) + 1] = r /\ \A i \in 1 .. Len(p) : q[i] = p[i]
  BY <1>1, <1>4, <1>5 DEF DeskTypes
<1>7. desktopRequests' = q
  BY <1>3, <1>5
<1>8. Seen' = Seen /\ Listed(list)' = Listed(list) /\ Listed(desktops)' = Listed(desktops)
  <2>1. desktops' = desktops /\ list' = list /\ idOf' = idOf
    BY <1>3
  <2> QED
    BY <2>1 DEF Seen, Mapped, Listed
<1>9. DeskTypes'
  BY <1>1, <1>3, <1>6, <1>7, <1>8 DEF DeskTypes, Lists, Distinct
<1>10. DeskBelongs'
  <2>1. ASSUME NEW i \in 1 .. Len(q), q[i].kind = "get"
        PROVE  q[i].value \in 1 .. Len(idOf) /\ idOf[q[i].value] = q[i].id
    <3>1. i \in 1 .. Len(p)
      BY <1>4, <1>6, <2>1
    <3> QED
      BY <1>1, <1>5, <1>6, <2>1, <3>1 DEF DeskBelongs
  <2> QED
    BY <1>1, <1>3, <1>7, <2>1 DEF DeskBelongs
<1>11. CreatedThere'
  BY <1>1, <1>3, <1>8 DEF CreatedThere
<1>12. DesksLead'
  <2>1. desktopBound
    <3>1. DOMAIN list = 1 .. Len(list)
      BY <1>1, LenProperties DEF DeskTypes
    <3>2. Listed(list) # {}
      BY <1>3, <3>1 DEF Listed, Desktops!Range
    <3> QED
      BY <3>2, DeskListed
  <2> QED
    BY <1>1, <1>3, <1>8, <2>1 DEF DesksLead, Leads, Unfolds
<1>13. ASSUME NEW n \in Listed(list) PROVE Followed(n)'
  <2>1. Followed(n)
    BY DEF DeskInv
  <2>2. Awaits(n) => Awaits(n)'
    <3>1. ASSUME NEW i \in 1 .. Len(p), p[i].kind = "get", p[i].id = idOf[n], p[i].value = n
          PROVE  Awaits(n)'
      <4>1. i \in 1 .. Len(q) /\ q[i] = p[i]
        BY <1>6
      <4> QED
        BY <1>3, <1>7, <3>1, <4>1 DEF Awaits
    <3> QED
      BY <1>5, <3>1 DEF Awaits
  <2>3. Untold(n) => Untold(n)'
    BY <1>3 DEF Untold, ActsOf
  <2>4. ActMirrored(n) => ActMirrored(n)'
    BY <1>3 DEF ActMirrored, Settles, ActsOf, RightActs
  <2> QED
    BY <1>3, <1>8, <2>1, <2>2, <2>3, <2>4 DEF Followed, Goes
<1> QED
  BY <1>8, <1>9, <1>10, <1>11, <1>12, <1>13 DEF DeskInv

-----------------------------------------------------------------------------
(* The client reads the first of the events.                               *)
Reads == desktopEvents # <<>> /\ desktopEvents' = Tail(desktopEvents)

LEMMA ReadPlaces ==
  ASSUME DeskTypes, Reads
  PROVE  /\ Head(desktopEvents) = desktopEvents[1] /\ Head(desktopEvents) \in DeskMessage
         /\ 1 \in 1 .. Len(desktopEvents) /\ desktopEvents' \in Seq(DeskMessage)
         /\ Len(desktopEvents') = Len(desktopEvents) - 1 /\ Len(desktopEvents) \in Nat \ {0}
         /\ \A i \in 1 .. Len(desktopEvents') :
              i + 1 \in 2 .. Len(desktopEvents) /\ desktopEvents'[i] = desktopEvents[i + 1]
         /\ \A i \in 2 .. Len(desktopEvents) :
              i - 1 \in 1 .. Len(desktopEvents') /\ desktopEvents'[i - 1] = desktopEvents[i]
<1>1. PICK q, r : q = desktopEvents /\ r = Tail(q)
  OBVIOUS
<1>2. /\ q \in Seq(DeskMessage) /\ Len(q) \in Nat \ {0} /\ Len(r) = Len(q) - 1 /\ Head(q) = q[1]
      /\ r \in Seq(DeskMessage) /\ Head(q) \in DeskMessage
      /\ \A i \in 1 .. Len(q) - 1 : r[i] = q[i + 1]
  BY <1>1 DEF DeskTypes, Reads
<1>3. ASSUME NEW i \in 1 .. Len(r) PROVE i + 1 \in 2 .. Len(q) /\ r[i] = q[i + 1]
  BY <1>2
<1>4. ASSUME NEW i \in 2 .. Len(q) PROVE i - 1 \in 1 .. Len(r) /\ r[i - 1] = q[i]
  <2>1. i - 1 \in 1 .. Len(q) - 1 /\ (i - 1) + 1 = i
    BY <1>2
  <2> QED
    BY <1>2, <2>1
<1>5. 1 \in 1 .. Len(q)
  BY <1>2
<1>6. desktopEvents' = r
  BY <1>1 DEF Reads
<1> QED
  BY <1>1, <1>2, <1>3, <1>4, <1>5, <1>6

LEMMA ReadGoes ==
  ASSUME DeskTypes, Reads, NEW d, Goes(d),
         ~(Head(desktopEvents).kind = "removed" /\ Head(desktopEvents).id = d)
  PROVE  Goes(d)'
<1>1. PICK i \in 1 .. Len(desktopEvents) : desktopEvents[i].kind = "removed" /\ desktopEvents[i].id = d
  BY DEF Goes
<1>2. i # 1
  BY <1>1, ReadPlaces
<1>3. i \in 2 .. Len(desktopEvents)
  BY <1>2, ReadPlaces
<1>4. i - 1 \in 1 .. Len(desktopEvents') /\ desktopEvents'[i - 1] = desktopEvents[i]
  BY <1>3, ReadPlaces
<1> QED
  BY <1>1, <1>4 DEF Goes

LEMMA ReadCreatedThere ==
  ASSUME DeskTypes, CreatedThere, Reads, UNCHANGED desktops
  PROVE  CreatedThere'
<1>1. ASSUME NEW i \in 1 .. Len(desktopEvents'), desktopEvents'[i].kind = "created",
             desktopEvents'[i].id \notin Listed(desktops)
      PROVE  \E j \in i + 1 .. Len(desktopEvents') :
               desktopEvents'[j].kind = "removed" /\ desktopEvents'[j].id = desktopEvents'[i].id
  <2>1. /\ i + 1 \in 2 .. Len(desktopEvents) /\ i + 1 \in 1 .. Len(desktopEvents)
        /\ desktopEvents'[i] = desktopEvents[i + 1]
    BY ReadPlaces
  <2>2. PICK j \in (i + 1) + 1 .. Len(desktopEvents) :
          desktopEvents[j].kind = "removed" /\ desktopEvents[j].id = desktopEvents[i + 1].id
    BY <1>1, <2>1 DEF CreatedThere
  <2>3. j \in 2 .. Len(desktopEvents)
    BY <2>2
  <2>4. j - 1 \in 1 .. Len(desktopEvents') /\ desktopEvents'[j - 1] = desktopEvents[j]
    BY <2>3, ReadPlaces
  <2>5. j - 1 \in i + 1 .. Len(desktopEvents')
    BY <2>2, <2>4
  <2> QED
    BY <2>1, <2>2, <2>4, <2>5
<1>2. Listed(desktops)' = Listed(desktops)
  BY DEF Listed
<1> QED
  BY <1>1, <1>2 DEF CreatedThere

LEMMA ReadUntold ==
  ASSUME DeskTypes, Reads, NEW o, Untold(o), o \notin desktopIsActive'
  PROVE  Untold(o)'
<1>1. ActsOf(o)' = ActsOf(o)
  BY DEF ActsOf
<1>2. ASSUME NEW i \in 1 .. Len(desktopEvents') PROVE desktopEvents'[i] \notin ActsOf(o)
  <2>1. i + 1 \in 2 .. Len(desktopEvents) /\ desktopEvents'[i] = desktopEvents[i + 1]
    BY ReadPlaces
  <2>2. i + 1 \in 1 .. Len(desktopEvents)
    BY <2>1
  <2> QED
    BY <2>1, <2>2 DEF Untold
<1> QED
  BY <1>1, <1>2 DEF Untold

LEMMA ReadAct ==
  ASSUME DeskTypes, Reads, NEW o, ActMirrored(o), idOf'[o] = idOf[o], UNCHANGED desktopActive,
         Head(desktopEvents) \notin ActsOf(o) => (o \in desktopIsActive' <=> o \in desktopIsActive),
         Head(desktopEvents) \in ActsOf(o) =>
           (o \in desktopIsActive' <=> Head(desktopEvents).kind = "activated")
  PROVE  ActMirrored(o)'
<1>1. PICK C, A, now, later :
        /\ C = ActsOf(o) /\ A = RightActs(o)
        /\ now = (o \in desktopIsActive <=> idOf[o] \in desktopActive)
        /\ later = (o \in desktopIsActive' <=> idOf[o] \in desktopActive)
  BY ZenonT(40)
<1>2. Settles(desktopEvents, C, A, now)
  BY <1>1 DEF ActMirrored, Settles
<1>3. /\ desktopEvents \in Seq(DeskMessage) /\ desktopEvents # <<>>
      /\ Head(desktopEvents) = desktopEvents[1]
  BY ReadPlaces DEF DeskTypes, Reads
<1>4. A \subseteq C
  BY <1>1 DEF RightActs
<1>5. desktopEvents[1] \notin C => (now => later)
  BY <1>1, <1>3
<1>6. desktopEvents[1] \in A => later
  BY <1>1, <1>3 DEF RightActs
<1>7. Settles(Tail(desktopEvents), C, A, later)
  BY <1>2, <1>3, <1>4, <1>5, <1>6, SettlesRead
<1>8. ActsOf(o)' = C /\ RightActs(o)' = A
  BY <1>1 DEF ActsOf, RightActs
<1> QED
  BY <1>1, <1>7, <1>8 DEF ActMirrored, Settles, Reads

(* The client reads that a desktop was made, and makes an object for it.   *)
LEMMA DeskMade ==
  ASSUME DeskInv, Reads, Desktops!ReadCreated(Head(desktopEvents)),
         UNCHANGED <<desktops, desktopActive, desktopResources, desktopBound>>
  PROVE  DeskInv'
<1>1. DeskTypes /\ DeskBelongs /\ DesksLead /\ CreatedThere
  BY DEF DeskInv
<1>2. PICK e, d, k : e = Head(desktopEvents) /\ d = e.id /\ k = e.value
  OBVIOUS
<1>3. e \in DeskMessage /\ e.kind = "created" /\ d \in Id /\ k \in Nat /\ e = desktopEvents[1]
  BY <1>1, <1>2, ReadPlaces DEF DeskMessage, Desktops!ReadCreated
<1>4. desktopBound /\ Leads(desktopEvents, Seen, desktops)
  BY <1>1 DEF DesksLead, Reads
<1>5. PICK h : Makes(Seen, e, h) /\ Leads(Tail(desktopEvents), h, desktops)
  BY <1>1, <1>2, <1>4, LeadsRest DEF DeskTypes, Reads
<1>6. d \notin Listed(Seen) /\ k \in 0 .. Len(Seen) /\ h = Inserted(Seen, k, d) /\ Lists(h)
  BY <1>2, <1>3, <1>5 DEF Makes
<1>7. PICK f, q, n : f = idOf /\ q = list /\ n = Len(f) + 1
  OBVIOUS
<1>8. f \in Seq(Id) /\ q \in Seq(1 .. Len(f)) /\ Len(f) \in Nat /\ n \in Nat /\ Len(q) \in Nat
  BY <1>1, <1>7, LenProperties DEF DeskTypes
<1>9. /\ Len(Seen) = Len(q) /\ \A i \in 1 .. Len(q) : Seen[i] = f[q[i]] /\ q[i] \in 1 .. Len(f)
  <2>1. MapsTo(f, 1 .. Len(f), Id)
    BY <1>8, LenProperties DEF MapsTo
  <2>2. IsMapped(Mapped(f, q), f, q)
    BY <1>8, <2>1, MappedPlaces
  <2>3. \A i \in 1 .. Len(q) : q[i] \in 1 .. Len(f)
    BY <1>8, LenProperties
  <2> QED
    BY <1>7, <2>2, <2>3 DEF Seen, IsMapped
<1>10. Desktops!Listed(d) = {}
  <2>1. DOMAIN q = 1 .. Len(q)
    BY <1>8
  <2>2. \A i \in 1 .. Len(q) : f[q[i]] # d
    BY <1>6, <1>9 DEF Listed
  <2> QED
    BY <1>7, <2>1, <2>2 DEF Desktops!Listed, Desktops!Range
<1>11. PICK r : r = [kind |-> "get", id |-> d, value |-> n]
  OBVIOUS
<1>12. /\ idOf' = Append(f, d) /\ desktopRequests' = Append(desktopRequests, r)
       /\ list' = Desktops!InsertAt(q, k, n) /\ desktopIsActive' = desktopIsActive
  BY <1>2, <1>7, <1>10, <1>11 DEF Desktops!ReadCreated
<1>13. PICK g : g = Append(f, d)
  OBVIOUS
<1>14. /\ g \in Seq(Id) /\ Len(g) = n /\ g[n] = d /\ \A o \in 1 .. Len(f) : g[o] = f[o]
  BY <1>3, <1>7, <1>8, <1>13
<1>15. PICK p : p = Inserted(q, k, n)
  OBVIOUS
<1>16. /\ q \in Seq(1 .. n) /\ k \in 0 .. Len(q) /\ n \in 1 .. n
  <2>1. \A i \in 1 .. Len(q) : q[i] \in 1 .. n
    BY <1>7, <1>8, <1>9
  <2> QED
    BY <1>6, <1>7, <1>8, <1>9, <2>1
<1>17. list' = p /\ p \in Seq(1 .. n) /\ Listed(p) = Listed(q) \cup {n}
  BY <1>12, <1>15, <1>16, InsertAtPlaces, InsertedPlaces, InsertedListed
<1>18. Mapped(g, p) = Inserted(Mapped(f, q), k, d)
  BY <1>3, <1>7, <1>8, <1>13, <1>15, <1>16, MappedInserted
<1>19. Seen' = h
  BY <1>6, <1>7, <1>12, <1>13, <1>17, <1>18 DEF Seen, Mapped
<1>20. r \in DeskRequest
  BY <1>3, <1>8, <1>11 DEF DeskRequest
<1>21. PICK a, b : a = desktopRequests /\ b = Append(a, r)
  OBVIOUS
<1>22. /\ b \in Seq(DeskRequest) /\ Len(a) \in Nat /\ Len(b) = Len(a) + 1 /\ b[Len(a) + 1] = r
       /\ \A i \in 1 .. Len(a) : b[i] = a[i]
  BY <1>1, <1>20, <1>21 DEF DeskTypes
<1>23. desktopRequests' = b /\ idOf' = g
  BY <1>12, <1>13, <1>21
<1>24. \A o \in 1 .. Len(f) : o \in 1 .. n /\ o # n
  BY <1>7, <1>8
<1>25. DeskTypes'
  <2>1. desktopEvents' \in Seq(DeskMessage)
    BY <1>1, ReadPlaces
  <2>2. desktopIsActive \subseteq 1 .. n
    BY <1>1, <1>7, <1>24 DEF DeskTypes
  <2>3. desktopResources \in [Id -> SUBSET (1 .. n)]
    BY <1>1, <1>7, <1>24 DEF DeskTypes
  <2>4. Lists(Seen)' /\ Lists(desktops)' /\ (desktopBound \in BOOLEAN)'
    BY <1>1, <1>6, <1>19 DEF DeskTypes, Lists, Distinct
  <2> QED
    BY <1>12, <1>14, <1>17, <1>22, <1>23, <2>1, <2>2, <2>3, <2>4 DEF DeskTypes
<1>26. DeskBelongs'
  <2>1. ASSUME NEW c \in Id, NEW o \in desktopResources[c] PROVE g[o] = c
    <3>1. o \in 1 .. Len(f) /\ f[o] = c
      BY <1>1, <1>7 DEF DeskTypes, DeskBelongs
    <3> QED
      BY <1>14, <3>1
  <2>2. ASSUME NEW i \in 1 .. Len(b), b[i].kind = "get"
        PROVE  b[i].value \in 1 .. n /\ g[b[i].value] = b[i].id
    <3>1. CASE i \in 1 .. Len(a)
      <4>1. b[i] = a[i] /\ a[i].value \in 1 .. Len(f) /\ f[a[i].value] = a[i].id
        BY <1>1, <1>7, <1>21, <1>22, <2>2, <3>1 DEF DeskBelongs
      <4> QED
        BY <1>14, <1>24, <4>1
    <3>2. CASE i \notin 1 .. Len(a)
      <4>1. i = Len(a) + 1
        BY <1>22, <3>2
      <4> QED
        BY <1>11, <1>14, <1>16, <1>22, <4>1
    <3> QED
      BY <3>1, <3>2
  <2>3. ASSUME NEW i \in 1 .. Len(desktopEvents'),
               desktopEvents'[i].kind \in {"activated", "deactivated"}
        PROVE  desktopEvents'[i].value \in 1 .. n
    <3>1. i + 1 \in 1 .. Len(desktopEvents) /\ desktopEvents'[i] = desktopEvents[i + 1]
      BY <1>1, ReadPlaces
    <3> QED
      BY <1>1, <1>7, <1>24, <2>3, <3>1 DEF DeskBelongs
  <2> QED
    BY <1>14, <1>23, <2>1, <2>2, <2>3 DEF DeskBelongs
<1>27. CreatedThere'
  BY <1>1, ReadCreatedThere
<1>28. DesksLead'
  BY <1>4, <1>5, <1>19 DEF DesksLead, Leads, Unfolds, Reads
<1>29. Listed(desktops)' = Listed(desktops)
  BY DEF Listed
<1>30. ASSUME NEW o \in Listed(q) PROVE Followed(o)'
  <2>1. Followed(o) /\ o \in 1 .. Len(f)
    BY <1>1, <1>7, DeskListed DEF DeskInv
  <2>2. idOf'[o] = idOf[o]
    BY <1>7, <1>14, <1>23, <2>1
  <2>3. Goes(idOf[o]) => Goes(idOf[o])'
    <3>1. ~(Head(desktopEvents).kind = "removed" /\ Head(desktopEvents).id = idOf[o])
      BY <1>2, <1>3
    <3>2. PICK c : c = idOf[o]
      OBVIOUS
    <3>3. Goes(c) => Goes(c)'
      BY <1>1, <3>1, <3>2, ReadGoes
    <3> QED
      BY <2>2, <3>2, <3>3 DEF Goes
  <2>4. Awaits(o) => Awaits(o)'
    <3>1. ASSUME NEW i \in 1 .. Len(a), a[i].kind = "get", a[i].id = idOf[o], a[i].value = o
          PROVE  Awaits(o)'
      <4>1. i \in 1 .. Len(b) /\ b[i] = a[i]
        BY <1>22
      <4> QED
        BY <1>23, <2>2, <3>1, <4>1 DEF Awaits
    <3> QED
      BY <1>21, <3>1 DEF Awaits
  <2>5. Untold(o) => Untold(o)'
    <3>1. Untold(o) => o \notin desktopIsActive'
      BY <1>12 DEF Untold
    <3> QED
      BY <1>1, <3>1, ReadUntold
  <2>6. ActMirrored(o) => ActMirrored(o)'
    <3>1. Head(desktopEvents) \notin ActsOf(o)
      BY <1>2, <1>3 DEF ActsOf
    <3>2. o \in desktopIsActive' <=> o \in desktopIsActive
      BY <1>12
    <3> QED
      BY <1>1, <2>2, <3>1, <3>2, ReadAct
  <2> QED
    BY <1>29, <2>1, <2>2, <2>3, <2>4, <2>5, <2>6 DEF Followed, Goes
<1>31. Followed(n)'
  <2>1. idOf'[n] = d
    BY <1>14, <1>23
  <2>2. CASE d \in Listed(desktops)
    <3>1. Awaits(n)'
      <4>1. Len(a) + 1 \in 1 .. Len(b)
        BY <1>22
      <4> QED
        BY <1>11, <1>22, <1>23, <2>1, <4>1 DEF Awaits
    <3>2. n \notin desktopIsActive
      BY <1>1, <1>7, <1>24 DEF DeskTypes
    <3>3. ASSUME NEW i \in 1 .. Len(desktopEvents) PROVE desktopEvents[i] \notin ActsOf(n)
      BY <1>1, <1>7, <1>24 DEF DeskBelongs, ActsOf
    <3>4. Untold(n)'
      BY <1>1, <1>12, <3>2, <3>3, ReadUntold DEF Untold
    <3> QED
      BY <1>29, <2>1, <2>2, <3>1, <3>4 DEF Followed
  <2>3. CASE d \notin Listed(desktops)
    <3>1. 1 \in 1 .. Len(desktopEvents) /\ desktopEvents[1].kind = "created" /\ desktopEvents[1].id = d
      BY <1>1, <1>2, <1>3, ReadPlaces
    <3>2. PICK j \in 1 + 1 .. Len(desktopEvents) :
            desktopEvents[j].kind = "removed" /\ desktopEvents[j].id = d
      BY <1>1, <2>3, <3>1 DEF CreatedThere
    <3>3. j \in 2 .. Len(desktopEvents)
      BY <3>2
    <3>4. j - 1 \in 1 .. Len(desktopEvents') /\ desktopEvents'[j - 1] = desktopEvents[j]
      BY <1>1, <3>3, ReadPlaces
    <3> QED
      BY <2>1, <3>2, <3>4 DEF Followed, Goes
  <2> QED
    BY <2>2, <2>3
<1>32. \A o \in Listed(list)' : o \in Listed(q) \/ o = n
  BY <1>17 DEF Listed
<1> QED
  BY <1>25, <1>26, <1>27, <1>28, <1>30, <1>31, <1>32 DEF DeskInv

(* The client reads that a desktop was removed, and lets go of its object. *)
LEMMA DeskUnmade ==
  ASSUME DeskInv, Reads, Desktops!ReadRemoved(Head(desktopEvents)),
         UNCHANGED <<desktops, desktopActive, desktopResources, desktopBound>>
  PROVE  DeskInv'
<1>1. DeskTypes /\ DeskBelongs /\ DesksLead /\ CreatedThere
  BY DEF DeskInv
<1>2. PICK e, d : e = Head(desktopEvents) /\ d = e.id
  OBVIOUS
<1>3. e \in DeskMessage /\ e.kind = "removed" /\ d \in Id
  BY <1>1, <1>2, ReadPlaces DEF DeskMessage, Desktops!ReadRemoved
<1>4. desktopBound /\ Leads(desktopEvents, Seen, desktops)
  BY <1>1 DEF DesksLead, Reads
<1>5. PICK h : Makes(Seen, e, h) /\ Leads(Tail(desktopEvents), h, desktops)
  BY <1>1, <1>2, <1>4, LeadsRest DEF DeskTypes, Reads
<1>6. PICK k \in 1 .. Len(Seen) : Seen[k] = d /\ h = Rest(Seen, k)
  BY <1>2, <1>3, <1>5 DEF Makes
<1>7. Lists(h)
  BY <1>5 DEF Makes
<1>8. PICK f, q : f = idOf /\ q = list
  OBVIOUS
<1>9. /\ f \in Seq(Id) /\ q \in Seq(1 .. Len(f)) /\ Len(q) \in Nat
      /\ MapsTo(f, 1 .. Len(f), Id)
  BY <1>1, <1>8, LenProperties DEF DeskTypes, MapsTo
<1>10. Len(Seen) = Len(q) /\ \A i \in 1 .. Len(q) : Seen[i] = f[q[i]] /\ q[i] \in 1 .. Len(f)
  <2>1. IsMapped(Mapped(f, q), f, q)
    BY <1>9, MappedPlaces
  <2>2. \A i \in 1 .. Len(q) : q[i] \in 1 .. Len(f)
    BY <1>9, LenProperties
  <2> QED
    BY <1>8, <2>1, <2>2 DEF Seen, IsMapped
<1>11. k \in 1 .. Len(q) /\ f[q[k]] = d /\ \A i \in 1 .. Len(q) : f[q[i]] = d => i = k
  <2>1. \A i, j \in 1 .. Len(Seen) : Seen[i] = Seen[j] => i = j
    BY <1>1 DEF DeskTypes, Lists, Distinct
  <2> QED
    BY <1>6, <1>10, <2>1
<1>12. Distinct(q)
  <2>1. \A i, j \in 1 .. Len(Seen) : Seen[i] = Seen[j] => i = j
    BY <1>1 DEF DeskTypes, Lists, Distinct
  <2> QED
    BY <1>10, <2>1 DEF Distinct
<1>13. Desktops!Unlisted(d) = Rest(q, k)
  <2>1. {i \in DOMAIN list : idOf[list[i]] = d} = {k}
    <3>1. DOMAIN q = 1 .. Len(q)
      BY <1>9
    <3> QED
      BY <1>8, <1>11, <3>1
  <2>2. (CHOOSE i \in {k} : \A j \in {k} : i <= j) = k
    <3>1. k <= k
      BY <1>9, <1>11
    <3> QED
      BY <3>1
  <2> QED
    BY <1>8, <2>1, <2>2 DEF Desktops!Unlisted, Desktops!EraseFirst, Rest
<1>14. PICK x, p : x = q[k] /\ p = Rest(q, k)
  OBVIOUS
<1>15. p \in Seq(1 .. Len(f)) /\ Listed(p) = Listed(q) \ {x}
  BY <1>9, <1>11, <1>12, <1>14, RestPlaces, RestListed
<1>16. Desktops!Listed(d) = {x}
  <2>1. DOMAIN q = 1 .. Len(q)
    BY <1>9
  <2> QED
    BY <1>8, <1>11, <1>14, <2>1 DEF Desktops!Listed, Desktops!Range
<1>17. /\ list' = p /\ desktopIsActive' = desktopIsActive \ {x}
       /\ UNCHANGED <<idOf, desktopRequests>>
  BY <1>2, <1>13, <1>14, <1>16 DEF Desktops!ReadRemoved
<1>18. Mapped(f, p) = Rest(Mapped(f, q), k)
  BY <1>9, <1>11, <1>14, MappedRest
<1>19. Seen' = h
  BY <1>6, <1>8, <1>17, <1>18 DEF Seen, Mapped
<1>20. DeskTypes'
  <2>1. desktopEvents' \in Seq(DeskMessage)
    BY <1>1, ReadPlaces
  <2>2. Lists(Seen)' /\ Lists(desktops)'
    BY <1>1, <1>7, <1>19 DEF DeskTypes, Lists, Distinct
  <2> QED
    BY <1>1, <1>8, <1>15, <1>17, <2>1, <2>2 DEF DeskTypes
<1>21. DeskBelongs'
  <2>1. ASSUME NEW i \in 1 .. Len(desktopEvents'),
               desktopEvents'[i].kind \in {"activated", "deactivated"}
        PROVE  desktopEvents'[i].value \in 1 .. Len(idOf)
    <3>1. i + 1 \in 2 .. Len(desktopEvents) /\ desktopEvents'[i] = desktopEvents[i + 1]
      BY <1>1, ReadPlaces
    <3>2. i + 1 \in 1 .. Len(desktopEvents)
      BY <3>1
    <3> QED
      BY <1>1, <2>1, <3>1, <3>2 DEF DeskBelongs
  <2> QED
    BY <1>1, <1>17, <2>1 DEF DeskBelongs
<1>22. CreatedThere'
  BY <1>1, ReadCreatedThere
<1>23. DesksLead'
  BY <1>4, <1>5, <1>19 DEF DesksLead, Leads, Unfolds, Reads
<1>24. Listed(desktops)' = Listed(desktops)
  BY DEF Listed
<1>25. ASSUME NEW o \in Listed(q), o # x PROVE Followed(o)'
  <2>1. Followed(o)
    BY <1>8 DEF DeskInv
  <2>2. idOf[o] # d
    <3>1. PICK i \in 1 .. Len(q) : q[i] = o
      BY DEF Listed
    <3> QED
      BY <1>8, <1>11, <1>14, <1>25, <3>1
  <2>3. Goes(idOf[o]) => Goes(idOf[o])'
    <3>1. PICK c : c = idOf[o]
      OBVIOUS
    <3>2. Goes(c) => Goes(c)'
      BY <1>1, <1>2, <2>2, <3>1, ReadGoes
    <3> QED
      BY <1>17, <3>1, <3>2 DEF Goes
  <2>4. Awaits(o) => Awaits(o)'
    BY <1>17 DEF Awaits
  <2>5. Untold(o) => Untold(o)'
    <3>1. Untold(o) => o \notin desktopIsActive'
      BY <1>17 DEF Untold
    <3> QED
      BY <1>1, <3>1, ReadUntold
  <2>6. ActMirrored(o) => ActMirrored(o)'
    <3>1. Head(desktopEvents) \notin ActsOf(o)
      BY <1>2, <1>3 DEF ActsOf
    <3>2. o \in desktopIsActive' <=> o \in desktopIsActive
      BY <1>17, <1>25
    <3> QED
      BY <1>1, <1>17, <3>1, <3>2, ReadAct
  <2> QED
    BY <1>17, <1>24, <2>1, <2>3, <2>4, <2>5, <2>6 DEF Followed, Goes
<1>26. \A o \in Listed(list)' : o \in Listed(q) /\ o # x
  BY <1>15, <1>17 DEF Listed
<1> QED
  BY <1>20, <1>21, <1>22, <1>23, <1>25, <1>26 DEF DeskInv

(* The client reads that a desktop is active, or not any more.             *)
LEMMA DeskActiveRead ==
  ASSUME DeskInv, Reads, Desktops!ReadActive(Head(desktopEvents)),
         UNCHANGED <<desktops, desktopActive, desktopResources, desktopBound>>
  PROVE  DeskInv'
<1>1. DeskTypes /\ DeskBelongs /\ DesksLead /\ CreatedThere
  BY DEF DeskInv
<1>2. PICK e, n : e = Head(desktopEvents) /\ n = e.value
  OBVIOUS
<1>3. /\ e \in DeskMessage /\ e.kind \in {"activated", "deactivated"} /\ n \in 1 .. Len(idOf)
      /\ e = desktopEvents[1]
  BY <1>1, <1>2, ReadPlaces DEF DeskBelongs, Desktops!ReadActive
<1>4. desktopBound /\ Leads(desktopEvents, Seen, desktops)
  BY <1>1 DEF DesksLead, Reads
<1>5. PICK h : Makes(Seen, e, h) /\ Leads(Tail(desktopEvents), h, desktops)
  BY <1>1, <1>2, <1>4, LeadsRest DEF DeskTypes, Reads
<1>6. h = Seen
  BY <1>3, <1>5 DEF Makes
<1>7. /\ UNCHANGED <<list, idOf, desktopRequests>>
      /\ desktopIsActive' = IF n \notin Listed(list) THEN desktopIsActive
                            ELSE IF e.kind = "activated" THEN desktopIsActive \cup {n}
                            ELSE desktopIsActive \ {n}
  <2>1. DOMAIN list = 1 .. Len(list)
    BY <1>1, LenProperties DEF DeskTypes
  <2>2. Desktops!Range(list) = Listed(list)
    BY <2>1 DEF Desktops!Range, Listed
  <2> QED
    BY <1>2, <2>2 DEF Desktops!ReadActive
<1>8. Seen' = Seen /\ Listed(list)' = Listed(list) /\ Listed(desktops)' = Listed(desktops)
  <2>1. desktops' = desktops /\ list' = list /\ idOf' = idOf
    BY <1>7
  <2> QED
    BY <2>1 DEF Seen, Mapped, Listed
<1>9. DeskTypes'
  <2>1. desktopEvents' \in Seq(DeskMessage)
    BY <1>1, ReadPlaces
  <2>2. desktopIsActive' \subseteq 1 .. Len(idOf)
    BY <1>1, <1>3, <1>7 DEF DeskTypes
  <2> QED
    BY <1>1, <1>7, <1>8, <2>1, <2>2 DEF DeskTypes, Lists, Distinct
<1>10. DeskBelongs'
  <2>1. ASSUME NEW i \in 1 .. Len(desktopEvents'),
               desktopEvents'[i].kind \in {"activated", "deactivated"}
        PROVE  desktopEvents'[i].value \in 1 .. Len(idOf)
    <3>1. i + 1 \in 2 .. Len(desktopEvents) /\ desktopEvents'[i] = desktopEvents[i + 1]
      BY <1>1, ReadPlaces
    <3>2. i + 1 \in 1 .. Len(desktopEvents)
      BY <3>1
    <3> QED
      BY <1>1, <2>1, <3>1, <3>2 DEF DeskBelongs
  <2> QED
    BY <1>1, <1>7, <2>1 DEF DeskBelongs
<1>11. CreatedThere'
  BY <1>1, ReadCreatedThere
<1>12. DesksLead'
  BY <1>4, <1>5, <1>6, <1>8 DEF DesksLead, Leads, Unfolds, Reads
<1>13. ASSUME NEW o \in Listed(list) PROVE Followed(o)'
  <2>1. Followed(o)
    BY DEF DeskInv
  <2>2. Goes(idOf[o]) => Goes(idOf[o])'
    <3>1. PICK c : c = idOf[o]
      OBVIOUS
    <3>2. Goes(c) => Goes(c)'
      BY <1>1, <1>2, <1>3, ReadGoes
    <3> QED
      BY <1>7, <3>1, <3>2 DEF Goes
  <2>3. Awaits(o) => Awaits(o)'
    BY <1>7 DEF Awaits
  <2>4. e \in ActsOf(o) <=> n = o
    BY <1>2, <1>3 DEF ActsOf
  <2>5. Untold(o) => Untold(o)'
    <3>1. Untold(o) => e \notin ActsOf(o)
      BY <1>1, <1>3, ReadPlaces DEF Untold
    <3>2. Untold(o) => o \notin desktopIsActive'
      BY <1>7, <2>4, <3>1 DEF Untold
    <3> QED
      BY <1>1, <3>2, ReadUntold
  <2>6. ActMirrored(o) => ActMirrored(o)'
    <3>1. n # o => (o \in desktopIsActive' <=> o \in desktopIsActive)
      BY <1>7
    <3>2. n = o => (o \in desktopIsActive' <=> e.kind = "activated")
      BY <1>7
    <3> QED
      BY <1>1, <1>2, <1>7, <2>4, <3>1, <3>2, ReadAct
  <2> QED
    BY <1>7, <1>8, <2>1, <2>2, <2>3, <2>5, <2>6 DEF Followed, Goes
<1> QED
  BY <1>8, <1>9, <1>10, <1>11, <1>12, <1>13 DEF DeskInv

-----------------------------------------------------------------------------
LEMMA DeskNext ==
  Desktops!Assumptions /\ DeskInv /\ [Desktops!Next]_(Desktops!vars) => DeskInv'
<1> SUFFICES ASSUME Desktops!Assumptions, DeskInv, [Desktops!Next]_(Desktops!vars)
             PROVE  DeskInv'
  OBVIOUS
<1>1. CASE Desktops!Bind
  BY <1>1, DeskBound
<1>2. CASE Desktops!HandleRequest
  BY <1>2, DeskRequested
<1>3. CASE Desktops!ReadEvent
  <2>1. Reads /\ UNCHANGED <<desktops, desktopActive, desktopResources, desktopBound>>
    BY <1>3 DEF Desktops!ReadEvent, Desktops!serverVars, Reads
  <2>2. \/ Desktops!ReadCreated(Head(desktopEvents)) \/ Desktops!ReadRemoved(Head(desktopEvents))
        \/ Desktops!ReadActive(Head(desktopEvents))
    BY <1>3 DEF Desktops!ReadEvent
  <2> QED
    BY <2>1, <2>2, DeskMade, DeskUnmade, DeskActiveRead
<1>4. ASSUME NEW d \in Id, Desktops!RemoveDesktop(d) PROVE DeskInv'
  BY <1>4, DeskRemoved
<1>5. ASSUME NEW d \in Id, NEW asked \in 0 .. MaxDesktopChanges, Desktops!CreateDesktop(d, asked)
      PROVE  DeskInv'
  BY <1>5, DeskCreated
<1>6. ASSUME NEW d \in Id, NEW b \in BOOLEAN, Desktops!SetActive(d, b) PROVE DeskInv'
  BY <1>6, DeskActive
<1>7. ASSUME NEW o \in DOMAIN idOf, Desktops!RequestActivate(o) PROVE DeskInv'
  <2>1. o \in 1 .. Len(idOf)
    BY LenProperties DEF DeskInv, DeskTypes
  <2> QED
    BY <1>7, <2>1, DeskAsked
<1>8. CASE UNCHANGED Desktops!vars
  <2>1. UNCHANGED <<desktops, desktopActive, desktopResources, desktopBound, desktopEvents,
                    desktopRequests, list, idOf, desktopIsActive>>
    BY <1>8 DEF Desktops!vars, Desktops!serverVars
  <2>2. Listed(list)' = Listed(list) /\ Seen' = Seen
    BY <2>1 DEF Listed, Seen, Mapped
  <2>3. DeskTypes'
    BY <2>1, <2>2 DEF DeskInv, DeskTypes, Lists, Distinct
  <2>4. DeskBelongs' /\ CreatedThere'
    BY <2>1 DEF DeskInv, DeskBelongs, CreatedThere, Listed
  <2>5. DesksLead'
    BY <2>1, <2>2 DEF DeskInv, DesksLead, Leads, Unfolds
  <2>6. ASSUME NEW o \in Listed(list) PROVE Followed(o)'
    BY <2>1 DEF DeskInv, Followed, Goes, Awaits, Untold, ActMirrored, Settles, ActsOf, RightActs, Listed
  <2> QED
    BY <2>2, <2>3, <2>4, <2>5, <2>6 DEF DeskInv
<1> QED
  BY <1>1, <1>2, <1>3, <1>4, <1>5, <1>6, <1>7, <1>8 DEF Desktops!Next

LEMMA DesktopsAgree ==
  ASSUME DeskInv
  PROVE  Desktops!SameDesktops
<1> SUFFICES ASSUME desktopBound, desktopEvents = <<>>, desktopRequests = <<>>
             PROVE  /\ [i \in DOMAIN list |-> idOf[list[i]]] = desktops
                    /\ \A o \in Desktops!Range(list) :
                         (o \in desktopIsActive) = (idOf[o] \in desktopActive)
  BY DEF Desktops!SameDesktops
<1>1. DeskTypes /\ DesksLead /\ \A o \in Listed(list) : Followed(o)
  BY DEF DeskInv
<1>2. DOMAIN list = 1 .. Len(list) /\ Desktops!Range(list) = Listed(list)
  <2>1. DOMAIN list = 1 .. Len(list)
    BY <1>1, LenProperties DEF DeskTypes
  <2> QED
    BY <2>1 DEF Desktops!Range, Listed
<1>3. Len(desktopEvents) = 0 /\ Len(desktopRequests) = 0
  OBVIOUS
<1>4. [i \in DOMAIN list |-> idOf[list[i]]] = desktops
  <2>1. PICK view : Unfolds(view, desktopEvents, Seen, desktops)
    BY <1>1 DEF DesksLead, Leads
  <2>2. Seen = desktops
    BY <1>3, <2>1 DEF Unfolds
  <2> QED
    BY <1>2, <2>2 DEF Seen, Mapped
<1>5. ASSUME NEW o \in Listed(list)
      PROVE  (o \in desktopIsActive) = (idOf[o] \in desktopActive)
  <2>1. ~Goes(idOf[o]) /\ ~Awaits(o)
    BY <1>3 DEF Goes, Awaits
  <2>2. ActMirrored(o)
    BY <1>1, <2>1 DEF Followed
  <2>3. o \in desktopIsActive <=> idOf[o] \in desktopActive
    BY <1>3, <2>2 DEF ActMirrored, Settles
  <2> QED
    BY <2>3, SMT
<1> QED
  BY <1>2, <1>4, <1>5

-----------------------------------------------------------------------------
(* Once everything under way has arrived, a client sees the windows, the   *)
(* desktops and the outputs of the server and knows its globals, for any   *)
(* numbers of them and of changes, if the application connects only        *)
(* without connection and makes a new registry for each one                *)
(* (plasma_window.cpp:180-225, plasma_virtual_desktop.cpp:60-193,          *)
(* output.cpp:104-137, src/client/plasmawindowmanagement.cpp:481-640,      *)
(* src/client/plasmavirtualdesktop.cpp:114-172, 344-385,                   *)
(* src/client/output.cpp:224-292, src/client/registry.cpp:798-829).        *)
THEOREM ClientsAgreeCorrect ==
  ASSUME Windows!Assumptions, Desktops!Assumptions, Outs!Assumptions, Connections!Assumptions,
         Careful, ~Reuse
  PROVE  Windows!Spec /\ Desktops!Spec /\ Outs!Spec /\ Connections!Spec => []ClientsAgree
<1>1. /\ Windows!Init => WindowInv /\ MirrorInv
      /\ (WindowInv /\ MirrorInv) /\ [Windows!Next]_(Windows!vars) => (WindowInv /\ MirrorInv)'
  BY WindowInit, WindowNext, MirrorInit, MirrorNext
<1>2. /\ Desktops!Init => DeskInv
      /\ DeskInv /\ [Desktops!Next]_(Desktops!vars) => DeskInv'
  BY DeskInit, DeskNext
<1>3. /\ Outs!Init => OutputInv
      /\ OutputInv /\ [Outs!Next]_(Outs!vars) => OutputInv'
  BY OutputInit, OutputNext
<1>4. /\ Connections!Init => ConnectionInv /\ KnowsInv
      /\ (ConnectionInv /\ KnowsInv) /\ [Connections!Next]_(Connections!vars)
           => (ConnectionInv /\ KnowsInv)'
  BY ConnectionInit, ConnectionNext, KnowsInit, KnowsNext
<1>5. (WindowInv /\ MirrorInv) /\ DeskInv /\ OutputInv /\ (ConnectionInv /\ KnowsInv)
        => ClientsAgree
  <2>1. ConnectionInv => ConnectionTypes
    BY DEF ConnectionInv
  <2> QED
    BY <2>1, WindowsAgree, DesktopsAgree, OutputAgrees, RegistryAgrees DEF ClientsAgree
<1> QED
  BY <1>1, <1>2, <1>3, <1>4, <1>5, PTL
     DEF Windows!Spec, Desktops!Spec, Outs!Spec, Connections!Spec
=============================================================================
