--------------------------- MODULE SeatFocusProofs ---------------------------
(***************************************************************************)
(* Proofs about what follows the focus of a seat, for any surfaces,        *)
(* sources, data devices, data control devices, text inputs, texts,        *)
(* pointers, gestures and buttons.                                         *)
(***************************************************************************)
EXTENDS SeatFocus, SequenceTheorems, WellFoundedInduction, TLAPS

-----------------------------------------------------------------------------
(* The selection: it exists, and those who should know it do.              *)

(* A device goes by the selection or by none, also while the focus is      *)
(* lost, and by none if the pool does not have it for a focused one.       *)
NothingStale ==
  \A d \in devices : /\ told[d] \in {None, selection}
                     /\ d \notin focusDevices => told[d] = None

Inv == TypeOK /\ SelectionAlive /\ NothingStale /\ SelectionKnown

LEMMA InitInv == Assumptions /\ Init => Inv
  BY DEF Assumptions, Init, Inv, TypeOK, SelectionAlive, NothingStale, SelectionKnown

-----------------------------------------------------------------------------
(* What the pool sends with a new selection.                               *)
LEMMA TransmittedTo ==
  ASSUME NEW s, NEW owned, NEW d \in AnyDevice
  PROVE  Transmitted(s, owned)[d] =
           IF d \in focusDevices \/ (d \in controls /\ (s = None \/ s # owned[d]))
             THEN s ELSE told[d]
  BY DEF Transmitted

(* A selection that replaces another: whoever takes it, the devices of the *)
(* focused client and the data control devices know it.                    *)
LEMMA ReplacedInv ==
  ASSUME Assumptions, Inv, NEW s \in Source \cup {None},
         NEW owned \in [AnyDevice -> Source \cup {None}],
         s \in sources' \cup {None}, TypeOK',
         selection' = s, told' = Transmitted(s, owned), own' = owned,
         UNCHANGED <<devices, controls, keyFocus, focusDevices, lost>>
  PROVE  Inv'
<1>1. devices \subseteq Device /\ controls \subseteq Control /\ focusDevices \subseteq Device
  BY DEF Inv, TypeOK
<1>2. SelectionAlive'
  <2>1. ASSUME NEW c \in controls PROVE s \in {told'[c], owned[c]}
    BY <1>1, TransmittedTo DEF AnyDevice
  <2> QED
    BY <2>1 DEF SelectionAlive
<1>3. ASSUME NEW d \in devices
      PROVE  told'[d] = IF d \in focusDevices THEN s ELSE told[d]
  BY <1>1, TransmittedTo DEF AnyDevice, Assumptions
<1>4. NothingStale'
  BY <1>3 DEF Inv, NothingStale
<1>5. SelectionKnown'
  BY <1>3 DEF Inv, SelectionKnown, NothingStale, DevicesOf
<1> QED
  BY <1>2, <1>4, <1>5 DEF Inv

(* A device that holds another source while the selection stays: a data    *)
(* control device that is denied nothing holds the selection.              *)
LEMMA TakesInv ==
  ASSUME Assumptions, Inv, NEW s \in sources \cup {None}, NEW takes \in BOOLEAN,
         NEW cs \in SUBSET Source,
         NEW owned \in [AnyDevice -> Source \cup {None}],
         \A c \in controls : owned[c] # own[c] => takes /\ owned[c] = s,
         Takes(owned, takes, s, cs),
         UNCHANGED <<objects, focusVars>>, used' \subseteq Source
  PROVE  Inv'
<1>1. /\ devices \subseteq Device /\ controls \subseteq Control /\ focusDevices \subseteq Device
      /\ s \in Source \cup {None} /\ selection \in Source \cup {None}
  BY DEF Inv, TypeOK
<1>2. Transmitted(s, owned) \in [AnyDevice -> Source \cup {None}]
  BY <1>1 DEF Transmitted, Inv, TypeOK
<1>3. cancelled' \subseteq Source
  BY <1>1 DEF Takes, Inv, TypeOK
<1>4. TypeOK'
  BY <1>1, <1>2, <1>3 DEF Takes, objects, focusVars, Inv, TypeOK
<1>5. CASE takes /\ s # selection
  BY <1>1, <1>4, <1>5, ReplacedInv DEF Takes, objects, focusVars
<1>6. CASE ~(takes /\ s # selection)
  <2>1. selection' = selection /\ told' = told /\ own' = owned
    BY <1>6 DEF Takes
  <2>2. SelectionAlive'
    BY <1>6, <2>1 DEF Inv, SelectionAlive, objects
  <2>3. NothingStale' /\ SelectionKnown'
    BY <2>1 DEF Inv, NothingStale, SelectionKnown, DevicesOf, objects, focusVars
  <2> QED
    BY <1>4, <2>2, <2>3 DEF Inv
<1> QED
  BY <1>5, <1>6

LEMMA SetSelectionInv ==
  ASSUME Assumptions, Inv, NEW d \in Device, NEW s \in Source \cup {None}, SetSelection(d, s)
  PROVE  Inv'
<1> DEFINE owned == [own EXCEPT ![d] = s]
<1>1. /\ s \in sources \cup {None} /\ d \in AnyDevice /\ HasFocus(d) \in BOOLEAN
      /\ owned \in [AnyDevice -> Source \cup {None}] /\ {own[d]} \cap Source \in SUBSET Source
  BY DEF SetSelection, Usable, AnyDevice, HasFocus, Inv, TypeOK
<1>2. \A c \in controls : owned[c] = own[c]
  BY DEF Inv, TypeOK, Assumptions, AnyDevice
<1>3. /\ Takes(owned, HasFocus(d), s, {own[d]})
      /\ UNCHANGED <<objects, focusVars>> /\ used' \subseteq Source
  BY DEF SetSelection, Inv, TypeOK
<1>4. Takes(owned, HasFocus(d), s, {own[d]} \cap Source)
  BY <1>1, <1>3 DEF Takes, Inv, TypeOK, Assumptions
<1> HIDE DEF owned
<1> QED
  BY <1>1, <1>2, <1>3, <1>4, TakesInv

LEMMA SetControlSelectionInv ==
  ASSUME Assumptions, Inv, NEW c \in Control, NEW s \in Source \cup {None},
         SetControlSelection(c, s)
  PROVE  Inv'
<1> DEFINE owned == [own EXCEPT ![c] = s]
<1>1. /\ s \in sources \cup {None} /\ c \in AnyDevice
      /\ owned \in [AnyDevice -> Source \cup {None}] /\ {own[c]} \cap Source \in SUBSET Source
  BY DEF SetControlSelection, Usable, AnyDevice, Inv, TypeOK
<1>2. \A e \in controls : owned[e] # own[e] => owned[e] = s
  BY DEF Inv, TypeOK, AnyDevice
<1>3. /\ Takes(owned, TRUE, s, {own[c]})
      /\ UNCHANGED <<objects, focusVars>> /\ used' \subseteq Source
  BY DEF SetControlSelection, Inv, TypeOK
<1>4. Takes(owned, TRUE, s, {own[c]} \cap Source)
  BY <1>1, <1>3 DEF Takes, Inv, TypeOK, Assumptions
<1> HIDE DEF owned
<1> QED
  BY <1>1, <1>2, <1>3, <1>4, TakesInv

LEMMA SeatSetSelectionInv ==
  ASSUME Assumptions, Inv, NEW s \in sources \cup {None}, SeatSetSelection(s)
  PROVE  Inv'
<1>1. /\ own \in [AnyDevice -> Source \cup {None}] /\ {} \in SUBSET Source
      /\ Takes(own, TRUE, s, {}) /\ UNCHANGED <<objects, focusVars>> /\ used' \subseteq Source
  BY DEF SeatSetSelection, Inv, TypeOK
<1> QED
  BY <1>1, TakesInv

(* The selection that is destroyed is taken back from all who know it.     *)
LEMMA DestroySourceInv ==
  ASSUME Assumptions, Inv, NEW s \in sources, DestroySource(s)
  PROVE  Inv'
<1> DEFINE owned == [d \in AnyDevice |-> IF own[d] = s THEN None ELSE own[d]]
           drops == \E d \in devices : own[d] = s /\ HasFocus(d)
<1>1. owned \in [AnyDevice -> Source \cup {None}]
  BY DEF Inv, TypeOK
<1>2. Transmitted(None, owned) \in [AnyDevice -> Source \cup {None}]
  BY DEF Transmitted, Inv, TypeOK
<1>3. own' = owned /\ UNCHANGED <<devices, controls, keyFocus, focusDevices, lost>>
  BY DEF DestroySource, focusVars
<1>4. TypeOK'
  BY <1>1, <1>2 DEF DestroySource, focusVars, Inv, TypeOK
<1>5. CASE Clears(s) \/ drops
  <2>1. selection' = None /\ told' = Transmitted(None, owned)
    BY <1>5 DEF DestroySource
  <2> HIDE DEF owned
  <2> QED
    BY <1>1, <1>3, <1>4, <2>1, ReplacedInv
<1>6. CASE ~(Clears(s) \/ drops)
  <2>1. selection # s /\ selection' = selection /\ told' = told /\ sources' = sources \ {s}
    BY <1>6 DEF DestroySource, Clears
  <2>2. SelectionAlive'
    <3>1. ASSUME NEW c \in controls PROVE selection \in {told[c], owned[c]}
      BY <2>1 DEF Inv, SelectionAlive, TypeOK, AnyDevice
    <3> QED
      BY <1>3, <2>1, <3>1 DEF Inv, SelectionAlive
  <2>3. NothingStale' /\ SelectionKnown'
    BY <1>3, <2>1 DEF Inv, NothingStale, SelectionKnown, DevicesOf
  <2> QED
    BY <1>4, <2>2, <2>3 DEF Inv
<1> QED
  BY <1>5, <1>6

-----------------------------------------------------------------------------
LEMMA CreateInv ==
  ASSUME Assumptions, Inv,
         \/ \E d \in Device : CreateDevice(d)
         \/ \E c \in Control : CreateControl(c)
  PROVE  Inv'
<1>1. devices \subseteq Device /\ controls \subseteq Control /\ Device \cap Control = {}
  BY DEF Inv, TypeOK, Assumptions
<1>2. ASSUME NEW d \in Device, CreateDevice(d) PROVE Inv'
  <2>1. TypeOK'
    BY <1>2 DEF CreateDevice, Inv, TypeOK, AnyDevice
  <2>2. \A e \in AnyDevice \ {d} : told'[e] = told[e]
    BY <1>2 DEF CreateDevice, Inv, TypeOK
  <2>3. told'[d] = IF HasFocus(d) THEN selection ELSE None
    BY <1>2 DEF CreateDevice, Inv, TypeOK, AnyDevice
  <2>4. SelectionAlive'
    BY <1>1, <1>2, <2>2 DEF CreateDevice, Inv, SelectionAlive, AnyDevice
  <2>5. NothingStale'
    BY <1>1, <1>2, <2>2, <2>3 DEF CreateDevice, Inv, NothingStale, AnyDevice
  <2>6. SelectionKnown'
    <3>1. CASE HasFocus(d)
      BY <1>1, <1>2, <2>2, <2>3, <3>1 DEF CreateDevice, Inv, SelectionKnown, DevicesOf, HasFocus, AnyDevice
    <3>2. CASE ~HasFocus(d)
      BY ZenonT(40), <1>1, <1>2, <2>2, <2>3, <3>2 DEF CreateDevice, Inv, TypeOK, SelectionKnown, DevicesOf, HasFocus, AnyDevice
    <3> QED
      BY <3>1, <3>2
  <2> QED
    BY <2>1, <2>4, <2>5, <2>6 DEF Inv
<1>3. ASSUME NEW c \in Control, CreateControl(c) PROVE Inv'
  <2>1. TypeOK'
    BY <1>3 DEF CreateControl, focusVars, Inv, TypeOK, AnyDevice
  <2>2. told'[c] = selection /\ \A e \in AnyDevice \ {c} : told'[e] = told[e]
    BY <1>3 DEF CreateControl, Inv, TypeOK, AnyDevice
  <2>3. SelectionAlive'
    BY <1>1, <1>3, <2>2 DEF CreateControl, Inv, SelectionAlive, AnyDevice
  <2>4. NothingStale' /\ SelectionKnown'
    BY <1>1, <1>3, <2>2 DEF CreateControl, focusVars, Inv, NothingStale, SelectionKnown, DevicesOf, AnyDevice
  <2> QED
    BY <2>1, <2>3, <2>4 DEF Inv
<1> QED
  BY <1>2, <1>3

LEMMA DestroyDeviceInv ==
  ASSUME Assumptions, Inv, NEW d \in AnyDevice, DestroyDevice(d)
  PROVE  Inv'
<1>1. devices \subseteq Device /\ controls \subseteq Control /\ Device \cap Control = {}
  BY DEF Inv, TypeOK, Assumptions
<1>2. TypeOK'
  BY DEF DestroyDevice, Inv, TypeOK
<1>3. \A e \in AnyDevice \ {d} : told'[e] = told[e] /\ own'[e] = own[e]
  BY DEF DestroyDevice, Inv, TypeOK
<1>4. SelectionAlive'
  BY <1>1, <1>3 DEF DestroyDevice, Inv, SelectionAlive, AnyDevice
<1>5. NothingStale' /\ SelectionKnown'
  BY <1>1, <1>3 DEF DestroyDevice, Inv, NothingStale, SelectionKnown, DevicesOf, AnyDevice
<1> QED
  BY <1>2, <1>4, <1>5 DEF Inv

-----------------------------------------------------------------------------
(* The focus moves within a client or to another one, who is sent the      *)
(* selection; what was lost is found again by the latter.                  *)
LEMMA SetFocusedSurfaceInv ==
  ASSUME Assumptions, Inv, NEW s \in surfaces \cup {None}, SetFocusedSurface(s)
  PROVE  Inv'
<1> DEFINE to == DevicesOf(ClientOf[s])
           keeps == s # None /\ SameClient(s)
<1>1. /\ devices \subseteq Device /\ controls \subseteq Control /\ Device \cap Control = {}
      /\ s \in Surface \cup {None} /\ focusDevices \subseteq Device
      /\ selection \in Source \cup {None}
  BY DEF Inv, TypeOK, Assumptions
<1>2. /\ keyFocus' = s /\ lost' = (lost /\ keeps)
      /\ focusDevices' = IF s = None THEN {} ELSE IF keeps THEN focusDevices ELSE to
      /\ UNCHANGED <<objects, selection, own, used, cancelled>>
  BY DEF SetFocusedSurface
<1>3. ASSUME NEW d \in AnyDevice
      PROVE  told'[d] = IF d \in Device /\ (s = None \/ ClientOf[d] # ClientOf[s]) THEN None
                        ELSE IF s # None /\ ~keeps /\ d \in to /\ selection # None THEN selection
                        ELSE told[d]
  BY DEF SetFocusedSurface, Forgotten
<1>4. told' \in [AnyDevice -> Source \cup {None}]
  BY <1>1 DEF SetFocusedSurface, Forgotten, Inv, TypeOK
<1>5. TypeOK'
  BY <1>1, <1>2, <1>4 DEF objects, DevicesOf, Inv, TypeOK
<1>6. SelectionAlive'
  BY <1>1, <1>2, <1>3 DEF objects, DevicesOf, Inv, SelectionAlive, AnyDevice
<1>7. NothingStale'
  <2>1. CASE s = None
    BY <1>1, <1>2, <1>3, <2>1 DEF objects, NothingStale, AnyDevice
  <2>2. CASE keeps
    BY <1>1, <1>2, <1>3, <2>2 DEF objects, Inv, NothingStale, AnyDevice
  <2>3. CASE s # None /\ ~keeps
    BY <1>1, <1>2, <1>3, <2>3 DEF objects, Inv, NothingStale, DevicesOf, AnyDevice
  <2> QED
    BY <2>1, <2>2, <2>3
<1>8. SelectionKnown'
  <2>1. CASE s = None
    BY <1>1, <1>2, <1>3, <2>1 DEF objects, SelectionKnown, AnyDevice
  <2>2. CASE keeps
    <3>1. CASE lost
      BY <1>2, <2>2, <3>1 DEF SelectionKnown
    <3>2. CASE ~lost
      <4>1. keyFocus # None /\ ClientOf[keyFocus] = ClientOf[s]
        BY <2>2, <3>2 DEF SameClient, Inv, SelectionKnown, DevicesOf
      <4>2. focusDevices = to
        BY <3>2, <4>1 DEF Inv, SelectionKnown
      <4> QED
        BY <1>1, <1>2, <1>3, <2>2, <3>2, <4>1, <4>2 DEF objects, Inv, SelectionKnown, DevicesOf, AnyDevice
    <3> QED
      BY <3>1, <3>2
  <2>3. CASE s # None /\ ~keeps
    BY <1>1, <1>2, <1>3, <2>3 DEF objects, Inv, NothingStale, SelectionKnown, DevicesOf, AnyDevice
  <2> QED
    BY <2>1, <2>2, <2>3
<1> QED
  BY <1>5, <1>6, <1>7, <1>8 DEF Inv

(* The focus is lost: the clients forget, and nothing is promised of whom  *)
(* the pool has for focused.                                               *)
LEMMA LoseFocusInv ==
  ASSUME Assumptions, Inv, LoseFocus, surfaces' \subseteq surfaces,
         UNCHANGED <<sources, devices, controls, focusDevices, selection, own, used, cancelled>>
  PROVE  Inv'
<1>1. /\ devices \subseteq Device /\ controls \subseteq Control /\ Device \cap Control = {}
  BY DEF Inv, TypeOK, Assumptions
<1>2. \A d \in AnyDevice : told'[d] = IF d \in Device THEN None ELSE told[d]
  BY DEF LoseFocus, Forgotten
<1>3. TypeOK'
  BY DEF LoseFocus, Forgotten, Inv, TypeOK
<1>4. SelectionAlive'
  BY <1>1, <1>2 DEF Inv, SelectionAlive, AnyDevice
<1>5. NothingStale' /\ SelectionKnown'
  BY <1>1, <1>2 DEF LoseFocus, NothingStale, SelectionKnown, AnyDevice
<1> QED
  BY <1>3, <1>4, <1>5 DEF Inv

LEMMA DestroySurfaceInv ==
  ASSUME Assumptions, Inv, NEW s \in surfaces, DestroySurface(s)
  PROVE  Inv'
<1>1. CASE keyFocus = s
  BY <1>1, LoseFocusInv DEF DestroySurface
<1>2. CASE keyFocus # s
  BY <1>2 DEF DestroySurface, Inv, TypeOK, SelectionAlive, NothingStale, SelectionKnown, DevicesOf
<1> QED
  BY <1>1, <1>2

LEMMA NextInv == Assumptions /\ Inv /\ [Next]_vars => Inv'
<1> SUFFICES ASSUME Assumptions, Inv, [Next]_vars PROVE Inv'
  OBVIOUS
<1>1. ASSUME NEW d \in Device, NEW s \in Source \cup {None}, SetSelection(d, s) PROVE Inv'
  BY <1>1, SetSelectionInv
<1>2. ASSUME NEW c \in Control, NEW s \in Source \cup {None}, SetControlSelection(c, s)
      PROVE  Inv'
  BY <1>2, SetControlSelectionInv
<1>3. ASSUME NEW s \in sources \cup {None}, SeatSetSelection(s) PROVE Inv'
  BY <1>3, SeatSetSelectionInv
<1>4. ASSUME NEW s \in sources, DestroySource(s) PROVE Inv'
  BY <1>4, DestroySourceInv
<1>5. ASSUME \/ \E d \in Device : CreateDevice(d)
             \/ \E c \in Control : CreateControl(c)
      PROVE  Inv'
  BY <1>5, CreateInv
<1>6. ASSUME NEW d \in AnyDevice, DestroyDevice(d) PROVE Inv'
  BY <1>6, DestroyDeviceInv
<1>7. ASSUME NEW s \in surfaces \cup {None}, SetFocusedSurface(s) PROVE Inv'
  BY <1>7, SetFocusedSurfaceInv
<1>8. ASSUME NEW s \in surfaces, DestroySurface(s) PROVE Inv'
  BY <1>8, DestroySurfaceInv
<1>9. CASE RemoveKeyboard
  BY <1>9, LoseFocusInv DEF RemoveKeyboard, objects
<1>10. CASE UNCHANGED vars
  BY <1>10 DEF Inv, TypeOK, SelectionAlive, NothingStale, SelectionKnown, DevicesOf, vars, objects,
               focusVars, sourceVars
<1> QED
  BY <1>1, <1>2, <1>3, <1>4, <1>5, <1>6, <1>7, <1>8, <1>9, <1>10 DEF Next, AnyDevice

(* The selection exists, and every data control device that did not set it *)
(* itself was told of it, whatever is set, replaced and destroyed by any   *)
(* number of clients (selection_pool.h:104, data_control_v1.cpp:69-74).    *)
THEOREM SelectionAliveCorrect ==
  ASSUME Assumptions
  PROVE  Spec => []SelectionAlive
<1>1. Inv => SelectionAlive
  BY DEF Inv
<1> QED
  BY InitInv, NextInv, <1>1, PTL DEF Spec

(* While the focus was not lost with its surface, the devices of the       *)
(* focused client and no others know the selection                         *)
(* (selection_pool.h:71-125).                                              *)
THEOREM SelectionKnownCorrect ==
  ASSUME Assumptions
  PROVE  Spec => []SelectionKnown
<1>1. Inv => SelectionKnown
  BY DEF Inv
<1> QED
  BY InitInv, NextInv, <1>1, PTL DEF Spec

-----------------------------------------------------------------------------
(* Text input: the lists of text inputs, and who of them has the focus.    *)

(* A nonempty set of places in a list has a first one.                     *)
LEMMA FirstPlace ==
  ASSUME NEW n \in Nat, NEW S \in SUBSET (1 .. n), S # {}
  PROVE  Texts!Min(S) \in S
<1> DEFINE Less == OpToRel(<, Nat)
<1>1. S \subseteq Nat
  OBVIOUS
<1>2. PICK x \in S : \A y \in S : ~ (<<y, x>> \in Less)
  BY ZenonT(40), <1>1, NatLessThanWellFounded, WFMin
<1>3. ASSUME NEW y \in S PROVE x =< y
  <2>1. y \in Nat /\ x \in Nat /\ ~(y < x)
    BY <1>1, <1>2 DEF OpToRel
  <2> QED
    BY <2>1
<1> QED
  BY <1>3 DEF Texts!Min

(* The text input an enter event goes to is one of the list, of the client *)
(* of the surface.                                                         *)
LEMMA FirstOfList ==
  ASSUME NEW S, NEW list \in Seq(S), NEW s
  PROVE  \/ Texts!FirstOf(s, list) = None
         \/ /\ Texts!FirstOf(s, list) \in Texts!ToSet(list)
            /\ s # None /\ ClientOf[Texts!FirstOf(s, list)] = ClientOf[s]
<1> DEFINE I == {i \in 1 .. Len(list) : s # None /\ ClientOf[list[i]] = ClientOf[s]}
<1>1. Len(list) \in Nat /\ DOMAIN list = 1 .. Len(list)
  BY LenProperties
<1>2. CASE I = {}
  BY <1>2 DEF Texts!FirstOf, Texts!SelectInSeq
<1>3. CASE I # {}
  <2>1. Texts!Min(I) \in I
    BY <1>1, <1>3, FirstPlace
  <2>2. Texts!Min(I) # 0
    BY <1>1, <2>1
  <2>3. Texts!FirstOf(s, list) = list[Texts!Min(I)]
    BY <1>3, <2>2 DEF Texts!FirstOf, Texts!SelectInSeq
  <2> QED
    BY <1>1, <2>1, <2>3 DEF Texts!ToSet
<1> QED
  BY <1>2, <1>3

(* A text input that is taken from a list leaves the others in it.         *)
LEMMA RemovedAt ==
  ASSUME NEW S, NEW list \in Seq(S), NEW k \in 1 .. Len(list)
  PROVE  LET rest == Texts!RemoveAt(list, k)
         IN  /\ rest \in Seq(S)
             /\ Texts!ToSet(rest) \subseteq Texts!ToSet(list)
             /\ Texts!ToSet(list) \ {list[k]} \subseteq Texts!ToSet(rest)
<1> DEFINE n == Len(list)
           before == SubSeq(list, 1, k - 1)
           after == SubSeq(list, k + 1, n)
<1>1. /\ n \in Nat /\ DOMAIN list = 1 .. n /\ \A i \in 1 .. n : list[i] \in S
      /\ k \in Int /\ k - 1 \in Int /\ k + 1 \in Int
  BY LenProperties
<1>2. /\ before \in Seq(S) /\ Len(before) = k - 1
      /\ \A i \in 1 .. k - 1 : before[i] = list[i]
  BY <1>1, SubSeqProperties
<1>3. /\ after \in Seq(S) /\ Len(after) = n - k
      /\ \A i \in 1 .. n - k : after[i] = list[k + i]
  <2>1. \A i \in k + 1 .. n : list[i] \in S
    BY <1>1
  <2>2. /\ after \in Seq(S)
        /\ Len(after) = IF k + 1 <= n THEN n - (k + 1) + 1 ELSE 0
        /\ \A i \in 1 .. n - (k + 1) + 1 : after[i] = list[k + 1 + i - 1]
    BY <1>1, <2>1, SubSeqProperties
  <2> HIDE DEF after
  <2>3. n - (k + 1) + 1 = n - k /\ \A i \in 1 .. n - k : k + 1 + i - 1 = k + i
    BY <1>1
  <2>4. Len(after) = n - k
    <3>1. n \in Nat /\ k \in 1 .. n
      BY <1>1
    <3>2. Len(after) = IF k + 1 <= n THEN n - (k + 1) + 1 ELSE 0
      BY <2>2
    <3> HIDE DEF n
    <3> QED
      BY <3>1, <3>2
  <2>5. ASSUME NEW i \in 1 .. n - k PROVE after[i] = list[k + i]
    BY ZenonT(40), <2>2, <2>3
  <2> QED
    BY <2>2, <2>4, <2>5
<1>4. Texts!RemoveAt(list, k) = before \o after
  BY DEF Texts!RemoveAt
<1> HIDE DEF before, after
<1> DEFINE rest == before \o after
<1>5. /\ rest \in Seq(S) /\ Len(rest) = n - 1
      /\ \A i \in 1 .. n - 1 : rest[i] = IF i <= k - 1 THEN before[i] ELSE after[i - (k - 1)]
  <2>1. /\ rest \in Seq(S) /\ Len(rest) = Len(before) + Len(after)
        /\ \A i \in 1 .. Len(before) + Len(after) :
             rest[i] = IF i <= Len(before) THEN before[i] ELSE after[i - Len(before)]
    BY <1>2, <1>3, ConcatProperties
  <2>2. Len(before) = k - 1 /\ Len(before) + Len(after) = n - 1
    BY <1>1, <1>2, <1>3
  <2> QED
    BY <2>1, <2>2
<1> HIDE DEF rest
<1>6. DOMAIN rest = 1 .. n - 1
  BY <1>5, LenProperties
<1>7. ASSUME NEW i \in 1 .. n - 1 PROVE rest[i] \in Texts!ToSet(list)
  <2>1. CASE i <= k - 1
    <3>1. i \in 1 .. k - 1 /\ i \in 1 .. n
      BY <1>1, <2>1
    <3>2. rest[i] = list[i]
      BY <1>2, <1>5, <2>1, <3>1
    <3> QED
      BY <1>1, <3>1, <3>2 DEF Texts!ToSet
  <2>2. CASE ~(i <= k - 1)
    <3>1. i - (k - 1) \in 1 .. n - k /\ k + (i - (k - 1)) \in 1 .. n
      BY <1>1, <2>2
    <3>2. rest[i] = list[k + (i - (k - 1))]
      BY <1>3, <1>5, <2>2, <3>1
    <3> QED
      BY <1>1, <3>1, <3>2 DEF Texts!ToSet
  <2> QED
    BY <2>1, <2>2
<1>8. ASSUME NEW j \in 1 .. n, list[j] # list[k] PROVE list[j] \in Texts!ToSet(rest)
  <2>1. CASE j <= k - 1
    <3>1. j \in 1 .. k - 1 /\ j \in 1 .. n - 1
      BY <1>1, <2>1
    <3>2. rest[j] = list[j]
      BY <1>2, <1>5, <2>1, <3>1
    <3> QED
      BY <1>6, <3>1, <3>2 DEF Texts!ToSet
  <2>2. CASE ~(j <= k - 1)
    <3>1. /\ j - 1 \in 1 .. n - 1 /\ ~(j - 1 <= k - 1) /\ j - 1 - (k - 1) \in 1 .. n - k
          /\ k + (j - 1 - (k - 1)) = j
      BY <1>1, <1>8, <2>2
    <3>2. rest[j - 1] = list[j]
      BY <1>3, <1>5, <3>1
    <3> QED
      BY <1>6, <3>1, <3>2 DEF Texts!ToSet
  <2> QED
    BY <2>1, <2>2
<1>9. Texts!ToSet(rest) \subseteq Texts!ToSet(list)
  BY <1>6, <1>7 DEF Texts!ToSet
<1>10. Texts!ToSet(list) \ {list[k]} \subseteq Texts!ToSet(rest)
  BY <1>1, <1>8 DEF Texts!ToSet
<1>11. Texts!RemoveAt(list, k) = rest
  BY <1>4 DEF rest
<1> QED
  BY <1>5, <1>9, <1>10, <1>11

LEMMA RemovedFrom ==
  ASSUME NEW S, NEW list \in Seq(S), NEW e
  PROVE  LET rest == Texts!RemoveFirst(list, e)
         IN  /\ rest \in Seq(S)
             /\ Texts!ToSet(rest) \subseteq Texts!ToSet(list)
             /\ Texts!ToSet(list) \ {e} \subseteq Texts!ToSet(rest)
<1> DEFINE I == {i \in 1 .. Len(list) : list[i] = e}
<1>1. Len(list) \in Nat
  BY LenProperties
<1>2. CASE I = {}
  BY <1>2 DEF Texts!RemoveFirst
<1>3. CASE I # {}
  <2>1. Texts!Min(I) \in I
    BY <1>1, <1>3, FirstPlace
  <2>2. PICK k \in 1 .. Len(list) : k = Texts!Min(I) /\ list[k] = e
    BY <2>1
  <2>3. Texts!SelectInSeq(list, LAMBDA v : v = e) = k
    BY <1>3, <2>2 DEF Texts!SelectInSeq
  <2>4. \E i \in 1 .. Len(list) : list[i] = e
    BY <2>2
  <2>5. Texts!RemoveFirst(list, e) = Texts!RemoveAt(list, k)
    BY <2>3, <2>4 DEF Texts!RemoveFirst
  <2>6. /\ Texts!RemoveAt(list, k) \in Seq(S)
        /\ Texts!ToSet(Texts!RemoveAt(list, k)) \subseteq Texts!ToSet(list)
        /\ Texts!ToSet(list) \ {list[k]} \subseteq Texts!ToSet(Texts!RemoveAt(list, k))
    BY <2>2, RemovedAt
  <2> QED
    BY <2>2, <2>5, <2>6
<1> QED
  BY <1>2, <1>3

-----------------------------------------------------------------------------
(* The lists only hold text inputs of their version, which nothing but     *)
(* this adds to TextFocusAgrees.                                           *)
TextTyped ==
  /\ tSurfaces \subseteq TextSurface
  /\ v2Devices \in Seq(TextInput2) /\ v3Devices \in Seq(TextInput3)
  /\ entered \in [Texts!TextInput -> TextSurface \cup {None}]
FocusInv == TextTyped /\ Texts!TextFocusAgrees

Listed2 == Texts!ToSet(v2Devices)
Listed3 == Texts!ToSet(v3Devices)

LEMMA SetOfList ==
  ASSUME NEW S, NEW list \in Seq(S)
  PROVE  /\ Texts!ToSet(list) \subseteq S
         /\ \A e \in Texts!ToSet(list) : Texts!Contains(list, e)
         /\ \A e : Texts!Contains(list, e) => e \in Texts!ToSet(list)
         /\ \A e \in S : /\ Append(list, e) \in Seq(S)
                         /\ Texts!ToSet(Append(list, e)) = Texts!ToSet(list) \cup {e}
<1>1. Len(list) \in Nat /\ DOMAIN list = 1 .. Len(list) /\ \A i \in 1 .. Len(list) : list[i] \in S
  BY LenProperties
<1>2. ASSUME NEW e \in S
      PROVE  /\ Append(list, e) \in Seq(S)
             /\ Texts!ToSet(Append(list, e)) = Texts!ToSet(list) \cup {e}
  <2> DEFINE more == Append(list, e)
  <2>1. /\ more \in Seq(S) /\ DOMAIN more = 1 .. Len(list) + 1
        /\ \A i \in 1 .. Len(list) : more[i] = list[i]
        /\ more[Len(list) + 1] = e
    <3>1. /\ more \in Seq(S) /\ Len(more) = Len(list) + 1
          /\ \A i \in 1 .. Len(list) : more[i] = list[i]
          /\ more[Len(list) + 1] = e
      BY <1>1, AppendProperties
    <3> HIDE DEF more
    <3> QED
      BY <3>1, LenProperties
  <2> HIDE DEF more
  <2>2. Len(list) + 1 \in 1 .. Len(list) + 1
    BY <1>1
  <2>3. \A i \in 1 .. Len(list) : i \in 1 .. Len(list) + 1
    BY <1>1
  <2>4. \A i \in 1 .. Len(list) + 1 : i \in 1 .. Len(list) \/ i = Len(list) + 1
    BY <1>1
  <2>5. Texts!ToSet(list) \cup {e} \subseteq Texts!ToSet(more)
    BY <1>1, <2>1, <2>2, <2>3 DEF Texts!ToSet
  <2>6. Texts!ToSet(more) \subseteq Texts!ToSet(list) \cup {e}
    BY <1>1, <2>1, <2>4 DEF Texts!ToSet
  <2> QED
    BY <2>1, <2>5, <2>6 DEF more
<1>3. Texts!ToSet(list) \subseteq S
  BY <1>1 DEF Texts!ToSet
<1>4. \A e : e \in Texts!ToSet(list) <=> Texts!Contains(list, e)
  BY <1>1 DEF Texts!ToSet, Texts!Contains
<1> QED
  BY <1>2, <1>3, <1>4

LEMMA TextInit == Texts!Assumptions /\ Texts!Init => FocusInv
<1> SUFFICES ASSUME Texts!Assumptions, Texts!Init PROVE FocusInv
  OBVIOUS
<1>1. /\ tSurfaces = TextSurface /\ v2Devices = <<>> /\ v3Devices = <<>>
      /\ entered = [t \in Texts!TextInput |-> None]
      /\ tFocus = None /\ tKeyFocus = None /\ v2 = None /\ v3 = None
  BY DEF Texts!Init
<1>2. Texts!ToSet(v2Devices) = {} /\ Texts!ToSet(v3Devices) = {}
  BY <1>1 DEF Texts!ToSet
<1>3. TextTyped
  BY <1>1 DEF TextTyped
<1>4. Texts!TextFocusAgrees
  BY <1>1, <1>2 DEF Texts!TextFocusAgrees
<1> QED
  BY <1>3, <1>4 DEF FocusInv

(* Whom the focus moves to, and who knows.                                 *)
LEMMA TextMoves ==
  ASSUME Texts!Assumptions, FocusInv, NEW s \in tSurfaces' \cup {None},
         tSurfaces' \subseteq tSurfaces, tKeyFocus' \in {None, s},
         Texts!MoveFocus(s), UNCHANGED <<v2Devices, v3Devices>>
  PROVE  FocusInv'
<1>1. /\ tFocus' = s
      /\ v3' = Texts!FirstOf(s, v3Devices)
      /\ v2' = IF v3' = None THEN Texts!FirstOf(s, v2Devices) ELSE None
      /\ entered' = [t \in Texts!TextInput |->
                       IF t \in {v2', v3'} THEN s
                       ELSE IF t \in {v2, v3} THEN None ELSE entered[t]]
  BY DEF Texts!MoveFocus
<1>2. /\ v2Devices \in Seq(TextInput2) /\ v3Devices \in Seq(TextInput3)
      /\ Listed2 \subseteq TextInput2 /\ Listed3 \subseteq TextInput3
      /\ s \in TextSurface \cup {None} /\ tSurfaces' \subseteq TextSurface
  BY SetOfList DEF FocusInv, TextTyped, Listed2, Listed3
<1>3. \/ v3' = None
      \/ v3' \in Listed3 /\ s # None /\ ClientOf[v3'] = ClientOf[s]
  BY <1>1, <1>2, FirstOfList DEF Listed3
<1>4. \/ v2' = None
      \/ v2' \in Listed2 /\ s # None /\ ClientOf[v2'] = ClientOf[s]
  BY <1>1, <1>2, FirstOfList DEF Listed2
<1>5. TextTyped'
  <2>1. entered \in [Texts!TextInput -> TextSurface \cup {None}]
    BY DEF FocusInv, TextTyped
  <2>2. entered' \in [Texts!TextInput -> TextSurface \cup {None}]
    BY <1>1, <1>2, <2>1
  <2> QED
    BY <1>2, <2>2 DEF TextTyped
<1>6. ASSUME NEW t \in Listed2 \cup Listed3
      PROVE  entered'[t] = IF t \in {v2', v3'} THEN s ELSE None
  <2>1. t \in Texts!TextInput
    BY <1>2 DEF Texts!TextInput
  <2>2. t \in {v2, v3} \/ entered[t] = None
    BY DEF FocusInv, Texts!TextFocusAgrees, Listed2, Listed3
  <2> QED
    BY <1>1, <2>1, <2>2
<1>7. Listed2' = Listed2 /\ Listed3' = Listed3
  BY DEF Listed2, Listed3
<1>8. Texts!TextFocusAgrees'
  BY <1>1, <1>3, <1>4, <1>6, <1>7 DEF Texts!TextFocusAgrees, Listed2, Listed3
<1> QED
  BY <1>5, <1>8 DEF FocusInv

(* A text input that is created takes the focus if it is the first of the  *)
(* focused client, and one that is destroyed gives it up.                  *)
LEMMA TextCreated ==
  ASSUME Texts!Assumptions, FocusInv, NEW t \in Texts!TextInput,
         t \notin Listed2 \cup Listed3, NEW takes \in BOOLEAN,
         takes => tFocus # None /\ ClientOf[t] = ClientOf[tFocus],
         \/ takes /\ v2 = None /\ v2' = t /\ v3' = v3
         \/ takes /\ v3 = None /\ v3' = t /\ v2' = v2
         \/ ~takes /\ v2' = v2 /\ v3' = v3,
         entered' = [entered EXCEPT ![t] = IF takes THEN tFocus ELSE None],
         (Listed2 \cup Listed3)' = Listed2 \cup Listed3 \cup {t},
         v2Devices' \in Seq(TextInput2), v3Devices' \in Seq(TextInput3),
         UNCHANGED <<tSurfaces, tKeyFocus, tFocus>>
  PROVE  FocusInv'
<1> DEFINE listed == Listed2 \cup Listed3
<1>1. /\ tFocus \in TextSurface \cup {None} /\ t # None
      /\ entered \in [Texts!TextInput -> TextSurface \cup {None}]
      /\ listed \subseteq Texts!TextInput /\ None \notin listed
  <2>1. Listed2 \subseteq TextInput2 /\ Listed3 \subseteq TextInput3
    BY SetOfList DEF FocusInv, TextTyped, Listed2, Listed3
  <2> QED
    BY <2>1 DEF FocusInv, TextTyped, Texts!TextFocusAgrees, Texts!Assumptions, Texts!TextInput
<1>2. /\ tFocus \in tSurfaces \cup {None} /\ (tKeyFocus # None => tFocus = tKeyFocus)
      /\ {v2, v3} \subseteq listed \cup {None}
      /\ \A u \in listed : entered[u] = IF u \in {v2, v3} THEN tFocus ELSE None
      /\ \A u \in {v2, v3} \ {None} : tFocus # None /\ ClientOf[u] = ClientOf[tFocus]
  BY DEF FocusInv, Texts!TextFocusAgrees, Listed2, Listed3
<1>3. t \notin {v2, v3}
  BY <1>1, <1>2
<1>4. TextTyped'
  BY <1>1 DEF FocusInv, TextTyped
<1>5. listed' = listed \cup {t}
  OBVIOUS
<1>6. entered'[t] = (IF takes THEN tFocus ELSE None) /\ \A u \in listed : entered'[u] = entered[u]
  BY <1>1
<1>7. \A u \in listed' : entered'[u] = IF u \in {v2', v3'} THEN tFocus ELSE None
  BY <1>1, <1>2, <1>3, <1>5, <1>6
<1>8. /\ {v2', v3'} \subseteq listed' \cup {None}
      /\ \A u \in {v2', v3'} \ {None} : tFocus # None /\ ClientOf[u] = ClientOf[tFocus]
  BY <1>2, <1>5
<1>9. Texts!TextFocusAgrees'
  BY <1>2, <1>7, <1>8 DEF Texts!TextFocusAgrees, Listed2, Listed3
<1> QED
  BY <1>4, <1>9 DEF FocusInv

LEMMA TextDestroyed ==
  ASSUME Texts!Assumptions, FocusInv, NEW t \in Texts!TextInput, Texts!Destroy(t)
  PROVE  FocusInv'
<1> DEFINE listed == Listed2 \cup Listed3
<1>1. /\ v2Devices' = Texts!RemoveFirst(v2Devices, t)
      /\ v3Devices' = Texts!RemoveFirst(v3Devices, t)
      /\ v2' = (IF v2 = t THEN None ELSE v2) /\ v3' = (IF v3 = t THEN None ELSE v3)
      /\ entered' = [entered EXCEPT ![t] = None]
      /\ UNCHANGED <<tSurfaces, tKeyFocus, tFocus>>
  BY DEF Texts!Destroy, Texts!Forget
<1>2. v2Devices \in Seq(TextInput2) /\ v3Devices \in Seq(TextInput3)
  BY DEF FocusInv, TextTyped
<1>3. /\ v2Devices' \in Seq(TextInput2) /\ v3Devices' \in Seq(TextInput3)
      /\ listed' \subseteq listed /\ listed \ {t} \subseteq listed'
  BY <1>1, <1>2, RemovedFrom DEF Listed2, Listed3
<1>4. entered \in [Texts!TextInput -> TextSurface \cup {None}] /\ listed \subseteq Texts!TextInput
  <2>1. Listed2 \subseteq TextInput2 /\ Listed3 \subseteq TextInput3
    BY <1>2, SetOfList DEF Listed2, Listed3
  <2> QED
    BY <2>1 DEF FocusInv, TextTyped, Texts!TextInput
<1>5. /\ tFocus \in tSurfaces \cup {None} /\ (tKeyFocus # None => tFocus = tKeyFocus)
      /\ {v2, v3} \subseteq listed \cup {None}
      /\ \A u \in listed : entered[u] = IF u \in {v2, v3} THEN tFocus ELSE None
      /\ \A u \in {v2, v3} \ {None} : tFocus # None /\ ClientOf[u] = ClientOf[tFocus]
  BY DEF FocusInv, Texts!TextFocusAgrees, Listed2, Listed3
<1>6. t # None /\ None \notin listed
  BY <1>4 DEF Texts!Assumptions, Texts!TextInput
<1>7. TextTyped'
  BY <1>1, <1>3, <1>4 DEF FocusInv, TextTyped
<1>8. \A u \in listed' : entered'[u] = IF u \in {v2', v3'} THEN tFocus ELSE None
  BY <1>1, <1>3, <1>4, <1>5, <1>6
<1>9. /\ {v2', v3'} \subseteq listed' \cup {None}
      /\ \A u \in {v2', v3'} \ {None} : tFocus # None /\ ClientOf[u] = ClientOf[tFocus]
  BY <1>1, <1>3, <1>5
<1>10. Texts!TextFocusAgrees'
  BY <1>1, <1>5, <1>8, <1>9 DEF Texts!TextFocusAgrees, Listed2, Listed3
<1> QED
  BY <1>7, <1>10 DEF FocusInv

LEMMA TextNext ==
  Texts!Assumptions /\ FocusInv /\ [Texts!Next]_(Texts!vars) => FocusInv'
<1> SUFFICES ASSUME Texts!Assumptions, FocusInv, [Texts!Next]_(Texts!vars) PROVE FocusInv'
  OBVIOUS
<1>1. /\ v2Devices \in Seq(TextInput2) /\ v3Devices \in Seq(TextInput3)
      /\ Listed2 \subseteq TextInput2 /\ Listed3 \subseteq TextInput3
      /\ TextInput2 \cap TextInput3 = {}
  BY SetOfList DEF FocusInv, TextTyped, Listed2, Listed3, Texts!Assumptions
<1>2. ASSUME UNCHANGED <<tSurfaces, tKeyFocus, tFocus, v2, v3, entered, v2Devices, v3Devices>>
      PROVE  FocusInv'
  BY <1>2 DEF FocusInv, TextTyped, Texts!TextFocusAgrees
<1>3. ASSUME NEW t \in TextInput2, Texts!CreateV2(t) PROVE FocusInv'
  <2> DEFINE takes == tFocus # None /\ ClientOf[t] = ClientOf[tFocus] /\ v2 = None
  <2>1. /\ ~Texts!Contains(v2Devices, t) /\ v2Devices' = Append(v2Devices, t)
        /\ v2' = (IF takes THEN t ELSE v2)
        /\ entered' = [entered EXCEPT ![t] = IF takes THEN tFocus ELSE None]
        /\ UNCHANGED <<tSurfaces, tKeyFocus, tFocus, v3Devices, v3>>
    BY <1>3 DEF Texts!CreateV2
  <2>2. t \in Texts!TextInput /\ t \notin Listed2 \cup Listed3
    BY <1>1, <2>1, SetOfList DEF Texts!TextInput, Listed2
  <2>3. /\ v2Devices' \in Seq(TextInput2) /\ v3Devices' \in Seq(TextInput3)
        /\ (Listed2 \cup Listed3)' = Listed2 \cup Listed3 \cup {t}
    BY <1>1, <2>1, SetOfList DEF Listed2, Listed3
  <2>4. takes \in BOOLEAN /\ (takes => tFocus # None /\ ClientOf[t] = ClientOf[tFocus] /\ v2 = None)
    OBVIOUS
  <2> HIDE DEF takes
  <2> QED
    BY <2>1, <2>2, <2>3, <2>4, TextCreated
<1>4. ASSUME NEW t \in TextInput3, Texts!CreateV3(t) PROVE FocusInv'
  <2> DEFINE takes == tFocus # None /\ ClientOf[t] = ClientOf[tFocus] /\ v3 = None
  <2>1. /\ ~Texts!Contains(v3Devices, t) /\ v3Devices' = Append(v3Devices, t)
        /\ v3' = (IF takes THEN t ELSE v3)
        /\ entered' = [entered EXCEPT ![t] = IF takes THEN tFocus ELSE None]
        /\ UNCHANGED <<tSurfaces, tKeyFocus, tFocus, v2Devices, v2>>
    BY <1>4 DEF Texts!CreateV3
  <2>2. t \in Texts!TextInput /\ t \notin Listed2 \cup Listed3
    BY <1>1, <2>1, SetOfList DEF Texts!TextInput, Listed3
  <2>3. /\ v2Devices' \in Seq(TextInput2) /\ v3Devices' \in Seq(TextInput3)
        /\ (Listed2 \cup Listed3)' = Listed2 \cup Listed3 \cup {t}
    BY <1>1, <2>1, SetOfList DEF Listed2, Listed3
  <2>4. takes \in BOOLEAN /\ (takes => tFocus # None /\ ClientOf[t] = ClientOf[tFocus] /\ v3 = None)
    OBVIOUS
  <2> HIDE DEF takes
  <2> QED
    BY <2>1, <2>2, <2>3, <2>4, TextCreated
<1>5. ASSUME NEW s \in tSurfaces \cup {None}, Texts!SetFocusedKeyboardSurface(s) PROVE FocusInv'
  BY <1>5, TextMoves DEF Texts!SetFocusedKeyboardSurface
<1>6. ASSUME NEW s \in tSurfaces, Texts!DestroySurface(s) PROVE FocusInv'
  <2>1. /\ tSurfaces' = tSurfaces \ {s} /\ UNCHANGED <<v2Devices, v3Devices>>
        /\ tKeyFocus' = IF tKeyFocus = s THEN None ELSE tKeyFocus
    BY <1>6 DEF Texts!DestroySurface
  <2>2. tKeyFocus # None => tFocus = tKeyFocus
    BY DEF FocusInv, Texts!TextFocusAgrees
  <2>3. CASE tFocus = s
    <3>1. Texts!MoveFocus(None)
      BY <1>6, <2>3 DEF Texts!DestroySurface
    <3> QED
      BY <2>1, <2>2, <2>3, <3>1, TextMoves
  <2>4. CASE tFocus # s
    <3>1. UNCHANGED <<tFocus, v2, v3, entered>>
      BY <1>6, <2>4 DEF Texts!DestroySurface
    <3> QED
      BY <2>1, <2>4, <3>1 DEF FocusInv, TextTyped, Texts!TextFocusAgrees
  <2> QED
    BY <2>3, <2>4
<1>7. CASE Texts!RemoveKeyboard
  BY <1>7 DEF Texts!RemoveKeyboard, FocusInv, TextTyped, Texts!TextFocusAgrees
<1>8. ASSUME NEW t \in Texts!TextInput, NEW b \in BOOLEAN,
             \/ Texts!SetEnabledV2(t, b) \/ Texts!SetEnabled(t, b) \/ Texts!Commit(t, b)
             \/ Texts!SetContentV2(t)
      PROVE  FocusInv'
  BY <1>2, <1>8 DEF Texts!SetEnabledV2, Texts!SetEnabled, Texts!Commit, Texts!SetContentV2,
                    Texts!focusVars
<1>9. CASE \/ Texts!CreateInputMethod \/ Texts!DestroyInputMethod
           \/ Texts!ReadDone \/ Texts!CommitMethod
           \/ \E text \in Text : Texts!CommitString(text)
  BY <1>2, <1>9 DEF Texts!CreateInputMethod, Texts!DestroyInputMethod, Texts!ReadDone,
                    Texts!CommitMethod, Texts!CommitString, Texts!focusVars
<1>10. CASE UNCHANGED Texts!vars
  BY <1>2, <1>10 DEF Texts!vars, Texts!focusVars
<1> QED
  BY <1>3, <1>4, <1>5, <1>6, <1>7, <1>8, <1>9, <1>10, TextDestroyed
     DEF Texts!Next, Texts!TextInput

(* However text inputs are created and destroyed and the keyboard focus    *)
(* moves and goes with its surface, the text inputs with the focus exist,  *)
(* are of the client of the focused surface, and know it; no others do     *)
(* (text_input_pool.cpp:21-120, seat.cpp:262).                             *)
THEOREM TextFocusAgreesCorrect ==
  ASSUME Texts!Assumptions
  PROVE  Texts!Spec => []TextFocusAgrees
<1>1. Texts!Init => FocusInv
  BY TextInit
<1>2. FocusInv /\ [Texts!Next]_(Texts!vars) => FocusInv'
  BY TextNext
<1>3. FocusInv => TextFocusAgrees
  BY DEF FocusInv, TextFocusAgrees
<1> QED
  BY <1>1, <1>2, <1>3, PTL DEF Texts!Spec

-----------------------------------------------------------------------------
(* Texts: a string that was sent is no longer flagged, and not told apart  *)
(* from the current one.  The string that is pending with its flag was not *)
(* sent to anyone, and no text input got one that was not requested.       *)
Received(t, n) == typed[t][n]

Strings == [text : Text \cup {Empty}, number : 0 .. MaxTexts, update : BOOLEAN]

TypedInv ==
  /\ typed \in [Texts!TextInput -> [1 .. MaxTexts -> Nat]]
  /\ pending \in Strings /\ current \in Strings
  /\ requests \in 0 .. MaxTexts /\ pending.number <= requests /\ current.number <= requests
  /\ \A t \in Texts!TextInput, n \in 1 .. MaxTexts :
       /\ n > requests => Received(t, n) = 0
       /\ ~refused => /\ Received(t, n) <= 1
                      /\ (pending.update /\ pending.number = n) => Received(t, n) = 0
  /\ ~refused /\ ~pending.update => pending.text = current.text

LEMMA TypedInit == Texts!Assumptions /\ Texts!Init => TypedInv
<1> SUFFICES ASSUME Texts!Assumptions, Texts!Init PROVE TypedInv
  OBVIOUS
<1>1. Texts!Unset \in Strings
  BY DEF Texts!Assumptions, Texts!Unset, Strings
<1> QED
  BY <1>1 DEF Texts!Assumptions, Texts!Init, Texts!Unset, TypedInv, Received

(* The strings are reset with the input method and when it is activated.   *)
LEMMA TypedReset ==
  ASSUME Texts!Assumptions, TypedInv, UNCHANGED <<typed, requests, refused>>,
         \/ pending' = Texts!Unset /\ current' = Texts!Unset
         \/ UNCHANGED <<pending, current>>
  PROVE  TypedInv'
<1>1. CASE UNCHANGED <<pending, current>>
  BY <1>1 DEF TypedInv, Received
<1>2. CASE pending' = Texts!Unset /\ current' = Texts!Unset
  <2>1. Texts!Unset \in Strings
    BY DEF Texts!Assumptions, Texts!Unset, Strings
  <2> QED
    BY <1>2, <2>1 DEF Texts!Assumptions, Texts!Unset, TypedInv, Received
<1> QED
  BY <1>1, <1>2

LEMMA TypedRequest ==
  ASSUME Texts!Assumptions, TypedInv, NEW text \in Text, Texts!CommitString(text)
  PROVE  TypedInv'
<1>1. /\ requests < MaxTexts /\ requests' = requests + 1
      /\ pending' = [text |-> text, number |-> requests + 1, update |-> TRUE]
      /\ UNCHANGED <<typed, current, refused>>
  BY DEF Texts!CommitString
<1>2. MaxTexts \in Nat /\ requests \in 0 .. MaxTexts /\ requests + 1 \in 0 .. MaxTexts
      /\ requests + 1 > requests
  BY <1>1 DEF Texts!Assumptions, TypedInv
<1>3. pending' \in Strings /\ pending'.number = requests + 1 /\ pending'.update
  BY <1>1, <1>2 DEF Strings
<1>4. ASSUME NEW t \in Texts!TextInput, NEW n \in 1 .. MaxTexts
      PROVE  /\ n > requests' => Received(t, n)' = 0
             /\ ~refused' => /\ Received(t, n)' <= 1
                             /\ (pending'.update /\ pending'.number = n) => Received(t, n)' = 0
  <2>1. /\ n > requests => Received(t, n) = 0
        /\ ~refused => Received(t, n) <= 1
    BY DEF TypedInv
  <2>2. Received(t, n)' = Received(t, n)
    BY <1>1 DEF Received
  <2>3. n > requests + 1 => n > requests
    BY <1>2
  <2> QED
    BY <1>1, <1>2, <1>3, <2>1, <2>2, <2>3
<1>5. current'.number <= requests'
  <2>1. current.number \in 0 .. MaxTexts /\ current.number <= requests
    BY DEF TypedInv, Strings
  <2> QED
    BY <1>1, <1>2, <2>1
<1> QED
  BY <1>1, <1>2, <1>3, <1>4, <1>5 DEF TypedInv

(* A commit that is not refused sends the pending string to those it is    *)
(* new to, and takes its flag.                                             *)
LEMMA TypedCommit ==
  ASSUME Texts!Assumptions, TypedInv, Texts!CommitMethod
  PROVE  TypedInv'
<1>1. UNCHANGED requests
  BY DEF Texts!CommitMethod
<1>2. CASE stale
  <2>1. pending' = current /\ refused' = TRUE /\ UNCHANGED <<current, typed>>
    BY <1>2 DEF Texts!CommitMethod
  <2> QED
    BY <1>1, <2>1 DEF TypedInv, Received
<1>3. CASE ~stale
  <2> DEFINE m == pending.number
             sends(t) == t \in Texts!Receivers /\ m > 0 /\ typed[t][m] < 2
  <2>1. /\ typed' = [t \in Texts!TextInput |->
                       IF t \in Texts!Receivers /\ m > 0 /\ typed[t][m] < 2
                         THEN [typed[t] EXCEPT ![m] = @ + 1] ELSE typed[t]]
        /\ current' = pending /\ pending' = [pending EXCEPT !.update = FALSE]
        /\ UNCHANGED refused
    BY <1>3 DEF Texts!CommitMethod, Texts!Sent
  <2>2. /\ typed \in [Texts!TextInput -> [1 .. MaxTexts -> Nat]]
        /\ m \in 0 .. MaxTexts /\ m <= requests /\ requests \in 0 .. MaxTexts /\ MaxTexts \in Nat
        /\ pending \in Strings
    BY DEF TypedInv, Strings, Texts!Assumptions
  <2>3. /\ pending' \in Strings /\ current' \in Strings
        /\ pending'.number = m /\ current'.number = m
        /\ ~pending'.update /\ pending'.text = current'.text
    BY <2>1, <2>2 DEF Strings
  <2> HIDE DEF m
  <2>4. ASSUME NEW t \in Texts!TextInput
        PROVE  /\ typed'[t] \in [1 .. MaxTexts -> Nat]
               /\ \A n \in 1 .. MaxTexts :
                    typed'[t][n] = IF sends(t) /\ n = m THEN typed[t][n] + 1 ELSE typed[t][n]
    <3>1. typed[t] \in [1 .. MaxTexts -> Nat]
      BY <2>2
    <3>2. CASE sends(t)
      <4>1. typed'[t] = [typed[t] EXCEPT ![m] = @ + 1] /\ m \in 1 .. MaxTexts
        BY <2>1, <2>2, <3>2
      <4>2. typed[t][m] + 1 \in Nat
        <5>1. typed[t][m] \in Nat
          BY <3>1, <4>1
        <5> QED
          BY <5>1
      <4>3. typed'[t] \in [1 .. MaxTexts -> Nat]
        BY <3>1, <4>1, <4>2
      <4> HIDE DEF sends
      <4> QED
        BY <3>1, <3>2, <4>1, <4>3
    <3>3. CASE ~sends(t)
      <4>1. typed'[t] = typed[t]
        BY <2>1, <3>3
      <4> QED
        BY <3>1, <3>3, <4>1
    <3> QED
      BY <3>2, <3>3
  <2>5. ASSUME NEW t \in Texts!TextInput, NEW n \in 1 .. MaxTexts
        PROVE  /\ n > requests => Received(t, n)' = 0
               /\ ~refused => Received(t, n)' <= 1
    <3>1. Received(t, n)' = IF sends(t) /\ n = m THEN typed[t][n] + 1 ELSE typed[t][n]
      BY <2>4 DEF Received
    <3>2. typed[t][n] \in Nat
      BY <2>2
    <3>3. /\ n > requests => typed[t][n] = 0
          /\ ~refused => typed[t][n] <= 1
      BY DEF TypedInv, Received
    <3>4. ASSUME ~refused, sends(t), n = m PROVE typed[t][n] = 0
      <4>1. t \in Texts!Receivers
        BY <3>4
      <4>2. pending.update
        BY <3>4, <4>1 DEF Texts!Receivers, TypedInv
      <4> QED
        BY <3>4, <4>2 DEF TypedInv, Received, m
    <3>5. n > requests => n # m
      BY <2>2
    <3> QED
      BY <3>1, <3>2, <3>3, <3>4, <3>5
  <2>6. typed' \in [Texts!TextInput -> [1 .. MaxTexts -> Nat]]
    <3>1. typed' = [t \in Texts!TextInput |-> typed'[t]]
      BY <2>1
    <3> QED
      BY <2>4, <3>1
  <2> QED
    BY <1>1, <2>1, <2>2, <2>3, <2>5, <2>6 DEF TypedInv
<1> QED
  BY <1>2, <1>3

LEMMA TypedNext ==
  Texts!Assumptions /\ TypedInv /\ [Texts!Next]_(Texts!vars) => TypedInv'
<1> SUFFICES ASSUME Texts!Assumptions, TypedInv, [Texts!Next]_(Texts!vars) PROVE TypedInv'
  OBVIOUS
<1>1. ASSUME UNCHANGED Texts!methodVars, UNCHANGED typed PROVE TypedInv'
  BY <1>1, TypedReset DEF Texts!methodVars
<1>2. ASSUME NEW was, NEW is, NEW more, Texts!Tell(was, is, more), UNCHANGED typed
      PROVE  TypedInv'
  BY <1>2, TypedReset DEF Texts!Tell
<1>3. ASSUME NEW t,
             \/ Texts!CreateV2(t) \/ Texts!CreateV3(t) \/ Texts!Destroy(t)
             \/ \E b \in BOOLEAN : Texts!SetEnabled(t, b)
             \/ Texts!SetFocusedKeyboardSurface(t) \/ Texts!DestroySurface(t)
      PROVE  TypedInv'
  BY <1>1, <1>3 DEF Texts!CreateV2, Texts!CreateV3, Texts!Destroy, Texts!SetEnabled,
                    Texts!SetFocusedKeyboardSurface, Texts!DestroySurface
<1>4. ASSUME NEW t, NEW b \in BOOLEAN, Texts!SetEnabledV2(t, b) \/ Texts!SetContentV2(t)
      PROVE  TypedInv'
  BY <1>1, <1>2, <1>4 DEF Texts!SetEnabledV2, Texts!SetContentV2
<1>5. ASSUME NEW t, NEW b \in BOOLEAN, Texts!Commit(t, b) PROVE TypedInv'
  BY <1>1, <1>2, <1>5 DEF Texts!Commit
<1>6. CASE Texts!CreateInputMethod \/ Texts!DestroyInputMethod \/ Texts!ReadDone
  BY <1>6, TypedReset DEF Texts!CreateInputMethod, Texts!DestroyInputMethod, Texts!ReadDone
<1>7. CASE Texts!RemoveKeyboard \/ UNCHANGED Texts!vars
  BY <1>1, <1>7 DEF Texts!RemoveKeyboard, Texts!vars
<1> QED
  BY <1>3, <1>4, <1>5, <1>6, <1>7, TypedRequest, TypedCommit DEF Texts!Next

(* As long as no commit is refused, a string that the input method commits *)
(* reaches a text input at most once, however the focus moves and text     *)
(* inputs are enabled in between (input_method_v2.cpp:109-130).            *)
THEOREM TypedOnceCorrect ==
  ASSUME Texts!Assumptions
  PROVE  Texts!Spec => []TypedOnce
<1>1. Texts!Init => TypedInv
  BY TypedInit
<1>2. TypedInv /\ [Texts!Next]_(Texts!vars) => TypedInv'
  BY TypedNext
<1>3. TypedInv => TypedOnce
  BY DEF TypedInv, Received, TypedOnce, Texts!TypedOnce
<1> QED
  BY <1>1, <1>2, <1>3, PTL DEF Texts!Spec
-----------------------------------------------------------------------------
(* The pointers: who is focused, which surfaces are pointed to and which   *)
(* button holds a drag.                                                    *)

(* SurfacesAlive is not inductive alone.  A drag starts on the focused     *)
(* surface, and no other surface is focused while it runs; and a Pointer,  *)
(* even one left by an earlier pool, is focused on a surface of its own    *)
(* client, with which it goes.                                             *)
OriginFocused == drag # 0 /\ pFocus # None => origin = pFocus
OwnFocus == \A p \in pointers : focused[p] # None => ClientOf[focused[p]] = ClientOf[p]

PointersAlive ==
  /\ {pFocus, gesture} \subseteq pSurfaces \cup {None}
  /\ \A p \in pointers : focused[p] \in pSurfaces \cup {None}
  /\ OwnFocus
  /\ OriginFocused

-----------------------------------------------------------------------------
(* The serials in use are numbers up to the last one. *)
PointerNumbers ==
  /\ serials \in 0 .. MaxSerials
  /\ epoch \in 0 .. serials /\ drag \in 0 .. serials
  /\ serialOf \in [Button -> 0 .. serials]

LEMMA PointerTypeNumbers ==
  Pointers!Assumptions /\ Pointers!TypeOK => PointerNumbers /\ serials \in Nat
<1>1. Pointers!TypeOK => PointerNumbers
  BY DEF Pointers!TypeOK, PointerNumbers
<1>2. Pointers!Assumptions /\ PointerNumbers => serials \in Nat
  BY DEF Pointers!Assumptions, PointerNumbers
<1> QED
  BY <1>1, <1>2

LEMMA PointerNumbersNext ==
  Pointers!Assumptions /\ PointerNumbers /\ [Pointers!Next]_(Pointers!vars) => PointerNumbers'
<1> SUFFICES ASSUME Pointers!Assumptions, PointerNumbers, [Pointers!Next]_(Pointers!vars)
      PROVE PointerNumbers'
  OBVIOUS
<1> USE DEF Pointers!Assumptions, PointerNumbers, Pointers!poolVars, Pointers!focusVars,
    Pointers!buttonVars, Pointers!dragVars, Pointers!gestureVars
<1>0. serials \in Nat
  OBVIOUS
<1>1. ASSUME NEW p \in Pointer, Pointers!CreateDevice(p) \/ Pointers!DestroyDevice(p)
      PROVE PointerNumbers'
  BY <1>1 DEF Pointers!CreateDevice, Pointers!DestroyDevice
<1>3. CASE Pointers!SetHasPointer
  BY <1>0, <1>3 DEF Pointers!SetHasPointer
<1>4. ASSUME NEW s, Pointers!SetFocusedSurface(s) \/ Pointers!DestroySurface(s)
      PROVE PointerNumbers'
  BY <1>4 DEF Pointers!SetFocusedSurface, Pointers!DestroySurface
<1>6. ASSUME NEW c, Pointers!Disconnect(c) PROVE PointerNumbers'
  BY <1>6 DEF Pointers!Disconnect
<1>7. ASSUME NEW b \in Button, Pointers!ButtonPressed(b) PROVE PointerNumbers'
  BY <1>0, <1>7 DEF Pointers!ButtonPressed
<1>13. ASSUME NEW b \in Button, Pointers!ButtonReleased(b) PROVE PointerNumbers'
  BY <1>0, <1>13 DEF Pointers!ButtonReleased, Pointers!EndsDrag
<1>8. ASSUME NEW serial \in 1 .. serials, Pointers!StartDrag(serial) PROVE PointerNumbers'
  BY <1>0, <1>8 DEF Pointers!StartDrag
<1>9. CASE Pointers!EndDrag
  BY <1>0, <1>9 DEF Pointers!EndDrag, Pointers!EndsDrag
<1>10. ASSUME NEW g \in Gesture, Pointers!Register(g) \/ Pointers!DestroyGesture(g)
      PROVE PointerNumbers'
  BY <1>10 DEF Pointers!Register, Pointers!DestroyGesture
<1>11. ASSUME NEW k, Pointers!StartGesture(k) \/ Pointers!EndGesture(k) PROVE PointerNumbers'
  BY <1>11 DEF Pointers!StartGesture, Pointers!EndGesture
<1>12. CASE UNCHANGED Pointers!vars
  BY <1>12 DEF Pointers!vars
<1> QED
  BY <1>1, <1>3, <1>4, <1>6, <1>7, <1>8, <1>9, <1>10, <1>11, <1>12, <1>13 DEF Pointers!Next

LEMMA PointerTypeInit ==
  Pointers!Assumptions /\ Pointers!Init => Pointers!TypeOK
BY DEF Pointers!Assumptions, Pointers!Init, Pointers!TypeOK

LEMMA PointerTypeNext ==
  Pointers!Assumptions /\ Pointers!TypeOK /\ [Pointers!Next]_(Pointers!vars) => Pointers!TypeOK'
<1> SUFFICES ASSUME Pointers!Assumptions, Pointers!TypeOK, [Pointers!Next]_(Pointers!vars)
      PROVE Pointers!TypeOK'
  OBVIOUS
<1>0. PointerNumbers'
  BY PointerTypeNumbers, PointerNumbersNext
<1> USE DEF Pointers!Assumptions, Pointers!TypeOK, Pointers!poolVars, Pointers!focusVars,
    Pointers!buttonVars, Pointers!dragVars, Pointers!gestureVars
<1>1. ASSUME NEW p \in Pointer, Pointers!CreateDevice(p) PROVE Pointers!TypeOK'
  BY <1>1 DEF Pointers!CreateDevice, Pointers!DevicesOf
<1>2. ASSUME NEW p \in Pointer, Pointers!DestroyDevice(p) PROVE Pointers!TypeOK'
  BY <1>2 DEF Pointers!DestroyDevice, Pointers!FocusWithout, Pointers!GesturesWithout
<1>3. CASE Pointers!SetHasPointer
  BY <1>0, <1>3 DEF Pointers!SetHasPointer, PointerNumbers
<1>4. ASSUME NEW s \in pSurfaces \cup {None}, Pointers!SetFocusedSurface(s)
      PROVE Pointers!TypeOK'
  BY <1>4 DEF Pointers!SetFocusedSurface, Pointers!DevicesOf
<1>5. ASSUME NEW s \in pSurfaces, Pointers!DestroySurface(s) PROVE Pointers!TypeOK'
  BY <1>5 DEF Pointers!DestroySurface, Pointers!SurfacesGone, Pointers!GestureWithout
<1>6. ASSUME NEW c, Pointers!Disconnect(c) PROVE Pointers!TypeOK'
  BY <1>6 DEF Pointers!Disconnect, Pointers!SurfacesGone, Pointers!GestureWithout,
      Pointers!GesturesWithout
<1>7. ASSUME NEW b \in Button, Pointers!ButtonPressed(b) \/ Pointers!ButtonReleased(b)
      PROVE Pointers!TypeOK'
  BY <1>0, <1>7 DEF Pointers!ButtonPressed, Pointers!ButtonReleased, Pointers!EndsDrag,
      PointerNumbers
<1>8. ASSUME NEW serial \in 1 .. serials, Pointers!StartDrag(serial) PROVE Pointers!TypeOK'
  BY <1>0, <1>8 DEF Pointers!StartDrag, PointerNumbers
<1>9. CASE Pointers!EndDrag
  BY <1>0, <1>9 DEF Pointers!EndDrag, Pointers!EndsDrag, PointerNumbers
<1>10. ASSUME NEW g \in Gesture, Pointers!Register(g) \/ Pointers!DestroyGesture(g)
      PROVE Pointers!TypeOK'
  BY <1>10 DEF Pointers!Register, Pointers!DestroyGesture
<1>11. ASSUME NEW k, Pointers!StartGesture(k) \/ Pointers!EndGesture(k) PROVE Pointers!TypeOK'
  BY <1>11 DEF Pointers!StartGesture, Pointers!EndGesture, Pointers!Addressed
<1>12. CASE UNCHANGED Pointers!vars
  BY <1>12 DEF Pointers!vars
<1> QED
  BY <1>1, <1>2, <1>3, <1>4, <1>5, <1>6, <1>7, <1>8, <1>9, <1>10, <1>11, <1>12 DEF Pointers!Next

-----------------------------------------------------------------------------
LEMMA PointersAgreeInit ==
  Pointers!Assumptions /\ Pointers!Init => Pointers!PointersAgree
BY DEF Pointers!Assumptions, Pointers!Init, Pointers!PointersAgree, Pointers!DevicesOf

(* Of all steps, only those of pointers, surfaces, focus and capability    *)
(* change what PointersAgree is about.                                     *)
LEMMA PointersAgreeNext ==
  Pointers!Assumptions /\ Pointers!TypeOK /\ Pointers!PointersAgree /\ [Pointers!Next]_(Pointers!vars)
    => Pointers!PointersAgree'
<1> SUFFICES ASSUME Pointers!Assumptions, Pointers!TypeOK, Pointers!PointersAgree, [Pointers!Next]_(Pointers!vars)
      PROVE Pointers!PointersAgree'
  OBVIOUS
<1> USE DEF Pointers!Assumptions, Pointers!PointersAgree, Pointers!DevicesOf,
    Pointers!poolVars, Pointers!focusVars, Pointers!buttonVars, Pointers!dragVars, Pointers!gestureVars
<1>0. focused \in [Pointer -> PointerSurface \cup {None}] /\ pDevices \subseteq Pointer
      /\ pSurfaces \subseteq PointerSurface
  BY DEF Pointers!TypeOK
<1>1. ASSUME NEW p \in Pointer, Pointers!CreateDevice(p) PROVE Pointers!PointersAgree'
  BY <1>0, <1>1 DEF Pointers!CreateDevice
<1>2. ASSUME NEW p \in Pointer, Pointers!DestroyDevice(p) PROVE Pointers!PointersAgree'
  BY <1>0, <1>2 DEF Pointers!DestroyDevice, Pointers!FocusWithout
<1>3. CASE Pointers!SetHasPointer
  BY <1>3 DEF Pointers!SetHasPointer
<1>4. ASSUME NEW s \in pSurfaces \cup {None}, Pointers!SetFocusedSurface(s)
      PROVE Pointers!PointersAgree'
  BY <1>0, <1>4 DEF Pointers!SetFocusedSurface
<1>5. ASSUME NEW s \in pSurfaces, Pointers!DestroySurface(s) PROVE Pointers!PointersAgree'
  BY <1>0, <1>5 DEF Pointers!DestroySurface, Pointers!SurfacesGone
<1>6. ASSUME NEW c, Pointers!Disconnect(c) PROVE Pointers!PointersAgree'
  BY <1>0, <1>6 DEF Pointers!Disconnect, Pointers!SurfacesGone
<1>7. ASSUME NEW b \in Button, Pointers!ButtonPressed(b) \/ Pointers!ButtonReleased(b)
      PROVE Pointers!PointersAgree'
  BY <1>7 DEF Pointers!ButtonPressed, Pointers!ButtonReleased
<1>8. ASSUME NEW serial \in 1 .. serials, Pointers!StartDrag(serial)
      PROVE Pointers!PointersAgree'
  BY <1>8 DEF Pointers!StartDrag
<1>9. CASE Pointers!EndDrag
  BY <1>9 DEF Pointers!EndDrag
<1>10. ASSUME NEW g \in Gesture, Pointers!Register(g) \/ Pointers!DestroyGesture(g)
      PROVE Pointers!PointersAgree'
  BY <1>10 DEF Pointers!Register, Pointers!DestroyGesture
<1>11. ASSUME NEW k, Pointers!StartGesture(k) \/ Pointers!EndGesture(k)
      PROVE Pointers!PointersAgree'
  BY <1>11 DEF Pointers!StartGesture, Pointers!EndGesture
<1>12. CASE UNCHANGED Pointers!vars
  BY <1>12 DEF Pointers!vars
<1> QED
  BY <1>1, <1>2, <1>3, <1>4, <1>5, <1>6, <1>7, <1>8, <1>9, <1>10, <1>11, <1>12 DEF Pointers!Next

(* The pool and its Pointers agree on the focus in every reachable state   *)
(* (PointersAgree), whatever pointers, surfaces, clients and capabilities  *)
(* come and go.                                                            *)
THEOREM PointersAgreeCorrect ==
  ASSUME Pointers!Assumptions
  PROVE  Pointers!Spec => []PointersAgree
<1> DEFINE Inductive == Pointers!TypeOK /\ Pointers!PointersAgree
<1>1. Pointers!Init => Inductive
  BY PointerTypeInit, PointersAgreeInit
<1>2. Inductive /\ [Pointers!Next]_(Pointers!vars) => Inductive'
  BY PointerTypeNext, PointersAgreeNext
<1>3. Inductive => PointersAgree
  BY DEF PointersAgree
<1> QED
  BY <1>1, <1>2, <1>3, PTL DEF Pointers!Spec

-----------------------------------------------------------------------------
LEMMA PointersAliveInit ==
  Pointers!Assumptions /\ Pointers!Init => PointersAlive
BY DEF Pointers!Assumptions, Pointers!Init, PointersAlive, OriginFocused, OwnFocus

LEMMA PointersAliveNext ==
  Pointers!Assumptions /\ Pointers!TypeOK /\ Pointers!PointersAgree /\ PointersAlive /\ [Pointers!Next]_(Pointers!vars)
    => PointersAlive'
<1> SUFFICES ASSUME Pointers!Assumptions, Pointers!TypeOK, Pointers!PointersAgree, PointersAlive, [Pointers!Next]_(Pointers!vars)
      PROVE PointersAlive'
  OBVIOUS
<1> USE DEF Pointers!Assumptions, PointersAlive, OriginFocused, OwnFocus, Pointers!DevicesOf,
    Pointers!poolVars, Pointers!focusVars,
           Pointers!buttonVars, Pointers!dragVars, Pointers!gestureVars
<1>0. /\ focused \in [Pointer -> PointerSurface \cup {None}] /\ pointers \subseteq Pointer
      /\ pSurfaces \subseteq PointerSurface
  BY DEF Pointers!TypeOK
<1>1. ASSUME NEW p \in Pointer, Pointers!CreateDevice(p) PROVE PointersAlive'
  BY <1>0, <1>1 DEF Pointers!CreateDevice
<1>2. ASSUME NEW p \in Pointer, Pointers!DestroyDevice(p) PROVE PointersAlive'
  BY <1>0, <1>2 DEF Pointers!DestroyDevice
<1>3. CASE Pointers!SetHasPointer
  BY <1>3 DEF Pointers!SetHasPointer
<1>4. ASSUME NEW s \in pSurfaces \cup {None}, Pointers!SetFocusedSurface(s) PROVE PointersAlive'
  BY <1>0, <1>4 DEF Pointers!SetFocusedSurface, Pointers!MayFocus
<1>5. ASSUME NEW s \in pSurfaces, Pointers!DestroySurface(s) PROVE PointersAlive'
  BY <1>0, <1>5 DEF Pointers!DestroySurface, Pointers!SurfacesGone, Pointers!GestureWithout
<1>6. ASSUME NEW c, Pointers!Disconnect(c) PROVE PointersAlive'
  BY <1>0, <1>6 DEF Pointers!Disconnect, Pointers!SurfacesGone, Pointers!GestureWithout
<1>7. ASSUME NEW b \in Button, Pointers!ButtonPressed(b) \/ Pointers!ButtonReleased(b)
      PROVE PointersAlive'
  BY <1>7 DEF Pointers!ButtonPressed, Pointers!ButtonReleased, Pointers!EndsDrag
<1>8. ASSUME NEW serial \in 1 .. serials, Pointers!StartDrag(serial) PROVE PointersAlive'
  BY <1>8 DEF Pointers!StartDrag
<1>9. CASE Pointers!EndDrag
  BY <1>9 DEF Pointers!EndDrag, Pointers!EndsDrag
<1>10. ASSUME NEW g \in Gesture, Pointers!Register(g) \/ Pointers!DestroyGesture(g)
      PROVE PointersAlive'
  BY <1>10 DEF Pointers!Register, Pointers!DestroyGesture
<1>11. ASSUME NEW k, Pointers!StartGesture(k) \/ Pointers!EndGesture(k) PROVE PointersAlive'
  BY <1>11 DEF Pointers!StartGesture, Pointers!EndGesture
<1>12. CASE UNCHANGED Pointers!vars
  BY <1>12 DEF Pointers!vars
<1> QED
  BY <1>1, <1>2, <1>3, <1>4, <1>5, <1>6, <1>7, <1>8, <1>9, <1>10, <1>11, <1>12 DEF Pointers!Next

(* No pointer to a destroyed surface is left in the pool or in a Pointer,  *)
(* nor, as far as motion follows it, in the drag (SurfacesAlive).          *)
THEOREM SurfacesAliveCorrect ==
  ASSUME Pointers!Assumptions
  PROVE  Pointers!Spec => []SurfacesAlive
<1> DEFINE Inductive == Pointers!TypeOK /\ Pointers!PointersAgree /\ PointersAlive
<1>1. Pointers!Init => Inductive
  BY PointerTypeInit, PointersAgreeInit, PointersAliveInit
<1>2. Inductive /\ [Pointers!Next]_(Pointers!vars) => Inductive'
  BY PointerTypeNext, PointersAgreeNext, PointersAliveNext
<1>3. Inductive => SurfacesAlive
  BY DEF Pointers!PointersAgree, PointersAlive, OriginFocused, SurfacesAlive,
     Pointers!SurfacesAlive, Pointers!DevicesOf
<1> QED
  BY <1>1, <1>2, <1>3, PTL DEF Pointers!Spec

-----------------------------------------------------------------------------
(* The button of a drag is not pressed a second time, because buttons are  *)
(* not shared; its release ends the drag, and every other press or release *)
(* leaves it pressed with its serial.  A drag that began before the pool   *)
(* was replaced is not claimed to have a button.                           *)
LEMMA DragButtonNext ==
  ASSUME ~SharedButtons
  PROVE  Pointers!Assumptions /\ Pointers!TypeOK /\ Pointers!DragButtonHeld /\ [Pointers!Next]_(Pointers!vars)
    => Pointers!DragButtonHeld'
<1> SUFFICES ASSUME Pointers!Assumptions, Pointers!TypeOK, Pointers!DragButtonHeld, [Pointers!Next]_(Pointers!vars)
      PROVE Pointers!DragButtonHeld'
  OBVIOUS
<1> USE DEF Pointers!Assumptions, Pointers!DragButtonHeld, Pointers!HasImplicitGrab,
    Pointers!poolVars, Pointers!focusVars, Pointers!buttonVars, Pointers!dragVars,
            Pointers!gestureVars
<1>0. /\ serials \in Nat /\ epoch \in 0 .. serials /\ drag \in 0 .. serials
      /\ serialOf \in [Button -> 0 .. serials]
  BY PointerTypeNumbers DEF PointerNumbers
<1>1. ASSUME NEW p \in Pointer, Pointers!CreateDevice(p) \/ Pointers!DestroyDevice(p)
      PROVE Pointers!DragButtonHeld'
  BY <1>1 DEF Pointers!CreateDevice, Pointers!DestroyDevice
<1>3. CASE Pointers!SetHasPointer
  BY <1>0, <1>3 DEF Pointers!SetHasPointer
<1>4. ASSUME NEW s, Pointers!SetFocusedSurface(s) \/ Pointers!DestroySurface(s)
      PROVE Pointers!DragButtonHeld'
  BY <1>4 DEF Pointers!SetFocusedSurface, Pointers!DestroySurface
<1>6. ASSUME NEW c, Pointers!Disconnect(c) PROVE Pointers!DragButtonHeld'
  BY <1>6 DEF Pointers!Disconnect
<1>7. ASSUME NEW b \in Button, Pointers!ButtonPressed(b) PROVE Pointers!DragButtonHeld'
  BY <1>0, <1>7 DEF Pointers!ButtonPressed
<1>13. ASSUME NEW b \in Button, Pointers!ButtonReleased(b) PROVE Pointers!DragButtonHeld'
  BY <1>0, <1>13 DEF Pointers!ButtonReleased, Pointers!EndsDrag, Pointers!Drops
<1>8. ASSUME NEW serial \in 1 .. serials, Pointers!StartDrag(serial)
      PROVE Pointers!DragButtonHeld'
  BY <1>8 DEF Pointers!StartDrag
<1>9. CASE Pointers!EndDrag
  BY <1>0, <1>9 DEF Pointers!EndDrag, Pointers!EndsDrag
<1>10. ASSUME NEW g \in Gesture, Pointers!Register(g) \/ Pointers!DestroyGesture(g)
      PROVE Pointers!DragButtonHeld'
  BY <1>10 DEF Pointers!Register, Pointers!DestroyGesture
<1>11. ASSUME NEW k, Pointers!StartGesture(k) \/ Pointers!EndGesture(k)
      PROVE Pointers!DragButtonHeld'
  BY <1>11 DEF Pointers!StartGesture, Pointers!EndGesture
<1>12. CASE UNCHANGED Pointers!vars
  BY <1>12 DEF Pointers!vars
<1> QED
  BY <1>1, <1>3, <1>4, <1>6, <1>7, <1>8, <1>9, <1>10, <1>11, <1>12, <1>13 DEF Pointers!Next

(* With buttons of their own, a drag of the present pool has its button    *)
(* pressed (DragButtonHeld), so that a release will drop it.               *)
THEOREM DragButtonHeldCorrect ==
  ASSUME Pointers!Assumptions, ~SharedButtons
  PROVE  Pointers!Spec => []DragButtonHeld
<1> DEFINE Inductive == Pointers!TypeOK /\ Pointers!DragButtonHeld
<1>1. Pointers!Init => Inductive
  BY PointerTypeInit DEF Pointers!Init, Pointers!DragButtonHeld
<1>2. Inductive /\ [Pointers!Next]_(Pointers!vars) => Inductive'
  BY PointerTypeNext, DragButtonNext
<1>3. Inductive => DragButtonHeld
  BY DEF DragButtonHeld
<1> QED
  BY <1>1, <1>2, <1>3, PTL DEF Pointers!Spec
=============================================================================
