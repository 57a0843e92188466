--------------------------- MODULE SeatInputProofs ---------------------------
(***************************************************************************)
(* Proofs about the input of a seat, for any surfaces, keyboards, keys,    *)
(* modifiers, keymaps, sources, offers, devices, grabs and touch points.   *)
(***************************************************************************)
EXTENDS SeatInput, WellFoundedInduction, TLAPS

-----------------------------------------------------------------------------
(* Keyboards: the focused client knows what the seat knows.                *)

(* What is needed besides: a keyboard that is not flagged has the keymap,  *)
(* so that the keymap need not be sent with the focus; and a keyboard that *)
(* is created is not in the pool.                                          *)
KeymapsTold ==
  \A k \in devices \ outdated : keymap # None => map[k] = keymap
Registered == devices \subseteq keyboards

Inv == TypeOK /\ Registered /\ KeyboardsAgree /\ KeymapsTold

LEMMA InitInv == Assumptions /\ Init => Inv
  BY DEF Assumptions, Init, Inv, TypeOK, Registered, KeyboardsAgree, KeymapsTold, DevicesOf

LEMMA DevicesOfSubset ==
  ASSUME NEW s, NEW among
  PROVE  DevicesOf(s, among) \subseteq among
  BY DEF DevicesOf

LEMMA CreateDeviceInv ==
  ASSUME Assumptions, Inv, NEW k \in Keyboard, CreateDevice(k)
  PROVE  Inv'
<1> DEFINE joins == DevicesOf(focus, {k})
           sends == IF keymap = None THEN {} ELSE joins
<1>1. joins = {} \/ joins = {k}
  BY DevicesOfSubset
<1>2. DevicesOf(focus, devices \cup {k}) = DevicesOf(focus, devices) \cup joins
  BY DEF DevicesOf
<1>3. k \notin devices /\ focusDevices \subseteq devices
  BY DevicesOfSubset DEF CreateDevice, Inv, Registered, KeyboardsAgree
<1>4. map' = [map EXCEPT ![k] = IF joins = {k} THEN keymap ELSE None]
  BY <1>1 DEF CreateDevice
<1>5. outdated' = (outdated \cup {k}) \ (IF keymap = None THEN {} ELSE joins)
  BY DEF CreateDevice
<1>6. TypeOK'
  <2>1. map' \in [Keyboard -> Keymap \cup {None}] /\ outdated' \subseteq Keyboard
    BY <1>4, <1>5 DEF Inv, TypeOK
  <2>2. joins \subseteq Keyboard
    BY <1>1
  <2> QED
    BY <2>1, <2>2 DEF Inv, TypeOK, CreateDevice, MoveFocus, stateVars
<1>7. KeyboardsAgree'
  <2>1. focusDevices' = DevicesOf(focus', devices')
    BY <1>2 DEF CreateDevice, Inv, KeyboardsAgree
  <2>2. ASSUME NEW d \in focusDevices'
        PROVE  /\ focused'[d] = focus' /\ keys'[d] = pressed' /\ mods'[d] = modifiers'
               /\ keymap' # None => map'[d] = keymap'
    <3>1. /\ d \in focusDevices \cup joins /\ focus' = focus
          /\ UNCHANGED <<pressed, modifiers, keymap>>
      BY <2>2 DEF CreateDevice, stateVars
    <3>2. /\ focused' = [x \in Keyboard |-> IF x \in joins THEN focus
                                             ELSE IF x \in {k} THEN None ELSE focused[x]]
          /\ keys' = [x \in Keyboard |-> IF x \in joins THEN pressed
                                          ELSE IF x \in {k} THEN {} ELSE keys[x]]
          /\ mods' = [x \in Keyboard |-> IF x \in joins THEN modifiers ELSE mods[x]]
      BY DEF CreateDevice, MoveFocus
    <3>3. d \in Keyboard /\ map \in [Keyboard -> Keymap \cup {None}]
      BY <1>1, <3>1 DEF Inv, TypeOK
    <3>4. CASE d \in joins
      BY <1>1, <1>4, <3>1, <3>2, <3>3, <3>4
    <3>5. CASE d \notin joins
      <4>1. d # k /\ d \in focusDevices
        BY <1>3, <3>1, <3>5
      <4> QED
        BY <1>4, <3>1, <3>2, <3>3, <3>5, <4>1 DEF Inv, KeyboardsAgree
    <3> QED
      BY <3>4, <3>5
  <2>3. ASSUME NEW d \in devices' \ focusDevices'
        PROVE  focused'[d] = None /\ keys'[d] = {}
    BY <1>1, <1>3, <2>3 DEF CreateDevice, Inv, TypeOK, KeyboardsAgree, MoveFocus
  <2> QED
    BY <2>1, <2>2, <2>3 DEF KeyboardsAgree
<1>8. KeymapsTold'
  BY <1>1, <1>4, <1>5 DEF CreateDevice, Inv, TypeOK, KeymapsTold, stateVars
<1>9. Registered'
  BY DEF CreateDevice, Inv, Registered
<1> QED
  BY <1>6, <1>7, <1>8, <1>9 DEF Inv

LEMMA DestroyDeviceInv ==
  ASSUME Assumptions, Inv, NEW k \in Keyboard, DestroyDevice(k)
  PROVE  Inv'
<1>1. TypeOK'
  BY DEF Inv, TypeOK, DestroyDevice, MoveFocus, stateVars
<1>2. KeyboardsAgree'
  <2>1. focusDevices' = DevicesOf(focus', devices')
    BY DEF DestroyDevice, Inv, KeyboardsAgree, DevicesOf
  <2> QED
    BY <2>1 DEF DestroyDevice, Inv, TypeOK, KeyboardsAgree, MoveFocus, stateVars
<1>3. KeymapsTold'
  BY DEF DestroyDevice, Inv, TypeOK, KeymapsTold, stateVars
<1>4. Registered'
  BY DEF DestroyDevice, Inv, Registered
<1> QED
  BY <1>1, <1>2, <1>3, <1>4 DEF Inv

LEMMA SetHasKeyboardInv ==
  ASSUME Assumptions, Inv, SetHasKeyboard
  PROVE  Inv'
  BY DEF Assumptions, SetHasKeyboard, Inv, TypeOK, Registered, KeyboardsAgree, KeymapsTold, DevicesOf, clientVars

(* The focus moves: the keyboards left are told so, those entered are sent *)
(* the keymap if they are flagged, and have it if they are not.            *)
LEMMA SetFocusedSurfaceInv ==
  ASSUME Assumptions, Inv, NEW s \in surfaces \cup {None}, SetFocusedSurface(s)
  PROVE  Inv'
<1> DEFINE to == DevicesOf(s, devices)
           sends == IF keymap = None THEN {} ELSE to \cap outdated
<1>1. to \subseteq devices /\ s \in Surface \cup {None}
  BY DevicesOfSubset DEF Inv, TypeOK
<1>2. TypeOK'
  BY <1>1 DEF Inv, TypeOK, SetFocusedSurface, SendKeymap, MoveFocus, stateVars
<1>3. KeyboardsAgree'
  <2>1. ASSUME NEW d \in to
        PROVE  /\ focused'[d] = s /\ keys'[d] = pressed /\ mods'[d] = modifiers
               /\ keymap # None => map'[d] = keymap
    BY <1>1, <2>1 DEF SetFocusedSurface, Inv, TypeOK, KeymapsTold, SendKeymap, MoveFocus
  <2>2. ASSUME NEW d \in devices \ to
        PROVE  focused'[d] = None /\ keys'[d] = {}
    BY <2>2 DEF SetFocusedSurface, Inv, TypeOK, KeyboardsAgree, MoveFocus
  <2> QED
    BY <2>1, <2>2 DEF SetFocusedSurface, KeyboardsAgree, stateVars
<1>4. KeymapsTold'
  BY <1>1 DEF SetFocusedSurface, Inv, TypeOK, KeymapsTold, SendKeymap, stateVars
<1>5. Registered'
  BY DEF SetFocusedSurface, poolVars, Inv, Registered
<1> QED
  BY <1>2, <1>3, <1>4, <1>5 DEF Inv

(* The keyboards of the pool whose slot runs are the focused ones.         *)
LEMMA DestroySurfaceInv ==
  ASSUME Assumptions, Inv, NEW s \in surfaces, DestroySurface(s)
  PROVE  Inv'
<1>1. s \in Surface /\ s # None
  BY DEF Assumptions, Inv, TypeOK
<1>2. TypeOK'
  BY DEF Inv, TypeOK, DestroySurface, MoveFocus, stateVars
<1>3. KeyboardsAgree'
  <2>1. CASE focus = s
    BY <1>1, <2>1 DEF DestroySurface, Inv, TypeOK, KeyboardsAgree, MoveFocus, DevicesOf, stateVars
  <2>2. CASE focus # s
    BY <1>1, <2>2 DEF DestroySurface, Inv, TypeOK, KeyboardsAgree, MoveFocus, DevicesOf, stateVars
  <2> QED
    BY <2>1, <2>2
<1>4. KeymapsTold'
  BY DEF DestroySurface, Inv, KeymapsTold, stateVars
<1>5. Registered'
  BY DEF DestroySurface, poolVars, Inv, Registered
<1> QED
  BY <1>2, <1>3, <1>4, <1>5 DEF Inv

LEMMA KeyInv ==
  ASSUME Assumptions, Inv, NEW key \in Key, Press(key) \/ Release(key)
  PROVE  Inv'
<1>1. TypeOK'
  BY DEF Inv, TypeOK, Press, Release, poolVars
<1>2. KeyboardsAgree'
  <2>1. focusDevices \subseteq devices
    BY DevicesOfSubset DEF Inv, KeyboardsAgree
  <2>2. CASE Press(key)
    BY <2>1, <2>2 DEF Press, poolVars, Inv, TypeOK, KeyboardsAgree
  <2>3. CASE Release(key)
    BY <2>1, <2>3 DEF Release, poolVars, Inv, TypeOK, KeyboardsAgree
  <2> QED
    BY <2>2, <2>3
<1>3. KeymapsTold'
  BY DEF Press, Release, poolVars, Inv, KeymapsTold
<1>4. Registered'
  BY DEF Press, Release, poolVars, Inv, Registered
<1> QED
  BY <1>1, <1>2, <1>3, <1>4 DEF Inv

LEMMA UpdateModifiersInv ==
  ASSUME Assumptions, Inv, NEW m \in Modifiers, UpdateModifiers(m)
  PROVE  Inv'
<1>1. TypeOK'
  BY DEF Inv, TypeOK, UpdateModifiers, poolVars
<1>2. KeyboardsAgree'
  BY DEF UpdateModifiers, poolVars, Inv, TypeOK, KeyboardsAgree, DevicesOf
<1>3. KeymapsTold'
  BY DEF UpdateModifiers, poolVars, Inv, KeymapsTold
<1>4. Registered'
  BY DEF UpdateModifiers, poolVars, Inv, Registered
<1> QED
  BY <1>1, <1>2, <1>3, <1>4 DEF Inv

(* A new keymap is sent to the focused keyboards; all others are flagged.  *)
LEMMA SetKeymapInv ==
  ASSUME Assumptions, Inv, NEW m \in Keymap \cup {None}, SetKeymap(m)
  PROVE  Inv'
<1>1. focusDevices \subseteq devices
  BY DevicesOfSubset DEF Inv, KeyboardsAgree
<1>2. TypeOK'
  BY DEF Inv, TypeOK, SetKeymap, SendKeymap, Flagged, poolVars
<1>3. KeyboardsAgree'
  BY DEF SetKeymap, SendKeymap, poolVars, Inv, TypeOK, KeyboardsAgree, DevicesOf
<1>4. KeymapsTold'
  BY <1>1 DEF SetKeymap, SendKeymap, Flagged, poolVars, Inv, TypeOK, KeymapsTold
<1>5. Registered'
  BY DEF SetKeymap, poolVars, Inv, Registered
<1> QED
  BY <1>2, <1>3, <1>4, <1>5 DEF Inv

LEMMA NextInv == Assumptions /\ Inv /\ [Next]_vars => Inv'
<1> SUFFICES ASSUME Assumptions, Inv, [Next]_vars PROVE Inv'
  OBVIOUS
<1>1. ASSUME NEW k \in Keyboard, CreateDevice(k) PROVE Inv'
  BY <1>1, CreateDeviceInv
<1>2. ASSUME NEW k \in Keyboard, DestroyDevice(k) PROVE Inv'
  BY <1>2, DestroyDeviceInv
<1>3. CASE SetHasKeyboard
  BY <1>3, SetHasKeyboardInv
<1>4. ASSUME NEW s \in surfaces \cup {None}, SetFocusedSurface(s) PROVE Inv'
  BY <1>4, SetFocusedSurfaceInv
<1>5. ASSUME NEW s \in surfaces, DestroySurface(s) PROVE Inv'
  BY <1>5, DestroySurfaceInv
<1>6. ASSUME NEW key \in Key, Press(key) \/ Release(key) PROVE Inv'
  BY <1>6, KeyInv
<1>7. ASSUME NEW m \in Modifiers, UpdateModifiers(m) PROVE Inv'
  BY <1>7, UpdateModifiersInv
<1>8. ASSUME NEW m \in Keymap \cup {None}, SetKeymap(m) PROVE Inv'
  BY <1>8, SetKeymapInv
<1>9. CASE UNCHANGED vars
  BY <1>9 DEF Inv, TypeOK, Registered, KeyboardsAgree, KeymapsTold, DevicesOf, vars, poolVars, stateVars, clientVars
<1> QED
  BY <1>1, <1>2, <1>3, <1>4, <1>5, <1>6, <1>7, <1>8, <1>9 DEF Next

(* What the client of the focused surface knows of keys, modifiers and     *)
(* keymap is what the seat knows, and no other client of the pool is left  *)
(* with a key down, for every number of surfaces, keyboards, keys and      *)
(* keymaps (keyboard_pool.cpp:46-166, keyboard.cpp:110-130).               *)
THEOREM KeyboardsAgreeCorrect ==
  ASSUME Assumptions
  PROVE  Spec => []KeyboardsAgree
<1>1. Inv => KeyboardsAgree
  BY DEF Inv
<1> QED
  BY InitInv, NextInv, <1>1, PTL DEF Spec

-----------------------------------------------------------------------------
(* Drags: a target that is alive, and its offer.                           *)

(* A source that can end a drag is one that resets the source of the drag  *)
(* when it is destroyed; without a source no offer is made; a source that  *)
(* has a drag has started it and has not dropped anything; what is sent to *)
(* the target goes with its surface.                                       *)
DragInv ==
  /\ Drags!TypeOK /\ Drags!TargetAlive /\ Drags!OfferOfDrag
  /\ ending \subseteq resetting
  /\ source # None => source \in resetting /\ source \in started \ dropped
  /\ dropped \subseteq started
  /\ source = None /\ mode # "none" => offer = None
  /\ surface = None => offer = None
  /\ grab.surface # None => grab.surface \in dragSurfaces
  /\ grab.mode = "none" => grab = Drags!NoGrab

LEMMA DragNone ==
  ASSUME Drags!Assumptions
  PROVE  /\ None \notin Source /\ None \notin Surface /\ None \notin Offer /\ None \notin DataDevice
         /\ DeviceOf \in [Surface -> DataDevice] /\ MaxGrabs \in Nat
  BY DEF Drags!Assumptions

LEMMA DragInit == Drags!Assumptions /\ Drags!Init => DragInv
  BY DragNone DEF Drags!Init, Drags!NoGrab, Drags!Grab, DragInv, Drags!TypeOK,
     Drags!TargetAlive, Drags!OfferOfDrag

(* Of a new target, for the source of a drag: its offer is new and of that *)
(* source, and that of the old one matches nothing any more.               *)
LEMMA TargetUpdated ==
  ASSUME Drags!Assumptions, DragInv, NEW s \in dragSurfaces \cup {None},
         NEW src \in sources \cup {None}, Drags!UpdateTarget(s, src)
  PROVE  /\ surface' = s
         /\ device' \in DataDevice \cup {None} /\ offer' \in Offer \cup {None}
         /\ offers' \subseteq Offer /\ offerOf' \in [Offer -> Source \cup {None}]
         /\ matching' \subseteq offers'
         /\ device' # None => s # None /\ device' \in dragDevices /\ device' = DeviceOf[s]
         /\ offer' # None => offer' \in offers' /\ offerOf'[offer'] = src /\ src # None /\ s # None
         /\ offer \in matching => offer \notin matching'
<1> USE DragNone
<1>1. surface' = s
  BY DEF Drags!UpdateTarget
<1>2. /\ Drags!MatchingAfterCancel \subseteq offers
      /\ offer \in matching => offer \notin Drags!MatchingAfterCancel
  BY DEF Drags!MatchingAfterCancel, DragInv, Drags!TypeOK
<1>3. /\ offers \subseteq Offer /\ matching \subseteq offers
      /\ offerOf \in [Offer -> Source \cup {None}] /\ src \in Source \cup {None}
  BY DEF DragInv, Drags!TypeOK
<1>4. CASE ~(Drags!Entered(s) /\ DeviceOf[s] \in dragDevices)
  <2>1. device' = None /\ offer' = None /\ matching' = Drags!MatchingAfterCancel
        /\ UNCHANGED <<offers, offerOf>>
    BY <1>4 DEF Drags!UpdateTarget, Drags!offerVars
  <2> QED
    BY <1>1, <1>2, <1>3, <2>1
<1>5. CASE Drags!Entered(s) /\ DeviceOf[s] \in dragDevices
  <2>1. s # None /\ device' = DeviceOf[s] /\ device' \in dragDevices /\ device' \in DataDevice
    BY <1>5 DEF Drags!UpdateTarget, Drags!Entered, DragInv, Drags!TypeOK
  <2>2. CASE src = None
    <3>1. offer' = None /\ matching' = Drags!MatchingAfterCancel /\ UNCHANGED <<offers, offerOf>>
      BY <1>5, <2>2 DEF Drags!UpdateTarget, Drags!OfferedSource, Drags!offerVars
    <3> QED
      BY <1>1, <1>2, <1>3, <2>1, <3>1
  <2>3. CASE src # None
    <3>1. PICK o \in Offer \ offers :
            /\ offer' = o /\ offers' = offers \cup {o}
            /\ offerOf' = [offerOf EXCEPT ![o] = src]
            /\ matching' = Drags!MatchingAfterCancel \cup {o}
      BY <1>5, <2>3 DEF Drags!UpdateTarget, Drags!OfferedSource
    <3>2. offer \in matching => offer # o
      BY <1>3
    <3> QED
      BY <1>1, <1>2, <1>3, <2>1, <2>3, <3>1, <3>2
  <2> QED
    BY <2>2, <2>3
<1> QED
  BY <1>4, <1>5

LEMMA Grabs ==
  /\ Drags!NoGrab \in Drags!Grab /\ Drags!NoGrab.surface = None
  /\ \A m \in {"pointer", "touch"}, s \in Surface :
       [mode |-> m, surface |-> s] \in Drags!Grab
  BY DEF Drags!Grab, Drags!NoGrab

(* The end of a drag.                                                      *)
LEMMA DragEnded ==
  ASSUME Drags!Assumptions, DragInv, Drags!End, UNCHANGED resetting,
         UNCHANGED <<sources, dragSurfaces, dragDevices, started, offers, offerOf, dragFault>>,
         dropped' \in {dropped, dropped \cup ({source} \cap Source)},
         matching' \in {matching, Drags!MatchingAfterCancel},
         grab' = Drags!NoGrab, UNCHANGED grabs
  PROVE  DragInv'
<1> USE DragNone
<1>1. /\ mode' = "none" /\ source' = None /\ serial' = 0 /\ notifier' = None
      /\ surface' = None /\ device' = None /\ offer' = None
      /\ ending' = ending \ {notifier}
      /\ performed' = performed \cup ({source} \cap Source)
  BY DEF Drags!End, Drags!ResetSource, Drags!ResetTarget
<1>2. dropped' \subseteq started /\ matching' \subseteq matching
  BY DEF DragInv, Drags!TypeOK, Drags!MatchingAfterCancel
<1>3. Drags!TypeOK'
  <2>1. ending' \subseteq sources' /\ resetting' \subseteq sources'
    BY <1>1 DEF DragInv, Drags!TypeOK
  <2>2. serial' \in 0 .. MaxGrabs /\ grabs' \in 0 .. MaxGrabs /\ grab' \in Drags!Grab
    BY <1>1, Grabs DEF DragInv, Drags!TypeOK
  <2>3. dropped' \subseteq Source /\ performed' \subseteq Source
    BY <1>1, <1>2 DEF DragInv, Drags!TypeOK
  <2> QED
    BY <1>1, <1>2, <2>1, <2>2, <2>3 DEF DragInv, Drags!TypeOK
<1> QED
  BY <1>1, <1>2, <1>3 DEF DragInv, Drags!TargetAlive, Drags!OfferOfDrag, Drags!NoGrab

LEMMA DragGrabs ==
  ASSUME Drags!Assumptions, DragInv,
         \/ \E m \in {"pointer", "touch"}, s \in Surface : Drags!Press(m, s)
         \/ Drags!Release \/ Drags!CancelTouch
  PROVE  DragInv'
<1> USE DragNone
<1>1. ASSUME NEW m \in {"pointer", "touch"}, NEW s \in Surface, Drags!Press(m, s)
      PROVE  DragInv'
  <2>1. grabs' \in 0 .. MaxGrabs /\ grab' \in Drags!Grab
        /\ grab'.surface = s /\ s \in dragSurfaces
    BY <1>1, Grabs DEF Drags!Press, DragInv, Drags!TypeOK
  <2> QED
    BY <1>1, <2>1 DEF Drags!Press, Drags!objects, Drags!sourceVars, Drags!connections,
       Drags!targetVars, Drags!offerVars, Drags!told, DragInv, Drags!TypeOK, Drags!TargetAlive,
       Drags!OfferOfDrag
<1>2. ASSUME grab' = Drags!NoGrab,
             UNCHANGED <<grabs, Drags!objects, started, Drags!sourceVars, Drags!connections,
                         Drags!targetVars, Drags!offerVars, matching, Drags!told, dragFault>>
      PROVE  DragInv'
  BY <1>2 DEF Drags!objects, Drags!sourceVars, Drags!connections, Drags!Grab, Drags!NoGrab,
     Drags!targetVars, Drags!offerVars, Drags!told, DragInv, Drags!TypeOK, Drags!TargetAlive,
     Drags!OfferOfDrag
<1>3. CASE Drags!Release
  <2>1. CASE Drags!DropsOwnDrag
    BY <1>3, <2>1, DragEnded DEF Drags!Release, Drags!Drop, Drags!objects, Drags!offerVars
  <2> QED
    BY <1>2, <1>3, <2>1 DEF Drags!Release
<1>4. CASE Drags!CancelTouch
  <2>1. CASE mode = "touch"
    BY <1>4, <2>1, DragEnded DEF Drags!CancelTouch, Drags!Cancel, Drags!objects, Drags!offerVars
  <2> QED
    BY <1>2, <1>4, <2>1 DEF Drags!CancelTouch
<1> QED
  BY <1>1, <1>3, <1>4

LEMMA DragStarts ==
  ASSUME Drags!Assumptions, DragInv, NEW src \in Source \cup {None}, Drags!StartDrag(src)
  PROVE  DragInv'
<1> USE DragNone
<1>1. /\ src \in sources \cup {None} /\ grab.surface \in dragSurfaces
      /\ src \notin started \/ src = None
  BY DEF Drags!StartDrag, Drags!HoldsGrab, DragInv, Drags!TypeOK
<1>2. /\ mode' = grab.mode /\ serial' = grabs /\ source' = src
      /\ started' = started \cup ({src} \cap Source)
      /\ notifier' = IF src = None THEN notifier ELSE src
      /\ resetting' = resetting \cup ({src} \cap Source)
      /\ ending' = ending \cup ({src} \cap Source)
      /\ UNCHANGED <<grabs, grab, sources, dragSurfaces, dragDevices, performed, dropped,
                     dragFault>>
      /\ Drags!UpdateTarget(grab.surface, src)
  BY DEF Drags!StartDrag, Drags!grabVars, Drags!objects, Drags!told
<1>3. /\ surface' = grab.surface
      /\ device' \in DataDevice \cup {None} /\ offer' \in Offer \cup {None}
      /\ offers' \subseteq Offer /\ offerOf' \in [Offer -> Source \cup {None}]
      /\ matching' \subseteq offers'
      /\ device' # None => surface' # None /\ device' \in dragDevices /\ device' = DeviceOf[surface']
      /\ offer' # None => offerOf'[offer'] = src /\ src # None /\ surface' # None
  BY <1>1, <1>2, TargetUpdated
<1>4. Drags!TypeOK'
  <2>1. /\ mode' \in {"none", "pointer", "touch"} /\ serial' \in 0 .. MaxGrabs
        /\ surface' \in Surface
    BY <1>1, <1>2, <1>3 DEF DragInv, Drags!TypeOK, Drags!Grab
  <2>2. /\ ending' \subseteq sources /\ resetting' \subseteq sources
        /\ notifier' \in ending' \cup {None} /\ started' \subseteq Source
    BY <1>1, <1>2 DEF DragInv, Drags!TypeOK
  <2> QED
    BY <1>1, <1>2, <1>3, <2>1, <2>2 DEF DragInv, Drags!TypeOK
<1>5. src # None => src \in Source
  OBVIOUS
<1> QED
  BY <1>1, <1>2, <1>3, <1>4, <1>5 DEF DragInv, Drags!TargetAlive, Drags!OfferOfDrag

LEMMA DragTargets ==
  ASSUME Drags!Assumptions, DragInv, NEW s \in Surface \cup {None}, Drags!SetTarget(s)
  PROVE  DragInv'
<1> USE DragNone
<1>1. /\ s \in dragSurfaces \cup {None} /\ source \in sources \cup {None} /\ mode # "none"
      /\ Drags!UpdateTarget(s, source)
      /\ UNCHANGED <<grabs, grab, sources, dragSurfaces, dragDevices, started, mode, source,
                     serial, notifier, resetting, ending, performed, dropped, dragFault>>
  BY DEF Drags!SetTarget, Drags!grabVars, Drags!objects, Drags!sourceVars, Drags!connections,
         Drags!told, DragInv, Drags!TypeOK
<1>2. /\ surface' = s
      /\ device' \in DataDevice \cup {None} /\ offer' \in Offer \cup {None}
      /\ offers' \subseteq Offer /\ offerOf' \in [Offer -> Source \cup {None}]
      /\ matching' \subseteq offers'
      /\ device' # None => surface' # None /\ device' \in dragDevices /\ device' = DeviceOf[surface']
      /\ offer' # None => offerOf'[offer'] = source /\ source # None /\ surface' # None
  BY <1>1, TargetUpdated
<1>3. Drags!TypeOK'
  BY <1>1, <1>2 DEF DragInv, Drags!TypeOK
<1> QED
  BY <1>1, <1>2, <1>3 DEF DragInv, Drags!TargetAlive, Drags!OfferOfDrag

LEMMA DragSourceEnds ==
  ASSUME Drags!Assumptions, DragInv, NEW s \in Source, Drags!DestroySource(s)
  PROVE  DragInv'
<1> USE DragNone
<1>1. /\ s \in sources /\ sources' = sources \ {s}
      /\ resetting' = resetting \ {s} /\ ending' = ending \ {s}
      /\ offerOf' = [o \in Offer |-> IF offerOf[o] = s THEN None ELSE offerOf[o]]
      /\ UNCHANGED <<grabs, grab, dragSurfaces, dragDevices, started, offers, performed, dropped,
                     dragFault>>
  BY DEF Drags!DestroySource, Drags!grabVars, Drags!told
<1>2. /\ \/ UNCHANGED <<surface, device, offer>>
         \/ surface' = None /\ device' = None /\ offer' = None
      /\ matching' \subseteq offers
  BY DEF Drags!DestroySource, Drags!ResetTarget, Drags!targetVars, DragInv, Drags!TypeOK,
         Drags!MatchingAfterCancel
<1>3. /\ mode' \in {"none", "pointer", "touch"} /\ serial' \in 0 .. MaxGrabs
      /\ source' \in {source, None} \ {s}
      /\ source' # None => source' \in resetting'
      /\ source' = None => source = None \/ mode' = "none"
      /\ mode' \in {mode, "none"}
      /\ notifier' \in ending' \cup {None}
  <2>1. CASE s \in resetting
    BY <1>1, <2>1 DEF Drags!DestroySource, Drags!ResetSource, DragInv, Drags!TypeOK
  <2>2. CASE s \notin resetting
    <3>1. s \notin ending /\ source # s
      BY <2>2 DEF DragInv
    <3> QED
      BY <1>1, <2>2, <3>1 DEF Drags!DestroySource, Drags!sourceVars, DragInv, Drags!TypeOK
  <2> QED
    BY <2>1, <2>2
<1>4. Drags!TypeOK'
  BY <1>1, <1>2, <1>3 DEF DragInv, Drags!TypeOK
<1>5. Drags!OfferOfDrag' /\ Drags!TargetAlive'
  <2>1. offer' # None /\ source' # None /\ offer' \in offers => offerOf'[offer'] = source'
    <3> SUFFICES ASSUME offer' # None, source' # None, offer' \in offers
                 PROVE  offerOf'[offer'] = source'
      OBVIOUS
    <3>1. offer' = offer /\ source' = source /\ source # s
      BY <1>2, <1>3
    <3>2. offerOf[offer] = source /\ offer \in Offer
      BY <3>1 DEF DragInv, Drags!OfferOfDrag, Drags!TypeOK
    <3> QED
      BY <1>1, <3>1, <3>2
  <2> QED
    BY <1>1, <1>2, <2>1 DEF DragInv, Drags!TargetAlive, Drags!OfferOfDrag
<1> QED
  BY <1>1, <1>2, <1>3, <1>4, <1>5 DEF DragInv

LEMMA DragObjectEnds ==
  ASSUME Drags!Assumptions, DragInv,
         \/ \E s \in Surface : Drags!DestroySurface(s)
         \/ \E d \in DataDevice : Drags!DestroyDevice(d)
         \/ \E o \in Offer : Drags!DestroyOffer(o)
  PROVE  DragInv'
<1> USE DragNone
<1>1. ASSUME NEW s \in Surface, Drags!DestroySurface(s) PROVE DragInv'
  <2>1. /\ s \in dragSurfaces /\ dragSurfaces' = dragSurfaces \ {s}
        /\ UNCHANGED <<grabs, sources, dragDevices, started, mode, source, serial, notifier,
                       resetting, ending, offers, offerOf, performed, dropped, dragFault>>
    BY <1>1 DEF Drags!DestroySurface, Drags!sourceVars, Drags!connections, Drags!offerVars,
                Drags!told
  <2>2. grab' \in Drags!Grab /\ grab'.surface \in {grab.surface, None} \ {s}
    BY <1>1 DEF Drags!DestroySurface, DragInv, Drags!TypeOK, Drags!Grab
  <2>3. grab'.mode = "none" => grab' = Drags!NoGrab
    BY <1>1 DEF Drags!DestroySurface, DragInv, Drags!TypeOK, Drags!Grab, Drags!NoGrab
  <2>4. /\ \/ surface # s /\ UNCHANGED <<surface, device, offer>>
           \/ surface' = None /\ device' = None /\ offer' = None
        /\ matching' \subseteq offers
    BY <1>1 DEF Drags!DestroySurface, Drags!ResetTarget, Drags!targetVars, DragInv, Drags!TypeOK,
                Drags!MatchingAfterCancel
  <2>5. Drags!TypeOK'
    BY <2>1, <2>2, <2>4 DEF DragInv, Drags!TypeOK
  <2> QED
    BY <2>1, <2>2, <2>3, <2>4, <2>5 DEF DragInv, Drags!TargetAlive, Drags!OfferOfDrag
<1>2. ASSUME NEW d \in DataDevice, Drags!DestroyDevice(d) PROVE DragInv'
  BY <1>2 DEF Drags!DestroyDevice, Drags!WithoutDevice, Drags!grabVars, Drags!sourceVars,
     Drags!connections, Drags!offerVars, Drags!told, DragInv, Drags!TypeOK, Drags!TargetAlive,
     Drags!OfferOfDrag
<1>3. ASSUME NEW o \in Offer, Drags!DestroyOffer(o) PROVE DragInv'
  BY <1>3 DEF Drags!DestroyOffer, Drags!grabVars, Drags!objects, Drags!sourceVars,
     Drags!connections, Drags!targetVars, Drags!told, DragInv, Drags!TypeOK, Drags!TargetAlive,
     Drags!OfferOfDrag
<1> QED
  BY <1>1, <1>2, <1>3

(* The rest changes no more than the fault.                                *)
LEMMA DragFaults ==
  ASSUME DragInv, dragFault' \in {dragFault, "null_source", "freed_offer"},
         UNCHANGED <<Drags!grabVars, Drags!objects, started, Drags!sourceVars, Drags!connections,
                     Drags!targetVars, Drags!offerVars, matching, Drags!told>>
  PROVE  DragInv'
  BY DEF Drags!grabVars, Drags!objects, Drags!sourceVars, Drags!connections,
     Drags!targetVars, Drags!offerVars, Drags!told, DragInv, Drags!TypeOK, Drags!TargetAlive,
     Drags!OfferOfDrag

LEMMA DragActions ==
  ASSUME DragInv,
         \/ \E o \in Offer : Drags!OfferSetsActions(o)
         \/ \E s \in Source : Drags!SourceSetsActions(s)
         \/ UNCHANGED Drags!vars
  PROVE  /\ DragInv' /\ surface' = surface
<1>1. /\ dragFault' \in {dragFault, "null_source", "freed_offer"}
      /\ UNCHANGED <<Drags!grabVars, Drags!objects, started, Drags!sourceVars, Drags!connections,
                     Drags!targetVars, Drags!offerVars, matching, Drags!told>>
  BY DEF Drags!OfferSetsActions, Drags!SourceSetsActions, Drags!MatchActions, Drags!vars
<1> QED
  BY <1>1, DragFaults DEF Drags!targetVars

LEMMA DragNext ==
  ASSUME Drags!Assumptions, DragInv, [Drags!Next]_(Drags!vars)
  PROVE  DragInv'
  BY DragGrabs, DragStarts, DragTargets, DragSourceEnds, DragObjectEnds, DragActions
  DEF Drags!Next, Drags!Input, Drags!Requests

(* Enter, motion, leave and drop events of a drag go to a surface and a    *)
(* data device that exist, and the offer there is of the source of the     *)
(* drag (drag_pool.cpp:151-226).                                           *)
THEOREM TargetAliveCorrect ==
  ASSUME Drags!Assumptions
  PROVE  Drags!Spec => []TargetAlive
<1>1. Drags!Init => DragInv
  BY DragInit
<1>2. DragInv /\ [Drags!Next]_(Drags!vars) => DragInv'
  BY DragNext
<1>3. DragInv => TargetAlive
  BY DEF DragInv, TargetAlive
<1> QED
  BY <1>1, <1>2, <1>3, PTL DEF Drags!Spec

(* Once the target changes, its offer has no say on the action any more,   *)
(* unless the drag ends in a drop (drag_pool.cpp:292).                     *)
THEOREM OnlyTargetMatchesCorrect ==
  ASSUME Drags!Assumptions
  PROVE  Drags!Spec => OnlyTargetMatches
<1> DEFINE Disconnected ==
      surface' # surface /\ dropped' = dropped /\ offer \in matching => offer \notin matching'
<1>1. Drags!Init => DragInv
  BY DragInit
<1>2. DragInv /\ [Drags!Next]_(Drags!vars) => DragInv'
  BY DragNext
<1>3. DragInv /\ [Drags!Next]_(Drags!vars) => [Disconnected]_(Drags!vars)
  <2> SUFFICES ASSUME DragInv, Drags!Next, surface' # surface, dropped' = dropped,
                      offer \in matching
               PROVE  offer \notin matching'
    OBVIOUS
  <2>1. /\ offer # None /\ surface # None /\ source \notin dropped
        /\ source = None => mode = "none"
        /\ offer \notin Drags!MatchingAfterCancel
    BY DragNone DEF DragInv, Drags!TypeOK, Drags!MatchingAfterCancel
  <2>2. ASSUME NEW s, NEW src, s \in dragSurfaces \cup {None}, src \in sources \cup {None},
               Drags!UpdateTarget(s, src)
        PROVE  offer \notin matching'
    BY <2>2, TargetUpdated
  <2>3. CASE Drags!Release
    <3>1. Drags!DropsOwnDrag /\ Drags!Drop
      BY <2>3 DEF Drags!Release, Drags!targetVars
    <3>2. mode # "none"
      BY <2>3, <3>1 DEF Drags!Release, Drags!DropsOwnDrag, DragInv
    <3>3. source \in Source \ dropped
      BY <2>1, <3>2 DEF DragInv, Drags!TypeOK
    <3> QED
      BY <3>1, <3>3 DEF Drags!Drop
  <2>4. CASE Drags!CancelTouch
    BY <2>1, <2>4 DEF Drags!CancelTouch, Drags!Cancel, Drags!targetVars
  <2>5. ASSUME NEW src \in Source \cup {None}, Drags!StartDrag(src)
        PROVE  offer \notin matching'
    BY <2>2, <2>5 DEF Drags!StartDrag, Drags!HoldsGrab
  <2>6. ASSUME NEW s \in Surface \cup {None}, Drags!SetTarget(s)
        PROVE  offer \notin matching'
    BY <2>2, <2>6 DEF Drags!SetTarget, DragInv, Drags!TypeOK
  <2>7. ASSUME NEW s \in Source, Drags!DestroySource(s)
        PROVE  offer \notin matching'
    BY <2>1, <2>7 DEF Drags!DestroySource, Drags!targetVars
  <2>8. ASSUME NEW s \in Surface, Drags!DestroySurface(s)
        PROVE  offer \notin matching'
    BY <2>1, <2>8 DEF Drags!DestroySurface, Drags!targetVars
  <2>9. /\ \A m, s : ~Drags!Press(m, s)
        /\ \A d : ~Drags!DestroyDevice(d)
        /\ \A o : ~Drags!DestroyOffer(o) /\ ~Drags!OfferSetsActions(o)
        /\ \A s : ~Drags!SourceSetsActions(s)
    BY DEF Drags!Press, Drags!DestroyDevice, Drags!DestroyOffer, Drags!OfferSetsActions,
           Drags!SourceSetsActions, Drags!MatchActions, Drags!targetVars
  <2> QED
    BY <2>3, <2>4, <2>5, <2>6, <2>7, <2>8, <2>9 DEF Drags!Next, Drags!Input, Drags!Requests
<1> QED
  BY <1>1, <1>2, <1>3, PTL DEF Drags!Spec, OnlyTargetMatches, Drags!OnlyTargetMatches

-----------------------------------------------------------------------------
(* Touch sequences: points that are down, and the drags that hang on them. *)

(* A nonempty set of numbers up to n has a largest one.                    *)
LEMMA LargestOf ==
  ASSUME NEW n \in Nat, NEW S \in SUBSET (0 .. n), S # {}
  PROVE  \E i \in S : \A j \in S : j <= i
<1> DEFINE Less == OpToRel(<, Nat)
           Left == {n - i : i \in S}
<1>1. Left \subseteq Nat /\ Left # {}
  <2>1. \A i \in S : n - i \in Nat
    OBVIOUS
  <2> QED
    BY <2>1
<1>2. PICK x \in Left : \A y \in Left : ~ (<<y, x>> \in Less)
  BY ZenonT(40), <1>1, NatLessThanWellFounded, WFMin
<1>3. PICK i \in S : x = n - i
  BY ZenonT(40), <1>2
<1>4. ASSUME NEW j \in S PROVE j <= i
  <2>1. <<n - j, x>> \notin Less /\ n - j \in Nat /\ x \in Nat
    BY ZenonT(40), <1>1, <1>2, <1>4
  <2>2. ~(n - j < x)
    BY <2>1 DEF OpToRel
  <2> QED
    BY <1>3, <2>2
<1> QED
  BY <1>3, <1>4

(* The ids of a sequence are below the number of points there have been;   *)
(* without a focus there are no focused devices, and on a seat without     *)
(* touch capability no points.                                             *)
TouchInv ==
  /\ Touches!TypeOK /\ Touches!PointsAgree /\ Touches!IdsUnique
  /\ \A i \in DOMAIN ids : i < serials
  /\ ids \in [DOMAIN ids -> Int]
  /\ touchFocus = None => touchFocused = {}
  /\ ~hasTouch => ids = Touches!NoIds

LEMMA NewId ==
  ASSUME TouchInv
  PROVE  /\ Touches!NextId \in Nat \ DOMAIN ids /\ Touches!NextId <= serials
<1>1. serials \in Nat /\ DOMAIN ids \subseteq Nat
  BY DEF TouchInv, Touches!TypeOK, Touches!Id
<1>2. CASE ids = Touches!NoIds
  <2>1. DOMAIN ids = {} /\ Touches!NextId = 0
    BY <1>2 DEF Touches!NoIds, Touches!NextId, Touches!InProgress
  <2> QED
    BY <1>1, <2>1
<1>3. CASE ids # Touches!NoIds
  <2>1. DOMAIN ids # {}
    BY <1>3 DEF Touches!NoIds, TouchInv
  <2>2. PICK i \in DOMAIN ids : \A j \in DOMAIN ids : j <= i
    <3>1. DOMAIN ids \in SUBSET (0 .. serials)
      BY <1>1 DEF TouchInv
    <3> QED
      BY <1>1, <2>1, <3>1, LargestOf
  <2> DEFINE m == CHOOSE k \in DOMAIN ids : \A j \in DOMAIN ids : j <= k
  <2>3. m \in DOMAIN ids /\ \A j \in DOMAIN ids : j <= m
    BY <2>2
  <2>4. Touches!NextId = 1 + m
    BY <1>3 DEF Touches!NextId, Touches!InProgress
  <2> QED
    BY <1>1, <2>3, <2>4 DEF TouchInv
<1> QED
  BY <1>2, <1>3

LEMMA TouchInit == Touches!Assumptions /\ Touches!Init => TouchInv
  BY DEF Touches!Assumptions, Touches!Init, Touches!NoIds, TouchInv, Touches!TypeOK,
     Touches!PointsAgree, Touches!IdsUnique

LEMMA TouchDevices ==
  ASSUME TouchInv,
         \E d \in Touch : Touches!CreateDevice(d) \/ Touches!DestroyDevice(d)
  PROVE  TouchInv'
<1>1. ASSUME NEW d \in Touch, Touches!CreateDevice(d) PROVE TouchInv'
  <2>1. /\ d \notin bound /\ bound' = bound \cup {d} /\ touchDevices' = touchDevices \cup {d}
        /\ touchFocused' \in {touchFocused, touchFocused \cup {d}}
        /\ touchFocus = None => touchFocused' = touchFocused
        /\ active' = [active EXCEPT ![d] = FALSE] /\ down' = [down EXCEPT ![d] = {}]
        /\ UNCHANGED <<hasTouch, hasPointer, pointerFocus, touchSurfaces, touchFocus, ids,
                       serials, touchDrag, touchFault>>
    BY <1>1 DEF Touches!CreateDevice, Touches!Interfaces, Touches!seatVars
  <2>2. Touches!TypeOK'
    BY <2>1 DEF TouchInv, Touches!TypeOK
  <2>3. \A e \in touchDevices' : e # d => e \in touchDevices /\ active'[e] = active[e]
                                          /\ down'[e] = down[e]
    BY <2>1 DEF TouchInv, Touches!TypeOK
  <2>4. active'[d] = FALSE /\ down'[d] = {}
    BY <2>1 DEF TouchInv, Touches!TypeOK
  <2>5. Touches!PointsAgree'
    BY <2>1, <2>3, <2>4 DEF TouchInv, Touches!PointsAgree
  <2>6. Touches!IdsUnique'
    BY <2>1, <2>4 DEF TouchInv, Touches!TypeOK, Touches!IdsUnique
  <2> QED
    BY <2>1, <2>2, <2>5, <2>6 DEF TouchInv
<1>2. ASSUME NEW d \in Touch, Touches!DestroyDevice(d) PROVE TouchInv'
  BY <1>2 DEF Touches!DestroyDevice, Touches!FocusedWithout, Touches!seatVars, Touches!clientVars,
     TouchInv, Touches!TypeOK, Touches!PointsAgree, Touches!IdsUnique
<1> QED
  BY <1>1, <1>2

(* Without a sequence in progress no client believes in one.               *)
LEMMA NoneActive ==
  ASSUME TouchInv, ids = Touches!NoIds
  PROVE  \A d \in touchDevices : ~active[d]
<1>1. DOMAIN ids = {}
  BY DEF Touches!NoIds
<1>2. \A d \in Touch : active[d] \in BOOLEAN
  BY DEF TouchInv, Touches!TypeOK
<1> QED
  BY <1>1, <1>2 DEF TouchInv, Touches!PointsAgree, Touches!TypeOK

LEMMA TouchSurfaces ==
  ASSUME Touches!Assumptions, TouchInv,
         \/ Touches!SetHasTouch
         \/ \E s \in touchSurfaces \cup {None} :
              Touches!SetFocusedSurface(s) \/ Touches!SetPointerFocus(s)
         \/ \E s \in touchSurfaces : Touches!DestroySurface(s)
  PROVE  TouchInv'
<1>1. ASSUME Touches!SetHasTouch PROVE TouchInv'
  BY <1>1 DEF Touches!SetHasTouch, Touches!NoIds, Touches!clientVars, TouchInv, Touches!TypeOK,
     Touches!PointsAgree, Touches!IdsUnique
<1>2. ASSUME NEW s \in touchSurfaces \cup {None}, Touches!SetFocusedSurface(s) PROVE TouchInv'
  <2>1. \A d \in touchDevices : ~active[d]
    BY <1>2, NoneActive DEF Touches!SetFocusedSurface, Touches!MayFocus, Touches!InProgress
  <2>2. /\ touchFocus' \in touchSurfaces \cup {None} /\ touchFocused' \subseteq touchDevices
        /\ touchFocus' = None => touchFocused' = {}
        /\ touchFault' \in {touchFault, "touch_drag"}
        /\ UNCHANGED <<hasTouch, hasPointer, pointerFocus, touchSurfaces, bound, touchDevices, ids,
                       serials, touchDrag, active, down>>
    BY <1>2 DEF Touches!SetFocusedSurface, Touches!Interfaces, Touches!poolVars, Touches!seatVars,
                Touches!clientVars, TouchInv, Touches!TypeOK
  <2>3. Touches!TypeOK'
    BY <2>2 DEF TouchInv, Touches!TypeOK
  <2> QED
    BY <2>1, <2>2, <2>3 DEF TouchInv, Touches!PointsAgree, Touches!IdsUnique
<1>3. ASSUME NEW s \in touchSurfaces \cup {None}, Touches!SetPointerFocus(s) PROVE TouchInv'
  BY <1>3 DEF Touches!SetPointerFocus, Touches!poolVars, Touches!clientVars, TouchInv,
     Touches!TypeOK, Touches!PointsAgree, Touches!IdsUnique
<1>4. ASSUME NEW s \in touchSurfaces, Touches!DestroySurface(s) PROVE TouchInv'
  <2>1. /\ touchSurfaces' = touchSurfaces \ {s}
        /\ pointerFocus' = IF pointerFocus = s THEN None ELSE pointerFocus
        /\ UNCHANGED <<hasTouch, hasPointer, bound, touchDevices, ids, serials, touchDrag, down,
                       touchFault>>
    BY <1>4 DEF Touches!DestroySurface
  <2>2. CASE touchFocus # s
    <3>1. UNCHANGED <<touchFocus, touchFocused, active>>
      BY <1>4, <2>2 DEF Touches!DestroySurface
    <3> QED
      BY <2>1, <2>2, <3>1
      DEF TouchInv, Touches!TypeOK, Touches!PointsAgree, Touches!IdsUnique, Touches!Assumptions
  <2>3. CASE touchFocus = s
    <3>1. /\ touchFocus' = None /\ touchFocused' = {}
          /\ active' = active \/ Touches!ClientCancel
      BY <1>4, <2>3 DEF Touches!DestroySurface
    <3>2. active' \in [Touch -> BOOLEAN]
      BY <3>1 DEF Touches!ClientCancel, TouchInv, Touches!TypeOK
    <3>3. \A d \in touchDevices : ~active'[d]
      <4>1. CASE ids = Touches!NoIds
        <5>1. active' = active
          BY <1>4, <2>3, <4>1 DEF Touches!DestroySurface, Touches!InProgress
        <5> QED
          BY <4>1, <5>1, NoneActive
      <4>2. CASE ids # Touches!NoIds
        <5>1. Touches!ClientCancel
          BY <1>4, <2>3, <4>2 DEF Touches!DestroySurface, Touches!InProgress
        <5> QED
          BY <5>1 DEF Touches!ClientCancel, TouchInv, Touches!PointsAgree, Touches!TypeOK
      <4> QED
        BY <4>1, <4>2
    <3>4. Touches!TypeOK'
      BY <2>1, <3>1, <3>2 DEF TouchInv, Touches!TypeOK
    <3> QED
      BY <2>1, <3>1, <3>3, <3>4 DEF TouchInv, Touches!PointsAgree, Touches!IdsUnique
  <2> QED
    BY <2>2, <2>3
<1> QED
  BY <1>1, <1>2, <1>3, <1>4

LEMMA TouchDowns ==
  ASSUME Touches!Assumptions, TouchInv, Touches!TouchDown
  PROVE  TouchInv' /\ \A i \in DOMAIN ids : i \in DOMAIN ids' /\ ids'[i] = ids[i]
<1> DEFINE id == Touches!NextId
           new == [id |-> id, serial |-> serials + 1, surface |-> touchFocus]
<1>1. /\ id \in Nat \ DOMAIN ids /\ id <= serials
      /\ serials \in Nat /\ MaxTouch \in Nat /\ serials < MaxTouch
  BY NewId DEF Touches!TouchDown, TouchInv, Touches!TypeOK, Touches!Assumptions
<1>2. /\ hasTouch /\ serials' = serials + 1
      /\ ids' = [i \in DOMAIN ids \cup {id} |-> IF i = id THEN serials + 1 ELSE ids[i]]
      /\ Touches!ClientDown(new)
      /\ touchFault' \in {touchFault, "unfocused_pointer"}
      /\ UNCHANGED <<hasTouch, hasPointer, pointerFocus, touchSurfaces, bound, touchDevices,
                     touchFocus, touchFocused, touchDrag>>
  BY DEF Touches!TouchDown, Touches!Emulate, Touches!seatVars
<1> HIDE DEF id
<1>3. /\ DOMAIN ids' = DOMAIN ids \cup {id} /\ ids'[id] = serials + 1
      /\ \A i \in DOMAIN ids : ids'[i] = ids[i]
      /\ ids' \in [DOMAIN ids' -> Int]
  <2>1. \A i \in DOMAIN ids : ids[i] \in Int
    BY DEF TouchInv
  <2> QED
    BY <1>1, <1>2, <2>1
<1>4. ASSUME NEW d \in touchFocused
      PROVE  new \in Touches!Point
  <2>1. touchFocus \in Surface
    BY <1>4 DEF TouchInv, Touches!TypeOK
  <2>2. id \in Touches!Id /\ serials + 1 \in 1 .. MaxTouch
    BY <1>1 DEF Touches!Id
  <2> QED
    BY <2>1, <2>2 DEF Touches!Point
<1> HIDE DEF new
<1>5. /\ down' = [d \in Touch |-> IF d \notin touchFocused THEN down[d]
                                  ELSE IF active[d] THEN down[d] \cup {new} ELSE {new}]
      /\ active' = [d \in Touch |-> active[d] \/ d \in touchFocused]
  BY <1>2 DEF Touches!ClientDown
<1>6. /\ down' \in [Touch -> SUBSET Touches!Point]
      /\ active' \in [Touch -> BOOLEAN]
  <2>1. active' \in [Touch -> BOOLEAN]
    BY <1>5
  <2>2. \A d \in Touch : down[d] \subseteq Touches!Point
    BY DEF TouchInv, Touches!TypeOK
  <2> QED
    BY <1>4, <1>5, <2>1, <2>2
<1>7. Touches!TypeOK'
  <2>1. DOMAIN ids' \subseteq Touches!Id /\ \A i \in DOMAIN ids' : ids'[i] \in 1 .. serials'
    BY <1>1, <1>2, <1>3 DEF TouchInv, Touches!TypeOK, Touches!Id
  <2>2. serials' \in 0 .. MaxTouch /\ touchDrag' \in 0 .. serials'
    BY <1>1, <1>2 DEF TouchInv, Touches!TypeOK
  <2> QED
    BY <1>2, <1>6, <2>1, <2>2 DEF TouchInv, Touches!TypeOK
<1>8. new.id = id /\ new.serial = serials + 1 /\ new.surface = touchFocus
  BY DEF new
<1>9. Touches!PointsAgree'
  <2> SUFFICES ASSUME NEW d \in touchDevices, active'[d]
               PROVE  /\ d \in touchFocused /\ down'[d] # {}
                      /\ \A p \in down'[d] : /\ p.id \in DOMAIN ids' /\ ids'[p.id] = p.serial
                                             /\ p.surface = touchFocus
    BY <1>2 DEF Touches!PointsAgree
  <2>1. d \in Touch
    BY DEF TouchInv, Touches!TypeOK
  <2>2. d \in touchFocused
    BY <1>5, <2>1 DEF TouchInv, Touches!PointsAgree
  <2>3. down'[d] # {} /\ \A p \in down'[d] : p = new \/ (active[d] /\ p \in down[d])
    BY <1>5, <2>1, <2>2
  <2> QED
    BY <1>3, <1>8, <2>2, <2>3 DEF TouchInv, Touches!PointsAgree
<1>10. Touches!IdsUnique'
  <2> SUFFICES ASSUME NEW d \in bound, NEW p \in down'[d], NEW q \in down'[d], p.id = q.id
               PROVE  p = q
    BY <1>2 DEF Touches!IdsUnique
  <2>1. d \in Touch /\ (d \in touchFocused => d \in touchDevices)
    BY DEF TouchInv, Touches!TypeOK
  <2>2. CASE d \in touchFocused
    <3>1. \A r \in down'[d] : r = new \/ (active[d] /\ r \in down[d])
      BY <1>5, <2>1, <2>2
    <3>2. \A r \in down[d] : active[d] => r.id \in DOMAIN ids
      BY <2>1, <2>2 DEF TouchInv, Touches!PointsAgree
    <3> QED
      BY <1>1, <1>8, <3>1, <3>2 DEF TouchInv, Touches!IdsUnique
  <2>3. CASE d \notin touchFocused
    BY <1>5, <2>1, <2>3 DEF TouchInv, Touches!IdsUnique
  <2> QED
    BY <2>2, <2>3
<1>11. \A i \in DOMAIN ids' : i < serials'
  BY <1>1, <1>2, <1>3 DEF TouchInv, Touches!TypeOK, Touches!Id
<1> QED
  BY <1>2, <1>3, <1>7, <1>9, <1>10, <1>11 DEF TouchInv

LEMMA TouchUps ==
  ASSUME TouchInv, NEW id \in Touches!Id, Touches!TouchUp(id)
  PROVE  TouchInv' /\ \A i \in DOMAIN ids : i # id => i \in DOMAIN ids' /\ ids'[i] = ids[i]
<1> DEFINE left(d) == {p \in down[d] : p.id # id}
<1>1. /\ id \in DOMAIN ids
      /\ touchDrag' \in {touchDrag, 0}
      /\ ids' = [i \in DOMAIN ids \ {id} |-> ids[i]]
      /\ touchFault' \in {touchFault, "unfocused_pointer"}
      /\ UNCHANGED <<hasTouch, hasPointer, pointerFocus, touchSurfaces, bound, touchDevices,
                     touchFocus, touchFocused, serials>>
  BY DEF Touches!TouchUp, Touches!DragAfterUp, Touches!Emulate, Touches!Restrict, Touches!seatVars
<1>2. /\ down' = [d \in Touch |-> IF d \in touchFocused THEN left(d) ELSE down[d]]
      /\ active' = [d \in Touch |-> active[d] /\ ~(/\ d \in touchFocused
                                                   /\ left(d) # down[d] /\ left(d) = {})]
  BY DEF Touches!TouchUp, Touches!ClientUp
<1>3. /\ DOMAIN ids' = DOMAIN ids \ {id} /\ \A i \in DOMAIN ids' : ids'[i] = ids[i]
      /\ ids' \in [DOMAIN ids' -> Int]
  <2>1. \A i \in DOMAIN ids : ids[i] \in Int
    BY DEF TouchInv
  <2> QED
    BY <1>1, <2>1
<1>4. Touches!TypeOK'
  <2>1. \A d \in Touch : down[d] \subseteq Touches!Point /\ left(d) \subseteq Touches!Point
    BY DEF TouchInv, Touches!TypeOK
  <2>2. down' \in [Touch -> SUBSET Touches!Point] /\ active' \in [Touch -> BOOLEAN]
    <3>1. \A d \in Touch : active[d] \in BOOLEAN
      BY DEF TouchInv, Touches!TypeOK
    <3>2. active' \in [Touch -> BOOLEAN]
      BY <1>2, <3>1
    <3> QED
      BY <1>2, <2>1, <3>2
  <2>3. touchDrag' \in 0 .. serials'
    BY <1>1 DEF TouchInv, Touches!TypeOK
  <2> QED
    BY <1>1, <1>3, <2>2, <2>3 DEF TouchInv, Touches!TypeOK
<1>5. Touches!PointsAgree'
  <2> SUFFICES ASSUME NEW d \in touchDevices, active'[d]
               PROVE  /\ d \in touchFocused /\ down'[d] # {}
                      /\ \A p \in down'[d] : /\ p.id \in DOMAIN ids' /\ ids'[p.id] = p.serial
                                             /\ p.surface = touchFocus
    BY <1>1 DEF Touches!PointsAgree
  <2>1. d \in Touch /\ active[d]
    BY <1>2 DEF TouchInv, Touches!TypeOK
  <2>2. /\ d \in touchFocused /\ down[d] # {}
        /\ \A p \in down[d] : /\ p.id \in DOMAIN ids /\ ids[p.id] = p.serial
                              /\ p.surface = touchFocus
    BY <2>1 DEF TouchInv, Touches!PointsAgree
  <2>3. down'[d] = left(d) /\ left(d) # {}
    BY <1>2, <2>1, <2>2
  <2> QED
    BY <1>3, <2>2, <2>3
<1>6. Touches!IdsUnique'
  <2>1. \A d \in bound : d \in Touch /\ down'[d] \subseteq down[d]
    BY <1>2 DEF TouchInv, Touches!TypeOK
  <2> QED
    BY <1>1, <2>1 DEF TouchInv, Touches!IdsUnique
<1>7. ~hasTouch' => ids' = Touches!NoIds
  BY <1>1 DEF TouchInv, Touches!NoIds
<1> QED
  BY <1>1, <1>3, <1>4, <1>5, <1>6, <1>7 DEF TouchInv

LEMMA TouchDrags ==
  ASSUME TouchInv,
         \/ Touches!CancelSequence
         \/ \E n \in 1 .. MaxTouch : Touches!StartDrag(n)
         \/ Touches!EndDrag
         \/ UNCHANGED Touches!vars
  PROVE  TouchInv'
<1>1. CASE Touches!CancelSequence
  <2>1. /\ active' = [d \in Touch |-> active[d] /\ d \notin touchFocused]
        /\ touchDrag' = 0 /\ ids' = Touches!NoIds
        /\ UNCHANGED <<hasTouch, hasPointer, pointerFocus, touchSurfaces, bound, touchDevices,
                       touchFocus, touchFocused, serials, down, touchFault>>
    BY <1>1 DEF Touches!CancelSequence, Touches!ClientCancel, Touches!seatVars
  <2>2. active' \in [Touch -> BOOLEAN] /\ touchDrag' \in 0 .. serials' /\ DOMAIN ids' = {}
    BY <2>1 DEF TouchInv, Touches!TypeOK, Touches!NoIds
  <2>3. Touches!TypeOK'
    BY <2>1, <2>2 DEF TouchInv, Touches!TypeOK
  <2>4. \A d \in touchDevices : ~active'[d]
    BY <2>1 DEF TouchInv, Touches!PointsAgree, Touches!TypeOK
  <2>5. ids' \in [DOMAIN ids' -> Int]
    BY <2>1 DEF Touches!NoIds
  <2> QED
    BY <2>1, <2>2, <2>3, <2>4, <2>5 DEF TouchInv, Touches!PointsAgree, Touches!IdsUnique
<1>2. ASSUME NEW n \in 1 .. MaxTouch, Touches!StartDrag(n) PROVE TouchInv'
  <2>1. /\ touchDrag' \in 0 .. serials
        /\ touchFault' \in {touchFault, "no_pointer_pool"}
    BY <1>2 DEF Touches!StartDrag, TouchInv, Touches!TypeOK
  <2> QED
    BY <1>2, <2>1 DEF Touches!StartDrag, Touches!poolVars, Touches!seatVars, Touches!clientVars,
       TouchInv, Touches!TypeOK, Touches!PointsAgree, Touches!IdsUnique
<1>3. CASE Touches!EndDrag
  <2>1. 0 \in 0 .. serials
    BY DEF TouchInv, Touches!TypeOK
  <2> QED
    BY <1>3, <2>1 DEF Touches!EndDrag, Touches!poolVars, Touches!seatVars, Touches!clientVars,
       TouchInv, Touches!TypeOK, Touches!PointsAgree, Touches!IdsUnique
<1>4. CASE UNCHANGED Touches!vars
  BY <1>4 DEF Touches!vars, Touches!poolVars, Touches!seatVars, Touches!clientVars,
     TouchInv, Touches!TypeOK, Touches!PointsAgree, Touches!IdsUnique
<1> QED
  BY <1>1, <1>2, <1>3, <1>4

LEMMA TouchNext ==
  ASSUME Touches!Assumptions, TouchInv, [Touches!Next]_(Touches!vars)
  PROVE  TouchInv'
  BY TouchDevices, TouchSurfaces, TouchDowns, TouchUps, TouchDrags DEF Touches!Next

(* A touch sequence that a client takes for going on has points, which the *)
(* seat counts under the same ids and serials, and no id twice             *)
(* (touch_pool.cpp:67-91, client/touch.cpp).                               *)
THEOREM PointsAgreeCorrect ==
  ASSUME Touches!Assumptions
  PROVE  Touches!Spec => []PointsAgree
<1>1. Touches!Init => TouchInv
  BY TouchInit
<1>2. TouchInv /\ [Touches!Next]_(Touches!vars) => TouchInv'
  BY TouchNext
<1>3. TouchInv => PointsAgree
  BY DEF TouchInv, PointsAgree
<1> QED
  BY <1>1, <1>2, <1>3, PTL DEF Touches!Spec

(* A touch drag whose point is down ends with it, however points are put   *)
(* down and lifted and sequences cancelled (touch_pool.cpp:124, 187).      *)
THEOREM DragHeldCorrect ==
  ASSUME Touches!Assumptions
  PROVE  Touches!Spec => DragHeld
<1>1. Touches!Init => TouchInv
  BY TouchInit
<1>2. TouchInv /\ [Touches!Next]_(Touches!vars) => TouchInv'
  BY TouchNext
<1>3. TouchInv /\ [Touches!Next]_(Touches!vars)
        => [Touches!Held /\ hasTouch' => Touches!Held']_(Touches!vars)
  <2> SUFFICES ASSUME TouchInv, Touches!Next, Touches!Held, hasTouch' PROVE Touches!Held'
    OBVIOUS
  <2>1. ASSUME UNCHANGED <<touchDrag, ids>> PROVE Touches!Held'
    BY <2>1 DEF Touches!Held
  <2>2. ASSUME touchDrag' = 0 PROVE Touches!Held'
    BY <2>2 DEF Touches!Held
  <2>3. CASE Touches!SetHasTouch
    <3>1. touchDrag = 0 /\ touchDrag' = touchDrag
      BY <2>3 DEF Touches!SetHasTouch, TouchInv, Touches!NoIds, Touches!Held
    <3> QED
      BY <2>2, <3>1
  <2>4. CASE Touches!TouchDown
    <3>1. touchDrag' = touchDrag
      BY <2>4 DEF Touches!TouchDown
    <3> QED
      BY <2>4, <3>1, TouchDowns DEF Touches!Held
  <2>5. ASSUME NEW id \in Touches!Id, Touches!TouchUp(id) PROVE Touches!Held'
    <3>1. touchDrag' = IF touchDrag = ids[id] THEN 0 ELSE touchDrag
      BY <2>5 DEF Touches!TouchUp, Touches!DragAfterUp
    <3> QED
      BY <2>5, <3>1, TouchUps DEF Touches!Held
  <2>6. ASSUME NEW n \in 1 .. MaxTouch, Touches!StartDrag(n) PROVE Touches!Held'
    BY <2>6 DEF Touches!StartDrag, Touches!poolVars, Touches!Held
  <2>7. CASE Touches!CancelSequence \/ Touches!EndDrag
    BY <2>2, <2>7 DEF Touches!CancelSequence, Touches!EndDrag
  <2>8. /\ \A d : Touches!CreateDevice(d) \/ Touches!DestroyDevice(d)
               => UNCHANGED <<touchDrag, ids>>
        /\ \A s : \/ Touches!SetFocusedSurface(s) \/ Touches!SetPointerFocus(s)
                 \/ Touches!DestroySurface(s)
               => UNCHANGED <<touchDrag, ids>>
    BY DEF Touches!CreateDevice, Touches!DestroyDevice, Touches!SetFocusedSurface,
           Touches!SetPointerFocus, Touches!DestroySurface, Touches!poolVars
  <2> QED
    BY <2>1, <2>3, <2>4, <2>5, <2>6, <2>7, <2>8 DEF Touches!Next
<1> QED
  BY <1>1, <1>2, <1>3, PTL DEF Touches!Spec, DragHeld, Touches!DragHeld
=============================================================================
