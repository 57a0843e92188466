----------------------------- MODULE KeyboardPool -----------------------------
(***************************************************************************)
(* Keyboard input of a seat: the keyboard_pool (server/keyboard_pool.cpp), *)
(* the Keyboard objects (server/keyboard.cpp), and what their clients know *)
(* from the events: the keys that are down, the modifiers and the keymap.  *)
(* Events arrive in order and the client answers none, so that a step      *)
(* sends and delivers them.  Repeat rates are left out.                    *)
(***************************************************************************)
EXTENDS FiniteSets

CONSTANTS
  Surface,    \* names of wl_surface objects
  Keyboard,   \* names of wl_keyboard objects
  ClientOf,   \* the client of each of these
  Key,
  Modifiers,  \* values of keyboard_modifiers
  NoModifiers,
  Keymap,     \* keymaps, told apart by their pointers
  None        \* the null pointer

(* What is assumed of the constants.                                       *)
Assumptions ==
  /\ None \notin Surface \cup Keymap
  /\ Surface \cup Keyboard \subseteq DOMAIN ClientOf
  /\ NoModifiers \in Modifiers

VARIABLES
  hasPool,      \* whether seat.keyboards holds a pool
  surfaces,     \* the surfaces that exist
  keyboards,    \* the Keyboards that exist
  devices,      \* keyboard_pool::devices
  focus,        \* keyboard_pool::focus.surface
  focusDevices, \* keyboard_pool::focus.devices
  pressed,      \* keys whose state in states is pressed
  modifiers,    \* keyboard_pool::modifiers
  keymap,       \* keyboard_pool::keymap
  focused,      \* focused[k]: Keyboard::Private::focusedSurface
  outdated,     \* keyboards with needs_keymap_update
  keys,         \* client: keys[k], those down since the last enter
  mods,         \* client: the last modifiers of each keyboard
  map           \* client: the last keymap of each keyboard

poolVars == <<hasPool, devices, focus, focusDevices>>
stateVars == <<pressed, modifiers, keymap>>
clientVars == <<keys, mods, map>>
vars == <<poolVars, surfaces, keyboards, stateVars, focused, outdated, clientVars>>

TypeOK ==
  /\ hasPool \in BOOLEAN
  /\ surfaces \subseteq Surface /\ keyboards \subseteq Keyboard
  /\ devices \subseteq Keyboard /\ focusDevices \subseteq Keyboard
  /\ focus \in Surface \cup {None}
  /\ pressed \subseteq Key /\ modifiers \in Modifiers /\ keymap \in Keymap \cup {None}
  /\ focused \in [Keyboard -> Surface \cup {None}]
  /\ outdated \subseteq Keyboard
  /\ keys \in [Keyboard -> SUBSET Key] /\ mods \in [Keyboard -> Modifiers]
  /\ map \in [Keyboard -> Keymap \cup {None}]

Init ==
  /\ hasPool = TRUE /\ devices = {} /\ focus = None /\ focusDevices = {}
  /\ surfaces = Surface /\ keyboards = {}
  /\ pressed = {} /\ modifiers = NoModifiers /\ keymap = None
  /\ focused = [k \in Keyboard |-> None]
  /\ outdated = {}
  /\ keys = [k \in Keyboard |-> {}]
  /\ mods = [k \in Keyboard |-> NoModifiers]
  /\ map = [k \in Keyboard |-> None]

DevicesOf(s, among) ==
  IF s = None THEN {} ELSE {k \in among : ClientOf[k] = ClientOf[s]}

-----------------------------------------------------------------------------
(* Keyboard::setKeymap on a set of keyboards.                              *)
SendKeymap(ks, m) == map' = [k \in Keyboard |-> IF k \in ks THEN m ELSE map[k]]

(* Keyboard::setFocusedSurface: those of `from' are sent a leave, those of *)
(* `to' an enter with the keys that are down, and the modifiers.           *)
MoveFocus(from, to, s) ==
  /\ focused' = [k \in Keyboard |-> IF k \in to THEN s ELSE IF k \in from THEN None ELSE focused[k]]
  /\ keys' = [k \in Keyboard |-> IF k \in to THEN pressed ELSE IF k \in from THEN {} ELSE keys[k]]
  /\ mods' = [k \in Keyboard |-> IF k \in to THEN modifiers ELSE mods[k]]

(* wl_seat.get_keyboard *)
CreateDevice(k) ==
  LET joins == DevicesOf(focus, {k})
      sends == IF keymap = None THEN {} ELSE joins
  IN  /\ hasPool /\ k \notin keyboards
      /\ keyboards' = keyboards \cup {k} /\ devices' = devices \cup {k}
      /\ focusDevices' = focusDevices \cup joins
      /\ outdated' = (outdated \cup {k}) \ sends
      /\ map' = [map EXCEPT ![k] = IF sends = {} THEN None ELSE keymap]
      /\ MoveFocus({k}, joins, focus)
      /\ UNCHANGED <<hasPool, surfaces, focus, stateVars>>

DestroyDevice(k) ==
  /\ k \in keyboards
  /\ keyboards' = keyboards \ {k} /\ devices' = devices \ {k}
  /\ focusDevices' = focusDevices \ {k}
  /\ outdated' = outdated \ {k}
  /\ MoveFocus({k}, {}, None)
  /\ UNCHANGED <<hasPool, surfaces, focus, stateVars, map>>

(* Seat::setHasKeyboard: the pool goes with all it knows, or a new one     *)
(* comes; the Keyboards stay as they are.                                  *)
SetHasKeyboard ==
  /\ hasPool' = ~hasPool
  /\ devices' = {} /\ focus' = None /\ focusDevices' = {}
  /\ pressed' = {} /\ modifiers' = NoModifiers /\ keymap' = None
  /\ UNCHANGED <<surfaces, keyboards, focused, outdated, clientVars>>

-----------------------------------------------------------------------------
(* Seat::setFocusedKeyboardSurface returns early for the focused surface.  *)
SetFocusedSurface(s) ==
  LET to == DevicesOf(s, devices)
      sends == IF keymap = None THEN {} ELSE to \cap outdated
  IN  /\ hasPool /\ s # focus
      /\ focus' = s /\ focusDevices' = to
      /\ SendKeymap(sends, keymap)
      /\ outdated' = outdated \ sends
      /\ MoveFocus(focusDevices, to, s)
      /\ UNCHANGED <<hasPool, devices, surfaces, keyboards, stateVars>>

(* The slots of the pool and of each Keyboard on the surface.              *)
DestroySurface(s) ==
  /\ surfaces' = surfaces \ {s}
  /\ focus' = IF focus = s THEN None ELSE focus
  /\ focusDevices' = IF focus = s THEN {} ELSE focusDevices
  /\ MoveFocus({k \in Keyboard : focused[k] = s}, {}, None)
  /\ UNCHANGED <<hasPool, devices, keyboards, stateVars, outdated, map>>

(* keyboard_pool::key drops a state the key is in already.                 *)
Press(key) ==
  /\ hasPool /\ key \notin pressed
  /\ pressed' = pressed \cup {key}
  /\ keys' = [k \in Keyboard |-> IF k \in focusDevices THEN keys[k] \cup {key} ELSE keys[k]]
  /\ UNCHANGED <<poolVars, surfaces, keyboards, modifiers, keymap, focused, outdated, mods, map>>

Release(key) ==
  /\ hasPool /\ key \in pressed
  /\ pressed' = pressed \ {key}
  /\ keys' = [k \in Keyboard |-> IF k \in focusDevices THEN keys[k] \ {key} ELSE keys[k]]
  /\ UNCHANGED <<poolVars, surfaces, keyboards, modifiers, keymap, focused, outdated, mods, map>>

UpdateModifiers(m) ==
  /\ hasPool /\ m # modifiers
  /\ modifiers' = m
  /\ mods' = [k \in Keyboard |-> IF k \in focusDevices THEN m ELSE mods[k]]
  /\ UNCHANGED <<poolVars, surfaces, keyboards, pressed, keymap, focused, outdated, keys, map>>

FlagFocused == outdated \cup focusDevices  \* mutated form of Flagged
Flagged == outdated \cup devices

SetKeymap(m) ==
  LET sends == IF m = None THEN {} ELSE focusDevices
  IN  /\ hasPool /\ m # keymap
      /\ keymap' = m
      /\ SendKeymap(sends, m)
      /\ outdated' = Flagged \ sends
      /\ UNCHANGED <<poolVars, surfaces, keyboards, pressed, modifiers, focused, keys, mods>>

Next ==
  \/ \E k \in Keyboard : CreateDevice(k) \/ DestroyDevice(k)
  \/ SetHasKeyboard
  \/ \E s \in surfaces \cup {None} : SetFocusedSurface(s)
  \/ \E s \in surfaces : DestroySurface(s)
  \/ \E key \in Key : Press(key) \/ Release(key)
  \/ \E m \in Modifiers : UpdateModifiers(m)
  \/ \E m \in Keymap \cup {None} : SetKeymap(m)

Spec == Init /\ [][Next]_vars

-----------------------------------------------------------------------------
(* What the client of the focused surface knows is what the seat knows:    *)
(* keys pressed and released while it had no focus or no wl_keyboard,      *)
(* modifiers and keymaps set meanwhile; and no other client is left with a *)
(* key down (keyboard_pool.cpp:46-166, keyboard.cpp:110-130).              *)
KeyboardsAgree ==
  /\ focusDevices = DevicesOf(focus, devices)
  /\ \A k \in focusDevices :
       /\ focused[k] = focus
       /\ keys[k] = pressed /\ mods[k] = modifiers
       /\ keymap # None => map[k] = keymap
  /\ \A k \in devices \ focusDevices : focused[k] = None /\ keys[k] = {}

(* A keyboard that outlives the seat's capability is not stuck with keys:  *)
(* a client that is focused by no pool has no key down.                    *)
NoStuckKeys == \A k \in keyboards \ devices : keys[k] = {}
=============================================================================
