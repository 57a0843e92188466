------------------------------ MODULE TextInput ------------------------------
(***************************************************************************)
(* Text input of a seat: the text_input_pool (server/text_input_pool.cpp), *)
(* the text inputs of version 2 and 3, and the input method                *)
(* (server/input_method_v2.cpp) that types into the focused ones.          *)
(*                                                                         *)
(* Of what a text input commits, only whether it is enabled and whether    *)
(* there is anything else to tell (surrounding text, content type) is      *)
(* kept; of what the input method commits, only the commit string.  Every  *)
(* commit_string request has a number of its own, so that its deliveries   *)
(* can be counted.  Popups and keyboard grabs are left out.                *)
(***************************************************************************)
EXTENDS Naturals, Sequences, SequencesExt

CONSTANTS
  Surface,    \* wl_surface objects, present from the start
  TextInput2, \* names of zwp_text_input_v2 objects
  TextInput3, \* names of zwp_text_input_v3 objects
  ClientOf,   \* the client of each of these
  Text,       \* commit strings, told apart by content
  Empty,      \* the empty string
  MaxTexts,   \* bound of commit_string requests
  None        \* the null pointer

(* What is assumed of the constants.                                       *)
Assumptions ==
  /\ None \notin Surface \cup TextInput2 \cup TextInput3
  /\ Surface \cup TextInput2 \cup TextInput3 \subseteq DOMAIN ClientOf
  /\ TextInput2 \cap TextInput3 = {}
  /\ MaxTexts \in Nat /\ Empty \notin Text

TextInput == TextInput2 \cup TextInput3

VARIABLES
  surfaces,     \* the surfaces that exist
  keyFocus,     \* keyboard_pool::focus.surface
  focus,        \* text_input_pool::focus.surface
  v2Devices,    \* text_input_pool::v2_devices
  v3Devices,    \* text_input_pool::v3_devices
  v2, v3,       \* the text inputs that have the focus
  entered,      \* client: the surface each text input entered and did not leave
  pendingOn,    \* pending.enabled of each text input of version 3
  on,           \* current.enabled of these, state.enabled of version 2
  hasMethod,    \* whether the seat has an input method
  active,       \* whether it was last told to activate
  stale,        \* whether it has a done event to read
  pending,      \* its pending commit string
  current,      \* its current commit string
  requests,     \* commit_string requests so far
  typed,        \* typed[t][n]: how often request n was delivered to t
  refused       \* whether a commit was refused for its serial

focusVars == <<keyFocus, focus, v2, v3, entered>>
stateVars == <<pendingOn, on>>
methodVars == <<hasMethod, active, stale, pending, current, requests, refused>>
vars == <<surfaces, v2Devices, v3Devices, focusVars, stateVars, methodVars, typed>>

Unset == [text |-> Empty, number |-> 0, update |-> FALSE]

TypeOK ==
  LET String == [text : Text \cup {Empty}, number : 0 .. MaxTexts, update : BOOLEAN]
  IN  /\ surfaces \subseteq Surface /\ {keyFocus, focus} \subseteq Surface \cup {None}
      /\ ToSet(v2Devices) \subseteq TextInput2 /\ ToSet(v3Devices) \subseteq TextInput3
      /\ v2 \in TextInput2 \cup {None} /\ v3 \in TextInput3 \cup {None}
      /\ entered \in [TextInput -> Surface \cup {None}]
      /\ pendingOn \in [TextInput3 -> BOOLEAN] /\ on \in [TextInput -> BOOLEAN]
      /\ {hasMethod, active, stale, refused} \subseteq BOOLEAN
      /\ pending \in String /\ current \in String /\ requests \in 0 .. MaxTexts
      /\ typed \in [TextInput -> [1 .. MaxTexts -> 0 .. 2]]

Init ==
  /\ surfaces = Surface /\ keyFocus = None /\ focus = None
  /\ v2Devices = <<>> /\ v3Devices = <<>> /\ v2 = None /\ v3 = None
  /\ entered = [t \in TextInput |-> None]
  /\ pendingOn = [t \in TextInput3 |-> FALSE] /\ on = [t \in TextInput |-> FALSE]
  /\ hasMethod = FALSE /\ active = FALSE /\ stale = FALSE
  /\ pending = Unset /\ current = Unset /\ requests = 0 /\ refused = FALSE
  /\ typed = [t \in TextInput |-> [n \in 1 .. MaxTexts |-> 0]]

-----------------------------------------------------------------------------
(* text_input_pool::register_device: the first one of the focused client   *)
(* takes the focus.                                                        *)
CreateV2(t) ==
  LET takes == focus # None /\ ClientOf[t] = ClientOf[focus] /\ v2 = None
  IN  /\ ~Contains(v2Devices, t)
      /\ v2Devices' = Append(v2Devices, t)
      /\ v2' = IF takes THEN t ELSE v2
      /\ entered' = [entered EXCEPT ![t] = IF takes THEN focus ELSE None]
      /\ UNCHANGED <<surfaces, keyFocus, focus, v3Devices, v3, stateVars, methodVars, typed>>

CreateV3(t) ==
  LET takes == focus # None /\ ClientOf[t] = ClientOf[focus] /\ v3 = None
  IN  /\ ~Contains(v3Devices, t)
      /\ v3Devices' = Append(v3Devices, t)
      /\ v3' = IF takes THEN t ELSE v3
      /\ entered' = [entered EXCEPT ![t] = IF takes THEN focus ELSE None]
      /\ UNCHANGED <<surfaces, keyFocus, focus, v2Devices, v2, stateVars, methodVars, typed>>

KeepPointer(v, t) == v \* mutated form of Forget
Forget(v, t) == IF v = t THEN None ELSE v

Destroy(t) ==
  /\ Contains(v2Devices \o v3Devices, t)
  /\ v2Devices' = RemoveFirst(v2Devices, t) /\ v3Devices' = RemoveFirst(v3Devices, t)
  /\ v2' = Forget(v2, t) /\ v3' = Forget(v3, t)
  /\ entered' = [entered EXCEPT ![t] = None]
  /\ on' = [on EXCEPT ![t] = FALSE]
  /\ pendingOn' = [u \in TextInput3 |-> u # t /\ pendingOn[u]]
  /\ UNCHANGED <<surfaces, keyFocus, focus, methodVars, typed>>

-----------------------------------------------------------------------------
(* interfaceForSurface *)
FirstOf(s, devices) ==
  LET first == SelectInSeq(devices, LAMBDA t : s # None /\ ClientOf[t] = ClientOf[s])
  IN  IF first = 0 THEN None ELSE devices[first]

(* text_input_pool::set_focused_surface, version 3 first                   *)
MoveFocus(s) ==
  /\ focus' = s
  /\ v3' = FirstOf(s, v3Devices)
  /\ v2' = IF v3' = None THEN FirstOf(s, v2Devices) ELSE None
  /\ entered' = [t \in TextInput |->
                   IF t \in {v2', v3'} THEN s ELSE IF t \in {v2, v3} THEN None ELSE entered[t]]
  /\ on' = [t \in TextInput |-> t # v3 /\ on[t]]
  /\ pendingOn' = [t \in TextInput3 |-> t # v3 /\ pendingOn[t]]

(* Seat::setFocusedKeyboardSurface returns early for the focused surface.  *)
SetFocusedKeyboardSurface(s) ==
  /\ s # keyFocus
  /\ keyFocus' = s
  /\ MoveFocus(s)
  /\ UNCHANGED <<surfaces, v2Devices, v3Devices, methodVars, typed>>

DestroySurface(s) ==
  /\ surfaces' = surfaces \ {s}
  /\ keyFocus' = IF keyFocus = s THEN None ELSE keyFocus
  /\ IF focus = s THEN MoveFocus(None) ELSE UNCHANGED <<focus, v2, v3, entered, stateVars>>
  /\ UNCHANGED <<v2Devices, v3Devices, methodVars, typed>>

(* The keyboard capability goes and comes back.                            *)
RemoveKeyboard ==
  /\ keyFocus # None
  /\ keyFocus' = None
  /\ UNCHANGED <<surfaces, v2Devices, v3Devices, focus, v2, v3, entered, stateVars, methodVars, typed>>

-----------------------------------------------------------------------------
(* sync_to_input_method_v2: activating resets the strings of the method.   *)
Tell(was, is, more) ==
  LET tells == hasMethod /\ (was # is \/ more)
      activates == hasMethod /\ is /\ ~was
  IN  /\ active' = IF hasMethod /\ was # is THEN is ELSE active
      /\ stale' = (stale \/ tells)
      /\ pending' = IF activates THEN Unset ELSE pending
      /\ current' = IF activates THEN Unset ELSE current
      /\ UNCHANGED <<hasMethod, requests, refused>>

(* enable and disable requests of version 3                                *)
SetEnabled(t, b) ==
  /\ Contains(v3Devices, t)
  /\ pendingOn' = [pendingOn EXCEPT ![t] = b]
  /\ UNCHANGED <<surfaces, v2Devices, v3Devices, focusVars, on, methodVars, typed>>

Commit(t, more) ==
  /\ Contains(v3Devices, t)
  /\ on' = [on EXCEPT ![t] = pendingOn[t]]
  /\ IF v3 = t THEN Tell(on[t], pendingOn[t], more) ELSE UNCHANGED methodVars
  /\ UNCHANGED <<surfaces, v2Devices, v3Devices, focusVars, pendingOn, typed>>

(* enable and disable of version 2 take effect at once.                    *)
SetEnabledV2(t, b) ==
  /\ Contains(v2Devices, t) /\ on[t] # b
  /\ on' = [on EXCEPT ![t] = b]
  /\ IF v2 = t THEN Tell(~b, b, FALSE) ELSE UNCHANGED methodVars
  /\ UNCHANGED <<surfaces, v2Devices, v3Devices, focusVars, pendingOn, typed>>

(* set_surrounding_text and set_content_type of version 2, of something    *)
(* else than before, are passed on at once too.                            *)
SetContentV2(t) ==
  /\ Contains(v2Devices, t) /\ v2 = t
  /\ Tell(on[t], on[t], TRUE)
  /\ UNCHANGED <<surfaces, v2Devices, v3Devices, focusVars, stateVars, typed>>

-----------------------------------------------------------------------------
(* A second input method is unavailable.                                   *)
CreateInputMethod ==
  /\ ~hasMethod
  /\ hasMethod' = TRUE /\ active' = FALSE /\ stale' = FALSE
  /\ pending' = Unset /\ current' = Unset
  /\ UNCHANGED <<surfaces, v2Devices, v3Devices, focusVars, stateVars, requests, refused, typed>>

DestroyInputMethod ==
  /\ hasMethod
  /\ hasMethod' = FALSE /\ active' = FALSE /\ stale' = FALSE
  /\ pending' = Unset /\ current' = Unset
  /\ UNCHANGED <<surfaces, v2Devices, v3Devices, focusVars, stateVars, requests, refused, typed>>

ReadDone ==
  /\ stale
  /\ stale' = FALSE
  /\ UNCHANGED <<surfaces, v2Devices, v3Devices, focusVars, stateVars, hasMethod, active,
                 pending, current, requests, refused, typed>>

CommitString(text) ==
  /\ hasMethod /\ requests < MaxTexts
  /\ requests' = requests + 1
  /\ pending' = [text |-> text, number |-> requests', update |-> TRUE]
  /\ UNCHANGED <<surfaces, v2Devices, v3Devices, focusVars, stateVars, hasMethod, active,
                 stale, current, refused, typed>>

(* What sync_to_text_input sends the string to: version 3 goes by the      *)
(* update flag, version 2 compares the text.                               *)
Receivers ==
  (IF pending.update THEN {v3} ELSE {}) \cup
  (IF pending.text # current.text THEN {v2} ELSE {})

KeepFlag(string) == string \* mutated form of Sent
Sent(string) == [string EXCEPT !.update = FALSE]

(* input_method_v2's commit: one that has not seen the last done is        *)
(* refused, and pending becomes current.                                   *)
CommitMethod ==
  /\ hasMethod
  /\ IF stale
       THEN pending' = current /\ refused' = TRUE /\ UNCHANGED <<current, typed>>
       ELSE /\ typed' = [t \in TextInput |->
                           IF t \in Receivers /\ pending.number > 0 /\ typed[t][pending.number] < 2
                             THEN [typed[t] EXCEPT ![pending.number] = @ + 1] ELSE typed[t]]
            /\ current' = pending
            /\ pending' = Sent(pending)
            /\ UNCHANGED refused
  /\ UNCHANGED <<surfaces, v2Devices, v3Devices, focusVars, stateVars, hasMethod, active,
                 stale, requests>>

Next ==
  \/ \E t \in TextInput2 : CreateV2(t) \/ SetContentV2(t) \/ (\E b \in BOOLEAN : SetEnabledV2(t, b))
  \/ \E t \in TextInput3 : CreateV3(t) \/ (\E b \in BOOLEAN : SetEnabled(t, b) \/ Commit(t, b))
  \/ \E t \in TextInput : Destroy(t)
  \/ \E s \in surfaces \cup {None} : SetFocusedKeyboardSurface(s)
  \/ \E s \in surfaces : DestroySurface(s)
  \/ RemoveKeyboard
  \/ CreateInputMethod \/ DestroyInputMethod \/ ReadDone \/ CommitMethod
  \/ \E text \in Text : CommitString(text)

Spec == Init /\ [][Next]_vars

-----------------------------------------------------------------------------
(* The text inputs with the focus exist, belong to the client of a surface *)
(* that exists, and know it; no others believe they have it; and while     *)
(* there is a keyboard focus it is the same surface                        *)
(* (text_input_pool.cpp:21-120, seat.cpp:262).                             *)
TextFocusAgrees ==
  /\ keyFocus # None => focus = keyFocus
  /\ focus \in surfaces \cup {None}
  /\ \A t \in ToSet(v2Devices) \cup ToSet(v3Devices) :
       entered[t] = IF t \in {v2, v3} THEN focus ELSE None
  /\ {v2, v3} \subseteq ToSet(v2Devices) \cup ToSet(v3Devices) \cup {None}
  /\ \A t \in {v2, v3} \ {None} : focus # None /\ ClientOf[t] = ClientOf[focus]

(* Text is typed once, whatever the focus and the input method do between  *)
(* two commits, as long as no commit was refused                           *)
(* (input_method_v2.cpp:109-130).                                           *)
TypedOnce ==
  ~refused => \A t \in TextInput, n \in 1 .. MaxTexts : typed[t][n] <= 1

(* And when a commit was refused: it is there to be ignored, "Reset        *)
(* pending to current state and wait for next commit."                     *)
(* (input_method_v2.cpp:117).                                              *)
TextOnce == \A t \in TextInput, n \in 1 .. MaxTexts : typed[t][n] <= 1

(* An input method is active when the focused text input is enabled.       *)
ActivatedWhenEnabled ==
  hasMethod /\ v3 # None => (on[v3] => active)

(* And only then.                                                          *)
ActiveMeansEnabled == active => \E t \in {v2, v3} \ {None} : on[t]

(* Text is typed into text inputs that are enabled.                        *)
TypesIntoEnabled ==
  [][\A t \in TextInput : typed'[t] # typed[t] => on[t]]_vars

(* "Focused text input surface follows keyboard." (seat.cpp:262)           *)
FollowsKeyboard == focus = keyFocus
=============================================================================
