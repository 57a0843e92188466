------------------------------ MODULE Selection ------------------------------
(***************************************************************************)
(* The selection of a seat: selection_pool.h with the set_selection of     *)
(* data devices (selection_p.h), which primary selection devices share,    *)
(* and data control devices (data_control_v1.cpp), which need no focus.    *)
(* The keyboard focus decides whose selection counts and who is told; it   *)
(* is here as far as Seat::setFocusedKeyboardSurface and the slots of the  *)
(* keyboard_pool move it.                                                  *)
(*                                                                         *)
(* A client forgets the selection when it loses the keyboard focus, as the *)
(* protocol demands; told is what it goes by.                              *)
(***************************************************************************)
EXTENDS FiniteSets

CONSTANTS
  Surface,    \* wl_surface objects, present from the start
  Source,     \* sources, present from the start
  Device,     \* names of data devices
  Control,    \* names of data control devices
  ClientOf,   \* the client of each of these
  None        \* the null pointer

(* What is assumed of the constants.                                       *)
Assumptions ==
  /\ None \notin Surface \cup Source
  /\ Device \cap Control = {}
  /\ Surface \cup Source \cup Device \cup Control \subseteq DOMAIN ClientOf

VARIABLES
  surfaces, sources, devices, controls,  \* objects that exist
  keyFocus,     \* keyboard_pool::focus.surface
  focusDevices, \* selection_pool::focus.devices
  selection,    \* selection_pool::focus.source
  own,          \* own[d]: the selection of a data device or data control device
  used,         \* sources of data control devices that were used
  told,         \* the last selection sent to each device and not forgotten
  cancelled,    \* sources that were sent cancelled
  lost          \* the focus was lost with its surface, and focus.devices kept

objects == <<surfaces, sources, devices, controls>>
focusVars == <<keyFocus, focusDevices, lost>>
sourceVars == <<selection, own, used, told, cancelled>>
vars == <<objects, focusVars, sourceVars>>

AnyDevice == Device \cup Control

TypeOK ==
  /\ surfaces \subseteq Surface /\ sources \subseteq Source
  /\ devices \subseteq Device /\ controls \subseteq Control
  /\ keyFocus \in Surface \cup {None} /\ focusDevices \subseteq Device
  /\ selection \in Source \cup {None}
  /\ own \in [AnyDevice -> Source \cup {None}] /\ told \in [AnyDevice -> Source \cup {None}]
  /\ used \subseteq Source /\ cancelled \subseteq Source
  /\ lost \in BOOLEAN

Init ==
  /\ surfaces = Surface /\ sources = Source /\ devices = {} /\ controls = {}
  /\ keyFocus = None /\ focusDevices = {} /\ lost = FALSE
  /\ selection = None
  /\ own = [d \in AnyDevice |-> None] /\ told = [d \in AnyDevice |-> None]
  /\ used = {} /\ cancelled = {}

(* has_keyboard_focus *)
HasFocus(d) == keyFocus # None /\ ClientOf[keyFocus] = ClientOf[d]

DevicesOf(client) == {d \in devices : ClientOf[d] = client}

(* Sources a client may use: its own, of the right interface; a cancelled  *)
(* one is of no use to it.                                                 *)
Usable(s, d) ==
  s = None \/ (s \in sources \ cancelled /\ ClientOf[s] = ClientOf[d])

-----------------------------------------------------------------------------
(* selection_pool::transmit, and the slot of data control devices on       *)
(* selectionChanged, which leaves out the one that set the source.         *)
Transmitted(s, owned) ==
  [d \in AnyDevice |->
     IF d \in focusDevices \/ (d \in controls /\ (s = None \/ s # owned[d])) THEN s ELSE told[d]]

(* A device holds another source of its own, which may be null, and the    *)
(* pool takes s for its selection, if it does.                             *)
Takes(owned, takes, s, alsoCancelled) ==
  LET replaces == takes /\ s # selection
      before == IF replaces THEN {selection} ELSE {}
  IN  /\ own' = owned
      /\ selection' = IF replaces THEN s ELSE selection
      /\ told' = IF replaces THEN Transmitted(s, owned) ELSE told
      /\ cancelled' = cancelled \cup ((before \cup alsoCancelled) \ {None})

(* set_selection of a data device                                          *)
SetSelection(d, s) ==
  /\ d \in devices /\ Usable(s, d) /\ s \notin used
  /\ own[d] # s
  /\ Takes([own EXCEPT ![d] = s], HasFocus(d), s, {own[d]})
  /\ UNCHANGED <<objects, focusVars, used>>

(* set_selection of a data control device: a source is used once.          *)
SetControlSelection(c, s) ==
  /\ c \in controls /\ Usable(s, c) /\ s \notin used
  /\ \A d \in Device : own[d] # s \/ s = None
  /\ used' = used \cup ({s} \ {None})
  /\ Takes([own EXCEPT ![c] = s], TRUE, s, {own[c]})
  /\ UNCHANGED <<objects, focusVars>>

(* Seat::setSelection, by the compositor                                   *)
SeatSetSelection(s) ==
  /\ s \in (sources \ cancelled) \cup {None}
  /\ Takes(own, TRUE, s, {})
  /\ UNCHANGED <<objects, focusVars, used>>

(* The slot of the pool runs first, then those of the devices that hold    *)
(* the source: a focused one makes the pool take its null selection.       *)
IgnoresDestroyed(s) == FALSE \* mutated form of Clears
Clears(s) == selection = s

DestroySource(s) ==
  LET owned == [d \in AnyDevice |-> IF own[d] = s THEN None ELSE own[d]]
      drops == \E d \in devices : own[d] = s /\ HasFocus(d)
  IN  /\ s \in sources
      /\ sources' = sources \ {s}
      /\ own' = owned
      /\ IF Clears(s) \/ drops
           THEN selection' = None /\ told' = Transmitted(None, owned)
           ELSE UNCHANGED <<selection, told>>
      /\ cancelled' = IF drops THEN cancelled \cup ({selection} \ {s, None}) ELSE cancelled
      /\ UNCHANGED <<surfaces, devices, controls, focusVars, used>>

-----------------------------------------------------------------------------
(* selection_pool::register_device                                         *)
CreateDevice(d) ==
  /\ d \in Device \ devices
  /\ devices' = devices \cup {d}
  /\ focusDevices' = IF HasFocus(d) THEN focusDevices \cup {d} ELSE focusDevices
  /\ told' = [told EXCEPT ![d] = IF HasFocus(d) THEN selection ELSE None]
  /\ UNCHANGED <<surfaces, sources, controls, keyFocus, lost, selection, own, used, cancelled>>

(* data_control_manager_v1::get_device                                     *)
CreateControl(c) ==
  /\ c \in Control \ controls
  /\ controls' = controls \cup {c}
  /\ told' = [told EXCEPT ![c] = selection]
  /\ UNCHANGED <<surfaces, sources, devices, focusVars, selection, own, used, cancelled>>

DestroyDevice(d) ==
  /\ d \in devices \cup controls
  /\ devices' = devices \ {d} /\ controls' = controls \ {d}
  /\ focusDevices' = focusDevices \ {d}
  /\ own' = [own EXCEPT ![d] = None] /\ told' = [told EXCEPT ![d] = None]
  /\ UNCHANGED <<surfaces, sources, keyFocus, lost, selection, used, cancelled>>

-----------------------------------------------------------------------------
(* Clients other than the focused one forget the selection.                *)
Forgotten(table, s) ==
  [d \in AnyDevice |->
     IF d \in Device /\ (s = None \/ ClientOf[d] # ClientOf[s]) THEN None ELSE table[d]]

AnyFocused(s) == focusDevices # {} \* mutated form of SameClient
SameClient(s) ==
  \E d \in focusDevices : ClientOf[d] = ClientOf[s]

(* Seat::setFocusedKeyboardSurface and selection_pool::set_focused_surface *)
SetFocusedSurface(s) ==
  LET to == DevicesOf(ClientOf[s])
      keeps == s # None /\ SameClient(s)
      sent == [d \in AnyDevice |-> IF d \in to /\ selection # None THEN selection ELSE told[d]]
  IN  /\ s # keyFocus
      /\ keyFocus' = s
      /\ focusDevices' = IF s = None THEN {} ELSE IF keeps THEN focusDevices ELSE to
      /\ told' = Forgotten(IF s = None \/ keeps THEN told ELSE sent, s)
      /\ lost' = (lost /\ keeps)
      /\ UNCHANGED <<objects, selection, own, used, cancelled>>

(* The keyboard focus goes, with its surface or with the keyboard          *)
(* capability; the pool of selections has no slot for it.                  *)
LoseFocus ==
  /\ keyFocus' = None
  /\ told' = Forgotten(told, None)
  /\ lost' = TRUE

DestroySurface(s) ==
  /\ s \in surfaces
  /\ surfaces' = surfaces \ {s}
  /\ IF keyFocus = s THEN LoseFocus ELSE UNCHANGED <<keyFocus, told, lost>>
  /\ UNCHANGED <<sources, devices, controls, focusDevices, selection, own, used, cancelled>>

RemoveKeyboard ==
  /\ keyFocus # None
  /\ LoseFocus
  /\ UNCHANGED <<objects, focusDevices, selection, own, used, cancelled>>

Next ==
  \/ \E d \in Device, s \in Source \cup {None} : SetSelection(d, s)
  \/ \E c \in Control, s \in Source \cup {None} : SetControlSelection(c, s)
  \/ \E s \in sources \cup {None} : SeatSetSelection(s)
  \/ \E s \in sources : DestroySource(s)
  \/ \E d \in Device : CreateDevice(d) \/ DestroyDevice(d)
  \/ \E c \in Control : CreateControl(c) \/ DestroyDevice(c)
  \/ \E s \in surfaces \cup {None} : SetFocusedSurface(s)
  \/ \E s \in surfaces : DestroySurface(s)
  \/ RemoveKeyboard

Spec == Init /\ [][Next]_vars

-----------------------------------------------------------------------------
(* The devices of the focused client know the selection, and no others     *)
(* know any: after sources replaced and destroyed by any device, late      *)
(* devices and every move of the focus, unless the focus was lost with its *)
(* surface (selection_pool.h:71-125).                                      *)
SelectionKnown ==
  ~lost => /\ focusDevices = IF keyFocus = None THEN {} ELSE DevicesOf(ClientOf[keyFocus])
           /\ \A d \in devices :
                told[d] = IF d \in focusDevices THEN selection ELSE None

(* The selection exists, and a data control device knows it unless it set  *)
(* it: no offer is made from a source that is gone                         *)
(* (selection_pool.h:104, data_control_v1.cpp:69-74).                      *)
SelectionAlive ==
  /\ selection \in sources \cup {None}
  /\ \A c \in controls : selection \in {told[c], own[c]}

(* The same after the focus was lost: "No client change. Selection must    *)
(* not be resent." (selection_pool.h:80).                                  *)
SelectionKnownAlways ==
  keyFocus # None => \A d \in DevicesOf(ClientOf[keyFocus]) : told[d] = selection

(* "Per protocol we just won't send future selection events to the client" *)
(* without focus (selection_pool.h:75).                                    *)
NoSelectionWithoutFocus == keyFocus = None => \A d \in devices : told[d] = None

(* A source that is destroyed after it was replaced takes only itself      *)
(* along.                                                                  *)
OthersSelectionKept ==
  [][\A s \in sources \ sources' : selection # s => selection' = selection]_vars

(* The selection in force was not cancelled: a client is told so when its  *)
(* source "has been replaced by another DataSource"                        *)
(* (src/client/datasource.h:109).                                          *)
SelectionNotCancelled == selection \notin cancelled
=============================================================================
