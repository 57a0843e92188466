------------------------------ MODULE DragPool ------------------------------
(***************************************************************************)
(* Drag and drop on a seat (server/drag_pool.cpp, with the grabs of        *)
(* pointer_pool.cpp and touch_pool.cpp that start and end a drag, and the  *)
(* offers of data_offer.cpp).  A drag has a source, which may be null, and *)
(* a target: a surface, the data device of its client and the offer sent   *)
(* to it.  The pool reacts to objects that are destroyed and to changed    *)
(* actions through Qt connections; whether a connection is still there     *)
(* when its sender acts is what this module is about.  Following a null or *)
(* a freed pointer ends the run and is recorded in `fault'.                *)
(*                                                                         *)
(* Each client has one data device here, and a data source starts at most  *)
(* one drag.                                                               *)
(***************************************************************************)
EXTENDS Integers

CONSTANTS
  Source,     \* data_source objects, present from the start
  Surface,    \* surfaces, present from the start
  Offer,      \* names for the data_offer objects of all drags
  Device,     \* data_device objects, one per client
  DeviceOf,   \* DeviceOf[s]: the device of the client of a surface
  None,       \* the null pointer
  MaxGrabs    \* bound: button presses or touch points

(* What is assumed of the constants.                                       *)
Assumptions ==
  /\ None \notin Source \cup Surface \cup Offer \cup Device
  /\ DeviceOf \in [Surface -> Device]
  /\ MaxGrabs \in Nat

VARIABLES
  grabs,      \* number of grabs so far, the serial of the last one
  grab,       \* the implicit grab: its mode and the focused surface
  sources, surfaces, devices, offers,  \* objects that exist
  started,    \* sources that have started a drag
  mode,       \* source.mode
  source,     \* source.src
  serial,     \* source.serial
  notifier,   \* the source the handle source.destroy_notifier is about
  resetting,  \* sources whose destruction runs source = {}
  ending,     \* sources whose destruction runs cancel() and whose change of
              \* actions runs match_actions
  surface,    \* target.surface
  device,     \* target.devices, one at most
  offer,      \* the offer of that device
  offerOf,    \* offerOf[o]: data_offer::Private::source
  matching,   \* offers whose change of actions runs match_actions
  performed,  \* sources that were sent dnd_drop_performed
  dropped,    \* sources whose drag ended in a drop
  fault       \* "none", "null_source" or "freed_offer"

grabVars == <<grabs, grab>>
objects == <<sources, surfaces, devices>>
sourceVars == <<mode, source, serial, notifier>>
connections == <<resetting, ending>>
targetVars == <<surface, device, offer>>
offerVars == <<offers, offerOf>>
told == <<performed, dropped>>
vars == <<grabVars, objects, started, sourceVars, connections, targetVars,
          offerVars, matching, told, fault>>

Grab == [mode : {"none", "pointer", "touch"}, surface : Surface \cup {None}]
NoGrab == [mode |-> "none", surface |-> None]

TypeOK ==
  /\ grabs \in 0 .. MaxGrabs /\ grab \in Grab
  /\ sources \subseteq Source /\ surfaces \subseteq Surface
  /\ devices \subseteq Device /\ offers \subseteq Offer
  /\ started \subseteq Source
  /\ mode \in {"none", "pointer", "touch"}
  /\ source \in Source \cup {None}
  /\ serial \in 0 .. MaxGrabs
  /\ notifier \in ending \cup {None}
  /\ resetting \subseteq sources /\ ending \subseteq sources
  /\ surface \in Surface \cup {None}
  /\ device \in Device \cup {None}
  /\ offer \in Offer \cup {None}
  /\ offerOf \in [Offer -> Source \cup {None}]
  /\ matching \subseteq offers
  /\ performed \subseteq Source /\ dropped \subseteq Source
  /\ fault \in {"none", "null_source", "freed_offer"}

Init ==
  /\ grabs = 0 /\ grab = NoGrab
  /\ sources = Source /\ surfaces = Surface /\ devices = Device /\ offers = {}
  /\ started = {}
  /\ mode = "none" /\ source = None /\ serial = 0 /\ notifier = None
  /\ resetting = {} /\ ending = {}
  /\ surface = None /\ device = None /\ offer = None
  /\ offerOf = [o \in Offer |-> None]
  /\ matching = {}
  /\ performed = {} /\ dropped = {}
  /\ fault = "none"

-----------------------------------------------------------------------------
(* source = {} and target = {}.                                            *)
ResetSource ==
  mode' = "none" /\ source' = None /\ serial' = 0 /\ notifier' = None
ResetTarget ==
  surface' = None /\ device' = None /\ offer' = None

(* cancel_target disconnects the offer of the target device only.          *)
KeepMatching == matching  \* mutated form of MatchingAfterCancel
MatchingAfterCancel == IF surface = None THEN matching ELSE matching \ {offer}

(* end: dnd_drop_performed goes to the source, whatever ended the drag.    *)
End ==
  /\ ending' = ending \ {notifier}
  /\ performed' = performed \cup ({source} \cap Source)
  /\ ResetSource
  /\ ResetTarget

(* cancel: what is left of the target, then the end.                       *)
Cancel ==
  /\ End
  /\ matching' = MatchingAfterCancel
  /\ UNCHANGED dropped

(* drop: the devices of the target go before their offers are disconnected.*)
Drop ==
  /\ End
  /\ dropped' = dropped \cup ({source} \cap Source)
  /\ UNCHANGED matching

(* update_target and update_offer, for a drag of the source src: the       *)
(* device of the surface's client is sent an offer, if there is a source.  *)
Entered(s) == s # None /\ s \in surfaces

PreviousSource(src) == source  \* mutated form of OfferedSource
OfferedSource(src) == src

UpdateTarget(s, src) ==
  /\ surface' = s
  /\ IF Entered(s) /\ DeviceOf[s] \in devices
     THEN /\ device' = DeviceOf[s]
          /\ IF OfferedSource(src) = None
             THEN /\ offer' = None
                  /\ matching' = MatchingAfterCancel
                  /\ UNCHANGED offerVars
             ELSE \E o \in Offer \ offers :
                    /\ offerOf[o] = None
                    /\ offer' = o
                    /\ offers' = offers \cup {o}
                    /\ offerOf' = [offerOf EXCEPT ![o] = OfferedSource(src)]
                    /\ matching' = MatchingAfterCancel \cup {o}
     ELSE /\ device' = None /\ offer' = None
          /\ matching' = MatchingAfterCancel
          /\ UNCHANGED offerVars

-----------------------------------------------------------------------------
(* A button is pressed or a touch point comes down on a focused surface.   *)
Press(m, s) ==
  /\ grab = NoGrab /\ grabs < MaxGrabs
  /\ s \in surfaces
  /\ grabs' = grabs + 1
  /\ grab' = [mode |-> m, surface |-> s]
  /\ UNCHANGED <<objects, started, sourceVars, connections, targetVars,
                 offerVars, matching, told, fault>>

(* Its release drops the drag that the grab started.                       *)
DropsOwnDrag == mode = grab.mode /\ serial = grabs

Release ==
  /\ grab # NoGrab
  /\ grab' = NoGrab
  /\ IF DropsOwnDrag THEN Drop /\ UNCHANGED resetting
     ELSE UNCHANGED <<sourceVars, connections, targetVars, matching, told>>
  /\ UNCHANGED <<grabs, objects, started, offerVars, fault>>

(* touch_pool::cancel_sequence.                                            *)
CancelTouch ==
  /\ grab.mode = "touch"
  /\ grab' = NoGrab
  /\ IF mode = "touch" THEN Cancel /\ UNCHANGED resetting
     ELSE UNCHANGED <<sourceVars, connections, targetVars, matching, told>>
  /\ UNCHANGED <<grabs, objects, started, offerVars, fault>>

(* wl_data_device.start_drag by the client that holds the grab, again      *)
(* while a drag goes on if it likes.                                       *)
HoldsGrab == grab # NoGrab /\ grab.surface \in surfaces

StartDrag(src) ==
  /\ HoldsGrab
  /\ src = None \/ (src \in sources /\ src \notin started)
  /\ started' = started \cup ({src} \cap Source)
  /\ mode' = grab.mode /\ serial' = grabs
  /\ source' = src
  /\ notifier' = IF src = None THEN notifier ELSE src
  /\ resetting' = resetting \cup ({src} \cap Source)
  /\ ending' = ending \cup ({src} \cap Source)
  /\ UpdateTarget(grab.surface, src)
  /\ UNCHANGED <<grabVars, objects, told, fault>>

(* set_target by the compositor, while a drag is in progress.              *)
SetTarget(s) ==
  /\ mode # "none" /\ s # surface
  /\ s \in surfaces \cup {None}
  /\ UpdateTarget(s, source)
  /\ UNCHANGED <<grabVars, objects, started, sourceVars, connections, told, fault>>

-----------------------------------------------------------------------------
(* match_actions tells the source and the offer of the chosen action.      *)
MatchActions ==
  /\ fault' = IF source = None THEN "null_source" ELSE fault
  /\ UNCHANGED <<grabVars, objects, started, sourceVars, connections,
                 targetVars, offerVars, matching, told>>

(* wl_data_offer.set_actions with something new.                           *)
OfferSetsActions(o) ==
  /\ o \in matching
  /\ MatchActions

(* wl_data_source.set_actions with something new.                          *)
SourceSetsActions(s) ==
  /\ s \in ending /\ offer # None
  /\ IF offer \in offers THEN MatchActions
     ELSE /\ fault' = "freed_offer"
          /\ UNCHANGED <<grabVars, objects, started, sourceVars, connections,
                         targetVars, offerVars, matching, told>>

-----------------------------------------------------------------------------
(* A source is destroyed: its offers forget it, then the connections run   *)
(* in the order they were made.  The first one hides the source from the   *)
(* second, which cancels the drag.                                         *)
DestroySource(s) ==
  /\ s \in sources
  /\ sources' = sources \ {s}
  /\ resetting' = resetting \ {s}
  /\ ending' = ending \ {s}
  /\ offerOf' = [o \in Offer |-> IF offerOf[o] = s THEN None ELSE offerOf[o]]
  /\ IF s \in resetting THEN ResetSource ELSE UNCHANGED sourceVars
  /\ IF s \in ending THEN ResetTarget /\ matching' = MatchingAfterCancel
     ELSE UNCHANGED <<targetVars, matching>>
  /\ UNCHANGED <<grabVars, surfaces, devices, started, offers, told, fault>>

(* The surface under the drag is destroyed.                                *)
DestroySurface(s) ==
  /\ s \in surfaces
  /\ surfaces' = surfaces \ {s}
  /\ grab' = IF grab.surface = s THEN [grab EXCEPT !.surface = None] ELSE grab
  /\ IF surface = s THEN ResetTarget /\ matching' = MatchingAfterCancel
     ELSE UNCHANGED <<targetVars, matching>>
  /\ UNCHANGED <<grabs, sources, devices, started, sourceVars, connections,
                 offerVars, told, fault>>

(* A device leaves the target; its offer stays connected.                  *)
KeepDevice(d) == device  \* mutated form of WithoutDevice
WithoutDevice(d) == IF device = d THEN None ELSE device

DestroyDevice(d) ==
  /\ d \in devices
  /\ devices' = devices \ {d}
  /\ device' = WithoutDevice(d)
  /\ offer' = IF device = d THEN None ELSE offer
  /\ UNCHANGED <<grabVars, sources, surfaces, started, sourceVars, connections,
                 surface, offerVars, matching, told, fault>>

(* wl_data_offer.destroy: the connection goes, the pointer stays.          *)
DestroyOffer(o) ==
  /\ o \in offers
  /\ offers' = offers \ {o}
  /\ matching' = matching \ {o}
  /\ UNCHANGED <<grabVars, objects, started, sourceVars, connections,
                 targetVars, offerOf, told, fault>>

Input ==
  \/ \E m \in {"pointer", "touch"}, s \in Surface : Press(m, s)
  \/ Release
  \/ CancelTouch
  \/ \E s \in Surface \cup {None} : SetTarget(s)

Requests ==
  \/ \E s \in Source \cup {None} : StartDrag(s)
  \/ \E o \in Offer : OfferSetsActions(o) \/ DestroyOffer(o)
  \/ \E s \in Source : SourceSetsActions(s) \/ DestroySource(s)
  \/ \E s \in Surface : DestroySurface(s)
  \/ \E d \in Device : DestroyDevice(d)

Next == fault = "none" /\ (Input \/ Requests)

Spec == Init /\ [][Next]_vars

-----------------------------------------------------------------------------
(* The drag never goes to an object that is gone: enter, motion, leave and *)
(* drop are sent for a surface and through a device that exist, in every   *)
(* order of destruction, new targets and new drags (drag_pool.cpp:214).    *)
TargetAlive ==
  /\ surface # None => surface \in surfaces
  /\ device # None => device \in devices /\ surface # None /\ device = DeviceOf[surface]

(* The offer of the target belongs to the running drag: a receiver never   *)
(* reads data of an earlier one (drag_pool.cpp:226).                       *)
OfferOfDrag ==
  offer # None /\ source # None /\ offer \in offers => offerOf[offer] = source

(* An offer that leaves the target by a new target or by a cancelled drag  *)
(* cannot change the action of a later one (drag_pool.cpp:292).            *)
OnlyTargetMatches ==
  [][surface' # surface /\ dropped' = dropped /\ offer \in matching
       => offer \notin matching']_vars

(* A source is told of a drop when there was one: "this signal might not   *)
(* be received if the compositor cancelled the drag-and-drop operation     *)
(* before" (src/client/datasource.h:122).                                  *)
PerformedWhenDropped == performed \subseteq dropped

(* The actions of an offer are matched against those of a source: "A data  *)
(* offer can only exist together with a source." (data_device.cpp:163).    *)
SourceToMatch == fault # "null_source"

(* A drag is not stopped by the end of a source that is not its own: the   *)
(* handler of a destroyed source is for its drag (drag_pool.cpp:151).      *)
OwnSourceEndsDrag ==
  [][\A s \in sources \ sources' :
       source \notin {None, s} => source' = source /\ mode' = mode]_vars

(* A listed target device has a valid offer (drag_pool.cpp:156-158).       *)
OfferAlive == fault # "freed_offer"
=============================================================================
