------------------------------- MODULE Outputs -------------------------------
(***************************************************************************)
(* An output of the compositor and its mirror in a client:                 *)
(* server/output.cpp, server/wl_output.cpp, server/xdg_output.cpp and      *)
(* src/client/output.cpp, src/client/xdgoutput.cpp.  The compositor        *)
(* prepares a pending state and publishes it with done(); an enabled       *)
(* output is a global, and a new one each time it is enabled.  Clients     *)
(* read events in order, bind the global when they hear of it and ask for  *)
(* the logical output when they like, so that done() may be called between *)
(* a request and its answer.                                               *)
(*                                                                         *)
(* Of the data there are the position, the logical size, the mode, the     *)
(* scale that the last two give and the description; modes differ in size. *)
(* Messages that end an update carry, besides, what was published.         *)
(***************************************************************************)
EXTENDS Naturals, Sequences, FiniteSets, Functions

CONSTANTS
  Mode,        \* modes by their size
  Position, LogicalSize, Description, \* values of the state and the metadata
  Version,     \* versions of the logical output that clients bind
  MaxChanges,  \* bound of calls by the compositor
  None         \* not known to the client

(* What is assumed of the constants.                                       *)
Assumptions ==
  /\ Version \subseteq 1 .. 3
  /\ Mode \cup LogicalSize \subseteq Nat \ {0} /\ 0 \notin Position
  /\ MaxChanges \in Nat
  /\ None \notin Position \cup LogicalSize \cup Description \cup Mode

VARIABLES
  modes,      \* server: output::Private::modes
  pending,    \* server: output::Private::pending
  published,  \* server: output::Private::published
  live,       \* server: number of the WlOutput, 0 for none
  made,       \* server: number of WlOutputs made so far
  xdgManager, \* server: output_manager::xdg_manager exists
  xdgOutput,  \* server: output::Private::xdg_output exists
  bound,      \* server: the client has a bind of the WlOutput
  xdgBound,   \* server: XdgOutput::Private::resources has one of the client
  changes,    \* calls by the compositor so far
  events,     \* to the client
  requests,   \* to the server
  version,    \* client: version of the logical output it binds
  output,     \* client: the Output
  asked,      \* client: whether it asked for an XdgOutput
  xdgPending, \* client: XdgOutput::Private::pending
  xdgCurrent, \* client: XdgOutput::Private::current
  fault       \* the assertion of getXdgOutputCallback failed

stateVars == <<modes, pending, published>>
globalVars == <<live, made, xdgManager, xdgOutput, bound, xdgBound>>
clientVars == <<version, output, asked, xdgPending, xdgCurrent>>
vars == <<stateVars, globalVars, changes, events, requests, clientVars, fault>>

Logical == [position : Position \cup {None}, size : LogicalSize \cup {None},
            description : Description \cup {None}]
Unknown == [position |-> None, size |-> None, description |-> None]
NoOutput == [number |-> 0, position |-> None, scale |-> None, modes |-> {}, current |-> None]

(* update_client_scale *)
Scale(mode, size) == (mode + size - 1) \div size

State == [enabled : BOOLEAN, position : Position, size : LogicalSize, mode : Mode,
          scale : {Scale(m, s) : m \in Mode, s \in LogicalSize}, description : Description]

TypeOK ==
  /\ modes \subseteq Mode /\ {pending, published} \subseteq State
  /\ live \in {0, made} /\ made \in 0 .. MaxChanges /\ changes \in 0 .. MaxChanges
  /\ {xdgManager, xdgOutput, bound, xdgBound, asked, fault} \subseteq BOOLEAN
  /\ output.number \in 0 .. made /\ output.current \in Mode \cup {None}
  /\ output.modes \subseteq [mode : Mode, current : BOOLEAN]
  /\ {xdgPending, xdgCurrent} \subseteq Logical /\ version \in Version

Init ==
  /\ modes \in {{m} : m \in Mode}
  /\ pending \in {s \in State : /\ ~s.enabled /\ s.mode \in modes
                                /\ s.scale = Scale(s.mode, s.size)}
  /\ published = pending
  /\ live = 0 /\ made = 0 /\ xdgManager \in BOOLEAN /\ xdgOutput = FALSE
  /\ bound = FALSE /\ xdgBound = FALSE /\ changes = 0
  /\ events = <<>> /\ requests = <<>>
  /\ version \in Version
  /\ output = NoOutput /\ asked = FALSE /\ xdgPending = Unknown /\ xdgCurrent = Unknown
  /\ fault = FALSE

-----------------------------------------------------------------------------
Event(kind, value) == [kind |-> kind, value |-> value]
If(condition, es) == IF condition THEN es ELSE <<>>

Changed ==
  /\ changes < MaxChanges
  /\ changes' = changes + 1
  /\ UNCHANGED <<requests, clientVars, fault>>

(* set_state, which refuses modes that the output does not have            *)
SetState(enabled, p, s, m) ==
  /\ Changed /\ m \in modes
  /\ pending' = [pending EXCEPT !.enabled = enabled, !.position = p, !.size = s, !.mode = m,
                                !.scale = Scale(m, s)]
  /\ UNCHANGED <<modes, published, globalVars, events>>

SetMetadata(d) ==
  /\ Changed
  /\ pending' = [pending EXCEPT !.description = d]
  /\ UNCHANGED <<modes, published, globalVars, events>>

(* add_mode makes the new mode the one to be published.                    *)
AddMode(m) ==
  /\ Changed
  /\ modes' = modes \cup {m}
  /\ pending' = [pending EXCEPT !.mode = m]
  /\ UNCHANGED <<published, globalVars, events>>

CreateXdgManager ==
  /\ Changed /\ ~xdgManager
  /\ xdgManager' = TRUE
  /\ UNCHANGED <<stateVars, live, made, xdgOutput, bound, xdgBound, events>>

(* WlOutput::Private::broadcast and XdgOutput::Private::broadcast          *)
Differs(field) == published[field] # pending[field]
OutputEvents ==
  If(Differs("position"), <<Event("geometry", pending.position)>>)
  \o If(Differs("scale"), <<Event("scale", pending.scale)>>)
  \o If(Differs("mode"), <<Event("mode", [mode |-> pending.mode, current |-> TRUE])>>)
LogicalEvents ==
  If(Differs("position"), <<Event("logical_position", pending.position)>>)
  \o If(Differs("size"), <<Event("logical_size", pending.size)>>)
  \o If(Differs("description") /\ version >= 3, <<Event("description", pending.description)>>)
OutputDiffers == Differs("position") \/ Differs("scale") \/ Differs("mode") \* mutated form of AnyDiffers
AnyDiffers ==
  \/ Differs("position") \/ Differs("scale") \/ Differs("mode")
  \/ xdgOutput /\ (Differs("size") \/ Differs("description"))

DoneEarly(state) == <<Event("done", state)>> \o If(xdgBound, LogicalEvents) \* mutated form of Updates
Updates(state) == If(xdgBound, LogicalEvents) \o <<Event("done", state)>>

(* output::Private::done; a new WlOutput has no binds to tell.             *)
Done ==
  LET starts == pending.enabled /\ ~published.enabled
      stops == published.enabled /\ ~pending.enabled
  IN  /\ Changed
      /\ published' = pending
      /\ made' = IF starts THEN made + 1 ELSE made
      /\ live' = IF starts THEN made + 1 ELSE IF stops THEN 0 ELSE live
      /\ xdgOutput' = IF starts THEN xdgManager ELSE xdgOutput /\ ~stops
      /\ bound' = (bound /\ ~stops) /\ xdgBound' = (xdgBound /\ ~stops)
      /\ events' = events
           \o If(starts, <<Event("global", made + 1)>>)
           \o If(stops, <<Event("global_removed", live)>>)
           \o If(bound /\ pending.enabled /\ AnyDiffers,
                 OutputEvents \o Updates(pending)
                 \o If(xdgBound /\ version < 3, <<Event("logical_done", pending)>>))
      /\ UNCHANGED <<modes, pending, xdgManager>>

-----------------------------------------------------------------------------
(* WlOutput::Private::bindInit; a global that is gone tells nothing.       *)
BindEvents ==
  LET more == modes \ {published.mode}
      others == CHOOSE q \in Bijection(1 .. Cardinality(more), more) : TRUE
  IN  <<Event("geometry", published.position)>>
      \o [i \in DOMAIN others |-> Event("mode", [mode |-> others[i], current |-> FALSE])]
      \o <<Event("mode", [mode |-> published.mode, current |-> TRUE]),
           Event("scale", published.scale), Event("done", published)>>

HandleBind(r) ==
  /\ r.kind = "bind"
  /\ bound' = (bound \/ r.value = live)
  /\ events' = events \o If(r.value = live, BindEvents)
  /\ UNCHANGED <<xdgBound, fault>>

(* getXdgOutputCallback and XdgOutput::Private::resourceConnected          *)
ConnectEvents ==
  <<Event("logical_position", published.position),
    Event("logical_size", published.size),
    Event("description", published.description)>>
  \o (IF version < 3 THEN <<Event("logical_done", published)>>
      ELSE If(bound, <<Event("done", published)>>))

HandleGetXdgOutput(r) ==
  /\ r.kind = "get"
  /\ IF r.value # live THEN UNCHANGED <<xdgBound, events, fault>>
     ELSE IF ~xdgOutput THEN fault' = TRUE /\ UNCHANGED <<xdgBound, events>>
     ELSE xdgBound' = TRUE /\ events' = events \o ConnectEvents /\ UNCHANGED fault
  /\ UNCHANGED bound

HandleRequest ==
  /\ requests # <<>> /\ ~fault
  /\ requests' = Tail(requests)
  /\ HandleBind(Head(requests)) \/ HandleGetXdgOutput(Head(requests))
  /\ UNCHANGED <<stateVars, live, made, xdgManager, xdgOutput, changes, clientVars>>

-----------------------------------------------------------------------------
ReadGlobal(e) ==
  /\ e.kind = "global"
  /\ output' = [NoOutput EXCEPT !.number = e.value]
  /\ requests' = Append(requests, [kind |-> "bind", value |-> e.value])
  /\ UNCHANGED <<version, asked, xdgPending, xdgCurrent>>

(* The client deletes the Output and with it what it asked of it.          *)
ReadGlobalRemoved(e) ==
  /\ e.kind = "global_removed"
  /\ output' = NoOutput
  /\ asked' = FALSE /\ xdgPending' = Unknown /\ xdgCurrent' = Unknown
  /\ UNCHANGED <<version, requests>>

(* geometryCallback and scaleCallback                                      *)
ReadOutput(e) ==
  /\ \/ e.kind = "geometry" /\ output' = [output EXCEPT !.position = e.value]
     \/ e.kind = "scale" /\ output' = [output EXCEPT !.scale = e.value]
  /\ UNCHANGED <<version, requests, asked, xdgPending, xdgCurrent>>

(* addMode: a current mode replaces the mode like it and the current one.  *)
StillCurrent(m) == {k \in output.modes : k.mode # m.mode} \* mutated form of Others
Others(m) == {[mode |-> k.mode, current |-> FALSE] : k \in {k \in output.modes : k.mode # m.mode}}

ReadMode(e) ==
  LET m == e.value
  IN  /\ e.kind = "mode"
      /\ output' = IF m.current
                     THEN [output EXCEPT !.modes = Others(m) \cup {m}, !.current = m.mode]
                     ELSE [output EXCEPT !.modes = @ \cup {m}]
      /\ UNCHANGED <<version, requests, asked, xdgPending, xdgCurrent>>

ReadLogical(e) ==
  /\ \/ e.kind = "logical_position" /\ xdgPending' = [xdgPending EXCEPT !.position = e.value]
     \/ e.kind = "logical_size" /\ xdgPending' = [xdgPending EXCEPT !.size = e.value]
     \/ e.kind = "description" /\ xdgPending' = [xdgPending EXCEPT !.description = e.value]
  /\ UNCHANGED <<version, requests, output, asked, xdgCurrent>>

(* doneCallback of either; from version 3 on the Output completes both.    *)
ReadDone(e) ==
  /\ \/ e.kind = "done" /\ version >= 3 /\ xdgCurrent' = xdgPending
     \/ e.kind = "done" /\ version < 3 /\ UNCHANGED xdgCurrent
     \/ e.kind = "logical_done" /\ xdgCurrent' = xdgPending
  /\ UNCHANGED <<version, requests, output, asked, xdgPending>>

ReadEvent ==
  /\ events # <<>>
  /\ events' = Tail(events)
  /\ LET e == Head(events)
     IN  \/ ReadGlobal(e) \/ ReadGlobalRemoved(e) \/ ReadOutput(e) \/ ReadMode(e)
         \/ ReadLogical(e) \/ ReadDone(e)
  /\ UNCHANGED <<stateVars, globalVars, changes, fault>>

(* XdgOutputManager::getXdgOutput                                          *)
GetXdgOutput ==
  /\ xdgManager /\ output.number # 0 /\ ~asked
  /\ asked' = TRUE
  /\ requests' = Append(requests, [kind |-> "get", value |-> output.number])
  /\ UNCHANGED <<stateVars, globalVars, changes, events, version, output, xdgPending,
                 xdgCurrent, fault>>

Next ==
  \/ \E b \in BOOLEAN, p \in Position, s \in LogicalSize, m \in Mode : SetState(b, p, s, m)
  \/ \E d \in Description : SetMetadata(d)
  \/ \E m \in Mode : AddMode(m)
  \/ CreateXdgManager \/ Done
  \/ HandleRequest \/ ReadEvent \/ GetXdgOutput

Spec == Init /\ [][Next]_vars

-----------------------------------------------------------------------------
OutputShows(state) ==
  output.position = state.position /\ output.scale = state.scale /\ output.current = state.mode

LogicalShows(logical, state) ==
  /\ logical.position = state.position /\ logical.size = state.size
  /\ version >= 3 => logical.description = state.description

(* When a client is told that an update is complete, it has exactly what   *)
(* was published then, of the output and of the logical output, if it has  *)
(* one: it acts on no mixture of two states, however done(), binds and     *)
(* requests come one after another (output.cpp:104-137,                    *)
(* wl_output.cpp:66-140, xdg_output.cpp:93-160).                           *)
DoneIsWhole ==
  events # <<>> /\ Head(events).kind \in {"done", "logical_done"} =>
    /\ OutputShows(Head(events).value)
    /\ xdgPending # Unknown => LogicalShows(xdgPending, Head(events).value)

(* Once everything sent has arrived, the client shows what is published,   *)
(* with one current mode (src/client/output.cpp:230-275,                   *)
(* src/client/xdgoutput.cpp:205-230).                                      *)
OutputMirrored ==
  events = <<>> /\ requests = <<>> /\ ~fault =>
    /\ output.number = live
    /\ live # 0 => /\ OutputShows(published)
                   /\ {k \in output.modes : k.current}
                        = {[mode |-> output.current, current |-> TRUE]}
    /\ live # 0 /\ asked => LogicalShows(xdgCurrent, published)

(* "@returns The Modes of this Output." (src/client/output.h:192), also    *)
(* of those added after the client bound the output                        *)
ModesKnown ==
  events = <<>> /\ requests = <<>> /\ live # 0 => {k.mode : k \in output.modes} = modes

(* Every enabled output is in the map of the logical outputs               *)
(* (xdg_output.cpp:68).                                                    *)
XdgOutputThere == ~fault
=============================================================================
