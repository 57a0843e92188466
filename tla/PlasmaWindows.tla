---------------------------- MODULE PlasmaWindows ----------------------------
(***************************************************************************)
(* The windows of the compositor and their mirror in a client:             *)
(* server/plasma_window.cpp, src/client/plasmawindowmanagement.cpp and the *)
(* rows of src/client/plasmawindowmodel.cpp.  Events and requests travel   *)
(* in order, each way for itself, so that a window can be destroyed before *)
(* the client asked for it.  Of a window there are the active state, the   *)
(* parent and its virtual desktops; the other attributes are sent as the   *)
(* active state is.                                                        *)
(***************************************************************************)
EXTENDS Naturals, Lists

CONSTANTS
  Window,     \* windows that come and go once each
  Desktop,    \* virtual desktops, there from the start
  MaxChanges, \* bound of changes by the compositor
  None        \* the null pointer

(* What is assumed of the constants.                                       *)
Assumptions ==
  /\ None \notin Window /\ IsFiniteSet(Window) /\ IsFiniteSet(Desktop)
  /\ MaxChanges \in Nat

VARIABLES
  windows,    \* server: windows of the manager
  gone,       \* server: windows that are gone
  active,     \* server: windows in the active state
  parent,     \* server: PlasmaWindow::Private::parentWindow
  desks,      \* server: virtual desktops that exist
  on,         \* server: PlasmaWindow::Private::plasmaVirtualDesktops
  follows,    \* server: desktops whose destruction each window hears of
  bound,      \* server: windows the client has a resource of
  changes,    \* server: changes so far
  events,     \* to the client
  requests,   \* get_window requests to the server
  proxies,    \* client: windows
  unmapped,   \* client: those unmapped and not yet deleted
  rows,       \* client: rows of a PlasmaWindowModel
  isActive,   \* client: isActive
  parentOf,   \* client: parentWindow
  entered,    \* client: plasmaVirtualDesktops
  activeWindow \* client: PlasmaWindowManagement::activeWindow

serverVars == <<windows, gone, active, parent, desks, on, follows, bound, changes>>
clientVars == <<proxies, unmapped, rows, isActive, parentOf, entered, activeWindow>>
vars == <<serverVars, events, requests, clientVars>>

Event(kind, w, value) == [kind |-> kind, window |-> w, value |-> value]

TypeOK ==
  /\ windows \subseteq Window /\ gone \subseteq Window /\ active \subseteq Window
  /\ parent \in [Window -> Window \cup {None}] /\ on \in [Window -> SUBSET Desktop]
  /\ follows \in [Window -> SUBSET Desktop]
  /\ desks \subseteq Desktop /\ bound \subseteq windows /\ changes \in 0 .. MaxChanges
  /\ \A e \in Range(events) : e.window \in Window
  /\ Range(requests) \subseteq Window
  /\ rows \subseteq proxies /\ unmapped \subseteq proxies /\ proxies \subseteq Window
  /\ isActive \subseteq Window /\ activeWindow \in Window \cup {None}
  /\ parentOf \in [Window -> Window \cup {None}] /\ entered \in [Window -> SUBSET Desktop]

Init ==
  /\ windows = {} /\ gone = {} /\ active = {} /\ desks = Desktop /\ bound = {} /\ changes = 0
  /\ parent = [w \in Window |-> None] /\ on = [w \in Window |-> {}] /\ follows = on
  /\ events = <<>> /\ requests = <<>>
  /\ proxies = {} /\ unmapped = {} /\ rows = {} /\ isActive = {} /\ activeWindow = None
  /\ parentOf = [w \in Window |-> None] /\ entered = [w \in Window |-> {}]

-----------------------------------------------------------------------------
(* Events about windows without a resource are not sent.                   *)
Send(w, es) == events' = IF w \in bound THEN events \o es ELSE events

Changed ==
  /\ changes < MaxChanges
  /\ changes' = changes + 1
  /\ UNCHANGED <<requests, clientVars>>

CreateWindow(w) ==
  /\ Changed /\ w \notin windows \cup gone
  /\ windows' = windows \cup {w}
  /\ events' = Append(events, Event("window", w, None))
  /\ UNCHANGED <<gone, active, parent, desks, on, follows, bound>>

(* The window unmaps its resources, then its children hear of it.          *)
DestroyWindow(w) ==
  LET children == Listing({c \in bound \ {w} : parent[c] = w})
  IN  /\ Changed /\ w \in windows
      /\ windows' = windows \ {w} /\ gone' = gone \cup {w} /\ active' = active \ {w}
      /\ bound' = bound \ {w}
      /\ parent' = [c \in Window |-> IF parent[c] = w \/ c = w THEN None ELSE parent[c]]
      /\ on' = [on EXCEPT ![w] = {}] /\ follows' = [follows EXCEPT ![w] = {}]
      /\ events' = (IF w \in bound THEN Append(events, Event("unmapped", w, None)) ELSE events)
                   \o [i \in DOMAIN children |-> Event("parent", children[i], None)]
      /\ UNCHANGED desks

SetActive(w, b) ==
  /\ Changed /\ w \in windows /\ (w \in active) # b
  /\ active' = IF b THEN active \cup {w} ELSE active \ {w}
  /\ Send(w, <<Event("state", w, b)>>)
  /\ UNCHANGED <<windows, gone, parent, desks, on, follows, bound>>

(* getResourceOfParent: null if the client has none.                       *)
ResourceOf(p) == IF p \in bound THEN p ELSE None

SetParentWindow(w, p) ==
  /\ Changed /\ w \in windows /\ p \in (windows \cup {None}) \ {w, parent[w]}
  /\ parent' = [parent EXCEPT ![w] = p]
  /\ Send(w, <<Event("parent", w, ResourceOf(p))>>)
  /\ UNCHANGED <<windows, gone, active, desks, on, follows, bound>>

(* addPlasmaVirtualDesktop, whose connection to the desktop stays          *)
AddDesktop(w, d) ==
  /\ Changed /\ w \in windows /\ d \in desks \ on[w]
  /\ on' = [on EXCEPT ![w] = @ \cup {d}]
  /\ follows' = [follows EXCEPT ![w] = @ \cup {d}]
  /\ Send(w, <<Event("entered", w, d)>>)
  /\ UNCHANGED <<windows, gone, active, parent, desks, bound>>

(* removePlasmaVirtualDesktop of these windows                             *)
LeaveIn(ws, d) ==
  LET left == Listing({w \in ws \cap bound : d \in on[w]})
  IN  /\ on' = [w \in Window |-> IF w \in ws THEN on[w] \ {d} ELSE on[w]]
      /\ events' = events \o [i \in DOMAIN left |-> Event("left", left[i], d)]

RemoveDesktop(w, d) ==
  /\ Changed /\ w \in windows /\ d \in on[w]
  /\ LeaveIn({w}, d)
  /\ UNCHANGED <<windows, gone, active, parent, desks, follows, bound>>

(* The windows that are connected to the desktop leave it.                 *)
DestroyDesktop(d) ==
  /\ Changed /\ d \in desks
  /\ desks' = desks \ {d}
  /\ follows' = [w \in Window |-> follows[w] \ {d}]
  /\ LeaveIn({w \in windows : d \in follows[w]}, d)
  /\ UNCHANGED <<windows, gone, active, parent, bound>>

(* setOnAllDesktops: leaving everything means on all; else the window      *)
(* enters those that the compositor has active, without a connection.      *)
SetOnAllDesktops(w, current) ==
  LET ds == Listing(IF on[w] = {} THEN current ELSE on[w])
      kind == IF on[w] = {} THEN "entered" ELSE "left"
  IN  /\ Changed /\ w \in windows
      /\ on' = [on EXCEPT ![w] = IF @ = {} THEN current ELSE {}]
      /\ Send(w, [i \in DOMAIN ds |-> Event(kind, w, ds[i])])
      /\ UNCHANGED <<windows, gone, active, parent, desks, follows, bound>>

-----------------------------------------------------------------------------
(* createResource, for a window or for one that is gone: a temporary one   *)
(* that unmaps the resource, and once more when it is deleted.             *)
Initially(w) ==
  LET ds == Listing(on[w])
  IN  [i \in DOMAIN ds |-> Event("entered", w, ds[i])]
      \o <<Event("state", w, w \in active), Event("parent", w, ResourceOf(parent[w])),
           Event("initial", w, None)>>
NoResource(w) == <<>> \* mutated form of Temporary
Temporary(w) ==
  <<Event("state", w, FALSE), Event("parent", w, None), Event("unmapped", w, None),
    Event("initial", w, None), Event("unmapped", w, None)>>

GetWindow ==
  /\ requests # <<>>
  /\ requests' = Tail(requests)
  /\ LET w == Head(requests)
     IN  IF w \in windows
           THEN bound' = bound \cup {w} /\ events' = events \o Initially(w)
           ELSE UNCHANGED bound /\ events' = events \o Temporary(w)
  /\ UNCHANGED <<windows, gone, active, parent, desks, on, follows, changes, clientVars>>

-----------------------------------------------------------------------------
ReadWindow(e) ==
  /\ e.kind = "window"
  /\ proxies' = proxies \cup {e.window}
  /\ requests' = Append(requests, e.window)
  /\ UNCHANGED <<unmapped, rows, isActive, parentOf, entered, activeWindow>>

(* setActive, and the slot of the management on activeChanged              *)
ReadState(e) ==
  LET w == e.window
      changed == (w \in isActive) # e.value
  IN  /\ e.kind = "state"
      /\ isActive' = IF e.value THEN isActive \cup {w} ELSE isActive \ {w}
      /\ activeWindow' = IF changed /\ e.value THEN w
                         ELSE IF changed /\ activeWindow = w THEN None ELSE activeWindow
      /\ UNCHANGED <<requests, proxies, unmapped, rows, parentOf, entered>>

ReadParent(e) ==
  /\ e.kind = "parent"
  /\ parentOf' = [parentOf EXCEPT
                    ![e.window] = IF e.value \in proxies \ unmapped THEN e.value ELSE None]
  /\ UNCHANGED <<requests, proxies, unmapped, rows, isActive, entered, activeWindow>>

ReadDesktop(e) ==
  /\ e.kind \in {"entered", "left"}
  /\ entered' = [entered EXCEPT
                   ![e.window] = IF e.kind = "entered" THEN @ \cup {e.value} ELSE @ \ {e.value}]
  /\ UNCHANGED <<requests, proxies, unmapped, rows, isActive, parentOf, activeWindow>>

ReadInitial(e) ==
  /\ e.kind = "initial"
  /\ rows' = IF e.window \in unmapped THEN rows ELSE rows \cup {e.window}
  /\ UNCHANGED <<requests, proxies, unmapped, isActive, parentOf, entered, activeWindow>>

(* Those who listen to unmapped: the management, children and the model.   *)
KeepActive(w) == activeWindow \* mutated form of ActiveWithout
ActiveWithout(w) == IF activeWindow = w THEN None ELSE activeWindow

ReadUnmapped(e) ==
  LET w == e.window
  IN  /\ e.kind = "unmapped"
      /\ unmapped' = unmapped \cup {w}
      /\ rows' = rows \ {w}
      /\ activeWindow' = ActiveWithout(w)
      /\ parentOf' = [c \in Window |-> IF parentOf[c] = w THEN None ELSE parentOf[c]]
      /\ UNCHANGED <<requests, proxies, isActive, entered>>

(* Events for a proxy that is destroyed are dropped by libwayland.         *)
ReadDropped(e) ==
  /\ e.kind # "window" /\ e.window \notin proxies
  /\ UNCHANGED <<requests, clientVars>>

ReadEvent ==
  /\ events # <<>>
  /\ events' = Tail(events)
  /\ LET e == Head(events)
     IN  \/ ReadWindow(e) \/ ReadDropped(e)
         \/ /\ e.window \in proxies
            /\ ReadState(e) \/ ReadParent(e) \/ ReadDesktop(e) \/ ReadInitial(e) \/ ReadUnmapped(e)
  /\ UNCHANGED serverVars

(* deleteLater takes effect.                                               *)
DeleteWindow(w) ==
  /\ w \in unmapped
  /\ proxies' = proxies \ {w} /\ unmapped' = unmapped \ {w}
  /\ activeWindow' = ActiveWithout(w)
  /\ isActive' = isActive \ {w}
  /\ parentOf' = [parentOf EXCEPT ![w] = None] /\ entered' = [entered EXCEPT ![w] = {}]
  /\ UNCHANGED <<serverVars, events, requests, rows>>

Next ==
  \/ \E w \in Window : CreateWindow(w) \/ DestroyWindow(w) \/ DeleteWindow(w)
  \/ \E w \in Window, b \in BOOLEAN : SetActive(w, b)
  \/ \E w \in Window, p \in Window \cup {None} : SetParentWindow(w, p)
  \/ \E w \in Window, d \in Desktop : AddDesktop(w, d) \/ RemoveDesktop(w, d)
  \/ \E d \in Desktop : DestroyDesktop(d)
  \/ \E w \in Window : \E ds \in SUBSET desks : SetOnAllDesktops(w, ds)
  \/ GetWindow \/ ReadEvent

Spec == Init /\ [][Next]_vars

-----------------------------------------------------------------------------
Quiet == events = <<>> /\ requests = <<>>

(* When everything sent has arrived, the client has the windows of the     *)
(* compositor and those that wait to be deleted, its model has a row for   *)
(* each, and what it knows of them is right, as far as a parent is known:  *)
(* windows may be destroyed before the client asked for them               *)
(* (plasma_window.cpp:180-225, plasmawindowmanagement.cpp:554-662).        *)
Mirrored ==
  Quiet =>
    /\ rows = windows /\ proxies \ unmapped = windows
    /\ \A w \in rows : /\ (w \in isActive) = (w \in active)
                       /\ entered[w] = on[w]
                       /\ parentOf[w] \in {parent[w], None}

(* The active window of a client "returns true in isActive" and is neither *)
(* unmapped nor deleted (src/client/plasmawindowmanagement.h:165).         *)
ActiveWindowLives ==
  activeWindow # None => activeWindow \in (proxies \ unmapped) \cap isActive

(* A null parent means that the window "is a top level window"             *)
(* (src/client/plasmawindowmanagement.h:469).                              *)
NullParentIsToplevel ==
  Quiet => \A w \in rows : parentOf[w] = None => parent[w] = None

(* A null active window means that "there is no active window"             *)
(* (src/client/plasmawindowmanagement.h:167).                              *)
NullMeansNoneActive == Quiet /\ activeWindow = None => isActive \cap rows = {}

(* "if the desktop dies, remove it from or list" (plasma_window.cpp:715):  *)
(* windows are on desktops that exist.                                     *)
DesktopsExist == \A w \in windows : on[w] \subseteq desks
=============================================================================
