------------------------------ MODULE XdgShell ------------------------------
(***************************************************************************)
(* The xdg_shell objects of one client (server/xdg_shell.cpp,              *)
(* xdg_shell_surface.cpp, xdg_shell_toplevel.cpp, xdg_shell_popup.cpp):    *)
(* binds of xdg_wm_base with the xdg_surfaces and positioners made by      *)
(* them, the role objects, and the pointers among these and the wl_surface *)
(* (surface.cpp).  The compositor sends configures, which the client       *)
(* acknowledges.                                                           *)
(*                                                                         *)
(* Window geometry and size hints, which a commit carries over, are left   *)
(* out; of a commit it is left which objects it follows.  `outcome' says   *)
(* how the run of the client ended: in a protocol error, or with the       *)
(* server using an object that is gone.                                    *)
(***************************************************************************)
EXTENDS Integers, SequencesExt

CONSTANTS
  Surface, Bind, Xdg, Role, Positioner,  \* names of objects, each used once
  MaxSerials,  \* bound: configures sent
  None         \* the null pointer

ASSUME NoneAssumption == None \notin Surface \cup Bind \cup Xdg \cup Role
ASSUME MaxSerialsAssumption == MaxSerials \in Nat

VARIABLES
  connected,  \* whether the client is
  unused,     \* names not used yet
  surfaces,   \* wl_surfaces that exist, all of them from the start
  buffered,   \* surfaces with had_buffer_attached
  binds,      \* binds of xdg_wm_base that exist, as from the start
  objects,    \* bindsObjects, a function on the binds in that map
  positioners, \* positioners that exist
  atEnd,      \* positioners connected with the end iterator of bindsObjects
  xdgs,       \* xdg_surfaces that exist
  surfaceOf,  \* surfaceOf[x]: XdgShellSurface::Private::m_surface
  bindOf,     \* bindOf[x]: the bind that made x
  shellOf,    \* shellOf[s]: Surface::Private::shellSurface
  toplevel,   \* toplevel[x] and
  popup,      \* popup[x]: XdgShellSurface::Private::toplevel, popup
  roles,      \* role objects that exist
  base,       \* base[r]: shellSurface of a role object
  sent,       \* the serial of the last configure
  serials,    \* serials[x]: XdgShellSurface::Private::configureSerials, with the
              \* role object that sent each
  acked,      \* history: acked[x] is the last configure acknowledged
  outcome

objectVars == <<connected, unused, surfaces, buffered>>
bindVars == <<binds, objects, positioners, atEnd>>
xdgVars == <<xdgs, surfaceOf, bindOf>>
roleVars == <<shellOf, toplevel, popup, roles, base>>
configureVars == <<sent, serials, acked>>
vars == <<objectVars, bindVars, xdgVars, roleVars, configureVars, outcome>>

Serial == 1 .. MaxSerials
Lists == [surfaces : SUBSET Xdg, positioners : SUBSET Positioner]

TypeOK ==
  /\ connected \in BOOLEAN
  /\ unused \subseteq Xdg \cup Role \cup Positioner
  /\ surfaces \subseteq Surface /\ buffered \subseteq Surface
  /\ binds \subseteq Bind /\ positioners \subseteq Positioner
  /\ DOMAIN objects \subseteq binds /\ \A b \in DOMAIN objects : objects[b] \in Lists
  /\ atEnd \subseteq positioners
  /\ xdgs \subseteq Xdg
  /\ surfaceOf \in [Xdg -> Surface \cup {None}]
  /\ bindOf \in [Xdg -> Bind \cup {None}]
  /\ shellOf \in [Surface -> Xdg \cup {None}]
  /\ toplevel \in [Xdg -> Role \cup {None}]
  /\ popup \in [Xdg -> Role \cup {None}]
  /\ roles \subseteq Role
  /\ base \in [Role -> Xdg \cup {None}]
  /\ sent \in 0 .. MaxSerials
  /\ \A x \in Xdg : ToSet(serials[x]) \subseteq [serial : 1 .. sent, by : Role]
  /\ acked \in [Xdg -> 0 .. MaxSerials]
  /\ outcome \in {"running", "protocol_error", "end_iterator",
                  "freed_surface", "freed_xdg_surface", "freed_role"}

Init ==
  /\ connected = TRUE
  /\ unused = Xdg \cup Role \cup Positioner
  /\ surfaces = Surface /\ buffered = {}
  /\ binds = Bind /\ objects = [b \in {} |-> {}]
  /\ positioners = {} /\ atEnd = {}
  /\ xdgs = {}
  /\ surfaceOf = [x \in Xdg |-> None] /\ bindOf = [x \in Xdg |-> None]
  /\ shellOf = [s \in Surface |-> None]
  /\ toplevel = [x \in Xdg |-> None] /\ popup = [x \in Xdg |-> None]
  /\ roles = {} /\ base = [r \in Role |-> None]
  /\ sent = 0 /\ serials = [x \in Xdg |-> <<>>]
  /\ acked = [x \in Xdg |-> 0]
  /\ outcome = "running"

Ends(how) ==
  /\ outcome' = how
  /\ UNCHANGED <<objectVars, bindVars, xdgVars, roleVars, configureVars>>

(* A new object takes the next of the names for its kind, which are        *)
(* interchangeable.                                                        *)
Use(name, kind) ==
  /\ name \in unused
  /\ name = CHOOSE n \in unused \cap kind : TRUE
  /\ unused' = unused \ {name}

-----------------------------------------------------------------------------
(* wl_surface: a buffer, and the destruction, which leaves the xdg_surface *)
(* with its pointer.                                                       *)
Attach(s) ==
  /\ s \in surfaces
  /\ buffered' = buffered \cup {s}
  /\ UNCHANGED <<connected, unused, surfaces, bindVars, xdgVars, roleVars,
                 configureVars, outcome>>

DestroySurface(s) ==
  /\ s \in surfaces
  /\ surfaces' = surfaces \ {s}
  /\ UNCHANGED <<connected, unused, buffered, bindVars, xdgVars, roleVars,
                 configureVars, outcome>>

-----------------------------------------------------------------------------
Known(b) == b \in DOMAIN objects
ListsOf(b) == IF Known(b) THEN objects[b] ELSE [surfaces |-> {}, positioners |-> {}]
Listing(b, lists) == [c \in DOMAIN objects \cup {b} |-> IF c = b THEN lists ELSE objects[c]]

(* prepareUnbind.                                                          *)
ObjectsWithout(b) == [c \in DOMAIN objects \ {b} |-> objects[c]]

DestroyBind(b) ==
  /\ b \in binds
  /\ IF ListsOf(b).surfaces # {} THEN Ends("protocol_error")
     ELSE /\ binds' = binds \ {b}
          /\ objects' = ObjectsWithout(b)
          /\ atEnd' = atEnd \ ListsOf(b).positioners
          /\ UNCHANGED <<objectVars, positioners, xdgVars, roleVars,
                         configureVars, outcome>>

(* xdg_wm_base.create_positioner; the first object of a bind enters it in  *)
(* the map after the iterator was taken.                                   *)
CreatePositioner(b, p) ==
  /\ b \in binds /\ Use(p, Positioner)
  /\ positioners' = positioners \cup {p}
  /\ objects' = Listing(b, [ListsOf(b) EXCEPT !.positioners = @ \cup {p}])
  /\ atEnd' = IF Known(b) THEN atEnd ELSE atEnd \cup {p}
  /\ UNCHANGED <<connected, surfaces, buffered, binds, xdgVars, roleVars,
                 configureVars, outcome>>

DestroyPositioner(p) ==
  /\ p \in positioners
  /\ IF p \in atEnd THEN Ends("end_iterator")
     ELSE /\ positioners' = positioners \ {p}
          /\ objects' = [b \in DOMAIN objects |->
                           [objects[b] EXCEPT !.positioners = @ \ {p}]]
          /\ UNCHANGED <<objectVars, binds, atEnd, xdgVars, roleVars,
                         configureVars, outcome>>

(* xdg_wm_base.get_xdg_surface; a second one by the same bind is an error. *)
GetXdgSurface(b, x, s) ==
  /\ b \in binds /\ s \in surfaces
  /\ \/ /\ \E y \in ListsOf(b).surfaces : surfaceOf[y] = s
        /\ Ends("protocol_error")
     \/ /\ \A y \in ListsOf(b).surfaces : surfaceOf[y] # s
        /\ Use(x, Xdg)
        /\ xdgs' = xdgs \cup {x}
        /\ surfaceOf' = [surfaceOf EXCEPT ![x] = s]
        /\ bindOf' = [bindOf EXCEPT ![x] = b]
        /\ objects' = Listing(b, [ListsOf(b) EXCEPT !.surfaces = @ \cup {x}])
        /\ UNCHANGED <<connected, surfaces, buffered, binds, positioners, atEnd,
                       roleVars, configureVars, outcome>>

(* xdg_surface.destroy leaves its role object and its surface alone.       *)
KeepListed(x) == objects  \* mutated form of Unlisted
Unlisted(x) ==
  [b \in DOMAIN objects |-> IF b = bindOf[x] THEN [objects[b] EXCEPT !.surfaces = @ \ {x}]
                            ELSE objects[b]]

DestroyXdgSurface(x) ==
  /\ x \in xdgs
  /\ xdgs' = xdgs \ {x}
  /\ objects' = Unlisted(x)
  /\ serials' = [serials EXCEPT ![x] = <<>>]
  /\ acked' = [acked EXCEPT ![x] = 0]
  /\ UNCHANGED <<objectVars, binds, positioners, atEnd, surfaceOf, bindOf,
                 roleVars, sent, outcome>>

-----------------------------------------------------------------------------
(* has_role, of a surface whose shellSurface is null or exists.            *)
RoleUnknown(s) == FALSE  \* mutated form of HasRole
HasRole(s) == shellOf[s] # None /\ (toplevel[shellOf[s]] # None \/ popup[shellOf[s]] # None)

(* xdg_surface.get_toplevel and get_popup: the role object is entered in   *)
(* the xdg_surface, and this in the surface.                               *)
NotEntered(s, x) == shellOf  \* mutated form of ShellEntered
ShellEntered(s, x) == [shellOf EXCEPT ![s] = x]

CanConstruct(x) ==
  LET s == surfaceOf[x] IN
  /\ s \in surfaces /\ shellOf[s] \in xdgs \cup {None}
  /\ ~HasRole(s) /\ s \notin buffered

Construct(x, r) ==
  /\ Use(r, Role)
  /\ roles' = roles \cup {r}
  /\ base' = [base EXCEPT ![r] = x]
  /\ shellOf' = ShellEntered(surfaceOf[x], x)
  /\ UNCHANGED <<connected, surfaces, buffered, bindVars, xdgVars, configureVars, outcome>>

GetToplevel(x, r) ==
  /\ x \in xdgs /\ CanConstruct(x)
  /\ Construct(x, r)
  /\ toplevel' = [toplevel EXCEPT ![x] = r]
  /\ UNCHANGED popup

(* getPositioner and getSurface look through the lists of all binds.       *)
GetPopup(x, r, p, parent) ==
  /\ x \in xdgs /\ CanConstruct(x)
  /\ p \in positioners /\ parent \in xdgs \cup {None}
  /\ IF /\ \E b \in DOMAIN objects : p \in objects[b].positioners
        /\ parent = None \/ \E b \in DOMAIN objects : parent \in objects[b].surfaces
     THEN /\ Construct(x, r)
          /\ popup' = [popup EXCEPT ![x] = r]
          /\ UNCHANGED toplevel
     ELSE Ends("protocol_error")

CannotConstruct(x) ==
  /\ x \in xdgs /\ ~CanConstruct(x)
  /\ Ends(IF surfaceOf[x] \notin surfaces THEN "freed_surface"
          ELSE IF shellOf[surfaceOf[x]] \notin xdgs \cup {None} THEN "freed_xdg_surface"
          ELSE "protocol_error")

(* xdg_toplevel.destroy and xdg_popup.destroy reset the pointer of the     *)
(* surface, not those of the xdg_surface.                                  *)
DestroyRole(r) ==
  /\ r \in roles
  /\ roles' = roles \ {r}
  /\ shellOf' = [s \in Surface |->
                   IF s \in surfaces /\ s = surfaceOf[base[r]] THEN None ELSE shellOf[s]]
  /\ UNCHANGED <<objectVars, bindVars, xdgVars, toplevel, popup, base,
                 configureVars, outcome>>

(* wl_surface.commit follows shellSurface and its toplevel.                *)
CommitFaults(s) ==
  /\ s \in surfaces /\ shellOf[s] # None
  /\ \/ shellOf[s] \notin xdgs /\ Ends("freed_xdg_surface")
     \/ /\ shellOf[s] \in xdgs
        /\ toplevel[shellOf[s]] \notin roles \cup {None}
        /\ Ends("freed_role")

-----------------------------------------------------------------------------
(* configure, called by the compositor.                                    *)
Configure(r) ==
  /\ r \in roles /\ sent < MaxSerials
  /\ IF base[r] \notin xdgs THEN Ends("freed_xdg_surface")
     ELSE /\ sent' = sent + 1
          /\ serials' = [serials EXCEPT ![base[r]] = Append(@, [serial |-> sent', by |-> r])]
          /\ UNCHANGED <<objectVars, bindVars, xdgVars, roleVars, acked, outcome>>

(* xdg_surface.ack_configure with any serial: the ones up to it are taken  *)
(* off the front.                                                          *)
RoleOf(x) == IF toplevel[x] # None THEN toplevel[x] ELSE popup[x]

OnlyIt(queue, n) == SelectSeq(queue, LAMBDA m : m.serial # n)  \* mutated form of Popped
Popped(queue, n) ==
  LET last == CHOOSE i \in DOMAIN queue : queue[i].serial = n
  IN  SubSeq(queue, last + 1, Len(queue))

AckConfigure(x, n) ==
  /\ x \in xdgs
  /\ IF RoleOf(x) = None THEN Ends("protocol_error")
     ELSE IF RoleOf(x) \notin roles THEN Ends("freed_role")
     ELSE /\ \E m \in ToSet(serials[x]) : m.serial = n
          /\ serials' = [serials EXCEPT ![x] = Popped(@, n)]
          /\ acked' = [acked EXCEPT ![x] = n]
          /\ UNCHANGED <<objectVars, bindVars, xdgVars, roleVars, sent, outcome>>

-----------------------------------------------------------------------------
(* The connection is closed and all objects of the client go.              *)
Disconnect ==
  /\ connected' = FALSE
  /\ surfaces' = {} /\ buffered' = {}
  /\ binds' = {} /\ objects' = [b \in {} |-> {}]
  /\ positioners' = {} /\ atEnd' = {}
  /\ xdgs' = {} /\ surfaceOf' = [x \in Xdg |-> None] /\ bindOf' = surfaceOf'
  /\ shellOf' = [s \in Surface |-> None]
  /\ toplevel' = [x \in Xdg |-> None] /\ popup' = toplevel'
  /\ roles' = {} /\ base' = [r \in Role |-> None]
  /\ sent' = 0 /\ serials' = [x \in Xdg |-> <<>>]
  /\ acked' = [x \in Xdg |-> 0]
  /\ unused' = {}
  /\ UNCHANGED outcome

BindStep(b) ==
  \/ DestroyBind(b)
  \/ \E p \in Positioner : CreatePositioner(b, p)
  \/ \E x \in Xdg, s \in Surface : GetXdgSurface(b, x, s)

XdgStep(x) ==
  \/ DestroyXdgSurface(x)
  \/ \E r \in Role :
       \/ GetToplevel(x, r)
       \/ \E p \in Positioner, parent \in Xdg \cup {None} : GetPopup(x, r, p, parent)
  \/ CannotConstruct(x)
  \/ \E n \in Serial : AckConfigure(x, n)

ClientStep ==
  \/ \E s \in Surface :
       Attach(s) \/ DestroySurface(s) \/ CommitFaults(s)
  \/ \E b \in Bind : BindStep(b)
  \/ \E p \in Positioner : DestroyPositioner(p)
  \/ \E x \in Xdg : XdgStep(x)
  \/ \E r \in Role : DestroyRole(r)
  \/ Disconnect

Next ==
  /\ outcome = "running" /\ connected
  /\ ClientStep \/ \E r \in Role : Configure(r)

Spec == Init /\ [][Next]_vars

-----------------------------------------------------------------------------
(* "A surface can't have two roles." (xdg_shell_surface_p.h:58): however   *)
(* many binds and xdg_surfaces there are for it, whatever was destroyed.   *)
(* Commits, acknowledgements and the checks of a further role reach its    *)
(* role object: the pointers lead from the surface over the xdg_surface it *)
(* was made for to this object (xdg_shell_surface.cpp:78).                 *)
RolesOn(s) == {r \in roles : surfaceOf[base[r]] = s}
Reached(r) ==
  /\ shellOf[surfaceOf[base[r]]] = base[r]
  /\ base[r] \in xdgs => r \in {toplevel[base[r]], popup[base[r]]}
OneRole ==
  \A s \in surfaces : \A r \in RolesOn(s) : RolesOn(s) = {r} /\ Reached(r)

(* Objects are listed by the bind they were made by and by no other, until *)
(* one of the two is gone: lookups never meet an object that is gone, and  *)
(* the assertion of the destruction holds (xdg_shell.cpp:133).             *)
ListsExact ==
  \A b \in DOMAIN objects :
    /\ objects[b].surfaces = {x \in xdgs : bindOf[x] = b}
    /\ objects[b].positioners \subseteq positioners

(* What is pending is newer than what was acknowledged: no configure is    *)
(* acknowledged twice or after a later one, whichever serials the client   *)
(* names (xdg_shell_toplevel.cpp:139).                                     *)
NewerPending ==
  \A x \in xdgs : \A i \in DOMAIN serials[x] :
    /\ acked[x] < serials[x][i].serial
    /\ i > 1 => serials[x][i - 1].serial < serials[x][i].serial

(* A role object is told of the acknowledgement of its own configures:     *)
(* "configureAcknowledged" of an earlier object's is not for it            *)
(* (xdg_shell_toplevel.cpp:152).                                           *)
OwnConfigures ==
  [][\A x \in Xdg : acked'[x] > acked[x] =>
       \A m \in ToSet(serials[x]) \ ToSet(serials'[x]) : m.by = RoleOf(x)]_vars

(* No object is used after its destruction.                                *)
NothingFreed == outcome \in {"running", "protocol_error"}

(* Binds and surfaces are interchangeable.                                 *)
Interchangeable == Permutations(Bind) \cup Permutations(Surface)
=============================================================================
