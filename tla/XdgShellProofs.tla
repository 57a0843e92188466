---------------------------- MODULE XdgShellProofs ----------------------------
(***************************************************************************)
(* Proofs about XdgShell: for any surfaces, binds and objects of a client, *)
(* a surface has one role object, and every bind lists its own objects.    *)
(***************************************************************************)
EXTENDS XdgShell, SequenceTheorems, TLAPS

(* The types of what the two properties speak of.                          *)
TypesKept ==
  /\ surfaces \subseteq Surface /\ binds \subseteq Bind
  /\ positioners \subseteq Positioner /\ xdgs \subseteq Xdg /\ roles \subseteq Role
  /\ surfaceOf \in [Xdg -> Surface \cup {None}]
  /\ bindOf \in [Xdg -> Bind \cup {None}]
  /\ shellOf \in [Surface -> Xdg \cup {None}]
  /\ toplevel \in [Xdg -> Role \cup {None}]
  /\ popup \in [Xdg -> Role \cup {None}]
  /\ base \in [Role -> Xdg \cup {None}]
  /\ objects \in [DOMAIN objects -> Lists]

(* Names are used once: what exists or existed gets no new object of its   *)
(* name.                                                                   *)
NamesUsed ==
  /\ xdgs \cap unused = {} /\ roles \cap unused = {} /\ positioners \cap unused = {}
  /\ \A r \in roles : base[r] \in Xdg \ unused

(* An xdg_surface is in the list of its bind for as long as it lives.      *)
Listed == \A x \in xdgs : bindOf[x] \in DOMAIN objects

Inv == TypesKept /\ NamesUsed /\ Listed /\ OneRole /\ ListsExact

LEMMA InitInv == Init => Inv
<1> SUFFICES ASSUME Init PROVE Inv
  OBVIOUS
<1>1. TypesKept /\ NamesUsed /\ Listed
  BY DEF Init, TypesKept, NamesUsed, Listed, Lists
<1>2. OneRole /\ ListsExact
  BY DEF Init, OneRole, RolesOn, ListsExact
<1> QED
  BY <1>1, <1>2 DEF Inv

(* OneRole is about surfaces, role objects, and the pointers among them.   *)
LEMMA RolesStay ==
  ASSUME Inv, surfaces' \subseteq surfaces, xdgs' \subseteq xdgs,
         surfaceOf' = surfaceOf, roleVars' = roleVars
  PROVE  OneRole'
BY DEF Inv, TypesKept, OneRole, RolesOn, Reached, roleVars

LEMMA EndsInv ==
  ASSUME Inv, NEW how, Ends(how)
  PROVE  Inv'
BY DEF Inv, Ends, objectVars, bindVars, xdgVars, roleVars, TypesKept, NamesUsed, Listed,
       OneRole, RolesOn, Reached, ListsExact

LEMMA BindStepInv ==
  ASSUME Inv, NEW b \in Bind, BindStep(b)
  PROVE  Inv'
<1>1. CASE DestroyBind(b)
  <2>1. CASE ListsOf(b).surfaces # {}
    BY <1>1, <2>1, EndsInv DEF DestroyBind
  <2>2. CASE ListsOf(b).surfaces = {}
    <3>1. /\ objects' = ObjectsWithout(b) /\ binds' = binds \ {b}
          /\ UNCHANGED <<unused, surfaces, positioners, xdgVars, roleVars>>
      BY <1>1, <2>2 DEF DestroyBind, objectVars
    <3>2. /\ DOMAIN objects' = DOMAIN objects \ {b}
          /\ \A c \in DOMAIN objects' : objects'[c] = objects[c]
      BY <3>1 DEF ObjectsWithout
    <3>3. TypesKept' /\ NamesUsed'
      BY <3>1, <3>2 DEF Inv, TypesKept, NamesUsed, xdgVars, roleVars, ObjectsWithout
    <3>4. \A x \in xdgs : bindOf[x] # b
      BY <2>2 DEF Inv, Listed, ListsExact, ListsOf, Known
    <3>5. Listed' /\ ListsExact'
      BY <3>1, <3>2, <3>4 DEF Inv, Listed, ListsExact, xdgVars
    <3>6. OneRole'
      BY <3>1, RolesStay DEF xdgVars
    <3> QED
      BY <3>3, <3>5, <3>6 DEF Inv
  <2> QED
    BY <2>1, <2>2
<1>2. ASSUME NEW p \in Positioner, CreatePositioner(b, p)
      PROVE  Inv'
  <2>1. /\ p \in unused /\ unused' = unused \ {p} /\ positioners' = positioners \cup {p}
        /\ objects' = Listing(b, [ListsOf(b) EXCEPT !.positioners = @ \cup {p}])
        /\ UNCHANGED <<surfaces, binds, xdgVars, roleVars>>
    BY <1>2 DEF CreatePositioner, Use
  <2>2. ListsOf(b) \in Lists /\ ListsOf(b).surfaces = {x \in xdgs : bindOf[x] = b}
        /\ ListsOf(b).positioners \subseteq positioners
    BY DEF Inv, TypesKept, Listed, ListsExact, ListsOf, Known, Lists
  <2>3. DOMAIN objects' = DOMAIN objects \cup {b}
    BY <2>1 DEF Listing
  <2>4. ASSUME NEW c \in DOMAIN objects'
        PROVE  /\ objects'[c] \in Lists
               /\ objects'[c].surfaces = {x \in xdgs : bindOf[x] = c}
               /\ objects'[c].positioners \subseteq positioners'
    <3>1. CASE c = b
      BY <2>1, <2>2, <2>4, <3>1 DEF Listing, Lists
    <3>2. CASE c # b
      BY <2>1, <2>3, <2>4, <3>2 DEF Inv, TypesKept, ListsExact, Listing
    <3> QED
      BY <3>1, <3>2
  <2>5. TypesKept'
    <3>1. objects' \in [DOMAIN objects' -> Lists]
      BY <2>1, <2>3, <2>4 DEF Listing
    <3> QED
      BY <2>1, <3>1 DEF Inv, TypesKept, xdgVars, roleVars
  <2>6. NamesUsed'
    BY <2>1 DEF Inv, NamesUsed, xdgVars, roleVars
  <2>7. Listed' /\ ListsExact'
    BY <2>1, <2>3, <2>4 DEF Inv, Listed, ListsExact, xdgVars
  <2>8. OneRole'
    BY <2>1, RolesStay DEF xdgVars
  <2> QED
    BY <2>5, <2>6, <2>7, <2>8 DEF Inv
<1>3. ASSUME NEW x \in Xdg, NEW s \in Surface, GetXdgSurface(b, x, s)
      PROVE  Inv'
  <2>1. CASE Ends("protocol_error")
    BY <2>1, EndsInv
  <2>2. CASE ~Ends("protocol_error")
    <3>1. /\ x \in unused /\ unused' = unused \ {x} /\ xdgs' = xdgs \cup {x}
          /\ surfaceOf' = [surfaceOf EXCEPT ![x] = s]
          /\ bindOf' = [bindOf EXCEPT ![x] = b]
          /\ objects' = Listing(b, [ListsOf(b) EXCEPT !.surfaces = @ \cup {x}])
          /\ UNCHANGED <<surfaces, binds, positioners, roleVars>>
      BY <1>3, <2>2 DEF GetXdgSurface, Use
    <3>2. ListsOf(b) \in Lists /\ ListsOf(b).surfaces = {y \in xdgs : bindOf[y] = b}
          /\ ListsOf(b).positioners \subseteq positioners
      BY DEF Inv, TypesKept, Listed, ListsExact, ListsOf, Known, Lists
    <3>3. DOMAIN objects' = DOMAIN objects \cup {b} /\ x \notin xdgs
      BY <3>1 DEF Listing, Inv, NamesUsed
    <3>4. \A y \in Xdg : /\ surfaceOf'[y] = IF y = x THEN s ELSE surfaceOf[y]
                         /\ bindOf'[y] = IF y = x THEN b ELSE bindOf[y]
      BY <3>1 DEF Inv, TypesKept
    <3>5. ASSUME NEW c \in DOMAIN objects'
          PROVE  /\ objects'[c] \in Lists
                 /\ objects'[c].surfaces = {y \in xdgs' : bindOf'[y] = c}
                 /\ objects'[c].positioners \subseteq positioners'
      <4>1. CASE c = b
        <5>1. objects'[c] = [ListsOf(b) EXCEPT !.surfaces = @ \cup {x}]
          BY <3>1, <3>5, <4>1 DEF Listing
        <5>2. {y \in xdgs' : bindOf'[y] = c} = {y \in xdgs : bindOf[y] = b} \cup {x}
          BY <3>1, <3>3, <3>4, <4>1 DEF Inv, TypesKept
        <5> QED
          BY <3>1, <3>2, <5>1, <5>2 DEF Lists
      <4>2. CASE c # b
        <5>1. c \in DOMAIN objects /\ objects'[c] = objects[c]
          BY <3>1, <3>3, <3>5, <4>2 DEF Listing
        <5>2. {y \in xdgs' : bindOf'[y] = c} = {y \in xdgs : bindOf[y] = c}
          BY <3>1, <3>3, <3>4, <4>2 DEF Inv, TypesKept
        <5> QED
          BY <3>1, <5>1, <5>2 DEF Inv, TypesKept, ListsExact
      <4> QED
        BY <4>1, <4>2
    <3>6. TypesKept'
      <4>1. objects' \in [DOMAIN objects' -> Lists]
        BY <3>1, <3>3, <3>5 DEF Listing
      <4> QED
        BY <3>1, <4>1 DEF Inv, TypesKept, roleVars
    <3>7. NamesUsed'
      BY <3>1 DEF Inv, NamesUsed, roleVars
    <3>8. Listed' /\ ListsExact'
      BY <3>1, <3>3, <3>4, <3>5 DEF Inv, TypesKept, Listed, ListsExact
    <3>9. OneRole'
      <4>1. \A r \in roles : base[r] # x /\ base[r] \in Xdg
        BY <3>1 DEF Inv, NamesUsed
      <4>2. \A r \in roles : surfaceOf'[base[r]] = surfaceOf[base[r]]
        BY <3>4, <4>1
      <4> QED
        BY <3>1, <4>1, <4>2 DEF Inv, OneRole, RolesOn, Reached, roleVars
    <3> QED
      BY <3>6, <3>7, <3>8, <3>9 DEF Inv
  <2> QED
    BY <2>1, <2>2
<1> QED
  BY <1>1, <1>2, <1>3 DEF BindStep

(* A role object is only constructed for a surface that has none: if it    *)
(* had one, the pointers would have led there.                             *)
LEMMA NoRoleYet ==
  ASSUME Inv, NEW x \in Xdg, CanConstruct(x)
  PROVE  RolesOn(surfaceOf[x]) = {}
<1>1. SUFFICES ASSUME NEW r \in RolesOn(surfaceOf[x]) PROVE FALSE
  OBVIOUS
<1>2. surfaceOf[x] \in surfaces /\ Reached(r) /\ r \in roles /\ surfaceOf[base[r]] = surfaceOf[x]
  BY DEF Inv, OneRole, RolesOn, CanConstruct
<1>3. shellOf[surfaceOf[x]] = base[r] /\ base[r] \in Xdg
  BY <1>2 DEF Reached, Inv, NamesUsed
<1>4. base[r] \in xdgs /\ r \in {toplevel[base[r]], popup[base[r]]} /\ base[r] # None /\ r # None
  BY <1>2, <1>3, NoneAssumption DEF Reached, CanConstruct, Inv, TypesKept
<1> QED
  BY <1>2, <1>3, <1>4 DEF CanConstruct, HasRole

LEMMA ConstructInv ==
  ASSUME Inv, NEW x \in xdgs, NEW r \in Role, CanConstruct(x), Construct(x, r),
         \/ toplevel' = [toplevel EXCEPT ![x] = r] /\ popup' = popup
         \/ popup' = [popup EXCEPT ![x] = r] /\ toplevel' = toplevel
  PROVE  Inv'
<1> DEFINE s == surfaceOf[x]
<1>1. /\ r \in unused /\ unused' = unused \ {r} /\ roles' = roles \cup {r}
      /\ base' = [base EXCEPT ![r] = x] /\ shellOf' = [shellOf EXCEPT ![s] = x]
      /\ UNCHANGED <<surfaces, binds, objects, positioners, xdgs, surfaceOf, bindOf>>
  BY DEF Construct, Use, ShellEntered, bindVars, xdgVars
<1>2. x \in Xdg /\ s \in surfaces /\ s \in Surface /\ r \notin roles /\ RolesOn(s) = {}
  BY <1>1, NoRoleYet DEF Inv, TypesKept, NamesUsed, CanConstruct
<1>3. TypesKept'
  BY <1>1, <1>2 DEF Inv, TypesKept
<1>4. \A q \in Role : base'[q] = IF q = r THEN x ELSE base[q]
  BY <1>1 DEF Inv, TypesKept
<1>5. NamesUsed'
  BY <1>1, <1>2, <1>4 DEF Inv, TypesKept, NamesUsed
<1>6. Listed' /\ ListsExact'
  BY <1>1 DEF Inv, Listed, ListsExact
<1>7. ASSUME NEW t \in surfaces', NEW q \in RolesOn(t)'
      PROVE  RolesOn(t)' = {q} /\ Reached(q)'
  <2>1. RolesOn(t)' = {p \in roles \cup {r} : surfaceOf[IF p = r THEN x ELSE base[p]] = t}
    BY <1>1, <1>4 DEF RolesOn, Inv, TypesKept
  <2>2. CASE t = s
    <3>1. RolesOn(t)' = {r}
      BY <1>2, <2>1, <2>2 DEF RolesOn
    <3>2. shellOf'[s] = x /\ r \in {toplevel'[x], popup'[x]}
      BY <1>1, <1>2 DEF Inv, TypesKept
    <3> QED
      BY <1>1, <1>4, <3>1, <3>2 DEF Reached
  <2>3. CASE t # s
    <3>1. RolesOn(t)' = RolesOn(t) /\ q # r /\ q \in RolesOn(t) /\ t \in surfaces /\ q \in Role
      <4>1. RolesOn(t)' = RolesOn(t)
        BY <1>2, <2>1, <2>3 DEF RolesOn
      <4>2. r \notin RolesOn(t) /\ RolesOn(t) \subseteq Role /\ surfaces' = surfaces
        BY <1>1, <1>2 DEF RolesOn, Inv, TypesKept
      <4> QED
        BY <1>7, <4>1, <4>2
    <3>2. RolesOn(t) = {q} /\ Reached(q) /\ surfaceOf[base[q]] = t
      BY <3>1 DEF Inv, OneRole, RolesOn
    <3>3. base'[q] = base[q] /\ base[q] # x /\ base[q] \in Xdg
      BY <1>4, <2>3, <3>1, <3>2 DEF Inv, NamesUsed, RolesOn
    <3>4. toplevel'[base[q]] = toplevel[base[q]] /\ popup'[base[q]] = popup[base[q]]
      BY <3>3 DEF Inv, TypesKept
    <3>5. shellOf'[t] = shellOf[t]
      BY <1>1, <2>3, <3>1 DEF Inv, TypesKept
    <3> QED
      BY <1>1, <3>1, <3>2, <3>3, <3>4, <3>5 DEF Reached
  <2> QED
    BY <2>2, <2>3
<1>8. OneRole'
  BY <1>7 DEF OneRole
<1> QED
  BY <1>3, <1>5, <1>6, <1>8 DEF Inv

LEMMA XdgStepInv ==
  ASSUME Inv, NEW x \in Xdg, XdgStep(x)
  PROVE  Inv'
<1>1. CASE DestroyXdgSurface(x)
  <2>1. /\ xdgs' = xdgs \ {x} /\ x \in xdgs /\ objects' = Unlisted(x)
        /\ UNCHANGED <<unused, surfaces, binds, positioners, surfaceOf, bindOf, roleVars>>
    BY <1>1 DEF DestroyXdgSurface, objectVars
  <2>2. DOMAIN objects' = DOMAIN objects
    BY <2>1 DEF Unlisted
  <2>3. ASSUME NEW b \in DOMAIN objects
        PROVE  /\ objects'[b] \in Lists
               /\ objects'[b].surfaces = {y \in xdgs' : bindOf'[y] = b}
               /\ objects'[b].positioners \subseteq positioners'
    <3>1. /\ objects[b] \in Lists /\ objects[b].surfaces = {y \in xdgs : bindOf[y] = b}
          /\ objects[b].positioners \subseteq positioners
      BY DEF Inv, TypesKept, ListsExact
    <3>2. CASE b = bindOf[x]
      BY <2>1, <3>1, <3>2 DEF Unlisted, Lists
    <3>3. CASE b # bindOf[x]
      BY <2>1, <3>1, <3>3 DEF Unlisted
    <3> QED
      BY <3>2, <3>3
  <2>4. TypesKept'
    <3>1. objects' \in [DOMAIN objects' -> Lists]
      BY <2>1, <2>2, <2>3 DEF Unlisted
    <3> QED
      BY <2>1, <3>1 DEF Inv, TypesKept, roleVars
  <2>5. NamesUsed' /\ Listed' /\ ListsExact'
    BY <2>1, <2>2, <2>3 DEF Inv, NamesUsed, Listed, ListsExact, roleVars
  <2>6. OneRole'
    BY <2>1, RolesStay
  <2> QED
    BY <2>4, <2>5, <2>6 DEF Inv
<1>2. ASSUME NEW r \in Role, GetToplevel(x, r)
      PROVE  Inv'
  BY <1>2, ConstructInv DEF GetToplevel
<1>3. ASSUME NEW r \in Role, NEW p \in Positioner, NEW parent \in Xdg \cup {None},
             GetPopup(x, r, p, parent)
      PROVE  Inv'
  BY <1>3, ConstructInv, EndsInv DEF GetPopup
<1>4. CASE CannotConstruct(x)
  BY <1>4, EndsInv DEF CannotConstruct
<1>5. ASSUME NEW n \in Serial, AckConfigure(x, n)
      PROVE  Inv'
  <2>1. CASE \E how : Ends(how)
    BY <2>1, EndsInv
  <2>2. CASE UNCHANGED <<objectVars, bindVars, xdgVars, roleVars>>
    BY <2>2 DEF Inv, objectVars, bindVars, xdgVars, roleVars, TypesKept, NamesUsed, Listed,
       OneRole, RolesOn, Reached, ListsExact
  <2> QED
    BY <1>5, <2>1, <2>2 DEF AckConfigure
<1> QED
  BY <1>1, <1>2, <1>3, <1>4, <1>5 DEF XdgStep

(* The surface forgets the role object that is destroyed, and as it had no *)
(* other, no pointer to another is lost.                                   *)
LEMMA DestroyRoleInv ==
  ASSUME Inv, NEW r \in Role, DestroyRole(r)
  PROVE  Inv'
<1>1. /\ r \in roles /\ roles' = roles \ {r}
      /\ shellOf' = [s \in Surface |->
                       IF s \in surfaces /\ s = surfaceOf[base[r]] THEN None ELSE shellOf[s]]
      /\ UNCHANGED <<unused, surfaces, binds, objects, positioners, xdgs, surfaceOf, bindOf,
                     toplevel, popup, base>>
  BY DEF DestroyRole, objectVars, bindVars, xdgVars
<1>2. TypesKept' /\ NamesUsed' /\ Listed' /\ ListsExact'
  BY <1>1 DEF Inv, TypesKept, NamesUsed, Listed, ListsExact
<1>3. ASSUME NEW s \in surfaces', NEW q \in RolesOn(s)'
      PROVE  RolesOn(s)' = {q} /\ Reached(q)'
  <2>1. s \in surfaces /\ s \in Surface /\ q \in RolesOn(s) /\ q # r /\ RolesOn(s)' \subseteq RolesOn(s)
    BY <1>1, <1>3 DEF RolesOn, Inv, TypesKept
  <2>2. RolesOn(s) = {q} /\ Reached(q) /\ surfaceOf[base[q]] = s
    BY <2>1 DEF Inv, OneRole, RolesOn
  <2>3. surfaceOf[base[r]] # s
    BY <1>1, <2>1, <2>2 DEF RolesOn
  <2>4. shellOf'[s] = shellOf[s]
    BY <1>1, <2>1, <2>3
  <2> QED
    BY <1>1, <1>3, <2>1, <2>2, <2>4 DEF Reached
<1>4. OneRole'
  BY <1>3 DEF OneRole
<1> QED
  BY <1>2, <1>4 DEF Inv

LEMMA DestroyPositionerInv ==
  ASSUME Inv, NEW p \in Positioner, DestroyPositioner(p)
  PROVE  Inv'
<1>1. CASE p \in atEnd
  BY <1>1, EndsInv DEF DestroyPositioner
<1>2. CASE p \notin atEnd
  <2>1. /\ positioners' = positioners \ {p}
        /\ objects' = [b \in DOMAIN objects |-> [objects[b] EXCEPT !.positioners = @ \ {p}]]
        /\ UNCHANGED <<unused, surfaces, binds, xdgVars, roleVars>>
    BY <1>2 DEF DestroyPositioner, objectVars
  <2>2. \A b \in DOMAIN objects :
          /\ objects'[b] \in Lists
          /\ objects'[b].surfaces = {x \in xdgs : bindOf[x] = b}
          /\ objects'[b].positioners \subseteq positioners'
    BY <2>1 DEF Inv, TypesKept, ListsExact, Lists
  <2>3. TypesKept' /\ NamesUsed' /\ Listed' /\ ListsExact'
    BY <2>1, <2>2 DEF Inv, TypesKept, NamesUsed, Listed, ListsExact, xdgVars, roleVars
  <2>4. OneRole'
    BY <2>1, RolesStay DEF xdgVars
  <2> QED
    BY <2>3, <2>4 DEF Inv
<1> QED
  BY <1>1, <1>2

LEMMA DisconnectInv == ASSUME Inv, Disconnect PROVE Inv'
<1>1. /\ surfaces' = {} /\ binds' = {} /\ objects' = [b \in {} |-> {}] /\ positioners' = {}
      /\ xdgs' = {} /\ roles' = {} /\ unused' = {}
      /\ surfaceOf' = [x \in Xdg |-> None] /\ bindOf' = [x \in Xdg |-> None]
      /\ shellOf' = [s \in Surface |-> None] /\ base' = [r \in Role |-> None]
      /\ toplevel' = [x \in Xdg |-> None] /\ popup' = [x \in Xdg |-> None]
  BY DEF Disconnect
<1> QED
  BY <1>1 DEF Inv, TypesKept, NamesUsed, Listed, ListsExact, OneRole, RolesOn

(* Steps that leave what the invariant speaks of alone, but for surfaces.  *)
LEMMA SurfaceStepInv ==
  ASSUME Inv, NEW s \in Surface, Attach(s) \/ DestroySurface(s) \/ CommitFaults(s)
  PROVE  Inv'
<1>1. CASE Attach(s) \/ DestroySurface(s)
  <2>1. /\ surfaces' \subseteq surfaces /\ unused' = unused
        /\ UNCHANGED <<bindVars, xdgVars, roleVars>>
    BY <1>1 DEF Attach, DestroySurface
  <2>2. TypesKept' /\ NamesUsed' /\ Listed' /\ ListsExact'
    BY <2>1 DEF Inv, TypesKept, NamesUsed, Listed, ListsExact, bindVars, xdgVars, roleVars
  <2>3. OneRole'
    BY <2>1, RolesStay DEF xdgVars
  <2> QED
    BY <2>2, <2>3 DEF Inv
<1>2. CASE CommitFaults(s)
  BY <1>2, EndsInv DEF CommitFaults
<1> QED
  BY <1>1, <1>2

LEMMA ConfigureInv ==
  ASSUME Inv, NEW r \in Role, Configure(r)
  PROVE  Inv'
<1>1. CASE base[r] \notin xdgs
  BY <1>1, EndsInv DEF Configure
<1>2. CASE base[r] \in xdgs
  <2>1. UNCHANGED <<objectVars, bindVars, xdgVars, roleVars>>
    BY <1>2 DEF Configure
  <2> QED
    BY <2>1 DEF Inv, objectVars, bindVars, xdgVars, roleVars, TypesKept, NamesUsed, Listed,
       OneRole, RolesOn, Reached, ListsExact
<1> QED
  BY <1>1, <1>2

LEMMA NextInv == Inv /\ [Next]_vars => Inv'
<1> SUFFICES ASSUME Inv, [Next]_vars PROVE Inv'
  OBVIOUS
<1>1. CASE UNCHANGED vars
  BY <1>1 DEF vars, objectVars, bindVars, xdgVars, roleVars, Inv, TypesKept, NamesUsed, Listed,
     OneRole, RolesOn, Reached, ListsExact
<1>2. CASE ClientStep
  BY <1>2, SurfaceStepInv, BindStepInv, DestroyPositionerInv, XdgStepInv, DestroyRoleInv,
     DisconnectInv DEF ClientStep
<1> QED
  BY <1>1, <1>2, ConfigureInv DEF Next

(* However many binds and xdg_surfaces there are for a surface, and        *)
(* whatever was destroyed before, no second role object is made, and the   *)
(* one there is is reached (xdg_shell_surface.cpp:78).                     *)
THEOREM OneRoleCorrect == Spec => []OneRole
<1>1. Inv => OneRole
  BY DEF Inv
<1> QED
  BY <1>1, InitInv, NextInv, PTL DEF Spec

(* The lists of binds are exact for any number of binds of a client, so    *)
(* that the assertion of ~XdgShellSurface holds (xdg_shell.cpp:133).       *)
THEOREM ListsExactCorrect == Spec => []ListsExact
<1>1. Inv => ListsExact
  BY DEF Inv
<1> QED
  BY <1>1, InitInv, NextInv, PTL DEF Spec

-----------------------------------------------------------------------------
(* What is pending is ordered as a whole, not only between neighbours, and *)
(* no configure is newer than the last that was sent: the next one goes to *)
(* the end, and what an acknowledgement leaves is newer than it.           *)
Pending == [serial : Nat, by : Role]
Ordered(queue, n, last) ==
  /\ \A i \in DOMAIN queue : n < queue[i].serial /\ queue[i].serial <= last
  /\ \A i, j \in DOMAIN queue : i < j => queue[i].serial < queue[j].serial

QueuesInv ==
  /\ sent \in Nat /\ serials \in [Xdg -> Seq(Pending)] /\ acked \in [Xdg -> Nat]
  /\ \A x \in Xdg : acked[x] <= sent /\ Ordered(serials[x], acked[x], sent)

LEMMA QueuesKept ==
  ASSUME QueuesInv, configureVars' = configureVars
  PROVE  QueuesInv'
BY DEF QueuesInv, Ordered, configureVars

LEMMA EmptyOrdered ==
  ASSUME NEW n, NEW last
  PROVE  << >> \in Seq(Pending) /\ Ordered(<< >>, n, last)
BY DEF Ordered

LEMMA Elements ==
  ASSUME NEW queue \in Seq(Pending)
  PROVE  /\ Len(queue) \in Nat /\ DOMAIN queue = 1 .. Len(queue)
         /\ \A i \in DOMAIN queue : queue[i] \in Pending /\ queue[i].serial \in Nat
<1>1. /\ Len(queue) \in Nat /\ DOMAIN queue = 1 .. Len(queue)
      /\ \A i \in DOMAIN queue : queue[i] \in Pending
  OBVIOUS
<1>2. \A m \in Pending : m.serial \in Nat
  BY DEF Pending
<1> QED
  BY <1>1, <1>2

LEMMA ConfigureOrdered ==
  ASSUME QueuesInv, Inv, NEW r \in Role, Configure(r)
  PROVE  QueuesInv'
<1>1. CASE base[r] \notin xdgs
  BY <1>1, QueuesKept DEF Configure, Ends
<1>2. CASE base[r] \in xdgs
  <2> DEFINE x == base[r]
             m == [serial |-> sent + 1, by |-> r]
  <2>1. /\ sent' = sent + 1 /\ acked' = acked /\ x \in Xdg
        /\ serials' = [serials EXCEPT ![x] = Append(serials[x], m)]
    BY <1>2 DEF Configure, Inv, TypesKept
  <2> HIDE DEF x
  <2>2. /\ serials[x] \in Seq(Pending) /\ Ordered(serials[x], acked[x], sent)
        /\ acked[x] \in Nat /\ sent \in Nat /\ acked[x] <= sent
    BY <2>1 DEF QueuesInv
  <2>m. m \in Pending /\ m.serial = sent + 1
    BY <2>2 DEF Pending
  <2> HIDE DEF m
  <2>3. /\ Append(serials[x], m) \in Seq(Pending)
        /\ DOMAIN Append(serials[x], m) = 1 .. Len(serials[x]) + 1
        /\ \A i \in 1 .. Len(serials[x]) : Append(serials[x], m)[i] = serials[x][i]
        /\ Append(serials[x], m)[Len(serials[x]) + 1] = m
        /\ Len(serials[x]) \in Nat /\ DOMAIN serials[x] = 1 .. Len(serials[x])
    BY <2>2, <2>m, AppendProperties, Elements
  <2>4. \A i \in 1 .. Len(serials[x]) :
          serials[x][i].serial \in Nat /\ acked[x] < serials[x][i].serial /\ serials[x][i].serial <= sent
    BY <2>2, Elements DEF Ordered
  <2>5. Ordered(Append(serials[x], m), acked[x], sent')
    BY SMTT(30), <2>1, <2>2, <2>m, <2>3, <2>4 DEF Ordered
  <2>6. ASSUME NEW y \in Xdg, y # x
        PROVE  acked'[y] <= sent' /\ Ordered(serials'[y], acked'[y], sent')
    <3>1. /\ serials'[y] = serials[y] /\ serials[y] \in Seq(Pending) /\ acked'[y] = acked[y]
          /\ sent \in Nat /\ sent' = sent + 1 /\ acked[y] \in Nat /\ acked[y] <= sent /\ Ordered(serials[y], acked[y], sent)
      BY <2>1, <2>6 DEF QueuesInv
    <3>2. \A i \in DOMAIN serials[y] : serials[y][i].serial \in Nat
      BY <3>1, Elements
    <3> QED
      BY <3>1, <3>2 DEF Ordered
  <2> QED
    <3>1. serials' \in [Xdg -> Seq(Pending)] /\ sent' \in Nat /\ acked' \in [Xdg -> Nat]
      BY <2>1, <2>2, <2>3 DEF QueuesInv
    <3>2. acked'[x] <= sent' /\ Ordered(serials'[x], acked'[x], sent')
      BY <2>1, <2>2, <2>5 DEF QueuesInv
    <3> QED
      BY <2>6, <3>1, <3>2 DEF QueuesInv
<1> QED
  BY <1>1, <1>2

(* What is left of a queue after its first elements. *)
LEMMA RestElements ==
  ASSUME NEW S, NEW q, NEW len \in Nat, NEW last \in 1 .. len, \A i \in 1 .. len : q[i] \in S
  PROVE  LET rest == SubSeq(q, last + 1, len)
         IN  /\ rest \in Seq(S) /\ Len(rest) = len - last
             /\ \A i \in 1 .. Len(rest) : rest[i] = q[last + i]
<1> DEFINE m == last + 1
           rest == SubSeq(q, m, len)
<1>1. m \in Int /\ len \in Int /\ m .. len \subseteq 1 .. len
  OBVIOUS
<1>2. \A i \in m .. len : q[i] \in S
  BY <1>1
<1> HIDE DEF m
<1>3. /\ rest \in Seq(S)
      /\ Len(rest) = IF m <= len THEN len - m + 1 ELSE 0
      /\ \A i \in 1 .. len - m + 1 : rest[i] = q[m + i - 1]
  BY <1>1, <1>2, SubSeqProperties
<1> HIDE DEF rest
<1>4. Len(rest) = len - last /\ len - m + 1 = len - last
  BY <1>3 DEF m
<1>5. ASSUME NEW i \in 1 .. Len(rest) PROVE rest[i] = q[last + i]
  <2>1. i \in 1 .. len - m + 1 /\ m + i - 1 = last + i
    BY <1>4, <1>5 DEF m
  <2> QED
    BY <1>3, <2>1
<1> QED
  BY <1>3, <1>4, <1>5 DEF rest, m

LEMMA AckOrdered ==
  ASSUME QueuesInv, NEW x \in Xdg, NEW n \in Serial, AckConfigure(x, n)
  PROVE  QueuesInv'
<1>1. CASE \E how : Ends(how)
  BY <1>1, QueuesKept DEF Ends
<1>2. CASE /\ \E m \in ToSet(serials[x]) : m.serial = n
           /\ serials' = [serials EXCEPT ![x] = Popped(serials[x], n)]
           /\ acked' = [acked EXCEPT ![x] = n] /\ sent' = sent
  <2> DEFINE queue == serials[x]
             last == CHOOSE i \in DOMAIN queue : queue[i].serial = n
  <2>1. queue \in Seq(Pending) /\ Ordered(queue, acked[x], sent) /\ sent \in Nat
    BY DEF QueuesInv
  <2>2. last \in DOMAIN queue /\ queue[last].serial = n
    BY <1>2 DEF ToSet
  <2> HIDE DEF last
  <2>3. /\ last \in 1 .. Len(queue) /\ Len(queue) \in Nat /\ n \in Nat /\ n <= sent
        /\ \A i \in 1 .. Len(queue) : queue[i] \in Pending
    BY <2>1, <2>2, Elements DEF Ordered
  <2>4. Popped(queue, n) = SubSeq(queue, last + 1, Len(queue))
    BY DEF Popped, last
  <2> DEFINE rest == SubSeq(queue, last + 1, Len(queue))
  <2>5. /\ rest \in Seq(Pending) /\ Len(rest) = Len(queue) - last
        /\ \A i \in 1 .. Len(rest) : rest[i] = queue[last + i]
    BY <2>3, RestElements
  <2> HIDE DEF rest
  <2>6. /\ DOMAIN rest = 1 .. Len(rest)
        /\ \A i \in DOMAIN rest : last + i \in DOMAIN queue /\ rest[i] = queue[last + i]
    <3>1. DOMAIN rest = 1 .. Len(rest) /\ DOMAIN queue = 1 .. Len(queue) /\ Len(rest) \in Nat
      BY <2>1, <2>5, Elements
    <3> QED
      BY SMTT(30), <2>3, <2>5, <3>1
  <2>7. Ordered(rest, n, sent)
    <3>1. \A i \in DOMAIN queue : queue[i].serial \in Nat
      BY <2>1, Elements
    <3>2. ASSUME NEW i \in DOMAIN rest
          PROVE  n < rest[i].serial /\ rest[i].serial <= sent
      BY SMTT(30), <2>1, <2>2, <2>3, <2>6, <3>1, <3>2 DEF Ordered
    <3>3. ASSUME NEW i \in DOMAIN rest, NEW j \in DOMAIN rest, i < j
          PROVE  rest[i].serial < rest[j].serial
      BY SMTT(30), <2>1, <2>3, <2>6, <3>1, <3>3 DEF Ordered
    <3> QED
      BY <3>2, <3>3 DEF Ordered
  <2>8. ASSUME NEW y \in Xdg, y # x
        PROVE  acked'[y] <= sent' /\ Ordered(serials'[y], acked'[y], sent')
    BY <1>2, <2>8 DEF QueuesInv, Ordered
  <2> QED
    <3>1. serials' \in [Xdg -> Seq(Pending)] /\ sent' \in Nat /\ acked' \in [Xdg -> Nat]
      BY <1>2, <2>3, <2>4, <2>5 DEF QueuesInv, rest
    <3>2. acked'[x] <= sent' /\ Ordered(serials'[x], acked'[x], sent')
      BY <1>2, <2>3, <2>4, <2>7 DEF QueuesInv, rest
    <3> QED
      BY <2>8, <3>1, <3>2 DEF QueuesInv
<1> QED
  BY <1>1, <1>2 DEF AckConfigure

LEMMA QueuesNext == Inv /\ QueuesInv /\ [Next]_vars => QueuesInv'
<1> SUFFICES ASSUME Inv, QueuesInv, [Next]_vars PROVE QueuesInv'
  OBVIOUS
<1>1. ASSUME NEW x \in Xdg, DestroyXdgSurface(x) PROVE QueuesInv'
  BY <1>1, EmptyOrdered DEF DestroyXdgSurface, QueuesInv, Ordered
<1>2. CASE Disconnect
  BY <1>2, EmptyOrdered DEF Disconnect, QueuesInv, Ordered
<1>3. CASE UNCHANGED configureVars
  BY <1>3, QueuesKept
<1>4. ASSUME NEW b \in Bind, BindStep(b) PROVE UNCHANGED configureVars
  BY <1>4 DEF BindStep, DestroyBind, CreatePositioner, GetXdgSurface, Ends
<1>5. ASSUME NEW x \in Xdg, XdgStep(x) PROVE QueuesInv'
  BY <1>1, <1>3, <1>5, AckOrdered DEF XdgStep, GetToplevel, GetPopup, Construct, CannotConstruct, Ends
<1>6. ASSUME NEW s \in Surface, Attach(s) \/ DestroySurface(s) \/ CommitFaults(s)
      PROVE  UNCHANGED configureVars
  BY <1>6 DEF Attach, DestroySurface, CommitFaults, Ends
<1>7. ASSUME NEW p \in Positioner, DestroyPositioner(p) PROVE UNCHANGED configureVars
  BY <1>7 DEF DestroyPositioner, Ends
<1>8. ASSUME NEW r \in Role, DestroyRole(r) PROVE UNCHANGED configureVars
  BY <1>8 DEF DestroyRole
<1>9. CASE ClientStep
  BY <1>2, <1>3, <1>4, <1>5, <1>6, <1>7, <1>8, <1>9 DEF ClientStep
<1> QED
  BY <1>3, <1>9, ConfigureOrdered DEF Next, vars

(* Whatever serials the client names, and however often, no configure is   *)
(* acknowledged twice or after a later one (xdg_shell_toplevel.cpp:139).   *)
THEOREM NewerPendingCorrect == Spec => []NewerPending
<1>1. Init => QueuesInv
  BY EmptyOrdered DEF Init, QueuesInv
<1>2. Inv /\ QueuesInv => NewerPending
  <2> SUFFICES ASSUME Inv, QueuesInv, NEW x \in xdgs, NEW i \in DOMAIN serials[x]
               PROVE  /\ acked[x] < serials[x][i].serial
                      /\ i > 1 => serials[x][i - 1].serial < serials[x][i].serial
    BY DEF NewerPending
  <2>1. x \in Xdg /\ serials[x] \in Seq(Pending) /\ Ordered(serials[x], acked[x], sent)
    BY DEF Inv, TypesKept, QueuesInv
  <2>2. i > 1 => i - 1 \in DOMAIN serials[x] /\ i - 1 < i
    BY <2>1
  <2> QED
    BY <2>1, <2>2 DEF Ordered
<1> QED
  BY <1>1, <1>2, InitInv, NextInv, QueuesNext, PTL DEF Spec
=============================================================================
