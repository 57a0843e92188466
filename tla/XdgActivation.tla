----------------------------- MODULE XdgActivation -----------------------------
(***************************************************************************)
(* Activation tokens of xdg_activation_v1.cpp: what a token points to      *)
(* while the device, seats and surfaces go before it does.                 *)
(***************************************************************************)
CONSTANTS
  Token,   \* XdgActivationTokenV1 objects
  Seat,    \* seats that are there from the start
  Surface, \* surfaces that are there from the start
  None     \* the null pointer

(* What is assumed of the constants.                                       *)
Assumptions == None \notin Seat \cup Surface

VARIABLES
  device,    \* whether the XdgActivationV1 exists
  seats,     \* seats that exist
  surfaces,  \* surfaces that exist
  tokens,    \* tokens that exist
  deviceSet, \* tokens whose device is not null
  seat,      \* XdgActivationTokenV1::Private::seat
  listens,   \* <<token, seat>> for connections to Seat::destroyed
  surface,   \* XdgActivationTokenV1::Private::surface
  asked,     \* the seat of the last set_serial, None without
  fault      \* a freed object was followed

vars == <<device, seats, surfaces, tokens, deviceSet, seat, listens, surface, asked, fault>>

TypeOK ==
  /\ device \in BOOLEAN /\ seats \subseteq Seat /\ surfaces \subseteq Surface
  /\ tokens \subseteq Token /\ deviceSet \subseteq tokens
  /\ {seat, asked} \subseteq [Token -> Seat \cup {None}] /\ listens \subseteq tokens \X Seat
  /\ surface \in [Token -> Surface \cup {None}] /\ fault \in BOOLEAN

Init ==
  /\ device = TRUE /\ seats = Seat /\ surfaces = Surface
  /\ tokens = {} /\ deviceSet = {} /\ listens = {} /\ fault = FALSE
  /\ seat = [t \in Token |-> None] /\ asked = seat /\ surface = [t \in Token |-> None]

-----------------------------------------------------------------------------
(* get_activation_token; a removed device ignores the request.             *)
GetToken(t) ==
  /\ device /\ t \notin tokens
  /\ tokens' = tokens \cup {t} /\ deviceSet' = deviceSet \cup {t}
  /\ seat' = [seat EXCEPT ![t] = None] /\ asked' = [asked EXCEPT ![t] = None]
  /\ surface' = [surface EXCEPT ![t] = None]
  /\ UNCHANGED <<device, seats, surfaces, listens, fault>>

(* set_serial listens to the new seat instead of the old one; a seat that  *)
(* was removed has no handle to connect to.                                *)
Handle(s) == IF s \in seats THEN s ELSE None
KeepListening(t, s) == listens \cup {<<t, s>>} \* mutated form of Relistened
Relistened(t, s) == (listens \ {<<t, seat[t]>>}) \cup ({<<t, s>>} \cap (tokens \X seats))

SetSerial(t, s) ==
  /\ t \in tokens
  /\ listens' = Relistened(t, s)
  /\ seat' = [seat EXCEPT ![t] = Handle(s)]
  /\ asked' = [asked EXCEPT ![t] = s]
  /\ UNCHANGED <<device, seats, surfaces, tokens, deviceSet, surface, fault>>

SetSurface(t, s) ==
  /\ t \in tokens /\ s \in surfaces
  /\ surface' = [surface EXCEPT ![t] = s]
  /\ UNCHANGED <<device, seats, surfaces, tokens, deviceSet, seat, listens, asked, fault>>

(* commit hands the token to the compositor, who asks for its surface.     *)
Commit(t) ==
  /\ t \in deviceSet
  /\ fault' = (surface[t] \notin surfaces \cup {None})
  /\ UNCHANGED <<device, seats, surfaces, tokens, deviceSet, seat, listens, surface, asked>>

DestroyToken(t) ==
  /\ t \in tokens
  /\ tokens' = tokens \ {t} /\ deviceSet' = deviceSet \ {t}
  /\ listens' = {l \in listens : l[1] # t}
  /\ UNCHANGED <<device, seats, surfaces, seat, surface, asked, fault>>

DestroyDevice ==
  /\ device
  /\ device' = FALSE /\ deviceSet' = {}
  /\ UNCHANGED <<seats, surfaces, tokens, seat, listens, surface, asked, fault>>

(* Each connection to the seat unsets the seat of its token.               *)
DestroySeat(s) ==
  /\ s \in seats
  /\ seats' = seats \ {s}
  /\ seat' = [t \in Token |-> IF <<t, s>> \in listens THEN None ELSE seat[t]]
  /\ listens' = {l \in listens : l[2] # s}
  /\ UNCHANGED <<device, surfaces, tokens, deviceSet, surface, asked, fault>>

(* Tokens are not told.                                                    *)
DestroySurface(s) ==
  /\ s \in surfaces
  /\ surfaces' = surfaces \ {s}
  /\ UNCHANGED <<device, seats, tokens, deviceSet, seat, listens, surface, asked, fault>>

Next ==
  /\ ~fault
  /\ \/ DestroyDevice
     \/ \E t \in Token : GetToken(t) \/ Commit(t) \/ DestroyToken(t)
     \/ \E t \in Token, s \in Seat : SetSerial(t, s)
     \/ \E t \in Token, s \in Surface : SetSurface(t, s)
     \/ \E s \in Seat : DestroySeat(s)
     \/ \E s \in Surface : DestroySurface(s)

Spec == Init /\ [][Next]_vars

-----------------------------------------------------------------------------
(* A token has the device while that exists and the seat its client named  *)
(* last while that exists, however often it named another before           *)
(* (xdg_activation_v1.cpp:80-101, 120-130).                                *)
TokensCurrent ==
  \A t \in tokens :
    /\ t \in deviceSet <=> device
    /\ seat[t] = IF asked[t] \in seats THEN asked[t] ELSE None

(* The compositor is given the surface of a token while it exists          *)
(* (xdg_activation_v1.cpp:103-118, 146-149).                               *)
SurfaceAlive == ~fault
=============================================================================
