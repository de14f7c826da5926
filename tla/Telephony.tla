----------------------------- MODULE Telephony -----------------------------
(***************************************************************************)
(* What the call feature promises, with every mechanism left out: a call   *)
(* rings, may be answered, and ends for good; two people share a call only *)
(* while neither of them is in another one.  Calls (the Redis call store   *)
(* and the handlers around it) is shown to implement this module.          *)
(***************************************************************************)
CONSTANTS
  Users,   \* the people who can call each other
  Calls    \* the identifiers calls are given

VARIABLES
  phase,   \* phase[c]: "idle", "ringing", "active" or "over"
  line     \* line[c]: the people call c connects, {} before it rings

vars == <<phase, line>>

Engaged(c) == phase[c] \in {"ringing", "active"}

Init ==
  /\ phase = [c \in Calls |-> "idle"]
  /\ line = [c \in Calls |-> {}]

(* Call c starts to ring between a and b, neither of whom is engaged.      *)
Ring(c, a, b) ==
  /\ phase[c] = "idle"
  /\ a # b
  /\ \A d \in Calls : Engaged(d) => {a, b} \cap line[d] = {}
  /\ phase' = [phase EXCEPT ![c] = "ringing"]
  /\ line' = [line EXCEPT ![c] = {a, b}]

Answer(c) ==
  /\ phase[c] = "ringing"
  /\ phase' = [phase EXCEPT ![c] = "active"]
  /\ UNCHANGED line

End(c) ==
  /\ Engaged(c)
  /\ phase' = [phase EXCEPT ![c] = "over"]
  /\ UNCHANGED line

Next ==
  \E c \in Calls :
    \/ \E a, b \in Users : Ring(c, a, b)
    \/ Answer(c)
    \/ End(c)

Spec == Init /\ [][Next]_vars
=============================================================================
