----------------------------- MODULE MCSessions -----------------------------
(***************************************************************************)
(* Sessions on a small instance: two tabs that share a cookie jar.  At     *)
(* most MaxStarts requests are sent in all.                                *)
(***************************************************************************)
EXTENDS Sessions, TLC

CONSTANTS MaxStarts, tab1, tab2, jar1

VARIABLE starts   \* how many requests were sent

mcVars == <<vars, starts>>

SharedJar == [b \in Tabs |-> jar1]

Symmetry == Permutations(Requests) \cup Permutations(Tokens) \cup Permutations(Families)

MCInit == Init /\ starts = 0

MCStart ==
  /\ starts < MaxStarts
  /\ \E p \in Requests : Start(p)
  /\ starts' = starts + 1

MCReliableNext ==
  \/ MCStart
  \/ /\ UNCHANGED starts
     /\ \E p \in Requests : Step(p) \/ StatementFails(p) \/ TurnedAway(p)
  \/ UNCHANGED starts /\ \E t \in Tokens : Expire(t)

MCFault ==
  UNCHANGED starts /\ \E p \in Requests : LoseResponse(p) \/ HandlerDies(p)

MCReliableSpec == MCInit /\ [][MCReliableNext]_mcVars

MCSpec == MCInit /\ [][MCReliableNext \/ MCFault]_mcVars
=============================================================================
