---------------------------- MODULE MCCallClient ----------------------------
(***************************************************************************)
(* CallClient on a small instance: two people, the second with two tabs.   *)
(* The bounds are on the environment: the calls placed, the other buttons  *)
(* pressed, and what fails or is lost.                                     *)
(***************************************************************************)
EXTENDS CallClient, Naturals, TLC

CONSTANTS a, b, a1, b1, b2, MaxEvents

MCUsers == {a, b}
MCTabs == {a1, b1, b2}
MCUserOf == [t \in MCTabs |-> IF t = a1 THEN a ELSE b]

VARIABLES
  events   \* how often somebody clicked, something failed or was lost

mcVars == <<vars, events>>

Symmetry == Permutations(Calls) \cup Permutations(Streams)

MCInit == Init /\ events = 0

MCEvent ==
  /\ events < MaxEvents /\ events' = events + 1
  /\ \E t \in Tabs : Click(t) \/ Fail(t)

MCOwn ==
  /\ UNCHANGED events
  /\ \/ \E t \in Tabs : HandleRequest(t) \/ Run(t) \/ Connect(t) \/ Mount(t)
     \/ \E u \in Users : Drop(u)

MCNext == (MCEvent \/ MCOwn) /\ Record

MCSpec == MCInit /\ [][MCNext]_mcVars
=============================================================================
