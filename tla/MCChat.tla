------------------------------- MODULE MCChat -------------------------------
(***************************************************************************)
(* Chat on a small instance.  MaxStarts bounds the handlers started,       *)
(* MaxFetches the history requests, MaxDrops the connections lost,         *)
(* MaxDeaths the handlers that die.                                        *)
(***************************************************************************)
EXTENDS Chat

CONSTANTS MaxStarts, MaxFetches, MaxDrops, MaxFaults, ann, bob, m1, m2, tabA, tabB

VARIABLES starts, fetches, drops, faults

bounds == <<starts, fetches, drops, faults>>
mcVars == <<chatVars, bounds>>

Author == [m \in Msgs |-> IF m = m1 THEN ann ELSE bob]
Home == [m \in Msgs |-> IF m = m1 THEN tabA ELSE tabB]
SignedIn == [c \in Clients |-> IF c = tabA THEN ann ELSE bob]

MCInit == ChatInit /\ starts = 0 /\ fetches = 0 /\ drops = 0 /\ faults = 0

MCNext ==
  \/ /\ starts < MaxStarts
     /\ \/ \E p \in Procs : ChatStart(p)
        \/ \E m \in Msgs : ComposeLost(m)
     /\ starts' = starts + 1 /\ UNCHANGED <<fetches, drops, faults>>
  \/ /\ \E p \in Procs : WriteFor(p) \/ AnnounceToAll(p) \/ ReplyToAsker(p) \/ ErrorToAsker(p)
     /\ UNCHANGED bounds
  \/ /\ faults < MaxFaults
     /\ \/ \E p \in Procs : RefuseFor(p) \/ DieWith(p)
        \/ \E m \in Msgs : SendTimesOut(m)
     /\ faults' = faults + 1 /\ UNCHANGED <<starts, fetches, drops>>
  \/ /\ fetches < MaxFetches
     /\ \E c \in Clients : Ask(c) \/ AskOlder(c)
     /\ fetches' = fetches + 1 /\ UNCHANGED <<starts, drops, faults>>
  \/ /\ \E c \in Clients : Answer(c) \/ Load(c) \/ Reconnect(c)
     /\ UNCHANGED bounds
  \/ /\ drops < MaxDrops
     /\ \E c \in Clients : Drop(c)
     /\ drops' = drops + 1 /\ UNCHANGED <<starts, fetches, faults>>

MCSpec == MCInit /\ [][MCNext]_mcVars
=============================================================================
