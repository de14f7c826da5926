------------------------------ MODULE MCInbox ------------------------------
(***************************************************************************)
(* Inbox on a small instance: ann with two tabs, bob with one.  It starts  *)
(* with nothing at all, or after bob wrote to ann in a conversation of     *)
(* theirs and everybody loaded their lists.  At most MaxAsks requests are  *)
(* made, MaxVisits pages visited, MaxLog messages written, and MaxFaults   *)
(* connections, handlers or acknowledgements lost.  Where cara can be      *)
(* written to as well, so that one has two conversations, nothing is lost  *)
(* and one request less is made.                                           *)
(***************************************************************************)
EXTENDS Inbox, TLC

CONSTANTS MaxAsks, MaxVisits, MaxLog, MaxFaults, ann, bob, cara, a1, a2, b1, c1

VARIABLES asks, visits, faults, cast

bounds == <<asks, visits, faults, cast>>
mcVars == <<vars, bounds>>

SignedIn == [t \in Tabs |-> IF t = b1 THEN bob ELSE ann]

Settled ==
  /\ key = [c \in Convs |-> IF c = c1 THEN {ann, bob} ELSE None]
  /\ log = [c \in Convs |-> IF c = c1 THEN <<Entry(bob, FALSE)>> ELSE <<>>]
  /\ cursor = [c \in Convs |-> [u \in Users |-> IF c = c1 /\ u = bob THEN 1 ELSE 0]]
  /\ pc = [p \in Procs |-> "idle"]
  /\ req = [p \in Procs |-> NoReq]
  /\ link = Tabs
  /\ rooms = [t \in Tabs |-> {c1}]
  /\ loaded = Tabs
  /\ badge = [t \in Tabs |-> [c \in Convs |-> IF c # c1 THEN None
                                              ELSE IF t = b1 THEN 0 ELSE 1]]
  /\ at = [t \in Tabs |-> None]
  /\ paged = [t \in Tabs |-> {}]
  /\ hist = [t \in Tabs |-> [c \in Convs |-> <<>>]]
  /\ acked = [t \in Tabs |-> 0]
  /\ seen = [t \in Tabs |-> [c \in Convs |-> None]]
  /\ off = [t \in Tabs |-> {}]
  /\ risk = [p \in Procs |-> {}]

MCInit ==
  /\ Init \/ Settled
  /\ visits = 0
  /\ \/ cast = {ann, bob} /\ asks = 0 /\ faults = 0
     \/ cast = Users /\ asks = 1 /\ faults = MaxFaults

Short == \A c \in Convs : Len(log'[c]) <= MaxLog

MCNext ==
  \/ /\ asks < MaxAsks
     /\ \E p \in Procs : Ask(p) /\ req'[p].peer \in cast \cup {None}
     /\ asks' = asks + 1 /\ UNCHANGED <<visits, faults, cast>>
  \/ /\ \E p \in Procs : Serve(p) \/ Answer(p)
     /\ Short
     /\ UNCHANGED bounds
  \/ /\ \E p \in Procs, t \in Tabs : Acknowledge(p, t)
     /\ IF req' = req THEN faults < MaxFaults /\ faults' = faults + 1 ELSE UNCHANGED faults
     /\ UNCHANGED <<asks, visits, cast>>
  \/ /\ visits < MaxVisits
     /\ \E t \in Tabs, c \in Convs \cup {None} : Visit(t, c)
     /\ visits' = visits + 1 /\ UNCHANGED <<asks, faults, cast>>
  \/ /\ faults < MaxFaults
     /\ (\E p \in Procs : Die(p)) \/ (\E t \in Tabs : Drop(t))
     /\ faults' = faults + 1 /\ UNCHANGED <<asks, visits, cast>>
  \/ (\E t \in Tabs : Connect(t)) /\ UNCHANGED bounds

Symmetry == Permutations(Procs)

MCSpec == MCInit /\ [][MCNext]_mcVars
=============================================================================
