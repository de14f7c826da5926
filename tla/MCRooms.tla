------------------------------ MODULE MCRooms ------------------------------
(***************************************************************************)
(* Rooms, and the Membership it extends, on a small instance.  MaxStarts   *)
(* bounds the requests made, MaxConnects the connections.                  *)
(***************************************************************************)
EXTENDS Rooms, TLC

CONSTANTS MaxStarts, MaxConnects, ann, bob, cid, dan, s1, s2

VARIABLES starts, connects

mcVars == <<roomVars, starts, connects>>

TwoSockets == [s \in Sockets |-> IF s = s1 THEN bob ELSE cid]

Symmetry == Permutations(Requests)

MCInit == RoomsInit /\ starts = 0 /\ connects = 0

MCStart ==
  /\ starts < MaxStarts
  /\ \E p \in Requests : Start(p) /\ Request(p)
  /\ starts' = starts + 1
  /\ UNCHANGED connects

MCRest ==
  /\ \E p \in Requests : (Commit(p) /\ Request(p)) \/ AnnounceToRoom(p)
  /\ UNCHANGED <<starts, connects>>

MCConnect ==
  /\ connects < MaxConnects
  /\ \E s \in Sockets : Connect(s)
  /\ connects' = connects + 1
  /\ UNCHANGED starts

MCSocket ==
  /\ \E s \in Sockets : LookUp(s) \/ JoinRooms(s) \/ Disconnect(s)
  /\ UNCHANGED <<starts, connects>>

MCNext == MCStart \/ MCRest \/ MCConnect \/ MCSocket

MCSpec == MCInit /\ [][MCNext]_mcVars
=============================================================================
