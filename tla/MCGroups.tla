------------------------------ MODULE MCGroups ------------------------------
(***************************************************************************)
(* Groups on small instances, in two scenes: Rooms alone within the bounds *)
(* of MCRooms, no browser looking; and the browsers of bob and cid, either *)
(* as bob or cid creates the group or later, with everybody connected and  *)
(* their lists loaded.  There MaxPresses bounds the requests (only the     *)
(* first may come from a client other than these two tabs), MaxQueries     *)
(* the lists and details read, MaxVisits the pages opened or left,         *)
(* MaxReconnects the connections made, and MaxFaults the connections and   *)
(* responses lost.                                                         *)
(***************************************************************************)
EXTENDS MCRooms, Groups

CONSTANTS MaxPresses, MaxQueries, MaxVisits, MaxReconnects, MaxFaults

VARIABLES scene, queries, visits, faults

groupBounds == <<starts, connects, scene, queries, visits, faults>>
groupsMCVars == <<groupsVars, groupBounds>>

(* Neither ann nor dan has a browser here. *)
GroupsSymmetry == Permutations(Requests) \cup Permutations({ann, dan})

NothingUnderWay ==
  /\ asker = [p \in Requests |-> None]
  /\ copy = [p \in Requests |-> None]
  /\ answers = {}
  /\ passed = {} /\ doubt = {} /\ dated = {}

(* Long after the group was created. *)
Settled ==
  /\ creator \in {bob, cid} /\ ownerId = creator
  /\ role = [u \in Users |-> CASE u = creator -> "owner"
                               [] u \in {bob, cid} -> "member"
                               [] OTHER -> "none"]
  /\ pc = [p \in Requests |-> "idle"]
  /\ req = [p \in Requests |-> NoReq]
  /\ transferred = FALSE /\ overlapped = FALSE
  /\ sock = [s \in Sockets |-> "up"]
  /\ found = Sockets /\ inRoom = Sockets /\ left = {} /\ stale = {}
  /\ loaded = Sockets /\ listed = Sockets /\ page = Sockets
  /\ detail = [s \in Sockets |-> role]
  /\ NothingUnderWay

GroupsMCInit ==
  /\ \/ /\ scene = "rooms" /\ RoomsInit /\ NothingUnderWay
        /\ loaded = {} /\ listed = {} /\ page = {} /\ detail = [s \in Sockets |-> None]
     \/ /\ scene = "tabs" /\ GroupsInit
        /\ creator \in {bob, cid} /\ Members \subseteq {bob, cid}
     \/ /\ scene = "tabs" /\ Settled
  /\ starts = 0 /\ connects = 0 /\ queries = 0 /\ visits = 0 /\ faults = 0

RoomsScene ==
  /\ scene = "rooms"
  /\ MCNext
  /\ UNCHANGED <<asker, copy, answers, tabVars, passed, doubt, dated,
                 scene, queries, visits, faults>>

Pressing ==
  /\ starts < MaxPresses
  /\ \E p \in Requests, s \in Sockets \cup {None} :
       Ask(p, s) /\ (s = None => starts = 0)
  /\ starts' = starts + 1
  /\ UNCHANGED <<connects, scene, queries, visits, faults>>

Serving ==
  /\ \/ \E p \in Requests : Open(p) \/ Write(p) \/ Tell(p)
     \/ \E s \in Sockets : Take(s)
  /\ UNCHANGED groupBounds

Connecting ==
  /\ \E s \in Sockets :
       /\ Connection(s)
       /\ connects' = IF sock[s] = "off" THEN connects + 1 ELSE connects
       /\ faults' = IF sock'[s] = "off" THEN faults + 1 ELSE faults
  /\ connects' <= MaxReconnects /\ faults' <= MaxFaults
  /\ UNCHANGED <<starts, scene, queries, visits>>

Querying ==
  /\ queries < MaxQueries
  /\ \E s \in Sockets : Query(s, "list") \/ Query(s, "detail")
  /\ queries' = queries + 1
  /\ UNCHANGED <<starts, connects, scene, visits, faults>>

Visiting ==
  /\ visits < MaxVisits
  /\ \E s \in Sockets : Visit(s)
  /\ visits' = visits + 1
  /\ UNCHANGED <<starts, connects, scene, queries, faults>>

Losing ==
  /\ faults < MaxFaults
  /\ \E s \in Sockets : Lose(s)
  /\ faults' = faults + 1
  /\ UNCHANGED <<starts, connects, scene, queries, visits>>

TabsScene ==
  /\ scene = "tabs"
  /\ Pressing \/ Serving \/ Connecting \/ Querying \/ Visiting \/ Losing

GroupsMCSpec == GroupsMCInit /\ [][RoomsScene \/ TabsScene]_groupsMCVars
=============================================================================
