---------------------------- MODULE RoomsProofs ----------------------------
(***************************************************************************)
(* Proofs about Membership, Rooms and Groups, for any number of users, of  *)
(* requests in flight and of connections.                                  *)
(*                                                                         *)
(* A request acts on what it read, so each invariant of Membership is      *)
(* strengthened with what the checks of a request still guarantee when it  *)
(* commits: as long as nobody transferred the group, no pending removal    *)
(* names its creator; as long as no requests overlapped, everything that   *)
(* was checked.                                                            *)
(*                                                                         *)
(* A connection looks its memberships up once and joins later, a request   *)
(* commits first and moves the sockets later.  What closes the gap is that *)
(* a connection is in its user's room before it looks anything up: until   *)
(* it joined, either its lookup found the membership or the announcement   *)
(* is still to come.  SetUpKnows and SetUpForgets say so.                  *)
(*                                                                         *)
(* A browser is told of a change after it was made, so what it shows is    *)
(* either true or about to be contradicted: by an announcement or by the   *)
(* mark on an answer that an announcement overtook.                        *)
(***************************************************************************)
EXTENDS Groups, FiniteSetTheorems, TLAPS

RequestsKnow ==
  \A p \in Requests :
    /\ pc[p] # "idle" => req[p].actor \in Users
    /\ pc[p] # "idle" /\ req[p].kind \in {"remove", "transfer"} =>
         \E b \in Users : req[p].who = {b}
    /\ pc[p] = "commit" => req[p].kind # "create"

CreatorIsSafe ==
  ~transferred =>
    /\ CreatorOwnsUntilTransfer
    /\ \A p \in Requests :
         Committing(p, "remove") => creator \notin req[p].who

SerialKnows ==
  ~overlapped =>
    /\ \A p, q \in Requests : pc[p] # "idle" /\ pc[q] # "idle" => p = q
    /\ \A p \in Requests :
         /\ Committing(p, "remove") => ownerId \notin req[p].who
         /\ Committing(p, "transfer") => ownerId = req[p].actor

SerialFits ==
  ~overlapped =>
    \A p \in Requests :
      Committing(p, "add") =>
        Cardinality(Members) + Cardinality(req[p].who) <= Cap

IInv ==
  /\ TypeOK
  /\ RequestsKnow
  /\ CreatorIsSafe
  /\ SerialKnows
  /\ OneOwnerWhenSerial

USE DEF groupVars, historyVars, vars, Roles, Kinds, Reqs, Req, NoReq, Idle,
        Begin, Committing, Committed, Members

LEMMA InitIInv == Init => IInv
<1> SUFFICES ASSUME Init
             PROVE  IInv
  OBVIOUS
<1>1. PICK p \in Requests :
        /\ pc = [q \in Requests |-> IF q = p THEN "announce" ELSE "idle"]
        /\ req = [q \in Requests |-> IF q = p THEN Req("create", creator, Members)
                                     ELSE NoReq]
  BY DEF Init
<1>2. PICK others \in SUBSET (Users \ {creator}) :
        role = [u \in Users |-> IF u = creator THEN "owner"
                               ELSE IF u \in others THEN "member" ELSE "none"]
  BY DEF Init
<1>3. TypeOK
  <2>1. Members \in SUBSET Users
    OBVIOUS
  <2>2. req \in [Requests -> Reqs]
    BY <1>1, <2>1 DEF Init
  <2> QED
    BY <1>1, <1>2, <2>2 DEF Init, TypeOK
<1>4. RequestsKnow
  BY <1>1 DEF Init, RequestsKnow
<1>5. CreatorIsSafe
  BY <1>1, <1>2 DEF Init, CreatorIsSafe, CreatorOwnsUntilTransfer
<1>6. SerialKnows
  BY <1>1 DEF SerialKnows
<1>7. OneOwnerWhenSerial
  BY <1>2 DEF Init, OneOwnerWhenSerial
<1> QED
  BY <1>3, <1>4, <1>5, <1>6, <1>7 DEF IInv

LEMMA StepIInv == IInv /\ [Next]_vars => IInv'
<1> SUFFICES ASSUME IInv, [Next]_vars
             PROVE  IInv'
  OBVIOUS
<1> USE NoneAssumption
    DEF IInv, TypeOK, RequestsKnow, CreatorIsSafe, CreatorOwnsUntilTransfer,
        SerialKnows, OneOwnerWhenSerial
<1>1. ASSUME NEW p \in Requests, NEW a \in Users, NEW new \in SUBSET Users,
             AddMembers(p, a, new)
      PROVE  IInv'
  <2>1. TypeOK'
    BY <1>1 DEF AddMembers
  <2>2. RequestsKnow'
    BY <1>1 DEF AddMembers
  <2>3. CreatorIsSafe'
    BY <1>1 DEF AddMembers
  <2>4. SerialKnows'
    BY <1>1, ZenonT(40) DEF AddMembers
  <2>5. OneOwnerWhenSerial'
    BY <1>1 DEF AddMembers
  <2> QED
    BY <2>1, <2>2, <2>3, <2>4, <2>5
<1>2. ASSUME NEW p \in Requests, NEW a \in Users, NEW b \in Users,
             RemoveMember(p, a, b)
      PROVE  IInv'
  <2>1. TypeOK'
    BY <1>2 DEF RemoveMember
  <2>2. RequestsKnow'
    BY <1>2 DEF RemoveMember
  <2>3. CreatorIsSafe'
    BY <1>2 DEF RemoveMember
  <2>4. SerialKnows'
    <3>1. ~overlapped' => ownerId # b
      BY <1>2 DEF RemoveMember
    <3>2. ~overlapped' => \A q \in Requests : q # p => pc'[q] = "idle"
      BY <1>2 DEF RemoveMember
    <3>3. req' = [req EXCEPT ![p] = Req("remove", a, {b})] /\ ownerId' = ownerId
      BY <1>2 DEF RemoveMember
    <3> QED
      BY <3>1, <3>2, <3>3
  <2>5. OneOwnerWhenSerial'
    BY <1>2 DEF RemoveMember
  <2> QED
    BY <2>1, <2>2, <2>3, <2>4, <2>5
<1>3. ASSUME NEW p \in Requests, NEW a \in Users, NEW b \in Users,
             TransferOwner(p, a, b)
      PROVE  IInv'
  <2>1. TypeOK'
    BY <1>3 DEF TransferOwner
  <2>2. RequestsKnow'
    BY <1>3 DEF TransferOwner
  <2>3. CreatorIsSafe'
    BY <1>3 DEF TransferOwner
  <2>4. SerialKnows'
    BY <1>3 DEF TransferOwner
  <2>5. OneOwnerWhenSerial'
    BY <1>3 DEF TransferOwner
  <2> QED
    BY <2>1, <2>2, <2>3, <2>4, <2>5
<1>4. ASSUME NEW p \in Requests, CommitAdd(p)
      PROVE  IInv'
  BY <1>4 DEF CommitAdd
<1>5. ASSUME NEW p \in Requests, CommitRemove(p)
      PROVE  IInv'
  BY <1>5 DEF CommitRemove
<1>6. ASSUME NEW p \in Requests, CommitTransfer(p)
      PROVE  IInv'
  BY <1>6 DEF CommitTransfer
<1>7. ASSUME NEW p \in Requests, Abort(p)
      PROVE  IInv'
  BY <1>7 DEF Abort
<1>8. ASSUME NEW p \in Requests, Announce(p)
      PROVE  IInv'
  BY <1>8 DEF Announce
<1>9. CASE UNCHANGED vars
  BY <1>9
<1> QED
  BY <1>1, <1>2, <1>3, <1>4, <1>5, <1>6, <1>7, <1>8, <1>9 DEF Next, Start, Commit

(* Every set of people is finite: the tables have finitely many rows.      *)
LEMMA PeopleAreCounted ==
  ASSUME NEW S \in SUBSET Users
  PROVE  IsFiniteSet(S) /\ Cardinality(S) \in Nat
  BY UsersAssumption, FS_Subset, FS_CardinalityType

LEMMA DisjointUnionCounts ==
  ASSUME NEW S \in SUBSET Users, NEW T \in SUBSET Users, S \cap T = {}
  PROVE  Cardinality(S \cup T) = Cardinality(S) + Cardinality(T)
<1>1. IsFiniteSet(S) /\ IsFiniteSet(T)
  BY PeopleAreCounted
<1>2. Cardinality(S) \in Nat /\ Cardinality(T) \in Nat
  BY PeopleAreCounted
<1>3. Cardinality(S \cup T)
        = Cardinality(S) + Cardinality(T) - Cardinality(S \cap T)
  BY <1>1, FS_Union
<1>4. Cardinality(S \cap T) = 0
  BY FS_EmptySet
<1> QED
  BY <1>2, <1>3, <1>4

LEMMA InitFits == Init => WithinCapWhenSerial /\ SerialFits
<1> SUFFICES ASSUME Init
             PROVE  WithinCapWhenSerial /\ SerialFits
  OBVIOUS
<1>1. PICK others \in SUBSET (Users \ {creator}) :
        /\ Cardinality(others) + 1 <= Cap
        /\ role = [u \in Users |-> IF u = creator THEN "owner"
                                   ELSE IF u \in others THEN "member" ELSE "none"]
  BY DEF Init
<1>2. Members = others \cup {creator}
  BY <1>1 DEF Init
<1>3. Cardinality({creator}) = 1
  BY FS_Singleton
<1>4. Cardinality(Members) = Cardinality(others) + 1
  BY <1>2, <1>3, DisjointUnionCounts, ZenonT(40) DEF Init
<1> QED
  BY <1>1, <1>4 DEF Init, WithinCapWhenSerial, SerialFits

LEMMA StepFits ==
  IInv /\ WithinCapWhenSerial /\ SerialFits /\ [Next]_vars
    => (WithinCapWhenSerial /\ SerialFits)'
<1> SUFFICES ASSUME IInv, WithinCapWhenSerial, SerialFits, [Next]_vars
             PROVE  (WithinCapWhenSerial /\ SerialFits)'
  OBVIOUS
<1> USE DEF IInv, TypeOK, WithinCapWhenSerial, SerialFits
<1>1. ASSUME NEW p \in Requests, NEW a \in Users, NEW new \in SUBSET Users,
             AddMembers(p, a, new)
      PROVE  (WithinCapWhenSerial /\ SerialFits)'
  BY <1>1 DEF AddMembers
<1>2. ASSUME NEW p \in Requests, NEW a \in Users, NEW b \in Users,
             RemoveMember(p, a, b) \/ TransferOwner(p, a, b)
      PROVE  (WithinCapWhenSerial /\ SerialFits)'
  <2>1. /\ role' = role
        /\ overlapped' = (overlapped \/ \E q \in Requests : ~Idle(q))
        /\ pc' = [pc EXCEPT ![p] = "commit"]
    BY <1>2 DEF RemoveMember, TransferOwner
  <2>2. req'[p].kind # "add"
    BY <1>2 DEF RemoveMember, TransferOwner
  <2>3. \A q \in Requests : q # p => req'[q] = req[q]
    BY <1>2 DEF RemoveMember, TransferOwner
  <2> QED
    BY <2>1, <2>2, <2>3
<1>3. ASSUME NEW p \in Requests, CommitAdd(p)
      PROVE  (WithinCapWhenSerial /\ SerialFits)'
  <2>1. Members' = Members \cup req[p].who
    BY <1>3 DEF CommitAdd
  <2>2. Cardinality(Members') = Cardinality(Members) + Cardinality(req[p].who)
    BY <1>3, <2>1, DisjointUnionCounts DEF CommitAdd
  <2>3. ~overlapped' => \A q \in Requests : pc'[q] # "commit"
    BY <1>3 DEF CommitAdd, SerialKnows
  <2> QED
    BY <1>3, <2>2, <2>3 DEF CommitAdd
<1>4. ASSUME NEW p \in Requests, CommitRemove(p)
      PROVE  (WithinCapWhenSerial /\ SerialFits)'
  <2>1. Members' \subseteq Members
    BY <1>4 DEF CommitRemove
  <2>2. Cardinality(Members') <= Cardinality(Members)
    BY <2>1, PeopleAreCounted, FS_Subset
  <2>3. ~overlapped' => \A q \in Requests : pc'[q] # "commit"
    BY <1>4 DEF CommitRemove, SerialKnows
  <2>4. Members \in SUBSET Users /\ Members' \in SUBSET Users
    OBVIOUS
  <2>5. Cardinality(Members) \in Nat /\ Cardinality(Members') \in Nat
    BY <2>4, PeopleAreCounted
  <2>6. overlapped' = overlapped
    BY <1>4 DEF CommitRemove
  <2> QED
    BY <2>2, <2>3, <2>5, <2>6, CapAssumption
<1>5. ASSUME NEW p \in Requests, CommitTransfer(p)
      PROVE  (WithinCapWhenSerial /\ SerialFits)'
  <2>1. Members' = Members
    BY <1>5 DEF CommitTransfer
  <2> QED
    BY <1>5, <2>1 DEF CommitTransfer
<1>6. ASSUME NEW p \in Requests, Abort(p) \/ Announce(p)
      PROVE  (WithinCapWhenSerial /\ SerialFits)'
  BY <1>6, ZenonT(40) DEF Abort, Announce
<1>7. CASE UNCHANGED vars
  BY <1>7
<1> QED
  BY <1>1, <1>2, <1>3, <1>4, <1>5, <1>6, <1>7 DEF Next, Start, Commit

LEMMA IInvAlways == Spec => [](IInv /\ WithinCapWhenSerial)
<1>1. Init => IInv /\ WithinCapWhenSerial /\ SerialFits
  BY InitIInv, InitFits
<1>2. IInv /\ WithinCapWhenSerial /\ SerialFits /\ [Next]_vars
        => (IInv /\ WithinCapWhenSerial /\ SerialFits)'
  BY StepIInv, StepFits
<1> QED
  BY <1>1, <1>2, PTL DEF Spec

-----------------------------------------------------------------------------
(* Type correctness of the member rows and of the requests on them.        *)
THEOREM TypeCorrect == Spec => []TypeOK
  BY IInvAlways, PTL DEF IInv

(* Until the first hand-over the creator of a group is its only owner and  *)
(* cannot leave or be removed, whatever requests run at once: the checks   *)
(* of conversation.service.ts are enough for this although they are made   *)
(* on a copy.                                                              *)
THEOREM CreatorKeepsGroup == Spec => []CreatorOwnsUntilTransfer
<1>1. IInv => CreatorOwnsUntilTransfer
  BY DEF IInv, CreatorIsSafe, CreatorOwnsUntilTransfer
<1> QED
  BY <1>1, IInvAlways, PTL

(* A group whose requests never overlapped has exactly the owner its row   *)
(* names.                                                                  *)
THEOREM SerialGroupHasOneOwner == Spec => []OneOwnerWhenSerial
  BY IInvAlways, PTL DEF IInv

(* A group whose requests never overlapped holds at most Cap people.       *)
THEOREM SerialGroupFits == Spec => []WithinCapWhenSerial
  BY IInvAlways, PTL

-----------------------------------------------------------------------------
(* Rooms. *)

HIDE DEF Roles, Kinds, Reqs, Req, NoReq, Members

(* What an announcement still says about the rows when it is made. *)
AnnouncementsStand ==
  /\ \A p \in Requests :
       pc[p] = "announce" /\ req[p].kind = "remove" => req[p].who \subseteq left
  /\ ~overlapped =>
       \A p \in Requests :
         pc[p] = "announce" =>
           /\ req[p].kind \in {"create", "add"} => req[p].who \subseteq Members
           /\ req[p].kind = "remove" => req[p].who \cap Members = {}

OffIsNowhere ==
  /\ \A s \in inRoom : sock[s] # "off"
  /\ \A s \in found : sock[s] \in {"looked", "up"}

SetUpKnows ==
  \A s \in Sockets :
    /\ UserOf[s] \in Members
    /\ overlapped => UserOf[s] \notin left
    /\ ~Joining(UserOf[s])
    => /\ sock[s] = "up" => s \in inRoom
       /\ sock[s] = "looked" => s \in inRoom \cup found

SetUpForgets ==
  \A s \in Sockets :
    /\ s \in inRoom \/ (s \in found /\ sock[s] = "looked")
    /\ UserOf[s] \notin Members
    /\ ~Leaving(UserOf[s])
    => overlapped \/ s \in stale

RInv ==
  /\ IInv
  /\ RoomsTypeOK
  /\ AnnouncementsStand
  /\ OffIsNowhere
  /\ SetUpKnows
  /\ SetUpForgets

USE DEF groupVars, historyVars, vars, socketVars, roomVars, Idle, Begin,
        Committing, Committed

LEMMA InitRInv == RoomsInit => RInv
<1> SUFFICES ASSUME RoomsInit
             PROVE  RInv
  OBVIOUS
<1>1. IInv
  BY InitIInv DEF RoomsInit
<1>2. RoomsTypeOK
  BY <1>1 DEF RoomsInit, RoomsTypeOK, IInv
<1>3. AnnouncementsStand
  <2>1. PICK p \in Requests :
          /\ pc = [q \in Requests |-> IF q = p THEN "announce" ELSE "idle"]
          /\ req = [q \in Requests |-> IF q = p THEN Req("create", creator, Members)
                                       ELSE NoReq]
    BY DEF RoomsInit, Init
  <2> QED
    BY <2>1 DEF AnnouncementsStand, Req, NoReq
<1>4. OffIsNowhere /\ SetUpKnows /\ SetUpForgets
  BY DEF RoomsInit, OffIsNowhere, SetUpKnows, SetUpForgets
<1> QED
  BY <1>1, <1>2, <1>3, <1>4 DEF RInv

(* Every step of Rooms is a step of Membership, or leaves it alone.        *)
LEMMA RoomsStep == RoomsNext => [Next]_vars
  BY DEF RoomsNext, Request, AnnounceToRoom, Connect, LookUp, JoinRooms,
         Disconnect, Next

(* Steps of the sockets keep what is said about the requests.              *)
LEMMA SocketsLeaveGroupAlone ==
  ASSUME AnnouncementsStand, UNCHANGED <<vars, left>>
  PROVE  /\ AnnouncementsStand'
         /\ Members' = Members
         /\ overlapped' = overlapped
         /\ left' = left
         /\ \A u : (Joining(u)' <=> Joining(u)) /\ (Leaving(u)' <=> Leaving(u))
  BY DEF AnnouncementsStand, Joining, Leaving, Members

LEMMA StepRInv == RInv /\ [RoomsNext]_roomVars => RInv'
<1> SUFFICES ASSUME RInv, [RoomsNext]_roomVars
             PROVE  RInv'
  OBVIOUS
<1>0. IInv'
  BY RoomsStep, StepIInv DEF RInv
<1> USE UserOfAssumption DEF RInv
<1>1. ASSUME NEW p \in Requests, Start(p), Request(p)
      PROVE  RInv'
  <2>1. PICK r : Begin(p, r)
    BY <1>1 DEF Start, AddMembers, RemoveMember, TransferOwner
  <2>2. /\ Members' = Members /\ left' = left
        /\ UNCHANGED socketVars
    BY <1>1, <2>1 DEF Request, Members
  <2>3. ~overlapped' => ~overlapped
    BY <2>1 DEF IInv, TypeOK
  <2>4. \A q \in Requests : pc'[q] = "announce" <=> pc[q] = "announce"
    BY <2>1 DEF IInv, TypeOK
  <2>5. \A q \in Requests : pc[q] = "announce" => req'[q] = req[q]
    BY <2>1 DEF IInv, TypeOK
  <2>6. \A u : (Joining(u)' <=> Joining(u)) /\ (Leaving(u)' <=> Leaving(u))
    BY <2>4, <2>5 DEF Joining, Leaving
  <2>7. RoomsTypeOK'
    BY <1>0, <2>2 DEF RoomsTypeOK, IInv
  <2>8. AnnouncementsStand'
    BY <2>2, <2>3, <2>4, <2>5 DEF AnnouncementsStand
  <2>9. OffIsNowhere'
    BY <2>2 DEF OffIsNowhere
  <2>10. SetUpKnows'
    BY <2>2, <2>3, <2>6 DEF SetUpKnows
  <2>11. SetUpForgets'
    BY <2>2, <2>3, <2>6 DEF SetUpForgets
  <2> QED
    BY <1>0, <2>7, <2>8, <2>9, <2>10, <2>11 DEF RInv
<1>2. ASSUME NEW p \in Requests, CommitAdd(p), Request(p)
      PROVE  RInv'
  <2>1. /\ pc' = [pc EXCEPT ![p] = "announce"] /\ req' = req
        /\ overlapped' = overlapped /\ UNCHANGED socketVars
    BY <1>2 DEF CommitAdd, Request
  <2>2. pc[p] = "commit" /\ req[p].kind = "add"
    BY <1>2 DEF CommitAdd
  <2>3. Members' = Members \cup req[p].who
    BY <1>2 DEF CommitAdd, Request, Members, IInv, TypeOK, Reqs
  <2>4. left' = left \cup (Members \ Members')
    BY <1>2 DEF Request
  <2>5. \A q \in Requests : pc'[q] = "announce" <=> q = p \/ pc[q] = "announce"
    BY <2>1 DEF IInv, TypeOK
  <2>6. ~overlapped => \A q \in Requests : pc[q] = "announce" => q = p
    BY <2>2 DEF IInv, SerialKnows
  <2>7. \A u : Joining(u)' <=> Joining(u) \/ u \in req[p].who
    BY <2>1, <2>2, <2>5 DEF Joining
  <2>8. \A u : Leaving(u)' <=> Leaving(u)
    BY <2>1, <2>2, <2>5 DEF Leaving
  <2>9. RoomsTypeOK'
    BY <1>0, <2>1, <2>3, <2>4 DEF RoomsTypeOK, IInv, Members
  <2>10. AnnouncementsStand'
    BY <2>1, <2>2, <2>3, <2>4, <2>5, <2>6 DEF AnnouncementsStand
  <2>11. OffIsNowhere'
    BY <2>1 DEF OffIsNowhere
  <2>12. SetUpKnows'
    BY <2>1, <2>3, <2>4, <2>7 DEF SetUpKnows
  <2>13. SetUpForgets'
    BY <2>1, <2>3, <2>8 DEF SetUpForgets
  <2> QED
    BY <1>0, <2>9, <2>10, <2>11, <2>12, <2>13 DEF RInv
<1>3. ASSUME NEW p \in Requests, CommitRemove(p), Request(p)
      PROVE  RInv'
  <2>1. /\ pc' = [pc EXCEPT ![p] = "announce"] /\ req' = req
        /\ overlapped' = overlapped /\ UNCHANGED socketVars
    BY <1>3 DEF CommitRemove, Request
  <2>2. pc[p] = "commit" /\ req[p].kind = "remove"
    BY <1>3 DEF CommitRemove
  <2>3. /\ Members' = Members \ req[p].who
        /\ req[p].who \subseteq Members
    BY <1>3 DEF CommitRemove, Request, Members, IInv, TypeOK, Reqs
  <2>4. left' = left \cup (Members \ Members')
    BY <1>3 DEF Request
  <2>5. \A q \in Requests : pc'[q] = "announce" <=> q = p \/ pc[q] = "announce"
    BY <2>1 DEF IInv, TypeOK
  <2>6. ~overlapped => \A q \in Requests : pc[q] = "announce" => q = p
    BY <2>2 DEF IInv, SerialKnows
  <2>7. \A u : Joining(u)' <=> Joining(u)
    BY <2>1, <2>2, <2>5 DEF Joining
  <2>8. \A u : Leaving(u)' <=> Leaving(u) \/ u \in req[p].who
    BY <2>1, <2>2, <2>5 DEF Leaving
  <2>9. RoomsTypeOK'
    BY <1>0, <2>1, <2>3, <2>4 DEF RoomsTypeOK, IInv, Members
  <2>10. AnnouncementsStand'
    BY <2>1, <2>2, <2>3, <2>4, <2>5, <2>6 DEF AnnouncementsStand
  <2>11. OffIsNowhere'
    BY <2>1 DEF OffIsNowhere
  <2>12. SetUpKnows'
    BY <2>1, <2>3, <2>4, <2>7 DEF SetUpKnows
  <2>13. SetUpForgets'
    BY <2>1, <2>3, <2>8 DEF SetUpForgets
  <2> QED
    BY <1>0, <2>9, <2>10, <2>11, <2>12, <2>13 DEF RInv
<1>4. ASSUME NEW p \in Requests, CommitTransfer(p), Request(p)
      PROVE  RInv'
  <2>1. /\ pc' = [pc EXCEPT ![p] = "announce"] /\ req' = req
        /\ overlapped' = overlapped /\ UNCHANGED socketVars
    BY <1>4 DEF CommitTransfer, Request
  <2>2. pc[p] = "commit" /\ req[p].kind = "transfer"
    BY <1>4 DEF CommitTransfer
  <2>3. Members' = Members
    BY <1>4 DEF CommitTransfer, Request, Members, IInv, TypeOK, Reqs
  <2>4. left' = left \cup (Members \ Members')
    BY <1>4 DEF Request
  <2>5. \A q \in Requests : pc'[q] = "announce" <=> q = p \/ pc[q] = "announce"
    BY <2>1 DEF IInv, TypeOK
  <2>6. ~overlapped => \A q \in Requests : pc[q] = "announce" => q = p
    BY <2>2 DEF IInv, SerialKnows
  <2>7. \A u : Joining(u)' <=> Joining(u)
    BY <2>1, <2>2, <2>5 DEF Joining
  <2>8. \A u : Leaving(u)' <=> Leaving(u)
    BY <2>1, <2>2, <2>5 DEF Leaving
  <2>9. RoomsTypeOK'
    BY <1>0, <2>1, <2>3, <2>4 DEF RoomsTypeOK, IInv, Members
  <2>10. AnnouncementsStand'
    BY <2>1, <2>2, <2>3, <2>4, <2>5, <2>6 DEF AnnouncementsStand
  <2>11. OffIsNowhere'
    BY <2>1 DEF OffIsNowhere
  <2>12. SetUpKnows'
    BY <2>1, <2>3, <2>4, <2>7 DEF SetUpKnows
  <2>13. SetUpForgets'
    BY <2>1, <2>3, <2>8 DEF SetUpForgets
  <2> QED
    BY <1>0, <2>9, <2>10, <2>11, <2>12, <2>13 DEF RInv
<1>5. ASSUME NEW p \in Requests, Abort(p), Request(p)
      PROVE  RInv'
  <2>1. /\ Members' = Members /\ left' = left
        /\ overlapped' = overlapped /\ UNCHANGED socketVars
    BY <1>5 DEF Abort, Request, Members
  <2>2. \A q \in Requests : pc'[q] = "announce" <=> pc[q] = "announce"
    BY <1>5 DEF Abort, IInv, TypeOK
  <2>3. \A q \in Requests : pc[q] = "announce" => req'[q] = req[q]
    BY <1>5 DEF Abort, IInv, TypeOK
  <2>4. \A u : (Joining(u)' <=> Joining(u)) /\ (Leaving(u)' <=> Leaving(u))
    BY <2>2, <2>3 DEF Joining, Leaving
  <2>5. RoomsTypeOK'
    BY <1>0, <2>1 DEF RoomsTypeOK, IInv
  <2>6. AnnouncementsStand'
    BY <2>1, <2>2, <2>3 DEF AnnouncementsStand
  <2>7. OffIsNowhere'
    BY <2>1 DEF OffIsNowhere
  <2>8. SetUpKnows'
    BY <2>1, <2>4 DEF SetUpKnows
  <2>9. SetUpForgets'
    BY <2>1, <2>4 DEF SetUpForgets
  <2> QED
    BY <1>0, <2>5, <2>6, <2>7, <2>8, <2>9 DEF RInv
<1>6. ASSUME NEW p \in Requests, AnnounceToRoom(p)
      PROVE  RInv'
  <2>1. /\ pc[p] = "announce" /\ MoveSockets(req[p].kind, req[p].who)
        /\ Members' = Members /\ overlapped' = overlapped
        /\ UNCHANGED <<sock, found, left>>
    BY <1>6 DEF AnnounceToRoom, Announce, Members
  <2>2. \A q \in Requests : pc'[q] = "announce" => q # p /\ pc[q] = "announce"
        /\ req'[q] = req[q]
    BY <1>6 DEF AnnounceToRoom, Announce, IInv, TypeOK
  <2>3. \A q \in Requests \ {p} : pc'[q] = pc[q] /\ req'[q] = req[q]
    BY <1>6 DEF AnnounceToRoom, Announce, IInv, TypeOK
  <2>4. \A u :
          /\ Joining(u) =>
               \/ Joining(u)'
               \/ req[p].kind \in {"create", "add"} /\ u \in req[p].who
          /\ Leaving(u) =>
               Leaving(u)' \/ (req[p].kind = "remove" /\ u \in req[p].who)
    BY <2>3 DEF Joining, Leaving
  <2>5. \A s \in Sockets :
          s \in SocketsOf(req[p].who) <=> UserOf[s] \in req[p].who /\ sock[s] # "off"
    BY DEF SocketsOf
  <2>6. SocketsOf(req[p].who) \subseteq Sockets
    BY DEF SocketsOf
  <2>7. /\ req[p].kind \in {"create", "add"} =>
             inRoom' = inRoom \cup SocketsOf(req[p].who)
        /\ req[p].kind = "remove" =>
             inRoom' = inRoom \ SocketsOf(req[p].who)
        /\ req[p].kind \notin {"create", "add", "remove"} =>
             inRoom' = inRoom
    BY <2>1 DEF MoveSockets
  <2>8. RoomsTypeOK'
    BY <1>0, <2>1, <2>6 DEF RoomsTypeOK, IInv, MoveSockets
  <2>9. AnnouncementsStand'
    BY <2>1, <2>2 DEF AnnouncementsStand
  <2>10. OffIsNowhere'
    BY <2>1, <2>5, <2>6 DEF OffIsNowhere, MoveSockets
  <2>11. SetUpKnows'
    BY <2>1, <2>4, <2>5, <2>7 DEF SetUpKnows, AnnouncementsStand
  <2>12. SetUpForgets'
    BY <1>6, <2>1, <2>4, <2>5
    DEF SetUpForgets, MoveSockets, AnnouncementsStand, OffIsNowhere
  <2> QED
    BY <1>0, <2>8, <2>9, <2>10, <2>11, <2>12 DEF RInv
<1>7. ASSUME NEW s \in Sockets, Connect(s)
      PROVE  RInv'
  <2>1. UNCHANGED <<vars, left>>
    BY <1>7 DEF Connect
  <2>2. /\ AnnouncementsStand'
        /\ Members' = Members
        /\ overlapped' = overlapped
        /\ left' = left
        /\ \A u : (Joining(u)' <=> Joining(u)) /\ (Leaving(u)' <=> Leaving(u))
    BY <2>1, SocketsLeaveGroupAlone
  <2>3. RoomsTypeOK'
    BY <1>0, <1>7, <2>2 DEF RoomsTypeOK, IInv, Connect
  <2>4. AnnouncementsStand'
    BY <2>2
  <2>5. OffIsNowhere'
    BY <1>7, <2>2 DEF OffIsNowhere, RoomsTypeOK, Connect
  <2>6. SetUpKnows'
    BY <1>7, <2>2 DEF SetUpKnows, RoomsTypeOK, Connect
  <2>7. SetUpForgets'
    BY <1>7, <2>2 DEF SetUpForgets, OffIsNowhere, RoomsTypeOK, Connect
  <2> QED
    BY <1>0, <2>3, <2>4, <2>5, <2>6, <2>7 DEF RInv
<1>8. ASSUME NEW s \in Sockets, LookUp(s)
      PROVE  RInv'
  <2>1. UNCHANGED <<vars, left>>
    BY <1>8 DEF LookUp
  <2>2. /\ AnnouncementsStand'
        /\ Members' = Members
        /\ overlapped' = overlapped
        /\ left' = left
        /\ \A u : (Joining(u)' <=> Joining(u)) /\ (Leaving(u)' <=> Leaving(u))
    BY <2>1, SocketsLeaveGroupAlone
  <2>3. RoomsTypeOK'
    BY <1>0, <1>8, <2>2 DEF RoomsTypeOK, IInv, LookUp
  <2>4. AnnouncementsStand'
    BY <2>2
  <2>5. OffIsNowhere'
    BY <1>8, <2>2 DEF OffIsNowhere, RoomsTypeOK, LookUp
  <2>6. SetUpKnows'
    BY <1>8, <2>2 DEF SetUpKnows, RoomsTypeOK, LookUp
  <2>7. SetUpForgets'
    BY <1>8, <2>2 DEF SetUpForgets, OffIsNowhere, RoomsTypeOK, LookUp
  <2> QED
    BY <1>0, <2>3, <2>4, <2>5, <2>6, <2>7 DEF RInv
<1>9. ASSUME NEW s \in Sockets, JoinRooms(s)
      PROVE  RInv'
  <2>1. UNCHANGED <<vars, left>>
    BY <1>9 DEF JoinRooms
  <2>2. /\ AnnouncementsStand'
        /\ Members' = Members
        /\ overlapped' = overlapped
        /\ left' = left
        /\ \A u : (Joining(u)' <=> Joining(u)) /\ (Leaving(u)' <=> Leaving(u))
    BY <2>1, SocketsLeaveGroupAlone
  <2>3. RoomsTypeOK'
    BY <1>0, <1>9, <2>2 DEF RoomsTypeOK, IInv, JoinRooms
  <2>4. AnnouncementsStand'
    BY <2>2
  <2>5. OffIsNowhere'
    BY <1>9, <2>2 DEF OffIsNowhere, RoomsTypeOK, JoinRooms
  <2>6. SetUpKnows'
    BY <1>9, <2>2 DEF SetUpKnows, RoomsTypeOK, JoinRooms
  <2>7. SetUpForgets'
    BY <1>9, <2>2 DEF SetUpForgets, OffIsNowhere, RoomsTypeOK, JoinRooms
  <2> QED
    BY <1>0, <2>3, <2>4, <2>5, <2>6, <2>7 DEF RInv
<1>10. ASSUME NEW s \in Sockets, Disconnect(s)
      PROVE  RInv'
  <2>1. UNCHANGED <<vars, left>>
    BY <1>10 DEF Disconnect
  <2>2. /\ AnnouncementsStand'
        /\ Members' = Members
        /\ overlapped' = overlapped
        /\ left' = left
        /\ \A u : (Joining(u)' <=> Joining(u)) /\ (Leaving(u)' <=> Leaving(u))
    BY <2>1, SocketsLeaveGroupAlone
  <2>3. RoomsTypeOK'
    BY <1>0, <1>10, <2>2 DEF RoomsTypeOK, IInv, Disconnect
  <2>4. AnnouncementsStand'
    BY <2>2
  <2>5. OffIsNowhere'
    BY <1>10, <2>2 DEF OffIsNowhere, RoomsTypeOK, Disconnect
  <2>6. SetUpKnows'
    BY <1>10, <2>2 DEF SetUpKnows, RoomsTypeOK, Disconnect
  <2>7. SetUpForgets'
    BY <1>10, <2>2 DEF SetUpForgets, OffIsNowhere, RoomsTypeOK, Disconnect
  <2> QED
    BY <1>0, <2>3, <2>4, <2>5, <2>6, <2>7 DEF RInv
<1>11. CASE UNCHANGED roomVars
  <2>1. /\ AnnouncementsStand'
        /\ Members' = Members
        /\ overlapped' = overlapped
        /\ left' = left
        /\ \A u : (Joining(u)' <=> Joining(u)) /\ (Leaving(u)' <=> Leaving(u))
    BY <1>11, SocketsLeaveGroupAlone
  <2>2. RoomsTypeOK'
    BY <1>0, <1>11 DEF RoomsTypeOK, IInv
  <2>3. AnnouncementsStand'
    BY <2>1
  <2>4. OffIsNowhere'
    BY <1>11 DEF OffIsNowhere
  <2>5. SetUpKnows'
    BY <1>11, <2>1 DEF SetUpKnows
  <2>6. SetUpForgets'
    BY <1>11, <2>1 DEF SetUpForgets
  <2> QED
    BY <1>0, <2>2, <2>3, <2>4, <2>5, <2>6 DEF RInv
<1> QED
  BY <1>1, <1>2, <1>3, <1>4, <1>5, <1>6, <1>7, <1>8, <1>9, <1>10, <1>11
  DEF RoomsNext, Request, Commit

LEMMA RInvAlways == RoomsSpec => []RInv
  BY InitRInv, StepRInv, PTL DEF RoomsSpec

-----------------------------------------------------------------------------
(* The bridge and the sockets change nothing about the group: Rooms         *)
(* implements Membership, so its theorems hold in Rooms too.               *)
THEOREM RoomsImplementMembership == RoomsSpec => Spec
<1>1. RoomsInit => Init
  BY DEF RoomsInit
<1>2. [RoomsNext]_roomVars => [Next]_vars
  BY RoomsStep
<1> QED
  BY <1>1, <1>2, PTL DEF RoomsSpec, Spec

(* Type correctness of the rooms and of the membership below them.         *)
THEOREM RoomsTypeCorrect == RoomsSpec => []RoomsTypeOK
  BY RInvAlways, PTL DEF RInv

(* The welcome handler of server.ts and the bridge together never leave a  *)
(* set-up connection of a member out of the group's room.                  *)
THEOREM MembersAreInTheRoom == RoomsSpec => []NoMemberMissesRoom
<1>1. RInv => NoMemberMissesRoom
  BY DEF RInv, SetUpKnows, NoMemberMissesRoom
<1> QED
  BY <1>1, RInvAlways, PTL

(* A removed member's connections stay in the room only after overlapping  *)
(* requests or a lookup made before the removal.                           *)
THEOREM RemovedMembersAreOut == RoomsSpec => []RemovedHearNothing
<1>1. RInv => RemovedHearNothing
  BY DEF RInv, RoomsTypeOK, SetUpForgets, RemovedHearNothing
<1> QED
  BY <1>1, RInvAlways, PTL

-----------------------------------------------------------------------------
(* Groups. *)

(* An announcement of s's user being added or removed is still to come. *)
ToldSoon(s) ==
  \E p \in Requests :
    /\ pc[p] = "announce" /\ req[p].kind \in {"create", "add", "remove"}
    /\ UserOf[s] \in req[p].who

(* What a request keeps of the group it left behind: its own work, and,     *)
(* unless its snapshot missed a commit or one followed, the group as it is. *)
CopiesKnow ==
  /\ passed \subseteq {p \in Requests : pc[p] = "announce"}
  /\ \A p \in Requests :
       pc[p] = "announce" =>
         /\ copy[p] \in AllRoles
         /\ p \notin passed => copy[p] = role
         /\ req[p].kind \in {"create", "add"} => \A u \in req[p].who : In(copy[p], u)
         /\ req[p].kind = "remove" => \A u \in req[p].who : ~In(copy[p], u)
         /\ asker[p] # None => UserOf[asker[p]] = req[p].actor
  /\ \A p \in Requests :
       pc[p] = "commit" /\ asker[p] # None => UserOf[asker[p]] = req[p].actor

(* An answer says how the group was; the user who left was not in it.  If no *)
(* announcement overtook it, only commits not announced yet contradict it.   *)
AnswersKnow ==
  \A a \in answers :
    /\ a.kind = "left" => ~In(a.roles, UserOf[a.tab])
    /\ ~a.late =>
         /\ a.roles = role \/ \E p \in Requests : pc[p] = "announce"
         /\ (In(a.roles, UserOf[a.tab]) <=> UserOf[a.tab] \in Members) \/ ToldSoon(a.tab)

ListsKnow ==
  \A s \in loaded :
    s \notin doubt => (s \in listed <=> UserOf[s] \in Members) \/ ToldSoon(s)

PanelsKnow ==
  \A s \in Sockets :
    detail[s] # None /\ s \notin dated =>
      detail[s] = role \/ \E p \in Requests : pc[p] = "announce"

GInv ==
  /\ RInv
  /\ GroupsTypeOK
  /\ CopiesKnow
  /\ AnswersKnow
  /\ ListsKnow
  /\ PanelsKnow

AnswerRecords == [tab : Sockets, kind : {"list", "detail", "kept", "made", "left"},
                  roles : AllRoles, late : BOOLEAN]

(* Nothing about the requests announced or about the group changes. *)
GroupStands ==
  /\ role' = role
  /\ \A p \in Requests :
       /\ pc'[p] = "announce" <=> pc[p] = "announce"
       /\ pc[p] = "announce" => req'[p] = req[p]

LEMMA MembersAreIn == \A u \in Users : u \in Members <=> In(role, u)
  BY DEF Members, In

LEMMA StandingToldSoon ==
  ASSUME GroupStands
  PROVE  /\ \A s : ToldSoon(s)' <=> ToldSoon(s)
         /\ (\E p \in Requests : pc'[p] = "announce")
               <=> (\E p \in Requests : pc[p] = "announce")
         /\ Members' = Members
<1>1. \A p \in Requests :
        /\ pc'[p] = "announce" <=> pc[p] = "announce"
        /\ pc[p] = "announce" => req'[p] = req[p]
  BY DEF GroupStands
<1>2. Members' = Members
  BY DEF GroupStands, Members
<1> QED
  BY <1>1, <1>2 DEF ToldSoon

LEMMA InitGInv == GroupsInit => GInv
<1> SUFFICES ASSUME GroupsInit
             PROVE  GInv
  OBVIOUS
<1>1. RInv
  BY InitRInv DEF GroupsInit
<1>2. PICK p \in Requests :
        /\ pc = [q \in Requests |-> IF q = p THEN "announce" ELSE "idle"]
        /\ req = [q \in Requests |-> IF q = p THEN Req("create", creator, Members)
                                     ELSE NoReq]
  BY DEF GroupsInit, RoomsInit, Init
<1>3. role \in AllRoles
  BY <1>1 DEF RInv, RoomsTypeOK, TypeOK, AllRoles
<1>4. /\ \A q \in Requests : pc[q] = "announce" <=> q = p
      /\ req[p].kind = "create" /\ req[p].actor = creator /\ req[p].who = Members
  BY <1>2 DEF Req
<1>5. PICK s \in {None} \cup {t \in Sockets : UserOf[t] = creator} :
        asker = [q \in Requests |-> IF Idle(q) THEN None ELSE s]
  BY DEF GroupsInit
<1>6. /\ copy = [q \in Requests |-> IF Idle(q) THEN None ELSE role]
      /\ answers = {} /\ loaded = {} /\ listed = {} /\ page = {}
      /\ detail = [t \in Sockets |-> None]
      /\ passed = {} /\ doubt = {} /\ dated = {}
  BY DEF GroupsInit
<1>7. GroupsTypeOK
  BY <1>1, <1>3, <1>5, <1>6 DEF GroupsTypeOK, RInv
<1>8. CopiesKnow
  <2>1. \A q \in Requests : pc[q] # "commit"
    BY <1>2
  <2>2. asker[p] # None => UserOf[asker[p]] = req[p].actor
    BY <1>2, <1>4, <1>5
  <2>3. copy[p] = role
    BY <1>2, <1>6
  <2>4. \A u \in Members : In(role, u)
    BY DEF Members, In
  <2> QED
    BY <1>3, <1>4, <1>6, <2>1, <2>2, <2>3, <2>4 DEF CopiesKnow
<1>9. AnswersKnow /\ ListsKnow /\ PanelsKnow
  BY <1>6 DEF AnswersKnow, ListsKnow, PanelsKnow
<1> QED
  BY <1>1, <1>7, <1>8, <1>9 DEF GInv

(* Every step of a browser is one of Rooms, or leaves Rooms alone.          *)
LEMMA PressStarts ==
  ASSUME NEW p, NEW s \in Sockets, Press(p, s)
  PROVE  /\ Start(p)
         /\ \E r : Begin(p, r) /\ r.actor = UserOf[s]
<1>1. UserOf[s] \in Users
  BY UserOfAssumption
<1>2. CASE \E u \in Users : AddMembers(p, UserOf[s], {u})
  <2>1. PICK u \in Users : AddMembers(p, UserOf[s], {u})
    BY <1>2
  <2>2. Begin(p, Req("add", UserOf[s], {u})) /\ Start(p)
    BY <1>1, <2>1 DEF AddMembers, Start
  <2>3. Req("add", UserOf[s], {u}).actor = UserOf[s]
    BY DEF Req
  <2> HIDE DEF Begin
  <2> QED
    BY <2>2, <2>3
<1>3. CASE \E u \in Users : RemoveMember(p, UserOf[s], u)
  <2>1. PICK u \in Users : RemoveMember(p, UserOf[s], u)
    BY <1>3
  <2>2. Begin(p, Req("remove", UserOf[s], {u})) /\ Start(p)
    BY <1>1, <2>1 DEF RemoveMember, Start
  <2>3. Req("remove", UserOf[s], {u}).actor = UserOf[s]
    BY DEF Req
  <2> HIDE DEF Begin
  <2> QED
    BY <2>2, <2>3
<1>4. CASE \E u \in Users : TransferOwner(p, UserOf[s], u)
  <2>1. PICK u \in Users : TransferOwner(p, UserOf[s], u)
    BY <1>4
  <2>2. Begin(p, Req("transfer", UserOf[s], {u})) /\ Start(p)
    BY <1>1, <2>1 DEF TransferOwner, Start
  <2>3. Req("transfer", UserOf[s], {u}).actor = UserOf[s]
    BY DEF Req
  <2> HIDE DEF Begin
  <2> QED
    BY <2>2, <2>3
<1> QED
  BY <1>1, <1>2, <1>3, <1>4 DEF Press

LEMMA AskBegins ==
  ASSUME RInv, NEW p \in Requests, NEW s \in Sockets \cup {None}, Ask(p, s)
  PROVE  /\ Start(p)
         /\ Request(p)
         /\ GroupStands
         /\ pc' = [pc EXCEPT ![p] = "commit"]
         /\ pc[p] = "idle"
         /\ asker' = [asker EXCEPT ![p] = s]
         /\ s # None => req'[p].actor = UserOf[s]
         /\ \A q \in Requests \ {p} : req'[q] = req[q]
<1>1. Start(p)
  BY PressStarts DEF Ask
<1>2. PICK r : Begin(p, r) /\ (s # None => r.actor = UserOf[s])
  <2>1. CASE s = None
    BY <1>1, <2>1 DEF Start, AddMembers, RemoveMember, TransferOwner
  <2>2. CASE s # None
    BY <2>2, PressStarts DEF Ask
  <2> QED
    BY <2>1, <2>2
<1>3. pc \in [Requests -> {"idle", "commit", "announce"}] /\ req \in [Requests -> Reqs]
  BY DEF RInv, IInv, TypeOK
<1>4. /\ pc' = [pc EXCEPT ![p] = "commit"] /\ pc[p] = "idle"
      /\ req' = [req EXCEPT ![p] = r]
      /\ role' = role
  BY <1>2
<1>5. GroupStands
  BY <1>3, <1>4 DEF GroupStands
<1>6. Members' = Members
  BY <1>5, StandingToldSoon
<1>7. Request(p)
  BY <1>1, <1>6 DEF Ask, Request
<1> QED
  BY <1>1, <1>2, <1>3, <1>4, <1>5, <1>7 DEF Ask

LEMMA GroupsStep == RInv /\ [GroupsNext]_groupsVars => [RoomsNext]_roomVars
<1> SUFFICES ASSUME RInv, [GroupsNext]_groupsVars
             PROVE  [RoomsNext]_roomVars
  OBVIOUS
<1>1. ASSUME NEW p \in Requests, NEW s \in Sockets \cup {None}, Ask(p, s)
      PROVE  RoomsNext
  BY <1>1, AskBegins DEF RoomsNext
<1>2. ASSUME NEW p \in Requests, Write(p) \/ Tell(p)
      PROVE  RoomsNext
  BY <1>2 DEF RoomsNext, Write, Tell
<1>3. ASSUME NEW s \in Sockets, Connection(s)
      PROVE  RoomsNext
  BY <1>3 DEF RoomsNext, Connection
<1>4. ASSUME NEW s \in Sockets, Tab(s)
      PROVE  UNCHANGED roomVars
  BY <1>4 DEF Tab, Query, Take, Lose, Visit
<1>5. CASE UNCHANGED groupsVars
  BY <1>5 DEF groupsVars
<1>6. ASSUME NEW p \in Requests, Open(p)
      PROVE  UNCHANGED roomVars
  BY <1>6 DEF Open
<1> QED
  BY <1>1, <1>2, <1>3, <1>4, <1>5, <1>6 DEF GroupsNext

Knows == CopiesKnow /\ AnswersKnow /\ ListsKnow /\ PanelsKnow

HoldsTypes ==
  /\ asker \in [Requests -> Sockets \cup {None}]
  /\ copy \in [Requests -> AllRoles \cup {None}]
  /\ answers \subseteq AnswerRecords
  /\ loaded \cup listed \cup page \cup doubt \cup dated \subseteq Sockets
  /\ detail \in [Sockets -> AllRoles \cup {None}]
  /\ passed \subseteq Requests

LEMMA TypesAreHeld == GroupsTypeOK <=> RoomsTypeOK /\ HoldsTypes
  BY DEF GroupsTypeOK, HoldsTypes, AnswerRecords

LEMMA AnswerFields ==
  ASSUME NEW s, NEW kind, NEW roles, NEW late
  PROVE  /\ Answer(s, kind, roles, late).tab = s
         /\ Answer(s, kind, roles, late).kind = kind
         /\ Answer(s, kind, roles, late).roles = roles
         /\ Answer(s, kind, roles, late).late = late
         /\ s \in Sockets /\ kind \in {"list", "detail", "kept", "made", "left"}
            /\ roles \in AllRoles /\ late \in BOOLEAN
            => Answer(s, kind, roles, late) \in AnswerRecords
  BY DEF Answer, AnswerRecords

(* A request that has only been checked. *)
LEMMA AskKnows ==
  ASSUME GInv, NEW p \in Requests, NEW s \in Sockets \cup {None}, Ask(p, s)
  PROVE  HoldsTypes' /\ Knows'
<1> USE DEF GInv
<1>1. /\ GroupStands
      /\ pc' = [pc EXCEPT ![p] = "commit"]
      /\ pc[p] = "idle"
      /\ asker' = [asker EXCEPT ![p] = s]
      /\ s # None => req'[p].actor = UserOf[s]
      /\ \A q \in Requests \ {p} : req'[q] = req[q]
  BY AskBegins
<1>2. UNCHANGED <<copy, answers, tabVars, passed, doubt, dated>> /\ role' = role
  BY <1>1 DEF Ask, GroupStands
<1>3. HoldsTypes
  BY TypesAreHeld
<1>4. /\ \A t : ToldSoon(t)' <=> ToldSoon(t)
      /\ (\E q \in Requests : pc'[q] = "announce")
            <=> (\E q \in Requests : pc[q] = "announce")
      /\ Members' = Members
  BY <1>1, StandingToldSoon
<1>5. pc \in [Requests -> {"idle", "commit", "announce"}]
  BY DEF RInv, IInv, TypeOK
<1>6. HoldsTypes'
  BY <1>1, <1>2, <1>3 DEF HoldsTypes, tabVars
<1>7. CopiesKnow'
  <2>1. \A q \in Requests : q # p =>
          pc'[q] = pc[q] /\ req'[q] = req[q] /\ asker'[q] = asker[q]
    BY <1>1, <1>3, <1>5 DEF HoldsTypes
  <2>2. pc'[p] = "commit" /\ asker'[p] = s
    BY <1>1, <1>3, <1>5 DEF HoldsTypes
  <2> QED
    BY <1>1, <1>2, <2>1, <2>2 DEF CopiesKnow
<1>8. AnswersKnow' /\ ListsKnow' /\ PanelsKnow'
  <2>1. AnswersKnow'
    BY <1>2, <1>4 DEF AnswersKnow
  <2>2. ListsKnow'
    BY <1>2, <1>4 DEF ListsKnow, tabVars
  <2>3. PanelsKnow'
    BY <1>2, <1>4 DEF PanelsKnow, tabVars
  <2> QED
    BY <2>1, <2>2, <2>3
<1> QED
  BY <1>6, <1>7, <1>8 DEF Knows

(* What a transaction did: it changed the standing of nobody but the people *)
(* the request is about.                                                    *)
Did(p) ==
  /\ pc[p] = "commit"
  /\ pc' = [pc EXCEPT ![p] = "announce"]
  /\ req' = req
  /\ role' \in AllRoles
  /\ req[p].kind \in {"add", "remove", "transfer"}
  /\ req[p].kind = "add" => \A u \in req[p].who : In(role', u)
  /\ req[p].kind = "remove" => \A u \in req[p].who : In(role, u) /\ ~In(role', u)
  /\ \A u \in Users :
       \/ In(role', u) <=> In(role, u)
       \/ req[p].kind \in {"add", "remove"} /\ u \in req[p].who

LEMMA CommitDoes ==
  ASSUME RInv, NEW p \in Requests, CommitAdd(p) \/ CommitRemove(p) \/ CommitTransfer(p)
  PROVE  Did(p)
<1> USE DEF RInv, AllRoles, Roles
<1>1. role \in [Users -> Roles] /\ req[p].who \subseteq Users
  BY DEF IInv, TypeOK, Reqs
<1>2. CASE CommitAdd(p)
  BY <1>1, <1>2 DEF CommitAdd, Did, In
<1>3. CASE CommitRemove(p)
  <2>1. req[p].who \subseteq Members
    BY <1>3 DEF CommitRemove
  <2>2. \A u \in req[p].who : In(role, u)
    BY <2>1 DEF Members, In
  <2> QED
    BY <1>1, <1>3, <2>2 DEF CommitRemove, Did, In
<1>4. CASE CommitTransfer(p)
  <2>1. {req[p].actor} \cup req[p].who \subseteq Members
    BY <1>4 DEF CommitTransfer
  <2>2. \A u \in {req[p].actor} \cup req[p].who : In(role, u)
    BY <2>1 DEF Members, In
  <2> QED
    BY <1>1, <1>4, <2>2 DEF CommitTransfer, Did, In
<1> QED
  BY <1>2, <1>3, <1>4

(* A request that reads the group in its transaction. *)
LEMMA OpenKnows ==
  ASSUME GInv, NEW p \in Requests, Open(p)
  PROVE  HoldsTypes' /\ Knows'
<1> USE DEF GInv
<1>1. HoldsTypes /\ role \in AllRoles
  BY TypesAreHeld DEF RInv, IInv, TypeOK, AllRoles
<1>2. /\ pc[p] = "commit"
      /\ copy' = [copy EXCEPT ![p] = role]
      /\ pc' = pc /\ req' = req /\ role' = role
      /\ UNCHANGED <<asker, answers, tabVars, passed, doubt, dated>>
  BY DEF Open
<1>3. GroupStands
  BY <1>2 DEF GroupStands
<1>4. /\ \A t : ToldSoon(t)' <=> ToldSoon(t)
      /\ (\E q \in Requests : pc'[q] = "announce")
            <=> (\E q \in Requests : pc[q] = "announce")
      /\ Members' = Members
  BY <1>3, StandingToldSoon
<1>5. HoldsTypes'
  BY <1>1, <1>2 DEF HoldsTypes, tabVars
<1>6. CopiesKnow'
  <2>1. \A q \in Requests : pc[q] = "announce" => copy'[q] = copy[q]
    BY <1>1, <1>2 DEF HoldsTypes
  <2> QED
    BY <1>2, <2>1 DEF CopiesKnow
<1>7. AnswersKnow' /\ ListsKnow' /\ PanelsKnow'
  BY <1>2, <1>4 DEF AnswersKnow, ListsKnow, PanelsKnow, tabVars
<1> QED
  BY <1>5, <1>6, <1>7 DEF Knows

(* What a transaction reads back: its own changes over its snapshot. *)
ReadBack(p) ==
  IF req[p].kind = "add" THEN role'
  ELSE [u \in Users |-> IF role'[u] # role[u] THEN role'[u] ELSE copy[p][u]]

Missed(p) == IF req[p].kind # "add" /\ copy[p] # role THEN {p} ELSE {}

LEMMA ReadsBack ==
  ASSUME RInv, HoldsTypes, NEW p \in Requests, Did(p), FindsRows(p)
  PROVE  /\ ReadBack(p) \in AllRoles
         /\ p \notin Missed(p) => ReadBack(p) = role'
         /\ req[p].kind = "add" => \A u \in req[p].who : In(ReadBack(p), u)
         /\ req[p].kind = "remove" => \A u \in req[p].who : ~In(ReadBack(p), u)
<1>1. /\ role \in [Users -> Roles] /\ role' \in [Users -> Roles]
      /\ req[p].who \subseteq Users
      /\ copy[p] \in [Users -> Roles] \cup {None}
  BY DEF RInv, IInv, TypeOK, Reqs, Did, HoldsTypes, AllRoles
<1>2. CASE req[p].kind = "add"
  <2>1. ReadBack(p) = role'
    BY <1>2 DEF ReadBack
  <2> QED
    BY <1>1, <1>2, <2>1 DEF AllRoles, Did
<1>3. CASE req[p].kind # "add"
  <2>1. ReadBack(p) = [u \in Users |-> IF role'[u] # role[u] THEN role'[u] ELSE copy[p][u]]
    BY <1>3 DEF ReadBack
  <2>2. copy[p] # None /\ \A u \in req[p].who : In(copy[p], u)
    BY <1>3 DEF FindsRows
  <2>3. copy[p] \in [Users -> Roles]
    BY <1>1, <2>2
  <2>4. ReadBack(p) \in AllRoles
    BY <1>1, <2>1, <2>3 DEF AllRoles
  <2>5. p \notin Missed(p) => ReadBack(p) = role'
    <3>1. SUFFICES ASSUME copy[p] = role
                   PROVE  ReadBack(p) = role'
      BY <1>3 DEF Missed
    <3>2. \A u \in Users : (IF role'[u] # role[u] THEN role'[u] ELSE copy[p][u]) = role'[u]
      BY <3>1
    <3>3. ReadBack(p) = [u \in Users |-> role'[u]]
      BY <2>1, <3>2
    <3> QED
      BY <1>1, <3>3
  <2>6. ASSUME req[p].kind = "remove", NEW u \in req[p].who
        PROVE  ~In(ReadBack(p), u)
    <3>1. role'[u] = "none" /\ u \in Users
      BY <1>1, <2>6 DEF Did, In
    <3>2. role[u] # "none"
      BY <2>6 DEF Did, In
    <3> QED
      BY <2>1, <3>1, <3>2 DEF In
  <2> QED
    BY <1>3, <2>4, <2>5, <2>6
<1> QED
  BY <1>2, <1>3

LEMMA WriteKnows ==
  ASSUME GInv, NEW p \in Requests, Write(p)
  PROVE  HoldsTypes' /\ Knows'
<1> USE DEF GInv
<1>1. HoldsTypes
  BY TypesAreHeld
<1>2. pc \in [Requests -> {"idle", "commit", "announce"}]
  BY DEF RInv, IInv, TypeOK
<1>3. /\ UNCHANGED <<asker, answers, tabVars, doubt, dated>>
      /\ passed' = passed
           \cup (IF role' = role THEN {} ELSE {q \in Requests : pc[q] = "announce"})
           \cup (IF pc'[p] = "announce" THEN Missed(p) ELSE {})
      /\ pc'[p] = "announce" => FindsRows(p)
      /\ copy' = [copy EXCEPT ![p] = IF pc'[p] = "announce" THEN ReadBack(p) ELSE None]
  <2>1. /\ UNCHANGED <<asker, answers, tabVars, doubt, dated>>
        /\ passed' = passed
             \cup (IF role' = role THEN {} ELSE {q \in Requests : pc[q] = "announce"})
             \cup (IF pc'[p] = "announce" /\ req[p].kind # "add" /\ copy[p] # role
                   THEN {p} ELSE {})
        /\ pc'[p] = "announce" => FindsRows(p)
    BY DEF Write
  <2>2. (IF pc'[p] = "announce" /\ req[p].kind # "add" /\ copy[p] # role THEN {p} ELSE {})
          = (IF pc'[p] = "announce" THEN Missed(p) ELSE {})
    BY DEF Missed
  <2>3. copy' = [copy EXCEPT ![p] = IF pc'[p] = "announce" THEN ReadBack(p) ELSE None]
    <3>1. KeepCopy(p)
      BY DEF Write
    <3>2. CASE pc'[p] # "announce"
      BY <3>1, <3>2 DEF KeepCopy
    <3>3. CASE pc'[p] = "announce" /\ req[p].kind = "add"
      BY <3>1, <3>3 DEF KeepCopy, ReadBack
    <3>4. CASE pc'[p] = "announce" /\ req[p].kind # "add"
      BY <1>1, <3>1, <3>4 DEF KeepCopy, ReadBack, HoldsTypes
    <3> QED
      BY <3>2, <3>3, <3>4
  <2> QED
    BY <2>1, <2>2, <2>3
<1>4. CASE Abort(p)
  <2>1. /\ pc' = [pc EXCEPT ![p] = "idle"] /\ req' = [req EXCEPT ![p] = NoReq]
        /\ pc[p] = "commit" /\ role' = role
    BY <1>4 DEF Abort
  <2>2. req \in [Requests -> Reqs]
    BY DEF RInv, IInv, TypeOK
  <2>3. GroupStands
    BY <1>2, <2>1, <2>2 DEF GroupStands
  <2>4. /\ \A t : ToldSoon(t)' <=> ToldSoon(t)
        /\ (\E q \in Requests : pc'[q] = "announce")
              <=> (\E q \in Requests : pc[q] = "announce")
        /\ Members' = Members
    BY <2>3, StandingToldSoon
  <2>5. HoldsTypes'
    BY <1>1, <1>2, <1>3, <2>1 DEF HoldsTypes, tabVars
  <2>6. \A q \in Requests : q # p => pc'[q] = pc[q] /\ req'[q] = req[q] /\ copy'[q] = copy[q]
    BY <1>1, <1>2, <1>3, <2>1, <2>2 DEF HoldsTypes
  <2>7. pc'[p] = "idle"
    BY <1>2, <2>1
  <2>8. CopiesKnow'
    BY <1>3, <2>1, <2>6, <2>7 DEF CopiesKnow
  <2>9. AnswersKnow'
    BY <1>3, <2>1, <2>4 DEF AnswersKnow
  <2>10. ListsKnow'
    BY <1>3, <2>1, <2>4 DEF ListsKnow, tabVars
  <2>11. PanelsKnow'
    BY <1>3, <2>1, <2>4 DEF PanelsKnow, tabVars
  <2> QED
    BY <2>5, <2>8, <2>9, <2>10, <2>11 DEF Knows
<1>5. CASE Did(p)
  <2>1. /\ pc[p] = "commit" /\ pc' = [pc EXCEPT ![p] = "announce"] /\ req' = req
        /\ role' \in AllRoles
    BY <1>5 DEF Did
  <2>2. pc'[p] = "announce" /\ \A q \in Requests \ {p} : pc'[q] = pc[q]
    BY <1>2, <2>1
  <2>3. copy' = [copy EXCEPT ![p] = ReadBack(p)]
    BY <1>3, <2>2
  <2>4. copy'[p] = ReadBack(p) /\ \A q \in Requests \ {p} : copy'[q] = copy[q]
    BY <1>1, <2>3 DEF HoldsTypes
  <2>15. /\ ReadBack(p) \in AllRoles
         /\ p \notin Missed(p) => ReadBack(p) = role'
         /\ req[p].kind = "add" => \A u \in req[p].who : In(ReadBack(p), u)
         /\ req[p].kind = "remove" => \A u \in req[p].who : ~In(ReadBack(p), u)
    BY <1>1, <1>3, <1>5, <2>2, ReadsBack
  <2>16. Missed(p) \subseteq {p} /\ (Missed(p) = {p} \/ Missed(p) = {})
    BY DEF Missed
  <2>5. HoldsTypes'
    <3>1. copy' \in [Requests -> AllRoles \cup {None}]
      BY <1>1, <2>3, <2>15 DEF HoldsTypes
    <3>2. passed' \subseteq Requests
      BY <1>1, <1>3, <2>16 DEF HoldsTypes
    <3> QED
      BY <1>1, <1>3, <3>1, <3>2 DEF HoldsTypes, tabVars
  <2>6. p \notin passed' => p \notin Missed(p)
    BY <1>3, <2>2
  <2>7. \A q \in Requests \ {p} :
          pc[q] = "announce" /\ q \notin passed' => q \notin passed /\ role' = role
    BY <1>3
  <2>8. passed' \subseteq {q \in Requests : pc'[q] = "announce"}
    <3>1. passed' \subseteq passed \cup {q \in Requests : pc[q] = "announce"} \cup {p}
      BY <1>3, <2>16
    <3> QED
      BY <2>2, <3>1 DEF CopiesKnow
  <2>9. CopiesKnow'
    <3>1. ASSUME NEW q \in Requests, pc'[q] = "announce"
          PROVE  /\ copy'[q] \in AllRoles
                 /\ q \notin passed' => copy'[q] = role'
                 /\ req'[q].kind \in {"create", "add"} => \A u \in req'[q].who : In(copy'[q], u)
                 /\ req'[q].kind = "remove" => \A u \in req'[q].who : ~In(copy'[q], u)
                 /\ asker'[q] # None => UserOf[asker'[q]] = req'[q].actor
      <4>1. CASE q = p
        <5>1. asker[p] # None => UserOf[asker[p]] = req[p].actor
          BY <2>1 DEF CopiesKnow
        <5>2. req[p].kind # "create"
          BY <1>5 DEF Did
        <5> QED
          BY <1>3, <2>1, <2>4, <2>6, <2>15, <4>1, <5>1, <5>2
      <4>2. CASE q # p
        <5>1. pc[q] = "announce"
          BY <2>2, <3>1, <4>2
        <5> QED
          BY <1>3, <2>1, <2>4, <2>7, <4>2, <5>1 DEF CopiesKnow
      <4> QED
        BY <4>1, <4>2
    <3>2. \A q \in Requests :
            pc'[q] = "commit" /\ asker'[q] # None => UserOf[asker'[q]] = req'[q].actor
      BY <1>3, <2>1, <2>2 DEF CopiesKnow
    <3> QED
      BY <2>8, <3>1, <3>2 DEF CopiesKnow
  <2>10. \A s \in Sockets :
           (UserOf[s] \in Members' <=> UserOf[s] \in Members) \/ ToldSoon(s)'
    <3>1. SUFFICES ASSUME NEW s \in Sockets
                   PROVE  (UserOf[s] \in Members' <=> UserOf[s] \in Members) \/ ToldSoon(s)'
      OBVIOUS
    <3>2. UserOf[s] \in Users
      BY UserOfAssumption
    <3>3. \/ In(role', UserOf[s]) <=> In(role, UserOf[s])
          \/ req[p].kind \in {"add", "remove"} /\ UserOf[s] \in req[p].who
      BY <1>5, <3>2 DEF Did
    <3>4. /\ UserOf[s] \in Members' <=> In(role', UserOf[s])
          /\ UserOf[s] \in Members <=> In(role, UserOf[s])
      BY <3>2 DEF Members, In
    <3> QED
      BY <2>1, <2>2, <3>3, <3>4 DEF ToldSoon
  <2>11. \A s \in Sockets : ToldSoon(s) => ToldSoon(s)'
    BY <2>1, <2>2 DEF ToldSoon
  <2>12. AnswersKnow'
    <3>1. \A a \in answers : a.tab \in Sockets
      BY <1>1 DEF HoldsTypes, AnswerRecords
    <3> QED
      BY <1>3, <2>2, <2>10, <2>11, <3>1 DEF AnswersKnow
  <2>13. ListsKnow'
    <3>1. loaded \subseteq Sockets
      BY <1>1 DEF HoldsTypes
    <3> QED
      BY <1>3, <2>10, <2>11, <3>1 DEF ListsKnow, tabVars
  <2>14. PanelsKnow'
    BY <2>2 DEF PanelsKnow
  <2> QED
    BY <2>5, <2>9, <2>12, <2>13, <2>14 DEF Knows
<1> QED
  BY <1>4, <1>5, CommitDoes DEF Write, Commit

(* The announcement, part by part. *)
Out(p) == HearRemoved(req[p].kind, req[p].who)
Concerned(p) == {s \in Sockets : UserOf[s] \in req[p].who \/ In(copy[p], UserOf[s])}

Told(p) ==
  /\ pc[p] = "announce"
  /\ role' = role
  /\ \A q \in Requests \ {p} :
       /\ pc'[q] = pc[q] /\ req'[q] = req[q]
       /\ asker'[q] = asker[q] /\ copy'[q] = copy[q]
  /\ pc'[p] = "idle"
  /\ asker' = [asker EXCEPT ![p] = None]
  /\ copy' = [copy EXCEPT ![p] = None]
  /\ passed' = passed \ {p}

ToldLists(p) ==
  /\ listed' = (listed \ Out(p)) \cup HearUpsert(p)
  /\ loaded' = loaded \cup Out(p) \cup HearUpsert(p)
  /\ doubt' = doubt \cup IF p \in passed THEN Concerned(p)
                         ELSE IF req[p].kind = "transfer" THEN {}
                         ELSE {s \in Sockets : UserOf[s] \in req[p].who /\ sock[s] = "off"}

ToldPages(p) ==
  /\ page' = page \ Out(p)
  /\ detail' = [s \in Sockets |-> IF s \in Out(p) THEN None ELSE detail[s]]
  /\ dated' = {s \in Sockets : detail'[s] # None}

ToldAnswers(p) ==
  \A a \in answers' :
    \/ \E b \in answers : a = [b EXCEPT !.late = TRUE]
    \/ a \in AnswerOf(p)

LEMMA TellDoes ==
  ASSUME RInv, HoldsTypes, NEW p \in Requests, Tell(p)
  PROVE  Told(p) /\ ToldLists(p) /\ ToldPages(p) /\ ToldAnswers(p)
<1>1. Announce(p)
  BY DEF Tell, AnnounceToRoom
<1>2. pc \in [Requests -> {"idle", "commit", "announce"}] /\ req \in [Requests -> Reqs]
  BY DEF RInv, IInv, TypeOK
<1>3. Told(p)
  BY <1>1, <1>2 DEF Tell, Announce, Told, HoldsTypes
<1>4. ToldLists(p)
  BY DEF Tell, ToldLists, Out, Concerned
<1>5. ToldPages(p)
  BY DEF Tell, ToldPages, Out
<1>6. ToldAnswers(p)
  <2>1. answers' = {[a EXCEPT !.late = TRUE] : a \in
                     {b \in answers : ~(b.kind = "detail" /\ b.tab \in Out(p))}} \cup AnswerOf(p)
    BY DEF Tell, Out
  <2> QED
    BY <2>1 DEF ToldAnswers
<1> QED
  BY <1>3, <1>4, <1>5, <1>6

LEMMA LateAnswer ==
  ASSUME NEW b \in AnswerRecords
  PROVE  /\ [b EXCEPT !.late = TRUE] \in AnswerRecords
         /\ [b EXCEPT !.late = TRUE].late = TRUE
         /\ [b EXCEPT !.late = TRUE].tab = b.tab
         /\ [b EXCEPT !.late = TRUE].kind = b.kind
         /\ [b EXCEPT !.late = TRUE].roles = b.roles
  BY DEF AnswerRecords

LEMMA AnswerSays ==
  ASSUME GInv, NEW p \in Requests, pc[p] = "announce", NEW a \in AnswerOf(p)
  PROVE  /\ a \in AnswerRecords
         /\ a.roles = copy[p]
         /\ a.late <=> p \in passed
         /\ a.kind = "left" => ~In(a.roles, UserOf[a.tab])
<1> DEFINE kind == CASE req[p].kind = "create" -> "made"
                     [] req[p].kind = "remove" /\ req[p].actor \in req[p].who -> "left"
                     [] OTHER -> "kept"
           late == p \in passed
<1>1. HoldsTypes
  BY TypesAreHeld DEF GInv
<1>2. asker[p] # None /\ a = Answer(asker[p], kind, copy[p], late)
  BY DEF AnswerOf
<1>3. kind \in {"made", "left", "kept"}
  OBVIOUS
<1>4. kind = "left" => req[p].kind = "remove" /\ req[p].actor \in req[p].who
  OBVIOUS
<1>5. late \in BOOLEAN /\ (late <=> p \in passed)
  OBVIOUS
<1> HIDE DEF kind, late
<1>6. asker[p] \in Sockets /\ copy[p] \in AllRoles
  BY <1>1, <1>2 DEF HoldsTypes, GInv, CopiesKnow
<1>7. /\ a.tab = asker[p] /\ a.kind = kind /\ a.roles = copy[p] /\ a.late = late
      /\ a \in AnswerRecords
  BY <1>2, <1>3, <1>5, <1>6, AnswerFields
<1>8. kind = "left" => ~In(copy[p], req[p].actor)
  BY <1>4 DEF GInv, CopiesKnow
<1>9. UserOf[asker[p]] = req[p].actor
  BY <1>2 DEF GInv, CopiesKnow
<1> QED
  BY <1>5, <1>7, <1>8, <1>9

LEMMA TellKnows ==
  ASSUME GInv, NEW p \in Requests, Tell(p)
  PROVE  HoldsTypes' /\ Knows'
<1> USE DEF GInv
<1>1. HoldsTypes
  BY TypesAreHeld
<1>2. Told(p) /\ ToldLists(p) /\ ToldPages(p) /\ ToldAnswers(p)
  BY <1>1, TellDoes
<1>3. /\ pc[p] = "announce" /\ role' = role
      /\ \A q \in Requests \ {p} :
           /\ pc'[q] = pc[q] /\ req'[q] = req[q]
           /\ asker'[q] = asker[q] /\ copy'[q] = copy[q]
      /\ pc'[p] = "idle"
      /\ passed' = passed \ {p}
  BY <1>2 DEF Told
<1>4. Out(p) \subseteq Sockets /\ HearUpsert(p) \subseteq Sockets
  BY DEF Out, HearRemoved, HearUpsert, SocketsOf
<1>5. \A a \in answers' :
        /\ a \in AnswerRecords
        /\ a.kind = "left" => ~In(a.roles, UserOf[a.tab])
        /\ ~a.late => a.roles = copy[p] /\ p \notin passed
  <2>1. SUFFICES ASSUME NEW a \in answers'
                 PROVE  /\ a \in AnswerRecords
                        /\ a.kind = "left" => ~In(a.roles, UserOf[a.tab])
                        /\ ~a.late => a.roles = copy[p] /\ p \notin passed
    OBVIOUS
  <2>2. CASE a \in AnswerOf(p)
    BY <1>3, <2>2, AnswerSays
  <2>3. ASSUME NEW b \in answers, a = [b EXCEPT !.late = TRUE]
        PROVE  /\ a \in AnswerRecords
               /\ a.kind = "left" => ~In(a.roles, UserOf[a.tab])
               /\ a.late = TRUE
    <3>1. b \in AnswerRecords
      BY <1>1 DEF HoldsTypes
    <3>2. /\ a \in AnswerRecords /\ a.late = TRUE
          /\ a.tab = b.tab /\ a.kind = b.kind /\ a.roles = b.roles
      BY <2>3, <3>1, LateAnswer
    <3> QED
      BY <3>2 DEF AnswersKnow
  <2> QED
    BY <1>2, <2>2, <2>3 DEF ToldAnswers
<1>6. HoldsTypes'
  <2>1. asker' \in [Requests -> Sockets \cup {None}] /\ copy' \in [Requests -> AllRoles \cup {None}]
    BY <1>1, <1>2 DEF HoldsTypes, Told
  <2>2. answers' \subseteq AnswerRecords
    BY <1>5
  <2>3. loaded' \cup listed' \cup doubt' \subseteq Sockets
    BY <1>1, <1>2, <1>4 DEF HoldsTypes, ToldLists, Concerned
  <2>4. page' \cup dated' \subseteq Sockets /\ detail' \in [Sockets -> AllRoles \cup {None}]
    BY <1>1, <1>2 DEF HoldsTypes, ToldPages
  <2>5. passed' \subseteq Requests
    BY <1>1, <1>3 DEF HoldsTypes
  <2> QED
    BY <2>1, <2>2, <2>3, <2>4, <2>5 DEF HoldsTypes
<1>7. CopiesKnow'
  BY <1>3 DEF CopiesKnow
<1>8. \A s : ToldSoon(s) =>
        \/ ToldSoon(s)'
        \/ UserOf[s] \in req[p].who /\ req[p].kind \in {"create", "add", "remove"}
  BY <1>3 DEF ToldSoon
<1>9. p \notin passed => copy[p] = role
  BY <1>3 DEF CopiesKnow
<1>10. \A s \in Sockets : UserOf[s] \in Users /\ (UserOf[s] \in Members <=> In(role, UserOf[s]))
  BY MembersAreIn, UserOfAssumption
<1>11. Members' = Members
  BY <1>3 DEF Members
<1>12. AnswersKnow'
  <2>1. \A a \in answers' : a.tab \in Sockets
    BY <1>5 DEF AnswerRecords
  <2>2. \A a \in answers' : ~a.late =>
          a.roles = role' /\ (In(a.roles, UserOf[a.tab]) <=> UserOf[a.tab] \in Members')
    BY <1>3, <1>5, <1>9, <1>10, <1>11, <2>1
  <2> QED
    BY <1>5, <2>2 DEF AnswersKnow
<1>13. ListsKnow'
  <2>1. SUFFICES ASSUME NEW s \in loaded', s \notin doubt', ~ToldSoon(s)'
                 PROVE  s \in listed' <=> UserOf[s] \in Members'
    BY DEF ListsKnow
  <2>2. s \in Sockets /\ s \notin doubt
    <3>1. s \in Sockets
      BY <1>6, <2>1 DEF HoldsTypes
    <3>2. doubt \subseteq doubt'
      BY <1>2 DEF ToldLists
    <3> QED
      BY <2>1, <3>1, <3>2
  <2>3. s \in HearUpsert(p) <=> sock[s] # "off" /\ In(copy[p], UserOf[s])
    BY <1>10, <2>2 DEF HearUpsert, SocketsOf
  <2>4. s \in Out(p) <=> req[p].kind = "remove" /\ sock[s] # "off" /\ UserOf[s] \in req[p].who
    BY <2>2 DEF Out, HearRemoved, SocketsOf
  <2>5. CASE p \in passed
    <3>1. UserOf[s] \notin req[p].who /\ ~In(copy[p], UserOf[s])
      BY <1>2, <2>1, <2>2, <2>5 DEF ToldLists, Concerned
    <3>2. s \notin HearUpsert(p) /\ s \notin Out(p)
      BY <2>3, <2>4, <3>1
    <3>3. s \in loaded /\ (s \in listed' <=> s \in listed)
      BY <1>2, <3>2 DEF ToldLists
    <3>4. ~ToldSoon(s)
      BY <1>8, <2>1, <3>1
    <3> QED
      BY <1>11, <2>2, <3>3, <3>4 DEF ListsKnow
  <2>6. CASE p \notin passed /\ UserOf[s] \in req[p].who /\ req[p].kind \in {"create", "add", "remove"}
    <3>1. sock[s] # "off"
      BY <1>2, <2>1, <2>2, <2>6 DEF ToldLists
    <3>2. /\ req[p].kind \in {"create", "add"} => In(role, UserOf[s])
          /\ req[p].kind = "remove" => ~In(role, UserOf[s])
      BY <1>3, <1>9, <2>6 DEF CopiesKnow
    <3>3. s \in listed' <=> In(role, UserOf[s])
      BY <1>2, <1>9, <2>3, <2>4, <2>6, <3>1, <3>2 DEF ToldLists
    <3> QED
      BY <1>10, <1>11, <2>2, <3>3
  <2>7. CASE p \notin passed /\ ~(UserOf[s] \in req[p].who /\ req[p].kind \in {"create", "add", "remove"})
    <3>1. ~ToldSoon(s)
      BY <1>8, <2>1, <2>7
    <3>2. s \notin Out(p)
      BY <2>4, <2>7
    <3>3. CASE s \in HearUpsert(p)
      <4>1. s \in listed' /\ In(role, UserOf[s])
        BY <1>2, <1>9, <2>3, <2>7, <3>3 DEF ToldLists
      <4> QED
        BY <1>10, <1>11, <2>2, <4>1
    <3>4. CASE s \notin HearUpsert(p)
      <4>1. s \in loaded /\ (s \in listed' <=> s \in listed)
        BY <1>2, <3>2, <3>4 DEF ToldLists
      <4> QED
        BY <1>11, <2>2, <3>1, <4>1 DEF ListsKnow
    <3> QED
      BY <3>3, <3>4
  <2> QED
    BY <2>5, <2>6, <2>7
<1>14. PanelsKnow'
  BY <1>2 DEF PanelsKnow, ToldPages
<1> QED
  BY <1>6, <1>7, <1>12, <1>13, <1>14 DEF Knows

-----------------------------------------------------------------------------
(* The tab s reads, is answered, or looks elsewhere. *)
RoomsRest == UNCHANGED <<roomVars, asker, copy, passed>>

LEMMA RestingToldSoon ==
  ASSUME RoomsRest
  PROVE  /\ \A s : ToldSoon(s)' <=> ToldSoon(s)
         /\ (\E p \in Requests : pc'[p] = "announce")
               <=> (\E p \in Requests : pc[p] = "announce")
         /\ Members' = Members
         /\ role' = role
         /\ CopiesKnow => CopiesKnow'
<1>1. role' = role /\ pc' = pc /\ req' = req /\ asker' = asker /\ copy' = copy /\ passed' = passed
  BY DEF RoomsRest
<1>2. GroupStands
  BY <1>1 DEF GroupStands
<1>3. CopiesKnow => CopiesKnow'
  BY <1>1 DEF CopiesKnow
<1> QED
  BY <1>1, <1>2, <1>3, StandingToldSoon

LEMMA QueryKnows ==
  ASSUME GInv, NEW s \in Sockets, NEW kind \in {"list", "detail"}, Query(s, kind)
  PROVE  HoldsTypes' /\ Knows'
<1> USE DEF GInv
<1>1. HoldsTypes /\ role \in AllRoles
  BY TypesAreHeld DEF RInv, IInv, TypeOK, AllRoles
<1>2. /\ answers' = answers \cup {Answer(s, kind, role, FALSE)}
      /\ UNCHANGED <<tabVars, doubt, dated>> /\ RoomsRest
  BY DEF Query, RoomsRest
<1>3. /\ \A t : ToldSoon(t)' <=> ToldSoon(t)
      /\ (\E p \in Requests : pc'[p] = "announce")
            <=> (\E p \in Requests : pc[p] = "announce")
      /\ Members' = Members /\ role' = role
      /\ CopiesKnow'
  BY <1>2, RestingToldSoon
<1> DEFINE new == Answer(s, kind, role, FALSE)
<1>4. /\ new.tab = s /\ new.kind = kind /\ new.roles = role /\ new.late = FALSE
      /\ new \in AnswerRecords
  <2>1. kind \in {"list", "detail", "kept", "made", "left"} /\ FALSE \in BOOLEAN
    OBVIOUS
  <2> QED
    BY <1>1, <2>1 DEF Answer, AnswerRecords
<1> HIDE DEF new
<1>5. answers' = answers \cup {new}
  BY <1>2 DEF new
<1>6. HoldsTypes'
  BY <1>1, <1>2, <1>4, <1>5 DEF HoldsTypes, RoomsRest, tabVars
<1>7. In(role, UserOf[s]) <=> UserOf[s] \in Members
  BY MembersAreIn, UserOfAssumption
<1>8. AnswersKnow'
  BY <1>3, <1>4, <1>5, <1>7 DEF AnswersKnow
<1>9. ListsKnow' /\ PanelsKnow'
  BY <1>2, <1>3 DEF ListsKnow, PanelsKnow, tabVars
<1> QED
  BY <1>3, <1>6, <1>8, <1>9 DEF Knows

LEMMA TakeKnows ==
  ASSUME GInv, NEW s \in Sockets, Take(s)
  PROVE  HoldsTypes' /\ Knows'
<1> USE DEF GInv
<1>1. HoldsTypes
  BY TypesAreHeld
<1>2. PICK a \in answers :
        /\ a.tab = s
        /\ answers' = answers \ {a}
        /\ TakeList(s, a) \/ TakeDetail(s, a) \/ Keep(s, a) \/ WalkAway(s, a)
        /\ RoomsRest
  BY DEF Take, RoomsRest
<1>3. /\ \A t : ToldSoon(t)' <=> ToldSoon(t)
      /\ (\E p \in Requests : pc'[p] = "announce")
            <=> (\E p \in Requests : pc[p] = "announce")
      /\ Members' = Members /\ role' = role
      /\ CopiesKnow'
  BY <1>2, RestingToldSoon
<1>4. a \in AnswerRecords /\ a.roles \in AllRoles
  BY <1>1, <1>2 DEF HoldsTypes, AnswerRecords
<1>5. /\ a.kind = "left" => ~In(a.roles, UserOf[s])
      /\ ~a.late =>
           /\ a.roles = role \/ \E p \in Requests : pc[p] = "announce"
           /\ (In(a.roles, UserOf[s]) <=> UserOf[s] \in Members) \/ ToldSoon(s)
  BY <1>2 DEF AnswersKnow
<1>6. AnswersKnow'
  BY <1>2, <1>3 DEF AnswersKnow
<1>7. /\ asker' \in [Requests -> Sockets \cup {None}]
      /\ copy' \in [Requests -> AllRoles \cup {None}]
      /\ answers' \subseteq AnswerRecords
      /\ passed' \subseteq Requests
  BY <1>1, <1>2 DEF HoldsTypes, RoomsRest
<1>8. CASE TakeList(s, a)
  <2>1. HoldsTypes'
    BY <1>1, <1>7, <1>8 DEF HoldsTypes, TakeList
  <2>2. ListsKnow'
    BY <1>3, <1>5, <1>8 DEF ListsKnow, TakeList
  <2>3. PanelsKnow'
    BY <1>3, <1>8 DEF PanelsKnow, TakeList
  <2> QED
    BY <1>3, <1>6, <2>1, <2>2, <2>3 DEF Knows
<1>9. CASE TakeDetail(s, a)
  <2>1. HoldsTypes'
    BY <1>1, <1>4, <1>7, <1>9 DEF HoldsTypes, TakeDetail, SetDetail
  <2>2. ListsKnow'
    BY <1>3, <1>9 DEF ListsKnow, TakeDetail
  <2>3. PanelsKnow'
    BY <1>1, <1>3, <1>5, <1>9 DEF PanelsKnow, TakeDetail, SetDetail, HoldsTypes
  <2> QED
    BY <1>3, <1>6, <2>1, <2>2, <2>3 DEF Knows
<1>10. CASE Keep(s, a)
  <2>1. HoldsTypes'
    BY <1>1, <1>4, <1>7, <1>10 DEF HoldsTypes, Keep, SetDetail
  <2>2. ListsKnow'
    BY <1>3, <1>5, <1>10 DEF ListsKnow, Keep
  <2>3. PanelsKnow'
    BY <1>1, <1>3, <1>5, <1>10 DEF PanelsKnow, Keep, SetDetail, HoldsTypes
  <2> QED
    BY <1>3, <1>6, <2>1, <2>2, <2>3 DEF Knows
<1>11. CASE WalkAway(s, a)
  <2>1. HoldsTypes'
    BY <1>1, <1>7, <1>11 DEF HoldsTypes, WalkAway
  <2>2. ListsKnow'
    BY <1>3, <1>5, <1>11 DEF ListsKnow, WalkAway
  <2>3. PanelsKnow'
    BY <1>1, <1>3, <1>11 DEF PanelsKnow, WalkAway, HoldsTypes
  <2> QED
    BY <1>3, <1>6, <2>1, <2>2, <2>3 DEF Knows
<1> QED
  BY <1>2, <1>8, <1>9, <1>10, <1>11

LEMMA LookingKnows ==
  ASSUME GInv, NEW s \in Sockets, Lose(s) \/ Visit(s)
  PROVE  HoldsTypes' /\ Knows'
<1> USE DEF GInv
<1>1. HoldsTypes
  BY TypesAreHeld
<1>2. /\ answers' \subseteq answers
      /\ page' \subseteq page \cup {s}
      /\ UNCHANGED <<loaded, listed, detail, doubt, dated>> /\ RoomsRest
  BY DEF Lose, Visit, RoomsRest, tabVars
<1>3. /\ \A t : ToldSoon(t)' <=> ToldSoon(t)
      /\ (\E p \in Requests : pc'[p] = "announce")
            <=> (\E p \in Requests : pc[p] = "announce")
      /\ Members' = Members /\ role' = role
      /\ CopiesKnow'
  BY <1>2, RestingToldSoon
<1>4. HoldsTypes'
  BY <1>1, <1>2 DEF HoldsTypes, RoomsRest
<1>5. AnswersKnow'
  BY <1>2, <1>3 DEF AnswersKnow
<1>6. ListsKnow' /\ PanelsKnow'
  BY <1>2, <1>3 DEF ListsKnow, PanelsKnow
<1> QED
  BY <1>3, <1>4, <1>5, <1>6 DEF Knows

LEMMA ConnectionKnows ==
  ASSUME GInv, NEW s \in Sockets, Connection(s)
  PROVE  HoldsTypes' /\ Knows'
<1> USE DEF GInv
<1>1. HoldsTypes
  BY TypesAreHeld
<1>2. UNCHANGED <<vars, left>> /\ UNCHANGED <<asker, copy, answers, tabVars, passed, doubt, dated>>
  BY DEF Connection, Connect, LookUp, JoinRooms, Disconnect
<1>3. role' = role /\ pc' = pc /\ req' = req
  BY <1>2
<1>4. GroupStands
  BY <1>3 DEF GroupStands
<1>5. /\ \A t : ToldSoon(t)' <=> ToldSoon(t)
      /\ (\E p \in Requests : pc'[p] = "announce")
            <=> (\E p \in Requests : pc[p] = "announce")
      /\ Members' = Members
  BY <1>4, StandingToldSoon
<1>6. HoldsTypes'
  BY <1>1, <1>2 DEF HoldsTypes, tabVars
<1>7. CopiesKnow'
  BY <1>2, <1>3 DEF CopiesKnow
<1>8. AnswersKnow'
  BY <1>2, <1>3, <1>5 DEF AnswersKnow
<1>9. ListsKnow' /\ PanelsKnow'
  BY <1>2, <1>3, <1>5 DEF ListsKnow, PanelsKnow, tabVars
<1> QED
  BY <1>6, <1>7, <1>8, <1>9 DEF Knows

LEMMA StepGInv == GInv /\ [GroupsNext]_groupsVars => GInv'
<1> SUFFICES ASSUME GInv, [GroupsNext]_groupsVars
             PROVE  GInv'
  OBVIOUS
<1>1. RInv'
  BY GroupsStep, StepRInv DEF GInv
<1>2. HoldsTypes' /\ Knows'
  <2>1. ASSUME NEW p \in Requests, NEW s \in Sockets \cup {None}, Ask(p, s)
        PROVE  HoldsTypes' /\ Knows'
    BY <2>1, AskKnows
  <2>2. ASSUME NEW p \in Requests, Write(p)
        PROVE  HoldsTypes' /\ Knows'
    BY <2>2, WriteKnows
  <2>3. ASSUME NEW p \in Requests, Tell(p)
        PROVE  HoldsTypes' /\ Knows'
    BY <2>3, TellKnows
  <2>7. ASSUME NEW p \in Requests, Open(p)
        PROVE  HoldsTypes' /\ Knows'
    BY <2>7, OpenKnows
  <2>4. ASSUME NEW s \in Sockets, Connection(s)
        PROVE  HoldsTypes' /\ Knows'
    BY <2>4, ConnectionKnows
  <2>5. ASSUME NEW s \in Sockets, Tab(s)
        PROVE  HoldsTypes' /\ Knows'
    BY <2>5, QueryKnows, TakeKnows, LookingKnows DEF Tab
  <2>6. CASE UNCHANGED groupsVars
    <3>1. HoldsTypes
      BY TypesAreHeld DEF GInv
    <3>2. RoomsRest /\ UNCHANGED <<answers, loaded, listed, page, detail, doubt, dated>>
      BY <2>6 DEF RoomsRest, groupsVars, tabVars
    <3>3. HoldsTypes'
      BY <3>1, <3>2 DEF HoldsTypes, RoomsRest
    <3>4. /\ \A t : ToldSoon(t)' <=> ToldSoon(t)
          /\ (\E p \in Requests : pc'[p] = "announce")
                <=> (\E p \in Requests : pc[p] = "announce")
          /\ Members' = Members /\ role' = role
          /\ CopiesKnow'
      BY <3>2, RestingToldSoon DEF GInv
    <3>5. AnswersKnow' /\ ListsKnow' /\ PanelsKnow'
      BY <3>2, <3>4 DEF GInv, AnswersKnow, ListsKnow, PanelsKnow
    <3> QED
      BY <3>3, <3>4, <3>5 DEF Knows
  <2> QED
    BY <2>1, <2>2, <2>3, <2>4, <2>5, <2>6, <2>7 DEF GroupsNext
<1>3. GroupsTypeOK'
  BY <1>1, <1>2 DEF GroupsTypeOK, HoldsTypes, AnswerRecords, RInv
<1> QED
  BY <1>1, <1>2, <1>3 DEF GInv, Knows

LEMMA GInvAlways == GroupsSpec => []GInv
  BY InitGInv, StepGInv, PTL DEF GroupsSpec

(* What the browsers do changes nothing about the rooms: Groups implements  *)
(* Rooms, so its theorems, and those of Membership, hold in Groups too.     *)
THEOREM GroupsImplementRooms == GroupsSpec => RoomsSpec
<1>1. GroupsInit => RoomsInit
  BY DEF GroupsInit
<1>2. GInv /\ [GroupsNext]_groupsVars => [RoomsNext]_roomVars
  BY GroupsStep DEF GInv
<1> QED
  BY <1>1, <1>2, GInvAlways, PTL DEF GroupsSpec, RoomsSpec

(* Type correctness of the browsers' lists, details and answers.            *)
THEOREM GroupsTypeCorrect == GroupsSpec => []GroupsTypeOK
  BY GInvAlways, PTL DEF GInv

(* The list of everybody concerned follows the group, whatever requests,    *)
(* answers, announcements and reconnections crossed, but for the cases      *)
(* doubt names.                                                             *)
THEOREM ListsFollowTheGroup == GroupsSpec => []ListIsTrue
<1>1. GInv => ListIsTrue
  <2> SUFFICES ASSUME GInv, NEW s \in loaded, Quiet(s), s \notin doubt
               PROVE  s \in listed <=> UserOf[s] \in Members
    BY DEF ListIsTrue
  <2>1. ~ToldSoon(s)
    BY DEF Quiet, ToldSoon
  <2> QED
    BY <2>1 DEF GInv, ListsKnow
<1> QED
  BY <1>1, GInvAlways, PTL

(* The panel of whoever changed the group last, or has just read it, shows  *)
(* the roles as they are.                                                   *)
THEOREM PanelsFollowTheGroup == GroupsSpec => []PanelIsTrue
<1>1. GInv => PanelIsTrue
  BY DEF GInv, PanelsKnow, PanelIsTrue, Quiet
<1> QED
  BY <1>1, GInvAlways, PTL
=============================================================================
