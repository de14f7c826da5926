----------------------------- MODULE Membership -----------------------------
(***************************************************************************)
(* The members, roles and owner of one group conversation:                 *)
(* services/conversation.service.ts and its repository.                    *)
(*                                                                         *)
(* A request reads the conversation once (findForMember) and makes all of  *)
(* its checks on that copy, then runs one MySQL transaction that re-checks *)
(* only what the rows themselves enforce, then announces the outcome.      *)
(* Other requests run between these three steps.  The transactions all     *)
(* write the conversation's row, so they are atomic actions, or fail.      *)
(***************************************************************************)
EXTENDS Naturals, FiniteSets

CONSTANTS
  Users,     \* the people with an account
  Cap,       \* LIMITS.groupMembers.max
  Requests,  \* requests on the group that can be in flight at once
  None       \* the null value

ASSUME UsersAssumption == IsFiniteSet(Users)
ASSUME CapAssumption == Cap \in Nat
ASSUME NoneAssumption == None \notin Users

VARIABLES
  role,        \* role[u]: "none" (no member row), "member" or "owner"
  ownerId,     \* the conversation's owner_id
  pc,          \* pc[p]: the next step of request p
  req,         \* req[p]: what it is about to do
  creator,     \* history: who created the group
  transferred, \* history: has the group ever been handed over?
  overlapped   \* history: have two requests ever been in flight together?

groupVars == <<role, ownerId>>
historyVars == <<creator, transferred, overlapped>>
vars == <<role, ownerId, pc, req, creator, transferred, overlapped>>

Roles == {"none", "member", "owner"}
Kinds == {"create", "add", "remove", "transfer"}

(* actor: who asked; who: the people added, removed or handed the group.   *)
Reqs == [kind : Kinds, actor : Users \cup {None}, who : SUBSET Users]
Req(kind, actor, who) == [kind |-> kind, actor |-> actor, who |-> who]
NoReq == Req("create", None, {})

TypeOK ==
  /\ role \in [Users -> Roles]
  /\ ownerId \in Users
  /\ pc \in [Requests -> {"idle", "commit", "announce"}]
  /\ req \in [Requests -> Reqs]
  /\ creator \in Users
  /\ transferred \in BOOLEAN
  /\ overlapped \in BOOLEAN

Members == {u \in Users : role[u] # "none"}

(* createGroup: the owner and at least one other person, within the cap;   *)
(* its transaction has committed and one request is about to announce it.  *)
Init ==
  /\ creator \in Users
  /\ ownerId = creator
  /\ \E others \in SUBSET (Users \ {creator}) :
       /\ others # {}
       /\ Cardinality(others) + 1 <= Cap
       /\ role = [u \in Users |-> IF u = creator THEN "owner"
                                  ELSE IF u \in others THEN "member" ELSE "none"]
  /\ \E p \in Requests :
       /\ pc = [q \in Requests |-> IF q = p THEN "announce" ELSE "idle"]
       /\ req = [q \in Requests |-> IF q = p THEN Req("create", creator, Members)
                                    ELSE NoReq]
  /\ transferred = FALSE
  /\ overlapped = FALSE

-----------------------------------------------------------------------------
(* The first half of a request: one read of the conversation, every check.  *)

Idle(p) == pc[p] = "idle"

Begin(p, r) ==
  /\ Idle(p)
  /\ pc' = [pc EXCEPT ![p] = "commit"]
  /\ req' = [req EXCEPT ![p] = r]
  /\ overlapped' = (overlapped \/ \E q \in Requests : ~Idle(q))
  /\ UNCHANGED <<groupVars, creator, transferred>>

(* new: the people asked for without those already present.                *)
MutAddMembers(p, a, new) ==
  /\ role[a] = "owner"
  /\ new # {} /\ new \cap Members = {}
  /\ Cardinality(Members) <= Cap
  /\ Begin(p, Req("add", a, new))
AddMembers(p, a, new) ==
  /\ role[a] = "owner"
  /\ new # {} /\ new \cap Members = {}
  /\ Cardinality(Members) + Cardinality(new) <= Cap
  /\ Begin(p, Req("add", a, new))

RemoveMember(p, a, b) ==
  /\ IF a = b THEN role[a] # "owner" ELSE role[a] = "owner"
  /\ role[b] # "none"
  /\ Begin(p, Req("remove", a, {b}))

TransferOwner(p, a, b) ==
  /\ role[a] = "owner"
  /\ a # b /\ role[b] # "none"
  /\ Begin(p, Req("transfer", a, {b}))

-----------------------------------------------------------------------------
(* The second half: the transaction.                                       *)

Committing(p, kind) == pc[p] = "commit" /\ req[p].kind = kind

Committed(p) ==
  /\ pc' = [pc EXCEPT ![p] = "announce"]
  /\ UNCHANGED <<req, creator, overlapped>>

(* createMany: a row that exists meanwhile fails the whole transaction.    *)
CommitAdd(p) ==
  /\ Committing(p, "add")
  /\ req[p].who \cap Members = {}
  /\ role' = [u \in Users |-> IF u \in req[p].who THEN "member" ELSE role[u]]
  /\ Committed(p)
  /\ UNCHANGED <<ownerId, transferred>>

CommitRemove(p) ==
  /\ Committing(p, "remove")
  /\ req[p].who \subseteq Members
  /\ role' = [u \in Users |-> IF u \in req[p].who THEN "none" ELSE role[u]]
  /\ Committed(p)
  /\ UNCHANGED <<ownerId, transferred>>

(* Both member rows must still be there; nothing looks at their roles.     *)
MutCommitTransfer(p) ==
  LET a == req[p].actor IN
  /\ Committing(p, "transfer")
  /\ {a} \cup req[p].who \subseteq Members
  /\ role' = [u \in Users |-> IF u \in req[p].who THEN "owner" ELSE role[u]]
  /\ ownerId' \in req[p].who
  /\ transferred' = TRUE
  /\ Committed(p)
CommitTransfer(p) ==
  LET a == req[p].actor IN
  /\ Committing(p, "transfer")
  /\ {a} \cup req[p].who \subseteq Members
  /\ role' = [u \in Users |-> IF u \in req[p].who THEN "owner"
                              ELSE IF u = a THEN "member" ELSE role[u]]
  /\ ownerId' \in req[p].who
  /\ transferred' = TRUE
  /\ Committed(p)

(* The transaction failed: a row it needs is gone or already there, or      *)
(* MySQL rolled it back (inserts lock the conversation's row shared before  *)
(* the update wants it exclusively, so two transactions can deadlock).      *)
Abort(p) ==
  /\ pc[p] = "commit"
  /\ pc' = [pc EXCEPT ![p] = "idle"]
  /\ req' = [req EXCEPT ![p] = NoReq]
  /\ UNCHANGED <<groupVars, historyVars>>

(* The event for the realtime bridge; what it does there is in Rooms.      *)
Announce(p) ==
  /\ pc[p] = "announce"
  /\ pc' = [pc EXCEPT ![p] = "idle"]
  /\ req' = [req EXCEPT ![p] = NoReq]
  /\ UNCHANGED <<groupVars, historyVars>>

-----------------------------------------------------------------------------
Start(p) ==
  \E a \in Users :
    \/ \E new \in SUBSET Users : AddMembers(p, a, new)
    \/ \E b \in Users : RemoveMember(p, a, b) \/ TransferOwner(p, a, b)

Commit(p) == CommitAdd(p) \/ CommitRemove(p) \/ CommitTransfer(p) \/ Abort(p)

Next == \E p \in Requests : Start(p) \/ Commit(p) \/ Announce(p)

Spec == Init /\ [][Next]_vars

-----------------------------------------------------------------------------
(* Properties. *)

(* Until somebody hands the group over, its creator is its one owner and    *)
(* stays in it, whatever other requests run at the same time.               *)
CreatorOwnsUntilTransfer ==
  ~transferred =>
    /\ ownerId = creator
    /\ \A u \in Users : role[u] = "owner" <=> u = creator

(* As long as no two requests on the group overlapped, it has one owner,    *)
(* the one its own row names.                                               *)
OneOwnerWhenSerial ==
  ~overlapped => \A u \in Users : role[u] = "owner" <=> u = ownerId

(* Likewise, the cap checked before the transaction still holds after it.   *)
WithinCapWhenSerial == ~overlapped => Cardinality(Members) <= Cap

(* What removeMember asks for, "Hand the group to someone else before you   *)
(* leave.": when somebody has just left, the group has an owner.            *)
LeaverLeavesAnOwner ==
  \A p \in Requests :
    pc[p] = "announce" /\ req[p].kind = "remove" /\ req[p].actor \in req[p].who
      => \E u \in Users : role[u] = "owner"
=============================================================================
