------------------------------- MODULE Groups -------------------------------
(***************************************************************************)
(* A group in the browsers of its members: the mutations of                *)
(* features/conversation/queries.ts behind the buttons of                  *)
(* conversation-panel.tsx, the list and the detail they keep, and what     *)
(* conversation:upsert and conversation:removed do to them.                *)
(*                                                                         *)
(* A tab has the socket of the same name in Rooms.  A request is answered  *)
(* in the step that announces it; the answer arrives in a step of its own, *)
(* or is lost.  A detail is reduced to the roles it shows.                 *)
(***************************************************************************)
EXTENDS Rooms

VARIABLES
  asker,   \* asker[p]: the tab request p came from, None if from another client
  copy,    \* copy[p]: the roles p's transaction sees; once it has committed,
           \*   those it read back
  answers, \* responses on their way to the tabs
  loaded,  \* tabs that hold a conversation list
  listed,  \* tabs whose list has the group
  page,    \* tabs that show the group
  detail,  \* detail[s]: the roles s's detail of the group shows, or None
  passed,  \* history: requests not announced yet whose copy lacks another's
           \*   commit, before their own or after it
  doubt,   \* history: tabs whose list may be wrong (Properties)
  dated    \* history: tabs whose detail was read before an announcement

tabVars == <<loaded, listed, page, detail>>
groupsVars == <<roomVars, asker, copy, answers, tabVars, passed, doubt, dated>>

AllRoles == [Users -> Roles]

(* late: a request was announced since the answer was given. *)
Answer(s, kind, roles, late) == [tab |-> s, kind |-> kind, roles |-> roles, late |-> late]

GroupsTypeOK ==
  /\ RoomsTypeOK
  /\ asker \in [Requests -> Sockets \cup {None}]
  /\ copy \in [Requests -> AllRoles \cup {None}]
  /\ answers \subseteq [tab : Sockets, kind : {"list", "detail", "kept", "made", "left"},
                        roles : AllRoles, late : BOOLEAN]
  /\ loaded \cup listed \cup page \cup doubt \cup dated \subseteq Sockets
  /\ detail \in [Sockets -> AllRoles \cup {None}]
  /\ passed \subseteq Requests

GroupsInit ==
  /\ RoomsInit
  /\ \E s \in {None} \cup {t \in Sockets : UserOf[t] = creator} :
       asker = [p \in Requests |-> IF Idle(p) THEN None ELSE s]
  /\ copy = [p \in Requests |-> IF Idle(p) THEN None ELSE role]
  /\ answers = {}
  /\ loaded = {} /\ listed = {} /\ page = {}
  /\ detail = [s \in Sockets |-> None]
  /\ passed = {} /\ doubt = {} /\ dated = {}

In(roles, u) == roles[u] # "none"

-----------------------------------------------------------------------------
(* Requests.                                                                *)

(* From the panel: what it shows decides what it offers.  A request whose   *)
(* checks fail changes nothing and is left out.                             *)
IAmOwner(s) == detail[s][UserOf[s]] = "owner"

Press(p, s) ==
  LET me == UserOf[s]
      others == Users \ {me}
  IN
  /\ s \in page /\ detail[s] # None
  /\ \/ /\ IAmOwner(s)
        /\ \E u \in others : ~In(detail[s], u) /\ AddMembers(p, me, {u})
     \/ /\ IAmOwner(s)
        /\ \E u \in others : In(detail[s], u) /\ (RemoveMember(p, me, u) \/ TransferOwner(p, me, u))
     \/ ~IAmOwner(s) /\ RemoveMember(p, me, me)

Ask(p, s) ==
  /\ IF s = None THEN Start(p) ELSE Press(p, s)
  /\ asker' = [asker EXCEPT ![p] = s]
  /\ UNCHANGED <<socketVars, left, copy, answers, tabVars, passed, doubt, dated>>

(* A removal or a hand-over looks for the rows it is about before it writes *)
(* them: its transaction (REPEATABLE READ) goes on reading that snapshot.   *)
(* An addition inserts before it reads anything, and the foreign key locks  *)
(* the conversation's row, which every other request must write to commit:  *)
(* its snapshot misses nothing.                                             *)
Open(p) ==
  /\ pc[p] = "commit" /\ req[p].kind # "add"
  /\ copy[p] = None
  /\ copy' = [copy EXCEPT ![p] = role]
  /\ UNCHANGED <<roomVars, asker, answers, tabVars, passed, doubt, dated>>

(* Prisma must find every row it is to delete or update in the snapshot.    *)
FindsRows(p) ==
  \/ req[p].kind = "add"
  \/ /\ copy[p] # None
     /\ \A u \in req[p].who : In(copy[p], u)
     /\ req[p].kind = "transfer" => In(copy[p], req[p].actor)

MutKeepCopy(p) ==
  copy' = [copy EXCEPT ![p] = IF pc'[p] = "announce" THEN role ELSE None]
(* detailInTransaction: the snapshot, with the transaction's own changes.   *)
KeepCopy(p) ==
  copy' = [copy EXCEPT ![p] =
    IF pc'[p] # "announce" THEN None
    ELSE IF req[p].kind = "add" THEN role'
    ELSE [u \in Users |-> IF role'[u] # role[u] THEN role'[u] ELSE @[u]]]

Write(p) ==
  /\ Commit(p) /\ Request(p)
  /\ pc'[p] = "announce" => FindsRows(p)
  /\ KeepCopy(p)
  /\ passed' = passed
       \cup (IF role' = role THEN {} ELSE {q \in Requests : pc[q] = "announce"})
       \cup (IF pc'[p] = "announce" /\ req[p].kind # "add" /\ copy[p] # role
             THEN {p} ELSE {})
  /\ UNCHANGED <<asker, answers, tabVars, doubt, dated>>

-----------------------------------------------------------------------------
(* The announcement, in the browsers.                                       *)

MutHearRemoved(kind, who) == IF kind = "remove" THEN SocketsOf(who) \cap inRoom' ELSE {}
(* conversation:removed goes to the user's room, not the conversation's, and *)
(* takes the group off the list and out of the cache.                        *)
HearRemoved(kind, who) == IF kind = "remove" THEN SocketsOf(who) ELSE {}

(* Every member of the copy gets conversation:upsert: the list entry, not   *)
(* the detail.                                                              *)
HearUpsert(p) == SocketsOf({u \in Users : In(copy[p], u)})

AnswerOf(p) ==
  LET kind == CASE req[p].kind = "create" -> "made"
                [] req[p].kind = "remove" /\ req[p].actor \in req[p].who -> "left"
                [] OTHER -> "kept"
  IN IF asker[p] = None THEN {} ELSE {Answer(asker[p], kind, copy[p], p \in passed)}

Tell(p) ==
  LET kind == req[p].kind
      who == req[p].who
      out == HearRemoved(kind, who)
      in == HearUpsert(p)
      concerned == {s \in Sockets : UserOf[s] \in who \/ In(copy[p], UserOf[s])}
  IN
  /\ AnnounceToRoom(p)
  /\ listed' = (listed \ out) \cup in
  /\ loaded' = loaded \cup out \cup in
  /\ page' = page \ out
  /\ detail' = [s \in Sockets |-> IF s \in out THEN None ELSE detail[s]]
  /\ answers' = {[a EXCEPT !.late = TRUE] : a \in
                   {b \in answers : ~(b.kind = "detail" /\ b.tab \in out)}} \cup AnswerOf(p)
  /\ doubt' = doubt \cup IF p \in passed THEN concerned
                         ELSE IF kind = "transfer" THEN {}
                         ELSE {s \in Sockets : UserOf[s] \in who /\ sock[s] = "off"}
  /\ dated' = {s \in Sockets : detail'[s] # None}
  /\ asker' = [asker EXCEPT ![p] = None]
  /\ copy' = [copy EXCEPT ![p] = None]
  /\ passed' = passed \ {p}

-----------------------------------------------------------------------------
(* Queries and answers.                                                     *)

(* GET /api/conversations, and the detail of the page shown: read now,      *)
(* answered later.  A detail that is not the user's to see is not found.    *)
Query(s, kind) ==
  /\ ~\E a \in answers : a.tab = s /\ a.kind = kind
  /\ kind = "detail" => s \in page /\ UserOf[s] \in Members
  /\ answers' = answers \cup {Answer(s, kind, role, FALSE)}
  /\ UNCHANGED <<roomVars, asker, copy, tabVars, passed, doubt, dated>>

TakeList(s, a) ==
  /\ a.kind = "list"
  /\ loaded' = loaded \cup {s}
  /\ listed' = IF In(a.roles, UserOf[s]) THEN listed \cup {s} ELSE listed \ {s}
  /\ doubt' = IF a.late THEN doubt \cup {s} ELSE doubt \ {s}
  /\ UNCHANGED <<page, detail, dated>>

SetDetail(s, a) ==
  /\ detail' = [detail EXCEPT ![s] = a.roles]
  /\ dated' = IF a.late THEN dated \cup {s} ELSE dated \ {s}

TakeDetail(s, a) ==
  /\ a.kind = "detail"
  /\ SetDetail(s, a)
  /\ UNCHANGED <<loaded, listed, page, doubt>>

(* keepDetail; a new group's page is then shown.  An owner who was deposed  *)
(* and removed while adding somebody is answered with a group of others.    *)
Keep(s, a) ==
  /\ a.kind \in {"kept", "made"}
  /\ SetDetail(s, a)
  /\ loaded' = loaded \cup {s}
  /\ listed' = listed \cup {s}
  /\ page' = IF a.kind = "made" THEN page \cup {s} ELSE page
  /\ doubt' = IF a.late \/ ~In(a.roles, UserOf[s]) THEN doubt \cup {s} ELSE doubt

(* removeConversation, then the start page. *)
WalkAway(s, a) ==
  /\ a.kind = "left"
  /\ loaded' = loaded \cup {s}
  /\ listed' = listed \ {s}
  /\ detail' = [detail EXCEPT ![s] = None]
  /\ page' = page \ {s}
  /\ doubt' = IF a.late THEN doubt \cup {s} ELSE doubt
  /\ dated' = dated \ {s}

Take(s) ==
  \E a \in answers :
    /\ a.tab = s
    /\ answers' = answers \ {a}
    /\ TakeList(s, a) \/ TakeDetail(s, a) \/ Keep(s, a) \/ WalkAway(s, a)
    /\ UNCHANGED <<roomVars, asker, copy, passed>>

Lose(s) ==
  /\ \E a \in answers : a.tab = s /\ answers' = answers \ {a}
  /\ UNCHANGED <<roomVars, asker, copy, tabVars, passed, doubt, dated>>

(* The group's page is opened from the list, or left. *)
Visit(s) ==
  /\ s \in page \cup listed
  /\ page' = IF s \in page THEN page \ {s} ELSE page \cup {s}
  /\ UNCHANGED <<roomVars, asker, copy, answers, loaded, listed, detail, passed, doubt, dated>>

-----------------------------------------------------------------------------
Connection(s) ==
  /\ Connect(s) \/ LookUp(s) \/ JoinRooms(s) \/ Disconnect(s)
  /\ UNCHANGED <<asker, copy, answers, tabVars, passed, doubt, dated>>

Tab(s) == Query(s, "list") \/ Query(s, "detail") \/ Take(s) \/ Lose(s) \/ Visit(s)

GroupsNext ==
  \/ \E p \in Requests : (\E s \in Sockets \cup {None} : Ask(p, s)) \/ Open(p)
                          \/ Write(p) \/ Tell(p)
  \/ \E s \in Sockets : Connection(s) \/ Tab(s)

GroupsSpec == GroupsInit /\ [][GroupsNext]_groupsVars

-----------------------------------------------------------------------------
(* Properties. *)

(* Nothing about the group is on its way to s. *)
Quiet(s) ==
  /\ \A p \in Requests : pc[p] # "announce"
  /\ \A a \in answers : a.tab # s

(* The lists of the people concerned follow the group: who is added finds   *)
(* it on theirs, who is removed or has left does not.  Except (doubt) that  *)
(* s was not connected when it was announced, that an answer was overtaken  *)
(* by an announcement, that requests were announced in another order than   *)
(* they committed in, that a removal or a hand-over read the group back     *)
(* from a snapshot older than another's commit, or that the owner who asked *)
(* was no longer a member.                                                  *)
ListIsTrue ==
  \A s \in loaded :
    Quiet(s) /\ s \notin doubt => (s \in listed <=> UserOf[s] \in Members)

(* The panel of whoever changed the group, or has just looked, shows it as  *)
(* it is, and offers what its roles allow; those of others do not, until    *)
(* they are read again (dated).                                             *)
PanelIsTrue ==
  \A s \in Sockets :
    Quiet(s) /\ detail[s] # None /\ s \notin dated => detail[s] = role
=============================================================================
