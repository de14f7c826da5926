------------------------------ MODULE Messages ------------------------------
(***************************************************************************)
(* The messages of one conversation on the server: message.service.ts, its *)
(* repository, markRead of the conversation repository, and the socket     *)
(* handlers of realtime/handlers/message.ts.                               *)
(*                                                                         *)
(* A handler p checks, writes in one transaction, emits an event to the    *)
(* conversation's room and acknowledges; other handlers, of this or of     *)
(* another instance, run in between.  A request refused by its checks      *)
(* changes nothing and is left out.  Membership does not change here (see  *)
(* Membership), and of the reactions there is one emoji.                   *)
(***************************************************************************)
EXTENDS Naturals, Sequences, SequencesExt

CONSTANTS
  Users,     \* the members of the conversation
  Msgs,      \* messages, by the clientMsgId their author's client gave them
  AuthorOf,  \* AuthorOf[m]: who writes m
  Bodies,    \* texts
  Draft,     \* the text every message is first sent with
  Procs,     \* handlers that can be in flight at once
  None       \* the null value

ASSUME AuthorAssumption == AuthorOf \in [Msgs -> Users]
ASSUME DraftAssumption == Draft \in Bodies
ASSUME NoneAssumption == None \notin Msgs \cup Users

VARIABLES
  log,     \* the stored messages in the order of their ids
  row,     \* row[m]: the row of m, once it is stored
  cursor,  \* cursor[u]: last_read_message_id, as a position in the log
  pc,      \* pc[p]: the next step of handler p
  req      \* req[p]: its local variables

storeVars == <<log, row, cursor>>
vars == <<storeVars, pc, req>>

Rows == [body : Bodies, deleted : BOOLEAN, reacts : SUBSET Users]
NewRow == [body |-> Draft, deleted |-> FALSE, reacts |-> {}]

Kinds == {"send", "edit", "delete", "react", "read"}

(* body: the new text; upTo: the position read; copy: the row in the         *)
(* transaction's snapshot, then as read back for the event and the answer.  *)
Reqs == [kind : Kinds, user : Users \cup {None}, msg : Msgs \cup {None},
         body : Bodies, upTo : Nat, copy : Rows]
Req(kind, u, m) ==
  [kind |-> kind, user |-> u, msg |-> m, body |-> Draft, upTo |-> 0, copy |-> NewRow]
NoReq == Req("send", None, None)

Stored == ToSet(log)

TypeOK ==
  /\ log \in Seq(Msgs)
  /\ row \in [Msgs -> Rows]
  /\ cursor \in [Users -> 0 .. Len(log)]
  /\ pc \in [Procs -> {"idle", "create", "open", "change", "mark", "announce", "reply", "fail"}]
  /\ req \in [Procs -> Reqs]

Init ==
  /\ log = <<>>
  /\ row = [m \in Msgs |-> NewRow]
  /\ cursor = [u \in Users |-> 0]
  /\ pc = [p \in Procs |-> "idle"]
  /\ req = [p \in Procs |-> NoReq]

At(p, step) == pc[p] = step

Begin(p, step, r) ==
  /\ At(p, "idle")
  /\ pc' = [pc EXCEPT ![p] = step]
  /\ req' = [req EXCEPT ![p] = r]
  /\ UNCHANGED storeVars

Proceed(p, step, copy) ==
  /\ pc' = [pc EXCEPT ![p] = step]
  /\ req' = [req EXCEPT ![p].copy = copy]

Finish(p) ==
  /\ pc' = [pc EXCEPT ![p] = "idle"]
  /\ req' = [req EXCEPT ![p] = NoReq]
  /\ UNCHANGED storeVars

-----------------------------------------------------------------------------
(* message:send. *)

Send(p, m) == Begin(p, "create", Req("send", AuthorOf[m], m))

(* The transaction inserts the row, moves the conversation's last message   *)
(* and the sender's own cursor.  Inserting locks the conversation's row, so *)
(* the transactions of two sends do not interleave: one waits or fails.     *)
MutCreate(p) ==
  LET m == req[p].msg IN
  /\ At(p, "create")
  /\ log' = Append(log, m)
  /\ row' = [row EXCEPT ![m] = NewRow]
  /\ cursor' = [cursor EXCEPT ![AuthorOf[m]] = Len(log')]
  /\ Proceed(p, "announce", NewRow)
Create(p) ==
  LET m == req[p].msg IN
  /\ At(p, "create")
  /\ m \notin Stored
  /\ log' = Append(log, m)
  /\ row' = [row EXCEPT ![m] = NewRow]
  /\ cursor' = [cursor EXCEPT ![AuthorOf[m]] = Len(log')]
  /\ Proceed(p, "announce", NewRow)

(* The unique client_msg_id refuses it: the stored message is the answer.   *)
Duplicate(p) ==
  LET m == req[p].msg IN
  /\ At(p, "create")
  /\ m \in Stored
  /\ Proceed(p, "reply", row[m])
  /\ UNCHANGED storeVars

-----------------------------------------------------------------------------
(* message:edit, message:delete, reaction:toggle: the checks, then, in a    *)
(* transaction of its own, the change.                                      *)

Edit(p, m, b) ==
  /\ m \in Stored
  /\ ~row[m].deleted
  /\ Begin(p, "open", [Req("edit", AuthorOf[m], m) EXCEPT !.body = b])

Delete(p, m) ==
  /\ m \in Stored
  /\ Begin(p, IF row[m].deleted THEN "reply" ELSE "change",
           Req("delete", AuthorOf[m], m))

React(p, m, u) ==
  /\ m \in Stored
  /\ ~row[m].deleted
  /\ Begin(p, "open", Req("react", u, m))

Toggled(reacts, u) == IF u \in reacts THEN reacts \ {u} ELSE reacts \cup {u}

(* The first SELECT of the transaction (REPEATABLE READ) fixes what its     *)
(* later ones see of other tables and rows.                                 *)
Open(p) ==
  /\ At(p, "open")
  /\ Proceed(p, "change", row[req[p].msg])
  /\ UNCHANGED storeVars

(* A reaction is inserted or deleted as the snapshot says.                  *)
Changed(r) ==
  CASE r.kind = "edit" -> [row[r.msg] EXCEPT !.body = r.body]
    [] r.kind = "delete" -> [row[r.msg] EXCEPT !.deleted = TRUE]
    [] r.kind = "react" ->
         [row[r.msg] EXCEPT !.reacts = IF r.user \in r.copy.reacts THEN @ \ {r.user}
                                       ELSE @ \cup {r.user}]

(* Read back: the own writes, and the rest of the snapshot.                 *)
ReadBack(r) ==
  CASE r.kind = "edit" -> [Changed(r) EXCEPT !.reacts = r.copy.reacts]
    [] r.kind = "delete" -> Changed(r)
    [] r.kind = "react" -> [r.copy EXCEPT !.reacts = Toggled(@, r.user)]

(* The reaction the snapshot does not have has been inserted meanwhile.     *)
Collides(r) ==
  r.kind = "react" /\ r.user \in row[r.msg].reacts \ r.copy.reacts

(* Nothing checked before is checked again. *)
Change(p) ==
  /\ At(p, "change")
  /\ ~Collides(req[p])
  /\ row' = [row EXCEPT ![req[p].msg] = Changed(req[p])]
  /\ Proceed(p, "announce", ReadBack(req[p]))
  /\ UNCHANGED <<log, cursor>>

Collide(p) ==
  /\ At(p, "change")
  /\ Collides(req[p])
  /\ pc' = [pc EXCEPT ![p] = "fail"]
  /\ UNCHANGED <<storeVars, req>>

-----------------------------------------------------------------------------
(* read:ack. *)

Read(p, u, n) == Begin(p, "mark", [Req("read", u, None) EXCEPT !.upTo = n])

MarkRead(p) ==
  /\ At(p, "mark")
  /\ cursor[req[p].user] < req[p].upTo
  /\ cursor' = [cursor EXCEPT ![req[p].user] = req[p].upTo]
  /\ pc' = [pc EXCEPT ![p] = "announce"]
  /\ UNCHANGED <<log, row, req>>

(* The cursor is there already: nothing is announced. *)
AlreadyRead(p) ==
  /\ At(p, "mark")
  /\ cursor[req[p].user] >= req[p].upTo
  /\ Finish(p)

-----------------------------------------------------------------------------
(* The end of a handler. *)

(* The event is emitted.  message:send acknowledges after another await     *)
(* (typing.clear), the others at once.                                      *)
Announce(p) ==
  /\ At(p, "announce")
  /\ IF req[p].kind = "send"
     THEN Proceed(p, "reply", req[p].copy) /\ UNCHANGED storeVars
     ELSE Finish(p)

Reply(p) == At(p, "reply") /\ Finish(p)

(* The rate limiter, a deadlock or MySQL refuses: an error is the answer.   *)
Refuse(p) ==
  /\ pc[p] \in {"create", "open", "change"}
  /\ pc' = [pc EXCEPT ![p] = "fail"]
  /\ UNCHANGED <<storeVars, req>>

ReplyError(p) == At(p, "fail") /\ Finish(p)

(* The instance dies. *)
Die(p) == ~At(p, "idle") /\ Finish(p)

Start(p) ==
  \/ \E m \in Msgs : \/ Send(p, m)
                    \/ \E b \in Bodies : Edit(p, m, b)
                    \/ Delete(p, m)
                    \/ \E u \in Users : React(p, m, u)
  \/ \E u \in Users, n \in 1 .. Len(log) : Read(p, u, n)

Write(p) ==
  \/ Create(p) \/ Duplicate(p)
  \/ Open(p) \/ Change(p) \/ Collide(p)
  \/ MarkRead(p) \/ AlreadyRead(p)

Next ==
  \E p \in Procs :
    \/ Start(p) \/ Write(p)
    \/ Announce(p) \/ Reply(p) \/ Refuse(p) \/ ReplyError(p)
    \/ Die(p)

Spec == Init /\ [][Next]_vars

-----------------------------------------------------------------------------
(* Properties. *)

(* A retried message is stored once. *)
StoredOnce == IsInjective(log)

(* Nobody's read cursor moves back, whatever order the acknowledgements of  *)
(* their tabs and their own sends are handled in.                           *)
CursorsAdvance == [][\A u \in Users : cursor'[u] >= cursor[u]]_vars
=============================================================================
