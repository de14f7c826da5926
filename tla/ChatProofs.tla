----------------------------- MODULE ChatProofs -----------------------------
(***************************************************************************)
(* Proofs about Messages and Chat, for any number of members, messages,    *)
(* browser tabs and overlapping handlers, with every lost connection,      *)
(* time-out, refusal and crash.                                            *)
(*                                                                         *)
(* Both the order of the log and the honesty of the outbox rest on what a  *)
(* handler knows at each of its steps (Fit): that the message it is about  *)
(* to change, announce or acknowledge is stored, and that the position it  *)
(* marks as read is one of the log.                                        *)
(*                                                                         *)
(* What is shown rests on what is still to be told: a copy is one event    *)
(* away from the rows (ContentTrue), and its messages lie as the events    *)
(* that were not late, then the pages, which are a run of the log          *)
(* (InOrder).                                                              *)
(***************************************************************************)
EXTENDS Chat, SequenceTheorems, TLAPS

USE AuthorAssumption, DraftAssumption, NoneAssumption

Fit(step, r) ==
  /\ step = "create" => r.kind = "send" /\ r.msg \in Msgs
  /\ step \in {"open", "change"} =>
       /\ r.kind \in {"edit", "delete", "react"}
       /\ r.msg \in Stored
       /\ r.user \in Users
  /\ step = "mark" => r.kind = "read" /\ r.user \in Users /\ r.upTo \in 0 .. Len(log)
  /\ step = "announce" => r.kind = "read" \/ r.msg \in Stored
  /\ step = "reply" => r.msg \in Stored

HandlersFit == \A p \in Procs : Fit(pc[p], req[p])

StoreInv == TypeOK /\ StoredOnce /\ HandlersFit

-----------------------------------------------------------------------------
(* The log. *)

(* Appending a new message keeps a log without repetitions. *)
LEMMA AppendNew ==
  ASSUME NEW s \in Seq(Msgs), NEW m \in Msgs, m \notin ToSet(s), IsInjective(s)
  PROVE  /\ Append(s, m) \in Seq(Msgs)
         /\ Len(Append(s, m)) = Len(s) + 1
         /\ Len(s) \in Nat
         /\ ToSet(Append(s, m)) = ToSet(s) \cup {m}
         /\ IsInjective(Append(s, m))
<1> DEFINE t == Append(s, m)
<1>1. /\ t \in Seq(Msgs) /\ Len(t) = Len(s) + 1 /\ Len(s) \in Nat
      /\ DOMAIN s = 1 .. Len(s) /\ DOMAIN t = 1 .. Len(s) + 1
      /\ \A i \in 1 .. Len(s) : t[i] = s[i]
      /\ t[Len(s) + 1] = m
  OBVIOUS
<1>2. ToSet(t) = ToSet(s) \cup {m}
  BY <1>1 DEF ToSet
<1>3. IsInjective(t)
  BY <1>1 DEF IsInjective, ToSet
<1> QED
  BY <1>1, <1>2, <1>3

LEMMA StoredAreMsgs ==
  ASSUME log \in Seq(Msgs)
  PROVE  Stored \subseteq Msgs /\ Len(log) \in Nat
BY DEF Stored, ToSet

-----------------------------------------------------------------------------
(* The server's invariant. *)

LEMMA RequestsAreTyped ==
  ASSUME NEW k \in Kinds, NEW u \in Users \cup {None}, NEW m \in Msgs \cup {None}
  PROVE  Req(k, u, m) \in Reqs /\ NewRow \in Rows
BY DEF Req, Reqs, NewRow, Rows

LEMMA StoreInit == Init => StoreInv
<1> SUFFICES ASSUME Init PROVE StoreInv
  OBVIOUS
<1>1. NoReq \in Reqs /\ NewRow \in Rows
  BY RequestsAreTyped DEF NoReq, Kinds
<1>2. TypeOK
  BY <1>1 DEF Init, TypeOK
<1>3. StoredOnce /\ HandlersFit
  BY DEF Init, StoredOnce, HandlersFit, Fit, IsInjective
<1> QED
  BY <1>2, <1>3 DEF StoreInv

(* A request that fits its first step. *)
LEMMA BeginKeeps ==
  ASSUME StoreInv, NEW p \in Procs,
         NEW step \in {"create", "open", "change", "mark", "reply"},
         NEW r \in Reqs, Fit(step, r), Begin(p, step, r)
  PROVE  StoreInv' /\ UNCHANGED storeVars
<1>1. TypeOK'
  BY DEF StoreInv, TypeOK, Begin, storeVars
<1>2. HandlersFit'
  BY DEF StoreInv, HandlersFit, Fit, Begin, storeVars, TypeOK, Stored
<1>3. StoredOnce' /\ UNCHANGED storeVars
  BY DEF StoreInv, StoredOnce, Begin, storeVars
<1> QED
  BY <1>1, <1>2, <1>3 DEF StoreInv

LEMMA FinishKeeps ==
  ASSUME StoreInv, NEW p \in Procs, Finish(p)
  PROVE  StoreInv'
<1>1. NoReq \in Reqs
  BY RequestsAreTyped DEF NoReq, Kinds
<1>2. TypeOK'
  BY <1>1 DEF StoreInv, TypeOK, Finish, storeVars
<1>3. HandlersFit'
  BY DEF StoreInv, HandlersFit, Fit, Finish, storeVars, TypeOK, Stored
<1>4. StoredOnce'
  BY DEF StoreInv, StoredOnce, Finish, storeVars
<1> QED
  BY <1>2, <1>3, <1>4 DEF StoreInv

LEMMA StartKeeps ==
  ASSUME StoreInv, NEW p \in Procs, Start(p)
  PROVE  StoreInv' /\ UNCHANGED storeVars
<1> USE RequestsAreTyped DEF Kinds
<1>0. log \in Seq(Msgs) /\ row \in [Msgs -> Rows] /\ Stored \subseteq Msgs /\ Len(log) \in Nat
  BY StoredAreMsgs DEF StoreInv, TypeOK
<1>1. ASSUME NEW m \in Msgs, Send(p, m) PROVE StoreInv' /\ UNCHANGED storeVars
  <2>1. Fit("create", Req("send", AuthorOf[m], m)) /\ Req("send", AuthorOf[m], m) \in Reqs
    BY DEF Fit, Req
  <2> QED
    BY <1>1, <2>1, BeginKeeps DEF Send
<1>2. ASSUME NEW m \in Msgs, NEW b \in Bodies, Edit(p, m, b)
      PROVE  StoreInv' /\ UNCHANGED storeVars
  <2> DEFINE r == [Req("edit", AuthorOf[m], m) EXCEPT !.body = b]
  <2>1. Fit("open", r) /\ r \in Reqs
    BY <1>2 DEF Fit, Req, Edit, Reqs, NewRow, Rows
  <2> QED
    BY <1>2, <2>1, BeginKeeps DEF Edit
<1>3. ASSUME NEW m \in Msgs, Delete(p, m) PROVE StoreInv' /\ UNCHANGED storeVars
  <2> DEFINE step == IF row[m].deleted THEN "reply" ELSE "change"
             r == Req("delete", AuthorOf[m], m)
  <2>1. step \in {"create", "open", "change", "mark", "reply"} /\ Fit(step, r) /\ r \in Reqs
    BY <1>3 DEF Fit, Req, Delete
  <2>2. Begin(p, step, r)
    BY <1>3 DEF Delete
  <2> HIDE DEF step, r
  <2> QED
    BY <2>1, <2>2, BeginKeeps
<1>4. ASSUME NEW m \in Msgs, NEW u \in Users, React(p, m, u)
      PROVE  StoreInv' /\ UNCHANGED storeVars
  <2>1. Fit("open", Req("react", u, m)) /\ Req("react", u, m) \in Reqs
    BY <1>4 DEF Fit, Req, React
  <2> QED
    BY <1>4, <2>1, BeginKeeps DEF React
<1>5. ASSUME NEW u \in Users, NEW n \in 1 .. Len(log), Read(p, u, n)
      PROVE  StoreInv' /\ UNCHANGED storeVars
  <2> DEFINE r == [Req("read", u, None) EXCEPT !.upTo = n]
  <2>1. n \in Nat /\ n \in 0 .. Len(log)
    BY <1>0
  <2>2. r \in Reqs
    BY <2>1 DEF Req, Reqs, NewRow, Rows
  <2>3. r.kind = "read" /\ r.user = u /\ r.upTo = n
    BY DEF Req
  <2> HIDE DEF r
  <2>4. Fit("mark", r)
    BY <2>1, <2>3 DEF Fit
  <2>5. Begin(p, "mark", r)
    BY <1>5 DEF Read, r
  <2> QED
    BY <2>2, <2>4, <2>5, BeginKeeps
<1> QED
  BY <1>1, <1>2, <1>3, <1>4, <1>5 DEF Start

LEMMA CreateKeeps ==
  ASSUME StoreInv, NEW p \in Procs, Create(p)
  PROVE  StoreInv' /\ Stored' = Stored \cup {req[p].msg} /\ Len(log') \in Nat
         /\ \A u \in Users : cursor'[u] >= cursor[u]
<1> DEFINE m == req[p].msg
<1>1. m \in Msgs /\ log \in Seq(Msgs) /\ m \notin ToSet(log) /\ IsInjective(log)
  BY DEF StoreInv, HandlersFit, Fit, TypeOK, Create, At, Stored, StoredOnce
<1>2. /\ log' \in Seq(Msgs) /\ Len(log') = Len(log) + 1 /\ Len(log) \in Nat
      /\ Stored' = Stored \cup {m} /\ IsInjective(log')
  BY <1>1, AppendNew DEF Create, Stored
<1>3. NewRow \in Rows
  BY RequestsAreTyped DEF Kinds
<1>4. TypeOK'
  <2>1. cursor' \in [Users -> 0 .. Len(log')]
    BY <1>1, <1>2 DEF StoreInv, TypeOK, Create
  <2>2. row' \in [Msgs -> Rows]
    BY <1>1, <1>3 DEF StoreInv, TypeOK, Create
  <2>3. pc' \in [Procs -> {"idle", "create", "open", "change", "mark", "announce",
                           "reply", "fail"}]
        /\ req' \in [Procs -> Reqs]
    BY <1>3 DEF StoreInv, TypeOK, Create, Proceed, Reqs
  <2> QED
    BY <1>2, <2>1, <2>2, <2>3 DEF TypeOK
<1>5. HandlersFit'
  BY <1>2 DEF StoreInv, HandlersFit, Fit, Create, Proceed, TypeOK, Reqs
<1>6. \A u \in Users : cursor'[u] >= cursor[u]
  BY <1>1, <1>2 DEF StoreInv, TypeOK, Create
<1> QED
  BY <1>2, <1>4, <1>5, <1>6 DEF StoreInv, StoredOnce

(* A step that leaves log alone and moves handler p on to a step that fits. *)
LEMMA ProceedKeeps ==
  ASSUME StoreInv, NEW p \in Procs,
         NEW step \in {"change", "announce", "reply"}, NEW r \in Rows,
         Proceed(p, step, r), Fit(step, req[p]),
         UNCHANGED <<log, cursor>>, row' \in [Msgs -> Rows]
  PROVE  StoreInv'
<1>1. TypeOK'
  BY DEF StoreInv, TypeOK, Proceed, Reqs
<1>2. HandlersFit'
  BY DEF StoreInv, HandlersFit, Fit, Proceed, TypeOK, Reqs, Stored
<1>3. StoredOnce'
  BY DEF StoreInv, StoredOnce
<1> QED
  BY <1>1, <1>2, <1>3 DEF StoreInv

LEMMA ChangeKeeps ==
  ASSUME StoreInv, NEW p \in Procs, Duplicate(p) \/ Open(p) \/ Change(p)
  PROVE  StoreInv' /\ UNCHANGED <<log, cursor>>
<1>0. /\ req[p] \in Reqs /\ row \in [Msgs -> Rows] /\ Stored \subseteq Msgs
      /\ req[p].copy \in Rows /\ Fit(pc[p], req[p])
  BY StoredAreMsgs DEF StoreInv, TypeOK, HandlersFit, Reqs
<1>1. CASE Duplicate(p)
  <2>1. Fit("reply", req[p]) /\ row[req[p].msg] \in Rows
    BY <1>0, <1>1 DEF Fit, Duplicate, At
  <2> QED
    BY <1>0, <1>1, <2>1, ProceedKeeps DEF Duplicate, storeVars
<1>2. CASE Open(p)
  <2>1. Fit("change", req[p]) /\ row[req[p].msg] \in Rows
    BY <1>0, <1>2 DEF Fit, Open, At
  <2> QED
    BY <1>0, <1>2, <2>1, ProceedKeeps DEF Open, storeVars
<1>3. CASE Change(p)
  <2> DEFINE r == req[p]
  <2>1. /\ r.kind \in {"edit", "delete", "react"} /\ r.msg \in Msgs /\ r.user \in Users
        /\ r.body \in Bodies /\ r.copy \in Rows /\ row[r.msg] \in Rows
        /\ Fit("announce", r)
    BY <1>0, <1>3 DEF Fit, Change, At, Reqs
  <2>2. Changed(r) \in Rows /\ ReadBack(r) \in Rows
    <3>1. CASE r.kind = "edit"
      BY <2>1, <3>1 DEF Changed, ReadBack, Rows
    <3>2. CASE r.kind = "delete"
      BY <2>1, <3>2 DEF Changed, ReadBack, Rows
    <3>3. CASE r.kind = "react"
      BY <2>1, <3>3 DEF Changed, ReadBack, Rows, Toggled
    <3> QED
      BY <2>1, <3>1, <3>2, <3>3
  <2>3. row' \in [Msgs -> Rows]
    BY <1>0, <1>3, <2>2 DEF Change
  <2> QED
    BY <1>3, <2>1, <2>2, <2>3, ProceedKeeps DEF Change
<1> QED
  BY <1>1, <1>2, <1>3

(* A step that leaves the store alone and only ends or fails p's work. *)
LEMMA FailKeeps ==
  ASSUME StoreInv, NEW p \in Procs, UNCHANGED <<storeVars, req>>,
         pc' = [pc EXCEPT ![p] = "fail"]
  PROVE  StoreInv'
<1>1. TypeOK' /\ StoredOnce'
  BY DEF StoreInv, TypeOK, StoredOnce, storeVars
<1>2. HandlersFit'
  BY DEF StoreInv, HandlersFit, Fit, storeVars, TypeOK, Stored
<1> QED
  BY <1>1, <1>2 DEF StoreInv

LEMMA MarkReadKeeps ==
  ASSUME StoreInv, NEW p \in Procs, MarkRead(p)
  PROVE  /\ StoreInv' /\ UNCHANGED log
         /\ \A u \in Users : cursor'[u] >= cursor[u]
<1>0. /\ req[p].kind = "read" /\ req[p].user \in Users /\ req[p].upTo \in 0 .. Len(log)
      /\ cursor[req[p].user] < req[p].upTo /\ cursor \in [Users -> 0 .. Len(log)]
      /\ Len(log) \in Nat
  BY StoredAreMsgs DEF StoreInv, TypeOK, HandlersFit, Fit, MarkRead, At
<1>1. cursor' \in [Users -> 0 .. Len(log)] /\ \A u \in Users : cursor'[u] >= cursor[u]
  BY <1>0 DEF MarkRead
<1>2. TypeOK' /\ StoredOnce'
  BY <1>1 DEF StoreInv, TypeOK, StoredOnce, MarkRead
<1>3. HandlersFit'
  BY <1>0 DEF StoreInv, HandlersFit, Fit, MarkRead, TypeOK, Stored
<1> QED
  BY <1>1, <1>2, <1>3 DEF StoreInv, MarkRead

LEMMA AnnounceKeeps ==
  ASSUME StoreInv, NEW p \in Procs, Announce(p)
  PROVE  StoreInv' /\ UNCHANGED storeVars
<1>0. req[p].copy \in Rows /\ Fit("announce", req[p]) /\ row \in [Msgs -> Rows]
  BY DEF StoreInv, TypeOK, HandlersFit, Reqs, Announce, At
<1>1. CASE req[p].kind = "send"
  <2>1. Fit("reply", req[p])
    BY <1>0, <1>1 DEF Fit
  <2>2. Proceed(p, "reply", req[p].copy) /\ UNCHANGED storeVars
    BY <1>1 DEF Announce
  <2> QED
    BY <1>0, <2>1, <2>2, ProceedKeeps DEF storeVars
<1>2. CASE req[p].kind # "send"
  BY <1>2, FinishKeeps DEF Announce, Finish
<1> QED
  BY <1>1, <1>2

(* One step of the server: the invariant holds on, what is stored stays     *)
(* stored, and no cursor moves back.                                        *)
LEMMA StoreStep ==
  ASSUME StoreInv, [Next]_vars
  PROVE  /\ StoreInv'
         /\ Stored \subseteq Stored'
         /\ \A u \in Users : cursor'[u] >= cursor[u]
<1>0. /\ cursor \in [Users -> 0 .. Len(log)] /\ Len(log) \in Nat
      /\ \A u \in Users : cursor[u] >= cursor[u]
  BY StoredAreMsgs DEF StoreInv, TypeOK
<1> DEFINE Goal == /\ StoreInv'
                   /\ Stored \subseteq Stored'
                   /\ \A u \in Users : cursor'[u] >= cursor[u]
<1>1. ASSUME NEW p \in Procs, Start(p) PROVE Goal
  BY <1>0, <1>1, StartKeeps DEF storeVars, Stored
<1>2. ASSUME NEW p \in Procs, Create(p) PROVE Goal
  BY <1>2, CreateKeeps
<1>3. ASSUME NEW p \in Procs, Duplicate(p) \/ Open(p) \/ Change(p) PROVE Goal
  BY <1>0, <1>3, ChangeKeeps DEF Stored
<1>4. ASSUME NEW p \in Procs, MarkRead(p) PROVE Goal
  BY <1>4, MarkReadKeeps DEF Stored
<1>5. ASSUME NEW p \in Procs, Collide(p) \/ Refuse(p) PROVE Goal
  BY <1>0, <1>5, FailKeeps DEF Collide, Refuse, storeVars, Stored
<1>6. ASSUME NEW p \in Procs, AlreadyRead(p) \/ Reply(p) \/ ReplyError(p) \/ Die(p)
      PROVE  Goal
  BY <1>0, <1>6, FinishKeeps
  DEF AlreadyRead, Reply, ReplyError, Die, Finish, storeVars, Stored
<1>7. ASSUME NEW p \in Procs, Announce(p) PROVE Goal
  BY <1>0, <1>7, AnnounceKeeps DEF storeVars, Stored
<1>8. CASE UNCHANGED vars
  BY <1>0, <1>8 DEF vars, storeVars, Stored, StoreInv, TypeOK, StoredOnce, HandlersFit, Fit
<1> QED
  BY <1>1, <1>2, <1>3, <1>4, <1>5, <1>6, <1>7, <1>8 DEF Next, Write

-----------------------------------------------------------------------------
(* The clients. *)

(* Every step of Chat is a step of the server, or leaves it alone.          *)
LEMMA ChatStepIsStep ==
  ASSUME [ChatNext]_chatVars, log \in Seq(Msgs)
  PROVE  [Next]_vars
<1> USE ClientAssumption, NobodyAssumption
<1>1. ASSUME NEW p \in Procs, NEW m \in Msgs, Compose(p, m) PROVE Next
  BY <1>1 DEF Compose, Next, Start
<1>2. ASSUME NEW p \in Procs, NEW c \in Clients, Look(p, c) PROVE Next
  BY <1>2 DEF Look, Next, Start
<1>3. ASSUME NEW p \in Procs, NEW c \in Clients, NEW m \in Msgs, Alter(p, c, m)
      PROVE  Next
  BY <1>3 DEF Alter, Next, Start
<1>4. ASSUME NEW p \in Procs, ChatStep(p) PROVE Next
  BY <1>4 DEF ChatStep, WriteFor, AnnounceToAll, ReplyToAsker, RefuseFor, ErrorToAsker,
              Next
<1>5. ASSUME NEW p \in Procs, DieWith(p) PROVE Next
  BY <1>5 DEF DieWith, Next
<1>6. ASSUME NEW m \in Msgs, ComposeLost(m) \/ SendTimesOut(m) PROVE UNCHANGED vars
  BY <1>6 DEF ComposeLost, SendTimesOut
<1>7. ASSUME NEW c \in Clients,
             Ask(c) \/ AskOlder(c) \/ Answer(c) \/ Load(c) \/ Drop(c) \/ Reconnect(c)
      PROVE  UNCHANGED vars
  BY <1>7 DEF Ask, AskOlder, Answer, Load, Drop, Reconnect
<1>8. CASE UNCHANGED chatVars
  BY <1>8 DEF chatVars
<1> QED
  BY <1>1, <1>2, <1>3, <1>4, <1>5, <1>6, <1>7, <1>8 DEF ChatNext, ChatStart

LEMMA ChatStoreInv == ChatSpec => []StoreInv
<1>1. ChatInit => StoreInv
  BY StoreInit DEF ChatInit
<1>2. StoreInv /\ [ChatNext]_chatVars => StoreInv'
  BY ChatStepIsStep, StoreStep DEF StoreInv, TypeOK
<1> QED
  BY <1>1, <1>2, PTL DEF ChatSpec

(* The browsers only use the server: with their caches, retries, lost       *)
(* connections and time-outs it behaves as specified.                       *)
THEOREM ClientsUseTheServer == ChatSpec => Spec
<1>1. StoreInv /\ [ChatNext]_chatVars => [Next]_vars
  BY ChatStepIsStep DEF StoreInv, TypeOK
<1>2. ChatInit => Init
  BY DEF ChatInit
<1> QED
  BY <1>1, <1>2, ChatStoreInv, PTL DEF ChatSpec, Spec

(* However often a send is retried, and whatever overlaps with it, its      *)
(* message is stored once (the unique client_msg_id).                       *)
THEOREM SentOnce == ChatSpec => []StoredOnce
<1>1. StoreInv => StoredOnce
  BY DEF StoreInv
<1> QED
  BY <1>1, ChatStoreInv, PTL

(* No read cursor moves back: markRead compares, and a send stores a later  *)
(* message than any cursor points to.                                       *)
THEOREM CursorsOnlyAdvance == ChatSpec => CursorsAdvance
<1>1. StoreInv /\ [ChatNext]_chatVars
        => [\A u \in Users : cursor'[u] >= cursor[u]]_vars
  BY ChatStepIsStep, StoreStep DEF StoreInv, TypeOK
<1> QED
  BY <1>1, ChatStoreInv, PTL DEF ChatSpec, CursorsAdvance

-----------------------------------------------------------------------------
(* Types of the clients' state, and the outbox. *)

(* What a browser holds is of stored messages only. *)
Held == {x \in Copies : x.items \in Seq(Stored)}

CachesTyped ==
  /\ cache \in [Clients -> Held]
  /\ reply \in [Clients -> Held]
  /\ outbox \in [Msgs -> {"new", "sending", "failed", "gone"}]

LinksTyped ==
  /\ link \subseteq Clients
  /\ fetch \in [Clients -> Nat]
  /\ asker \in [Procs -> Clients \cup {None}]

ClientInv == CachesTyped /\ LinksTyped /\ OutboxIsHonest

LEMMA NoCopyIsHeld == NoCopy \in Held
<1>1. NewRow \in Rows
  BY RequestsAreTyped DEF Kinds
<1>2. [m \in Msgs |-> NewRow] \in [Msgs -> Rows] /\ <<>> \in Seq(Msgs) /\ <<>> \in Seq(Stored)
  BY <1>1
<1> QED
  BY <1>2 DEF NoCopy, Copies, Held

LEMMA HeldGrows ==
  ASSUME Stored \subseteq Stored', NEW x \in Held
  PROVE  x \in Held'
<1>1. ASSUME NEW s \in Seq(Stored) PROVE s \in Seq(Stored')
  <2>1. Len(s) \in Nat /\ s = [i \in 1 .. Len(s) |-> s[i]]
        /\ \A i \in 1 .. Len(s) : s[i] \in Stored
    BY LenProperties, ElementOfSeq
  <2> DEFINE n == Len(s)
  <2>2. n \in Nat /\ s \in [1 .. n -> Stored']
    BY <2>1
  <2> HIDE DEF n
  <2>3. \A S : Seq(S) = UNION {[1 .. k -> S] : k \in Nat}
    BY SeqDef
  <2>4. s \in UNION {[1 .. k -> Stored'] : k \in Nat}
    BY <2>2, Zenon
  <2> QED
    BY <2>3, <2>4, Zenon
<1> QED
  BY <1>1 DEF Held, Copies

LEMMA HeldGrowsOver ==
  ASSUME Stored \subseteq Stored', NEW f \in [Clients -> Held]
  PROVE  f \in [Clients -> Held']
BY HeldGrows

LEMMA DoubtIsHeld ==
  ASSUME NEW x \in Held, NEW m \in Msgs
  PROVE  Doubt(x, m) \in Held
BY DEF Doubt, Copies, Held

LEMMA UpdatedIsHeld ==
  ASSUME cache \in [Clients -> Held], NEW c \in Clients, NEW r \in Reqs, r.msg \in Msgs,
         r.msg \in Stored, NEW acknowledged
  PROVE  Updated(c, r, acknowledged) \in Held
<1> DEFINE x == cache[c]
           old == x.rows[r.msg]
           items == <<r.msg>> \o x.items
           doubt == IF Late(x, r.msg) THEN x.doubt \cup {r.msg} ELSE x.doubt
<1>1. x \in Held /\ x \in Copies /\ x.items \in Seq(Stored) /\ r.copy \in Rows
  BY DEF Reqs, Held
<1>2. items \in Seq(Msgs) /\ items \in Seq(Stored)
  <2>1. <<r.msg>> \in Seq(Msgs) /\ <<r.msg>> \in Seq(Stored) /\ x.items \in Seq(Msgs)
    BY <1>1 DEF Copies
  <2> QED
    BY <1>1, <2>1, ConcatProperties
<1>3. doubt \in SUBSET Msgs
  BY <1>1 DEF Copies
<1>4. Patched(c, r, acknowledged) \in Rows
  <2>1. old \in Rows /\ r.copy.body \in Bodies /\ r.copy.reacts \in SUBSET Users
    BY <1>1 DEF Copies, Rows
  <2>2. [old EXCEPT !.body = r.copy.body] \in Rows /\ [old EXCEPT !.deleted = TRUE] \in Rows
        /\ [old EXCEPT !.reacts = r.copy.reacts] \in Rows
    BY <2>1 DEF Rows
  <2> QED
    BY <1>1, <2>1, <2>2 DEF Patched
<1>5. [x EXCEPT !.rows[r.msg] = Patched(c, r, acknowledged)] \in Held
  BY <1>1, <1>4 DEF Copies, Held
<1>6. [x EXCEPT !.items = items, !.rows[r.msg] = r.copy, !.doubt = doubt] \in Held
  <2> HIDE DEF items, doubt
  <2> QED
    BY <1>1, <1>2, <1>3 DEF Copies, Held
<1> QED
  BY <1>1, <1>5, <1>6 DEF Updated

LEMMA HearKeeps ==
  ASSUME CachesTyped, OutboxIsHonest, NEW hearers \in SUBSET Clients,
         NEW r \in Reqs, r.msg \in Msgs, r.msg \in Stored, NEW waiting, NEW unsure,
         Hear(hearers, r, waiting, unsure), Stored \subseteq Stored'
  PROVE  /\ cache' \in [Clients -> Held']
         /\ outbox' \in [Msgs -> {"new", "sending", "failed", "gone"}]
         /\ OutboxIsHonest'
<1> DEFINE heard(c) == IF c \in hearers THEN Updated(c, r, c = waiting) ELSE cache[c]
           held(c) == IF c \in unsure THEN Doubt(heard(c), r.msg) ELSE heard(c)
<1>1. cache' \in [Clients -> Held']
  <2>1. ASSUME NEW c \in Clients PROVE held(c) \in Held
    <3>1. heard(c) \in Held
      BY UpdatedIsHeld DEF CachesTyped
    <3> QED
      BY <3>1, DoubtIsHeld
  <2>2. cache' = [c \in Clients |-> held(c)]
    BY DEF Hear
  <2>3. cache' \in [Clients -> Held]
    <3> HIDE DEF held
    <3> QED
      BY <2>1, <2>2
  <2> QED
    BY <2>3, HeldGrowsOver
<1>2. outbox' \in [Msgs -> {"new", "sending", "failed", "gone"}]
  BY DEF Hear, CachesTyped
<1>3. OutboxIsHonest'
  BY DEF Hear, CachesTyped, OutboxIsHonest
<1> QED
  BY <1>1, <1>2, <1>3

LEMMA DoubtKeeps ==
  ASSUME CachesTyped, NEW m \in Msgs, Stored \subseteq Stored'
  PROVE  /\ DoubtReplies(m) => reply' \in [Clients -> Held']
         /\ DoubtAll(m) => cache' \in [Clients -> Held'] /\ reply' \in [Clients -> Held']
<1>1. ASSUME NEW c \in Clients
      PROVE  Doubt(reply[c], m) \in Held' /\ Doubt(cache[c], m) \in Held'
  <2>1. Doubt(reply[c], m) \in Held /\ Doubt(cache[c], m) \in Held
    BY DoubtIsHeld DEF CachesTyped
  <2> QED
    BY <2>1, HeldGrows
<1> QED
  BY <1>1 DEF DoubtReplies, DoubtAll

LEMMA PageIsStored ==
  ASSUME StoreInv, NEW x \in Held
  PROVE  NextPage(x) \in Seq(Stored)
<1> DEFINE end == IF x.items = <<>> THEN Len(log) ELSE Place(Last(x.items)) - 1
           size == IF end > PageSize THEN PageSize ELSE end
<1>1. log \in Seq(Msgs) /\ Len(log) \in Nat /\ PageSize \in Nat
      /\ \A i \in 1 .. Len(log) : log[i] \in Stored
  BY PageSizeAssumption DEF StoreInv, TypeOK, Stored, ToSet
<1>2. end \in 0 .. Len(log)
  <2>1. CASE x.items = <<>>
    BY <1>1, <2>1
  <2>2. CASE x.items # <<>>
    <3>1. Last(x.items) \in Stored
      BY <2>2, LenProperties, ElementOfSeq DEF Held, Last
    <3>2. \E i \in 1 .. Len(log) : log[i] = Last(x.items)
      BY <1>1, <3>1 DEF Stored, ToSet
    <3>3. Place(Last(x.items)) \in 1 .. Len(log)
      BY <3>2 DEF Place
    <3> QED
      BY <1>1, <2>2, <3>3
  <2> QED
    BY <2>1, <2>2
<1>3. NextPage(x) = [i \in 1 .. size |-> log[end + 1 - i]]
  BY DEF NextPage
<1> HIDE DEF end
<1>4. size \in Nat /\ \A i \in 1 .. size : end + 1 - i \in 1 .. Len(log)
  BY <1>1, <1>2
<1> HIDE DEF size
<1>5. \A i \in 1 .. size : log[end + 1 - i] \in Stored
  BY <1>1, <1>4
<1> QED
  BY <1>3, <1>4, <1>5

LEMMA AnsweredIsHeld ==
  ASSUME StoreInv, CachesTyped, NEW c \in Clients, Answer(c)
  PROVE  reply' \in [Clients -> Held]
<1> DEFINE x == reply[c]
           page == NextPage(x)
           items == x.items \o page
           rows == [m \in Msgs |-> IF m \in ToSet(page) THEN row[m] ELSE x.rows[m]]
           more == page # <<>> /\ Last(page) # Head(log)
           doubt == (x.doubt \ (ToSet(page) \ ToSet(x.items)))
                      \cup {m \in ToSet(page) : Untold(m)}
           read == [items |-> items, rows |-> rows, pages |-> x.pages + 1,
                    more |-> more, doubt |-> doubt]
<1>1. x \in Held /\ x \in Copies /\ x.items \in Seq(Stored) /\ row \in [Msgs -> Rows]
  BY DEF CachesTyped, StoreInv, TypeOK, Held
<1>2. page \in Seq(Stored) /\ Stored \subseteq Msgs
  BY <1>1, PageIsStored, StoredAreMsgs DEF StoreInv, TypeOK
<1>3. page \in Seq(Msgs) /\ ToSet(page) \subseteq Msgs
  <2>1. Len(page) \in Nat /\ page = [i \in 1 .. Len(page) |-> page[i]]
        /\ \A i \in 1 .. Len(page) : page[i] \in Msgs
    <3> HIDE DEF page
    <3> QED
      BY <1>2, LenProperties, ElementOfSeq
  <2> HIDE DEF page
  <2> QED
    BY <2>1 DEF ToSet
<1> HIDE DEF page
<1>4. items \in Seq(Msgs) /\ items \in Seq(Stored)
  <2>1. x.items \in Seq(Msgs)
    BY <1>1 DEF Copies
  <2> QED
    BY <1>1, <1>2, <1>3, <2>1, ConcatProperties
<1>5. rows \in [Msgs -> Rows] /\ doubt \in SUBSET Msgs /\ more \in BOOLEAN
      /\ x.pages + 1 \in Nat
  BY <1>1, <1>3 DEF Copies
<1>6. read \in Held
  <2> HIDE DEF rows, doubt, more, items
  <2> QED
    BY <1>4, <1>5 DEF Copies, Held
<1>7. reply' = [reply EXCEPT ![c] = read]
  BY DEF Answer, page
<1> HIDE DEF read
<1> QED
  BY <1>6, <1>7 DEF CachesTyped

LEMMA ClientInit == ChatInit => ClientInv
<1> SUFFICES ASSUME ChatInit PROVE ClientInv
  OBVIOUS
<1>1. CachesTyped /\ OutboxIsHonest
  BY NoCopyIsHeld DEF ChatInit, CachesTyped, OutboxIsHonest
<1>2. LinksTyped
  BY NobodyAssumption DEF ChatInit, LinksTyped
<1> QED
  BY <1>1, <1>2 DEF ClientInv

LEMMA ClientStep ==
  ASSUME StoreInv, ClientInv, [ChatNext]_chatVars
  PROVE  ClientInv'
<1> USE ClientAssumption, NobodyAssumption
<1>0. /\ Stored \subseteq Stored' /\ Stored \subseteq Msgs
      /\ \A p \in Procs : req[p] \in Reqs /\ Fit(pc[p], req[p])
  BY ChatStepIsStep, StoreStep, StoredAreMsgs DEF StoreInv, TypeOK, HandlersFit
<1>a. cache \in [Clients -> Held'] /\ reply \in [Clients -> Held']
  BY <1>0, HeldGrowsOver DEF ClientInv, CachesTyped
<1>1. ASSUME NEW p \in Procs, NEW m \in Msgs, Compose(p, m) PROVE ClientInv'
  BY <1>0, <1>a, <1>1 DEF Compose, ClientInv, CachesTyped, LinksTyped, OutboxIsHonest
<1>2. ASSUME NEW p \in Procs, NEW c \in Clients, Look(p, c) PROVE ClientInv'
  BY <1>0, <1>a, <1>2 DEF Look, clientVars, ClientInv, CachesTyped, LinksTyped, OutboxIsHonest
<1>3. ASSUME NEW p \in Procs, NEW c \in Clients, NEW m \in Msgs, Alter(p, c, m)
      PROVE  ClientInv'
  BY <1>0, <1>a, <1>3 DEF Alter, ClientInv, CachesTyped, LinksTyped, OutboxIsHonest
<1>4. ASSUME NEW p \in Procs, WriteFor(p) PROVE ClientInv'
  <2>1. cache' \in [Clients -> Held'] /\ reply' \in [Clients -> Held']
    <3>1. CASE Change(p)
      <4>1. req[p].msg \in Msgs
        BY <1>0, <3>1 DEF Change, At, Fit
      <4> QED
        BY <1>0, <1>a, <1>4, <4>1, DoubtKeeps DEF WriteFor, ClientInv
    <3>2. CASE ~Change(p)
      BY <1>a, <1>4, <3>2 DEF WriteFor
    <3> QED
      BY <3>1, <3>2
  <2> QED
    BY <1>0, <1>4, <2>1 DEF WriteFor, ClientInv, CachesTyped, LinksTyped, OutboxIsHonest
<1>5. ASSUME NEW p \in Procs, AnnounceToAll(p) PROVE ClientInv'
  <2> DEFINE r == req[p]
  <2>0. UNCHANGED <<link, fetch>>
    BY <1>5 DEF AnnounceToAll
  <2>1. CASE r.kind = "read"
    BY <1>0, <1>a, <1>5, <2>0, <2>1
    DEF AnnounceToAll, ClientInv, CachesTyped, LinksTyped, OutboxIsHonest
  <2>2. CASE r.kind # "read"
    <3>1. r \in Reqs /\ r.msg \in Stored /\ r.msg \in Msgs
      BY <1>0, <1>5, <2>2 DEF AnnounceToAll, Announce, At, Fit
    <3>2. PICK waiting, unsure : Hear(link, r, waiting, unsure)
      BY <1>5, <2>2 DEF AnnounceToAll
    <3>3. /\ cache' \in [Clients -> Held']
          /\ outbox' \in [Msgs -> {"new", "sending", "failed", "gone"}]
          /\ OutboxIsHonest'
      BY <1>0, <3>1, <3>2, HearKeeps DEF ClientInv, LinksTyped
    <3>4. reply' \in [Clients -> Held']
      BY <1>0, <1>5, <2>2, <3>1, DoubtKeeps DEF AnnounceToAll, ClientInv
    <3>5. asker' \in [Procs -> Clients \cup {None}]
      BY <1>5, <2>2 DEF AnnounceToAll, Forget, ClientInv, LinksTyped
    <3> QED
      BY <2>0, <3>3, <3>4, <3>5 DEF ClientInv, CachesTyped, LinksTyped
  <2> QED
    BY <2>1, <2>2
<1>6. ASSUME NEW p \in Procs, ReplyToAsker(p) PROVE ClientInv'
  <2>1. LinksTyped'
    BY <1>6 DEF ReplyToAsker, Forget, ClientInv, LinksTyped
  <2>2. CachesTyped' /\ OutboxIsHonest'
    <3>1. CASE asker[p] = None
      BY <1>0, <1>a, <1>6, <3>1 DEF ReplyToAsker, ClientInv, CachesTyped, OutboxIsHonest
    <3>2. CASE asker[p] # None
      <4>1. req[p] \in Reqs /\ req[p].msg \in Stored /\ req[p].msg \in Msgs
        BY <1>0, <1>6 DEF ReplyToAsker, Reply, At, Fit
      <4>2. {asker[p]} \in SUBSET Clients
        BY <3>2 DEF ClientInv, LinksTyped
      <4>3. Hear({asker[p]}, req[p], asker[p], {}) /\ UNCHANGED reply
        BY <1>6, <3>2 DEF ReplyToAsker
      <4> QED
        BY <1>0, <1>a, <4>1, <4>2, <4>3, HearKeeps DEF ClientInv, CachesTyped
    <3> QED
      BY <3>1, <3>2
  <2> QED
    BY <2>1, <2>2 DEF ClientInv
<1>7. ASSUME NEW p \in Procs, RefuseFor(p) PROVE ClientInv'
  BY <1>0, <1>a, <1>7 DEF RefuseFor, clientVars, ClientInv, CachesTyped, LinksTyped,
                          OutboxIsHonest
<1>8. ASSUME NEW p \in Procs, ErrorToAsker(p) PROVE ClientInv'
  BY <1>0, <1>a, <1>8
  DEF ErrorToAsker, Forget, ClientInv, CachesTyped, LinksTyped, OutboxIsHonest
<1>9. ASSUME NEW p \in Procs, DieWith(p) PROVE ClientInv'
  <2>1. cache' \in [Clients -> Held'] /\ reply' \in [Clients -> Held']
    <3>1. CASE At(p, "announce") /\ req[p].kind # "read"
      <4>1. req[p].msg \in Msgs
        BY <1>0, <3>1 DEF At, Fit
      <4> QED
        BY <1>0, <1>9, <3>1, <4>1, DoubtKeeps DEF DieWith, ClientInv
    <3>2. CASE ~(At(p, "announce") /\ req[p].kind # "read")
      BY <1>a, <1>9, <3>2 DEF DieWith
    <3> QED
      BY <3>1, <3>2
  <2> QED
    BY <1>0, <1>9, <2>1
    DEF DieWith, Forget, ClientInv, CachesTyped, LinksTyped, OutboxIsHonest
<1>10. ASSUME NEW m \in Msgs, ComposeLost(m) \/ SendTimesOut(m) PROVE ClientInv'
  BY <1>0, <1>a, <1>10
  DEF ComposeLost, SendTimesOut, ClientInv, CachesTyped, LinksTyped, OutboxIsHonest
<1>11. ASSUME NEW c \in Clients, Drop(c) \/ Reconnect(c) PROVE ClientInv'
  BY <1>0, <1>a, <1>11
  DEF Drop, Reconnect, ClientInv, CachesTyped, LinksTyped, OutboxIsHonest
<1>12. ASSUME NEW c \in Clients, Ask(c) \/ AskOlder(c) PROVE ClientInv'
  <2>1. cache[c].pages \in Nat
    BY DEF ClientInv, CachesTyped, Held, Copies
  <2>2. fetch' \in [Clients -> Nat]
    BY <1>12, <2>1 DEF Ask, AskOlder, ClientInv, LinksTyped
  <2>3. reply' \in [Clients -> Held']
    BY <1>a, <1>12 DEF Ask, AskOlder
  <2> QED
    BY <1>0, <1>a, <1>12, <2>2, <2>3
    DEF Ask, AskOlder, ClientInv, CachesTyped, LinksTyped, OutboxIsHonest
<1>13. ASSUME NEW c \in Clients, Answer(c) PROVE ClientInv'
  <2>1. reply' \in [Clients -> Held']
    BY <1>0, <1>13, AnsweredIsHeld, HeldGrowsOver DEF ClientInv
  <2> QED
    BY <1>0, <1>a, <1>13, <2>1
    DEF Answer, ClientInv, CachesTyped, LinksTyped, OutboxIsHonest
<1>14. ASSUME NEW c \in Clients, Load(c) PROVE ClientInv'
  <2>1. NoCopy \in Held'
    BY <1>0, NoCopyIsHeld, HeldGrows
  <2>2. cache' \in [Clients -> Held'] /\ reply' \in [Clients -> Held']
        /\ fetch' \in [Clients -> Nat]
    BY <1>a, <1>14, <2>1 DEF Load, ClientInv, LinksTyped
  <2> QED
    BY <1>0, <1>14, <2>2 DEF Load, ClientInv, CachesTyped, LinksTyped, OutboxIsHonest
<1>15. CASE UNCHANGED chatVars
  BY <1>0, <1>a, <1>15
  DEF chatVars, clientVars, ClientInv, CachesTyped, LinksTyped, OutboxIsHonest
<1> QED
  BY <1>1, <1>2, <1>3, <1>4, <1>5, <1>6, <1>7, <1>8, <1>9, <1>10, <1>11, <1>12, <1>13,
     <1>14, <1>15
  DEF ChatNext, ChatStart, ChatStep

LEMMA ClientInvAlways == ChatSpec => []ClientInv
<1>1. StoreInv /\ ClientInv /\ [ChatNext]_chatVars => ClientInv'
  BY ClientStep
<1> QED
  BY <1>1, ClientInit, ChatStoreInv, PTL DEF ChatSpec

(* The state of the server and of the browsers stays well typed.            *)
THEOREM TypeCorrect == ChatSpec => []ChatTypeOK
<1>1. StoreInv /\ ClientInv => ChatTypeOK
  BY DEF StoreInv, ClientInv, CachesTyped, LinksTyped, Held, ChatTypeOK
<1> QED
  BY <1>1, ChatStoreInv, ClientInvAlways, PTL

(* No message leaves the outbox unless it is stored: an event or an         *)
(* acknowledgement that drops it names a stored message, however late it is *)
(* and whichever attempt it belongs to.                                     *)
THEOREM NothingSentIsLost == ChatSpec => []OutboxIsHonest
<1>1. ClientInv => OutboxIsHonest
  BY DEF ClientInv
<1> QED
  BY <1>1, ClientInvAlways, PTL

-----------------------------------------------------------------------------
(* What is shown.                                                          *)
(*                                                                         *)
(* A handler that has written a message and not yet told everybody leaves  *)
(* every copy behind its row.  A copy is true when it is about to become   *)
(* right: the one handler that tells of the message patches what is shown  *)
(* into the row (ShownTrue), and a message neither shown nor known to be   *)
(* older than what is shown is fresh, that is, its first event is still to *)
(* come and nothing has changed it since it was sent.                      *)

Telling(p, m) == At(p, "announce") /\ req[p].msg = m
Acknowledging(p, m) == At(p, "reply") /\ req[p].kind = "send" /\ req[p].msg = m

Fresh(m) ==
  /\ \E p \in Procs : Telling(p, m)
  /\ row[m] = NewRow
  /\ \A p \in Procs : Telling(p, m) => req[p].kind = "send" /\ req[p].copy = NewRow
  /\ \A p \in Procs : Acknowledging(p, m) => req[p].copy = NewRow

PatchOf(old, r, acknowledged) ==
  CASE acknowledged /\ r.kind \in {"edit", "react"} -> r.copy
    [] ~acknowledged /\ r.kind = "edit" -> [old EXCEPT !.body = r.copy.body]
    [] r.kind = "delete" -> [old EXCEPT !.deleted = TRUE]
    [] ~acknowledged /\ r.kind = "react" -> [old EXCEPT !.reacts = r.copy.reacts]
    [] OTHER -> old

ToldRight(shown, p, m) ==
  /\ \A q \in Procs : Telling(q, m) => q = p
  /\ \A acknowledged \in BOOLEAN :
       SameContent(PatchOf(shown, req[p], acknowledged), row[m])

ShownTrue(shown, m) ==
  /\ ~Untold(m) => SameContent(shown, row[m])
  /\ \A p \in Procs : Telling(p, m) => ToldRight(shown, p, m)

ContentTrue(x) ==
  /\ x.pages = 0 => x.items = <<>>
  /\ \A m \in ToSet(x.items) \ x.doubt : ShownTrue(x.rows[m], m)
  /\ x.pages > 0 =>
       \A m \in Stored \ (ToSet(x.items) \cup x.doubt) : Late(x, m) \/ Fresh(m)

SendTold(m) == \E p \in Procs : Telling(p, m) /\ req[p].kind = "send"

(* k events, newest first but for the doubtful ones, and then the pages:    *)
(* the log as it was when the first was read, e messages long, from its end *)
(* back.  Nothing from there on is missing, unless it is still to be told.  *)
Laid(x, k, e) ==
  /\ Len(x.items) - k <= e
  /\ IF x.more THEN k < Len(x.items) ELSE Len(x.items) - k = e
  /\ \A i \in k + 1 .. Len(x.items) : x.items[i] = log[e + k + 1 - i]
  /\ \A i \in 1 .. k : x.items[i] \notin x.doubt =>
       /\ Place(x.items[i]) > e
       /\ \A j \in i + 1 .. k : Place(x.items[j]) < Place(x.items[i])
  /\ \A a \in e + k + 1 - Len(x.items) .. Len(log) :
       log[a] \in ToSet(x.items) \cup x.doubt \/ SendTold(log[a])
InOrder(x) ==
  x.pages > 0 => \E k \in 0 .. Len(x.items), e \in 0 .. Len(log) : Laid(x, k, e)

CopyTrue(x) == ContentTrue(x) /\ InOrder(x)
CopiesTrue == \A c \in Clients : CopyTrue(cache[c]) /\ CopyTrue(reply[c])

(* Of what a handler says: a read receipt is of no message, only sends and  *)
(* deletions of what is deleted are acknowledged without an event of their  *)
(* own, and one handler alone tells of a new message.                       *)
KnowsWhat(p) ==
  /\ At(p, "mark") => req[p].msg \notin Msgs
  /\ At(p, "announce") /\ req[p].kind = "read" => req[p].msg \notin Msgs
  /\ At(p, "reply") =>
       req[p].kind = "send" \/ (req[p].kind = "delete" /\ row[req[p].msg].deleted)
HandlersKnow ==
  /\ \A p \in Procs : KnowsWhat(p)
  /\ \A p, q \in Procs : /\ At(p, "announce") /\ At(q, "announce")
                         /\ req[p].kind = "send" /\ req[q].kind = "send"
                         /\ req[p].msg = req[q].msg
                         => p = q

TruthInv == HandlersKnow /\ CopiesTrue

LEMMA UntoldIsTelling ==
  ASSUME NEW m
  PROVE  Untold(m) <=> \E p \in Procs : Telling(p, m)
BY DEF Untold, Telling

(* A step that neither writes m nor tells of it. *)
Undisturbed(m) ==
  /\ row'[m] = row[m]
  /\ \A p \in Procs : Telling(p, m)' <=> Telling(p, m)
  /\ \A p \in Procs : Telling(p, m) => req'[p] = req[p]
  /\ \A p \in Procs : Acknowledging(p, m)' =>
       \/ req'[p].copy = row[m]
       \/ Acknowledging(p, m) /\ req'[p].copy = req[p].copy

LEMMA UndisturbedShown ==
  ASSUME NEW m, NEW shown, Undisturbed(m), ShownTrue(shown, m)
  PROVE  ShownTrue(shown, m)'
<1>1. Untold(m)' <=> Untold(m)
  BY DEF Undisturbed, Untold, Telling
<1>2. ~Untold(m)' => SameContent(shown, row'[m])
  BY <1>1 DEF ShownTrue, Undisturbed
<1>3. ASSUME NEW p \in Procs, Telling(p, m)' PROVE ToldRight(shown, p, m)'
  <2>1. Telling(p, m) /\ req'[p] = req[p] /\ ToldRight(shown, p, m)
    BY <1>3 DEF Undisturbed, ShownTrue
  <2>2. \A q \in Procs : Telling(q, m)' => q = p
    BY <2>1 DEF Undisturbed, ToldRight
  <2>3. ASSUME NEW a \in BOOLEAN
        PROVE  SameContent(PatchOf(shown, req'[p], a), row'[m])
    BY <2>1 DEF Undisturbed, ToldRight
  <2> QED
    BY <2>2, <2>3 DEF ToldRight, SameContent, PatchOf
<1> QED
  BY <1>2, <1>3 DEF ShownTrue, SameContent

LEMMA UndisturbedFresh ==
  ASSUME NEW m, Undisturbed(m), Fresh(m)
  PROVE  Fresh(m)'
<1>1. \E p \in Procs : Telling(p, m)'
  BY DEF Undisturbed, Fresh
<1>2. row'[m] = NewRow
  BY DEF Undisturbed, Fresh
<1>3. \A p \in Procs : Telling(p, m)' => req'[p].kind = "send" /\ req'[p].copy = NewRow
  BY DEF Undisturbed, Fresh
<1>4. \A p \in Procs : Acknowledging(p, m)' => req'[p].copy = NewRow
  BY <1>2 DEF Undisturbed, Fresh
<1> QED
  BY <1>1, <1>2, <1>3, <1>4 DEF Fresh, NewRow

(* A copy stays true as long as only doubtful messages of it are touched.   *)
LEMMA ContentStays ==
  ASSUME NEW x \in Held, ContentTrue(x), log' = log, Stored \subseteq Msgs,
         x.pages > 0 => \A m \in Msgs \ x.doubt : Undisturbed(m)
  PROVE  ContentTrue(x)'
<1>1. CASE x.pages = 0
  <2>1. x.items = <<>> /\ ToSet(x.items) = {}
    BY <1>1 DEF ContentTrue, ToSet
  <2> QED
    BY <1>1, <2>1 DEF ContentTrue
<1>2. CASE x.pages # 0
  <2>1. x.pages > 0 /\ ToSet(x.items) \subseteq Msgs
    BY <1>2 DEF Held, Copies, ToSet
  <2>2. \A m \in ToSet(x.items) \ x.doubt : ShownTrue(x.rows[m], m)'
    BY <2>1, UndisturbedShown DEF ContentTrue
  <2>3. ASSUME NEW m \in Stored \ (ToSet(x.items) \cup x.doubt)
        PROVE  Late(x, m)' \/ Fresh(m)'
    <3>1. Late(x, m) \/ Fresh(m)
      BY <2>1 DEF ContentTrue
    <3>2. Undisturbed(m)
      BY <2>1
    <3>3. Late(x, m) => Late(x, m)'
      BY DEF Late
    <3> QED
      BY <3>1, <3>2, <3>3, UndisturbedFresh
  <2>4. Stored' = Stored
    BY DEF Stored
  <2> QED
    BY <1>2, <2>2, <2>3, <2>4 DEF ContentTrue
<1> QED
  BY <1>1, <1>2

LEMMA DoubtedContent ==
  ASSUME NEW x \in Held, ContentTrue(x), NEW m \in Msgs
  PROVE  /\ ContentTrue(Doubt(x, m)) /\ Doubt(x, m) \in Held
         /\ Doubt(x, m).pages > 0 => m \in Doubt(x, m).doubt
<1> DEFINE y == [x EXCEPT !.doubt = @ \cup {m}]
<1>1. CASE x.pages > 0
  <2>1. Doubt(x, m) = y /\ y.items = x.items /\ y.rows = x.rows /\ y.pages = x.pages
        /\ y.doubt = x.doubt \cup {m}
    BY <1>1 DEF Doubt, Held, Copies
  <2>2. \A n : Late(y, n) <=> Late(x, n)
    BY <2>1 DEF Late
  <2>3. ContentTrue(y)
    BY <2>1, <2>2 DEF ContentTrue
  <2> QED
    BY <2>1, <2>3, DoubtIsHeld
<1>2. CASE ~(x.pages > 0)
  BY <1>2 DEF Doubt
<1> QED
  BY <1>1, <1>2

(* The server's steps: which messages they disturb, and that handlers go on *)
(* knowing what they speak of.                                              *)

LEMMA BeginDisturbsNothing ==
  ASSUME StoreInv, HandlersKnow, NEW p \in Procs,
         NEW step \in {"create", "open", "change", "mark", "reply"},
         NEW r \in Reqs, Begin(p, step, r),
         step = "mark" => r.msg \notin Msgs,
         step = "reply" => r.kind = "delete" /\ row[r.msg].deleted
  PROVE  HandlersKnow' /\ UNCHANGED log /\ \A m \in Msgs : Undisturbed(m)
<1>1. /\ UNCHANGED <<log, row>>
      /\ pc \in [Procs -> {"idle", "create", "open", "change", "mark", "announce",
                           "reply", "fail"}]
      /\ req \in [Procs -> Reqs]
      /\ pc[p] = "idle" /\ pc' = [pc EXCEPT ![p] = step] /\ req' = [req EXCEPT ![p] = r]
  BY DEF StoreInv, TypeOK, Begin, At, storeVars
<1>2. \A m \in Msgs : Undisturbed(m)
  BY <1>1 DEF Undisturbed, Telling, Acknowledging, At
<1>3. HandlersKnow'
  BY <1>1 DEF HandlersKnow, KnowsWhat, At
<1> QED
  BY <1>1, <1>2, <1>3

LEMMA StartDisturbsNothing ==
  ASSUME StoreInv, HandlersKnow, NEW p \in Procs, Start(p)
  PROVE  HandlersKnow' /\ UNCHANGED log /\ \A m \in Msgs : Undisturbed(m)
<1> USE RequestsAreTyped DEF Kinds
<1> DEFINE Goal == HandlersKnow' /\ UNCHANGED log /\ \A m \in Msgs : Undisturbed(m)
<1>1. ASSUME NEW m \in Msgs, Send(p, m) PROVE Goal
  <2>1. Req("send", AuthorOf[m], m) \in Reqs
    OBVIOUS
  <2> QED
    BY <1>1, <2>1, BeginDisturbsNothing DEF Send
<1>2. ASSUME NEW m \in Msgs, NEW b \in Bodies, Edit(p, m, b) PROVE Goal
  <2> DEFINE r == [Req("edit", AuthorOf[m], m) EXCEPT !.body = b]
  <2>1. r \in Reqs
    BY DEF Req, Reqs, NewRow, Rows
  <2> QED
    BY <1>2, <2>1, BeginDisturbsNothing DEF Edit
<1>3. ASSUME NEW m \in Msgs, Delete(p, m) PROVE Goal
  <2> DEFINE step == IF row[m].deleted THEN "reply" ELSE "change"
             r == Req("delete", AuthorOf[m], m)
  <2>1. step \in {"create", "open", "change", "mark", "reply"} /\ r \in Reqs
        /\ step # "mark" /\ (step = "reply" => r.kind = "delete" /\ row[r.msg].deleted)
    BY DEF Req
  <2>2. Begin(p, step, r)
    BY <1>3 DEF Delete
  <2> HIDE DEF step, r
  <2> QED
    BY <2>1, <2>2, BeginDisturbsNothing
<1>4. ASSUME NEW m \in Msgs, NEW u \in Users, React(p, m, u) PROVE Goal
  <2>1. Req("react", u, m) \in Reqs
    OBVIOUS
  <2> QED
    BY <1>4, <2>1, BeginDisturbsNothing DEF React
<1>5. ASSUME NEW u \in Users, NEW n \in 1 .. Len(log), Read(p, u, n) PROVE Goal
  <2> DEFINE r == [Req("read", u, None) EXCEPT !.upTo = n]
  <2>1. n \in Nat
    BY StoredAreMsgs DEF StoreInv, TypeOK
  <2>2. r \in Reqs /\ r.msg \notin Msgs
    BY <2>1 DEF Req, Reqs, NewRow, Rows
  <2>3. Begin(p, "mark", r)
    BY <1>5 DEF Read
  <2> HIDE DEF r
  <2> QED
    BY <2>2, <2>3, BeginDisturbsNothing
<1> QED
  BY <1>1, <1>2, <1>3, <1>4, <1>5 DEF Start

(* Steps that leave the rows alone, and are not p's telling of a message.   *)
LEMMA QuietStep ==
  ASSUME StoreInv, HandlersKnow, NEW p \in Procs,
         \/ Duplicate(p) \/ Open(p) \/ Collide(p) \/ Refuse(p)
         \/ MarkRead(p) \/ AlreadyRead(p) \/ Reply(p) \/ ReplyError(p)
         \/ Die(p) /\ ~At(p, "announce")
  PROVE  HandlersKnow' /\ UNCHANGED log /\ \A m \in Msgs : Undisturbed(m)
<1>0. /\ pc \in [Procs -> {"idle", "create", "open", "change", "mark", "announce",
                           "reply", "fail"}]
      /\ req \in [Procs -> Reqs]
      /\ Fit(pc[p], req[p])
      /\ \A q \in Procs : req[q] = [req[q] EXCEPT !.copy = @]
  BY DEF StoreInv, TypeOK, HandlersFit, Reqs
<1> DEFINE Goal == HandlersKnow' /\ UNCHANGED log /\ \A m \in Msgs : Undisturbed(m)
<1>1. CASE Duplicate(p)
  <2>1. /\ UNCHANGED <<log, row>> /\ pc[p] = "create" /\ req[p].kind = "send"
        /\ pc' = [pc EXCEPT ![p] = "reply"]
        /\ req' = [req EXCEPT ![p].copy = row[req[p].msg]]
    BY <1>0, <1>1 DEF Duplicate, At, Fit, Proceed, storeVars
  <2>2. /\ \A q \in Procs : q # p => pc'[q] = pc[q] /\ req'[q] = req[q]
        /\ pc'[p] = "reply" /\ req'[p].kind = "send" /\ req'[p].msg = req[p].msg
        /\ req'[p].copy = row[req[p].msg]
    BY <1>0, <2>1 DEF Reqs
  <2> QED
    BY <2>1, <2>2 DEF Undisturbed, Telling, Acknowledging, At, HandlersKnow, KnowsWhat
<1>2. CASE Open(p)
  <2>1. /\ UNCHANGED <<log, row>> /\ pc[p] = "open"
        /\ pc' = [pc EXCEPT ![p] = "change"]
        /\ \A q \in Procs : q # p => req'[q] = req[q]
    BY <1>0, <1>2 DEF Open, At, Proceed, storeVars
  <2> QED
    BY <1>0, <2>1 DEF Undisturbed, Telling, Acknowledging, At, HandlersKnow, KnowsWhat
<1>3. CASE Collide(p) \/ Refuse(p)
  <2>1. /\ UNCHANGED <<log, row, req>> /\ pc[p] \in {"create", "open", "change"}
        /\ pc' = [pc EXCEPT ![p] = "fail"]
    BY <1>3 DEF Collide, Refuse, At, storeVars
  <2> QED
    BY <1>0, <2>1 DEF Undisturbed, Telling, Acknowledging, At, HandlersKnow, KnowsWhat
<1>4. CASE MarkRead(p)
  <2>1. /\ UNCHANGED <<log, row, req>> /\ pc[p] = "mark"
        /\ pc' = [pc EXCEPT ![p] = "announce"]
        /\ req[p].msg \notin Msgs /\ req[p].kind = "read"
    BY <1>0, <1>4 DEF MarkRead, At, HandlersKnow, KnowsWhat, Fit
  <2> QED
    BY <1>0, <2>1 DEF Undisturbed, Telling, Acknowledging, At, HandlersKnow, KnowsWhat
<1>5. CASE AlreadyRead(p) \/ Reply(p) \/ ReplyError(p) \/ (Die(p) /\ ~At(p, "announce"))
  <2>1. /\ UNCHANGED <<log, row>> /\ pc[p] # "announce"
        /\ pc' = [pc EXCEPT ![p] = "idle"]
        /\ \A q \in Procs : q # p => req'[q] = req[q]
    BY <1>0, <1>5 DEF AlreadyRead, Reply, ReplyError, Die, Finish, At, storeVars
  <2> QED
    BY <1>0, <2>1 DEF Undisturbed, Telling, Acknowledging, At, HandlersKnow, KnowsWhat
<1> QED
  BY <1>1, <1>2, <1>3, <1>4, <1>5

(* Telling of a message, or dying before it, disturbs that message alone.   *)
LEMMA TellingStep ==
  ASSUME StoreInv, HandlersKnow, NEW p \in Procs, At(p, "announce"), Announce(p) \/ Die(p)
  PROVE  /\ HandlersKnow' /\ UNCHANGED <<log, row>>
         /\ \A m \in Msgs \ {req[p].msg} : Undisturbed(m)
         /\ \A m : \A q \in Procs : Telling(q, m)' => q # p /\ Telling(q, m) /\ req'[q] = req[q]
         /\ \A m : \A q \in Procs \ {p} : Telling(q, m) => Telling(q, m)' /\ req'[q] = req[q]
<1>0. /\ pc \in [Procs -> {"idle", "create", "open", "change", "mark", "announce",
                           "reply", "fail"}]
      /\ req \in [Procs -> Reqs]
  BY DEF StoreInv, TypeOK
<1>1. /\ UNCHANGED <<log, row>>
      /\ \A q \in Procs : q # p => pc'[q] = pc[q] /\ req'[q] = req[q]
      /\ pc[p] = "announce" /\ pc'[p] # "announce" /\ pc'[p] # "mark"
      /\ pc'[p] = "reply" => req'[p].kind = "send" /\ req'[p].msg = req[p].msg
  <2>1. CASE Finish(p)
    BY <1>0, <2>1 DEF Finish, storeVars, At
  <2>2. CASE req[p].kind = "send" /\ Proceed(p, "reply", req[p].copy) /\ UNCHANGED storeVars
    BY <1>0, <2>2 DEF Proceed, Reqs, storeVars, At
  <2> QED
    BY <2>1, <2>2 DEF Announce, Die
<1>2. HandlersKnow'
  BY <1>1 DEF HandlersKnow, KnowsWhat, At
<1>3. \A m \in Msgs \ {req[p].msg} : Undisturbed(m)
  BY <1>1 DEF Undisturbed, Telling, Acknowledging, At
<1>4. /\ \A m : \A q \in Procs : Telling(q, m)' => q # p /\ Telling(q, m) /\ req'[q] = req[q]
      /\ \A m : \A q \in Procs \ {p} : Telling(q, m) => Telling(q, m)' /\ req'[q] = req[q]
  BY <1>1 DEF Telling, At
<1> QED
  BY <1>1, <1>2, <1>3, <1>4

LEMMA WritingStep ==
  ASSUME StoreInv, HandlersKnow, NEW p \in Procs, Change(p)
  PROVE  /\ HandlersKnow' /\ UNCHANGED log
         /\ \A m \in Msgs \ {req[p].msg} : Undisturbed(m)
         /\ \A q \in Procs : q # p => pc'[q] = pc[q] /\ req'[q] = req[q]
         /\ row' = [row EXCEPT ![req[p].msg] = Changed(req[p])]
         /\ req'[p] = [req[p] EXCEPT !.copy = ReadBack(req[p])]
         /\ ~At(p, "announce") /\ At(p, "announce")'
         /\ req[p].kind \in {"edit", "delete", "react"} /\ req[p].msg \in Msgs
<1>0. /\ pc \in [Procs -> {"idle", "create", "open", "change", "mark", "announce",
                           "reply", "fail"}]
      /\ req \in [Procs -> Reqs] /\ row \in [Msgs -> Rows]
      /\ Fit(pc[p], req[p]) /\ Stored \subseteq Msgs
  BY StoredAreMsgs DEF StoreInv, TypeOK, HandlersFit
<1> DEFINE m == req[p].msg
<1>1. /\ UNCHANGED log /\ row' = [row EXCEPT ![m] = Changed(req[p])]
      /\ \A q \in Procs : q # p => pc'[q] = pc[q] /\ req'[q] = req[q]
      /\ pc[p] = "change" /\ pc'[p] = "announce"
      /\ req'[p] = [req[p] EXCEPT !.copy = ReadBack(req[p])]
      /\ req[p].kind \in {"edit", "delete", "react"} /\ m \in Msgs
  BY <1>0 DEF Change, At, Fit, Proceed
<1>2. req'[p].kind = req[p].kind /\ req'[p].msg = m
  BY <1>0, <1>1 DEF Reqs
<1>3. \A n \in Msgs \ {m} : Undisturbed(n)
  BY <1>0, <1>1, <1>2 DEF Undisturbed, Telling, Acknowledging, At
<1>4. \A n : row[n].deleted /\ n \in Msgs => row'[n].deleted
  <2>1. row[m].deleted => Changed(req[p]).deleted
    BY <1>0, <1>1 DEF Changed, Rows
  <2> QED
    BY <1>0, <1>1, <2>1
<1>5. HandlersKnow'
  <2>1. \A q \in Procs : At(q, "reply") => req[q].msg \in Msgs
    BY <1>0 DEF StoreInv, HandlersFit, Fit, At
  <2>2. ASSUME NEW q \in Procs PROVE KnowsWhat(q)'
    <3>1. CASE q = p
      BY <1>1, <1>2, <3>1 DEF KnowsWhat, At
    <3>2. CASE q # p
      <4>1. pc'[q] = pc[q] /\ req'[q] = req[q] /\ KnowsWhat(q)
            /\ (pc[q] = "reply" => req[q].msg \in Msgs)
        BY <1>1, <2>1, <3>2 DEF HandlersKnow, At
      <4> QED
        BY <1>4, <4>1 DEF KnowsWhat, At
    <3> QED
      BY <3>1, <3>2
  <2>3. ASSUME NEW q \in Procs, NEW o \in Procs,
               At(q, "announce")', At(o, "announce")',
               req'[q].kind = "send", req'[o].kind = "send", req'[q].msg = req'[o].msg
        PROVE  q = o
    <3>1. q # p /\ o # p
      BY <1>1, <1>2, <2>3
    <3>2. /\ pc[q] = "announce" /\ pc[o] = "announce" /\ req[q].kind = "send"
          /\ req[o].kind = "send" /\ req[q].msg = req[o].msg
      BY <1>1, <2>3, <3>1 DEF At
    <3> QED
      BY <3>2 DEF HandlersKnow, At
  <2> QED
    BY <2>2, <2>3 DEF HandlersKnow
<1> QED
  BY <1>1, <1>3, <1>5 DEF At

LEMMA CreatingStep ==
  ASSUME StoreInv, HandlersKnow, NEW p \in Procs, Create(p), NEW m, m = req[p].msg
  PROVE  /\ HandlersKnow' /\ log' = Append(log, m) /\ Stored' = Stored \cup {m}
         /\ m \in Msgs \ Stored /\ \A n \in Msgs \ {m} : Undisturbed(n)
         /\ Fresh(m)'
<1>0. /\ pc \in [Procs -> {"idle", "create", "open", "change", "mark", "announce",
                           "reply", "fail"}]
      /\ req \in [Procs -> Reqs] /\ row \in [Msgs -> Rows]
      /\ \A q \in Procs : Fit(pc[q], req[q])
  BY DEF StoreInv, TypeOK, HandlersFit
<1>1. /\ log' = Append(log, m) /\ row' = [row EXCEPT ![m] = NewRow]
      /\ \A q \in Procs : q # p => pc'[q] = pc[q] /\ req'[q] = req[q]
      /\ pc[p] = "create" /\ pc'[p] = "announce"
      /\ req'[p] = [req[p] EXCEPT !.copy = NewRow]
      /\ req[p].kind = "send" /\ m \in Msgs \ Stored
  BY <1>0 DEF Create, At, Fit, Proceed
<1>2. req'[p].kind = "send" /\ req'[p].msg = m /\ req'[p].copy = NewRow
  BY <1>0, <1>1 DEF Reqs
<1>3. \A q \in Procs : /\ pc[q] = "reply" => req[q].msg # m
                       /\ pc[q] = "announce" /\ req[q].kind # "read" => req[q].msg # m
                       /\ pc[q] = "announce" => req[q].msg # m
  BY <1>0, <1>1 DEF Fit, HandlersKnow, KnowsWhat, At
<1>4. \A n \in Msgs \ {m} : Undisturbed(n)
  BY <1>0, <1>1, <1>2 DEF Undisturbed, Telling, Acknowledging, At
<1>5. Fresh(m)'
  <2>1. Telling(p, m)' /\ row'[m] = NewRow
    BY <1>0, <1>1, <1>2 DEF Telling, At
  <2>2. \A q \in Procs : Telling(q, m)' => req'[q].kind = "send" /\ req'[q].copy = NewRow
    BY <1>1, <1>2, <1>3 DEF Telling, At
  <2>3. \A q \in Procs : ~Acknowledging(q, m)'
    BY <1>1, <1>3 DEF Acknowledging, At
  <2> QED
    BY <2>1, <2>2, <2>3 DEF Fresh, NewRow
<1>6. HandlersKnow'
  <2>1. ASSUME NEW q \in Procs PROVE KnowsWhat(q)'
    <3>1. CASE q = p
      BY <1>1, <1>2, <3>1 DEF KnowsWhat, At
    <3>2. CASE q # p
      <4>1. pc'[q] = pc[q] /\ req'[q] = req[q] /\ KnowsWhat(q)
            /\ (pc[q] = "reply" => row'[req[q].msg] = row[req[q].msg])
        BY <1>0, <1>1, <1>3, <3>2 DEF HandlersKnow
      <4> QED
        BY <4>1 DEF KnowsWhat, At
    <3> QED
      BY <3>1, <3>2
  <2>2. ASSUME NEW q \in Procs, NEW o \in Procs,
               At(q, "announce")', At(o, "announce")',
               req'[q].kind = "send", req'[o].kind = "send", req'[q].msg = req'[o].msg
        PROVE  q = o
    <3>1. q # p /\ o # p =>
            /\ pc[q] = "announce" /\ pc[o] = "announce" /\ req[q].kind = "send"
            /\ req[o].kind = "send" /\ req[q].msg = req[o].msg
      BY <1>1, <2>2 DEF At
    <3>2. q # p => req'[q].msg # m
      BY <1>1, <1>3, <2>2 DEF At
    <3>3. o # p => req'[o].msg # m
      BY <1>1, <1>3, <2>2 DEF At
    <3> QED
      BY <1>2, <2>2, <3>1, <3>2, <3>3 DEF HandlersKnow, At
  <2> QED
    BY <2>1, <2>2 DEF HandlersKnow
<1>7. Stored' = Stored \cup {m}
  BY <1>1, CreateKeeps DEF Create
<1> QED
  BY <1>1, <1>4, <1>5, <1>6, <1>7

(* A message newly stored is shown nowhere, and fresh. *)
LEMMA CreatedContent ==
  ASSUME StoreInv, HandlersKnow, NEW p \in Procs, Create(p),
         NEW x \in Held, ContentTrue(x)
  PROVE  ContentTrue(x)'
<1>0. PICK m : m = req[p].msg
  OBVIOUS
<1>1. /\ log' = Append(log, m) /\ Stored' = Stored \cup {m}
      /\ m \in Msgs \ Stored /\ \A n \in Msgs \ {m} : Undisturbed(n)
      /\ Fresh(m)' /\ log \in Seq(Msgs) /\ Stored \subseteq Msgs
  BY <1>0, CreatingStep, StoredAreMsgs DEF StoreInv, TypeOK
<1>2. ToSet(x.items) \subseteq Stored
  <2>1. x.items \in Seq(Stored)
    BY DEF Held
  <2> QED
    BY <2>1, LenProperties, ElementOfSeq DEF ToSet
<1>3. \A n \in ToSet(x.items) \ x.doubt : ShownTrue(x.rows[n], n)'
  BY <1>1, <1>2, UndisturbedShown DEF ContentTrue
<1>4. ASSUME x.pages > 0, NEW n \in Stored' \ (ToSet(x.items) \cup x.doubt)
      PROVE  Late(x, n)' \/ Fresh(n)'
  <2>1. CASE n = m
    BY <1>1, <2>1
  <2>2. CASE n # m
    <3>1. n \in Stored /\ n \in Msgs /\ Undisturbed(n) /\ (Late(x, n) \/ Fresh(n))
      BY <1>1, <1>4, <2>2 DEF ContentTrue
    <3>2. Late(x, n) => Late(x, n)'
      <4>1. /\ Len(log') = Len(log) + 1 /\ Len(log) \in Nat
            /\ \A i \in 1 .. Len(log) : log'[i] = log[i]
        BY <1>1
      <4> QED
        BY <4>1 DEF Late
    <3> QED
      BY <3>1, <3>2, UndisturbedFresh
  <2> QED
    BY <2>1, <2>2
<1> QED
  BY <1>3, <1>4 DEF ContentTrue

(* What a handler has written and read back is what its event makes of a    *)
(* copy that was right before, by the answer as by the event.               *)
LEMMA ChangeIsPatch ==
  ASSUME NEW r \in Reqs, r.kind \in {"edit", "delete", "react"},
         row[r.msg] \in Rows, r.kind # "delete" => r.copy = row[r.msg],
         NEW old \in Rows, SameContent(old, row[r.msg]), NEW a \in BOOLEAN
  PROVE  SameContent(PatchOf(old, [r EXCEPT !.copy = ReadBack(r)], a), Changed(r))
<1> DEFINE s == [r EXCEPT !.copy = ReadBack(r)]
<1>1. s.kind = r.kind /\ s.copy = ReadBack(r) /\ r.body \in Bodies
  BY DEF Reqs
<1> SUFFICES SameContent(PatchOf(old, s, a), Changed(r))
  OBVIOUS
<1> HIDE DEF s
<1>2. CASE r.kind = "edit"
  BY <1>1, <1>2 DEF PatchOf, ReadBack, Changed, SameContent, Rows
<1>3. CASE r.kind = "delete"
  BY <1>1, <1>3 DEF PatchOf, ReadBack, Changed, SameContent, Rows
<1>4. CASE r.kind = "react"
  BY <1>1, <1>4 DEF PatchOf, ReadBack, Changed, SameContent, Rows, Toggled
<1> QED
  BY <1>2, <1>3, <1>4

LEMMA ChangedContent ==
  ASSUME StoreInv, HandlersKnow, NEW p \in Procs, Change(p), ~Crosses(p),
         NEW x \in Held, ContentTrue(x)
  PROVE  ContentTrue(x)'
<1>0. PICK r, m : r = req[p] /\ m = r.msg
  OBVIOUS
<1>1. /\ UNCHANGED log /\ \A n \in Msgs \ {m} : Undisturbed(n)
      /\ \A q \in Procs : q # p => pc'[q] = pc[q] /\ req'[q] = req[q]
      /\ row' = [row EXCEPT ![m] = Changed(r)]
      /\ req'[p] = [r EXCEPT !.copy = ReadBack(r)]
      /\ ~At(p, "announce") /\ At(p, "announce")'
      /\ r.kind \in {"edit", "delete", "react"} /\ m \in Msgs
  BY <1>0, WritingStep
<1>2. r \in Reqs /\ row \in [Msgs -> Rows] /\ Stored \subseteq Msgs /\ Stored' = Stored
  BY <1>0, <1>1, StoredAreMsgs DEF StoreInv, TypeOK, Stored
<1>3. ~Untold(m) /\ (r.kind # "delete" => r.copy = row[m])
  BY <1>0 DEF Crosses
<1>4. \A q \in Procs : Telling(q, m)' => q = p
  BY <1>1, <1>3 DEF Untold, Telling, At
<1>5. ASSUME NEW n \in ToSet(x.items) \ x.doubt PROVE ShownTrue(x.rows[n], n)'
  <2>1. n \in Msgs /\ x.rows[n] \in Rows /\ ShownTrue(x.rows[n], n)
    BY DEF Held, Copies, ToSet, ContentTrue
  <2>2. CASE n = m
    <3> DEFINE old == x.rows[m]
    <3>1. old \in Rows /\ SameContent(old, row[m]) /\ row[m] \in Rows
      BY <1>1, <1>2, <1>3, <2>1, <2>2 DEF ShownTrue
    <3>2. \A a \in BOOLEAN :
            SameContent(PatchOf(old, [r EXCEPT !.copy = ReadBack(r)], a), Changed(r))
      BY <1>0, <1>1, <1>2, <1>3, <3>1, ChangeIsPatch
    <3>3. row'[m] = Changed(r)
      BY <1>1, <1>2
    <3>4. \A a \in BOOLEAN : SameContent(PatchOf(old, req'[p], a), row'[m])
      BY <1>1, <3>2, <3>3
    <3>5. ToldRight(old, p, m)'
      BY <1>4, <3>4 DEF ToldRight, SameContent, PatchOf
    <3>6. Untold(m)'
      <4>1. req'[p].msg = m
        BY <1>0, <1>1, <1>2 DEF Reqs
      <4> QED
        BY <1>1, <4>1 DEF Untold
    <3> QED
      BY <1>4, <2>2, <3>5, <3>6 DEF ShownTrue
  <2>3. CASE n # m
    BY <1>1, <2>1, <2>3, UndisturbedShown
  <2> QED
    BY <2>2, <2>3
<1>6. ASSUME x.pages > 0, NEW n \in Stored' \ (ToSet(x.items) \cup x.doubt)
      PROVE  Late(x, n)' \/ Fresh(n)'
  <2>1. n \in Msgs /\ (Late(x, n) \/ Fresh(n))
    BY <1>2, <1>6 DEF ContentTrue
  <2>2. Late(x, n) => Late(x, n)'
    BY <1>1 DEF Late
  <2>3. CASE n = m
    BY <1>3, <2>1, <2>2, <2>3, UntoldIsTelling DEF Fresh
  <2>4. CASE n # m
    BY <1>1, <2>1, <2>2, <2>4, UndisturbedFresh
  <2> QED
    BY <2>3, <2>4
<1> QED
  BY <1>5, <1>6 DEF ContentTrue

(* What c hears, when it shows the message or has to show it. *)
LEMMA PatchedIsPatchOf ==
  ASSUME NEW c, NEW r, NEW a
  PROVE  Patched(c, r, a) = PatchOf(cache[c].rows[r.msg], r, a)
BY DEF Patched, PatchOf

Heard(x, y, r, a) ==
  \/ /\ r.kind = "send" /\ x.pages > 0 /\ r.msg \notin ToSet(x.items)
     /\ y.items = <<r.msg>> \o x.items
     /\ ToSet(y.items) = ToSet(x.items) \cup {r.msg}
     /\ y.rows = [x.rows EXCEPT ![r.msg] = r.copy]
     /\ y.pages = x.pages /\ y.more = x.more
     /\ y.doubt = IF Late(x, r.msg) THEN x.doubt \cup {r.msg} ELSE x.doubt
  \/ /\ r.kind # "send" /\ r.msg \in ToSet(x.items)
     /\ y.items = x.items /\ y.pages = x.pages /\ y.doubt = x.doubt /\ y.more = x.more
     /\ y.rows = [x.rows EXCEPT ![r.msg] = PatchOf(x.rows[r.msg], r, a)]
  \/ /\ y = x
     /\ x.pages > 0 => (r.kind = "send" <=> r.msg \in ToSet(x.items))

LEMMA HeardFields ==
  ASSUME NEW c \in Clients, cache[c] \in Held, NEW r \in Reqs, r.msg \in Msgs, NEW a,
         NEW x, x = cache[c], NEW y, y = Updated(c, r, a)
  PROVE  Heard(x, y, r, a)
<1>1. /\ x \in Copies /\ x.items \in Seq(Msgs) /\ x.pages \in Nat
  BY DEF Held, Copies
<1>2. CASE r.kind = "send" /\ Appends(c, r.msg)
  <2> DEFINE doubt == IF Late(x, r.msg) THEN x.doubt \cup {r.msg} ELSE x.doubt
             items == <<r.msg>> \o x.items
  <2>1. y = [x EXCEPT !.items = items, !.rows[r.msg] = r.copy, !.doubt = doubt]
    BY <1>2 DEF Updated
  <2>2. x.pages > 0 /\ r.msg \notin ToSet(x.items)
    BY <1>2 DEF Appends, Loaded, Shows
  <2>3. ToSet(items) = ToSet(x.items) \cup {r.msg}
    <3>1. /\ Len(items) = Len(x.items) + 1 /\ Len(x.items) \in Nat
          /\ items[1] = r.msg
          /\ \A i \in 1 .. Len(x.items) : items[i + 1] = x.items[i]
      BY <1>1
    <3>2. \A i \in 2 .. Len(items) : i - 1 \in 1 .. Len(x.items) /\ items[i] = x.items[i - 1]
      BY <3>1
    <3>3. DOMAIN items = 1 .. Len(items) /\ DOMAIN x.items = 1 .. Len(x.items)
      BY <1>1
    <3> HIDE DEF items
    <3>4. \A i \in 1 .. Len(items) : i = 1 \/ i \in 2 .. Len(items)
      BY <3>1
    <3>5. \A i \in 1 .. Len(x.items) : i + 1 \in 1 .. Len(items)
      BY <3>1
    <3>6. 1 \in 1 .. Len(items)
      BY <3>1
    <3>7. \A v : v \in ToSet(items) => v \in ToSet(x.items) \cup {r.msg}
      <4>1. ASSUME NEW i \in 1 .. Len(items) PROVE items[i] \in ToSet(x.items) \cup {r.msg}
        <5>1. CASE i = 1
          BY <3>1, <5>1
        <5>2. CASE i \in 2 .. Len(items)
          BY <3>2, <3>3, <5>2 DEF ToSet
        <5> QED
          BY <3>4, <5>1, <5>2
      <4> QED
        BY <3>3, <4>1 DEF ToSet
    <3>8. \A v : v \in ToSet(x.items) \cup {r.msg} => v \in ToSet(items)
      BY <3>1, <3>3, <3>5, <3>6 DEF ToSet
    <3> QED
      BY <3>7, <3>8
  <2> HIDE DEF items, doubt
  <2>4. /\ y.items = items /\ y.doubt = doubt /\ y.pages = x.pages /\ y.more = x.more
        /\ y.rows = [x.rows EXCEPT ![r.msg] = r.copy]
    BY <1>1, <2>1 DEF Copies
  <2> QED
    BY <1>2, <2>2, <2>3, <2>4 DEF doubt, items, Heard
<1>3. CASE r.kind # "send" /\ Shows(c, r.msg)
  <2>1. y = [x EXCEPT !.rows[r.msg] = PatchOf(x.rows[r.msg], r, a)]
    BY <1>3, PatchedIsPatchOf DEF Updated
  <2> QED
    BY <1>1, <1>3, <2>1 DEF Copies, Shows, Heard
<1>4. CASE /\ ~(r.kind = "send" /\ Appends(c, r.msg))
           /\ ~(r.kind # "send" /\ Shows(c, r.msg))
  BY <1>4 DEF Updated, Appends, Loaded, Shows, Heard
<1> QED
  BY <1>2, <1>3, <1>4

(* The clients that hear the event. *)
LEMMA HeardContent ==
  ASSUME StoreInv, HandlersKnow, NEW p \in Procs, At(p, "announce"), Announce(p),
         NEW r, r = req[p], r.kind # "read",
         NEW c \in Clients, cache[c] \in Held, ContentTrue(cache[c]), NEW a \in BOOLEAN,
         NEW y, y = Updated(c, r, a)
  PROVE  ContentTrue(y)'
<1> DEFINE m == r.msg
<1>0. PICK x : x = cache[c]
  OBVIOUS
<1>1. /\ r \in Reqs /\ m \in Stored /\ m \in Msgs /\ Stored \subseteq Msgs
      /\ row \in [Msgs -> Rows] /\ Telling(p, m) /\ x \in Held
  BY <1>0, StoredAreMsgs DEF StoreInv, TypeOK, HandlersFit, Fit, At, Telling
<1>2. /\ UNCHANGED <<log, row>> /\ Stored' = Stored
      /\ \A n \in Msgs \ {m} : Undisturbed(n)
      /\ \A n : \A q \in Procs : Telling(q, n)' => q # p /\ Telling(q, n)
  BY <1>0, TellingStep DEF Stored
<1>3. /\ ContentTrue(x) /\ ToSet(x.items) \subseteq Msgs /\ x.rows \in [Msgs -> Rows]
      /\ x.pages \in Nat
  BY <1>0, <1>1 DEF Held, Copies, ToSet
(* m is told, and right, where it is shown without a doubt. *)
<1>4. ASSUME m \in ToSet(x.items) \ x.doubt
      PROVE  /\ \A q \in Procs : ~Telling(q, m)'
             /\ SameContent(PatchOf(x.rows[m], r, a), row[m])
  BY <1>0, <1>1, <1>2, <1>3, <1>4 DEF ContentTrue, ShownTrue, ToldRight
<1>5. ASSUME x.pages > 0, m \notin ToSet(x.items) \cup x.doubt, ~Late(x, m)
      PROVE  /\ r.kind = "send" /\ r.copy = row[m] /\ \A q \in Procs : ~Telling(q, m)'
  <2>1. Fresh(m)
    BY <1>1, <1>3, <1>5 DEF ContentTrue
  <2>2. r.kind = "send" /\ r.copy = row[m]
    BY <1>0, <1>1, <2>1 DEF Fresh
  <2>3. ASSUME NEW q \in Procs, Telling(q, m)' PROVE FALSE
    <3>1. q # p /\ Telling(q, m) /\ req[q].kind = "send"
      BY <1>2, <2>1, <2>3 DEF Fresh
    <3> QED
      BY <1>0, <1>1, <2>2, <3>1 DEF HandlersKnow, Telling
  <2> QED
    BY <2>2, <2>3
<1>6. ASSUME NEW shown, SameContent(shown, row[m]), \A q \in Procs : ~Telling(q, m)'
      PROVE  ShownTrue(shown, m)'
  BY <1>2, <1>6 DEF ShownTrue, SameContent
<1>7. \A n \in ToSet(x.items) \ (x.doubt \cup {m}) : ShownTrue(x.rows[n], n)'
  BY <1>2, <1>3, UndisturbedShown DEF ContentTrue
<1>8. ASSUME x.pages > 0, NEW n \in Stored \ (ToSet(x.items) \cup x.doubt \cup {m})
      PROVE  Late(x, n)' \/ Fresh(n)'
  <2>1. Late(x, n) \/ Fresh(n)
    BY <1>3, <1>8 DEF ContentTrue
  <2>2. Late(x, n) => Late(x, n)'
    BY <1>2 DEF Late
  <2> QED
    BY <1>1, <1>2, <2>1, <2>2, UndisturbedFresh
<1>9. CASE /\ r.kind = "send" /\ x.pages > 0 /\ m \notin ToSet(x.items)
           /\ ToSet(y.items) = ToSet(x.items) \cup {m}
           /\ y.rows = [x.rows EXCEPT ![m] = r.copy]
           /\ y.pages = x.pages
           /\ y.doubt = IF Late(x, m) THEN x.doubt \cup {m} ELSE x.doubt
  <2>1. ASSUME NEW n \in ToSet(y.items) \ y.doubt PROVE ShownTrue(y.rows[n], n)'
    <3>1. CASE n = m
      <4>1. ~Late(x, m) /\ m \notin x.doubt
        BY <1>9, <2>1, <3>1
      <4>2. r.copy = row[m] /\ \A q \in Procs : ~Telling(q, m)'
        BY <1>5, <1>9, <4>1
      <4>3. y.rows[m] = row[m] /\ SameContent(row[m], row[m])
        BY <1>1, <1>3, <1>9, <4>2 DEF SameContent
      <4> QED
        BY <1>6, <3>1, <4>2, <4>3
    <3>2. CASE n # m
      <4>1. n \in ToSet(x.items) \ (x.doubt \cup {m}) /\ y.rows[n] = x.rows[n]
        BY <1>3, <1>9, <2>1, <3>2
      <4> QED
        BY <1>7, <4>1
    <3> QED
      BY <3>1, <3>2
  <2>2. ASSUME NEW n \in Stored' \ (ToSet(y.items) \cup y.doubt)
        PROVE  Late(y, n)' \/ Fresh(n)'
    <3>1. n \in Stored \ (ToSet(x.items) \cup x.doubt \cup {m})
      BY <1>2, <1>9, <2>2
    <3>2. Late(x, n)' => Late(y, n)'
      BY <1>9 DEF Late
    <3> QED
      BY <1>8, <1>9, <3>1, <3>2
  <2>3. y.pages = 0 => y.items = <<>>
    BY <1>3, <1>9
  <2> QED
    BY <2>1, <2>2, <2>3 DEF ContentTrue
<1>10. CASE /\ r.kind # "send" /\ m \in ToSet(x.items)
            /\ y.items = x.items /\ y.pages = x.pages /\ y.doubt = x.doubt
            /\ y.rows = [x.rows EXCEPT ![m] = PatchOf(x.rows[m], r, a)]
  <2>1. ASSUME NEW n \in ToSet(y.items) \ y.doubt PROVE ShownTrue(y.rows[n], n)'
    <3>1. CASE n = m
      <4>1. y.rows[m] = PatchOf(x.rows[m], r, a)
        BY <1>1, <1>3, <1>10
      <4> QED
        BY <1>4, <1>6, <1>10, <2>1, <3>1, <4>1
    <3>2. CASE n # m
      <4>1. n \in ToSet(x.items) \ (x.doubt \cup {m}) /\ y.rows[n] = x.rows[n]
        BY <1>3, <1>10, <2>1, <3>2
      <4> QED
        BY <1>7, <4>1
    <3> QED
      BY <3>1, <3>2
  <2>2. ASSUME y.pages > 0, NEW n \in Stored' \ (ToSet(y.items) \cup y.doubt)
        PROVE  Late(y, n)' \/ Fresh(n)'
    <3>1. n \in Stored \ (ToSet(x.items) \cup x.doubt \cup {m})
      BY <1>2, <1>10, <2>2
    <3>2. Late(x, n)' => Late(y, n)'
      BY <1>10 DEF Late
    <3> QED
      BY <1>8, <1>10, <2>2, <3>1, <3>2
  <2>3. y.pages = 0 => y.items = <<>>
    BY <1>3, <1>10 DEF ContentTrue
  <2> QED
    BY <2>1, <2>2, <2>3 DEF ContentTrue
<1>11. CASE y = x /\ (x.pages > 0 => (r.kind = "send" <=> m \in ToSet(x.items)))
  <2>0. x.pages = 0 => x.items = <<>>
    BY <1>3 DEF ContentTrue
  <2>1. ASSUME NEW n \in ToSet(x.items) \ x.doubt PROVE ShownTrue(x.rows[n], n)'
    <3>1. CASE n = m
      <4>1. x.pages > 0
        BY <1>3, <2>0, <2>1 DEF ToSet
      <4>2. r.kind = "send"
        BY <1>11, <2>1, <3>1, <4>1
      <4>3. PatchOf(x.rows[m], r, a) = x.rows[m]
        BY <4>2 DEF PatchOf
      <4> QED
        BY <1>4, <1>6, <2>1, <3>1, <4>3
    <3>2. CASE n # m
      BY <1>7, <2>1, <3>2
    <3> QED
      BY <3>1, <3>2
  <2>2. ASSUME x.pages > 0, NEW n \in Stored' \ (ToSet(x.items) \cup x.doubt)
        PROVE  Late(x, n)' \/ Fresh(n)'
    <3>1. CASE n = m
      <4>1. r.kind # "send"
        BY <1>11, <2>2, <3>1
      <4>2. Late(x, m)
        BY <1>5, <2>2, <3>1, <4>1
      <4> QED
        BY <1>2, <3>1, <4>2 DEF Late
    <3>2. CASE n # m
      BY <1>2, <1>8, <2>2, <3>2
    <3> QED
      BY <3>1, <3>2
  <2> QED
    BY <1>11, <2>0, <2>1, <2>2 DEF ContentTrue
<1>12. Heard(x, y, r, a)
  BY <1>0, <1>1, HeardFields
<1> QED
  BY <1>9, <1>10, <1>11, <1>12 DEF Heard

LEMMA PatchOfDeleted ==
  ASSUME NEW old \in Rows, NEW new, new = [old EXCEPT !.deleted = TRUE],
         NEW stored \in Rows, stored.deleted, NEW r, r.copy \in Rows, NEW a \in BOOLEAN,
         SameContent(PatchOf(old, r, a), stored)
  PROVE  SameContent(PatchOf(new, r, a), stored)
<1>1. CASE a /\ r.kind \in {"edit", "react"}
  BY <1>1 DEF PatchOf
<1>2. CASE ~a /\ r.kind = "edit"
  BY <1>2 DEF PatchOf, SameContent, Rows
<1>3. CASE r.kind = "delete"
  BY <1>3 DEF PatchOf, SameContent, Rows
<1>4. CASE ~a /\ r.kind = "react"
  BY <1>4 DEF PatchOf, SameContent, Rows
<1>5. CASE r.kind \notin {"edit", "delete", "react"}
  BY <1>5 DEF PatchOf, SameContent, Rows
<1> QED
  BY <1>1, <1>2, <1>3, <1>4, <1>5

(* The client that hears the acknowledgement, be it of an attempt repeated  *)
(* before the message was announced.                                        *)
LEMMA AcknowledgedContent ==
  ASSUME StoreInv, HandlersKnow, NEW p \in Procs, At(p, "reply"), NEW r, r = req[p],
         NEW c \in Clients, cache \in [Clients -> Held], ContentTrue(cache[c]),
         NEW y, y = Updated(c, r, TRUE)
  PROVE  ContentTrue(y) /\ y \in Held
<1> DEFINE m == r.msg
<1>0. PICK x : x = cache[c]
  OBVIOUS
<1>1. /\ r \in Reqs /\ m \in Stored /\ m \in Msgs /\ row \in [Msgs -> Rows] /\ x \in Held
      /\ r.kind = "send" \/ (r.kind = "delete" /\ row[m].deleted)
      /\ r.kind = "send" => Acknowledging(p, m)
  BY <1>0, StoredAreMsgs
  DEF StoreInv, TypeOK, HandlersFit, Fit, At, Acknowledging, HandlersKnow, KnowsWhat
<1>2. /\ ContentTrue(x) /\ ToSet(x.items) \subseteq Msgs /\ x.rows \in [Msgs -> Rows]
      /\ x.pages \in Nat
  BY <1>0, <1>1 DEF Held, Copies, ToSet
<1>s. SUFFICES ContentTrue(y)
  BY <1>1, UpdatedIsHeld
<1>3. CASE /\ r.kind = "send" /\ x.pages > 0 /\ m \notin ToSet(x.items)
           /\ ToSet(y.items) = ToSet(x.items) \cup {m}
           /\ y.rows = [x.rows EXCEPT ![m] = r.copy]
           /\ y.pages = x.pages
           /\ y.doubt = IF Late(x, m) THEN x.doubt \cup {m} ELSE x.doubt
  <2>1. ASSUME NEW n \in ToSet(y.items) \ y.doubt PROVE ShownTrue(y.rows[n], n)
    <3>1. CASE n = m
      <4>1. ~Late(x, m) /\ m \notin x.doubt
        BY <1>3, <2>1, <3>1
      <4>2. Fresh(m)
        BY <1>1, <1>2, <1>3, <4>1 DEF ContentTrue
      <4>3. r.copy = NewRow /\ y.rows[m] = NewRow /\ row[m] = NewRow
        BY <1>0, <1>1, <1>2, <1>3, <4>2 DEF Fresh
      <4>4. ASSUME NEW q \in Procs, Telling(q, m) PROVE ToldRight(NewRow, q, m)
        <5>1. req[q].kind = "send" /\ \A o \in Procs : Telling(o, m) => req[o].kind = "send"
          BY <4>2, <4>4 DEF Fresh
        <5>2. \A o \in Procs : Telling(o, m) => o = q
          BY <4>4, <5>1 DEF HandlersKnow, Telling
        <5>3. \A a \in BOOLEAN : PatchOf(NewRow, req[q], a) = NewRow
          BY <5>1 DEF PatchOf
        <5> QED
          BY <4>3, <5>2, <5>3 DEF ToldRight, SameContent
      <4> QED
        BY <3>1, <4>3, <4>4 DEF ShownTrue, SameContent
    <3>2. CASE n # m
      <4>1. n \in ToSet(x.items) \ x.doubt /\ y.rows[n] = x.rows[n]
        BY <1>2, <1>3, <2>1, <3>2
      <4> QED
        BY <1>2, <4>1 DEF ContentTrue
    <3> QED
      BY <3>1, <3>2
  <2>2. ASSUME NEW n \in Stored \ (ToSet(y.items) \cup y.doubt)
        PROVE  Late(y, n) \/ Fresh(n)
    <3>1. n \in Stored \ (ToSet(x.items) \cup x.doubt)
      BY <1>3, <2>2
    <3>2. Late(x, n) => Late(y, n)
      BY <1>3 DEF Late
    <3> QED
      BY <1>2, <1>3, <3>1, <3>2 DEF ContentTrue
  <2>3. y.pages = 0 => y.items = <<>>
    BY <1>2, <1>3
  <2> QED
    BY <2>1, <2>2, <2>3 DEF ContentTrue
<1>4. CASE /\ r.kind # "send" /\ m \in ToSet(x.items)
           /\ y.items = x.items /\ y.pages = x.pages /\ y.doubt = x.doubt
           /\ y.rows = [x.rows EXCEPT ![m] = PatchOf(x.rows[m], r, TRUE)]
  <2>1. /\ r.kind = "delete" /\ row[m].deleted
        /\ x.rows[m] \in Rows /\ row[m] \in Rows
        /\ y.rows[m] = [x.rows[m] EXCEPT !.deleted = TRUE]
    BY <1>1, <1>2, <1>4 DEF PatchOf
  <2>2. ASSUME m \notin x.doubt PROVE ShownTrue(y.rows[m], m)
    <3>1. ShownTrue(x.rows[m], m)
      BY <1>2, <1>4, <2>2 DEF ContentTrue
    <3>2. ~Untold(m) => SameContent(y.rows[m], row[m])
      BY <2>1, <3>1 DEF ShownTrue, SameContent, Rows
    <3>3. ASSUME NEW q \in Procs, Telling(q, m) PROVE ToldRight(y.rows[m], q, m)
      <4>1. ToldRight(x.rows[m], q, m)
        BY <3>1, <3>3 DEF ShownTrue
      <4>2. req[q].copy \in Rows
        BY DEF StoreInv, TypeOK, Reqs
      <4>3. ASSUME NEW a \in BOOLEAN
            PROVE  SameContent(PatchOf(y.rows[m], req[q], a), row[m])
        <5>1. PICK old, new, stored, told :
                /\ old = x.rows[m] /\ new = y.rows[m] /\ stored = row[m] /\ told = req[q]
          OBVIOUS
        <5>2. /\ old \in Rows /\ new = [old EXCEPT !.deleted = TRUE]
              /\ stored \in Rows /\ stored.deleted /\ told.copy \in Rows
          BY <2>1, <4>2, <5>1
        <5>3. SameContent(PatchOf(old, told, a), stored)
          BY <4>1, <5>1 DEF ToldRight
        <5>4. SameContent(PatchOf(new, told, a), stored)
          BY <5>2, <5>3, PatchOfDeleted
        <5> QED
          BY <5>1, <5>4
      <4> QED
        BY <4>1, <4>3 DEF ToldRight
    <3> QED
      BY <3>2, <3>3 DEF ShownTrue
  <2>3. \A n \in ToSet(y.items) \ y.doubt : ShownTrue(y.rows[n], n)
    BY <1>2, <1>4, <2>2 DEF ContentTrue
  <2>4. ASSUME y.pages > 0, NEW n \in Stored \ (ToSet(y.items) \cup y.doubt)
        PROVE  Late(y, n) \/ Fresh(n)
    <3>1. Late(x, n) \/ Fresh(n)
      BY <1>2, <1>4, <2>4 DEF ContentTrue
    <3> QED
      BY <1>4, <3>1 DEF Late
  <2>5. y.pages = 0 => y.items = <<>>
    BY <1>2, <1>4 DEF ContentTrue
  <2> QED
    BY <2>3, <2>4, <2>5 DEF ContentTrue
<1>5. Heard(x, y, r, TRUE)
  BY <1>0, <1>1, HeardFields
<1> QED
  BY <1>2, <1>3, <1>4, <1>5 DEF Heard

(* A page read, and what the request holds with it. *)
Answered(x, y, page) ==
  /\ x \in Held /\ x.pages \in Nat /\ page \in Seq(Msgs)
  /\ ToSet(x.items) \subseteq Msgs /\ ToSet(page) \subseteq Stored
  /\ x.pages = 0 /\ x.items = <<>> /\ Len(log) > 0 => log[Len(log)] \in ToSet(page)
  /\ y.items = x.items \o page /\ ToSet(y.items) = ToSet(x.items) \cup ToSet(page)
  /\ y.rows = [m \in Msgs |-> IF m \in ToSet(page) THEN row[m] ELSE x.rows[m]]
  /\ y.pages = x.pages + 1
  /\ y.doubt = (x.doubt \ (ToSet(page) \ ToSet(x.items)))
                 \cup {m \in ToSet(page) : Untold(m)}
  /\ y.more = (page # <<>> /\ Last(page) # Head(log))

LEMMA AnswerFields ==
  ASSUME StoreInv, CachesTyped, NEW c \in Clients, Answer(c),
         NEW x, x = reply[c], NEW y, y = reply'[c], NEW page, page = NextPage(x)
  PROVE  Answered(x, y, page)
<1>1. /\ x \in Held /\ x.items \in Seq(Msgs) /\ x.pages \in Nat /\ x.doubt \subseteq Msgs
      /\ log \in Seq(Msgs) /\ Len(log) \in Nat /\ Stored \subseteq Msgs
      /\ reply \in [Clients -> Held]
  BY StoredAreMsgs DEF CachesTyped, Held, Copies, StoreInv, TypeOK
<1>2. page \in Seq(Stored) /\ page \in Seq(Msgs) /\ ToSet(page) \subseteq Stored
  <2>1. page \in Seq(Stored)
    BY <1>1, PageIsStored
  <2>2. /\ Len(page) \in Nat /\ page = [i \in 1 .. Len(page) |-> page[i]]
        /\ \A i \in 1 .. Len(page) : page[i] \in Stored /\ page[i] \in Msgs
    BY <1>1, <2>1, LenProperties, ElementOfSeq
  <2> QED
    BY <2>1, <2>2 DEF ToSet
<1>3. x.pages = 0 /\ x.items = <<>> /\ Len(log) > 0 => log[Len(log)] \in ToSet(page)
  <2> SUFFICES ASSUME x.items = <<>>, Len(log) > 0 PROVE log[Len(log)] \in ToSet(page)
    OBVIOUS
  <2> DEFINE size == IF Len(log) > PageSize THEN PageSize ELSE Len(log)
  <2>2. page = [i \in 1 .. size |-> log[Len(log) + 1 - i]]
    BY DEF NextPage
  <2>3. 1 \in 1 .. size /\ Len(log) + 1 - 1 = Len(log)
    BY <1>1, PageSizeAssumption
  <2> HIDE DEF size
  <2>4. 1 \in DOMAIN page /\ page[1] = log[Len(log)]
    BY <2>2, <2>3
  <2> QED
    BY <2>4 DEF ToSet
<1>4. /\ y.items = x.items \o page
      /\ y.rows = [m \in Msgs |-> IF m \in ToSet(page) THEN row[m] ELSE x.rows[m]]
      /\ y.pages = x.pages + 1
      /\ y.doubt = (x.doubt \ (ToSet(page) \ ToSet(x.items)))
                     \cup {m \in ToSet(page) : Untold(m)}
      /\ y.more = (page # <<>> /\ Last(page) # Head(log))
  BY <1>1 DEF Answer
<1>5. ToSet(y.items) = ToSet(x.items) \cup ToSet(page)
  <2> DEFINE s == x.items
             n == Len(s)
             t == s \o page
  <2>1. /\ n \in Nat /\ Len(page) \in Nat /\ Len(t) = n + Len(page)
        /\ DOMAIN s = 1 .. n /\ DOMAIN page = 1 .. Len(page) /\ DOMAIN t = 1 .. Len(t)
        /\ \A i \in 1 .. n : t[i] = s[i]
        /\ \A i \in 1 .. Len(page) : t[n + i] = page[i]
    BY <1>1, <1>2
  <2> HIDE DEF s, n, t
  <2>2. ASSUME NEW i \in 1 .. Len(t) PROVE t[i] \in ToSet(s) \cup ToSet(page)
    <3>1. CASE i \in 1 .. n
      BY <2>1, <3>1 DEF ToSet
    <3>2. CASE i - n \in 1 .. Len(page)
      <4>1. t[i] = page[i - n]
        BY <2>1, <3>2
      <4> QED
        BY <2>1, <3>2, <4>1 DEF ToSet
    <3>3. i \in 1 .. n \/ i - n \in 1 .. Len(page)
      BY <2>1
    <3> QED
      BY <3>1, <3>2, <3>3
  <2>3. ASSUME NEW i \in 1 .. n PROVE s[i] \in ToSet(t)
    <3>1. i \in DOMAIN t /\ t[i] = s[i]
      BY <2>1
    <3> QED
      BY <3>1 DEF ToSet
  <2>4. ASSUME NEW i \in 1 .. Len(page) PROVE page[i] \in ToSet(t)
    <3>1. n + i \in DOMAIN t /\ t[n + i] = page[i]
      BY <2>1
    <3> QED
      BY <3>1 DEF ToSet
  <2>5. ToSet(t) = ToSet(s) \cup ToSet(page)
    BY <2>1, <2>2, <2>3, <2>4 DEF ToSet
  <2> QED
    BY <1>4, <2>5 DEF s, t
<1>6. ToSet(x.items) \subseteq Msgs
  BY <1>1 DEF ToSet
<1> QED
  BY <1>1, <1>2, <1>3, <1>4, <1>5, <1>6 DEF Answered

(* A page read is as the rows are; what of it is untold is doubtful. *)
LEMMA AnsweredContent ==
  ASSUME StoreInv, CachesTyped, NEW c \in Clients, ContentTrue(reply[c]), Answer(c)
  PROVE  ContentTrue(reply'[c])
<1>0. PICK x, y, page : x = reply[c] /\ y = reply'[c] /\ page = NextPage(x)
  OBVIOUS
<1>a. Answered(x, y, page)
  BY <1>0, AnswerFields
<1>1. /\ x.pages \in Nat /\ ToSet(x.items) \subseteq Msgs /\ Stored \subseteq Msgs
      /\ log \in Seq(Msgs) /\ Len(log) \in Nat
  BY <1>a, StoredAreMsgs DEF Answered, StoreInv, TypeOK
<1>2. ToSet(page) \subseteq Stored
  BY <1>a DEF Answered
<1>3. x.pages = 0 /\ Len(log) > 0 => log[Len(log)] \in ToSet(page)
  BY <1>0, <1>a DEF Answered, ContentTrue
<1>4. /\ y.rows = [m \in Msgs |-> IF m \in ToSet(page) THEN row[m] ELSE x.rows[m]]
      /\ y.pages = x.pages + 1
      /\ y.doubt = (x.doubt \ (ToSet(page) \ ToSet(x.items)))
                     \cup {m \in ToSet(page) : Untold(m)}
  BY <1>a DEF Answered
<1>5. ToSet(y.items) = ToSet(x.items) \cup ToSet(page)
  BY <1>a DEF Answered
<1>6. ASSUME NEW m \in ToSet(y.items) \ y.doubt PROVE ShownTrue(y.rows[m], m)
  <2>1. m \in Msgs
    <3>1. m \in ToSet(x.items) => m \in Msgs
      BY <1>1 DEF ToSet
    <3> QED
      BY <1>1, <1>2, <1>5, <1>6, <3>1
  <2>2. CASE m \in ToSet(page)
    <3>1. y.rows[m] = row[m] /\ ~Untold(m)
      BY <1>4, <1>6, <2>1, <2>2
    <3> QED
      BY <3>1, UntoldIsTelling DEF ShownTrue, SameContent
  <2>3. CASE m \notin ToSet(page)
    <3>1. y.rows[m] = x.rows[m] /\ m \in ToSet(x.items) \ x.doubt
      BY <1>4, <1>5, <1>6, <2>1, <2>3
    <3> QED
      BY <1>0, <3>1 DEF ContentTrue
  <2> QED
    BY <2>2, <2>3
<1>7. ASSUME NEW m \in Stored \ (ToSet(y.items) \cup y.doubt)
      PROVE  Late(y, m) \/ Fresh(m)
  <2>1. m \notin ToSet(x.items) \cup x.doubt \cup ToSet(page)
    BY <1>4, <1>5, <1>7
  <2>2. CASE x.pages > 0
    <3>1. Late(x, m) \/ Fresh(m)
      BY <1>0, <1>7, <2>1, <2>2 DEF ContentTrue
    <3>2. Late(x, m) => Late(y, m)
      BY <1>5 DEF Late
    <3> QED
      BY <3>1, <3>2
  <2>3. CASE x.pages = 0
    <3>1. PICK i \in 1 .. Len(log) : log[i] = m
      BY <1>1, <1>7 DEF Stored, ToSet
    <3>2. log[Len(log)] \in ToSet(page) /\ Len(log) \in 1 .. Len(log)
      BY <1>1, <1>3, <2>3, <3>1
    <3>3. i < Len(log)
      BY <1>1, <2>1, <3>1, <3>2
    <3> QED
      BY <1>5, <3>1, <3>2, <3>3 DEF Late
  <2> QED
    BY <1>1, <2>2, <2>3
<1>8. y.pages # 0
  BY <1>1, <1>4
<1> QED
  BY <1>0, <1>6, <1>7, <1>8 DEF ContentTrue

(* The order of what is shown. *)

LogFits == log \in Seq(Msgs) /\ IsInjective(log)

LEMMA PlaceIs ==
  ASSUME LogFits
  PROVE  /\ Len(log) \in Nat
         /\ \A a \in 1 .. Len(log) : Place(log[a]) = a /\ log[a] \in Stored
         /\ \A m \in Stored : Place(m) \in 1 .. Len(log) /\ log[Place(m)] = m
<1>1. /\ Len(log) \in Nat /\ DOMAIN log = 1 .. Len(log)
      /\ \A a, b \in 1 .. Len(log) : log[a] = log[b] => a = b
  BY DEF LogFits, IsInjective
<1>2. ASSUME NEW m \in Stored PROVE Place(m) \in 1 .. Len(log) /\ log[Place(m)] = m
  <2>1. \E i \in 1 .. Len(log) : log[i] = m
    BY <1>1 DEF Stored, ToSet
  <2> QED
    BY <2>1 DEF Place
<1>3. \A a \in 1 .. Len(log) : log[a] \in Stored
  BY <1>1 DEF Stored, ToSet
<1> QED
  BY <1>1, <1>2, <1>3

(* The next log begins with this one. *)
LogGrows ==
  /\ Len(log') >= Len(log)
  /\ \A a \in 1 .. Len(log) : log'[a] = log[a]

LEMMA PlaceStays ==
  ASSUME LogFits, LogFits', LogGrows, NEW m \in Stored
  PROVE  Place(m)' = Place(m)
<1>1. Place(m) \in 1 .. Len(log) /\ log[Place(m)] = m /\ Len(log) \in Nat
  BY PlaceIs
<1>2. /\ Len(log') \in Nat
      /\ \A a, b \in 1 .. Len(log') : log'[a] = log'[b] => a = b
  BY DEF LogFits, IsInjective
<1>3. Place(m) \in 1 .. Len(log') /\ log'[Place(m)] = m
  BY <1>1, <1>2 DEF LogGrows
<1>4. PICK b : b = Place(m)
  OBVIOUS
<1>5. (CHOOSE i \in 1 .. Len(log') : log'[i] = m) = b
  BY <1>2, <1>3, <1>4
<1> QED
  BY <1>4, <1>5 DEF Place

LEMMA HeldItems ==
  ASSUME NEW x \in Held
  PROVE  /\ Len(x.items) \in Nat /\ DOMAIN x.items = 1 .. Len(x.items)
         /\ \A i \in 1 .. Len(x.items) : x.items[i] \in Stored /\ x.items[i] \in ToSet(x.items)
         /\ ToSet(x.items) \subseteq Stored
         /\ \A m \in ToSet(x.items) : \E i \in 1 .. Len(x.items) : x.items[i] = m
<1>1. x.items \in Seq(Stored)
  BY DEF Held
<1>2. /\ Len(x.items) \in Nat /\ DOMAIN x.items = 1 .. Len(x.items)
      /\ \A i \in 1 .. Len(x.items) : x.items[i] \in Stored
  BY <1>1, LenProperties, ElementOfSeq
<1> QED
  BY <1>2 DEF ToSet

(* Copies that are read or sent about, and messages that are told, keep it. *)
LEMMA OrderStays ==
  ASSUME LogFits, LogFits', LogGrows, NEW x \in Held, InOrder(x),
         x.pages > 0 =>
           \A a \in 1 .. Len(log) :
             log[a] \notin ToSet(x.items) \cup x.doubt /\ SendTold(log[a])
               => SendTold(log[a])',
         x.pages > 0 => \A a \in Len(log) + 1 .. Len(log') : SendTold(log[a])'
  PROVE  InOrder(x)'
<1> SUFFICES ASSUME x.pages > 0
             PROVE  \E k \in 0 .. Len(x.items), e \in 0 .. Len(log') : Laid(x, k, e)'
  BY DEF InOrder
<1>1. PICK k \in 0 .. Len(x.items), e \in 0 .. Len(log) : Laid(x, k, e)
  BY DEF InOrder
<1> DEFINE n == Len(x.items)
<1>2. /\ n \in Nat /\ Len(log) \in Nat /\ Len(log') \in Nat
      /\ \A i \in 1 .. n : x.items[i] \in Stored
  BY HeldItems DEF LogFits
<1>3. e \in 0 .. Len(log') /\ n - k <= e /\ (IF x.more THEN k < n ELSE n - k = e)
  BY <1>1, <1>2 DEF Laid, LogGrows
<1>4. ASSUME NEW i \in k + 1 .. n PROVE x.items[i] = log'[e + k + 1 - i]
  <2>1. e + k + 1 - i \in 1 .. Len(log)
    BY <1>2, <1>3
  <2> QED
    BY <1>1, <2>1 DEF Laid, LogGrows
<1>5. \A i \in 1 .. n : Place(x.items[i])' = Place(x.items[i])
  BY <1>2, PlaceStays
<1>6. ASSUME NEW i \in 1 .. k, x.items[i] \notin x.doubt
      PROVE  /\ Place(x.items[i])' > e
             /\ \A j \in i + 1 .. k : Place(x.items[j])' < Place(x.items[i])'
  <2>1. /\ Place(x.items[i]) > e
        /\ \A j \in i + 1 .. k : Place(x.items[j]) < Place(x.items[i])
    BY <1>1, <1>6 DEF Laid
  <2>2. i \in 1 .. n /\ \A j \in i + 1 .. k : j \in 1 .. n
    BY <1>2
  <2> QED
    BY <1>5, <2>1, <2>2
<1>7. ASSUME NEW a \in e + k + 1 - n .. Len(log')
      PROVE  log'[a] \in ToSet(x.items) \cup x.doubt \/ SendTold(log[a])'
  <2>1. CASE a \in Len(log) + 1 .. Len(log')
    BY <2>1
  <2>2. CASE a \in e + k + 1 - n .. Len(log)
    <3>1. a \in 1 .. Len(log)
      BY <1>2, <1>3, <2>2
    <3> QED
      BY <1>1, <2>2, <3>1 DEF Laid, LogGrows
  <2>3. a \in Len(log) + 1 .. Len(log') \/ a \in e + k + 1 - n .. Len(log)
    BY <1>2, <1>3
  <2> QED
    BY <2>1, <2>2, <2>3
<1>8. Laid(x, k, e)'
  BY <1>3, <1>4, <1>6, <1>7 DEF Laid
<1> QED
  BY <1>3, <1>8

(* The same items, perhaps doubted. *)
LEMMA OrderDoubted ==
  ASSUME NEW x, NEW y, y.items = x.items, y.pages = x.pages, y.more = x.more,
         x.doubt \subseteq y.doubt
  PROVE  InOrder(x) => InOrder(y)
<1>1. \A k, e : Laid(x, k, e) => Laid(y, k, e)
  BY DEF Laid
<1> QED
  BY <1>1 DEF InOrder

(* An event that is not late is newer than everything shown. *)
LEMMA OrderPrepended ==
  ASSUME LogFits, NEW x \in Held, InOrder(x), x.pages > 0,
         NEW m \in Stored, m \notin ToSet(x.items),
         NEW y, y.items = <<m>> \o x.items, y.pages = x.pages, y.more = x.more,
         y.doubt = IF Late(x, m) THEN x.doubt \cup {m} ELSE x.doubt
  PROVE  InOrder(y)
<1>1. PICK k \in 0 .. Len(x.items), e \in 0 .. Len(log) : Laid(x, k, e)
  BY DEF InOrder
<1> DEFINE n == Len(x.items)
<1>2. /\ n \in Nat /\ Len(log) \in Nat /\ n - k <= e
      /\ (IF x.more THEN k < n ELSE n - k = e)
      /\ \A i \in 1 .. n : x.items[i] \in Stored /\ x.items[i] \in ToSet(x.items)
  BY <1>1, HeldItems DEF LogFits, Laid
<1>3. /\ Len(y.items) = n + 1 /\ y.items[1] = m
      /\ \A i \in 2 .. n + 1 : y.items[i] = x.items[i - 1]
      /\ ToSet(x.items) \subseteq ToSet(y.items)
  <2>1. x.items \in Seq(Stored)
    BY DEF Held
  <2>2. /\ Len(y.items) = n + 1 /\ y.items[1] = m /\ y.items \in Seq(Stored)
        /\ \A i \in 1 .. n : y.items[i + 1] = x.items[i]
    BY <1>2, <2>1
  <2>3. \A i \in 2 .. n + 1 : i - 1 \in 1 .. n /\ (i - 1) + 1 = i
    BY <1>2
  <2>4. \A i \in 2 .. n + 1 : y.items[i] = x.items[i - 1]
    BY <2>2, <2>3
  <2>5. /\ DOMAIN x.items = 1 .. n /\ DOMAIN y.items = 1 .. n + 1
        /\ \A i \in 1 .. n : i + 1 \in 1 .. n + 1
    BY <1>2, <2>1, <2>2
  <2>6. ASSUME NEW v \in ToSet(x.items) PROVE v \in ToSet(y.items)
    <3>1. PICK i \in 1 .. n : x.items[i] = v
      BY HeldItems
    <3>2. i + 1 \in DOMAIN y.items /\ y.items[i + 1] = v
      BY <2>2, <2>5, <3>1
    <3> QED
      BY <3>2 DEF ToSet
  <2> QED
    BY <2>2, <2>4, <2>6
<1>4. /\ Place(m) \in 1 .. Len(log) /\ log[Place(m)] = m
      /\ \A i \in 1 .. n : /\ Place(x.items[i]) \in 1 .. Len(log)
                           /\ log[Place(x.items[i])] = x.items[i]
  BY <1>2, PlaceIs
<1>5. ASSUME m \notin y.doubt
      PROVE  Place(m) > e /\ \A i \in 1 .. n : Place(x.items[i]) < Place(m)
  <2>1. ~Late(x, m)
    BY <1>5
  <2>2. \A i \in 1 .. n : Place(x.items[i]) < Place(m)
    <3> SUFFICES ASSUME NEW i \in 1 .. n PROVE Place(x.items[i]) < Place(m)
      OBVIOUS
    <3>1. ~(Place(m) < Place(x.items[i]))
      BY <1>2, <1>4, <2>1 DEF Late
    <3>2. Place(m) # Place(x.items[i])
      BY <1>2, <1>4
    <3> QED
      BY <1>2, <1>4, <3>1, <3>2
  <2>3. CASE k < n
    <3>1. x.items[k + 1] = log[e] /\ k + 1 \in 1 .. n /\ e \in 1 .. Len(log)
      <4>1. k + 1 \in k + 1 .. n /\ k + 1 \in 1 .. n /\ e + k + 1 - (k + 1) = e
            /\ e \in 1 .. Len(log)
        BY <1>2, <2>3
      <4> QED
        BY <1>1, <4>1 DEF Laid
    <3>2. Place(x.items[k + 1]) = e
      BY <3>1, PlaceIs
    <3> QED
      BY <1>2, <1>4, <2>2, <3>1, <3>2
  <2>4. CASE ~(k < n)
    <3>1. e = 0
      BY <1>2, <2>4
    <3> QED
      BY <1>4, <2>2, <3>1
  <2> QED
    BY <2>3, <2>4
<1>6. k + 1 \in 0 .. Len(y.items) /\ Len(y.items) - (k + 1) <= e
      /\ (IF y.more THEN k + 1 < Len(y.items) ELSE Len(y.items) - (k + 1) = e)
  <2>0. k \in Nat /\ n \in Nat /\ k <= n
    BY <1>2
  <2>1. /\ k + 1 \in 0 .. n + 1 /\ n + 1 - (k + 1) = n - k
        /\ (k < n => k + 1 < n + 1)
    <3> HIDE DEF n
    <3> QED
      BY <2>0
  <2>2. PICK l : l = n + 1
    OBVIOUS
  <2>3. k + 1 \in 0 .. l /\ l - (k + 1) <= e
    BY <1>2, <2>1, <2>2
  <2>4. IF y.more THEN k + 1 < l ELSE l - (k + 1) = e
    <3> HIDE DEF n
    <3>0. n - k = n + 1 - (k + 1)
      BY <2>0
    <3>1. CASE x.more
      BY <1>2, <2>1, <2>2, <3>1
    <3>2. CASE ~x.more
      BY <1>2, <2>2, <3>0, <3>2
    <3> QED
      BY <3>1, <3>2
  <2> QED
    BY <1>3, <2>2, <2>3, <2>4
<1>7. ASSUME NEW i \in k + 1 + 1 .. Len(y.items)
      PROVE  y.items[i] = log[e + (k + 1) + 1 - i]
  <2>1. i \in 2 .. n + 1 /\ i - 1 \in k + 1 .. n /\ e + k + 1 - (i - 1) = e + (k + 1) + 1 - i
    BY <1>2, <1>3
  <2> QED
    BY <1>1, <1>3, <2>1 DEF Laid
<1>8. ASSUME NEW i \in 1 .. k + 1, y.items[i] \notin y.doubt
      PROVE  /\ Place(y.items[i]) > e
             /\ \A j \in i + 1 .. k + 1 : Place(y.items[j]) < Place(y.items[i])
  <2>0. \A j \in 2 .. k + 1 : j - 1 \in 1 .. n /\ y.items[j] = x.items[j - 1]
    BY <1>2, <1>3
  <2>1. CASE i = 1
    <3>1. Place(m) > e /\ \A j \in 1 .. n : Place(x.items[j]) < Place(m)
      BY <1>3, <1>5, <1>8, <2>1
    <3> QED
      BY <1>3, <2>0, <2>1, <3>1
  <2>2. CASE i \in 2 .. k + 1
    <3>1. i - 1 \in 1 .. k /\ x.items[i - 1] = y.items[i] /\ x.items[i - 1] \notin x.doubt
      BY <1>2, <1>8, <2>0, <2>2
    <3>2. \A j \in i + 1 .. k + 1 : j \in 2 .. k + 1 /\ j - 1 \in (i - 1) + 1 .. k
      BY <1>2, <2>2
    <3> QED
      BY <1>1, <2>0, <3>1, <3>2 DEF Laid
  <2>3. i = 1 \/ i \in 2 .. k + 1
    BY <1>2
  <2> QED
    BY <2>1, <2>2, <2>3
<1>9. ASSUME NEW a \in e + (k + 1) + 1 - Len(y.items) .. Len(log)
      PROVE  log[a] \in ToSet(y.items) \cup y.doubt \/ SendTold(log[a])
  <2>1. a \in e + k + 1 - n .. Len(log)
    BY <1>2, <1>3
  <2> QED
    BY <1>1, <1>3, <2>1 DEF Laid
<1>10. Laid(y, k + 1, e)
  BY <1>6, <1>7, <1>8, <1>9 DEF Laid
<1> QED
  BY <1>6, <1>10 DEF InOrder

(* A page continues the pages held: none of the messages before the last    *)
(* of them is left out.                                                     *)
LEMMA OrderAnswered ==
  ASSUME StoreInv, CachesTyped, NEW c \in Clients, ContentTrue(reply[c]),
         InOrder(reply[c]), Answer(c)
  PROVE  InOrder(reply'[c])
<1>0. PICK x, y, page : x = reply[c] /\ y = reply'[c] /\ page = NextPage(x)
  OBVIOUS
<1>1. /\ x \in Held /\ x.pages \in Nat /\ page \in Seq(Msgs)
      /\ y.items = x.items \o page /\ ToSet(y.items) = ToSet(x.items) \cup ToSet(page)
      /\ y.doubt = (x.doubt \ (ToSet(page) \ ToSet(x.items)))
                     \cup {m \in ToSet(page) : Untold(m)}
      /\ y.more = (page # <<>> /\ Last(page) # Head(log))
  <2>1. Answered(x, y, page)
    BY <1>0, AnswerFields
  <2> QED
    BY <2>1 DEF Answered
<1>2. /\ LogFits /\ log \in Seq(Msgs) /\ Len(log) \in Nat
      /\ \A a, b \in 1 .. Len(log) : log[a] = log[b] => a = b
  BY DEF StoreInv, TypeOK, StoredOnce, LogFits, IsInjective
<1>n. PICK n : n = Len(x.items)
  OBVIOUS
<1> DEFINE Rest(k, e) == e - (n - k)
           Size(end) == IF end > PageSize THEN PageSize ELSE end
           From(k, e) ==
             /\ n - k <= e
             /\ \A i \in k + 1 .. n : x.items[i] = log[e + k + 1 - i]
             /\ \A i \in 1 .. k : x.items[i] \notin x.doubt =>
                  /\ Place(x.items[i]) > e
                  /\ \A j \in i + 1 .. k : Place(x.items[j]) < Place(x.items[i])
             /\ \A a \in e + k + 1 - n .. Len(log) :
                  log[a] \in ToSet(x.items) \cup x.doubt \/ SendTold(log[a])
             /\ page = [i \in 1 .. Size(Rest(k, e)) |-> log[Rest(k, e) + 1 - i]]
<1>3. n \in Nat /\ x.items \in Seq(Msgs) /\ \A i \in 1 .. n : x.items[i] \in ToSet(x.items)
  BY <1>1, <1>n, HeldItems DEF Held, Copies
<1>4. \E k \in 0 .. n, e \in 0 .. Len(log) : From(k, e)
  <2>1. CASE x.pages = 0
    <3>1. x.items = <<>> /\ n = 0
      BY <1>0, <1>n, <2>1 DEF ContentTrue
    <3>2. page = [i \in 1 .. Size(Len(log)) |-> log[Len(log) + 1 - i]]
      BY <1>0, <3>1 DEF NextPage
    <3>3. Rest(0, Len(log)) = Len(log)
      BY <1>2, <3>1
    <3>4. From(0, Len(log))
      BY <1>2, <3>1, <3>2, <3>3
    <3> HIDE DEF From
    <3> QED
      BY <1>2, <3>1, <3>4
  <2>2. CASE x.pages # 0
    <3>1. x.pages > 0 /\ x.more
      BY <1>0, <1>1, <2>2 DEF Answer, Complete
    <3>2. PICK k \in 0 .. n, e \in 0 .. Len(log) : Laid(x, k, e)
      BY <1>0, <1>n, <3>1 DEF InOrder
    <3>3. k < n /\ n - k <= e
      BY <1>n, <3>1, <3>2 DEF Laid
    <3>4. /\ n \in k + 1 .. n /\ e + k + 1 - n \in 1 .. Len(log) /\ x.items # <<>>
          /\ e + k + 1 - n - 1 = Rest(k, e)
      BY <1>2, <1>3, <1>n, <3>3
    <3>5. Last(x.items) = log[e + k + 1 - n]
      BY <1>n, <3>2, <3>4 DEF Laid, Last
    <3>6. Place(Last(x.items)) = e + k + 1 - n
      BY <1>2, <3>4, <3>5, PlaceIs
    <3>7. page = [i \in 1 .. Size(Rest(k, e)) |-> log[Rest(k, e) + 1 - i]]
      <4>1. PICK r : r = Rest(k, e) /\ Place(Last(x.items)) - 1 = r
        BY <3>4, <3>6
      <4>2. page = [i \in 1 .. Size(r) |-> log[r + 1 - i]]
        BY <1>0, <3>4, <4>1 DEF NextPage
      <4> QED
        BY <4>1, <4>2
    <3>8. From(k, e)
      BY <1>n, <3>2, <3>7 DEF Laid
    <3> QED
      BY <3>8
  <2> QED
    BY <2>1, <2>2
<1>5. PICK k \in 0 .. n, e \in 0 .. Len(log) : From(k, e)
  BY <1>4
<1>6. PICK end, size : end = e - (n - k) /\ size = Size(end)
  OBVIOUS
<1>b. k \in Nat /\ e \in Nat /\ k <= n /\ n - k <= e /\ e <= Len(log)
  BY <1>2, <1>3, <1>5
<1>7. /\ end \in 0 .. Len(log) /\ size \in 0 .. end
      /\ end > 0 => size > 0
      /\ page = [i \in 1 .. size |-> log[end + 1 - i]] /\ Len(page) = size
  <2>1. end \in 0 .. Len(log)
    BY <1>2, <1>3, <1>6, <1>b
  <2>2. size \in 0 .. end /\ (end > 0 => size > 0)
    BY <1>2, <1>6, <2>1, PageSizeAssumption
  <2>3. page = [i \in 1 .. size |-> log[end + 1 - i]]
    BY <1>5, <1>6
  <2> QED
    BY <2>1, <2>2, <2>3
<1>c. /\ n \in Nat /\ k \in Nat /\ e \in Nat /\ end \in Nat /\ size \in Nat
      /\ k <= n /\ end = e - (n - k) /\ size <= end /\ end <= Len(log)
      /\ Len(log) \in Nat
  BY <1>2, <1>3, <1>6, <1>7, <1>b
<1>8. /\ Len(y.items) = n + size
      /\ \A i \in 1 .. n : y.items[i] = x.items[i]
      /\ \A i \in 1 .. size : y.items[n + i] = log[end + 1 - i]
  <2>1. /\ Len(x.items \o page) = n + size
        /\ \A i \in 1 .. n : (x.items \o page)[i] = x.items[i]
        /\ \A i \in 1 .. Len(page) : (x.items \o page)[n + i] = page[i]
    BY <1>1, <1>3, <1>n, <1>7
  <2> QED
    BY <1>1, <1>7, <2>1
<1>9. n + size - k <= e /\ (IF y.more THEN k < n + size ELSE n + size - k = e)
  <2>1. n + size - k <= e /\ k <= n
    BY <1>3, <1>6, <1>7
  <2>2. CASE y.more
    <3>1. page # <<>>
      BY <1>1, <2>2
    <3>2. size # 0
      BY <1>7, <3>1
    <3> QED
      BY <1>3, <1>7, <2>1, <2>2, <3>2
  <2>3. CASE ~y.more
    <3>1. size = end
      <4>1. CASE size = 0
        BY <1>7, <4>1
      <4>2. CASE size # 0
        <5>0. size \in 1 .. size
          BY <1>c, <4>2
        <5>1. page # <<>> /\ Last(page) = log[end + 1 - size] /\ size \in 1 .. size
          <6>1. page[size] = log[end + 1 - size] /\ page # <<>>
            BY <1>7, <5>0
          <6> QED
            BY <1>7, <5>0, <6>1 DEF Last
        <5>2. Head(log) = log[1] /\ end + 1 - size \in 1 .. Len(log) /\ 1 \in 1 .. Len(log)
          BY <1>2, <1>7, <4>2
        <5>3. Last(page) = Head(log)
          BY <1>1, <2>3, <5>1
        <5>4. end + 1 - size = 1
          BY <1>2, <5>1, <5>2, <5>3
        <5> QED
          BY <1>c, <5>4
      <4> QED
        BY <4>1, <4>2
    <3>2. n + size - k = e
      BY <1>c, <3>1
    <3> QED
      BY <2>3, <3>2
  <2> QED
    BY <2>2, <2>3, <2>1
<1>10. ASSUME NEW i \in k + 1 .. n + size PROVE y.items[i] = log[e + k + 1 - i]
  <2>1. CASE i \in k + 1 .. n
    BY <1>3, <1>5, <1>8, <2>1
  <2>2. CASE i \in n + 1 .. n + size
    <3>1. i - n \in 1 .. size /\ n + (i - n) = i /\ end + 1 - (i - n) = e + k + 1 - i
      BY <1>c, <2>2
    <3> QED
      BY <1>8, <3>1
  <2>3. i \in k + 1 .. n \/ i \in n + 1 .. n + size
    BY <1>3, <1>7
  <2> QED
    BY <2>1, <2>2, <2>3
<1>11. ASSUME NEW i \in 1 .. k, y.items[i] \notin y.doubt
       PROVE  /\ Place(y.items[i]) > e
              /\ \A j \in i + 1 .. k : Place(y.items[j]) < Place(y.items[i])
  <2>1. i \in 1 .. n /\ \A j \in i + 1 .. k : j \in 1 .. n
    BY <1>3
  <2>2. y.items[i] = x.items[i] /\ x.items[i] \in ToSet(x.items)
    BY <1>3, <1>8, <2>1
  <2>3. x.items[i] \notin x.doubt
    BY <1>1, <1>11, <2>2
  <2> QED
    BY <1>5, <1>8, <2>1, <2>2, <2>3
<1>12. ASSUME NEW a \in e + k + 1 - (n + size) .. Len(log)
       PROVE  log[a] \in ToSet(y.items) \cup y.doubt \/ SendTold(log[a])
  <2>1. CASE a \in e + k + 1 - n .. Len(log)
    BY <1>1, <1>5, <2>1
  <2>2. CASE end + 1 - a \in 1 .. size
    <3>1. page[end + 1 - a] = log[a] /\ end + 1 - a \in DOMAIN page
      BY <1>7, <2>2
    <3> QED
      BY <1>1, <3>1 DEF ToSet
  <2>3. a \in e + k + 1 - n .. Len(log) \/ end + 1 - a \in 1 .. size
    BY <1>c
  <2> QED
    BY <2>1, <2>2, <2>3
<1>13. Laid(y, k, e)
  <2>1. PICK l : l = n + size
    OBVIOUS
  <2>2. l = Len(y.items)
    BY <1>8, <2>1
  <2>3. l - k <= e /\ (IF y.more THEN k < l ELSE l - k = e)
    <3>1. CASE y.more
      BY <1>9, <1>c, <2>1, <3>1
    <3>2. CASE ~y.more
      BY <1>9, <1>c, <2>1, <3>2
    <3> QED
      BY <3>1, <3>2
  <2>4. \A i \in k + 1 .. l : y.items[i] = log[e + k + 1 - i]
    BY <1>10, <2>1
  <2>5. \A a \in e + k + 1 - l .. Len(log) :
          log[a] \in ToSet(y.items) \cup y.doubt \/ SendTold(log[a])
    BY <1>12, <2>1
  <2> QED
    BY <1>11, <2>2, <2>3, <2>4, <2>5 DEF Laid
<1>14. k \in 0 .. Len(y.items)
  BY <1>3, <1>7, <1>8
<1> QED
  BY <1>0, <1>13, <1>14 DEF InOrder

(* Content and order together. *)

LEMMA OneOrder == StoreInv => LogFits
BY DEF StoreInv, TypeOK, StoredOnce, LogFits, IsInjective

LEMMA UndisturbedSend ==
  ASSUME NEW m, Undisturbed(m)
  PROVE  SendTold(m) => SendTold(m)'
BY DEF Undisturbed, SendTold, Telling

LEMMA CopyStays ==
  ASSUME StoreInv, NEW x \in Held, CopyTrue(x), log' = log, Stored \subseteq Msgs,
         x.pages > 0 => \A m \in Msgs \ x.doubt : Undisturbed(m)
  PROVE  CopyTrue(x)'
<1>1. ContentTrue(x)'
  BY ContentStays DEF CopyTrue
<1>2. LogFits /\ LogFits' /\ LogGrows /\ Len(log) \in Nat
  <2>1. LogFits /\ Len(log) \in Nat
    BY OneOrder DEF LogFits
  <2> QED
    BY <2>1 DEF LogFits, LogGrows, IsInjective
<1>3. ASSUME x.pages > 0, NEW a \in 1 .. Len(log), log[a] \notin ToSet(x.items) \cup x.doubt,
             SendTold(log[a])
      PROVE  SendTold(log[a])'
  <2>1. log[a] \in Msgs
    BY <1>2, PlaceIs
  <2>2. PICK m : m = log[a]
    OBVIOUS
  <2>3. SendTold(m) /\ Undisturbed(m)
    BY <1>3, <2>1, <2>2
  <2>4. SendTold(m)'
    BY <2>3, UndisturbedSend
  <2> QED
    BY <2>2, <2>4
<1>4. InOrder(x)'
  BY <1>2, <1>3, OrderStays DEF CopyTrue
<1> QED
  BY <1>1, <1>4 DEF CopyTrue

LEMMA DoubtIsTrue ==
  ASSUME NEW x \in Held, CopyTrue(x), NEW m \in Msgs
  PROVE  /\ CopyTrue(Doubt(x, m)) /\ Doubt(x, m) \in Held
         /\ Doubt(x, m).pages > 0 => m \in Doubt(x, m).doubt
<1>1. PICK y : y = Doubt(x, m)
  OBVIOUS
<1>2. /\ y.items = x.items /\ y.pages = x.pages /\ y.more = x.more
      /\ x.doubt \subseteq y.doubt
  BY <1>1 DEF Doubt, Held, Copies
<1>3. InOrder(y)
  BY <1>2, OrderDoubted DEF CopyTrue
<1> QED
  BY <1>1, <1>3, DoubtedContent DEF CopyTrue

LEMMA DoubtStaysTrue ==
  ASSUME NEW x \in Held, CopyTrue(x)', NEW m \in Msgs, NEW y, y = Doubt(x, m)
  PROVE  CopyTrue(y)'
<1>1. CASE x.pages > 0
  <2>1. /\ y.items = x.items /\ y.rows = x.rows /\ y.pages = x.pages /\ y.more = x.more
        /\ y.doubt = x.doubt \cup {m}
    BY <1>1 DEF Doubt, Held, Copies
  <2>2. \A n : Late(y, n)' <=> Late(x, n)'
    BY <2>1 DEF Late
  <2>3. ContentTrue(y)'
    BY <2>1, <2>2 DEF CopyTrue, ContentTrue
  <2>4. \A k, e : Laid(x, k, e)' => Laid(y, k, e)'
    BY <2>1 DEF Laid
  <2>5. InOrder(y)'
    BY <2>1, <2>4 DEF CopyTrue, InOrder
  <2> QED
    BY <2>3, <2>5 DEF CopyTrue
<1>2. CASE ~(x.pages > 0)
  BY <1>2 DEF Doubt
<1> QED
  BY <1>1, <1>2

(* A message newly stored is told last. *)
LEMMA CreateTrue ==
  ASSUME StoreInv, HandlersKnow, NEW p \in Procs, Create(p),
         NEW x \in Held, CopyTrue(x)
  PROVE  CopyTrue(x)'
<1>1. ContentTrue(x)'
  BY CreatedContent DEF CopyTrue
<1>0. PICK m : m = req[p].msg
  OBVIOUS
<1>2. /\ log' = Append(log, m) /\ m \in Msgs \ Stored
      /\ \A n \in Msgs \ {m} : Undisturbed(n)
      /\ Fresh(m)'
  BY <1>0, CreatingStep
<1>3. StoreInv'
  BY CreateKeeps
<1>4. LogFits /\ LogFits'
  <2>1. StoreInv' => LogFits'
    BY OneOrder, PTL
  <2> QED
    BY <1>3, <2>1, OneOrder
<1>5. /\ Len(log) \in Nat /\ Len(log') = Len(log) + 1 /\ log'[Len(log) + 1] = m
      /\ \A a \in 1 .. Len(log) : log'[a] = log[a]
  BY <1>2, <1>4 DEF LogFits
<1>6. LogGrows
  BY <1>5 DEF LogGrows
<1>7. SendTold(m)'
  BY <1>2 DEF Fresh, SendTold
<1>8. ASSUME NEW a \in Len(log) + 1 .. Len(log') PROVE SendTold(log[a])'
  <2>1. a = Len(log) + 1
    BY <1>5
  <2> QED
    BY <1>5, <1>7, <2>1
<1>9. ASSUME NEW a \in 1 .. Len(log), SendTold(log[a]) PROVE SendTold(log[a])'
  <2>1. PICK n : n = log[a]
    OBVIOUS
  <2>2. n \in Stored /\ n \in Msgs
    BY <1>4, <2>1, PlaceIs, StoredAreMsgs DEF LogFits
  <2>3. Undisturbed(n) /\ SendTold(n) /\ log'[a] = n
    BY <1>2, <1>5, <1>9, <2>1, <2>2
  <2>4. SendTold(n)'
    BY <2>3, UndisturbedSend
  <2> QED
    BY <2>3, <2>4
<1>10. InOrder(x)'
  BY <1>4, <1>6, <1>8, <1>9, OrderStays DEF CopyTrue
<1> QED
  BY <1>1, <1>10 DEF CopyTrue

(* A change is of a message that is told, and tells of nothing sent. *)
LEMMA ChangeTrue ==
  ASSUME StoreInv, HandlersKnow, NEW p \in Procs, Change(p), ~Crosses(p),
         NEW x \in Held, CopyTrue(x)
  PROVE  CopyTrue(x)'
<1>1. ContentTrue(x)'
  BY ChangedContent DEF CopyTrue
<1>0. PICK m : m = req[p].msg
  OBVIOUS
<1>2. UNCHANGED log /\ \A n \in Msgs \ {m} : Undisturbed(n)
  BY <1>0, WritingStep
<1>3. ~SendTold(m)
  BY <1>0, UntoldIsTelling DEF Crosses, SendTold
<1>4. LogFits /\ LogFits' /\ LogGrows /\ Len(log) \in Nat
  <2>1. LogFits /\ Len(log) \in Nat
    BY OneOrder DEF LogFits
  <2> QED
    BY <1>2, <2>1 DEF LogFits, LogGrows, IsInjective
<1>5. ASSUME NEW a \in 1 .. Len(log), SendTold(log[a]) PROVE SendTold(log[a])'
  <2>1. PICK n : n = log[a]
    OBVIOUS
  <2>2. n \in Stored /\ n \in Msgs
    BY <1>4, <2>1, PlaceIs, StoredAreMsgs DEF LogFits
  <2>3. Undisturbed(n) /\ SendTold(n) /\ log'[a] = n
    BY <1>2, <1>3, <1>5, <2>1, <2>2
  <2>4. SendTold(n)'
    BY <2>3, UndisturbedSend
  <2> QED
    BY <2>3, <2>4
<1>6. InOrder(x)'
  BY <1>2, <1>4, <1>5, OrderStays DEF CopyTrue
<1> QED
  BY <1>1, <1>6 DEF CopyTrue

(* What has been heard stands where it belongs. *)
LEMMA OrderHeard ==
  ASSUME StoreInv, NEW x \in Held, InOrder(x), NEW r, r.msg \in Stored, NEW a, NEW y,
         Heard(x, y, r, a)
  PROVE  InOrder(y)
<1>1. CASE /\ r.kind = "send" /\ x.pages > 0 /\ r.msg \notin ToSet(x.items)
           /\ y.items = <<r.msg>> \o x.items /\ y.pages = x.pages /\ y.more = x.more
           /\ y.doubt = IF Late(x, r.msg) THEN x.doubt \cup {r.msg} ELSE x.doubt
  BY <1>1, OneOrder, OrderPrepended
<1>2. CASE /\ y.items = x.items /\ y.pages = x.pages /\ y.more = x.more
           /\ y.doubt = x.doubt
  BY <1>2, OrderDoubted
<1>3. CASE y = x
  BY <1>3
<1> QED
  BY <1>1, <1>2, <1>3 DEF Heard

LEMMA HeardTrue ==
  ASSUME StoreInv, HandlersKnow, NEW p \in Procs, At(p, "announce"), Announce(p),
         NEW r, r = req[p], r.kind # "read",
         NEW c \in Clients, cache \in [Clients -> Held], CopyTrue(cache[c]),
         NEW a \in BOOLEAN, NEW y, y = Updated(c, r, a)
  PROVE  CopyTrue(y)'
<1>0. PICK x, m : x = cache[c] /\ m = r.msg
  OBVIOUS
<1>1. /\ r \in Reqs /\ m \in Stored /\ m \in Msgs /\ Stored \subseteq Msgs /\ x \in Held
      /\ Telling(p, m)
  BY <1>0, StoredAreMsgs DEF StoreInv, TypeOK, HandlersFit, Fit, At, Telling
<1>2. ContentTrue(y)'
  BY <1>0, <1>1, HeardContent DEF CopyTrue
<1>3. Heard(x, y, r, a)
  BY <1>0, <1>1, HeardFields
<1>4. y \in Held
  BY <1>0, <1>1, UpdatedIsHeld
<1>5. InOrder(y)
  BY <1>0, <1>1, <1>3, OrderHeard DEF CopyTrue
<1>6. /\ UNCHANGED log /\ \A n \in Msgs \ {m} : Undisturbed(n)
      /\ \A q \in Procs \ {p} : Telling(q, m) => Telling(q, m)' /\ req'[q] = req[q]
  BY <1>0, TellingStep
<1>7. LogFits /\ LogFits' /\ LogGrows /\ Len(log) \in Nat
  <2>1. LogFits /\ Len(log) \in Nat
    BY OneOrder DEF LogFits
  <2> QED
    BY <1>6, <2>1 DEF LogFits, LogGrows, IsInjective
<1>8. y.pages > 0 /\ r.kind = "send" => m \in ToSet(y.items)
  BY <1>0, <1>3 DEF Heard
<1>9. ASSUME y.pages > 0, NEW i \in 1 .. Len(log), log[i] \notin ToSet(y.items) \cup y.doubt,
             SendTold(log[i])
      PROVE  SendTold(log[i])'
  <2>1. PICK n : n = log[i]
    OBVIOUS
  <2>2. n \in Msgs /\ log'[i] = n /\ SendTold(n)
    BY <1>1, <1>6, <1>7, <1>9, <2>1, PlaceIs
  <2>3. CASE n = m
    <3>1. r.kind # "send"
      BY <1>8, <1>9, <2>1, <2>3
    <3>2. PICK q \in Procs : Telling(q, m) /\ req[q].kind = "send"
      BY <2>2, <2>3 DEF SendTold
    <3>3. Telling(q, m)' /\ req'[q].kind = "send"
      BY <1>6, <3>1, <3>2
    <3> QED
      BY <2>2, <2>3, <3>3 DEF SendTold
  <2>4. CASE n # m
    <3>1. SendTold(n)'
      BY <1>6, <2>2, <2>4, UndisturbedSend
    <3> QED
      BY <2>2, <3>1
  <2> QED
    BY <2>3, <2>4
<1>10. InOrder(y)'
  BY <1>4, <1>5, <1>6, <1>7, <1>9, OrderStays
<1> QED
  BY <1>2, <1>10 DEF CopyTrue

LEMMA AcknowledgedTrue ==
  ASSUME StoreInv, HandlersKnow, NEW p \in Procs, At(p, "reply"), NEW r, r = req[p],
         NEW c \in Clients, cache \in [Clients -> Held], CopyTrue(cache[c]),
         NEW y, y = Updated(c, r, TRUE)
  PROVE  CopyTrue(y) /\ y \in Held
<1>0. PICK x : x = cache[c]
  OBVIOUS
<1>1. /\ r \in Reqs /\ r.msg \in Stored /\ r.msg \in Msgs /\ x \in Held
  BY <1>0, StoredAreMsgs DEF StoreInv, TypeOK, HandlersFit, Fit, At
<1>2. ContentTrue(y) /\ y \in Held
  BY AcknowledgedContent DEF CopyTrue
<1>3. Heard(x, y, r, TRUE)
  BY <1>0, <1>1, HeardFields
<1>4. InOrder(y)
  BY <1>0, <1>1, <1>3, OrderHeard DEF CopyTrue
<1> QED
  BY <1>2, <1>4 DEF CopyTrue

LEMMA AnsweredTrue ==
  ASSUME StoreInv, CachesTyped, NEW c \in Clients, CopyTrue(reply[c]), Answer(c)
  PROVE  CopyTrue(reply'[c])
BY AnsweredContent, OrderAnswered DEF CopyTrue

(* All copies together. *)

LEMMA NoCopyIsTrue == CopyTrue(NoCopy)
BY DEF CopyTrue, ContentTrue, InOrder, NoCopy, ToSet

LEMMA NextCopies ==
  ASSUME \A c \in Clients : \A y : y = cache'[c] \/ y = reply'[c] => CopyTrue(y)'
  PROVE  CopiesTrue'
BY DEF CopiesTrue

LEMMA StandingStill ==
  ASSUME UNCHANGED vars
  PROVE  UNCHANGED log /\ \A m \in Msgs : Undisturbed(m)
BY DEF vars, storeVars, Undisturbed, Telling, Acknowledging, At

(* Nothing about any message happens: copies stay true wherever they go.    *)
LEMMA QuietCopies ==
  ASSUME StoreInv, ClientInv, CopiesTrue, UNCHANGED log, \A m \in Msgs : Undisturbed(m),
         NEW y, y = NoCopy \/ (y \in Held /\ CopyTrue(y))
  PROVE  CopyTrue(y)'
<1>1. y \in Held /\ CopyTrue(y)
  BY NoCopyIsHeld, NoCopyIsTrue
<1>2. Stored \subseteq Msgs
  BY StoredAreMsgs DEF StoreInv, TypeOK
<1> QED
  BY <1>1, <1>2, CopyStays

(* One message is disturbed: a copy that doubts it stays true.              *)
LEMMA DoubtfulCopies ==
  ASSUME StoreInv, UNCHANGED log, NEW m \in Msgs, \A n \in Msgs \ {m} : Undisturbed(n),
         NEW x \in Held, CopyTrue(x), NEW y, y = Doubt(x, m)
  PROVE  CopyTrue(y)'
<1>1. CopyTrue(y) /\ y \in Held /\ (y.pages > 0 => m \in y.doubt)
  BY DoubtIsTrue
<1>2. Stored \subseteq Msgs
  BY StoredAreMsgs DEF StoreInv, TypeOK
<1> QED
  BY <1>1, <1>2, CopyStays

LEMMA WriteTrue ==
  ASSUME StoreInv, ClientInv, TruthInv, NEW p \in Procs, WriteFor(p)
  PROVE  TruthInv'
<1> USE DEF TruthInv
<1>0. \A c \in Clients : /\ cache[c] \in Held /\ reply[c] \in Held
                         /\ CopyTrue(cache[c]) /\ CopyTrue(reply[c])
  BY DEF ClientInv, CachesTyped, CopiesTrue
<1>1. CASE Create(p)
  <2>1. ~Change(p)
    BY <1>1 DEF Create, Change, At
  <2>2. UNCHANGED <<cache, reply>>
    BY <2>1 DEF WriteFor
  <2>3. HandlersKnow'
    BY <1>1, CreatingStep
  <2>4. ASSUME NEW c \in Clients, NEW y, y = cache'[c] \/ y = reply'[c]
        PROVE  CopyTrue(y)'
    <3>1. y \in Held /\ CopyTrue(y)
      BY <1>0, <2>2, <2>4
    <3> QED
      BY <1>1, <3>1, CreateTrue
  <2> QED
    BY <2>3, <2>4, NextCopies
<1>2. CASE Change(p)
  <2>1. PICK m : m = req[p].msg
    OBVIOUS
  <2>2. /\ HandlersKnow' /\ UNCHANGED log /\ m \in Msgs
        /\ \A n \in Msgs \ {m} : Undisturbed(n)
    BY <1>2, <2>1, WritingStep
  <2>3. ASSUME NEW c \in Clients, NEW y, y = cache'[c] \/ y = reply'[c]
        PROVE  CopyTrue(y)'
    <3>1. CASE Crosses(p)
      <4>1. DoubtAll(m)
        BY <1>2, <2>1, <3>1 DEF WriteFor
      <4>2. y = Doubt(cache[c], m) \/ y = Doubt(reply[c], m)
        BY <2>3, <4>1 DEF DoubtAll, DoubtReplies
      <4> QED
        BY <1>0, <2>2, <4>2, DoubtfulCopies
    <3>2. CASE ~Crosses(p)
      <4>1. UNCHANGED <<cache, reply>>
        BY <3>2 DEF WriteFor
      <4>2. y \in Held /\ CopyTrue(y)
        BY <1>0, <2>3, <4>1
      <4> QED
        BY <1>2, <3>2, <4>2, ChangeTrue
    <3> QED
      BY <3>1, <3>2
  <2> QED
    BY <2>2, <2>3, NextCopies
<1>3. CASE Duplicate(p) \/ Open(p) \/ Collide(p) \/ MarkRead(p) \/ AlreadyRead(p)
  <2>1. ~Change(p)
    BY <1>3 DEF Duplicate, Open, Collide, MarkRead, AlreadyRead, Change, At
  <2>2. UNCHANGED <<cache, reply>>
    BY <2>1 DEF WriteFor
  <2>3. HandlersKnow' /\ UNCHANGED log /\ \A m \in Msgs : Undisturbed(m)
    BY <1>3, QuietStep
  <2>4. ASSUME NEW c \in Clients, NEW y, y = cache'[c] \/ y = reply'[c]
        PROVE  CopyTrue(y)'
    <3>1. y \in Held /\ CopyTrue(y)
      BY <1>0, <2>2, <2>4
    <3> QED
      BY <2>3, <3>1, QuietCopies
  <2> QED
    BY <2>3, <2>4, NextCopies
<1> QED
  BY <1>1, <1>2, <1>3 DEF WriteFor, Write

LEMMA AnnounceTrue ==
  ASSUME StoreInv, ClientInv, TruthInv, NEW p \in Procs, AnnounceToAll(p)
  PROVE  TruthInv'
<1> USE DEF TruthInv
<1>0. /\ At(p, "announce") /\ Announce(p) /\ Stored \subseteq Msgs
      /\ \A c \in Clients : /\ cache[c] \in Held /\ reply[c] \in Held
                            /\ CopyTrue(cache[c]) /\ CopyTrue(reply[c])
      /\ cache \in [Clients -> Held]
  BY StoredAreMsgs
  DEF AnnounceToAll, Announce, ClientInv, CachesTyped, CopiesTrue, StoreInv, TypeOK
<1>1. PICK r, m : r = req[p] /\ m = r.msg
  OBVIOUS
<1>2. /\ HandlersKnow' /\ UNCHANGED <<log, row>>
      /\ \A n \in Msgs \ {m} : Undisturbed(n)
  BY <1>0, <1>1, TellingStep
<1>3. CASE r.kind = "read"
  <2>1. UNCHANGED <<cache, reply>> /\ m \notin Msgs
    BY <1>0, <1>1, <1>3 DEF AnnounceToAll, HandlersKnow, KnowsWhat
  <2>2. ASSUME NEW c \in Clients, NEW y, y = cache'[c] \/ y = reply'[c]
        PROVE  CopyTrue(y)'
    <3>1. y \in Held /\ CopyTrue(y)
      BY <1>0, <2>1, <2>2
    <3> QED
      BY <1>2, <2>1, <3>1, QuietCopies
  <2> QED
    BY <1>2, <2>2, NextCopies
<1>4. CASE r.kind # "read"
  <2>1. r \in Reqs /\ m \in Msgs /\ r.msg \in Stored
    BY <1>0, <1>1, <1>4 DEF StoreInv, TypeOK, HandlersFit, Fit, At
  <2>2. PICK waiting, unsure :
          /\ Hear(link, r, waiting, unsure)
          /\ unsure = Clients \/ unsure = Clients \ link
    BY <1>1, <1>4 DEF AnnounceToAll
  <2>3. DoubtReplies(m)
    BY <1>1, <1>4 DEF AnnounceToAll
  <2>4. ASSUME NEW c \in Clients, NEW y, y = reply'[c] PROVE CopyTrue(y)'
    <3>1. y = Doubt(reply[c], m)
      BY <2>3, <2>4 DEF DoubtReplies
    <3> QED
      BY <1>0, <1>2, <2>1, <3>1, DoubtfulCopies
  <2>5. ASSUME NEW c \in Clients, NEW y, y = cache'[c] PROVE CopyTrue(y)'
    <3>1. CASE c \notin link
      <4>1. y = Doubt(cache[c], m)
        BY <1>1, <2>2, <2>5, <3>1 DEF Hear
      <4> QED
        BY <1>0, <1>2, <2>1, <4>1, DoubtfulCopies
    <3>2. CASE c \in link
      <4>1. PICK a \in BOOLEAN : a = (c = waiting)
        OBVIOUS
      <4>2. PICK z : z = Updated(c, r, a)
        OBVIOUS
      <4>3. y = z \/ y = Doubt(z, m)
        BY <1>1, <2>2, <2>5, <3>2, <4>1, <4>2 DEF Hear
      <4>4. CopyTrue(z)'
        BY <1>0, <1>1, <1>4, <4>2, HeardTrue
      <4>5. z \in Held
        BY <1>1, <2>1, <4>2, UpdatedIsHeld DEF ClientInv, CachesTyped
      <4> QED
        BY <2>1, <4>3, <4>4, <4>5, DoubtStaysTrue
    <3> QED
      BY <3>1, <3>2
  <2> QED
    BY <1>2, <2>4, <2>5, NextCopies
<1> QED
  BY <1>3, <1>4

LEMMA ReplyTrue ==
  ASSUME StoreInv, ClientInv, TruthInv, NEW p \in Procs, ReplyToAsker(p)
  PROVE  TruthInv'
<1> USE DEF TruthInv
<1>0. /\ At(p, "reply") /\ Reply(p) /\ UNCHANGED reply
      /\ cache \in [Clients -> Held] /\ asker[p] \in Clients \cup {None}
      /\ \A c \in Clients : /\ cache[c] \in Held /\ reply[c] \in Held
                            /\ CopyTrue(cache[c]) /\ CopyTrue(reply[c])
  BY DEF ReplyToAsker, Reply, ClientInv, CachesTyped, LinksTyped, CopiesTrue
<1>1. HandlersKnow' /\ UNCHANGED log /\ \A m \in Msgs : Undisturbed(m)
  BY <1>0, QuietStep
<1>2. ASSUME NEW c \in Clients, NEW y, y = reply'[c] PROVE CopyTrue(y)'
  <2>1. y \in Held /\ CopyTrue(y)
    BY <1>0, <1>2
  <2> QED
    BY <1>1, <2>1, QuietCopies
<1>3. ASSUME NEW c \in Clients, NEW y, y = cache'[c] PROVE CopyTrue(y)'
  <2>1. y \in Held /\ CopyTrue(y)
    <3>1. CASE c = asker[p] /\ c # None
      <4>1. PICK r : r = req[p]
        OBVIOUS
      <4>2. y = Updated(c, r, TRUE)
        BY <1>3, <3>1, <4>1 DEF ReplyToAsker, Hear
      <4> QED
        BY <1>0, <4>1, <4>2, AcknowledgedTrue
    <3>2. CASE ~(c = asker[p] /\ c # None)
      <4>1. y = cache[c]
        BY <1>0, <1>3, <3>2, NobodyAssumption DEF ReplyToAsker, Hear
      <4> QED
        BY <1>0, <4>1
    <3> QED
      BY <3>1, <3>2
  <2> QED
    BY <1>1, <2>1, QuietCopies
<1> QED
  BY <1>1, <1>2, <1>3, NextCopies

LEMMA DieTrue ==
  ASSUME StoreInv, ClientInv, TruthInv, NEW p \in Procs, DieWith(p)
  PROVE  TruthInv'
<1> USE DEF TruthInv
<1>0. /\ Die(p) /\ Stored \subseteq Msgs
      /\ \A c \in Clients : /\ cache[c] \in Held /\ reply[c] \in Held
                            /\ CopyTrue(cache[c]) /\ CopyTrue(reply[c])
  BY StoredAreMsgs DEF DieWith, ClientInv, CachesTyped, CopiesTrue, StoreInv, TypeOK
<1>1. PICK m : m = req[p].msg
  OBVIOUS
<1>2. CASE At(p, "announce") /\ req[p].kind # "read"
  <2>1. m \in Msgs
    BY <1>0, <1>1, <1>2 DEF StoreInv, HandlersFit, Fit, At
  <2>2. HandlersKnow' /\ UNCHANGED log /\ \A n \in Msgs \ {m} : Undisturbed(n)
    BY <1>0, <1>1, <1>2, TellingStep
  <2>3. ASSUME NEW c \in Clients, NEW y, y = cache'[c] \/ y = reply'[c]
        PROVE  CopyTrue(y)'
    <3>1. y = Doubt(cache[c], m) \/ y = Doubt(reply[c], m)
      BY <1>1, <1>2, <2>3 DEF DieWith, DoubtAll, DoubtReplies
    <3> QED
      BY <1>0, <2>1, <2>2, <3>1, DoubtfulCopies
  <2> QED
    BY <2>2, <2>3, NextCopies
<1>3. CASE ~(At(p, "announce") /\ req[p].kind # "read")
  <2>1. UNCHANGED <<cache, reply>>
    BY <1>3 DEF DieWith
  <2>2. HandlersKnow' /\ UNCHANGED log /\ \A n \in Msgs : Undisturbed(n)
    <3>1. CASE At(p, "announce")
      <4>1. m \notin Msgs
        BY <1>1, <1>3, <3>1 DEF HandlersKnow, KnowsWhat
      <4> QED
        BY <1>0, <1>1, <3>1, <4>1, TellingStep
    <3>2. CASE ~At(p, "announce")
      BY <1>0, <3>2, QuietStep
    <3> QED
      BY <3>1, <3>2
  <2>3. ASSUME NEW c \in Clients, NEW y, y = cache'[c] \/ y = reply'[c]
        PROVE  CopyTrue(y)'
    <3>1. y \in Held /\ CopyTrue(y)
      BY <1>0, <2>1, <2>3
    <3> QED
      BY <2>2, <3>1, QuietCopies
  <2> QED
    BY <2>2, <2>3, NextCopies
<1> QED
  BY <1>2, <1>3

(* Steps that touch no copy, or only move one. *)
LEMMA MoveTrue ==
  ASSUME StoreInv, ClientInv, TruthInv, HandlersKnow', UNCHANGED log,
         \A m \in Msgs : Undisturbed(m),
         \A c \in Clients : cache'[c] \in {cache[c], reply[c]},
         \A c \in Clients : reply'[c] \in {cache[c], reply[c], NoCopy}
  PROVE  TruthInv'
<1>1. \A c \in Clients : /\ cache[c] \in Held /\ reply[c] \in Held
                         /\ CopyTrue(cache[c]) /\ CopyTrue(reply[c])
  BY DEF TruthInv, ClientInv, CachesTyped, CopiesTrue
<1>2. ASSUME NEW c \in Clients, NEW y, y = cache'[c] \/ y = reply'[c]
      PROVE  CopyTrue(y)'
  <2>1. y = NoCopy \/ (y \in Held /\ CopyTrue(y))
    BY <1>1, <1>2
  <2> QED
    BY <2>1, QuietCopies DEF TruthInv
<1> QED
  BY <1>2, NextCopies DEF TruthInv

LEMMA TruthStep ==
  ASSUME StoreInv, ClientInv, TruthInv, [ChatNext]_chatVars
  PROVE  TruthInv'
<1>0. \A c \in Clients : /\ cache[c] \in {cache[c], reply[c]}
                         /\ reply[c] \in {cache[c], reply[c], NoCopy}
  OBVIOUS
<1>1. ASSUME NEW p \in Procs, ChatStart(p) PROVE TruthInv'
  <2>1. Start(p)
    BY <1>1, ClientAssumption
    DEF ChatStart, Compose, Look, Alter, Start
  <2>2. UNCHANGED <<cache, reply>>
    BY <1>1 DEF ChatStart, Compose, Look, Alter, clientVars
  <2> QED
    BY <1>0, <2>1, <2>2, StartDisturbsNothing, MoveTrue DEF TruthInv
<1>2. ASSUME NEW p \in Procs, RefuseFor(p) \/ ErrorToAsker(p) PROVE TruthInv'
  <2>1. UNCHANGED <<cache, reply>> /\ (Refuse(p) \/ ReplyError(p))
    BY <1>2 DEF RefuseFor, ErrorToAsker, clientVars
  <2> QED
    BY <1>0, <2>1, QuietStep, MoveTrue DEF TruthInv
<1>3. ASSUME UNCHANGED vars,
             \A c \in Clients : cache'[c] \in {cache[c], reply[c]},
             \A c \in Clients : reply'[c] \in {cache[c], reply[c], NoCopy}
      PROVE  TruthInv'
  <2>1. HandlersKnow'
    BY <1>3 DEF TruthInv, HandlersKnow, KnowsWhat, At, vars, storeVars
  <2> QED
    BY <1>3, <2>1, StandingStill, MoveTrue
<1>4. ASSUME NEW m \in Msgs, ComposeLost(m) \/ SendTimesOut(m) PROVE TruthInv'
  BY <1>0, <1>3, <1>4 DEF ComposeLost, SendTimesOut
<1>5. ASSUME NEW c \in Clients, Ask(c) \/ Drop(c) \/ Reconnect(c) PROVE TruthInv'
  BY <1>0, <1>3, <1>5 DEF Ask, Drop, Reconnect
<1>6. ASSUME NEW c \in Clients, AskOlder(c) \/ Load(c) PROVE TruthInv'
  <2>1. cache \in [Clients -> Held] /\ reply \in [Clients -> Held] /\ UNCHANGED vars
    BY <1>6 DEF ClientInv, CachesTyped, AskOlder, Load
  <2>2. \A d \in Clients : /\ cache'[d] \in {cache[d], reply[d]}
                           /\ reply'[d] \in {cache[d], reply[d], NoCopy}
    BY <1>6, <2>1 DEF AskOlder, Load
  <2> QED
    BY <1>3, <2>1, <2>2
<1>7. ASSUME NEW c \in Clients, Answer(c) PROVE TruthInv'
  <2>1. /\ UNCHANGED <<vars, cache>> /\ cache \in [Clients -> Held]
        /\ \A d \in Clients \ {c} : reply'[d] = reply[d]
        /\ \A d \in Clients : /\ cache[d] \in Held /\ reply[d] \in Held
                              /\ CopyTrue(cache[d]) /\ CopyTrue(reply[d])
    BY <1>7 DEF Answer, ClientInv, CachesTyped, TruthInv, CopiesTrue
  <2>2. HandlersKnow'
    BY <2>1 DEF TruthInv, HandlersKnow, KnowsWhat, At, vars, storeVars
  <2>3. reply'[c] \in Held /\ CopyTrue(reply'[c])
    BY <1>7, <2>1, AnsweredIsHeld, AnsweredTrue DEF ClientInv
  <2>4. ASSUME NEW d \in Clients, NEW y, y = cache'[d] \/ y = reply'[d]
        PROVE  CopyTrue(y)'
    <3>1. y \in Held /\ CopyTrue(y)
      BY <2>1, <2>3, <2>4
    <3> QED
      BY <2>1, <3>1, StandingStill, QuietCopies DEF TruthInv
  <2> QED
    BY <2>2, <2>4, NextCopies DEF TruthInv
<1>8. CASE UNCHANGED chatVars
  BY <1>0, <1>3, <1>8 DEF chatVars, clientVars
<1> QED
  BY <1>1, <1>2, <1>4, <1>5, <1>6, <1>7, <1>8, WriteTrue, AnnounceTrue, ReplyTrue, DieTrue
  DEF ChatNext, ChatStep

LEMMA TruthInit == ChatInit => TruthInv
<1> SUFFICES ASSUME ChatInit PROVE TruthInv
  OBVIOUS
<1>1. HandlersKnow
  BY DEF ChatInit, Init, HandlersKnow, KnowsWhat, At
<1>2. CopiesTrue
  BY NoCopyIsTrue DEF ChatInit, CopiesTrue
<1> QED
  BY <1>1, <1>2 DEF TruthInv

(* Whatever overlaps, is lost, repeated or comes late: a message that is    *)
(* shown is shown as its row is, edited, deleted and reacted to, but for    *)
(* the doubts that Chat names.                                              *)
THEOREM CopiesAreRight == ChatSpec => []ShownAsStored
<1>1. TruthInv => ShownAsStored
  BY DEF TruthInv, CopiesTrue, CopyTrue, ContentTrue, ShownTrue, ShownAsStored
<1>2. StoreInv /\ ClientInv /\ TruthInv /\ [ChatNext]_chatVars => TruthInv'
  BY TruthStep
<1> QED
  BY <1>1, <1>2, TruthInit, ChatStoreInv, ClientInvAlways, PTL DEF ChatSpec

(* A copy laid out so is the log from its end back, but for the doubts. *)
LEMMA LaidIsTheLog ==
  ASSUME StoreInv, NEW x \in Held, NEW k \in 0 .. Len(x.items), NEW e \in 0 .. Len(log),
         Laid(x, k, e), NEW first, first = IF x.more THEN Place(Last(x.items)) ELSE 1
  PROVE  /\ \A i, j \in DOMAIN x.items :
              /\ i < j
              /\ x.items[i] \notin x.doubt /\ ~Untold(x.items[i])
              /\ x.items[j] \notin x.doubt /\ ~Untold(x.items[j])
              => Place(x.items[i]) > Place(x.items[j])
         /\ \A m \in Stored : m \notin x.doubt /\ ~Untold(m)
              => (m \in ToSet(x.items) <=> Place(m) >= first)
<1>n. PICK n : n = Len(x.items)
  OBVIOUS
<1>1. /\ LogFits /\ n \in Nat /\ DOMAIN x.items = 1 .. n /\ Len(log) \in Nat
      /\ k \in Nat /\ e \in Nat /\ k <= n /\ e <= Len(log) /\ n - k <= e
      /\ \A i \in 1 .. n : x.items[i] \in Stored /\ x.items[i] \in ToSet(x.items)
  BY <1>n, OneOrder, HeldItems DEF LogFits, Laid
<1>2. ASSUME NEW i \in k + 1 .. n
      PROVE  /\ Place(x.items[i]) = e + k + 1 - i /\ e + k + 1 - i \in 1 .. Len(log)
             /\ i \in Nat
  <2>1. e + k + 1 - i \in 1 .. Len(log) /\ i \in Nat
    BY <1>1
  <2>2. x.items[i] = log[e + k + 1 - i]
    BY <1>n DEF Laid
  <2> QED
    BY <1>1, <2>1, <2>2, PlaceIs
<1>3. first = e + k + 1 - n
  <2>1. CASE x.more
    <3>1. k < n
      BY <1>n, <2>1 DEF Laid
    <3>2. n \in k + 1 .. n
      BY <1>1, <3>1
    <3>3. Place(x.items[n]) = e + k + 1 - n
      BY <1>2, <3>2
    <3> QED
      BY <1>n, <2>1, <3>3 DEF Last
  <2>2. CASE ~x.more
    <3>1. n - k = e
      BY <1>n, <2>2 DEF Laid
    <3> QED
      BY <1>1, <2>2, <3>1
  <2> QED
    BY <2>1, <2>2
<1>p. \A i \in 1 .. n : Place(x.items[i]) \in Nat
  BY <1>1, PlaceIs
<1>4. ASSUME NEW i \in 1 .. n, NEW j \in 1 .. n, i < j, x.items[i] \notin x.doubt
      PROVE  Place(x.items[i]) > Place(x.items[j])
  <2>1. CASE i \in k + 1 .. n
    <3>1. j \in k + 1 .. n
      BY <1>1, <1>4, <2>1
    <3> QED
      BY <1>1, <1>2, <1>4, <2>1, <3>1
  <2>2. CASE i \in 1 .. k
    <3>1. /\ Place(x.items[i]) > e
          /\ \A l \in i + 1 .. k : Place(x.items[l]) < Place(x.items[i])
      BY <1>4, <2>2 DEF Laid
    <3>2. CASE j \in i + 1 .. k
      <4>1. Place(x.items[i]) \in Nat /\ Place(x.items[j]) \in Nat
        BY <1>4, <1>p
      <4> QED
        BY <3>1, <3>2, <4>1
    <3>3. CASE j \in k + 1 .. n
      <4>1. Place(x.items[i]) \in Nat /\ Place(x.items[j]) <= e
            /\ Place(x.items[j]) \in Nat
        BY <1>1, <1>2, <3>3, PlaceIs
      <4> QED
        BY <1>1, <3>1, <4>1
    <3>4. j \in i + 1 .. k \/ j \in k + 1 .. n
      BY <1>1, <1>4
    <3> QED
      BY <3>2, <3>3, <3>4
  <2>3. i \in k + 1 .. n \/ i \in 1 .. k
    BY <1>1
  <2> QED
    BY <2>1, <2>2, <2>3
<1>5. ASSUME NEW m \in Stored, m \notin x.doubt, ~Untold(m)
      PROVE  m \in ToSet(x.items) <=> Place(m) >= first
  <2>1. Place(m) \in 1 .. Len(log) /\ log[Place(m)] = m
    BY <1>1, PlaceIs
  <2>2. ~SendTold(m)
    BY <1>5, UntoldIsTelling DEF SendTold
  <2>3. ASSUME Place(m) >= first PROVE m \in ToSet(x.items)
    <3>1. Place(m) \in e + k + 1 - n .. Len(log)
      BY <1>1, <1>3, <2>1, <2>3
    <3> QED
      BY <1>n, <1>5, <2>1, <2>2, <3>1 DEF Laid
  <2>4. ASSUME m \in ToSet(x.items) PROVE Place(m) >= first
    <3>1. PICK i \in 1 .. n : x.items[i] = m
      BY <1>n, <2>4, HeldItems
    <3>2. CASE i \in k + 1 .. n
      BY <1>1, <1>2, <1>3, <3>1, <3>2
    <3>3. CASE i \in 1 .. k
      <4>1. Place(m) > e
        BY <1>5, <3>1, <3>3 DEF Laid
      <4> QED
        BY <1>1, <1>3, <2>1, <4>1
    <3>4. i \in k + 1 .. n \/ i \in 1 .. k
      BY <1>1
    <3> QED
      BY <3>2, <3>3, <3>4
  <2> QED
    BY <2>3, <2>4
<1> QED
  BY <1>1, <1>4, <1>5

(* In whatever order acknowledgements, events and pages come: but for the   *)
(* same doubts a loaded history is the log, in the log's order and without  *)
(* repetition, from its end back to where its pages end.                    *)
THEOREM HistoriesAreTheLog == ChatSpec => []HistoryIsTheLog
<1>1. ASSUME StoreInv, ClientInv, TruthInv PROVE HistoryIsTheLog
  <2>1. ASSUME NEW c \in Clients, Loaded(c), NEW x, x = cache[c],
               NEW first, first = IF x.more THEN Place(Last(x.items)) ELSE 1
        PROVE  /\ \A i, j \in DOMAIN x.items :
                    /\ i < j
                    /\ x.items[i] \notin x.doubt /\ ~Untold(x.items[i])
                    /\ x.items[j] \notin x.doubt /\ ~Untold(x.items[j])
                    => Place(x.items[i]) > Place(x.items[j])
               /\ \A m \in Stored : m \notin x.doubt /\ ~Untold(m)
                    => (m \in ToSet(x.items) <=> Place(m) >= first)
    <3>1. x \in Held /\ InOrder(x) /\ x.pages > 0
      BY <1>1, <2>1 DEF ClientInv, CachesTyped, TruthInv, CopiesTrue, CopyTrue, Loaded
    <3>2. PICK k \in 0 .. Len(x.items), e \in 0 .. Len(log) : Laid(x, k, e)
      BY <3>1 DEF InOrder
    <3> QED
      BY <1>1, <2>1, <3>1, <3>2, LaidIsTheLog
  <2> QED
    BY <2>1 DEF HistoryIsTheLog, Shows
<1>2. StoreInv /\ ClientInv /\ TruthInv /\ [ChatNext]_chatVars => TruthInv'
  BY TruthStep
<1> QED
  BY <1>1, <1>2, TruthInit, ChatStoreInv, ClientInvAlways, PTL DEF ChatSpec
=============================================================================
