-------------------------------- MODULE Inbox --------------------------------
(***************************************************************************)
(* Direct conversations, the conversation lists of the browsers with their *)
(* unread counts, and read receipts: openDirect, list and detail of        *)
(* conversation.service.ts on their repository, conversationCreated of     *)
(* realtime/bridge.ts, and in the browser features/conversation/queries.ts,*)
(* useMarkRead and the list's part of useRealtimeSync.                     *)
(*                                                                         *)
(* A request or handler p runs from one await to the next.  An event       *)
(* reaches every socket of its room in the step that emits it, an HTTP     *)
(* response in a step of its own.  Of a message there is its author,       *)
(* whether it is a system message and whether it is deleted (Messages and  *)
(* Chat have the rest).  A history is one page.                            *)
(***************************************************************************)
EXTENDS Naturals, Sequences, FiniteSetsExt, SequencesExt

CONSTANTS
  Users,
  Tabs,    \* browser tabs
  UserOf,  \* UserOf[t]: who is signed in at t
  Convs,   \* ids of conversations
  Procs,   \* requests and handlers that can be in flight at once
  None     \* the null value

ASSUME SignedInAssumption == UserOf \in [Tabs -> Users]
ASSUME NullAssumption ==
  None \notin Users \cup Tabs \cup Convs \cup Nat /\ \A pair \in SUBSET Users : pair # None

VARIABLES
  key,     \* key[c]: the direct_key of c, the set of its two members
  log,     \* log[c]: its messages in the order of their ids
  cursor,  \* cursor[c][u]: u's last_read_message_id, as a position in log[c]
  pc, req, \* the step and the local variables of each handler
  link,    \* tabs whose socket is connected
  rooms,   \* rooms[t]: the conversations whose room t's socket has joined
  loaded,  \* tabs that hold a conversation list
  badge,   \* badge[t][c]: its unread count, None if c is not on the list
  at,      \* at[t]: the conversation t shows
  paged,   \* paged[t]: the conversations t has a message history of
  hist,    \* hist[t][c]: that history, newest first
  acked,   \* acked[t]: the last message t acknowledged on this page, or 0
  seen,    \* seen[t][c]: the cursors t holds with the detail of c, or None
  off,     \* history: off[t], what t's list may be wrong about (Properties)
  risk     \* history: risk[p], the same of the answer p is preparing

serverVars == <<key, log, cursor>>
flight == <<pc, req>>
tabVars == <<link, rooms, loaded, badge, at, paged, hist, acked, seen>>
doubts == <<off, risk>>
vars == <<serverVars, flight, tabVars, doubts>>

Entry(u, system) == [by |-> u, system |-> system, gone |-> FALSE]

NoReq == [kind |-> "none", tab |-> None, user |-> None, peer |-> None, conv |-> None,
          n |-> 0, made |-> FALSE, cur |-> [u \in Users |-> 0], count |-> 0,
          rows |-> None, counts |-> None, items |-> <<>>]
Req(kind, t, c) ==
  [NoReq EXCEPT !.kind = kind, !.tab = t, !.user = UserOf[t], !.conv = c]

Step == {"idle", "find", "insert", "again", "count", "read", "store", "mark",
         "announce", "reply"}

TypeOK ==
  /\ \A c \in Convs : key[c] = None \/ (key[c] \subseteq Users /\ Cardinality(key[c]) = 2)
  /\ \A c \in Convs : \A n \in DOMAIN log[c] :
       log[c][n] \in [by : Users, system : BOOLEAN, gone : BOOLEAN]
  /\ \A c \in Convs : cursor[c] \in [Users -> 0 .. Len(log[c])]
  /\ pc \in [Procs -> Step] /\ DOMAIN req = Procs
  /\ link \subseteq Tabs /\ rooms \in [Tabs -> SUBSET Convs] /\ loaded \subseteq Tabs
  /\ badge \in [Tabs -> [Convs -> Nat \cup {None}]]
  /\ at \in [Tabs -> Convs \cup {None}] /\ paged \in [Tabs -> SUBSET Convs]
  /\ \A t \in Tabs, c \in Convs : ToSet(hist[t][c]) \subseteq 1 .. Len(log[c])
  /\ acked \in [Tabs -> Nat]
  /\ \A t \in Tabs, c \in Convs : seen[t][c] = None \/ seen[t][c] \in [Users -> Nat]
  /\ off \in [Tabs -> SUBSET Convs] /\ risk \in [Procs -> SUBSET Convs]

Init ==
  /\ key = [c \in Convs |-> None]
  /\ log = [c \in Convs |-> <<>>]
  /\ cursor = [c \in Convs |-> [u \in Users |-> 0]]
  /\ pc = [p \in Procs |-> "idle"]
  /\ req = [p \in Procs |-> NoReq]
  /\ link = Tabs
  /\ rooms = [t \in Tabs |-> {}]
  /\ loaded = {}
  /\ badge = [t \in Tabs |-> [c \in Convs |-> None]]
  /\ at = [t \in Tabs |-> None]
  /\ paged = [t \in Tabs |-> {}]
  /\ hist = [t \in Tabs |-> [c \in Convs |-> <<>>]]
  /\ acked = [t \in Tabs |-> 0]
  /\ seen = [t \in Tabs |-> [c \in Convs |-> None]]
  /\ off = [t \in Tabs |-> {}]
  /\ risk = [p \in Procs |-> {}]

-----------------------------------------------------------------------------
(* What the queries count. *)

MembersOf(c) == IF key[c] = None THEN {} ELSE key[c]
ConvsOf(u) == {c \in Convs : u \in MembersOf(c)}

CountsAsUnread(m, u) == ~m.gone /\ m.by # u /\ ~m.system

(* unreadCountIn: the cursor is the caller's, not read again.               *)
UnreadFrom(c, u, from) ==
  Cardinality({n \in from + 1 .. Len(log[c]) : CountsAsUnread(log[c][n], u)})

Unread(c, u) == UnreadFrom(c, u, cursor[c][u])

WithKey(pair) == {c \in Convs : key[c] = pair}

-----------------------------------------------------------------------------
(* History: what may go wrong with a list. *)

(* p has written to its conversation and not told its members yet.          *)
Owes(p) == (pc[p] = "announce" /\ req[p].kind # "read") \/ (pc[p] = "count" /\ req[p].made)
UntoldBy(ps, c) == \E p \in ps : Owes(p) /\ req[p].conv = c
Untold(c) == UntoldBy(Procs, c)
Unmarked(c) == \E p \in Procs : pc[p] = "mark" /\ req[p].conv = c

Doubt(ts, c) == off' = [t \in Tabs |-> IF t \in ts THEN off[t] \cup {c} ELSE off[t]]
(* p changes something about c while others prepare their answers.          *)
Overtake(p, c) ==
  risk' = [q \in Procs |-> IF q # p /\ req[q].kind \in {"open", "list"} THEN risk[q] \cup {c}
                           ELSE risk[q]]
Settle(p) == risk' = [risk EXCEPT ![p] = {}]

(* If the cursor of t's user moves in another tab, or by sending.           *)
Miscounts(t, c) == badge[t][c] \notin {0, None} \/ Untold(c)

(* t has acknowledged everything it was told of c. *)
UpToDate(t, c) == at[t] = c /\ hist[t][c] # <<>> /\ acked[t] = hist[t][c][1]
ReadAll(t, c) == c \in paged[t] /\ (hist[t][c] = <<>> \/ UpToDate(t, c))
(* Or it leaves the page for that of c. *)
LeftUnread(t, c) == {d \in Convs : at[t] = d /\ d # c /\ ~ReadAll(t, d)}

TabsOf(u) == {t \in Tabs : UserOf[t] = u}
Deaf(c) == {t \in Tabs : t \notin link \/ c \notin rooms[t]}

-----------------------------------------------------------------------------
(* Requests and handlers in general. *)

Idle(p) == pc[p] = "idle"

Begin(p, step, r) ==
  /\ Idle(p)
  /\ pc' = [pc EXCEPT ![p] = step]
  /\ req' = [req EXCEPT ![p] = r]

Goto(p, step, r) ==
  /\ pc' = [pc EXCEPT ![p] = step]
  /\ req' = [req EXCEPT ![p] = r]

Finish(p) == Goto(p, "idle", NoReq)

(* A query of p fixes part of its answer. *)
Look(p) ==
  risk' = [risk EXCEPT ![p] = @ \cup {c \in Convs : UntoldBy(Procs \ {p}, c) \/ Unmarked(c)}]

(* Nobody hears of it: an error, a response lost or an instance that dies.  *)
Die(p) ==
  LET c == req[p].conv IN
  /\ ~Idle(p)
  /\ Finish(p)
  /\ CASE Owes(p) -> Doubt(Tabs, c)
       [] pc[p] = "mark" -> Doubt({req[p].tab}, c)
       [] OTHER -> UNCHANGED off
  /\ risk' = [q \in Procs |->
       CASE q = p -> {}
         [] Owes(p) /\ req[q].kind \in {"open", "list"} -> risk[q] \cup {c}
         [] OTHER -> risk[q]]
  /\ UNCHANGED <<serverVars, tabVars>>

-----------------------------------------------------------------------------
(* What the browser does with an answer or an event. *)

(* upsertConversation: a list not loaded becomes a list of one.             *)
Upsert(ts, c, unread) ==
  /\ badge' = [t \in Tabs |-> IF t \in ts THEN [badge[t] EXCEPT ![c] = unread] ELSE badge[t]]
  /\ loaded' = loaded \cup ts

(* A new page has acknowledged nothing.                                     *)
GoTo(t, c) ==
  /\ at' = [at EXCEPT ![t] = c]
  /\ acked' = [acked EXCEPT ![t] = IF at[t] = c THEN @ ELSE 0]

(* advanceReadCursor, on a detail the tab holds. *)
Advance(t, c, u, n) ==
  IF seen[t][c] # None /\ seen[t][c][u] < n THEN [seen[t] EXCEPT ![c][u] = n]
  ELSE seen[t]

(* receiptFor message n. *)
Readers(t, c, n) ==
  IF seen[t][c] = None THEN {}
  ELSE {u \in MembersOf(c) \ {UserOf[t]} : seen[t][c][u] >= n}

-----------------------------------------------------------------------------
(* openDirect. *)

OpenDirect(p, t, peer) ==
  /\ peer # UserOf[t]
  /\ Begin(p, "find", [Req("open", t, None) EXCEPT !.peer = peer])
  /\ UNCHANGED <<serverVars, tabVars, doubts>>

KeyOf(r) == {r.user, r.peer}

(* The row with its members' cursors; the unread count is another query.    *)
Found(p, c) ==
  /\ Goto(p, "count", [req[p] EXCEPT !.conv = c, !.cur = cursor[c]])
  /\ Look(p)
  /\ UNCHANGED <<serverVars, tabVars, off>>

Find(p) ==
  /\ pc[p] = "find"
  /\ IF WithKey(KeyOf(req[p])) = {}
     THEN Goto(p, "insert", req[p]) /\ UNCHANGED <<serverVars, tabVars, doubts>>
     ELSE \E c \in WithKey(KeyOf(req[p])) : Found(p, c)

MutInsert(p) ==
  /\ pc[p] = "insert"
  /\ \E c \in Convs :
       /\ key[c] = None
       /\ key' = [key EXCEPT ![c] = KeyOf(req[p])]
       /\ Goto(p, "count", [req[p] EXCEPT !.conv = c, !.made = TRUE])
  /\ Look(p)
  /\ UNCHANGED <<log, cursor, tabVars, off>>
(* One INSERT of conversation and members; the unique key lets one through. *)
Insert(p) ==
  /\ pc[p] = "insert"
  /\ WithKey(KeyOf(req[p])) = {}
  /\ \E c \in Convs :
       /\ key[c] = None
       /\ key' = [key EXCEPT ![c] = KeyOf(req[p])]
       /\ Goto(p, "count", [req[p] EXCEPT !.conv = c, !.made = TRUE])
  /\ Look(p)
  /\ UNCHANGED <<log, cursor, tabVars, off>>

Raced(p) ==
  /\ pc[p] = "insert"
  /\ WithKey(KeyOf(req[p])) # {}
  /\ Goto(p, "again", req[p])
  /\ UNCHANGED <<serverVars, tabVars, doubts>>

FindAgain(p) ==
  /\ pc[p] = "again"
  /\ \E c \in WithKey(KeyOf(req[p])) : Found(p, c)

Count(p) ==
  LET r == req[p] IN
  /\ pc[p] = "count"
  /\ Goto(p, IF r.made THEN "announce" ELSE "reply",
           [r EXCEPT !.count = UnreadFrom(r.conv, r.user, r.cur[r.user])])
  /\ Look(p)
  /\ UNCHANGED <<serverVars, tabVars, off>>

MutAnnounceMade(p) ==
  LET c == req[p].conv
      theirs == {t \in link : UserOf[t] \in key[c]}
      told == theirs \cap TabsOf(req[p].user)
  IN
  /\ pc[p] = "announce" /\ req[p].kind = "open"
  /\ rooms' = [t \in Tabs |-> IF t \in theirs THEN rooms[t] \cup {c} ELSE rooms[t]]
  /\ Upsert(told, c, 0)
  /\ Goto(p, "reply", req[p])
  /\ Doubt(IF log[c] = <<>> THEN Tabs \ theirs ELSE Tabs, c)
  /\ Overtake(p, c)
  /\ UNCHANGED <<serverVars, link, at, paged, hist, acked, seen>>
(* conversationCreated: the members' sockets join the room, then every      *)
(* member's user room gets conversation:upsert with an unread count of 0.   *)
AnnounceMade(p) ==
  LET c == req[p].conv
      theirs == {t \in link : UserOf[t] \in key[c]}
  IN
  /\ pc[p] = "announce" /\ req[p].kind = "open"
  /\ rooms' = [t \in Tabs |-> IF t \in theirs THEN rooms[t] \cup {c} ELSE rooms[t]]
  /\ Upsert(theirs, c, 0)
  /\ Goto(p, "reply", req[p])
  /\ Doubt(IF log[c] = <<>> THEN Tabs \ theirs ELSE Tabs, c)
  /\ Overtake(p, c)
  /\ UNCHANGED <<serverVars, link, at, paged, hist, acked, seen>>

(* onSuccess: the detail, the list entry, and (goTo) the page.              *)
Opened(p) ==
  LET r == req[p]
      c == r.conv
  IN
  /\ pc[p] = "reply" /\ r.kind = "open"
  /\ Finish(p)
  /\ seen' = [seen EXCEPT ![r.tab][c] = r.cur]
  /\ Upsert({r.tab}, c, r.count)
  /\ GoTo(r.tab, c)
  /\ off' = [off EXCEPT ![r.tab] =
       (@ \ {c}) \cup (risk[p] \cap {c}) \cup LeftUnread(r.tab, c)]
  /\ Settle(p)
  /\ UNCHANGED <<serverVars, link, rooms, paged, hist>>

-----------------------------------------------------------------------------
(* The list: two queries at once, in either order, not of one snapshot.     *)

AskList(p, t) ==
  /\ \A q \in Procs : ~(req[q].kind = "list" /\ req[q].tab = t)
  /\ Begin(p, "read", Req("list", t, None))
  /\ UNCHANGED <<serverVars, tabVars, doubts>>

ReadList(p) ==
  LET r == req[p] IN
  /\ pc[p] = "read" /\ r.kind = "list"
  /\ \/ /\ r.rows = None
        /\ req' = [req EXCEPT ![p].rows = ConvsOf(r.user)]
     \/ /\ r.counts = None
        /\ req' = [req EXCEPT ![p].counts = [c \in Convs |-> Unread(c, r.user)]]
  /\ pc' = [pc EXCEPT ![p] = IF req'[p].rows # None /\ req'[p].counts # None
                             THEN "reply" ELSE "read"]
  /\ Look(p)
  /\ UNCHANGED <<serverVars, tabVars, off>>

(* The answer replaces the list, whatever came in meanwhile.                *)
ListLoads(p) ==
  LET r == req[p] IN
  /\ pc[p] = "reply" /\ r.kind = "list"
  /\ Finish(p)
  /\ loaded' = loaded \cup {r.tab}
  /\ badge' = [badge EXCEPT ![r.tab] =
       [c \in Convs |-> IF c \in r.rows THEN r.counts[c] ELSE None]]
  /\ off' = [off EXCEPT ![r.tab] = risk[p]]
  /\ Settle(p)
  /\ UNCHANGED <<serverVars, link, rooms, at, paged, hist, acked, seen>>

-----------------------------------------------------------------------------
(* The page of a conversation: its history and its detail.                  *)

Visit(t, c) ==
  /\ c # at[t]
  /\ c \in {None} \cup {d \in Convs : badge[t][d] # None}
  /\ GoTo(t, c)
  /\ off' = [off EXCEPT ![t] = @ \cup LeftUnread(t, c)]
  /\ UNCHANGED <<serverVars, flight, link, rooms, loaded, badge, paged, hist, seen, risk>>

AskPage(p, t) ==
  /\ at[t] # None
  /\ \E kind \in {"page", "detail"} :
       /\ \A q \in Procs : ~(req[q].kind = kind /\ req[q].tab = t)
       /\ Begin(p, "read", Req(kind, t, at[t]))
  /\ UNCHANGED <<serverVars, tabVars, doubts>>

ReadPage(p) ==
  LET r == req[p] IN
  /\ pc[p] = "read" /\ r.kind \in {"page", "detail"}
  /\ Goto(p, "reply",
           IF r.kind = "detail" THEN [r EXCEPT !.cur = cursor[r.conv]]
           ELSE [r EXCEPT !.items = [i \in DOMAIN log[r.conv] |-> Len(log[r.conv]) + 1 - i]])
  /\ UNCHANGED <<serverVars, tabVars, doubts>>

PageLoads(p) ==
  LET r == req[p] IN
  /\ pc[p] = "reply" /\ r.kind \in {"page", "detail"}
  /\ Finish(p)
  /\ IF r.kind = "detail"
     THEN seen' = [seen EXCEPT ![r.tab][r.conv] = r.cur] /\ UNCHANGED <<paged, hist, off>>
     ELSE /\ paged' = [paged EXCEPT ![r.tab] = @ \cup {r.conv}]
          /\ hist' = [hist EXCEPT ![r.tab][r.conv] = r.items]
          /\ Doubt(IF Len(r.items) = Len(log[r.conv]) THEN {} ELSE {r.tab}, r.conv)
          /\ UNCHANGED seen
  /\ UNCHANGED <<serverVars, link, rooms, loaded, badge, at, acked, risk>>

-----------------------------------------------------------------------------
(* Messages. *)

Send(p, t) ==
  /\ at[t] # None /\ t \in link
  /\ Begin(p, "store", Req("send", t, at[t]))
  /\ UNCHANGED <<serverVars, tabVars, doubts>>

(* A call between the two is over: the server posts a message as the caller. *)
Note(p, c, u) ==
  /\ u \in MembersOf(c)
  /\ Begin(p, "store", [NoReq EXCEPT !.kind = "note", !.user = u, !.conv = c])
  /\ UNCHANGED <<serverVars, tabVars, doubts>>

Delete(p, t, n) ==
  LET c == at[t] IN
  /\ c # None /\ t \in link
  /\ Contains(hist[t][c], n)
  /\ log[c][n].by = UserOf[t] /\ ~log[c][n].gone /\ ~log[c][n].system
  /\ Begin(p, "store", [Req("delete", t, c) EXCEPT !.n = n])
  /\ UNCHANGED <<serverVars, tabVars, doubts>>

(* A message sent is read by its author, a system message is not.           *)
Store(p) ==
  LET r == req[p]
      c == r.conv
  IN
  /\ pc[p] = "store"
  /\ log' = IF r.kind = "delete" THEN [log EXCEPT ![c][r.n].gone = TRUE]
            ELSE [log EXCEPT ![c] = Append(@, Entry(r.user, r.kind = "note"))]
  /\ cursor' = IF r.kind = "send" THEN [cursor EXCEPT ![c][r.user] = Len(log'[c])]
               ELSE cursor
  /\ Goto(p, "announce", IF r.kind = "delete" THEN r ELSE [r EXCEPT !.n = Len(log'[c])])
  /\ CASE r.kind = "send" ->
            Doubt({t \in TabsOf(r.user) : Miscounts(t, c)}, c) /\ Overtake(p, c)
       [] r.kind = "delete" -> Doubt(Tabs, c) /\ Overtake(p, c)
       [] OTHER -> UNCHANGED doubts
  /\ UNCHANGED <<key, tabVars>>

MutCounts(t, c, m) == m.by # UserOf[t] /\ at[t] # c
Counts(t, c, m) == m.by # UserOf[t] /\ at[t] # c /\ ~m.system

(* message:new: the history if there is one, the author's cursor, the badge *)
(* if c is on the list.  (message:deleted changes none of these.)           *)
AnnounceMessage(p) ==
  LET r == req[p]
      c == r.conv
      n == r.n
      hearers == Tabs \ Deaf(c)
      append == {t \in hearers : c \in paged[t] /\ ~Contains(hist[t][c], n)}
      counted == {t \in hearers : badge[t][c] # None /\ Counts(t, c, log[c][n])}
  IN
  /\ pc[p] = "announce" /\ r.kind \in {"send", "note", "delete"}
  /\ Finish(p)
  /\ IF r.kind = "delete" THEN UNCHANGED <<hist, badge, seen, doubts>>
     ELSE /\ hist' = [t \in Tabs |-> IF t \in append THEN [hist[t] EXCEPT ![c] = <<n>> \o @]
                                     ELSE hist[t]]
          /\ badge' = [t \in Tabs |-> IF t \in counted THEN [badge[t] EXCEPT ![c] = @ + 1]
                                      ELSE badge[t]]
          /\ seen' = [t \in Tabs |-> IF t \in hearers THEN Advance(t, c, r.user, n)
                                     ELSE seen[t]]
          /\ Doubt(Deaf(c), c)
          /\ Overtake(p, c)
  /\ UNCHANGED <<serverVars, link, rooms, loaded, at, paged, acked>>

(* useMarkRead: once for each newest message of the page; the badge goes to *)
(* 0 at once.  An acknowledgement lost with the connection is not repeated. *)
Acknowledge(p, t) ==
  LET c == at[t] IN
  /\ c # None /\ t \in link
  /\ hist[t][c] # <<>> /\ ~UpToDate(t, c)
  /\ acked' = [acked EXCEPT ![t] = hist[t][c][1]]
  /\ badge' = IF badge[t][c] = None THEN badge ELSE [badge EXCEPT ![t][c] = 0]
  /\ \/ /\ Begin(p, "mark", [Req("read", t, c) EXCEPT !.n = hist[t][c][1]])
        /\ IF Untold(c) \/ hist[t][c][1] # Len(log[c]) THEN Doubt({t}, c) ELSE UNCHANGED off
     \/ Idle(p) /\ UNCHANGED flight /\ Doubt({t}, c)
  /\ Overtake(p, c)
  /\ UNCHANGED <<serverVars, link, rooms, loaded, at, paged, hist, seen>>

(* read:ack on the server: the cursor never moves back. *)
Mark(p) ==
  LET r == req[p]
      c == r.conv
  IN
  /\ pc[p] = "mark"
  /\ IF cursor[c][r.user] < r.n
     THEN /\ cursor' = [cursor EXCEPT ![c][r.user] = r.n]
          /\ Goto(p, "announce", r)
          /\ Doubt({t \in TabsOf(r.user) \ {r.tab} : Miscounts(t, c)}, c)
          /\ Overtake(p, c)
     ELSE Finish(p) /\ UNCHANGED <<cursor, doubts>>
  /\ UNCHANGED <<key, log, tabVars>>

MutAnnounceRead(p) ==
  LET r == req[p]
      c == r.conv
  IN
  /\ pc[p] = "announce" /\ r.kind = "read"
  /\ Finish(p)
  /\ seen' = [t \in Tabs |-> IF t \in Deaf(c) THEN seen[t]
                             ELSE Advance(t, c, r.user, Len(log[c]))]
  /\ UNCHANGED <<serverVars, link, rooms, loaded, badge, at, paged, hist, acked, doubts>>
(* read:update: the reader's cursor in every detail held; not the badges of *)
(* the reader's own other tabs.                                             *)
AnnounceRead(p) ==
  LET r == req[p]
      c == r.conv
  IN
  /\ pc[p] = "announce" /\ r.kind = "read"
  /\ Finish(p)
  /\ seen' = [t \in Tabs |-> IF t \in Deaf(c) THEN seen[t] ELSE Advance(t, c, r.user, r.n)]
  /\ UNCHANGED <<serverVars, link, rooms, loaded, badge, at, paged, hist, acked, doubts>>

-----------------------------------------------------------------------------
(* The connection.  Reconnecting asks for nothing that was missed.          *)

Drop(t) ==
  /\ t \in link
  /\ link' = link \ {t}
  /\ rooms' = [rooms EXCEPT ![t] = {}]
  /\ UNCHANGED <<serverVars, flight, loaded, badge, at, paged, hist, acked, seen, doubts>>

Connect(t) ==
  /\ t \notin link
  /\ link' = link \cup {t}
  /\ rooms' = [rooms EXCEPT ![t] = ConvsOf(UserOf[t])]
  /\ UNCHANGED <<serverVars, flight, loaded, badge, at, paged, hist, acked, seen, doubts>>

-----------------------------------------------------------------------------
Ask(p) ==
  \/ \E t \in Tabs : \/ \E peer \in Users : OpenDirect(p, t, peer)
                     \/ AskList(p, t) \/ AskPage(p, t) \/ Send(p, t)
                     \/ at[t] # None /\ (\E n \in DOMAIN log[at[t]] : Delete(p, t, n))
  \/ \E c \in Convs, u \in Users : Note(p, c, u)

Serve(p) ==
  \/ Find(p) \/ Insert(p) \/ Raced(p) \/ FindAgain(p) \/ Count(p) \/ AnnounceMade(p)
  \/ ReadList(p) \/ ReadPage(p)
  \/ Store(p) \/ AnnounceMessage(p) \/ Mark(p) \/ AnnounceRead(p)

Answer(p) == Opened(p) \/ ListLoads(p) \/ PageLoads(p)

Next ==
  \/ \E p \in Procs : Ask(p) \/ Serve(p) \/ Answer(p) \/ Die(p)
  \/ \E p \in Procs, t \in Tabs : Acknowledge(p, t)
  \/ \E t \in Tabs : Drop(t) \/ Connect(t) \/ \E c \in Convs \cup {None} : Visit(t, c)

Spec == Init /\ [][Next]_vars

-----------------------------------------------------------------------------
(* Properties.                                                             *)
(*                                                                         *)
(* The list of t may be wrong about c (off[t]) when, since it was counted, *)
(* t was not connected or not in the room as c's event came; an answer was *)
(* overtaken by an event, or counted what was not announced yet; another   *)
(* tab of the same user read or wrote; a message was deleted, or read      *)
(* before it was announced; the page was left with messages not loaded or  *)
(* acknowledged; an acknowledgement was lost or its handler died.          *)

Quiet(t, c) ==
  /\ \A p \in Procs : /\ req[p].conv # c
                      /\ ~(req[p].kind = "list" /\ req[p].tab = t)
                      /\ ~(req[p].kind = "open" /\ KeyOf(req[p]) = key[c])
  /\ at[t] = c => ReadAll(t, c)

(* Two people have one conversation, however many requests open it at once, *)
(* and the request that loses the race finds it.                            *)
OneConversation ==
  /\ \A c, d \in Convs : key[c] # None /\ key[c] = key[d] => c = d
  /\ \A p \in Procs : pc[p] = "again" => WithKey(KeyOf(req[p])) # {}
  /\ \A p \in Procs : pc[p] = "reply" /\ req[p].kind = "open" =>
                        key[req[p].conv] = KeyOf(req[p])

(* A loaded list has the conversations of its user, whoever opened them.    *)
EveryoneListsIt ==
  \A t \in loaded, c \in Convs :
    Quiet(t, c) /\ c \notin off[t] =>
      (badge[t][c] # None <=> c \in ConvsOf(UserOf[t]))

(* An unread count is the server's: what the browser adds for events and    *)
(* sets to 0 for reading is what the cursor and the messages give.          *)
BadgeIsHonest ==
  \A t \in loaded, c \in Convs :
    Quiet(t, c) /\ c \notin off[t] /\ badge[t][c] # None =>
      badge[t][c] = Unread(c, UserOf[t])

(* "Seen" is shown of what the reader's cursor covers; except that a system *)
(* message, which moves no cursor, is taken for a sign that the caller it   *)
(* is posted for has read everything before it.                             *)
SeenIsTrue ==
  \A t \in Tabs, c \in Convs : \A n \in DOMAIN log[c] : \A u \in Readers(t, c, n) :
    \/ n <= cursor[c][u]
    \/ \E s \in n .. seen[t][c][u] : log[c][s].system /\ log[c][s].by = u
=============================================================================
