-------------------------------- MODULE Chat --------------------------------
(***************************************************************************)
(* What the browsers show of the conversation of Messages: the query       *)
(* caches of features/message/queries.ts, fed by acknowledgements, by the  *)
(* events of realtime/use-realtime-sync.ts and by history requests, and    *)
(* the outbox of messages being sent.                                      *)
(*                                                                         *)
(* An event reaches every connected client in the step that emits it: a    *)
(* later delivery is the same as a later step of the handler.  A history   *)
(* comes in pages; a request reads its page in the step that answers it.   *)
(***************************************************************************)
EXTENDS Messages

CONSTANTS
  Clients,  \* browser tabs
  UserOf,   \* UserOf[c]: who is signed in at c
  HomeOf,   \* HomeOf[m]: the tab m is written in
  PageSize  \* LIMITS.page.default

ASSUME ClientAssumption ==
  /\ UserOf \in [Clients -> Users]
  /\ HomeOf \in [Msgs -> Clients]
  /\ \A m \in Msgs : UserOf[HomeOf[m]] = AuthorOf[m]
ASSUME NobodyAssumption == None \notin Clients
ASSUME PageSizeAssumption == PageSize \in Nat \ {0}

VARIABLES
  link,    \* the clients whose socket is connected and in the room
  cache,   \* cache[c]: the history c holds
  outbox,  \* outbox[m]: "new", "sending", "failed" or "gone" (dropPending)
  fetch,   \* fetch[c]: the pages a history request of c is to come to, or 0
  reply,   \* reply[c]: the pages it has come to
  asker    \* asker[p]: the client that still waits for p's acknowledgement

clientVars == <<link, cache, outbox, fetch, reply, asker>>
chatVars == <<vars, clientVars>>

(* items: the messages, newest first; rows: their content as shown; more:  *)
(* is there a page after the last?  doubt is history: the messages that    *)
(* may be missing or wrong (see Properties).                               *)
Copies == [items : Seq(Msgs), rows : [Msgs -> Rows], pages : Nat, more : BOOLEAN,
           doubt : SUBSET Msgs]
NoCopy == [items |-> <<>>, rows |-> [m \in Msgs |-> NewRow], pages |-> 0, more |-> FALSE,
           doubt |-> {}]

ChatTypeOK ==
  /\ TypeOK
  /\ link \subseteq Clients
  /\ cache \in [Clients -> Copies]
  /\ outbox \in [Msgs -> {"new", "sending", "failed", "gone"}]
  /\ fetch \in [Clients -> Nat]
  /\ reply \in [Clients -> Copies]
  /\ asker \in [Procs -> Clients \cup {None}]

ChatInit ==
  /\ Init
  /\ link = Clients
  /\ cache = [c \in Clients |-> NoCopy]
  /\ outbox = [m \in Msgs |-> "new"]
  /\ fetch = [c \in Clients |-> 0]
  /\ reply = [c \in Clients |-> NoCopy]
  /\ asker = [p \in Procs |-> None]

Loaded(c) == cache[c].pages > 0

-----------------------------------------------------------------------------
(* The cache operations. *)

Shows(c, m) == m \in ToSet(cache[c].items)

(* appendMessage: a history not loaded, or that has m, stays as it is.      *)
MutAppends(c, m) == Loaded(c)
Appends(c, m) == Loaded(c) /\ ~Shows(c, m)

MutPatched(c, r, acknowledged) ==
  LET old == cache[c].rows[r.msg] IN
  CASE acknowledged /\ r.kind \in {"edit", "react"} -> r.copy
    [] ~acknowledged /\ r.kind = "edit" -> [old EXCEPT !.body = r.copy.body]
    [] r.kind = "delete" -> [old EXCEPT !.deleted = TRUE]
    [] ~acknowledged /\ r.kind = "react" /\ r.copy.reacts # {} ->
         [old EXCEPT !.reacts = r.copy.reacts]
    [] OTHER -> old
(* The content c shows once it has heard of r (an event, or the row that    *)
(* acknowledges it); patchMessage touches only what is shown.               *)
Patched(c, r, acknowledged) ==
  LET old == cache[c].rows[r.msg] IN
  CASE acknowledged /\ r.kind \in {"edit", "react"} -> r.copy
    [] ~acknowledged /\ r.kind = "edit" -> [old EXCEPT !.body = r.copy.body]
    [] r.kind = "delete" -> [old EXCEPT !.deleted = TRUE]
    [] ~acknowledged /\ r.kind = "react" -> [old EXCEPT !.reacts = r.copy.reacts]
    [] OTHER -> old

(* history: a message stored after m is shown already. *)
Late(x, m) ==
  \E i, j \in 1 .. Len(log) : i < j /\ log[i] = m /\ log[j] \in ToSet(x.items)

(* c's history once it has learned of r: a message is appended to the first *)
(* page, wherever its place is; anything else patches what is shown.        *)
Updated(c, r, acknowledged) ==
  LET x == cache[c] IN
  CASE r.kind = "send" /\ Appends(c, r.msg) ->
         [x EXCEPT !.items = <<r.msg>> \o @, !.rows[r.msg] = r.copy,
                   !.doubt = IF Late(x, r.msg) THEN @ \cup {r.msg} ELSE @]
    [] r.kind # "send" /\ Shows(c, r.msg) ->
         [x EXCEPT !.rows[r.msg] = Patched(c, r, acknowledged)]
    [] OTHER -> x

(* history: what x, once read, says of m may be wrong from now on.          *)
Doubt(x, m) == IF x.pages > 0 THEN [x EXCEPT !.doubt = @ \cup {m}] ELSE x

(* The clients in hearers learn of r, the one that waits for it (if it      *)
(* does) also by its acknowledgement; those in unsure may be wrong.         *)
Hear(hearers, r, waiting, unsure) ==
  /\ cache' = [c \in Clients |->
       LET x == IF c \in hearers THEN Updated(c, r, c = waiting) ELSE cache[c]
       IN IF c \in unsure THEN Doubt(x, r.msg) ELSE x]
  /\ outbox' = IF r.kind = "send" /\ HomeOf[r.msg] \in hearers
               THEN [outbox EXCEPT ![r.msg] = "gone"] ELSE outbox

Forget(p) == asker' = [asker EXCEPT ![p] = None]

(* history: so may be what a request under way has read of it.              *)
DoubtReplies(m) == reply' = [c \in Clients |-> Doubt(reply[c], m)]
DoubtAll(m) ==
  /\ cache' = [c \in Clients |-> Doubt(cache[c], m)]
  /\ DoubtReplies(m)

(* A handler has written m and not yet told everybody. *)
Untold(m) == \E p \in Procs : At(p, "announce") /\ req[p].msg = m

(* Another change of the message is untold, or newer than p's snapshot.     *)
Crosses(p) ==
  LET r == req[p] IN Untold(r.msg) \/ (r.kind # "delete" /\ r.copy # row[r.msg])

-----------------------------------------------------------------------------
(* Requests of a client.  The socket may be lost before one arrives.        *)

Composable(m) == outbox[m] = "failed" \/ outbox[m] = "new"

(* useSendMessage, also for a retry: the same clientMsgId.                  *)
Compose(p, m) ==
  /\ Composable(m)
  /\ HomeOf[m] \in link
  /\ outbox' = [outbox EXCEPT ![m] = "sending"]
  /\ Send(p, m)
  /\ asker' = [asker EXCEPT ![p] = HomeOf[m]]
  /\ UNCHANGED <<link, cache, fetch, reply>>

ComposeLost(m) ==
  /\ Composable(m)
  /\ outbox' = [outbox EXCEPT ![m] = IF HomeOf[m] \in link THEN "sending" ELSE "failed"]
  /\ UNCHANGED <<vars, link, cache, fetch, reply, asker>>

(* No acknowledgement within ten seconds; a later one is not heard.         *)
SendTimesOut(m) ==
  /\ outbox[m] = "sending"
  /\ outbox' = [outbox EXCEPT ![m] = "failed"]
  /\ asker' = [p \in Procs |-> IF req[p].kind = "send" /\ req[p].msg = m THEN None
                               ELSE asker[p]]
  /\ UNCHANGED <<vars, link, cache, fetch, reply>>

Alter(p, c, m) ==
  /\ c \in link
  /\ Shows(c, m) /\ ~cache[c].rows[m].deleted
  /\ \/ UserOf[c] = AuthorOf[m] /\ ((\E b \in Bodies : Edit(p, m, b)) \/ Delete(p, m))
     \/ React(p, m, UserOf[c])
  /\ asker' = [asker EXCEPT ![p] = c]
  /\ UNCHANGED <<link, cache, outbox, fetch, reply>>

(* useMarkRead: the newest message shown. *)
Look(p, c) ==
  /\ c \in link
  /\ cache[c].items # <<>>
  /\ \E n \in 1 .. Len(log) : log[n] = Head(cache[c].items) /\ Read(p, UserOf[c], n)
  /\ UNCHANGED clientVars

-----------------------------------------------------------------------------
(* The server's steps, and what the clients hear of them. *)

WriteFor(p) ==
  /\ Write(p)
  /\ IF Change(p) /\ Crosses(p) THEN DoubtAll(req[p].msg) ELSE UNCHANGED <<cache, reply>>
  /\ UNCHANGED <<link, outbox, fetch, asker>>

(* A message announced after a later one was stored comes in another order. *)
AnnounceToAll(p) ==
  LET r == req[p]
      late == r.kind = "send" /\ r.msg # Last(log)
  IN
  /\ Announce(p)
  /\ IF r.kind = "read" THEN UNCHANGED <<cache, outbox, reply, asker>>
     ELSE /\ \E waiting \in {asker[p], None} :
               Hear(link, r, waiting, IF late THEN Clients ELSE Clients \ link)
          /\ DoubtReplies(r.msg)
          /\ IF r.kind = "send" THEN UNCHANGED asker ELSE Forget(p)
  /\ UNCHANGED <<link, fetch>>

(* The acknowledgement, unless nobody waits for it any more. *)
ReplyToAsker(p) ==
  LET r == req[p]
      c == asker[p]
  IN
  /\ Reply(p)
  /\ Forget(p)
  /\ IF c = None THEN UNCHANGED <<cache, outbox>> ELSE Hear({c}, r, c, {})
  /\ UNCHANGED <<link, fetch, reply>>

MutErrorToAsker(p) ==
  /\ ReplyError(p)
  /\ outbox' = IF asker[p] # None /\ req[p].kind = "send"
               THEN [outbox EXCEPT ![req[p].msg] = "gone"] ELSE outbox
  /\ Forget(p)
  /\ UNCHANGED <<link, cache, fetch, reply>>
ErrorToAsker(p) ==
  /\ ReplyError(p)
  /\ outbox' = IF asker[p] # None /\ req[p].kind = "send" /\ outbox[req[p].msg] = "sending"
               THEN [outbox EXCEPT ![req[p].msg] = "failed"] ELSE outbox
  /\ Forget(p)
  /\ UNCHANGED <<link, cache, fetch, reply>>

RefuseFor(p) == Refuse(p) /\ UNCHANGED clientVars

DieWith(p) ==
  /\ Die(p)
  /\ Forget(p)
  /\ IF At(p, "announce") /\ req[p].kind # "read"
     THEN DoubtAll(req[p].msg) ELSE UNCHANGED <<cache, reply>>
  /\ UNCHANGED <<link, outbox, fetch>>

-----------------------------------------------------------------------------
(* The history requests (useMessageHistory) and the connection. *)

(* The history is read, or all of its pages are read again, one request     *)
(* after another.                                                           *)
Ask(c) ==
  /\ fetch[c] = 0
  /\ fetch' = [fetch EXCEPT ![c] = IF Loaded(c) THEN cache[c].pages ELSE 1]
  /\ UNCHANGED <<vars, link, cache, outbox, reply, asker>>

(* fetchNextPage, from "Older messages" or by scrolling: the page to come   *)
(* is added to the pages held now.  A request to read them again that is    *)
(* under way is given up.                                                   *)
AskOlder(c) ==
  /\ Loaded(c) /\ cache[c].more
  /\ fetch[c] <= cache[c].pages
  /\ fetch' = [fetch EXCEPT ![c] = cache[c].pages + 1]
  /\ reply' = [reply EXCEPT ![c] = cache[c]]
  /\ UNCHANGED <<vars, link, cache, outbox, asker>>

(* Ids grow as messages are stored: the place in the log stands for the id. *)
Place(m) == CHOOSE i \in 1 .. Len(log) : log[i] = m

(* page: the messages before the last of x, newest first.                   *)
NextPage(x) ==
  LET end == IF x.items = <<>> THEN Len(log) ELSE Place(Last(x.items)) - 1
  IN [i \in 1 .. (IF end > PageSize THEN PageSize ELSE end) |-> log[end + 1 - i]]

(* One page more is read; what of it is not announced yet may still go      *)
(* wrong.                                                                   *)
Complete(c) == reply[c].pages > 0 /\ (reply[c].pages >= fetch[c] \/ ~reply[c].more)

Answer(c) ==
  LET x == reply[c]
      page == NextPage(x)
      items == x.items \o page
  IN
  /\ fetch[c] > 0 /\ ~Complete(c)
  /\ reply' = [reply EXCEPT ![c] =
       [items |-> items,
        rows |-> [m \in Msgs |-> IF m \in ToSet(page) THEN row[m] ELSE x.rows[m]],
        pages |-> x.pages + 1,
        more |-> page # <<>> /\ Last(page) # Head(log),
        doubt |-> (x.doubt \ (ToSet(page) \ ToSet(x.items)))
                    \cup {m \in ToSet(page) : Untold(m)}]]
  /\ UNCHANGED <<vars, link, cache, outbox, fetch, asker>>

(* The result replaces whatever the cache holds. *)
Load(c) ==
  /\ fetch[c] > 0 /\ Complete(c)
  /\ fetch' = [fetch EXCEPT ![c] = 0]
  /\ cache' = [cache EXCEPT ![c] = reply[c]]
  /\ reply' = [reply EXCEPT ![c] = NoCopy]
  /\ UNCHANGED <<vars, link, outbox, asker>>

Drop(c) ==
  /\ c \in link
  /\ link' = link \ {c}
  /\ asker' = [p \in Procs |-> IF asker[p] = c THEN None ELSE asker[p]]
  /\ UNCHANGED <<vars, cache, outbox, fetch, reply>>

Reconnect(c) ==
  /\ c \notin link
  /\ link' = link \cup {c}
  /\ UNCHANGED <<vars, cache, outbox, fetch, reply, asker>>

-----------------------------------------------------------------------------
ChatStart(p) ==
  \/ \E m \in Msgs : Compose(p, m)
  \/ \E c \in Clients : Look(p, c) \/ \E m \in Msgs : Alter(p, c, m)

ChatStep(p) ==
  \/ WriteFor(p) \/ AnnounceToAll(p) \/ ReplyToAsker(p)
  \/ RefuseFor(p) \/ ErrorToAsker(p)

ChatNext ==
  \/ \E p \in Procs : ChatStart(p) \/ ChatStep(p) \/ DieWith(p)
  \/ \E m \in Msgs : ComposeLost(m) \/ SendTimesOut(m)
  \/ \E c \in Clients : \/ Ask(c) \/ AskOlder(c) \/ Answer(c) \/ Load(c)
                        \/ Drop(c) \/ Reconnect(c)

ChatSpec == ChatInit /\ [][ChatNext]_chatVars

-----------------------------------------------------------------------------
(* Properties.                                                             *)
(*                                                                         *)
(* What a client holds of m may be wrong (doubt) since m was last read for *)
(* it when it was not connected as m was announced; when m was announced   *)
(* after it was read and before the request it was read by had loaded;     *)
(* when two changes of m crossed; when m was announced after a later       *)
(* message was stored; or when its handler died.                           *)

(* Apart from that, a loaded history is the log, from its end back to where *)
(* its pages end: no message is missing, none is shown twice and the order  *)
(* is that of the ids, in whatever order acknowledgements, events and pages *)
(* come.                                                                    *)
HistoryIsTheLog ==
  \A c \in Clients : Loaded(c) =>
    LET x == cache[c]
        Certain(m) == m \notin x.doubt /\ ~Untold(m)
        first == IF x.more THEN Place(Last(x.items)) ELSE 1
    IN /\ \A i, j \in DOMAIN x.items :
            i < j /\ Certain(x.items[i]) /\ Certain(x.items[j])
              => Place(x.items[i]) > Place(x.items[j])
       /\ \A m \in Stored : Certain(m) => (Shows(c, m) <=> Place(m) >= first)

(* And each message is shown as its row is: edited, deleted and reacted to. *)
SameContent(a, b) ==
  /\ a.deleted = b.deleted /\ a.reacts = b.reacts
  /\ ~a.deleted => a.body = b.body

ShownAsStored ==
  \A c \in Clients : \A m \in ToSet(cache[c].items) :
    m \notin cache[c].doubt /\ ~Untold(m) => SameContent(cache[c].rows[m], row[m])

(* What left the outbox is stored: no message somebody sent disappears,     *)
(* however late, lost or repeated its acknowledgements are.                 *)
OutboxIsHonest == \A m \in Msgs : outbox[m] = "gone" => m \in Stored
=============================================================================
