---------------------------- MODULE InboxProofs ----------------------------
(***************************************************************************)
(* Proofs about Inbox, for any number of people, tabs, conversations and   *)
(* overlapping handlers, with everything that can be lost or die.          *)
(*                                                                         *)
(* That two people have one conversation rests on the unique key, and on   *)
(* nobody giving up a conversation: what a request has found stays what it *)
(* asked for (Finds).  That "Seen" is honest rests on cursors that never   *)
(* move back: every copy of one, in a detail a tab holds, in an answer on  *)
(* its way, in an announcement not made yet, is covered by the server's.   *)
(* They never do because none is past the end of its log (Tables, Listed). *)
(*                                                                         *)
(* What is known of a handler's step and local variables is said of the    *)
(* values of the tables (k, l and m for key, log and cursor), so that it   *)
(* can be said of the tables before a step and after.                      *)
(***************************************************************************)
EXTENDS Inbox, FiniteSetTheorems, TLAPS

Keys == (SUBSET Users) \cup {None}

(* r has the fields of a request. *)
Shaped(r) ==
  r \in [kind : {r.kind}, tab : {r.tab}, user : {r.user}, peer : {r.peer},
         conv : {r.conv}, n : {r.n}, made : {r.made}, cur : {r.cur},
         count : {r.count}, rows : {r.rows}, counts : {r.counts}, items : {r.items}]

(* What a handler is about, at each of its steps.                           *)
Fit(step, r) ==
  /\ step \in {"find", "insert", "again", "count"} => r.kind = "open"
  /\ step = "store" => r.kind \in {"send", "note", "delete"}
  /\ step = "mark" => r.kind = "read"
  /\ step = "read" => r.kind \in {"list", "page", "detail"}
  /\ r.kind = "open" => r.user \in Users /\ r.peer \in Users

Finds(k, step, r) ==
  /\ step = "again" => \E c \in Convs : k[c] = KeyOf(r)
  /\ r.kind = "open" /\ step \in {"count", "announce", "reply"} =>
       r.conv \in Convs /\ k[r.conv] = KeyOf(r)

Unique(k) == \A c, d \in Convs : k[c] # None /\ k[c] = k[d] => c = d

KeyInv ==
  /\ key \in [Convs -> Keys]
  /\ Unique(key)
  /\ pc \in [Procs -> Step]
  /\ req = [p \in Procs |-> req[p]]
  /\ \A p \in Procs :
       Shaped(req[p]) /\ Fit(pc[p], req[p]) /\ Finds(key, pc[p], req[p])

-----------------------------------------------------------------------------
(* The requests handlers work on. *)

LEMMA NoRequest == Shaped(NoReq) /\ NoReq.kind = "none"
  BY DEF Shaped, NoReq

LEMMA NewRequest ==
  ASSUME NEW kind, NEW t, NEW c
  PROVE  LET r == Req(kind, t, c) IN
         /\ Shaped(r) /\ r.kind = kind /\ r.tab = t /\ r.user = UserOf[t] /\ r.conv = c
         /\ r.cur = [u \in Users |-> 0]
  BY DEF Shaped, Req, NoReq

LEMMA OpenRequest ==
  ASSUME NEW t, NEW peer
  PROVE  LET r == [Req("open", t, None) EXCEPT !.peer = peer] IN
         /\ Shaped(r) /\ r.kind = "open" /\ r.user = UserOf[t] /\ r.peer = peer
         /\ r.conv = None /\ r.cur = [u \in Users |-> 0]
  BY DEF Shaped, Req, NoReq

LEMMA NoteRequest ==
  ASSUME NEW c, NEW u
  PROVE  LET r == [NoReq EXCEPT !.kind = "note", !.user = u, !.conv = c] IN
         Shaped(r) /\ r.kind = "note" /\ r.user = u /\ r.conv = c
  BY DEF Shaped, NoReq

(* What the code assigns to a request leaves it what it is about.           *)
SameAim(q, r) ==
  /\ Shaped(q)
  /\ q.kind = r.kind /\ q.user = r.user /\ q.peer = r.peer /\ q.tab = r.tab

Aimed(r, c, f) == [r EXCEPT !.conv = c, !.cur = f]
Made(r, c) == [r EXCEPT !.conv = c, !.made = TRUE]
Counted(r, n) == [r EXCEPT !.count = n]
Listing(r, rows) == [r EXCEPT !.rows = rows]
Tallied(r, counts) == [r EXCEPT !.counts = counts]
Detailed(r, f) == [r EXCEPT !.cur = f]
Paged(r, items) == [r EXCEPT !.items = items]
Numbered(r, n) == [r EXCEPT !.n = n]

LEMMA Assignments ==
  ASSUME NEW r, Shaped(r), NEW x, NEW y
  PROVE  /\ SameAim(Aimed(r, x, y), r) /\ Aimed(r, x, y).conv = x /\ Aimed(r, x, y).cur = y
         /\ SameAim(Made(r, x), r) /\ Made(r, x).conv = x /\ Made(r, x).cur = r.cur
         /\ SameAim(Counted(r, x), r)
         /\ Counted(r, x).conv = r.conv /\ Counted(r, x).cur = r.cur
         /\ SameAim(Listing(r, x), r)
         /\ SameAim(Tallied(r, x), r)
         /\ SameAim(Detailed(r, x), r)
         /\ Detailed(r, x).conv = r.conv /\ Detailed(r, x).cur = x
         /\ SameAim(Paged(r, x), r)
         /\ Paged(r, x).conv = r.conv /\ Paged(r, x).items = x
         /\ SameAim(Numbered(r, x), r)
         /\ Numbered(r, x).conv = r.conv /\ Numbered(r, x).n = x
  BY DEF Shaped, SameAim, Aimed, Made, Counted, Listing, Tallied, Detailed, Paged, Numbered

-----------------------------------------------------------------------------
(* Keys. *)

LEMMA KeyIsSomething ==
  ASSUME NEW r, r.user \in Users, r.peer \in Users
  PROVE  KeyOf(r) \in Keys /\ KeyOf(r) # None
  BY NullAssumption DEF KeyOf, Keys

(* One handler goes on, and no conversation loses its key.                  *)
LEMMA OneGoesOn ==
  ASSUME KeyInv, NEW p \in Procs, NEW step \in Step, NEW r,
         pc' = [pc EXCEPT ![p] = step], req' = [req EXCEPT ![p] = r],
         key' \in [Convs -> Keys], Unique(key'),
         \A c \in Convs : key[c] # None => key'[c] = key[c],
         Shaped(r), Fit(step, r), Finds(key', step, r)
  PROVE  KeyInv'
<1>1. \A q \in Procs : q # p => pc'[q] = pc[q] /\ req'[q] = req[q]
  BY DEF KeyInv
<1>2. pc'[p] = step /\ req'[p] = r
  BY DEF KeyInv
<1>3. pc' \in [Procs -> Step] /\ req' = [q \in Procs |-> req'[q]]
  BY DEF KeyInv
<1>4. ASSUME NEW q \in Procs, q # p
      PROVE  Finds(key', pc[q], req[q])
  <2>1. Fit(pc[q], req[q]) /\ Finds(key, pc[q], req[q])
    BY DEF KeyInv
  <2>2. CASE pc[q] = "again" \/ req[q].kind = "open"
    <3>1. req[q].kind = "open"
      BY <2>1, <2>2 DEF Fit
    <3>2. KeyOf(req[q]) # None
      BY <2>1, <3>1, KeyIsSomething DEF Fit
    <3> QED
      BY <2>1, <3>2 DEF Finds
  <2>3. CASE ~(pc[q] = "again" \/ req[q].kind = "open")
    BY <2>3 DEF Finds
  <2> QED
    BY <2>2, <2>3
<1>5. ASSUME NEW q \in Procs
      PROVE  Shaped(req'[q]) /\ Fit(pc'[q], req'[q]) /\ Finds(key', pc'[q], req'[q])
  <2>1. CASE q = p
    BY <2>1, <1>2
  <2>2. CASE q # p
    BY <2>2, <1>1, <1>4 DEF KeyInv
  <2> QED
    BY <2>1, <2>2
<1> QED
  BY <1>3, <1>5 DEF KeyInv

(* ... or none does. *)
LEMMA NobodyGoesOn ==
  ASSUME KeyInv, UNCHANGED <<key, pc, req>>
  PROVE  KeyInv'
  BY DEF KeyInv

LEMMA InitKeys == Init => KeyInv
<1> SUFFICES ASSUME Init PROVE KeyInv
  OBVIOUS
<1>1. \A p \in Procs : pc[p] = "idle" /\ req[p] = NoReq
  BY DEF Init
<1>2. \A p \in Procs : Shaped(req[p]) /\ Fit(pc[p], req[p]) /\ Finds(key, pc[p], req[p])
  BY <1>1, NoRequest DEF Fit, Finds
<1>3. key \in [Convs -> Keys] /\ Unique(key)
  <2>1. None \in Keys
    BY DEF Keys
  <2> QED
    BY <2>1 DEF Init, Unique
<1> QED
  BY <1>2, <1>3 DEF Init, KeyInv, Step

LEMMA StepKeys == KeyInv /\ [Next]_vars => KeyInv'
<1> SUFFICES ASSUME KeyInv, [Next]_vars
             PROVE  KeyInv'
  OBVIOUS
<1> USE DEF Begin, Goto
<1>0. \A p \in Procs : Shaped(req[p]) /\ Fit(pc[p], req[p]) /\ Finds(key, pc[p], req[p])
  BY DEF KeyInv
<1>n. ASSUME NEW p \in Procs, Finish(p), UNCHANGED key PROVE KeyInv'
  <2>1. Fit("idle", NoReq) /\ Finds(key, "idle", NoReq)
    BY NoRequest DEF Fit, Finds
  <2> QED
    BY <1>n, <2>1, NoRequest, OneGoesOn DEF Finish, Step, KeyInv
<1>1. ASSUME NEW p \in Procs, NEW t \in Tabs, NEW peer \in Users, OpenDirect(p, t, peer)
      PROVE  KeyInv'
  <2> DEFINE r == [Req("open", t, None) EXCEPT !.peer = peer]
  <2>1. Shaped(r) /\ Fit("find", r) /\ Finds(key, "find", r)
    BY OpenRequest, SignedInAssumption DEF Fit, Finds
  <2>2. pc' = [pc EXCEPT ![p] = "find"] /\ req' = [req EXCEPT ![p] = r] /\ key' = key
    BY <1>1 DEF OpenDirect, serverVars
  <2> HIDE DEF r
  <2> QED
    BY <2>1, <2>2, OneGoesOn DEF Step, KeyInv
<1>2. ASSUME NEW p \in Procs, NEW c \in WithKey(KeyOf(req[p])), Found(p, c),
             pc[p] \in {"find", "again"}
      PROVE  KeyInv'
  <2> DEFINE r == Aimed(req[p], c, cursor[c])
  <2>1. Shaped(r) /\ r.kind = req[p].kind /\ r.user = req[p].user /\ r.peer = req[p].peer
        /\ r.conv = c
    BY <1>0, Assignments DEF SameAim
  <2>2. pc' = [pc EXCEPT ![p] = "count"] /\ req' = [req EXCEPT ![p] = r] /\ key' = key
    BY <1>2 DEF Found, Aimed, serverVars
  <2> HIDE DEF r
  <2>3. Fit("count", r) /\ Finds(key, "count", r)
    BY <1>0, <1>2, <2>1 DEF Fit, Finds, WithKey, KeyOf
  <2> QED
    BY <2>1, <2>2, <2>3, OneGoesOn DEF Step, KeyInv
<1>3. ASSUME NEW p \in Procs, Find(p) PROVE KeyInv'
  <2>1. CASE WithKey(KeyOf(req[p])) = {}
    <3>1. Fit("insert", req[p]) /\ Finds(key, "insert", req[p])
      BY <1>0, <1>3 DEF Find, Fit, Finds
    <3>2. pc' = [pc EXCEPT ![p] = "insert"] /\ req' = [req EXCEPT ![p] = req[p]] /\ key' = key
      BY <1>3, <2>1 DEF Find, serverVars
    <3> QED
      BY <1>0, <3>1, <3>2, OneGoesOn DEF Step, KeyInv
  <2> QED
    BY <1>2, <1>3, <2>1 DEF Find
<1>4. ASSUME NEW p \in Procs, FindAgain(p) PROVE KeyInv'
  BY <1>2, <1>4 DEF FindAgain
<1>5. ASSUME NEW p \in Procs, Insert(p) PROVE KeyInv'
  <2>1. PICK c \in Convs : /\ key[c] = None
                           /\ key' = [key EXCEPT ![c] = KeyOf(req[p])]
                           /\ pc' = [pc EXCEPT ![p] = "count"]
                           /\ req' = [req EXCEPT ![p] = Made(req[p], c)]
    BY <1>5 DEF Insert, Made
  <2> DEFINE r == Made(req[p], c)
  <2>2. Shaped(r) /\ r.kind = req[p].kind /\ r.user = req[p].user /\ r.peer = req[p].peer
        /\ r.conv = c
    BY <1>0, Assignments DEF SameAim
  <2> HIDE DEF r
  <2>3. req[p].kind = "open" /\ KeyOf(req[p]) \in Keys /\ KeyOf(req[p]) # None
    BY <1>0, <1>5, KeyIsSomething DEF Insert, Fit
  <2>4. key' \in [Convs -> Keys] /\ \A d \in Convs : key[d] # None => key'[d] = key[d]
    BY <2>1, <2>3 DEF KeyInv
  <2>5. Unique(key')
    <3>1. \A d \in Convs : key[d] # KeyOf(req[p])
      BY <1>5 DEF Insert, WithKey
    <3> QED
      BY <2>1, <3>1 DEF KeyInv, Unique
  <2>6. Fit("count", r) /\ Finds(key', "count", r)
    BY <1>0, <2>1, <2>2, <2>3 DEF Fit, Finds, KeyInv, KeyOf
  <2> QED
    BY <2>1, <2>2, <2>4, <2>5, <2>6, OneGoesOn DEF Step, r
<1>6. ASSUME NEW p \in Procs, Raced(p) PROVE KeyInv'
  <2>1. pc' = [pc EXCEPT ![p] = "again"] /\ req' = [req EXCEPT ![p] = req[p]] /\ key' = key
    BY <1>6 DEF Raced, serverVars
  <2>2. Fit("again", req[p]) /\ Finds(key, "again", req[p])
    BY <1>0, <1>6 DEF Raced, Fit, Finds, WithKey
  <2> QED
    BY <1>0, <2>1, <2>2, OneGoesOn DEF Step, KeyInv
<1>7. ASSUME NEW p \in Procs, Count(p) PROVE KeyInv'
  <2> DEFINE r == Counted(req[p], UnreadFrom(req[p].conv, req[p].user, req[p].cur[req[p].user]))
  <2>1. Shaped(r) /\ r.kind = req[p].kind /\ r.user = req[p].user /\ r.peer = req[p].peer
        /\ r.conv = req[p].conv
    BY <1>0, Assignments DEF SameAim
  <2>2. PICK step \in {"announce", "reply"} :
          pc' = [pc EXCEPT ![p] = step] /\ req' = [req EXCEPT ![p] = r] /\ key' = key
    BY <1>7 DEF Count, Counted, serverVars
  <2> HIDE DEF r
  <2>3. Fit(step, r) /\ Finds(key, step, r)
    BY <1>0, <1>7, <2>1 DEF Count, Fit, Finds, KeyOf
  <2> QED
    BY <2>1, <2>2, <2>3, OneGoesOn DEF Step, KeyInv
<1>8. ASSUME NEW p \in Procs, AnnounceMade(p) PROVE KeyInv'
  <2>1. pc' = [pc EXCEPT ![p] = "reply"] /\ req' = [req EXCEPT ![p] = req[p]] /\ key' = key
    BY <1>8 DEF AnnounceMade, serverVars
  <2>2. Fit("reply", req[p]) /\ Finds(key, "reply", req[p])
    BY <1>0, <1>8 DEF AnnounceMade, Fit, Finds
  <2> QED
    BY <1>0, <2>1, <2>2, OneGoesOn DEF Step, KeyInv
<1>9. ASSUME NEW p \in Procs, Opened(p) \/ ListLoads(p) \/ PageLoads(p) PROVE KeyInv'
  BY <1>n, <1>9 DEF Opened, ListLoads, PageLoads, serverVars
<1>10. ASSUME NEW p \in Procs, AnnounceMessage(p) \/ AnnounceRead(p) \/ Die(p) PROVE KeyInv'
  BY <1>n, <1>10 DEF AnnounceMessage, AnnounceRead, Die, serverVars
<1>11. ASSUME NEW p \in Procs, NEW step \in {"read", "store", "mark"}, NEW r,
              Begin(p, step, r), UNCHANGED key, Shaped(r), Fit(step, r)
       PROVE  KeyInv'
  <2>1. Finds(key, step, r)
    BY <1>11 DEF Finds, Fit
  <2> QED
    BY <1>11, <2>1, OneGoesOn DEF Step, KeyInv
<1>12. ASSUME NEW p \in Procs, NEW t \in Tabs, AskList(p, t) PROVE KeyInv'
  <2> DEFINE r == Req("list", t, None)
  <2>1. Begin(p, "read", r) /\ UNCHANGED key
    BY <1>12 DEF AskList, serverVars
  <2>2. Shaped(r) /\ r.kind = "list"
    BY NewRequest
  <2> HIDE DEF r
  <2> QED
    BY <1>11, <2>1, <2>2 DEF Fit
<1>13. ASSUME NEW p \in Procs, NEW t \in Tabs, AskPage(p, t) PROVE KeyInv'
  <2>1. PICK kind \in {"page", "detail"} : Begin(p, "read", Req(kind, t, at[t])) /\ UNCHANGED key
    BY <1>13 DEF AskPage, serverVars
  <2> DEFINE r == Req(kind, t, at[t])
  <2>2. Shaped(r) /\ r.kind = kind
    BY NewRequest
  <2>3. Begin(p, "read", r)
    BY <2>1
  <2> HIDE DEF r
  <2> QED
    BY <1>11, <2>1, <2>2, <2>3 DEF Fit
<1>14. ASSUME NEW p \in Procs, NEW t \in Tabs, Send(p, t) PROVE KeyInv'
  <2> DEFINE r == Req("send", t, at[t])
  <2>1. Begin(p, "store", r) /\ UNCHANGED key
    BY <1>14 DEF Send, serverVars
  <2>2. Shaped(r) /\ r.kind = "send"
    BY NewRequest
  <2> HIDE DEF r
  <2> QED
    BY <1>11, <2>1, <2>2 DEF Fit
<1>15. ASSUME NEW p \in Procs, NEW c \in Convs, NEW u \in Users, Note(p, c, u) PROVE KeyInv'
  BY <1>11, <1>15, NoteRequest DEF Note, Fit, serverVars
<1>16. ASSUME NEW p \in Procs, NEW t \in Tabs, NEW n, Delete(p, t, n) PROVE KeyInv'
  <2> DEFINE r == Numbered(Req("delete", t, at[t]), n)
  <2>1. Shaped(r) /\ r.kind = "delete"
    BY NewRequest, Assignments DEF SameAim
  <2>2. Begin(p, "store", r) /\ UNCHANGED key
    BY <1>16 DEF Delete, Numbered, serverVars
  <2> HIDE DEF r
  <2> QED
    BY <1>11, <2>1, <2>2 DEF Fit
<1>17. ASSUME NEW p \in Procs, NEW t \in Tabs, Acknowledge(p, t) PROVE KeyInv'
  <2> DEFINE r == Numbered(Req("read", t, at[t]), hist[t][at[t]][1])
  <2>1. Shaped(r) /\ r.kind = "read"
    BY NewRequest, Assignments DEF SameAim
  <2>2. (Begin(p, "mark", r) \/ UNCHANGED <<pc, req>>) /\ UNCHANGED key
    BY <1>17 DEF Acknowledge, Numbered, serverVars, flight
  <2> HIDE DEF r
  <2> QED
    BY <1>11, <2>1, <2>2, NobodyGoesOn DEF Fit
<1>18. ASSUME NEW p \in Procs, ReadList(p) PROVE KeyInv'
  <2>1. PICK r : /\ req' = [req EXCEPT ![p] = r]
                 /\ Shaped(r) /\ r.kind = req[p].kind
    <3> DEFINE a == Listing(req[p], ConvsOf(req[p].user))
               b == Tallied(req[p], [c \in Convs |-> Unread(c, req[p].user)])
    <3>1. req' = [req EXCEPT ![p] = a] \/ req' = [req EXCEPT ![p] = b]
      BY <1>18 DEF ReadList, Listing, Tallied
    <3>2. Shaped(a) /\ a.kind = req[p].kind /\ Shaped(b) /\ b.kind = req[p].kind
      BY <1>0, Assignments DEF SameAim
    <3> HIDE DEF a, b
    <3> QED
      BY <3>1, <3>2
  <2>2. PICK step \in {"reply", "read"} : pc' = [pc EXCEPT ![p] = step]
    BY <1>18 DEF ReadList
  <2>3. r.kind = "list" /\ key' = key
    BY <1>18, <2>1 DEF ReadList, serverVars
  <2>4. Fit(step, r) /\ Finds(key, step, r)
    BY <2>2, <2>3 DEF Fit, Finds
  <2> QED
    BY <2>1, <2>2, <2>3, <2>4, OneGoesOn DEF Step, KeyInv
<1>19. ASSUME NEW p \in Procs, ReadPage(p) PROVE KeyInv'
  <2>1. PICK r : /\ req' = [req EXCEPT ![p] = r] /\ pc' = [pc EXCEPT ![p] = "reply"]
                 /\ Shaped(r) /\ r.kind = req[p].kind
    <3>0. PICK items : items = [i \in DOMAIN log[req[p].conv] |-> Len(log[req[p].conv]) + 1 - i]
      OBVIOUS
    <3> DEFINE a == Detailed(req[p], cursor[req[p].conv])
               b == Paged(req[p], items)
    <3>1. /\ pc' = [pc EXCEPT ![p] = "reply"]
          /\ req' = [req EXCEPT ![p] = a] \/ req' = [req EXCEPT ![p] = b]
      BY <1>19, <3>0 DEF ReadPage, Detailed, Paged
    <3>2. Shaped(a) /\ a.kind = req[p].kind /\ Shaped(b) /\ b.kind = req[p].kind
      BY <1>0, Assignments DEF SameAim
    <3> HIDE DEF a, b
    <3> QED
      BY <3>1, <3>2
  <2>2. r.kind \in {"page", "detail"} /\ key' = key
    BY <1>19, <2>1 DEF ReadPage, serverVars
  <2>3. Fit("reply", r) /\ Finds(key, "reply", r)
    BY <2>2 DEF Fit, Finds
  <2> QED
    BY <2>1, <2>2, <2>3, OneGoesOn DEF Step, KeyInv
<1>20. ASSUME NEW p \in Procs, Store(p) PROVE KeyInv'
  <2>1. PICK r : /\ req' = [req EXCEPT ![p] = r] /\ pc' = [pc EXCEPT ![p] = "announce"]
                 /\ Shaped(r) /\ r.kind = req[p].kind
    <3>1. /\ pc' = [pc EXCEPT ![p] = "announce"]
          /\ \/ req' = [req EXCEPT ![p] = req[p]]
             \/ req' = [req EXCEPT ![p] = Numbered(req[p], Len(log'[req[p].conv]))]
      BY <1>20 DEF Store, Numbered
    <3> QED
      BY <1>0, <3>1, Assignments DEF SameAim
  <2>2. r.kind \in {"send", "note", "delete"} /\ key' = key
    BY <1>0, <1>20, <2>1 DEF Store, Fit
  <2>3. Fit("announce", r) /\ Finds(key, "announce", r)
    BY <2>2 DEF Fit, Finds
  <2> QED
    BY <2>1, <2>2, <2>3, OneGoesOn DEF Step, KeyInv
<1>21. ASSUME NEW p \in Procs, Mark(p) PROVE KeyInv'
  <2>1. CASE Finish(p)
    BY <1>n, <1>21, <2>1 DEF Mark
  <2>2. CASE Goto(p, "announce", req[p])
    <3>1. Fit("announce", req[p]) /\ Finds(key, "announce", req[p])
      BY <1>0, <1>21 DEF Mark, Fit, Finds
    <3> QED
      BY <1>0, <1>21, <2>2, <3>1, OneGoesOn DEF Mark, Step, KeyInv
  <2> QED
    BY <1>21, <2>1, <2>2 DEF Mark
<1>22. ASSUME NEW t \in Tabs, Drop(t) \/ Connect(t) PROVE KeyInv'
  BY <1>22, NobodyGoesOn DEF Drop, Connect, serverVars, flight
<1>23. ASSUME NEW t \in Tabs, NEW c, Visit(t, c) PROVE KeyInv'
  BY <1>23, NobodyGoesOn DEF Visit, serverVars, flight
<1>24. CASE UNCHANGED vars
  BY <1>24, NobodyGoesOn DEF vars, serverVars, flight
<1> QED
  BY <1>1, <1>3, <1>4, <1>5, <1>6, <1>7, <1>8, <1>9, <1>10, <1>12, <1>13, <1>14, <1>15,
     <1>16, <1>17, <1>18, <1>19, <1>20, <1>21, <1>22, <1>23, <1>24
  DEF Next, Ask, Serve, Answer

LEMMA KeysAlways == Spec => []KeyInv
  BY InitKeys, StepKeys, PTL DEF Spec

(* Two people have one conversation, however many requests open it at once, *)
(* and a request that loses the race finds it.                              *)
THEOREM TwoPeopleHaveOneConversation == Spec => []OneConversation
<1>1. KeyInv => OneConversation
  BY DEF KeyInv, OneConversation, Unique, Finds, Fit, WithKey
<1> QED
  BY <1>1, KeysAlways, PTL

-----------------------------------------------------------------------------
(* Cursors and their copies. *)

Entries == [by : Users, system : BOOLEAN, gone : BOOLEAN]
Logs == [Convs -> Seq(Entries)]
Cursors == [Convs -> [Users -> Nat]]

(* That u has read n, or is the caller message n was posted for.            *)
Vouched(l, m, c, u, n) ==
  /\ n \in Nat
  /\ n <= m[c][u] \/ (n \in DOMAIN l[c] /\ l[c][n].system /\ l[c][n].by = u)

Listed(l, c, items) == items \in Seq(0 .. Len(l[c]))

Behind(m, r) ==
  /\ r.conv \in Convs /\ r.cur \in [Users -> Nat]
  /\ \A u \in Users : r.cur[u] <= m[r.conv][u]

Carries(l, m, step, r) ==
  /\ step \in {"find", "insert", "again"} => r.cur = [u \in Users |-> 0]
  /\ r.kind = "open" /\ step \in {"count", "announce", "reply"} => Behind(m, r)
  /\ r.kind = "detail" /\ step = "reply" => Behind(m, r)
  /\ r.kind = "page" /\ step = "reply" => Listed(l, r.conv, r.items)
  /\ r.kind \in {"page", "detail", "send", "note", "delete", "read"} => r.conv \in Convs
  /\ r.kind \in {"send", "note", "read"} => r.user \in Users
  /\ r.kind = "read" => r.n \in 0 .. Len(l[r.conv])
  /\ r.kind \in {"send", "note", "read"} /\ step = "announce" =>
       Vouched(l, m, r.conv, r.user, r.n)

Held(l, m, c, copy) ==
  \/ copy = None
  \/ copy \in [Users -> Nat] /\ \A u \in Users : Vouched(l, m, c, u, copy[u])

Tables ==
  /\ log \in Logs /\ cursor \in Cursors
  /\ \A c \in Convs, u \in Users : cursor[c][u] <= Len(log[c])
Pages ==
  /\ at \in [Tabs -> Convs \cup {None}]
  /\ hist = [t \in Tabs |-> [c \in Convs |-> hist[t][c]]]
  /\ \A t \in Tabs, c \in Convs : Listed(log, c, hist[t][c])
Handlers == \A p \in Procs : Carries(log, cursor, pc[p], req[p])
Details ==
  /\ seen = [t \in Tabs |-> [c \in Convs |-> seen[t][c]]]
  /\ \A t \in Tabs, c \in Convs : Held(log, cursor, c, seen[t][c])

SeenInv == KeyInv /\ Tables /\ Pages /\ Handlers /\ Details

(* Messages stay whose they are, and cursors never move back.               *)
Later(l, m, l2, m2) ==
  \A c \in Convs :
    /\ Len(l[c]) \in Nat /\ Len(l2[c]) \in Nat /\ Len(l[c]) <= Len(l2[c])
    /\ \A n \in DOMAIN l[c] : /\ n \in DOMAIN l2[c]
                             /\ l2[c][n].by = l[c][n].by /\ l2[c][n].system = l[c][n].system
    /\ \A u \in Users : m[c][u] <= m2[c][u]

LEMMA NowIsLater == Tables => Later(log, cursor, log, cursor)
<1> SUFFICES ASSUME Tables PROVE Later(log, cursor, log, cursor)
  OBVIOUS
<1>1. \A c \in Convs : log[c] \in Seq(Entries) /\ Len(log[c]) \in Nat
  BY DEF Tables, Logs
<1> QED
  BY <1>1 DEF Tables, Cursors, Later

LEMMA StillListed ==
  ASSUME NEW l, NEW l2, NEW m, NEW m2, Later(l, m, l2, m2),
         NEW c \in Convs, NEW items, Listed(l, c, items)
  PROVE  Listed(l2, c, items)
<1>1. Len(items) \in Nat /\ items \in [1 .. Len(items) -> 0 .. Len(l[c])]
  BY DEF Listed
<1>2. 0 .. Len(l[c]) \subseteq 0 .. Len(l2[c])
  BY DEF Later
<1>3. items \in [1 .. Len(items) -> 0 .. Len(l2[c])]
  BY <1>1, <1>2
<1> QED
  BY <1>1, <1>3 DEF Listed

LEMMA StillVouched ==
  ASSUME NEW l, NEW l2, NEW m \in Cursors, NEW m2 \in Cursors, Later(l, m, l2, m2),
         NEW c \in Convs, NEW u \in Users, NEW n, Vouched(l, m, c, u, n)
  PROVE  Vouched(l2, m2, c, u, n)
<1>1. m[c][u] \in Nat /\ m2[c][u] \in Nat /\ m[c][u] <= m2[c][u]
  BY DEF Cursors, Later
<1> QED
  BY <1>1 DEF Vouched, Later

LEMMA StillCarried ==
  ASSUME NEW l, NEW l2, NEW m \in Cursors, NEW m2 \in Cursors, Later(l, m, l2, m2),
         NEW step, NEW r, Carries(l, m, step, r)
  PROVE  Carries(l2, m2, step, r)
<1>1. ASSUME Behind(m, r) PROVE Behind(m2, r)
  <2>1. \A u \in Users : /\ m[r.conv][u] \in Nat /\ m2[r.conv][u] \in Nat
                          /\ m[r.conv][u] <= m2[r.conv][u] /\ r.cur[u] \in Nat
    BY <1>1 DEF Behind, Cursors, Later
  <2> QED
    BY <1>1, <2>1 DEF Behind
<1>2. ASSUME r.conv \in Convs, r.user \in Users, Vouched(l, m, r.conv, r.user, r.n)
      PROVE  Vouched(l2, m2, r.conv, r.user, r.n)
  BY <1>2, StillVouched
<1>3. ASSUME r.conv \in Convs, r.n \in 0 .. Len(l[r.conv])
      PROVE  r.n \in 0 .. Len(l2[r.conv])
  BY <1>3 DEF Later
<1>4. ASSUME r.conv \in Convs, Listed(l, r.conv, r.items) PROVE Listed(l2, r.conv, r.items)
  BY <1>4, StillListed
<1> QED
  BY <1>1, <1>2, <1>3, <1>4 DEF Carries

(* One handler goes on. *)
LEMMA HandlersGoOn ==
  ASSUME SeenInv, Tables', Later(log, cursor, log', cursor'),
         NEW p \in Procs, NEW step, NEW r,
         pc' = [pc EXCEPT ![p] = step], req' = [req EXCEPT ![p] = r],
         Carries(log', cursor', step, r)
  PROVE  Handlers'
<1>1. \A q \in Procs : q # p => pc'[q] = pc[q] /\ req'[q] = req[q]
  BY DEF SeenInv, KeyInv
<1>2. pc'[p] = step /\ req'[p] = r
  BY DEF SeenInv, KeyInv
<1>3. ASSUME NEW q \in Procs PROVE Carries(log', cursor', pc[q], req[q])
  BY StillCarried DEF SeenInv, Handlers, Tables
<1> QED
  BY <1>1, <1>2, <1>3 DEF Handlers

LEMMA HandlersStay ==
  ASSUME SeenInv, UNCHANGED <<log, cursor, pc, req>>
  PROVE  Handlers'
  BY DEF SeenInv, Handlers

(* A detail held stays honest. *)
LEMMA DetailsStay ==
  ASSUME SeenInv, Tables', Later(log, cursor, log', cursor'), seen' = seen
  PROVE  Details'
<1>1. ASSUME NEW t \in Tabs, NEW c \in Convs
      PROVE  Held(log', cursor', c, seen[t][c])
  BY StillVouched DEF SeenInv, Details, Tables, Held
<1> QED
  BY <1>1 DEF SeenInv, Details

(* A detail takes the place of another. *)
LEMMA DetailArrives ==
  ASSUME SeenInv, UNCHANGED <<log, cursor>>, NEW r, Behind(cursor, r),
         seen' = [seen EXCEPT ![r.tab][r.conv] = r.cur]
  PROVE  Details'
<1>1. Held(log, cursor, r.conv, r.cur)
  BY DEF Behind, Held, Vouched
<1>2. seen' = [t \in Tabs |-> [c \in Convs |-> seen'[t][c]]]
  BY DEF SeenInv, Details
<1>3. ASSUME NEW t \in Tabs, NEW c \in Convs
      PROVE  Held(log, cursor, c, seen'[t][c])
  <2>1. seen'[t][c] = IF t = r.tab /\ c = r.conv THEN r.cur ELSE seen[t][c]
    BY DEF SeenInv, Details
  <2> QED
    BY <1>1, <2>1 DEF SeenInv, Details
<1> QED
  BY <1>2, <1>3 DEF Details

(* The copies of a cursor are moved by an event. *)
LEMMA DetailsAdvance ==
  ASSUME SeenInv, UNCHANGED <<log, cursor>>, NEW ts, NEW c \in Convs, NEW u \in Users, NEW n,
         Vouched(log, cursor, c, u, n),
         seen' = [t \in Tabs |-> IF t \in ts THEN Advance(t, c, u, n) ELSE seen[t]]
  PROVE  Details'
<1>1. ASSUME NEW t \in Tabs
      PROVE  /\ Advance(t, c, u, n) = [d \in Convs |-> Advance(t, c, u, n)[d]]
             /\ \A d \in Convs : Held(log, cursor, d, Advance(t, c, u, n)[d])
  <2>0. /\ seen[t] = [d \in Convs |-> seen[t][d]]
        /\ \A d \in Convs : Held(log, cursor, d, seen[t][d])
    BY DEF SeenInv, Details
  <2>1. CASE ~(seen[t][c] # None /\ seen[t][c][u] < n)
    BY <2>0, <2>1 DEF Advance
  <2>2. CASE seen[t][c] # None /\ seen[t][c][u] < n
    <3> DEFINE copy == [seen[t][c] EXCEPT ![u] = n]
    <3>1. Advance(t, c, u, n) = [seen[t] EXCEPT ![c] = copy]
      BY <2>2 DEF Advance
    <3>2. seen[t][c] \in [Users -> Nat]
          /\ \A v \in Users : Vouched(log, cursor, c, v, seen[t][c][v])
      BY <2>0, <2>2 DEF Held
    <3>3. copy \in [Users -> Nat] /\ \A v \in Users : Vouched(log, cursor, c, v, copy[v])
      BY <3>2 DEF Vouched
    <3> HIDE DEF copy
    <3> QED
      BY <2>0, <3>1, <3>3 DEF Held
  <2> QED
    BY <2>1, <2>2
<1>2. ASSUME NEW t \in Tabs
      PROVE  /\ seen'[t] = [d \in Convs |-> seen'[t][d]]
             /\ \A d \in Convs : Held(log, cursor, d, seen'[t][d])
  <2>1. seen'[t] = Advance(t, c, u, n) \/ seen'[t] = seen[t]
    OBVIOUS
  <2> QED
    BY <1>1, <2>1 DEF SeenInv, Details
<1> QED
  BY <1>2 DEF Details

LEMMA InitSeen == Init => SeenInv
<1> SUFFICES ASSUME Init PROVE SeenInv
  OBVIOUS
<1>1. Tables
  BY DEF Init, Tables, Logs, Cursors
<1>2. Pages
  BY DEF Init, Pages, Listed
<1>3. Handlers
  <2>1. \A p \in Procs : pc[p] = "idle" /\ req[p].kind = "none"
    BY NoRequest DEF Init
  <2> QED
    BY <2>1 DEF Handlers, Carries
<1>4. Details
  BY DEF Init, Details, Held
<1> QED
  BY <1>1, <1>2, <1>3, <1>4, InitKeys DEF SeenInv

(* Storing a message, or marking one as deleted or read. *)
LEMMA LogGrows ==
  ASSUME NEW l \in Seq(Entries), NEW e \in Entries
  PROVE  /\ Append(l, e) \in Seq(Entries) /\ Len(Append(l, e)) = Len(l) + 1
         /\ Len(l) \in Nat /\ DOMAIN l = 1 .. Len(l)
         /\ DOMAIN Append(l, e) = 1 .. Len(l) + 1
         /\ \A n \in DOMAIN l : Append(l, e)[n] = l[n]
         /\ Append(l, e)[Len(l) + 1] = e
  OBVIOUS

LEMMA LogForgets ==
  ASSUME NEW l \in Seq(Entries), NEW n
  PROVE  LET k == [l EXCEPT ![n].gone = TRUE] IN
         /\ k \in Seq(Entries) /\ DOMAIN k = DOMAIN l
         /\ \A i \in DOMAIN l : k[i].by = l[i].by /\ k[i].system = l[i].system
<1> DEFINE e == [l[n] EXCEPT !.gone = TRUE]
           k == [l EXCEPT ![n] = e]
<1>1. Len(l) \in Nat /\ DOMAIN l = 1 .. Len(l) /\ \A i \in 1 .. Len(l) : l[i] \in Entries
  OBVIOUS
<1>2. n \in DOMAIN l => e \in Entries /\ e.by = l[n].by /\ e.system = l[n].system
  BY <1>1 DEF Entries
<1> HIDE DEF e
<1>3. k = [i \in 1 .. Len(l) |-> IF i = n THEN e ELSE l[i]]
  BY <1>1
<1>4. \A i \in 1 .. Len(l) : k[i] = IF i = n THEN e ELSE l[i]
  BY <1>1
<1>5. \A i \in 1 .. Len(l) : k[i] \in Entries /\ k[i].by = l[i].by /\ k[i].system = l[i].system
  BY <1>1, <1>2, <1>4
<1>6. DOMAIN k = 1 .. Len(l)
  BY <1>3
<1>7. k \in [1 .. Len(l) -> Entries]
  BY <1>3, <1>5, <1>6
<1>8. k \in Seq(Entries)
  BY <1>1, <1>7
<1>9. k = [l EXCEPT ![n].gone = TRUE]
  BY DEF e
<1> HIDE DEF k
<1> QED
  BY <1>1, <1>5, <1>6, <1>8, <1>9

-----------------------------------------------------------------------------
(* The steps.  KeyInv says what is asked for and found, as before.          *)

LEMMA StepSeen == SeenInv /\ [Next]_vars => SeenInv'
<1> SUFFICES ASSUME SeenInv, [Next]_vars
             PROVE  SeenInv'
  OBVIOUS
<1> USE DEF Begin, Goto, serverVars, tabVars, flight
<1>k. KeyInv'
  BY StepKeys DEF SeenInv
<1>c. ASSUME NEW p \in Procs
      PROVE  /\ Shaped(req[p]) /\ Fit(pc[p], req[p]) /\ Finds(key, pc[p], req[p])
             /\ Carries(log, cursor, pc[p], req[p])
  BY DEF SeenInv, KeyInv, Handlers
<1>l. Later(log, cursor, log, cursor)
  BY NowIsLater DEF SeenInv
(* A handler goes on, and no table changes. *)
<1>g. ASSUME NEW p \in Procs, NEW step, NEW r,
             pc' = [pc EXCEPT ![p] = step], req' = [req EXCEPT ![p] = r],
             Carries(log, cursor, step, r), UNCHANGED <<log, cursor>>
      PROVE  Tables' /\ Handlers'
  <2>1. Tables'
    BY <1>g DEF SeenInv, Tables
  <2> QED
    BY <1>g, <1>l, <2>1, HandlersGoOn
<1>d. ASSUME UNCHANGED <<log, cursor, seen>>, Tables' PROVE Details'
  BY <1>d, <1>l, DetailsStay
<1>f. ASSUME NEW p \in Procs, Finish(p), UNCHANGED <<log, cursor>>
      PROVE  Tables' /\ Handlers'
  <2>1. Carries(log, cursor, "idle", NoReq)
    BY NoRequest DEF Carries
  <2> QED
    BY <1>f, <1>g, <2>1 DEF Finish
(* ... and no page either. *)
<1>s. ASSUME NEW p \in Procs, NEW step, NEW r,
             pc' = [pc EXCEPT ![p] = step], req' = [req EXCEPT ![p] = r],
             Carries(log, cursor, step, r), UNCHANGED <<log, cursor, at, hist, seen>>
      PROVE  SeenInv'
  <2>1. Tables' /\ Handlers'
    BY <1>g, <1>s
  <2>2. Details' /\ Pages'
    BY <1>d, <1>s, <2>1 DEF SeenInv, Pages
  <2> QED
    BY <1>k, <2>1, <2>2 DEF SeenInv
(* Nobody's request changes. *)
<1>u. ASSUME UNCHANGED <<log, cursor, pc, req, seen>>, Pages'
      PROVE  SeenInv'
  <2>1. Tables' /\ Handlers'
    BY <1>u, HandlersStay DEF SeenInv, Tables
  <2> QED
    BY <1>d, <1>k, <1>u, <2>1 DEF SeenInv
<1>1. ASSUME NEW p \in Procs, NEW t \in Tabs, NEW peer \in Users, OpenDirect(p, t, peer)
      PROVE  SeenInv'
  <2> DEFINE r == [Req("open", t, None) EXCEPT !.peer = peer]
  <2>1. r.kind = "open" /\ r.cur = [u \in Users |-> 0]
    BY OpenRequest, ZenonT(40)
  <2>2. pc' = [pc EXCEPT ![p] = "find"] /\ req' = [req EXCEPT ![p] = r]
        /\ UNCHANGED <<log, cursor, at, hist, seen>>
    BY <1>1 DEF OpenDirect
  <2> HIDE DEF r
  <2> QED
    BY <1>s, <2>1, <2>2 DEF Carries
<1>2. ASSUME NEW p \in Procs, NEW c \in WithKey(KeyOf(req[p])), Found(p, c),
             pc[p] \in {"find", "again"}
      PROVE  SeenInv'
  <2> DEFINE r == Aimed(req[p], c, cursor[c])
  <2>1. r.kind = "open" /\ r.conv = c /\ r.cur = cursor[c]
    BY <1>2, <1>c, Assignments DEF SameAim, Fit
  <2>2. pc' = [pc EXCEPT ![p] = "count"] /\ req' = [req EXCEPT ![p] = r]
        /\ UNCHANGED <<log, cursor, at, hist, seen>>
    BY <1>2 DEF Found, Aimed
  <2> HIDE DEF r
  <2>3. Behind(cursor, r)
    BY <2>1 DEF SeenInv, Tables, Cursors, Behind, WithKey
  <2> QED
    BY <1>s, <2>1, <2>2, <2>3 DEF Carries
<1>3. ASSUME NEW p \in Procs, Find(p) PROVE SeenInv'
  <2>1. CASE WithKey(KeyOf(req[p])) = {}
    <3>1. Carries(log, cursor, "insert", req[p])
      BY <1>c, <1>3 DEF Find, Fit, Carries
    <3>2. pc' = [pc EXCEPT ![p] = "insert"] /\ req' = [req EXCEPT ![p] = req[p]]
          /\ UNCHANGED <<log, cursor, at, hist, seen>>
      BY <1>3, <2>1 DEF Find
    <3> QED
      BY <1>s, <3>1, <3>2
  <2> QED
    BY <1>2, <1>3, <2>1 DEF Find
<1>4. ASSUME NEW p \in Procs, FindAgain(p) PROVE SeenInv'
  BY <1>2, <1>4 DEF FindAgain
<1>5. ASSUME NEW p \in Procs, Insert(p) PROVE SeenInv'
  <2>1. PICK c \in Convs : /\ pc' = [pc EXCEPT ![p] = "count"]
                           /\ req' = [req EXCEPT ![p] = Made(req[p], c)]
    BY <1>5 DEF Insert, Made
  <2> DEFINE r == Made(req[p], c)
  <2>2. r.kind = "open" /\ r.conv = c /\ r.cur = [u \in Users |-> 0]
    BY <1>5, <1>c, Assignments DEF SameAim, Fit, Insert, Carries
  <2> HIDE DEF r
  <2>3. Behind(cursor, r)
    BY <2>1, <2>2 DEF SeenInv, Tables, Cursors, Behind
  <2>4. UNCHANGED <<log, cursor, at, hist, seen>>
    BY <1>5 DEF Insert
  <2>5. Carries(log, cursor, "count", r)
    BY <2>2, <2>3 DEF Carries
  <2> QED
    BY <1>s, <2>1, <2>4, <2>5 DEF r
<1>6. ASSUME NEW p \in Procs, Raced(p) PROVE SeenInv'
  <2>1. pc' = [pc EXCEPT ![p] = "again"] /\ req' = [req EXCEPT ![p] = req[p]]
        /\ UNCHANGED <<log, cursor, at, hist, seen>>
    BY <1>6 DEF Raced
  <2>2. Carries(log, cursor, "again", req[p])
    BY <1>6, <1>c DEF Raced, Fit, Carries
  <2> QED
    BY <1>s, <2>1, <2>2
<1>7. ASSUME NEW p \in Procs, Count(p) PROVE SeenInv'
  <2> DEFINE r == Counted(req[p], UnreadFrom(req[p].conv, req[p].user, req[p].cur[req[p].user]))
  <2>1. r.kind = "open" /\ r.conv = req[p].conv /\ r.cur = req[p].cur
    BY <1>7, <1>c, Assignments DEF SameAim, Fit, Count
  <2>2. PICK step \in {"announce", "reply"} :
          pc' = [pc EXCEPT ![p] = step] /\ req' = [req EXCEPT ![p] = r]
    BY <1>7 DEF Count, Counted
  <2>3. UNCHANGED <<log, cursor, at, hist, seen>>
    BY <1>7 DEF Count
  <2> HIDE DEF r
  <2>4. Behind(cursor, r)
    BY <1>7, <1>c, <2>1 DEF Count, Fit, Carries, Behind
  <2>5. Carries(log, cursor, step, r)
    BY <2>1, <2>4 DEF Carries
  <2> QED
    BY <1>s, <2>2, <2>3, <2>5
<1>8. ASSUME NEW p \in Procs, AnnounceMade(p) PROVE SeenInv'
  <2>1. pc' = [pc EXCEPT ![p] = "reply"] /\ req' = [req EXCEPT ![p] = req[p]]
        /\ UNCHANGED <<log, cursor, at, hist, seen>>
    BY <1>8 DEF AnnounceMade
  <2>2. Carries(log, cursor, "reply", req[p])
    BY <1>8, <1>c DEF AnnounceMade, Carries
  <2> QED
    BY <1>s, <2>1, <2>2
<1>9. ASSUME NEW p \in Procs, Opened(p) PROVE SeenInv'
  <2>1. Behind(cursor, req[p])
    BY <1>9, <1>c DEF Opened, Carries
  <2>2. seen' = [seen EXCEPT ![req[p].tab][req[p].conv] = req[p].cur] /\ Finish(p)
        /\ UNCHANGED <<log, cursor, hist>>
        /\ at' = [at EXCEPT ![req[p].tab] = req[p].conv]
    BY <1>9 DEF Opened, GoTo
  <2>3. Tables' /\ Handlers' /\ Details'
    BY <1>f, <2>1, <2>2, DetailArrives
  <2>4. Pages'
    BY <2>1, <2>2 DEF SeenInv, Pages, Behind
  <2> QED
    BY <1>k, <2>3, <2>4 DEF SeenInv
<1>10. ASSUME NEW p \in Procs, ListLoads(p) \/ Die(p) PROVE SeenInv'
  <2>1. Finish(p) /\ UNCHANGED <<log, cursor, at, hist, seen>>
    BY <1>10 DEF ListLoads, Die
  <2>2. Tables' /\ Handlers'
    BY <1>f, <2>1
  <2> QED
    BY <1>d, <1>k, <2>1, <2>2 DEF SeenInv, Pages
<1>11. ASSUME NEW p \in Procs, NEW t \in Tabs, AskList(p, t) PROVE SeenInv'
  <2> DEFINE r == Req("list", t, None)
  <2>1. pc' = [pc EXCEPT ![p] = "read"] /\ req' = [req EXCEPT ![p] = r]
        /\ UNCHANGED <<log, cursor, at, hist, seen>>
    BY <1>11 DEF AskList
  <2>2. r.kind = "list"
    BY NewRequest
  <2> HIDE DEF r
  <2> QED
    BY <1>s, <2>1, <2>2 DEF Carries
<1>12. ASSUME NEW p \in Procs, ReadList(p) PROVE SeenInv'
  <2>0. PICK rows, counts : /\ rows = ConvsOf(req[p].user)
                            /\ counts = [c \in Convs |-> Unread(c, req[p].user)]
    OBVIOUS
  <2> DEFINE a == Listing(req[p], rows)
             b == Tallied(req[p], counts)
  <2>1. req' = [req EXCEPT ![p] = a] \/ req' = [req EXCEPT ![p] = b]
    BY <1>12, <2>0 DEF ReadList, Listing, Tallied
  <2>2. a.kind = "list" /\ b.kind = "list"
    <3>1. Shaped(req[p]) /\ req[p].kind = "list"
      BY <1>12, <1>c DEF ReadList
    <3> QED
      BY <3>1, Assignments DEF SameAim
  <2> HIDE DEF a, b
  <2>3. PICK step \in {"reply", "read"} : pc' = [pc EXCEPT ![p] = step]
    BY <1>12 DEF ReadList
  <2>4. UNCHANGED <<log, cursor, at, hist, seen>>
    BY <1>12 DEF ReadList
  <2>5. Carries(log, cursor, step, a) /\ Carries(log, cursor, step, b)
    BY <2>2, <2>3 DEF Carries
  <2> QED
    BY <1>s, <2>1, <2>3, <2>4, <2>5
<1>13. ASSUME NEW t \in Tabs, NEW c \in Convs \cup {None}, Visit(t, c) PROVE SeenInv'
  <2>1. at' = [at EXCEPT ![t] = c] /\ UNCHANGED <<log, cursor, pc, req, hist, seen>>
    BY <1>13 DEF Visit, GoTo
  <2>2. Pages'
    BY <2>1 DEF SeenInv, Pages
  <2> QED
    BY <1>u, <2>1, <2>2
<1>14. ASSUME NEW p \in Procs, NEW t \in Tabs, AskPage(p, t) PROVE SeenInv'
  <2>1. PICK kind \in {"page", "detail"} :
          pc' = [pc EXCEPT ![p] = "read"] /\ req' = [req EXCEPT ![p] = Req(kind, t, at[t])]
    BY <1>14 DEF AskPage
  <2> DEFINE r == Req(kind, t, at[t])
  <2>2. r.kind = kind /\ r.conv = at[t]
    BY NewRequest
  <2>3. at[t] \in Convs /\ UNCHANGED <<log, cursor, at, hist, seen>>
    BY <1>14 DEF AskPage, SeenInv, Pages
  <2>4. req' = [req EXCEPT ![p] = r]
    BY <2>1
  <2> HIDE DEF r
  <2>5. Carries(log, cursor, "read", r)
    BY <2>2, <2>3 DEF Carries
  <2> QED
    BY <1>s, <2>1, <2>3, <2>4, <2>5
<1>15. ASSUME NEW p \in Procs, ReadPage(p) PROVE SeenInv'
  <2> DEFINE c == req[p].conv
  <2>0. PICK items : items = [i \in DOMAIN log[c] |-> Len(log[c]) + 1 - i]
    OBVIOUS
  <2> DEFINE a == Detailed(req[p], cursor[c])
             b == Paged(req[p], items)
  <2>1. /\ pc' = [pc EXCEPT ![p] = "reply"]
        /\ \/ req[p].kind = "detail" /\ req' = [req EXCEPT ![p] = a]
           \/ req[p].kind = "page" /\ req' = [req EXCEPT ![p] = b]
    BY <1>15, <2>0 DEF ReadPage, Detailed, Paged
  <2>2. c \in Convs /\ UNCHANGED <<log, cursor, at, hist, seen>>
    BY <1>15, <1>c DEF ReadPage, Carries
  <2>3. /\ a.kind = req[p].kind /\ a.conv = c /\ a.cur = cursor[c]
        /\ b.kind = req[p].kind /\ b.conv = c /\ b.items = items
    BY <1>c, Assignments DEF SameAim
  <2>4. Listed(log, c, items)
    <3>1. log[c] \in Seq(Entries)
      BY <2>2 DEF SeenInv, Tables, Logs
    <3>2. Len(log[c]) \in Nat /\ DOMAIN log[c] = 1 .. Len(log[c])
      BY <3>1
    <3>3. items \in [1 .. Len(log[c]) -> 0 .. Len(log[c])]
      BY <2>0, <3>2
    <3> QED
      BY <3>2, <3>3 DEF Listed
  <2> HIDE DEF a, b
  <2>5. req[p].kind = "detail" => Carries(log, cursor, "reply", a)
    <3>1. Behind(cursor, a)
      BY <2>2, <2>3 DEF SeenInv, Tables, Cursors, Behind
    <3> QED
      BY <2>2, <2>3, <3>1 DEF Carries
  <2>6. req[p].kind = "page" => Carries(log, cursor, "reply", b)
    BY <2>2, <2>3, <2>4 DEF Carries
  <2> QED
    BY <1>s, <2>1, <2>2, <2>5, <2>6
<1>16. ASSUME NEW p \in Procs, PageLoads(p) PROVE SeenInv'
  <2>1. Finish(p) /\ UNCHANGED <<log, cursor, at>>
    BY <1>16 DEF PageLoads
  <2>2. Tables' /\ Handlers'
    BY <1>f, <2>1
  <2>3. CASE req[p].kind = "detail"
    <3>1. Behind(cursor, req[p])
      BY <1>16, <1>c, <2>3 DEF PageLoads, Carries
    <3>2. seen' = [seen EXCEPT ![req[p].tab][req[p].conv] = req[p].cur] /\ hist' = hist
      BY <1>16, <2>3 DEF PageLoads
    <3> QED
      BY <1>k, <2>1, <2>2, <3>1, <3>2, DetailArrives DEF SeenInv, Pages
  <2>4. CASE req[p].kind = "page"
    <3>1. Listed(log, req[p].conv, req[p].items)
      BY <1>16, <1>c, <2>4 DEF PageLoads, Carries
    <3>2. hist' = [hist EXCEPT ![req[p].tab][req[p].conv] = req[p].items] /\ seen' = seen
      BY <1>16, <2>4 DEF PageLoads
    <3>3. Pages'
      BY <2>1, <3>1, <3>2 DEF SeenInv, Pages
    <3> QED
      BY <1>d, <1>k, <2>1, <2>2, <3>2, <3>3 DEF SeenInv
  <2> QED
    BY <1>16, <2>3, <2>4 DEF PageLoads
<1>17. ASSUME NEW p \in Procs, NEW t \in Tabs, Send(p, t) PROVE SeenInv'
  <2> DEFINE r == Req("send", t, at[t])
  <2>1. pc' = [pc EXCEPT ![p] = "store"] /\ req' = [req EXCEPT ![p] = r]
        /\ UNCHANGED <<log, cursor, at, hist, seen>>
    BY <1>17 DEF Send
  <2>2. r.kind = "send" /\ r.conv = at[t] /\ r.user \in Users
    BY NewRequest, SignedInAssumption
  <2>3. at[t] \in Convs
    BY <1>17 DEF Send, SeenInv, Pages
  <2> HIDE DEF r
  <2> QED
    BY <1>s, <2>1, <2>2, <2>3 DEF Carries
<1>18. ASSUME NEW p \in Procs, NEW c \in Convs, NEW u \in Users, Note(p, c, u) PROVE SeenInv'
  <2> DEFINE r == [NoReq EXCEPT !.kind = "note", !.user = u, !.conv = c]
  <2>1. pc' = [pc EXCEPT ![p] = "store"] /\ req' = [req EXCEPT ![p] = r]
        /\ UNCHANGED <<log, cursor, at, hist, seen>>
    BY <1>18 DEF Note
  <2>2. r.kind = "note" /\ r.conv = c /\ r.user = u
    BY NoteRequest
  <2> HIDE DEF r
  <2> QED
    BY <1>s, <2>1, <2>2 DEF Carries
<1>19. ASSUME NEW p \in Procs, NEW t \in Tabs, NEW n, Delete(p, t, n) PROVE SeenInv'
  <2> DEFINE r == Numbered(Req("delete", t, at[t]), n)
  <2>1. pc' = [pc EXCEPT ![p] = "store"] /\ req' = [req EXCEPT ![p] = r]
        /\ UNCHANGED <<log, cursor, at, hist, seen>>
    BY <1>19 DEF Delete, Numbered
  <2>2. r.kind = "delete" /\ r.conv = at[t]
    BY NewRequest, Assignments DEF SameAim
  <2>3. at[t] \in Convs
    BY <1>19 DEF Delete, SeenInv, Pages
  <2> HIDE DEF r
  <2> QED
    BY <1>s, <2>1, <2>2, <2>3 DEF Carries
<1>20. ASSUME NEW p \in Procs, NEW t \in Tabs, Acknowledge(p, t) PROVE SeenInv'
  <2> DEFINE r == Numbered(Req("read", t, at[t]), hist[t][at[t]][1])
  <2>1. UNCHANGED <<log, cursor, at, hist, seen>>
    BY <1>20 DEF Acknowledge
  <2>2. \/ pc' = [pc EXCEPT ![p] = "mark"] /\ req' = [req EXCEPT ![p] = r]
        \/ UNCHANGED <<pc, req>>
    BY <1>20 DEF Acknowledge, Numbered
  <2>3. r.kind = "read" /\ r.conv = at[t] /\ r.user \in Users /\ r.n = hist[t][at[t]][1]
    BY NewRequest, Assignments, SignedInAssumption DEF SameAim
  <2> HIDE DEF r
  <2>4. at[t] \in Convs /\ hist[t][at[t]][1] \in 0 .. Len(log[at[t]])
    <3>1. at[t] \in Convs /\ hist[t][at[t]] # <<>>
      BY <1>20 DEF Acknowledge, SeenInv, Pages
    <3>2. hist[t][at[t]] \in Seq(0 .. Len(log[at[t]]))
      BY <3>1 DEF SeenInv, Pages, Listed
    <3> QED
      BY <3>1, <3>2
  <2>5. Carries(log, cursor, "mark", r)
    BY <2>3, <2>4 DEF Carries
  <2> QED
    BY <1>s, <1>u, <2>1, <2>2, <2>5 DEF SeenInv, Pages
<1>21. ASSUME NEW p \in Procs, Store(p) PROVE SeenInv'
  <2> DEFINE r == req[p]
             c == req[p].conv
             u == req[p].user
             e == Entry(req[p].user, req[p].kind = "note")
  <2>1. c \in Convs /\ r.kind \in {"send", "note", "delete"} /\ Shaped(r)
    BY <1>21, <1>c DEF Store, Fit, Carries
  <2>2. log[c] \in Seq(Entries) /\ cursor[c] \in [Users -> Nat] /\ Len(log[c]) \in Nat
    BY <2>1 DEF SeenInv, Tables, Logs, Cursors
  <2>3. UNCHANGED <<at, hist, seen>>
    BY <1>21 DEF Store
  <2>p. ASSUME Later(log, cursor, log', cursor') PROVE Pages'
    <3>1. \A t \in Tabs, d \in Convs : Listed(log', d, hist[t][d])
      BY <2>p, StillListed DEF SeenInv, Pages
    <3> QED
      BY <2>3, <3>1 DEF SeenInv, Pages
  <2>4. CASE r.kind = "delete"
    <3> DEFINE k == [log[c] EXCEPT ![r.n].gone = TRUE]
    <3>1. log' = [log EXCEPT ![c] = k] /\ cursor' = cursor
          /\ pc' = [pc EXCEPT ![p] = "announce"] /\ req' = [req EXCEPT ![p] = r]
      BY <1>21, <2>4 DEF Store
    <3>2. /\ k \in Seq(Entries) /\ DOMAIN k = DOMAIN log[c]
          /\ \A i \in DOMAIN log[c] : k[i].by = log[c][i].by /\ k[i].system = log[c][i].system
      BY <2>2, LogForgets
    <3>x. Len(k) = Len(log[c])
      BY <2>2, <3>2
    <3> HIDE DEF k
    <3>3. Tables'
      <4>1. \A d \in Convs : Len(log'[d]) = Len(log[d])
        BY <3>1, <3>x DEF SeenInv, Tables, Logs
      <4> QED
        BY <2>1, <3>1, <3>2, <4>1 DEF SeenInv, Tables, Logs
    <3>4. Later(log, cursor, log', cursor')
      BY <1>l, <2>1, <3>1, <3>2, <3>x DEF SeenInv, Tables, Logs, Later
    <3>5. Carries(log', cursor', "announce", r)
      BY <2>1, <2>4 DEF Carries
    <3> QED
      BY <1>k, <2>3, <2>p, <3>1, <3>3, <3>4, <3>5, HandlersGoOn, DetailsStay DEF SeenInv
  <2>5. CASE r.kind \in {"send", "note"}
    <3> DEFINE k == Append(log[c], e)
               n == Len(log[c]) + 1
               q == Numbered(r, n)
    <3>1. u \in Users
      BY <1>c, <2>5 DEF Carries
    <3>2. e \in Entries /\ e.by = u /\ e.system = (r.kind = "note")
      BY <3>1 DEF Entry, Entries
    <3> HIDE DEF e
    <3>3. /\ k \in Seq(Entries) /\ Len(k) = n /\ n \in DOMAIN k /\ k[n] = e
          /\ \A i \in DOMAIN log[c] : i \in DOMAIN k /\ k[i] = log[c][i]
      BY <2>2, <3>2, LogGrows
    <3>4. log' = [log EXCEPT ![c] = k]
      BY <1>21, <2>5 DEF Store, e
    <3> HIDE DEF k
    <3>5. log'[c] = k /\ n \in Nat
      BY <2>1, <2>2, <3>4 DEF SeenInv, Tables, Logs
    <3>6. /\ pc' = [pc EXCEPT ![p] = "announce"] /\ req' = [req EXCEPT ![p] = q]
          /\ cursor' = IF r.kind = "send" THEN [cursor EXCEPT ![c][u] = n] ELSE cursor
      BY <1>21, <2>5, <3>3, <3>5 DEF Store, Numbered
    <3>7. Shaped(r) /\ q.kind = r.kind /\ q.user = u /\ q.conv = c /\ q.n = n
      BY <2>1, Assignments DEF SameAim
    <3> HIDE DEF q, n
    <3>x. \A v \in Users : cursor[c][v] <= n
      BY <2>1, <2>2 DEF SeenInv, Tables, n
    <3>y. \A d \in Convs : d # c => log'[d] = log[d]
      BY <3>4 DEF SeenInv, Tables, Logs
    <3>8. Tables'
      <4>1. log' \in Logs /\ cursor' \in Cursors
        BY <2>1, <3>1, <3>3, <3>4, <3>5, <3>6 DEF SeenInv, Tables, Logs, Cursors
      <4>2. ASSUME NEW d \in Convs, NEW v \in Users
            PROVE  cursor'[d][v] <= Len(log'[d])
        <5>1. cursor'[d][v] = cursor[d][v] \/ (d = c /\ cursor'[d][v] = n)
          BY <2>1, <3>1, <3>6 DEF SeenInv, Tables, Cursors
        <5>2. n <= n
          BY <3>5
        <5> QED
          BY <3>3, <3>5, <3>x, <3>y, <5>1, <5>2 DEF SeenInv, Tables
      <4> QED
        BY <4>1, <4>2 DEF Tables
    <3>9. \A d \in Convs, v \in Users : cursor[d][v] <= cursor'[d][v]
      BY <2>1, <3>1, <3>5, <3>6, <3>x DEF SeenInv, Tables, Cursors
    <3>10. Later(log, cursor, log', cursor')
      <4>1. \A d \in Convs : Len(log[d]) \in Nat
        BY DEF SeenInv, Tables, Logs
      <4>2. n = Len(log[c]) + 1
        BY DEF n
      <4> QED
        BY <2>1, <3>3, <3>5, <3>y, <3>9, <4>1, <4>2 DEF Later
    <3>11. Vouched(log', cursor', c, u, n)
      <4>1. CASE r.kind = "send"
        <5>1. cursor'[c][u] = n
          BY <2>1, <3>1, <3>6, <4>1 DEF SeenInv, Tables, Cursors
        <5> QED
          BY <3>5, <5>1 DEF Vouched
      <4>2. CASE r.kind = "note"
        BY <3>2, <3>3, <3>5, <4>2 DEF Vouched
      <4> QED
        BY <2>5, <4>1, <4>2
    <3>12. Carries(log', cursor', "announce", q)
      BY <2>1, <2>5, <3>1, <3>7, <3>11 DEF Carries
    <3> QED
      BY <1>k, <2>3, <2>p, <3>6, <3>8, <3>10, <3>12, HandlersGoOn, DetailsStay DEF SeenInv
  <2> QED
    BY <2>1, <2>4, <2>5
<1>22. ASSUME NEW p \in Procs, AnnounceMessage(p) PROVE SeenInv'
  <2> DEFINE r == req[p]
             c == r.conv
  <2>1. Finish(p) /\ UNCHANGED <<log, cursor, at>> /\ pc[p] = "announce"
    BY <1>22 DEF AnnounceMessage
  <2>2. Tables' /\ Handlers'
    BY <1>f, <2>1
  <2>3. CASE r.kind = "delete"
    <3>1. hist' = hist /\ seen' = seen
      BY <1>22, <2>3 DEF AnnounceMessage
    <3> QED
      BY <1>d, <1>k, <2>1, <2>2, <3>1 DEF SeenInv, Pages
  <2>4. CASE r.kind \in {"send", "note"}
    <3>1. c \in Convs /\ r.user \in Users /\ Vouched(log, cursor, c, r.user, r.n)
      BY <1>c, <2>1, <2>4 DEF Carries
    <3>2. PICK ts : seen' = [t \in Tabs |-> IF t \in ts THEN Advance(t, c, r.user, r.n)
                                            ELSE seen[t]]
      BY <1>22, <2>4 DEF AnnounceMessage
    <3>3. PICK shown : hist' = [t \in Tabs |-> IF t \in shown
                                               THEN [hist[t] EXCEPT ![c] = <<r.n>> \o hist[t][c]]
                                               ELSE hist[t]]
      BY <1>22, <2>4 DEF AnnounceMessage
    <3>4. Details'
      BY <2>1, <3>1, <3>2, DetailsAdvance
    <3>5. Pages'
      <4>1. r.n \in 0 .. Len(log[c])
        <5>1. log[c] \in Seq(Entries) /\ cursor[c][r.user] \in Nat
              /\ cursor[c][r.user] <= Len(log[c])
          BY <3>1 DEF SeenInv, Tables, Logs, Cursors
        <5>2. Len(log[c]) \in Nat /\ DOMAIN log[c] = 1 .. Len(log[c])
          BY <5>1
        <5> QED
          BY <3>1, <5>1, <5>2 DEF Vouched
      <4>2. ASSUME NEW t \in Tabs, NEW d \in Convs
            PROVE  /\ hist'[t] = [x \in Convs |-> hist'[t][x]]
                   /\ Listed(log, d, hist'[t][d])
        <5>1. hist[t] = [x \in Convs |-> hist[t][x]] /\ Listed(log, d, hist[t][d])
          BY DEF SeenInv, Pages
        <5>2. hist'[t] = [hist[t] EXCEPT ![c] = <<r.n>> \o hist[t][c]] \/ hist'[t] = hist[t]
          BY <3>3
        <5>3. Listed(log, c, hist[t][c]) => Listed(log, c, <<r.n>> \o hist[t][c])
          BY <4>1 DEF Listed
        <5>4. CASE hist'[t] = hist[t]
          BY <5>1, <5>4
        <5>5. CASE hist'[t] = [hist[t] EXCEPT ![c] = <<r.n>> \o hist[t][c]]
          <6> DEFINE items == <<r.n>> \o hist[t][c]
          <6>1. Listed(log, c, items)
            <7>1. Listed(log, c, hist[t][c])
              BY <3>1 DEF SeenInv, Pages
            <7> QED
              BY <5>3, <7>1
          <6>2. hist'[t] = [hist[t] EXCEPT ![c] = items]
            BY <5>5
          <6> HIDE DEF items
          <6> QED
            BY <5>1, <6>1, <6>2
        <5> QED
          BY <5>2, <5>4, <5>5
      <4>3. hist' = [t \in Tabs |-> [x \in Convs |-> hist'[t][x]]]
        <5>1. \A t \in Tabs : hist'[t] = [x \in Convs |-> hist'[t][x]]
          BY <3>1, <4>2
        <5>2. hist' = [t \in Tabs |-> hist'[t]]
          BY <3>3
        <5> QED
          BY <5>1, <5>2, Zenon
      <4> QED
        BY <2>1, <4>2, <4>3 DEF SeenInv, Pages
    <3> QED
      BY <1>k, <2>1, <2>2, <3>4, <3>5 DEF SeenInv, Pages
  <2> QED
    BY <1>22, <2>3, <2>4 DEF AnnounceMessage
<1>23. ASSUME NEW p \in Procs, Mark(p) PROVE SeenInv'
  <2> DEFINE r == req[p]
             c == r.conv
             u == r.user
  <2>1. UNCHANGED <<log, at, hist, seen>>
    BY <1>23 DEF Mark
  <2>2. r.kind = "read" /\ c \in Convs /\ u \in Users /\ r.n \in Nat
    BY <1>23, <1>c DEF Mark, Fit, Carries
  <2>3. CASE cursor[c][u] < r.n
    <3>1. /\ cursor' = [cursor EXCEPT ![c][u] = r.n]
          /\ pc' = [pc EXCEPT ![p] = "announce"] /\ req' = [req EXCEPT ![p] = r]
      BY <1>23, <2>3 DEF Mark
    <3>2. Tables' /\ cursor'[c][u] = r.n
      <4>1. r.n \in Nat /\ r.n <= Len(log[c])
        BY <1>23, <1>c, <2>2 DEF Carries
      <4> QED
        BY <2>1, <2>2, <3>1, <4>1 DEF SeenInv, Tables, Cursors
    <3>3. \A d \in Convs, v \in Users : cursor[d][v] <= cursor'[d][v]
      BY <2>2, <2>3, <3>1 DEF SeenInv, Tables, Cursors
    <3>4. Later(log, cursor, log', cursor')
      BY <1>l, <2>1, <3>3 DEF Later
    <3>5. Vouched(log', cursor', c, u, r.n)
      BY <2>2, <3>2 DEF Vouched
    <3>6. Carries(log', cursor', "announce", r)
      BY <1>c, <2>1, <2>2, <3>5 DEF Carries
    <3> QED
      BY <1>k, <2>1, <3>1, <3>2, <3>4, <3>6, HandlersGoOn, DetailsStay DEF SeenInv, Pages
  <2>4. CASE ~(cursor[c][u] < r.n)
    <3>1. Finish(p) /\ cursor' = cursor
      BY <1>23, <2>4 DEF Mark
    <3>2. Tables' /\ Handlers'
      BY <1>f, <2>1, <3>1
    <3> QED
      BY <1>d, <1>k, <2>1, <3>1, <3>2 DEF SeenInv, Pages
  <2> QED
    BY <2>3, <2>4
<1>24. ASSUME NEW p \in Procs, AnnounceRead(p) PROVE SeenInv'
  <2> DEFINE r == req[p]
             c == r.conv
  <2>1. Finish(p) /\ UNCHANGED <<log, cursor, at, hist>> /\ pc[p] = "announce" /\ r.kind = "read"
    BY <1>24 DEF AnnounceRead
  <2>2. Tables' /\ Handlers'
    BY <1>f, <2>1
  <2>3. c \in Convs /\ r.user \in Users /\ Vouched(log, cursor, c, r.user, r.n)
    BY <1>c, <2>1 DEF Carries
  <2>4. seen' = [t \in Tabs |-> IF t \in Tabs \ Deaf(c) THEN Advance(t, c, r.user, r.n)
                                ELSE seen[t]]
    BY <1>24 DEF AnnounceRead
  <2>5. Details'
    BY <2>1, <2>3, <2>4, DetailsAdvance
  <2> QED
    BY <1>k, <2>1, <2>2, <2>5 DEF SeenInv, Pages
<1>25. ASSUME NEW t \in Tabs, Drop(t) \/ Connect(t) PROVE SeenInv'
  BY <1>u, <1>25 DEF Drop, Connect, SeenInv, Pages
<1>26. CASE UNCHANGED vars
  BY <1>u, <1>26 DEF vars, SeenInv, Pages
<1> QED
  BY <1>1, <1>3, <1>4, <1>5, <1>6, <1>7, <1>8, <1>9, <1>10, <1>11, <1>12, <1>13, <1>14, <1>15,
     <1>16, <1>17, <1>18, <1>19, <1>20, <1>21, <1>22, <1>23, <1>24, <1>25, <1>26
  DEF Next, Ask, Serve, Answer

LEMMA SeenAlways == Spec => []SeenInv
  BY InitSeen, StepSeen, PTL DEF Spec

(* "Seen" is shown of what the reader's cursor covers, or of what precedes  *)
(* a system message posted for the reader.                                  *)
THEOREM SeenIsNeverWrong == Spec => []SeenIsTrue
<1>1. ASSUME SeenInv, NEW t \in Tabs, NEW c \in Convs, NEW n \in DOMAIN log[c],
             NEW u \in Readers(t, c, n)
      PROVE  \/ n <= cursor[c][u]
             \/ \E s \in n .. seen[t][c][u] : log[c][s].system /\ log[c][s].by = u
  <2>1. seen[t][c] # None /\ u \in MembersOf(c) /\ seen[t][c][u] >= n
    BY <1>1 DEF Readers
  <2>2. u \in Users
    BY <1>1, <2>1 DEF SeenInv, KeyInv, Keys, MembersOf
  <2>3. seen[t][c] \in [Users -> Nat] /\ Vouched(log, cursor, c, u, seen[t][c][u])
    BY <1>1, <2>1, <2>2 DEF SeenInv, Details, Held
  <2>4. n \in Nat /\ cursor[c][u] \in Nat /\ seen[t][c][u] \in Nat
    <3>1. log[c] \in Seq(Entries) /\ cursor[c][u] \in Nat
      BY <1>1, <2>2 DEF SeenInv, Tables, Logs, Cursors
    <3>2. DOMAIN log[c] = 1 .. Len(log[c])
      BY <3>1
    <3> QED
      BY <2>2, <2>3, <3>1, <3>2
  <2> QED
    BY <2>1, <2>3, <2>4 DEF Vouched
<1>2. SeenInv => SeenIsTrue
  BY <1>1 DEF SeenIsTrue
<1> QED
  BY <1>2, SeenAlways, PTL

-----------------------------------------------------------------------------
(***************************************************************************)
(* The lists.  First what requests, lists and histories are made of.       *)
(***************************************************************************)
Owned(k, u) == {c \in Convs : k[c] # None /\ u \in k[c]}

Whole(l, c, items) == \E n \in 0 .. Len(l[c]) : items = [i \in 1 .. n |-> n + 1 - i]

Sound(k, l, step, r) ==
  /\ r.kind \in {"open", "list", "page", "detail", "send", "delete", "read"} =>
       r.tab \in Tabs /\ r.user = UserOf[r.tab]
  /\ step = "announce" => r.kind \in {"open", "send", "note", "delete", "read"}
  /\ r.kind = "open" /\ step = "announce" => r.made
  /\ r.made => r.kind = "open"
  /\ r.count \in Nat
  /\ r.counts = None \/ r.counts \in [Convs -> Nat]
  /\ r.kind = "list" /\ step = "reply" => r.rows # None /\ r.counts # None
  /\ r.kind = "list" /\ r.rows # None => r.rows \subseteq Owned(k, r.user)
  /\ r.kind \in {"send", "note", "delete"} => k[r.conv] # None
  /\ r.kind \in {"send", "note"} /\ step = "announce" => r.n \in 1 .. Len(l[r.conv])
  /\ r.kind = "page" /\ step = "reply" => Whole(l, r.conv, r.items)

Telling(p) == pc[p] = "announce" /\ req[p].kind \in {"send", "note"}

(* No two handlers announce one message. *)
OneTeller ==
  \A p, q \in Procs :
    Telling(p) /\ Telling(q) /\ req[p].conv = req[q].conv /\ req[p].n = req[q].n => p = q

Requests ==
  /\ \A p \in Procs : Sound(key, log, pc[p], req[p])
  /\ OneTeller

Shelves ==
  /\ badge \in [Tabs -> [Convs -> Nat \cup {None}]]
  /\ acked \in [Tabs -> Nat] /\ paged \in [Tabs -> SUBSET Convs]
  /\ \A t \in Tabs, c \in Convs :
       /\ hist[t][c] \in Seq(1 .. Len(log[c]))
       /\ badge[t][c] # None => c \in Owned(key, UserOf[t])
       /\ at[t] = c => key[c] # None /\ acked[t] <= Len(log[c])
  /\ \A c \in Convs : log[c] # <<>> => key[c] # None

Doubts == off \in [Tabs -> SUBSET Convs] /\ risk \in [Procs -> SUBSET Convs]

BaseInv == SeenInv /\ Requests /\ Shelves /\ Doubts

(* Conversations stay whose they are. *)
Keeps(k, k2) == \A c \in Convs : k[c] # None => k2[c] = k[c]

LEMMA StillSound ==
  ASSUME NEW k, NEW k2, NEW l, NEW l2, Keeps(k, k2),
         \A c \in Convs : Len(l[c]) \in Nat /\ Len(l2[c]) \in Nat /\ Len(l[c]) <= Len(l2[c]),
         NEW step, NEW r, Sound(k, l, step, r),
         r.kind \in {"send", "note", "delete", "page"} => r.conv \in Convs
  PROVE  Sound(k2, l2, step, r)
<1>1. \A u : Owned(k, u) \subseteq Owned(k2, u)
  BY DEF Owned, Keeps
<1>2. ASSUME r.conv \in Convs
      PROVE  /\ k[r.conv] # None => k2[r.conv] # None
             /\ r.n \in 1 .. Len(l[r.conv]) => r.n \in 1 .. Len(l2[r.conv])
             /\ Whole(l, r.conv, r.items) => Whole(l2, r.conv, r.items)
  <2>1. 0 .. Len(l[r.conv]) \subseteq 0 .. Len(l2[r.conv])
    BY <1>2
  <2>2. 1 .. Len(l[r.conv]) \subseteq 1 .. Len(l2[r.conv])
    BY <1>2
  <2> QED
    BY <1>2, <2>1, <2>2 DEF Whole, Keeps
<1> QED
  BY <1>1, <1>2 DEF Sound

LEMMA KeysKept == BaseInv /\ UNCHANGED key => Keeps(key, key')
BY DEF Keeps

LEMMA Lengths ==
  ASSUME BaseInv
  PROVE  \A c \in Convs : log[c] \in Seq(Entries) /\ Len(log[c]) \in Nat
                          /\ DOMAIN log[c] = 1 .. Len(log[c])
BY DEF BaseInv, SeenInv, Tables, Logs

(* One handler goes on.  The message it may now announce is its own. *)
LEMMA RequestsGoOn ==
  ASSUME BaseInv, Keeps(key, key'),
         \A c \in Convs : Len(log'[c]) \in Nat /\ Len(log[c]) <= Len(log'[c]),
         NEW p \in Procs, NEW step, NEW r,
         pc' = [pc EXCEPT ![p] = step], req' = [req EXCEPT ![p] = r],
         Sound(key', log', step, r),
         step = "announce" /\ r.kind \in {"send", "note"} =>
           r.conv \in Convs /\ r.n > Len(log[r.conv])
  PROVE  Requests'
<1>1. \A q \in Procs : q # p => pc'[q] = pc[q] /\ req'[q] = req[q]
  BY DEF BaseInv, SeenInv, KeyInv
<1>2. pc'[p] = step /\ req'[p] = r
  BY DEF BaseInv, SeenInv, KeyInv
<1>3. ASSUME NEW q \in Procs
      PROVE  req[q].kind \in {"send", "note", "delete", "page"} => req[q].conv \in Convs
  BY DEF BaseInv, SeenInv, Handlers, Carries
<1>4. ASSUME NEW q \in Procs PROVE Sound(key', log', pc[q], req[q])
  <2>1. Sound(key, log, pc[q], req[q])
    BY DEF BaseInv, Requests
  <2>2. \A c \in Convs : Len(log[c]) \in Nat
    BY Lengths
  <2> QED
    BY <1>3, <2>1, <2>2, StillSound
<1>5. ASSUME NEW q \in Procs, q # p, Telling(q), step = "announce", r.kind \in {"send", "note"},
             req[q].conv = r.conv
      PROVE  req[q].n # r.n
  <2>1. req[q].n \in 1 .. Len(log[r.conv]) /\ r.n > Len(log[r.conv])
    BY <1>5 DEF BaseInv, Requests, Sound, Telling
  <2>2. Len(log[r.conv]) \in Nat
    BY <1>5, Lengths
  <2> QED
    BY <2>1, <2>2
<1>6. OneTeller'
  <2> SUFFICES ASSUME NEW q \in Procs, NEW s \in Procs, Telling(q)', Telling(s)',
                      req'[q].conv = req'[s].conv, req'[q].n = req'[s].n, q # s
               PROVE  FALSE
    BY DEF OneTeller
  <2>1. CASE q # p /\ s # p
    BY <1>1, <2>1 DEF Telling, BaseInv, Requests, OneTeller
  <2>2. CASE q = p
    BY <1>1, <1>2, <1>5, <2>2 DEF Telling
  <2>3. CASE s = p
    BY <1>1, <1>2, <1>5, <2>3 DEF Telling
  <2> QED
    BY <2>1, <2>2, <2>3
<1> QED
  BY <1>1, <1>2, <1>4, <1>6 DEF Requests

(* What is not touched. *)
LEMMA ShelvesStay ==
  ASSUME BaseInv, Keeps(key, key'), UNCHANGED <<log, badge, at, acked, paged, hist>>
  PROVE  Shelves'
BY DEF BaseInv, Shelves, Owned, Keeps

LEMMA DoubtsTyped ==
  ASSUME BaseInv
  PROVE  /\ \A ts : \A c \in Convs : Doubt(ts, c) => off' \in [Tabs -> SUBSET Convs]
         /\ \A p \in Procs : \A c \in Convs : Overtake(p, c) => risk' \in [Procs -> SUBSET Convs]
         /\ \A p \in Procs : Look(p) \/ Settle(p) => risk' \in [Procs -> SUBSET Convs]
<1>1. off \in [Tabs -> SUBSET Convs] /\ risk \in [Procs -> SUBSET Convs]
  BY DEF BaseInv, Doubts
<1>2. \A ts : \A c \in Convs : Doubt(ts, c) => off' \in [Tabs -> SUBSET Convs]
  BY <1>1 DEF Doubt
<1>3. \A p \in Procs : \A c \in Convs : Overtake(p, c) => risk' \in [Procs -> SUBSET Convs]
  BY <1>1 DEF Overtake
<1>4. \A p \in Procs : Look(p) => risk' \in [Procs -> SUBSET Convs]
  <2> SUFFICES ASSUME NEW p \in Procs, Look(p) PROVE risk' \in [Procs -> SUBSET Convs]
    OBVIOUS
  <2> DEFINE cs == {c \in Convs : UntoldBy(Procs \ {p}, c) \/ Unmarked(c)}
  <2>1. cs \in SUBSET Convs /\ risk' = [risk EXCEPT ![p] = @ \cup cs]
    BY DEF Look
  <2> HIDE DEF cs
  <2> QED
    BY <1>1, <2>1
<1>5. \A p \in Procs : Settle(p) => risk' \in [Procs -> SUBSET Convs]
  BY <1>1 DEF Settle
<1> QED
  BY <1>2, <1>3, <1>4, <1>5

-----------------------------------------------------------------------------
(* The requests again: what they begin with, and what is assigned.          *)

(* r has found nothing out yet. *)
Blank(r) == /\ Shaped(r) /\ ~r.made /\ r.count = 0
            /\ r.rows = None /\ r.counts = None /\ r.cur = [u \in Users |-> 0]

LEMMA BlankNone == Blank(NoReq) /\ NoReq.kind = "none"
  BY DEF Shaped, Blank, NoReq

LEMMA BlankRequest ==
  ASSUME NEW kind, NEW t, NEW c
  PROVE  LET r == Req(kind, t, c) IN
         Blank(r) /\ r.kind = kind /\ r.tab = t /\ r.user = UserOf[t] /\ r.conv = c
  BY DEF Shaped, Blank, Req, NoReq

LEMMA BlankNumbered ==
  ASSUME NEW kind, NEW t, NEW c, NEW n
  PROVE  LET r == Numbered(Req(kind, t, c), n) IN
         /\ Blank(r) /\ r.kind = kind /\ r.tab = t /\ r.user = UserOf[t] /\ r.conv = c
         /\ r.n = n
  BY DEF Shaped, Blank, Req, NoReq, Numbered

LEMMA BlankOpen ==
  ASSUME NEW t, NEW peer
  PROVE  LET r == [Req("open", t, None) EXCEPT !.peer = peer] IN
         Blank(r) /\ r.kind = "open" /\ r.tab = t /\ r.user = UserOf[t] /\ r.conv = None
  BY DEF Shaped, Blank, Req, NoReq

Posted(c, u) == [NoReq EXCEPT !.kind = "note", !.user = u, !.conv = c]

LEMMA BlankNote ==
  ASSUME NEW c, NEW u
  PROVE  /\ Blank(Posted(c, u)) /\ Posted(c, u).kind = "note"
         /\ Posted(c, u).user = u /\ Posted(c, u).conv = c
  BY DEF Shaped, Blank, NoReq, Posted

(* An assignment to r leaves the rest of it as it was. *)
LEMMA Untouched ==
  ASSUME NEW r, Shaped(r), NEW x, NEW y
  PROVE  /\ LET q == Aimed(r, x, y) IN
              /\ SameAim(q, r) /\ q.conv = x /\ q.cur = y /\ q.made = r.made /\ q.count = r.count
              /\ q.counts = r.counts
         /\ LET q == Made(r, x) IN
              /\ SameAim(q, r) /\ q.conv = x /\ q.made /\ q.count = r.count /\ q.cur = r.cur
              /\ q.counts = r.counts
         /\ LET q == Counted(r, x) IN
              /\ SameAim(q, r) /\ q.conv = r.conv /\ q.made = r.made /\ q.count = x
              /\ q.cur = r.cur /\ q.counts = r.counts
         /\ LET q == Listing(r, x) IN
              /\ SameAim(q, r) /\ q.conv = r.conv /\ q.made = r.made /\ q.count = r.count
              /\ q.rows = x /\ q.counts = r.counts
         /\ LET q == Tallied(r, x) IN
              /\ SameAim(q, r) /\ q.conv = r.conv /\ q.made = r.made /\ q.count = r.count
              /\ q.rows = r.rows /\ q.counts = x
         /\ LET q == Detailed(r, x) IN
              /\ SameAim(q, r) /\ q.conv = r.conv /\ q.made = r.made /\ q.count = r.count
              /\ q.counts = r.counts
         /\ LET q == Paged(r, x) IN
              /\ SameAim(q, r) /\ q.conv = r.conv /\ q.made = r.made /\ q.count = r.count
              /\ q.counts = r.counts /\ q.items = x
         /\ LET q == Numbered(r, x) IN
              /\ SameAim(q, r) /\ q.conv = r.conv /\ q.made = r.made /\ q.count = r.count
              /\ q.counts = r.counts /\ q.n = x
  BY DEF Shaped, SameAim, Aimed, Made, Counted, Listing, Tallied, Detailed, Paged, Numbered

LEMMA CountsAreNumbers ==
  ASSUME BaseInv, NEW c \in Convs, NEW u, NEW from \in Nat
  PROVE  UnreadFrom(c, u, from) \in Nat
<1> DEFINE S == {n \in from + 1 .. Len(log[c]) : CountsAsUnread(log[c][n], u)}
<1>1. Len(log[c]) \in Nat
  BY Lengths
<1>2. IsFiniteSet(from + 1 .. Len(log[c]))
  BY <1>1, FS_Interval
<1>3. IsFiniteSet(S)
  BY <1>2, FS_Subset
<1> QED
  BY <1>3, FS_CardinalityType DEF UnreadFrom

LEMMA InitBase == Init => BaseInv
<1> SUFFICES ASSUME Init PROVE BaseInv
  OBVIOUS
<1>1. SeenInv
  BY InitSeen
<1>2. Requests
  <2>1. \A p \in Procs : pc[p] = "idle" /\ req[p] = NoReq
    BY DEF Init
  <2>2. Blank(NoReq) /\ NoReq.kind = "none"
    BY BlankNone
  <2> QED
    <3>1. \A p \in Procs : Sound(key, log, pc[p], req[p])
      BY <2>1, <2>2, NullAssumption DEF Sound, Blank
    <3>2. OneTeller
      BY <2>1 DEF OneTeller, Telling
    <3> QED
      BY <3>1, <3>2 DEF Requests
<1>3. Shelves
  BY NullAssumption DEF Init, Shelves
<1>4. Doubts
  BY DEF Init, Doubts
<1> QED
  BY <1>1, <1>2, <1>3, <1>4 DEF BaseInv

LEMMA WiderSequences ==
  ASSUME NEW S, NEW T, S \subseteq T, NEW s \in Seq(S)
  PROVE  s \in Seq(T)
<1>1. Len(s) \in Nat /\ s \in [1 .. Len(s) -> T]
  OBVIOUS
<1> QED
  BY <1>1

LEMMA StepBase == BaseInv /\ [Next]_vars => BaseInv'
<1> SUFFICES ASSUME BaseInv, [Next]_vars
             PROVE  BaseInv'
  OBVIOUS
<1> USE DEF Begin, Goto, serverVars, tabVars, flight, doubts
<1>n. SeenInv'
  BY StepSeen DEF BaseInv
<1>c. ASSUME NEW p \in Procs
      PROVE  /\ Shaped(req[p]) /\ Fit(pc[p], req[p]) /\ Finds(key, pc[p], req[p])
             /\ Carries(log, cursor, pc[p], req[p]) /\ Sound(key, log, pc[p], req[p])
  BY DEF BaseInv, SeenInv, KeyInv, Handlers, Requests
<1>l. \A c \in Convs : log[c] \in Seq(Entries) /\ Len(log[c]) \in Nat
                       /\ DOMAIN log[c] = 1 .. Len(log[c])
  BY Lengths
<1>t. /\ badge \in [Tabs -> [Convs -> Nat \cup {None}]]
      /\ acked \in [Tabs -> Nat] /\ paged \in [Tabs -> SUBSET Convs]
      /\ off \in [Tabs -> SUBSET Convs] /\ risk \in [Procs -> SUBSET Convs]
      /\ at \in [Tabs -> Convs \cup {None}]
      /\ key \in [Convs -> Keys] /\ log \in Logs
  BY DEF BaseInv, Shelves, Doubts, SeenInv, Pages, KeyInv, Tables
<1>h. /\ hist = [t \in Tabs |-> [c \in Convs |-> hist[t][c]]]
      /\ \A t \in Tabs : DOMAIN hist[t] = Convs
      /\ DOMAIN hist = Tabs
  BY DEF BaseInv, SeenInv, Pages
(* A handler goes on and announces no message. *)
<1>g. ASSUME NEW p \in Procs, NEW step, NEW r,
             pc' = [pc EXCEPT ![p] = step], req' = [req EXCEPT ![p] = r],
             Sound(key', log, step, r), Keeps(key, key'), UNCHANGED log,
             ~(step = "announce" /\ r.kind \in {"send", "note"})
      PROVE  Requests'
  <2>1. \A c \in Convs : Len(log'[c]) \in Nat /\ Len(log[c]) <= Len(log'[c])
    BY <1>g, <1>l
  <2> QED
    BY <1>g, <2>1, RequestsGoOn
<1>f. ASSUME NEW p \in Procs, Finish(p), UNCHANGED <<key, log>>
      PROVE  Requests'
  <2>1. Sound(key, log, "idle", NoReq)
    BY BlankNone DEF Sound, Blank
  <2> QED
    BY <1>f, <1>g, <2>1, BlankNone, KeysKept DEF Finish
(* A handler is started. *)
<1>b. ASSUME NEW p \in Procs, NEW step, NEW r,
             pc' = [pc EXCEPT ![p] = step], req' = [req EXCEPT ![p] = r],
             Blank(r), step # "announce", step # "reply",
             r.kind \in {"open", "list", "page", "detail", "send", "delete", "read"} =>
               r.tab \in Tabs /\ r.user = UserOf[r.tab],
             r.kind \in {"send", "note", "delete"} => key[r.conv] # None,
             UNCHANGED <<serverVars, tabVars, doubts>>
      PROVE  BaseInv'
  <2>1. Sound(key, log, step, r)
    BY <1>b DEF Sound, Blank
  <2>2. Requests'
    BY <1>b, <1>g, <2>1, KeysKept
  <2>3. Shelves' /\ Doubts'
    BY <1>b, ShelvesStay, KeysKept DEF BaseInv, Doubts
  <2> QED
    BY <1>n, <2>2, <2>3 DEF BaseInv
(* A handler goes on, and the tabs learn nothing.                           *)
<1>q. ASSUME NEW p \in Procs, NEW step, NEW r,
             pc' = [pc EXCEPT ![p] = step], req' = [req EXCEPT ![p] = r],
             Sound(key', log, step, r), Keeps(key, key'), UNCHANGED <<log, tabVars>>,
             ~(step = "announce" /\ r.kind \in {"send", "note"}), Doubts'
      PROVE  BaseInv'
  <2>1. Requests'
    BY <1>q, <1>g
  <2>2. Shelves'
    BY <1>q, ShelvesStay
  <2> QED
    BY <1>n, <1>q, <2>1, <2>2 DEF BaseInv
<1>1. ASSUME NEW p \in Procs, NEW t \in Tabs, NEW peer \in Users, OpenDirect(p, t, peer)
      PROVE  BaseInv'
  <2> DEFINE r == [Req("open", t, None) EXCEPT !.peer = peer]
  <2>1. Blank(r) /\ r.kind = "open" /\ r.tab = t /\ r.user = UserOf[t]
    BY BlankOpen
  <2>2. pc' = [pc EXCEPT ![p] = "find"] /\ req' = [req EXCEPT ![p] = r]
        /\ UNCHANGED <<serverVars, tabVars, doubts>>
    BY <1>1 DEF OpenDirect
  <2> HIDE DEF r
  <2> QED
    BY <1>b, <2>1, <2>2
<1>2. ASSUME NEW p \in Procs, NEW c \in WithKey(KeyOf(req[p])), Found(p, c),
             pc[p] \in {"find", "again"}
      PROVE  BaseInv'
  <2> DEFINE r == Aimed(req[p], c, cursor[c])
  <2>1. r.kind = "open" /\ req[p].kind = "open" /\ r.tab = req[p].tab /\ r.user = req[p].user
        /\ r.made = req[p].made /\ r.count = req[p].count /\ r.counts = req[p].counts
    BY <1>2, <1>c, Untouched DEF SameAim, Fit
  <2>2. pc' = [pc EXCEPT ![p] = "count"] /\ req' = [req EXCEPT ![p] = r]
        /\ UNCHANGED <<serverVars, tabVars, off>> /\ Look(p)
    BY <1>2 DEF Found, Aimed
  <2> HIDE DEF r
  <2>3. Sound(key, log, "count", r)
    BY <1>c, <2>1 DEF Sound
  <2>4. Doubts'
    BY <2>2, DoubtsTyped DEF Doubts, BaseInv
  <2> QED
    BY <1>q, <2>1, <2>2, <2>3, <2>4, KeysKept
<1>3. ASSUME NEW p \in Procs, Find(p) PROVE BaseInv'
  <2>1. CASE WithKey(KeyOf(req[p])) = {}
    <3>1. Sound(key, log, "insert", req[p])
      BY <1>c, <1>3 DEF Find, Fit, Sound
    <3>2. pc' = [pc EXCEPT ![p] = "insert"] /\ req' = [req EXCEPT ![p] = req[p]]
          /\ UNCHANGED <<serverVars, tabVars, doubts>>
      BY <1>3, <2>1 DEF Find
    <3> QED
      BY <1>q, <3>1, <3>2, KeysKept DEF BaseInv, Doubts
  <2> QED
    BY <1>2, <1>3, <2>1 DEF Find
<1>4. ASSUME NEW p \in Procs, FindAgain(p) PROVE BaseInv'
  BY <1>2, <1>4 DEF FindAgain
<1>5. ASSUME NEW p \in Procs, Insert(p) PROVE BaseInv'
  <2>1. PICK c \in Convs : /\ key[c] = None /\ key' = [key EXCEPT ![c] = KeyOf(req[p])]
                           /\ pc' = [pc EXCEPT ![p] = "count"]
                           /\ req' = [req EXCEPT ![p] = [req[p] EXCEPT !.conv = c, !.made = TRUE]]
    BY <1>5, Zenon DEF Insert
  <2> DEFINE r == Made(req[p], c)
  <2>2. r.kind = "open" /\ req[p].kind = "open" /\ r.tab = req[p].tab /\ r.user = req[p].user
        /\ r.count = req[p].count /\ r.counts = req[p].counts
    BY <1>5, <1>c, Untouched DEF SameAim, Fit, Insert
  <2>3. UNCHANGED <<log, tabVars, off>> /\ Look(p) /\ req' = [req EXCEPT ![p] = r]
    BY <1>5, <2>1 DEF Insert, Made
  <2> HIDE DEF r
  <2>4. Sound(key', log, "count", r)
    BY <1>c, <2>2 DEF Sound
  <2>5. Doubts'
    BY <2>3, DoubtsTyped DEF Doubts, BaseInv
  <2>6. Keeps(key, key')
    BY <2>1, <1>t DEF Keeps
  <2> QED
    BY <1>q, <2>1, <2>2, <2>3, <2>4, <2>5, <2>6
<1>6. ASSUME NEW p \in Procs, Raced(p) PROVE BaseInv'
  <2>1. pc' = [pc EXCEPT ![p] = "again"] /\ req' = [req EXCEPT ![p] = req[p]]
        /\ UNCHANGED <<serverVars, tabVars, doubts>>
    BY <1>6 DEF Raced
  <2>2. Sound(key, log, "again", req[p])
    BY <1>6, <1>c DEF Raced, Fit, Sound
  <2> QED
    BY <1>q, <2>1, <2>2, KeysKept DEF BaseInv, Doubts
<1>7. ASSUME NEW p \in Procs, Count(p) PROVE BaseInv'
  <2> DEFINE n == UnreadFrom(req[p].conv, req[p].user, req[p].cur[req[p].user])
             r == Counted(req[p], n)
  <2>1. r.kind = "open" /\ req[p].kind = "open" /\ r.tab = req[p].tab /\ r.user = req[p].user
        /\ r.made = req[p].made /\ r.count = n /\ r.counts = req[p].counts
    BY <1>7, <1>c, Untouched DEF SameAim, Fit, Count
  <2>2. n \in Nat
    <3>1. Behind(cursor, req[p]) /\ req[p].user \in Users
      BY <1>7, <1>c, <2>1 DEF Count, Carries, Fit
    <3> QED
      BY <3>1, CountsAreNumbers DEF Behind
  <2>3. PICK step \in {"announce", "reply"} :
          /\ pc' = [pc EXCEPT ![p] = step] /\ req' = [req EXCEPT ![p] = r]
          /\ step = "announce" => req[p].made
    BY <1>7 DEF Count, Counted
  <2>4. UNCHANGED <<serverVars, tabVars, off>> /\ Look(p)
    BY <1>7 DEF Count
  <2> HIDE DEF r, n
  <2>5. Sound(key, log, step, r)
    BY <1>c, <2>1, <2>2, <2>3 DEF Sound
  <2>6. Doubts'
    BY <2>4, DoubtsTyped DEF Doubts, BaseInv
  <2> QED
    BY <1>q, <2>1, <2>3, <2>4, <2>5, <2>6, KeysKept
<1>8. ASSUME NEW p \in Procs, AnnounceMade(p) PROVE BaseInv'
  <2> DEFINE c == req[p].conv
             theirs == {t \in link : UserOf[t] \in key[c]}
  <2>1. /\ pc' = [pc EXCEPT ![p] = "reply"] /\ req' = [req EXCEPT ![p] = req[p]]
        /\ UNCHANGED <<serverVars, at, paged, hist, acked>>
        /\ \E ts : Doubt(ts, c)
        /\ Overtake(p, c) /\ Upsert(theirs, c, 0)
        /\ pc[p] = "announce" /\ req[p].kind = "open"
    BY <1>8 DEF AnnounceMade
  <2>2. c \in Convs /\ key[c] = KeyOf(req[p])
    BY <1>c, <2>1 DEF Finds
  <2>3. key[c] # None
    BY <1>c, <2>1, <2>2, KeyIsSomething DEF Fit
  <2>4. Sound(key, log, "reply", req[p])
    BY <1>c, <2>1 DEF Sound
  <2>5. Requests'
    BY <1>g, <2>1, <2>4, KeysKept
  <2>6. Doubts'
    BY <2>1, <2>2, DoubtsTyped DEF Doubts
  <2>7. badge' = [t \in Tabs |-> IF t \in theirs THEN [badge[t] EXCEPT ![c] = 0] ELSE badge[t]]
    BY <2>1 DEF Upsert
  <2> HIDE DEF c
  <2>8. badge' \in [Tabs -> [Convs -> Nat \cup {None}]]
    BY <1>t, <2>7
  <2>9. ASSUME NEW t \in Tabs, NEW d \in Convs, badge'[t][d] # None
        PROVE  d \in Owned(key, UserOf[t])
    <3>1. CASE t \in theirs /\ d = c
      BY <2>2, <2>3, <3>1 DEF Owned
    <3>2. CASE ~(t \in theirs /\ d = c)
      <4>1. badge'[t][d] = badge[t][d]
        BY <1>t, <2>7, <3>2
      <4> QED
        BY <2>9, <4>1 DEF BaseInv, Shelves
    <3> QED
      BY <3>1, <3>2
  <2>10. Shelves'
    BY <2>1, <2>8, <2>9 DEF BaseInv, Shelves
  <2> QED
    BY <1>n, <2>5, <2>6, <2>10 DEF BaseInv
<1>9. ASSUME NEW p \in Procs, Opened(p) PROVE BaseInv'
  <2> DEFINE r == req[p]
             c == r.conv
             t == r.tab
  <2>1. /\ Finish(p) /\ UNCHANGED <<serverVars, paged, hist>>
        /\ Upsert({t}, c, r.count) /\ GoTo(t, c) /\ Settle(p)
        /\ off' = [off EXCEPT ![t] = (@ \ {c}) \cup (risk[p] \cap {c}) \cup LeftUnread(t, c)]
        /\ pc[p] = "reply" /\ r.kind = "open"
    BY <1>9 DEF Opened
  <2>2. c \in Convs /\ key[c] = KeyOf(r) /\ t \in Tabs /\ r.user = UserOf[t]
        /\ r.count \in Nat
    BY <1>c, <2>1 DEF Finds, Sound
  <2>3. key[c] # None /\ UserOf[t] \in key[c]
    BY <1>c, <2>1, <2>2, KeyIsSomething DEF Fit, KeyOf
  <2>4. /\ badge' = [s \in Tabs |-> IF s \in {t} THEN [badge[s] EXCEPT ![c] = r.count]
                                     ELSE badge[s]]
        /\ at' = [at EXCEPT ![t] = c]
        /\ acked' = [acked EXCEPT ![t] = IF at[t] = c THEN @ ELSE 0]
    BY <2>1 DEF Upsert, GoTo
  <2>5. Requests'
    BY <1>f, <2>1
  <2> HIDE DEF r, c, t
  <2>6. Doubts'
    <3>1. LeftUnread(t, c) \subseteq Convs
      BY DEF LeftUnread
    <3>2. off' \in [Tabs -> SUBSET Convs]
      BY <1>t, <2>1, <3>1
    <3> QED
      BY <2>1, <3>2, DoubtsTyped DEF Doubts
  <2>7. badge' \in [Tabs -> [Convs -> Nat \cup {None}]] /\ acked' \in [Tabs -> Nat]
    BY <1>t, <2>2, <2>4
  <2>8. ASSUME NEW s \in Tabs, NEW d \in Convs, badge'[s][d] # None
        PROVE  d \in Owned(key, UserOf[s])
    <3>1. CASE s = t /\ d = c
      BY <2>2, <2>3, <3>1 DEF Owned
    <3>2. CASE ~(s = t /\ d = c)
      <4>1. badge'[s][d] = badge[s][d]
        BY <1>t, <2>4, <3>2
      <4> QED
        BY <2>8, <4>1 DEF BaseInv, Shelves
    <3> QED
      BY <3>1, <3>2
  <2>9. ASSUME NEW s \in Tabs, NEW d \in Convs, at'[s] = d
        PROVE  key[d] # None /\ acked'[s] <= Len(log[d])
    <3>1. CASE s = t
      BY <1>l, <1>t, <2>2, <2>3, <2>4, <2>9, <3>1 DEF BaseInv, Shelves
    <3>2. CASE s # t
      BY <1>t, <2>4, <2>9, <3>2 DEF BaseInv, Shelves
    <3> QED
      BY <3>1, <3>2
  <2>10. Shelves'
    BY <2>1, <2>7, <2>8, <2>9 DEF BaseInv, Shelves
  <2> QED
    BY <1>n, <2>5, <2>6, <2>10 DEF BaseInv
<1>10. ASSUME NEW p \in Procs, ListLoads(p) PROVE BaseInv'
  <2> DEFINE r == req[p]
             t == r.tab
  <2>1. /\ Finish(p) /\ UNCHANGED <<serverVars, at, acked, paged, hist>> /\ Settle(p)
        /\ badge' = [badge EXCEPT ![t] =
             [c \in Convs |-> IF c \in r.rows THEN r.counts[c] ELSE None]]
        /\ off' = [off EXCEPT ![t] = risk[p]]
    BY <1>10 DEF ListLoads
  <2>2. /\ t \in Tabs /\ r.user = UserOf[t] /\ r.counts \in [Convs -> Nat]
        /\ r.rows \subseteq Owned(key, r.user)
    BY <1>10, <1>c DEF ListLoads, Sound
  <2> HIDE DEF r, t
  <2>3. Requests'
    BY <1>f, <2>1
  <2>4. Doubts'
    BY <1>t, <2>1, <2>2, DoubtsTyped DEF Doubts
  <2>5. badge' \in [Tabs -> [Convs -> Nat \cup {None}]]
    BY <1>t, <2>1, <2>2
  <2>6. ASSUME NEW s \in Tabs, NEW d \in Convs, badge'[s][d] # None
        PROVE  d \in Owned(key, UserOf[s])
    <3>1. CASE s = t
      BY <1>t, <2>1, <2>2, <2>6, <3>1
    <3>2. CASE s # t
      BY <1>t, <2>1, <2>6, <3>2 DEF BaseInv, Shelves
    <3> QED
      BY <3>1, <3>2
  <2>7. Shelves'
    BY <2>1, <2>5, <2>6 DEF BaseInv, Shelves
  <2> QED
    BY <1>n, <2>3, <2>4, <2>7 DEF BaseInv
<1>11. ASSUME NEW p \in Procs, NEW t \in Tabs, AskList(p, t) PROVE BaseInv'
  <2> DEFINE r == Req("list", t, None)
  <2>1. Blank(r) /\ r.kind = "list" /\ r.tab = t /\ r.user = UserOf[t]
    BY BlankRequest
  <2>2. pc' = [pc EXCEPT ![p] = "read"] /\ req' = [req EXCEPT ![p] = r]
        /\ UNCHANGED <<serverVars, tabVars, doubts>>
    BY <1>11 DEF AskList
  <2> HIDE DEF r
  <2> QED
    BY <1>b, <2>1, <2>2
<1>12. ASSUME NEW p \in Procs, ReadList(p) PROVE BaseInv'
  <2>0. PICK rows, counts : /\ rows = ConvsOf(req[p].user)
                            /\ counts = [c \in Convs |-> Unread(c, req[p].user)]
    OBVIOUS
  <2> DEFINE a == Listing(req[p], rows)
             b == Tallied(req[p], counts)
  <2>1. req' = [req EXCEPT ![p] = a] \/ req' = [req EXCEPT ![p] = b]
    BY <1>12, <2>0 DEF ReadList, Listing, Tallied
  <2>2. Shaped(req[p]) /\ req[p].kind = "list" /\ ~req[p].made
    BY <1>12, <1>c DEF ReadList, Sound
  <2>3. /\ a.kind = "list" /\ a.tab = req[p].tab /\ a.user = req[p].user /\ ~a.made
        /\ a.count = req[p].count /\ a.counts = req[p].counts /\ a.rows = rows
        /\ b.kind = "list" /\ b.tab = req[p].tab /\ b.user = req[p].user /\ ~b.made
        /\ b.count = req[p].count /\ b.counts = counts /\ b.rows = req[p].rows
    BY <2>2, Untouched DEF SameAim
  <2>4. rows = Owned(key, req[p].user)
    BY <2>0 DEF ConvsOf, MembersOf, Owned
  <2>5. counts \in [Convs -> Nat]
    <3>1. ASSUME NEW c \in Convs PROVE Unread(c, req[p].user) \in Nat
      <4>1. req[p].user \in Users
        BY <1>c, <2>2, SignedInAssumption DEF Sound
      <4>2. cursor[c][req[p].user] \in Nat
        BY <4>1 DEF BaseInv, SeenInv, Tables, Cursors
      <4> QED
        BY <4>2, CountsAreNumbers DEF Unread
    <3> QED
      BY <2>0, <3>1
  <2> HIDE DEF a, b
  <2>6. PICK step \in {"reply", "read"} :
          /\ pc' = [pc EXCEPT ![p] = step]
          /\ step = "reply" => req'[p].rows # None /\ req'[p].counts # None
    BY <1>12 DEF ReadList
  <2>7. UNCHANGED <<serverVars, tabVars, off>> /\ Look(p)
    BY <1>12 DEF ReadList
  <2>8. Doubts'
    BY <2>7, DoubtsTyped DEF Doubts, BaseInv
  <2>9. DOMAIN req = Procs
    BY DEF BaseInv, SeenInv, KeyInv
  <2>10. CASE req' = [req EXCEPT ![p] = a]
    <3>1. req'[p] = a
      BY <2>9, <2>10
    <3>2. Sound(key, log, step, a)
      BY <1>c, <2>2, <2>3, <2>4, <2>6, <3>1 DEF Sound
    <3> QED
      BY <1>q, <2>10, <2>3, <2>6, <2>7, <2>8, <3>2, KeysKept
  <2>11. CASE req' = [req EXCEPT ![p] = b]
    <3>1. req'[p] = b
      BY <2>9, <2>11
    <3>2. Sound(key, log, step, b)
      BY <1>c, <2>2, <2>3, <2>5, <2>6, <3>1 DEF Sound
    <3> QED
      BY <1>q, <2>11, <2>3, <2>6, <2>7, <2>8, <3>2, KeysKept
  <2> QED
    BY <2>1, <2>10, <2>11
<1>13. ASSUME NEW t \in Tabs, NEW c \in Convs \cup {None}, Visit(t, c) PROVE BaseInv'
  <2>1. /\ at' = [at EXCEPT ![t] = c]
        /\ acked' = [acked EXCEPT ![t] = IF at[t] = c THEN @ ELSE 0]
        /\ UNCHANGED <<serverVars, flight, badge, paged, hist, risk>>
        /\ off' = [off EXCEPT ![t] = @ \cup LeftUnread(t, c)]
        /\ c # None => badge[t][c] # None
    BY <1>13 DEF Visit, GoTo
  <2>2. Requests'
    BY <2>1 DEF BaseInv, Requests, OneTeller, Telling
  <2>3. Doubts'
    <3>1. LeftUnread(t, c) \subseteq Convs
      BY DEF LeftUnread
    <3> QED
      BY <1>t, <2>1, <3>1 DEF Doubts
  <2>4. c # None => key[c] # None
    BY <2>1 DEF BaseInv, Shelves, Owned
  <2>5. ASSUME NEW s \in Tabs, NEW d \in Convs, at'[s] = d
        PROVE  key[d] # None /\ acked'[s] <= Len(log[d])
    <3>1. CASE s = t
      <4>1. c = d /\ d # None
        BY <1>t, <2>1, <2>5, <3>1, NullAssumption
      <4> QED
        BY <1>l, <1>t, <2>1, <2>4, <3>1, <4>1 DEF BaseInv, Shelves
    <3>2. CASE s # t
      BY <1>t, <2>1, <2>5, <3>2 DEF BaseInv, Shelves
    <3> QED
      BY <3>1, <3>2
  <2>6. acked' \in [Tabs -> Nat]
    BY <1>t, <2>1
  <2>7. Shelves'
    BY <2>1, <2>5, <2>6 DEF BaseInv, Shelves
  <2> QED
    BY <1>n, <2>2, <2>3, <2>7 DEF BaseInv
<1>14. ASSUME NEW p \in Procs, NEW t \in Tabs, AskPage(p, t) PROVE BaseInv'
  <2>1. PICK kind \in {"page", "detail"} :
          pc' = [pc EXCEPT ![p] = "read"] /\ req' = [req EXCEPT ![p] = Req(kind, t, at[t])]
    BY <1>14 DEF AskPage
  <2> DEFINE r == Req(kind, t, at[t])
  <2>2. Blank(r) /\ r.kind = kind /\ r.tab = t /\ r.user = UserOf[t]
    BY BlankRequest
  <2>3. UNCHANGED <<serverVars, tabVars, doubts>> /\ req' = [req EXCEPT ![p] = r]
    BY <1>14, <2>1 DEF AskPage
  <2> HIDE DEF r
  <2> QED
    BY <1>b, <2>1, <2>2, <2>3
<1>15. ASSUME NEW p \in Procs, ReadPage(p) PROVE BaseInv'
  <2> DEFINE c == req[p].conv
  <2>0. PICK items : items = [i \in DOMAIN log[c] |-> Len(log[c]) + 1 - i]
    OBVIOUS
  <2> DEFINE a == Detailed(req[p], cursor[c])
             b == Paged(req[p], items)
  <2>1. /\ pc' = [pc EXCEPT ![p] = "reply"]
        /\ \/ req[p].kind = "detail" /\ req' = [req EXCEPT ![p] = a]
           \/ req[p].kind = "page" /\ req' = [req EXCEPT ![p] = b]
    BY <1>15, <2>0 DEF ReadPage, Detailed, Paged
  <2>2. c \in Convs /\ UNCHANGED <<serverVars, tabVars, doubts>>
    BY <1>15, <1>c DEF ReadPage, Carries
  <2>3. /\ a.kind = req[p].kind /\ a.tab = req[p].tab /\ a.user = req[p].user
        /\ a.made = req[p].made /\ a.count = req[p].count /\ a.counts = req[p].counts
        /\ b.kind = req[p].kind /\ b.tab = req[p].tab /\ b.user = req[p].user
        /\ b.made = req[p].made /\ b.count = req[p].count /\ b.counts = req[p].counts
        /\ b.conv = c /\ b.items = items
    BY <1>c, Untouched DEF SameAim
  <2>4. Whole(log, c, items)
    <3>1. Len(log[c]) \in 0 .. Len(log[c]) /\ DOMAIN log[c] = 1 .. Len(log[c])
      BY <1>l, <2>2
    <3>2. items = [i \in 1 .. Len(log[c]) |-> Len(log[c]) + 1 - i]
      BY <2>0, <3>1
    <3> HIDE DEF c
    <3> QED
      BY <3>1, <3>2 DEF Whole
  <2> HIDE DEF a, b
  <2>5. req[p].kind = "detail" => Sound(key, log, "reply", a)
    BY <1>c, <2>3 DEF Sound
  <2>6. req[p].kind = "page" => Sound(key, log, "reply", b)
    BY <1>c, <2>3, <2>4 DEF Sound
  <2> QED
    BY <1>q, <2>1, <2>2, <2>5, <2>6, KeysKept DEF BaseInv, Doubts
<1>16. ASSUME NEW p \in Procs, PageLoads(p) PROVE BaseInv'
  <2> DEFINE r == req[p]
             c == r.conv
             t == r.tab
  <2>1. /\ Finish(p) /\ UNCHANGED <<serverVars, badge, at, acked, risk>>
        /\ \/ UNCHANGED <<paged, hist, off>>
           \/ /\ r.kind = "page" /\ paged' = [paged EXCEPT ![t] = @ \cup {c}]
              /\ hist' = [hist EXCEPT ![t][c] = r.items]
              /\ \E ts : Doubt(ts, c)
        /\ pc[p] = "reply" /\ r.kind \in {"page", "detail"}
    BY <1>16 DEF PageLoads
  <2>2. t \in Tabs /\ c \in Convs
    BY <1>c, <2>1 DEF Sound, Carries
  <2>3. r.kind = "page" => r.items \in Seq(1 .. Len(log[c]))
    <3>1. r.kind = "page" => Whole(log, c, r.items)
      BY <1>c, <2>1 DEF Sound
    <3>2. ASSUME NEW n \in 0 .. Len(log[c])
          PROVE  [i \in 1 .. n |-> n + 1 - i] \in Seq(1 .. Len(log[c]))
      <4>1. [i \in 1 .. n |-> n + 1 - i] \in [1 .. n -> 1 .. Len(log[c])]
        BY <1>l, <2>2, <3>2
      <4> QED
        BY <1>l, <2>2, <4>1
    <3> QED
      BY <3>1, <3>2 DEF Whole
  <2> HIDE DEF r, c, t
  <2>4. Requests'
    BY <1>f, <2>1
  <2>5. Doubts'
    BY <1>t, <2>1, <2>2, DoubtsTyped DEF Doubts
  <2>6. paged' \in [Tabs -> SUBSET Convs]
    BY <1>t, <2>1, <2>2
  <2>7. ASSUME NEW s \in Tabs, NEW d \in Convs PROVE hist'[s][d] \in Seq(1 .. Len(log[d]))
    <3>1. hist[s][d] \in Seq(1 .. Len(log[d]))
      BY DEF BaseInv, Shelves
    <3>2. hist'[s][d] = hist[s][d] \/ (r.kind = "page" /\ d = c /\ hist'[s][d] = r.items)
      <4>1. CASE hist' = hist
        BY <4>1
      <4>2. CASE hist' = [hist EXCEPT ![t][c] = r.items] /\ r.kind = "page"
        BY <1>h, <2>2, <4>2
      <4> QED
        BY <2>1, <4>1, <4>2
    <3> QED
      BY <2>3, <3>1, <3>2
  <2>8. Shelves'
    BY <2>1, <2>6, <2>7 DEF BaseInv, Shelves
  <2> QED
    BY <1>n, <2>4, <2>5, <2>8 DEF BaseInv
<1>17. ASSUME NEW p \in Procs, NEW t \in Tabs, Send(p, t) PROVE BaseInv'
  <2> DEFINE r == Req("send", t, at[t])
  <2>1. pc' = [pc EXCEPT ![p] = "store"] /\ req' = [req EXCEPT ![p] = r]
        /\ UNCHANGED <<serverVars, tabVars, doubts>>
    BY <1>17 DEF Send
  <2>2. Blank(r) /\ r.kind = "send" /\ r.conv = at[t] /\ r.tab = t /\ r.user = UserOf[t]
    BY BlankRequest
  <2>3. key[at[t]] # None
    BY <1>17, <1>t DEF Send, BaseInv, Shelves
  <2> HIDE DEF r
  <2> QED
    BY <1>b, <2>1, <2>2, <2>3
<1>18. ASSUME NEW p \in Procs, NEW c \in Convs, NEW u \in Users, Note(p, c, u) PROVE BaseInv'
  <2> DEFINE r == Posted(c, u)
  <2>1. pc' = [pc EXCEPT ![p] = "store"] /\ req' = [req EXCEPT ![p] = r]
        /\ UNCHANGED <<serverVars, tabVars, doubts>>
    BY <1>18 DEF Note, Posted
  <2>2. Blank(r) /\ r.kind = "note" /\ r.conv = c
    BY BlankNote
  <2>3. key[c] # None
    BY <1>18 DEF Note, MembersOf
  <2> HIDE DEF r
  <2> QED
    BY <1>b, <2>1, <2>2, <2>3
<1>19. ASSUME NEW p \in Procs, NEW t \in Tabs, NEW n, Delete(p, t, n) PROVE BaseInv'
  <2> DEFINE r == Numbered(Req("delete", t, at[t]), n)
  <2>1. pc' = [pc EXCEPT ![p] = "store"] /\ req' = [req EXCEPT ![p] = r]
        /\ UNCHANGED <<serverVars, tabVars, doubts>>
    BY <1>19 DEF Delete, Numbered
  <2>2. Blank(r) /\ r.kind = "delete" /\ r.conv = at[t] /\ r.tab = t /\ r.user = UserOf[t]
    BY BlankNumbered
  <2>3. key[at[t]] # None
    BY <1>19, <1>t DEF Delete, BaseInv, Shelves
  <2> HIDE DEF r
  <2> QED
    BY <1>b, <2>1, <2>2, <2>3
<1>20. ASSUME NEW p \in Procs, NEW t \in Tabs, Acknowledge(p, t) PROVE BaseInv'
  <2> DEFINE c == at[t]
             n == hist[t][c][1]
             r == Numbered(Req("read", t, c), n)
  <2>1. /\ c # None /\ hist[t][c] # <<>>
        /\ acked' = [acked EXCEPT ![t] = n]
        /\ badge' = IF badge[t][c] = None THEN badge ELSE [badge EXCEPT ![t][c] = 0]
        /\ Overtake(p, c)
        /\ UNCHANGED <<serverVars, at, paged, hist>>
    BY <1>20 DEF Acknowledge
  <2>2. \/ pc' = [pc EXCEPT ![p] = "mark"] /\ req' = [req EXCEPT ![p] = r]
        \/ UNCHANGED <<pc, req>>
    BY <1>20 DEF Acknowledge, Numbered
  <2>3. off' = off \/ \E ts : Doubt(ts, c)
    BY <1>20 DEF Acknowledge
  <2>4. c \in Convs
    BY <1>t, <2>1
  <2>5. n \in 1 .. Len(log[c])
    <3>1. hist[t][c] \in Seq(1 .. Len(log[c]))
      BY <2>4 DEF BaseInv, Shelves
    <3> QED
      BY <2>1, <3>1
  <2>6. Blank(r) /\ r.kind = "read" /\ r.tab = t /\ r.user = UserOf[t]
    BY BlankNumbered
  <2> HIDE DEF r, n, c
  <2>7. Requests'
    <3>1. CASE UNCHANGED <<pc, req>>
      BY <2>1, <3>1 DEF BaseInv, Requests, OneTeller, Telling
    <3>2. CASE pc' = [pc EXCEPT ![p] = "mark"] /\ req' = [req EXCEPT ![p] = r]
      <4>1. Sound(key, log, "mark", r)
        BY <2>6 DEF Sound, Blank
      <4> QED
        BY <1>g, <2>1, <3>2, <4>1, KeysKept
    <3> QED
      BY <2>2, <3>1, <3>2
  <2>8. Doubts'
    BY <1>t, <2>1, <2>3, <2>4, DoubtsTyped DEF Doubts
  <2>9. acked' \in [Tabs -> Nat] /\ badge' \in [Tabs -> [Convs -> Nat \cup {None}]]
    BY <1>l, <1>t, <2>1, <2>4, <2>5
  <2>10. ASSUME NEW s \in Tabs, NEW d \in Convs, badge'[s][d] # None
         PROVE  badge[s][d] # None
    BY <1>t, <2>1, <2>10
  <2>11. ASSUME NEW s \in Tabs, NEW d \in Convs, at[s] = d
         PROVE  acked'[s] <= Len(log[d])
    <3>1. CASE s = t
      <4>1. d = c
        BY <2>11, <3>1 DEF c
      <4>2. acked'[s] = n
        BY <1>t, <2>1, <3>1
      <4> QED
        BY <1>l, <2>4, <2>5, <4>1, <4>2
    <3>2. CASE s # t
      BY <1>t, <2>1, <2>11, <3>2 DEF BaseInv, Shelves
    <3> QED
      BY <3>1, <3>2
  <2>12. Shelves'
    BY <2>1, <2>9, <2>10, <2>11 DEF BaseInv, Shelves
  <2> QED
    BY <1>n, <2>7, <2>8, <2>12 DEF BaseInv
<1>21. ASSUME NEW p \in Procs, Store(p) PROVE BaseInv'
  <2> DEFINE r == req[p]
             c == req[p].conv
             e == Entry(req[p].user, req[p].kind = "note")
  <2>1. c \in Convs /\ r.kind \in {"send", "note", "delete"} /\ Shaped(r) /\ key[c] # None
    BY <1>21, <1>c DEF Store, Fit, Carries, Sound
  <2>2. UNCHANGED <<key, badge, at, acked, paged, hist>>
    BY <1>21 DEF Store
  <2>3. Doubts'
    BY <1>21, <1>t, <2>1, DoubtsTyped DEF Store, Doubts
  <2>4. log[c] \in Seq(Entries) /\ Len(log[c]) \in Nat
    BY <1>l, <2>1
  <2>5. ASSUME \A d \in Convs : Len(log'[d]) \in Nat /\ Len(log[d]) <= Len(log'[d])
                                /\ (d # c => log'[d] = log[d])
        PROVE  Shelves'
    <3>1. ASSUME NEW s \in Tabs, NEW d \in Convs PROVE hist[s][d] \in Seq(1 .. Len(log'[d]))
      <4>1. hist[s][d] \in Seq(1 .. Len(log[d]))
        BY DEF BaseInv, Shelves
      <4>2. 1 .. Len(log[d]) \subseteq 1 .. Len(log'[d])
        BY <1>l, <2>5
      <4> QED
        BY <4>1, <4>2, WiderSequences
    <3>2. ASSUME NEW s \in Tabs, NEW d \in Convs, at[s] = d PROVE acked[s] <= Len(log'[d])
      <4>1. acked[s] \in Nat /\ acked[s] <= Len(log[d])
        BY <3>2 DEF BaseInv, Shelves
      <4> QED
        BY <1>l, <2>5, <4>1
    <3>3. \A d \in Convs : log'[d] # <<>> => key[d] # None
      BY <2>1, <2>5 DEF BaseInv, Shelves
    <3> QED
      BY <2>2, <3>1, <3>2, <3>3 DEF BaseInv, Shelves
  <2>6. CASE r.kind = "delete"
    <3> DEFINE k == [log[c] EXCEPT ![r.n].gone = TRUE]
    <3>1. log' = [log EXCEPT ![c] = k]
          /\ pc' = [pc EXCEPT ![p] = "announce"] /\ req' = [req EXCEPT ![p] = r]
      BY <1>21, <2>6 DEF Store
    <3>2. k \in Seq(Entries) /\ DOMAIN k = DOMAIN log[c]
      BY <2>4, LogForgets
    <3>3. Len(k) = Len(log[c])
      BY <2>4, <3>2
    <3> HIDE DEF k
    <3>4. \A d \in Convs : Len(log'[d]) \in Nat /\ Len(log[d]) <= Len(log'[d])
                           /\ (d # c => log'[d] = log[d])
      BY <1>l, <1>t, <2>1, <3>1, <3>3 DEF Logs
    <3>5. Sound(key', log', "announce", r)
      <4>1. Sound(key, log, "store", r)
        BY <1>c, <1>21 DEF Store
      <4>2. Sound(key, log, "announce", r)
        BY <2>6, <4>1 DEF Sound
      <4>3. \A d \in Convs : Len(log[d]) \in Nat
        BY <1>l
      <4> QED
        BY <2>1, <2>2, <3>4, <4>2, <4>3, StillSound, KeysKept
    <3>6. Requests'
      BY <2>2, <2>6, <3>1, <3>4, <3>5, RequestsGoOn, KeysKept
    <3> QED
      BY <1>n, <2>3, <2>5, <3>4, <3>6 DEF BaseInv
  <2>7. CASE r.kind \in {"send", "note"}
    <3> DEFINE k == Append(log[c], e)
               n == Len(log[c]) + 1
               q == Numbered(r, n)
    <3>1. r.user \in Users
      BY <1>c, <2>7 DEF Carries
    <3>2. e \in Entries
      BY <3>1 DEF Entry, Entries
    <3> HIDE DEF e
    <3>3. k \in Seq(Entries) /\ Len(k) = n
      BY <2>4, <3>2, LogGrows
    <3>4. log' = [log EXCEPT ![c] = k]
      BY <1>21, <2>7 DEF Store, e
    <3> HIDE DEF k
    <3>5. log'[c] = k /\ n \in Nat /\ n > Len(log[c])
      BY <1>t, <2>1, <2>4, <3>4 DEF Logs
    <3>6. pc' = [pc EXCEPT ![p] = "announce"] /\ req' = [req EXCEPT ![p] = q]
      BY <1>21, <2>7, <3>3, <3>5 DEF Store, Numbered
    <3>7. /\ q.kind = r.kind /\ q.user = r.user /\ q.tab = r.tab /\ q.conv = c /\ q.n = n
          /\ q.made = r.made /\ q.count = r.count /\ q.counts = r.counts
      BY <2>1, Untouched DEF SameAim
    <3> HIDE DEF q, n
    <3>8. \A d \in Convs : Len(log'[d]) \in Nat /\ Len(log[d]) <= Len(log'[d])
                           /\ (d # c => log'[d] = log[d])
      <4>1. \A d \in Convs : d # c => log'[d] = log[d]
        BY <1>t, <3>4 DEF Logs
      <4> QED
        BY <1>l, <2>4, <3>3, <3>5, <4>1
    <3>9. Sound(key', log', "announce", q)
      <4>1. n \in 1 .. Len(log'[c])
        BY <2>4, <3>3, <3>5
      <4>2. Sound(key, log, pc[p], r)
        BY <1>c
      <4> HIDE DEF c, r
      <4> QED
        BY <2>1, <2>2, <2>7, <3>7, <4>1, <4>2 DEF Sound
    <3>10. Requests'
      BY <2>1, <2>2, <3>5, <3>6, <3>7, <3>8, <3>9, RequestsGoOn, KeysKept
    <3> QED
      BY <1>n, <2>3, <2>5, <3>8, <3>10 DEF BaseInv
  <2> QED
    BY <2>1, <2>6, <2>7
<1>22. ASSUME NEW p \in Procs, AnnounceMessage(p) PROVE BaseInv'
  <2> DEFINE r == req[p]
             c == r.conv
             n == r.n
  <2>1. Finish(p) /\ UNCHANGED <<serverVars, at, acked, paged>> /\ pc[p] = "announce"
    BY <1>22 DEF AnnounceMessage
  <2>2. Requests'
    BY <1>f, <2>1
  <2>3. CASE r.kind = "delete"
    <3>1. UNCHANGED <<hist, badge, doubts>>
      BY <1>22, <2>3 DEF AnnounceMessage
    <3> QED
      BY <1>n, <2>1, <2>2, <3>1, ShelvesStay, KeysKept DEF BaseInv, Doubts
  <2>4. CASE r.kind \in {"send", "note"}
    <3>1. c \in Convs /\ n \in 1 .. Len(log[c])
      BY <1>c, <2>1, <2>4 DEF Carries, Sound
    <3>2. PICK shown : hist' = [t \in Tabs |-> IF t \in shown
                                               THEN [hist[t] EXCEPT ![c] = <<n>> \o hist[t][c]]
                                               ELSE hist[t]]
      BY <1>22, <2>4 DEF AnnounceMessage
    <3>3. PICK counted \in SUBSET {t \in Tabs : badge[t][c] # None} :
            badge' = [t \in Tabs |-> IF t \in counted
                                     THEN [badge[t] EXCEPT ![c] = badge[t][c] + 1] ELSE badge[t]]
      <4> DEFINE cs == {t \in Tabs \ Deaf(c) : badge[t][c] # None /\ Counts(t, c, log[c][n])}
      <4>1. badge' = [t \in Tabs |-> IF t \in cs
                                     THEN [badge[t] EXCEPT ![c] = badge[t][c] + 1] ELSE badge[t]]
        BY <1>22, <2>4 DEF AnnounceMessage
      <4>2. cs \in SUBSET {t \in Tabs : badge[t][c] # None}
        OBVIOUS
      <4> HIDE DEF cs
      <4> QED
        BY <4>1, <4>2
    <3>4. Doubts'
      BY <1>22, <2>4, <3>1, DoubtsTyped DEF AnnounceMessage, Doubts
    <3> HIDE DEF r, c, n
    <3>5. \A t \in Tabs : [badge[t] EXCEPT ![c] = badge[t][c] + 1] =
                          [d \in Convs |-> IF d = c THEN badge[t][c] + 1 ELSE badge[t][d]]
      BY <1>t
    <3>6. badge' \in [Tabs -> [Convs -> Nat \cup {None}]]
      <4>1. \A t \in counted : badge[t][c] + 1 \in Nat
        BY <1>t, <3>1, <3>3
      <4> QED
        BY <1>t, <3>1, <3>3, <3>5, <4>1
    <3>7. ASSUME NEW s \in Tabs, NEW d \in Convs, badge'[s][d] # None PROVE badge[s][d] # None
      BY <1>t, <3>3, <3>5, <3>7
    <3>8. ASSUME NEW s \in Tabs, NEW d \in Convs PROVE hist'[s][d] \in Seq(1 .. Len(log[d]))
      <4>1. hist[s][d] \in Seq(1 .. Len(log[d]))
        BY DEF BaseInv, Shelves
      <4>2. hist[s][c] \in Seq(1 .. Len(log[c]))
        BY <3>1 DEF BaseInv, Shelves
      <4>3. <<n>> \o hist[s][c] \in Seq(1 .. Len(log[c]))
        BY <3>1, <4>2
      <4>4. hist'[s][d] = hist[s][d] \/ (d = c /\ hist'[s][d] = <<n>> \o hist[s][c])
        BY <1>h, <3>2
      <4> QED
        BY <4>1, <4>3, <4>4
    <3>9. Shelves'
      BY <2>1, <3>6, <3>7, <3>8 DEF BaseInv, Shelves
    <3> QED
      BY <1>n, <2>2, <3>4, <3>9 DEF BaseInv
  <2> QED
    BY <1>22, <2>3, <2>4 DEF AnnounceMessage
<1>23. ASSUME NEW p \in Procs, Mark(p) PROVE BaseInv'
  <2> DEFINE r == req[p]
             c == r.conv
  <2>1. r.kind = "read" /\ c \in Convs /\ UNCHANGED <<key, log, tabVars>>
    BY <1>23, <1>c DEF Mark, Fit, Carries
  <2>2. \/ /\ pc' = [pc EXCEPT ![p] = "announce"] /\ req' = [req EXCEPT ![p] = r]
           /\ \E ts : Doubt(ts, c)
           /\ Overtake(p, c)
        \/ Finish(p) /\ UNCHANGED doubts
    BY <1>23 DEF Mark
  <2>3. Sound(key, log, "announce", r)
    BY <1>c, <2>1 DEF Sound
  <2>4. Requests'
    BY <1>f, <1>g, <2>1, <2>2, <2>3, KeysKept
  <2>5. Doubts'
    BY <1>t, <2>1, <2>2, DoubtsTyped DEF Doubts
  <2>6. Shelves'
    BY <2>1, ShelvesStay, KeysKept
  <2> QED
    BY <1>n, <2>4, <2>5, <2>6 DEF BaseInv
<1>24. ASSUME NEW p \in Procs, AnnounceRead(p) PROVE BaseInv'
  <2>1. Finish(p) /\ UNCHANGED <<serverVars, badge, at, acked, paged, hist, doubts>>
    BY <1>24 DEF AnnounceRead
  <2>2. Requests'
    BY <1>f, <2>1
  <2> QED
    BY <1>n, <2>1, <2>2, ShelvesStay, KeysKept DEF BaseInv, Doubts
<1>25. ASSUME NEW p \in Procs, Die(p) PROVE BaseInv'
  <2> DEFINE c == req[p].conv
  <2>1. Finish(p) /\ UNCHANGED <<serverVars, tabVars>>
    BY <1>25 DEF Die
  <2>2. Owes(p) \/ pc[p] = "mark" => c \in Convs
    <3>1. CASE pc[p] = "mark" \/ pc[p] = "count"
      BY <1>c, <3>1 DEF Fit, Finds, Carries
    <3>2. CASE pc[p] = "announce"
      BY <1>c, <3>2 DEF Finds, Carries, Sound
    <3> QED
      BY <3>1, <3>2 DEF Owes
  <2>3. off' \in [Tabs -> SUBSET Convs]
    <3>1. \/ UNCHANGED off
          \/ (Owes(p) \/ pc[p] = "mark") /\ \E ts : Doubt(ts, c)
      BY <1>25 DEF Die
    <3> QED
      BY <1>t, <2>2, <3>1, DoubtsTyped
  <2>4. risk' \in [Procs -> SUBSET Convs]
    BY <1>25, <1>t, <2>2 DEF Die
  <2>5. Requests'
    BY <1>f, <2>1
  <2> QED
    BY <1>n, <2>1, <2>3, <2>4, <2>5, ShelvesStay, KeysKept DEF BaseInv, Doubts
<1>26. ASSUME NEW t \in Tabs, Drop(t) \/ Connect(t) PROVE BaseInv'
  <2>1. UNCHANGED <<serverVars, flight, badge, at, acked, paged, hist, doubts>>
    BY <1>26 DEF Drop, Connect
  <2>2. Requests'
    BY <2>1 DEF BaseInv, Requests, OneTeller, Telling
  <2> QED
    BY <1>n, <2>1, <2>2, ShelvesStay, KeysKept DEF BaseInv, Doubts
<1>27. CASE UNCHANGED vars
  <2>1. Requests'
    BY <1>27 DEF vars, BaseInv, Requests, OneTeller, Telling
  <2> QED
    BY <1>n, <1>27, <2>1, ShelvesStay, KeysKept DEF vars, BaseInv, Doubts
<1> QED
  BY <1>1, <1>3, <1>4, <1>5, <1>6, <1>7, <1>8, <1>9, <1>10, <1>11, <1>12, <1>13, <1>14, <1>15,
     <1>16, <1>17, <1>18, <1>19, <1>20, <1>21, <1>22, <1>23, <1>24, <1>25, <1>26, <1>27
  DEF Next, Ask, Serve, Answer

LEMMA BaseAlways == Spec => []BaseInv
  BY InitBase, StepBase, PTL DEF Spec

-----------------------------------------------------------------------------
(***************************************************************************)
(* Who lists what.  A conversation a tab's user has and the tab does not   *)
(* list is still being announced, unless the tab's list is in doubt; and   *)
(* so is one the rows of an answer on its way leave out.                   *)
(***************************************************************************)
Opens(p) == req[p].made /\ pc[p] \in {"count", "announce"}
Announcing(c) == \E p \in Procs : Opens(p) /\ req[p].conv = c

Lists ==
  \A t \in Tabs : \A c \in Owned(key, UserOf[t]) :
    badge[t][c] # None \/ c \in off[t] \/ Announcing(c)

RowsOf(r) == r.kind = "list" /\ r.rows # None

Rows ==
  \A p \in Procs : RowsOf(req[p]) =>
    \A c \in Owned(key, req[p].user) :
      c \in req[p].rows \/ c \in risk[p] \/ Announcing(c)

ListInv == BaseInv /\ Lists /\ Rows

(* What Doubt, Overtake and Look do. *)
LEMMA DoubtsGrow ==
  ASSUME BaseInv
  PROVE  /\ \A ts : \A c \in Convs : Doubt(ts, c) =>
              \A t \in Tabs : off'[t] = IF t \in ts THEN off[t] \cup {c} ELSE off[t]
         /\ \A p \in Procs : \A c \in Convs : Overtake(p, c) =>
              \A q \in Procs : risk'[q] = IF q # p /\ req[q].kind \in {"open", "list"}
                                          THEN risk[q] \cup {c} ELSE risk[q]
         /\ \A p \in Procs : Look(p) =>
              \A q \in Procs : risk'[q] =
                IF q = p
                THEN risk[q] \cup {c \in Convs : UntoldBy(Procs \ {p}, c) \/ Unmarked(c)}
                ELSE risk[q]
         /\ \A p \in Procs : Settle(p) =>
              \A q \in Procs : risk'[q] = IF q = p THEN {} ELSE risk[q]
<1>1. risk \in [Procs -> SUBSET Convs]
  BY DEF BaseInv, Doubts
<1>2. ASSUME NEW p \in Procs, Look(p), NEW q \in Procs
      PROVE  risk'[q] = IF q = p
                        THEN risk[q] \cup {c \in Convs : UntoldBy(Procs \ {p}, c) \/ Unmarked(c)}
                        ELSE risk[q]
  <2> DEFINE cs == {c \in Convs : UntoldBy(Procs \ {p}, c) \/ Unmarked(c)}
  <2>1. risk' = [risk EXCEPT ![p] = @ \cup cs]
    BY <1>2 DEF Look
  <2> HIDE DEF cs
  <2>2. risk'[q] = IF q = p THEN risk[q] \cup cs ELSE risk[q]
    BY <1>1, <1>2, <2>1
  <2> QED
    BY <2>2 DEF cs
<1> QED
  BY <1>1, <1>2 DEF Doubt, Overtake, Settle

LEMMA LooksGrow ==
  ASSUME BaseInv, NEW p \in Procs, Look(p)
  PROVE  \A q \in Procs : risk[q] \subseteq risk'[q]
<1> DEFINE cs == {c \in Convs : UntoldBy(Procs \ {p}, c) \/ Unmarked(c)}
<1>1. \A q \in Procs : risk'[q] = IF q = p THEN risk[q] \cup cs ELSE risk[q]
  BY DoubtsGrow
<1> HIDE DEF cs
<1> QED
  BY <1>1

(* One handler goes on.  If it was to announce its conversation, it still   *)
(* is, or the tabs have it or are in doubt.                                 *)
LEMMA ListsGoOn ==
  ASSUME ListInv, UNCHANGED key, NEW p \in Procs, NEW step, NEW r,
         pc' = [pc EXCEPT ![p] = step], req' = [req EXCEPT ![p] = r],
         \A t \in Tabs, d \in Convs :
           badge[t][d] # None \/ d \in off[t] => badge'[t][d] # None \/ d \in off'[t],
         \A q \in Procs : q # p \/ r.kind = "list" => risk[q] \subseteq risk'[q],
         RowsOf(r) => \/ r.rows = Owned(key, r.user)
                      \/ RowsOf(req[p]) /\ r.rows = req[p].rows /\ r.user = req[p].user,
         Opens(p) =>
           \/ step \in {"count", "announce"} /\ r.made /\ r.conv = req[p].conv
           \/ /\ \A t \in Tabs : UserOf[t] \in key[req[p].conv] =>
                   badge'[t][req[p].conv] # None \/ req[p].conv \in off'[t]
              /\ \A q \in Procs \ {p} : req[q].kind = "list" => req[p].conv \in risk'[q]
  PROVE  Lists' /\ Rows'
<1>1. \A q \in Procs : q # p => pc'[q] = pc[q] /\ req'[q] = req[q]
  BY DEF ListInv, BaseInv, SeenInv, KeyInv
<1>2. pc'[p] = step /\ req'[p] = r
  BY DEF ListInv, BaseInv, SeenInv, KeyInv
<1>3. ASSUME NEW c \in Convs, Announcing(c)
      PROVE  \/ Announcing(c)'
             \/ /\ \A t \in Tabs : UserOf[t] \in key[c] =>
                     badge'[t][c] # None \/ c \in off'[t]
                /\ \A q \in Procs \ {p} : req[q].kind = "list" => c \in risk'[q]
  <2>1. PICK q \in Procs : Opens(q) /\ req[q].conv = c
    BY <1>3 DEF Announcing
  <2>2. CASE q # p
    BY <1>1, <2>1, <2>2 DEF Announcing, Opens
  <2>3. CASE q = p
    <3>1. CASE step \in {"count", "announce"} /\ r.made /\ r.conv = req[p].conv
      BY <1>2, <2>1, <2>3, <3>1 DEF Announcing, Opens
    <3> QED
      BY <2>1, <2>3, <3>1
  <2> QED
    BY <2>2, <2>3
<1>4. Lists'
  <2> SUFFICES ASSUME NEW t \in Tabs, NEW c \in Owned(key, UserOf[t])
               PROVE  badge'[t][c] # None \/ c \in off'[t] \/ Announcing(c)'
    BY DEF Lists
  <2>1. c \in Convs /\ UserOf[t] \in key[c]
    BY DEF Owned
  <2>2. badge[t][c] # None \/ c \in off[t] \/ Announcing(c)
    BY DEF ListInv, Lists
  <2> QED
    BY <1>3, <2>1, <2>2
<1>5. Rows'
  <2> SUFFICES ASSUME NEW q \in Procs, RowsOf(req'[q]), NEW c \in Owned(key, req'[q].user)
               PROVE  c \in req'[q].rows \/ c \in risk'[q] \/ Announcing(c)'
    BY DEF Rows, RowsOf
  <2>1. c \in Convs
    BY DEF Owned
  <2>2. ASSUME RowsOf(req[q]), c \in Owned(key, req[q].user), q # p
        PROVE  c \in req[q].rows \/ c \in risk'[q] \/ Announcing(c)'
    BY <1>3, <2>1, <2>2 DEF ListInv, Rows, RowsOf
  <2>3. CASE q # p
    BY <1>1, <2>2, <2>3
  <2>4. CASE q = p
    <3>1. CASE r.rows = Owned(key, r.user)
      BY <1>2, <2>4, <3>1
    <3>2. CASE RowsOf(req[p]) /\ r.rows = req[p].rows /\ r.user = req[p].user
      <4>1. c \in req[p].rows \/ c \in risk[p] \/ Announcing(c)
        BY <1>2, <2>4, <3>2 DEF ListInv, Rows
      <4>2. CASE c \in req[p].rows \/ c \in risk[p]
        BY <1>2, <2>4, <3>2, <4>2 DEF RowsOf
      <4>3. CASE Announcing(c) /\ ~Announcing(c)'
        (* Only p can have announced, and p lists. *)
        <5>1. PICK s \in Procs : Opens(s) /\ req[s].conv = c
          BY <4>3 DEF Announcing
        <5>2. s # p
          <6>1. req[s].kind = "open"
            BY <5>1 DEF Opens, ListInv, BaseInv, Requests, Sound
          <6> QED
            BY <3>2, <6>1 DEF RowsOf
        <5> QED
          BY <1>1, <4>3, <5>1, <5>2 DEF Announcing, Opens
      <4> QED
        BY <4>1, <4>2, <4>3
    <3> QED
      BY <1>2, <2>4, <3>1, <3>2
  <2> QED
    BY <2>3, <2>4
<1> QED
  BY <1>4, <1>5

LEMMA ListsStay ==
  ASSUME ListInv, UNCHANGED <<key, pc, req>>,
         \A t \in Tabs, d \in Convs :
           badge[t][d] # None \/ d \in off[t] => badge'[t][d] # None \/ d \in off'[t],
         \A q \in Procs : risk[q] \subseteq risk'[q]
  PROVE  Lists' /\ Rows'
<1>1. \A c : Announcing(c)' <=> Announcing(c)
  BY DEF Announcing, Opens
<1>2. Lists'
  BY <1>1 DEF ListInv, Lists, Owned
<1>3. Rows'
  BY <1>1 DEF ListInv, Rows, RowsOf
<1> QED
  BY <1>2, <1>3

LEMMA InitLists == Init => ListInv
<1> SUFFICES ASSUME Init PROVE ListInv
  OBVIOUS
<1>1. \A u : Owned(key, u) = {}
  BY DEF Init, Owned
<1> QED
  BY <1>1, InitBase DEF ListInv, Lists, Rows, Init, RowsOf, NoReq

LEMMA StepLists == ListInv /\ [Next]_vars => ListInv'
<1> SUFFICES ASSUME ListInv, [Next]_vars
             PROVE  ListInv'
  OBVIOUS
<1> USE DEF Begin, Goto, serverVars, tabVars, flight, doubts
<1>n. BaseInv' /\ BaseInv
  BY StepBase DEF ListInv
<1>c. ASSUME NEW p \in Procs
      PROVE  /\ Shaped(req[p]) /\ Fit(pc[p], req[p]) /\ Finds(key, pc[p], req[p])
             /\ Carries(log, cursor, pc[p], req[p]) /\ Sound(key, log, pc[p], req[p])
  BY DEF ListInv, BaseInv, SeenInv, KeyInv, Handlers, Requests
<1>t. /\ badge \in [Tabs -> [Convs -> Nat \cup {None}]]
      /\ off \in [Tabs -> SUBSET Convs] /\ risk \in [Procs -> SUBSET Convs]
      /\ at \in [Tabs -> Convs \cup {None}]
      /\ key \in [Convs -> Keys]
  BY DEF ListInv, BaseInv, Shelves, Doubts, SeenInv, Pages, KeyInv
(* A handler that opens nothing goes on, and the tabs learn nothing.        *)
<1>q. ASSUME NEW p \in Procs, NEW step, NEW r,
             pc' = [pc EXCEPT ![p] = step], req' = [req EXCEPT ![p] = r],
             UNCHANGED <<key, badge, off>>,
             UNCHANGED risk \/ Look(p),
             RowsOf(r) => \/ r.rows = Owned(key, r.user)
                          \/ RowsOf(req[p]) /\ r.rows = req[p].rows /\ r.user = req[p].user,
             Opens(p) => step \in {"count", "announce"} /\ r.made /\ r.conv = req[p].conv
      PROVE  ListInv'
  <2>1. \A q \in Procs : risk[q] \subseteq risk'[q]
    <3>1. CASE Look(p)
      BY <1>n, <1>q, <3>1, LooksGrow
    <3> QED
      BY <1>q, <3>1
  <2> QED
    BY <1>n, <1>q, <2>1, ListsGoOn DEF ListInv
<1>b. ASSUME NEW p \in Procs, NEW step, NEW r, Idle(p),
             pc' = [pc EXCEPT ![p] = step], req' = [req EXCEPT ![p] = r], Blank(r),
             UNCHANGED <<key, badge, doubts>>
      PROVE  ListInv'
  BY <1>b, <1>q DEF Blank, RowsOf, Opens, Idle
<1>1. ASSUME NEW p \in Procs, NEW t \in Tabs, NEW peer \in Users, OpenDirect(p, t, peer)
      PROVE  ListInv'
  <2> DEFINE r == [Req("open", t, None) EXCEPT !.peer = peer]
  <2>1. Blank(r)
    BY BlankOpen
  <2>2. pc' = [pc EXCEPT ![p] = "find"] /\ req' = [req EXCEPT ![p] = r] /\ Idle(p)
        /\ UNCHANGED <<serverVars, tabVars, doubts>>
    BY <1>1 DEF OpenDirect
  <2> HIDE DEF r
  <2> QED
    BY <1>b, <2>1, <2>2
<1>2. ASSUME NEW p \in Procs, NEW c \in WithKey(KeyOf(req[p])), Found(p, c),
             pc[p] \in {"find", "again"}
      PROVE  ListInv'
  <2> DEFINE r == Aimed(req[p], c, cursor[c])
  <2>1. r.kind = "open"
    BY <1>2, <1>c, Untouched DEF SameAim, Fit
  <2>2. pc' = [pc EXCEPT ![p] = "count"] /\ req' = [req EXCEPT ![p] = r]
        /\ UNCHANGED <<serverVars, tabVars, off>> /\ Look(p)
    BY <1>2 DEF Found, Aimed
  <2> HIDE DEF r
  <2> QED
    BY <1>2, <1>q, <2>1, <2>2 DEF RowsOf, Opens
<1>3. ASSUME NEW p \in Procs, Find(p) PROVE ListInv'
  <2>1. CASE WithKey(KeyOf(req[p])) = {}
    <3>1. pc' = [pc EXCEPT ![p] = "insert"] /\ req' = [req EXCEPT ![p] = req[p]]
          /\ UNCHANGED <<serverVars, tabVars, doubts>> /\ pc[p] = "find"
      BY <1>3, <2>1 DEF Find
    <3> QED
      BY <1>q, <3>1 DEF Opens
  <2> QED
    BY <1>2, <1>3, <2>1 DEF Find
<1>4. ASSUME NEW p \in Procs, FindAgain(p) PROVE ListInv'
  BY <1>2, <1>4 DEF FindAgain
(* What is new to its members is what is now to be announced.               *)
<1>5. ASSUME NEW p \in Procs, Insert(p) PROVE ListInv'
  <2>1. PICK c \in Convs : /\ key[c] = None /\ key' = [key EXCEPT ![c] = KeyOf(req[p])]
                           /\ pc' = [pc EXCEPT ![p] = "count"]
                           /\ req' = [req EXCEPT ![p] = [req[p] EXCEPT !.conv = c, !.made = TRUE]]
    BY <1>5, Zenon DEF Insert
  <2> DEFINE r == Made(req[p], c)
  <2>2. r.kind = "open" /\ r.made /\ r.conv = c
    BY <1>5, <1>c, Untouched DEF SameAim, Fit, Insert
  <2>3. UNCHANGED <<badge, off>> /\ Look(p) /\ req' = [req EXCEPT ![p] = r] /\ pc[p] = "insert"
    BY <1>5, <2>1 DEF Insert, Made
  <2> HIDE DEF r
  <2>4. /\ \A q \in Procs : q # p => pc'[q] = pc[q] /\ req'[q] = req[q]
        /\ pc'[p] = "count" /\ req'[p] = r
    BY <1>n, <2>1, <2>3 DEF BaseInv, SeenInv, KeyInv
  <2>5. \A q \in Procs : risk[q] \subseteq risk'[q]
    BY <1>n, <2>3, LooksGrow
  <2>6. Announcing(c)' /\ \A d : Announcing(d) => Announcing(d)'
    BY <2>2, <2>3, <2>4 DEF Announcing, Opens
  <2>7. \A u : \A d \in Owned(key', u) : d = c \/ d \in Owned(key, u)
    BY <1>t, <2>1 DEF Owned
  <2>8. Lists'
    BY <2>3, <2>6, <2>7 DEF ListInv, Lists
  <2>9. Rows'
    <3> SUFFICES ASSUME NEW q \in Procs, RowsOf(req'[q]), NEW d \in Owned(key', req'[q].user)
                 PROVE  d \in req'[q].rows \/ d \in risk'[q] \/ Announcing(d)'
      BY DEF Rows, RowsOf
    <3>1. q # p /\ req'[q] = req[q]
      BY <2>2, <2>4 DEF RowsOf
    <3> QED
      BY <2>5, <2>6, <2>7, <3>1 DEF ListInv, Rows
  <2> QED
    BY <1>n, <2>8, <2>9 DEF ListInv
<1>6. ASSUME NEW p \in Procs, Raced(p) PROVE ListInv'
  <2>1. pc' = [pc EXCEPT ![p] = "again"] /\ req' = [req EXCEPT ![p] = req[p]]
        /\ UNCHANGED <<serverVars, tabVars, doubts>> /\ pc[p] = "insert"
    BY <1>6 DEF Raced
  <2> QED
    BY <1>q, <2>1 DEF Opens
<1>7. ASSUME NEW p \in Procs, Count(p) PROVE ListInv'
  <2> DEFINE n == UnreadFrom(req[p].conv, req[p].user, req[p].cur[req[p].user])
             r == Counted(req[p], n)
  <2>1. r.kind = "open" /\ r.made = req[p].made /\ r.conv = req[p].conv
    BY <1>7, <1>c, Untouched DEF SameAim, Fit, Count
  <2>2. PICK step \in {"announce", "reply"} :
          /\ pc' = [pc EXCEPT ![p] = step] /\ req' = [req EXCEPT ![p] = r]
          /\ req[p].made => step = "announce"
    BY <1>7 DEF Count, Counted
  <2>3. UNCHANGED <<serverVars, tabVars, off>> /\ Look(p)
    BY <1>7 DEF Count
  <2> HIDE DEF r, n
  <2> QED
    BY <1>q, <2>1, <2>2, <2>3 DEF RowsOf, Opens
<1>8. ASSUME NEW p \in Procs, AnnounceMade(p) PROVE ListInv'
  <2> DEFINE c == req[p].conv
             theirs == {t \in link : UserOf[t] \in key[c]}
             doubted == IF log[c] = <<>> THEN Tabs \ theirs ELSE Tabs
  <2>1. /\ pc' = [pc EXCEPT ![p] = "reply"] /\ req' = [req EXCEPT ![p] = req[p]]
        /\ key' = key
        /\ Doubt(doubted, c)
        /\ Overtake(p, c) /\ Upsert(theirs, c, 0)
        /\ pc[p] = "announce" /\ req[p].kind = "open"
    BY <1>8 DEF AnnounceMade
  <2>2. c \in Convs /\ Tabs \ theirs \subseteq doubted
    BY <1>c, <2>1 DEF Finds
  <2>3. badge' = [t \in Tabs |-> IF t \in theirs THEN [badge[t] EXCEPT ![c] = 0] ELSE badge[t]]
    BY <2>1 DEF Upsert
  <2>r. ~RowsOf(req[p])
    BY <2>1 DEF RowsOf
  <2> HIDE DEF c, theirs, doubted
  <2>4. \A t \in Tabs : off'[t] = IF t \in doubted THEN off[t] \cup {c} ELSE off[t]
    BY <1>n, <2>1, <2>2, DoubtsGrow
  <2>5. \A q \in Procs : /\ risk[q] \subseteq risk'[q]
                         /\ q # p /\ req[q].kind = "list" => c \in risk'[q]
    <3>1. \A q \in Procs : risk'[q] = IF q # p /\ req[q].kind \in {"open", "list"}
                                      THEN risk[q] \cup {c} ELSE risk[q]
      BY <1>n, <2>1, <2>2, DoubtsGrow
    <3> QED
      BY <3>1
  <2>6. 0 # None
    BY NullAssumption
  <2>7. \A t \in Tabs : badge'[t][c] # None \/ c \in off'[t]
    BY <1>t, <2>2, <2>3, <2>4, <2>6
  <2>8. \A t \in Tabs, d \in Convs :
          badge[t][d] # None \/ d \in off[t] => badge'[t][d] # None \/ d \in off'[t]
    BY <1>t, <2>2, <2>3, <2>4, <2>6
  <2>9. Lists' /\ Rows'
    BY <2>1, <2>5, <2>7, <2>8, <2>r, ListsGoOn DEF c
  <2> QED
    BY <1>n, <2>9 DEF ListInv
<1>9. ASSUME NEW p \in Procs, Opened(p) PROVE ListInv'
  <2> DEFINE r == req[p]
             c == r.conv
             t == r.tab
  <2>1. /\ Finish(p) /\ key' = key
        /\ Upsert({t}, c, r.count) /\ Settle(p)
        /\ off' = [off EXCEPT ![t] = (@ \ {c}) \cup (risk[p] \cap {c}) \cup LeftUnread(t, c)]
        /\ pc[p] = "reply" /\ r.kind = "open"
    BY <1>9 DEF Opened
  <2>2. c \in Convs /\ t \in Tabs /\ r.count \in Nat
    BY <1>c, <2>1 DEF Finds, Sound
  <2>3. badge' = [s \in Tabs |-> IF s \in {t} THEN [badge[s] EXCEPT ![c] = r.count] ELSE badge[s]]
    BY <2>1 DEF Upsert
  <2>o. ~Opens(p)
    BY <2>1 DEF Opens
  <2> HIDE DEF r, c, t
  <2>4. r.count # None
    BY <2>2, NullAssumption
  <2>5. \A s \in Tabs, d \in Convs :
          badge[s][d] # None \/ d \in off[s] => badge'[s][d] # None \/ d \in off'[s]
    BY <1>t, <2>1, <2>2, <2>3, <2>4
  <2>6. \A q \in Procs : q # p => risk[q] \subseteq risk'[q]
    BY <1>n, <2>1, DoubtsGrow
  <2>7. NoReq.kind = "none"
    BY BlankNone
  <2>8. Lists' /\ Rows'
    BY <2>1, <2>5, <2>6, <2>7, <2>o, ListsGoOn DEF RowsOf, Finish
  <2> QED
    BY <1>n, <2>8 DEF ListInv
<1>10. ASSUME NEW p \in Procs, ListLoads(p) PROVE ListInv'
  <2> DEFINE r == req[p]
             t == r.tab
  <2>1. /\ Finish(p) /\ key' = key /\ Settle(p)
        /\ badge' = [badge EXCEPT ![t] =
             [c \in Convs |-> IF c \in r.rows THEN r.counts[c] ELSE None]]
        /\ off' = [off EXCEPT ![t] = risk[p]]
        /\ pc[p] = "reply" /\ r.kind = "list"
    BY <1>10 DEF ListLoads
  <2>2. /\ t \in Tabs /\ r.user = UserOf[t] /\ r.counts \in [Convs -> Nat] /\ RowsOf(r)
    BY <1>c, <2>1 DEF Sound, RowsOf
  <2>3. \A c \in Owned(key, r.user) : c \in r.rows \/ c \in risk[p] \/ Announcing(c)
    BY <2>2 DEF ListInv, Rows
  <2>4. \A c : Announcing(c) => Announcing(c)'
    <3>1. \A q \in Procs : q # p => pc'[q] = pc[q] /\ req'[q] = req[q]
      BY <1>n, <2>1 DEF BaseInv, SeenInv, KeyInv, Finish
    <3>2. ~Opens(p)
      BY <2>1 DEF Opens
    <3> QED
      BY <3>1, <3>2 DEF Announcing, Opens
  <2>5. \A q \in Procs : q # p => req'[q] = req[q] /\ risk'[q] = risk[q]
    BY <1>n, <2>1, DoubtsGrow DEF BaseInv, SeenInv, KeyInv, Finish
  <2>6. ~RowsOf(req'[p])
    <3>1. req'[p] = NoReq
      BY <1>n, <2>1 DEF Finish, BaseInv, SeenInv, KeyInv
    <3> QED
      BY <3>1, BlankNone DEF RowsOf
  <2> HIDE DEF r, t
  <2>7. Lists'
    <3> SUFFICES ASSUME NEW s \in Tabs, NEW c \in Owned(key, UserOf[s])
                 PROVE  badge'[s][c] # None \/ c \in off'[s] \/ Announcing(c)'
      BY <2>1 DEF Lists
    <3>1. c \in Convs
      BY DEF Owned
    <3>2. CASE s = t
      <4>1. badge'[s][c] = IF c \in r.rows THEN r.counts[c] ELSE None
        BY <1>t, <2>1, <3>1, <3>2
      <4>2. r.counts[c] # None
        BY <2>2, <3>1, NullAssumption
      <4>3. off'[s] = risk[p]
        BY <1>t, <2>1, <3>2
      <4> QED
        BY <2>2, <2>3, <2>4, <3>2, <4>1, <4>2, <4>3
    <3>3. CASE s # t
      <4>1. badge'[s] = badge[s] /\ off'[s] = off[s]
        BY <1>t, <2>1, <3>3
      <4> QED
        BY <2>4, <4>1 DEF ListInv, Lists
    <3> QED
      BY <3>2, <3>3
  <2>8. Rows'
    BY <2>1, <2>4, <2>5, <2>6 DEF ListInv, Rows, RowsOf
  <2> QED
    BY <1>n, <2>7, <2>8 DEF ListInv
<1>11. ASSUME NEW p \in Procs, NEW t \in Tabs, AskList(p, t) PROVE ListInv'
  <2> DEFINE r == Req("list", t, None)
  <2>1. Blank(r)
    BY BlankRequest
  <2>2. pc' = [pc EXCEPT ![p] = "read"] /\ req' = [req EXCEPT ![p] = r] /\ Idle(p)
        /\ UNCHANGED <<serverVars, tabVars, doubts>>
    BY <1>11 DEF AskList
  <2> HIDE DEF r
  <2> QED
    BY <1>b, <2>1, <2>2
<1>12. ASSUME NEW p \in Procs, ReadList(p) PROVE ListInv'
  <2>0. PICK rows, counts : /\ rows = ConvsOf(req[p].user)
                            /\ counts = [c \in Convs |-> Unread(c, req[p].user)]
    OBVIOUS
  <2> DEFINE a == Listing(req[p], rows)
             b == Tallied(req[p], counts)
  <2>1. req' = [req EXCEPT ![p] = a] \/ req' = [req EXCEPT ![p] = b]
    BY <1>12, <2>0 DEF ReadList, Listing, Tallied
  <2>2. Shaped(req[p]) /\ req[p].kind = "list"
    BY <1>12, <1>c DEF ReadList
  <2>3. /\ a.user = req[p].user /\ a.rows = rows
        /\ b.kind = "list" /\ b.user = req[p].user /\ b.rows = req[p].rows
    BY <2>2, Untouched DEF SameAim
  <2>4. rows = Owned(key, req[p].user)
    BY <2>0 DEF ConvsOf, MembersOf, Owned
  <2> HIDE DEF a, b
  <2>5. PICK step : pc' = [pc EXCEPT ![p] = step]
    BY <1>12 DEF ReadList
  <2>6. UNCHANGED <<serverVars, tabVars, off>> /\ Look(p) /\ ~Opens(p)
    BY <1>12 DEF ReadList, Opens
  <2> QED
    BY <1>q, <2>1, <2>2, <2>3, <2>4, <2>5, <2>6 DEF RowsOf
<1>13. ASSUME NEW t \in Tabs, NEW c \in Convs \cup {None}, Visit(t, c) PROVE ListInv'
  <2>1. /\ off' = [off EXCEPT ![t] = @ \cup LeftUnread(t, c)]
        /\ UNCHANGED <<key, pc, req, badge, risk>>
    BY <1>13 DEF Visit
  <2>2. \A s \in Tabs : off[s] \subseteq off'[s]
    BY <1>t, <2>1
  <2> QED
    BY <1>n, <2>1, <2>2, ListsStay DEF ListInv
<1>14. ASSUME NEW p \in Procs, NEW t \in Tabs, AskPage(p, t) PROVE ListInv'
  <2>1. PICK kind \in {"page", "detail"} :
          pc' = [pc EXCEPT ![p] = "read"] /\ req' = [req EXCEPT ![p] = Req(kind, t, at[t])]
    BY <1>14 DEF AskPage
  <2> DEFINE r == Req(kind, t, at[t])
  <2>2. Blank(r)
    BY BlankRequest
  <2>3. UNCHANGED <<serverVars, tabVars, doubts>> /\ req' = [req EXCEPT ![p] = r] /\ Idle(p)
    BY <1>14, <2>1 DEF AskPage
  <2> HIDE DEF r
  <2> QED
    BY <1>b, <2>1, <2>2, <2>3
<1>15. ASSUME NEW p \in Procs, ReadPage(p) PROVE ListInv'
  <2> DEFINE c == req[p].conv
             a == Detailed(req[p], cursor[c])
  <2>0. PICK items : items = [i \in DOMAIN log[c] |-> Len(log[c]) + 1 - i]
    OBVIOUS
  <2> DEFINE b == Paged(req[p], items)
  <2>1. /\ pc' = [pc EXCEPT ![p] = "reply"]
        /\ req' = [req EXCEPT ![p] = a] \/ req' = [req EXCEPT ![p] = b]
    BY <1>15, <2>0 DEF ReadPage, Detailed, Paged
  <2>2. UNCHANGED <<serverVars, tabVars, doubts>> /\ ~Opens(p) /\ req[p].kind # "list"
    BY <1>15 DEF ReadPage, Opens
  <2>3. a.kind = req[p].kind /\ b.kind = req[p].kind
    BY <1>c, Untouched DEF SameAim
  <2> HIDE DEF a, b, c
  <2> QED
    BY <1>q, <2>1, <2>2, <2>3 DEF RowsOf
(* The histories and cursors of the tabs do not matter.                     *)
<1>16. ASSUME NEW p \in Procs, PageLoads(p) PROVE ListInv'
  <2>1. /\ Finish(p) /\ UNCHANGED <<key, badge, risk>> /\ ~Opens(p)
        /\ off' = off \/ \E ts : Doubt(ts, req[p].conv)
        /\ req[p].kind \in {"page", "detail"}
    BY <1>16 DEF PageLoads, Opens
  <2>2. \A t \in Tabs : off[t] \subseteq off'[t]
    <3>1. ASSUME NEW ts, Doubt(ts, req[p].conv) PROVE \A t \in Tabs : off[t] \subseteq off'[t]
      BY <3>1 DEF Doubt
    <3> QED
      BY <2>1, <3>1
  <2> QED
    BY <1>n, <2>1, <2>2, BlankNone, ListsGoOn DEF ListInv, Finish, RowsOf
<1>17. ASSUME NEW p \in Procs, NEW t \in Tabs, Send(p, t) PROVE ListInv'
  <2> DEFINE r == Req("send", t, at[t])
  <2>1. pc' = [pc EXCEPT ![p] = "store"] /\ req' = [req EXCEPT ![p] = r] /\ Idle(p)
        /\ UNCHANGED <<serverVars, tabVars, doubts>>
    BY <1>17 DEF Send
  <2>2. Blank(r)
    BY BlankRequest
  <2> HIDE DEF r
  <2> QED
    BY <1>b, <2>1, <2>2
<1>18. ASSUME NEW p \in Procs, NEW c \in Convs, NEW u \in Users, Note(p, c, u) PROVE ListInv'
  <2>1. pc' = [pc EXCEPT ![p] = "store"] /\ req' = [req EXCEPT ![p] = Posted(c, u)] /\ Idle(p)
        /\ UNCHANGED <<serverVars, tabVars, doubts>>
    BY <1>18 DEF Note, Posted
  <2> QED
    BY <1>b, <2>1, BlankNote
<1>19. ASSUME NEW p \in Procs, NEW t \in Tabs, NEW n, Delete(p, t, n) PROVE ListInv'
  <2> DEFINE r == Numbered(Req("delete", t, at[t]), n)
  <2>1. pc' = [pc EXCEPT ![p] = "store"] /\ req' = [req EXCEPT ![p] = r] /\ Idle(p)
        /\ UNCHANGED <<serverVars, tabVars, doubts>>
    BY <1>19 DEF Delete, Numbered
  <2>2. Blank(r)
    BY BlankNumbered
  <2> HIDE DEF r
  <2> QED
    BY <1>b, <2>1, <2>2
<1>20. ASSUME NEW p \in Procs, NEW t \in Tabs, Acknowledge(p, t) PROVE ListInv'
  <2> DEFINE c == at[t]
             r == Numbered(Req("read", t, c), hist[t][c][1])
  <2>1. /\ key' = key /\ Overtake(p, c) /\ c # None
        /\ badge' = IF badge[t][c] = None THEN badge ELSE [badge EXCEPT ![t][c] = 0]
        /\ off' = off \/ Doubt({t}, c)
        /\ Idle(p)
        /\ \/ pc' = [pc EXCEPT ![p] = "mark"] /\ req' = [req EXCEPT ![p] = r]
           \/ UNCHANGED <<pc, req>>
    BY <1>20 DEF Acknowledge, Numbered
  <2>2. Blank(r)
    BY BlankNumbered
  <2>3. c \in Convs /\ 0 # None
    BY <1>t, <2>1, NullAssumption
  <2> HIDE DEF c, r
  <2>4. \A q \in Procs : risk[q] \subseteq risk'[q]
    <3>1. \A q \in Procs : risk'[q] = IF q # p /\ req[q].kind \in {"open", "list"}
                                      THEN risk[q] \cup {c} ELSE risk[q]
      BY <1>n, <2>1, <2>3, DoubtsGrow
    <3> QED
      BY <3>1
  <2>5. \A s \in Tabs : off[s] \subseteq off'[s]
    BY <2>1 DEF Doubt
  <2>6. \A s \in Tabs, d \in Convs : badge[s][d] # None => badge'[s][d] # None
    BY <1>t, <2>1, <2>3
  <2>7. CASE UNCHANGED <<pc, req>>
    BY <1>n, <2>1, <2>4, <2>5, <2>6, <2>7, ListsStay DEF ListInv
  <2>8. CASE pc' = [pc EXCEPT ![p] = "mark"] /\ req' = [req EXCEPT ![p] = r]
    <3>1. ~RowsOf(r) /\ ~Opens(p)
      BY <2>1, <2>2 DEF Blank, RowsOf, Opens, Idle
    <3> QED
      BY <1>n, <2>1, <2>4, <2>5, <2>6, <2>8, <3>1, ListsGoOn DEF ListInv
  <2> QED
    BY <2>1, <2>7, <2>8
(* Steps of messages.                                                       *)
<1>m. ASSUME NEW p \in Procs, NEW step, NEW r, NEW c \in Convs,
             pc' = [pc EXCEPT ![p] = step], req' = [req EXCEPT ![p] = r],
             req[p].kind # "open", r.kind # "list", key' = key,
             off' = off \/ \E ts : Doubt(ts, c), risk' = risk \/ Overtake(p, c),
             \A t \in Tabs, d \in Convs : badge[t][d] # None => badge'[t][d] # None
      PROVE  ListInv'
  <2>1. \A q \in Procs : risk[q] \subseteq risk'[q]
    <3>1. CASE Overtake(p, c)
      <4>1. \A q \in Procs : risk'[q] = IF q # p /\ req[q].kind \in {"open", "list"}
                                        THEN risk[q] \cup {c} ELSE risk[q]
        BY <1>n, <3>1, DoubtsGrow
      <4> QED
        BY <4>1
    <3> QED
      BY <1>m, <3>1
  <2>2. \A t \in Tabs : off[t] \subseteq off'[t]
    <3>1. ASSUME NEW ts, Doubt(ts, c) PROVE \A t \in Tabs : off[t] \subseteq off'[t]
      BY <3>1 DEF Doubt
    <3> QED
      BY <1>m, <3>1
  <2>3. ~Opens(p) /\ ~RowsOf(r)
    BY <1>c, <1>m DEF Opens, RowsOf, Sound
  <2> QED
    BY <1>n, <1>m, <2>1, <2>2, <2>3, ListsGoOn DEF ListInv
<1>21. ASSUME NEW p \in Procs, Store(p) PROVE ListInv'
  <2> DEFINE r == req[p]
             c == r.conv
  <2>1. c \in Convs /\ r.kind \in {"send", "note", "delete"} /\ Shaped(r)
    BY <1>21, <1>c DEF Store, Fit, Carries
  <2>2. PICK n : req' = [req EXCEPT ![p] = IF r.kind = "delete" THEN r ELSE Numbered(r, n)]
    BY <1>21 DEF Store, Numbered
  <2>3. /\ pc' = [pc EXCEPT ![p] = "announce"] /\ UNCHANGED <<key, badge>>
        /\ off' = off \/ \E ts : Doubt(ts, c)
        /\ risk' = risk \/ Overtake(p, c)
    BY <1>21 DEF Store
  <2>4. PICK q : req' = [req EXCEPT ![p] = q] /\ q.kind = r.kind
    <3>1. Numbered(r, n).kind = r.kind
      BY <2>1, Untouched DEF SameAim
    <3> HIDE DEF r
    <3> QED
      BY <2>2, <3>1
  <2> HIDE DEF c
  <2> QED
    BY <1>m, <2>1, <2>3, <2>4
<1>22. ASSUME NEW p \in Procs, AnnounceMessage(p) PROVE ListInv'
  <2> DEFINE r == req[p]
             c == r.conv
  <2>1. /\ Finish(p) /\ key' = key /\ r.kind \in {"send", "note", "delete"}
        /\ off' = off \/ \E ts : Doubt(ts, c)
        /\ risk' = risk \/ Overtake(p, c)
    BY <1>22 DEF AnnounceMessage
  <2>2. c \in Convs
    BY <1>c, <2>1 DEF Carries
  <2>3. \/ badge' = badge
        \/ \E ts \in SUBSET {t \in Tabs : badge[t][c] # None} :
             badge' = [t \in Tabs |-> IF t \in ts THEN [badge[t] EXCEPT ![c] = badge[t][c] + 1]
                                      ELSE badge[t]]
    <3>1. CASE r.kind = "delete"
      BY <1>22, <3>1 DEF AnnounceMessage
    <3>2. CASE r.kind # "delete"
      <4> DEFINE cs == {t \in Tabs \ Deaf(c) : badge[t][c] # None /\ Counts(t, c, log[c][r.n])}
      <4>1. badge' = [t \in Tabs |-> IF t \in cs THEN [badge[t] EXCEPT ![c] = badge[t][c] + 1]
                                     ELSE badge[t]]
        BY <1>22, <3>2 DEF AnnounceMessage
      <4>2. cs \in SUBSET {t \in Tabs : badge[t][c] # None}
        OBVIOUS
      <4> HIDE DEF cs
      <4> QED
        BY <4>1, <4>2
    <3> QED
      BY <3>1, <3>2
  <2> HIDE DEF c, r
  <2>4. \A t \in Tabs, d \in Convs : badge[t][d] # None => badge'[t][d] # None
    <3>1. ASSUME NEW ts \in SUBSET {t \in Tabs : badge[t][c] # None},
                 badge' = [t \in Tabs |-> IF t \in ts
                                          THEN [badge[t] EXCEPT ![c] = badge[t][c] + 1]
                                          ELSE badge[t]],
                 NEW t \in Tabs, NEW d \in Convs, badge[t][d] # None
          PROVE  badge'[t][d] # None
      <4>1. badge[t][d] + 1 \in Nat
        BY <1>t, <3>1
      <4>2. badge'[t][d] \in {badge[t][d], badge[t][d] + 1}
        BY <1>t, <3>1
      <4> QED
        BY <3>1, <4>1, <4>2, NullAssumption
    <3> QED
      BY <2>3, <3>1
  <2> QED
    BY <1>m, <2>1, <2>2, <2>4, BlankNone DEF r, Finish
<1>23. ASSUME NEW p \in Procs, Mark(p) PROVE ListInv'
  <2> DEFINE c == req[p].conv
  <2>1. req[p].kind = "read" /\ c \in Convs
    BY <1>23, <1>c DEF Mark, Fit, Carries
  <2>2. PICK step, r : /\ pc' = [pc EXCEPT ![p] = step] /\ req' = [req EXCEPT ![p] = r]
                       /\ r = req[p] \/ r = NoReq
    BY <1>23 DEF Mark, Finish
  <2>3. /\ UNCHANGED <<key, badge>>
        /\ off' = off \/ \E ts : Doubt(ts, c)
        /\ risk' = risk \/ Overtake(p, c)
    BY <1>23 DEF Mark
  <2> HIDE DEF c
  <2> QED
    BY <1>m, <2>1, <2>2, <2>3, BlankNone
<1>24. ASSUME NEW p \in Procs, AnnounceRead(p) PROVE ListInv'
  <2>1. Finish(p) /\ UNCHANGED <<key, badge, doubts>> /\ req[p].kind = "read"
    BY <1>24 DEF AnnounceRead
  <2>2. req[p].conv \in Convs
    BY <1>c, <2>1 DEF Carries
  <2> QED
    BY <1>m, <2>1, <2>2, BlankNone DEF Finish
<1>25. ASSUME NEW p \in Procs, Die(p) PROVE ListInv'
  <2> DEFINE c == req[p].conv
  <2>1. Finish(p) /\ UNCHANGED <<key, badge>>
    BY <1>25 DEF Die
  <2>2. Opens(p) => Owes(p) /\ c \in Convs
    BY <1>c DEF Opens, Owes, Sound, Finds
  <2>3. \A t \in Tabs : off[t] \subseteq off'[t] /\ (Owes(p) => c \in off'[t])
    <3>1. CASE Owes(p)
      <4>1. Doubt(Tabs, c)
        BY <1>25, <3>1 DEF Die, Owes
      <4> QED
        BY <4>1 DEF Doubt
    <3>2. CASE ~Owes(p) /\ pc[p] = "mark"
      <4>1. Doubt({req[p].tab}, c)
        BY <1>25, <3>2 DEF Die
      <4> QED
        BY <3>2, <4>1 DEF Doubt
    <3>3. CASE ~Owes(p) /\ pc[p] # "mark"
      <4>1. off' = off
        BY <1>25, <3>3 DEF Die
      <4> QED
        BY <3>3, <4>1
    <3> QED
      BY <3>1, <3>2, <3>3
  <2>4. \A q \in Procs \ {p} : /\ risk[q] \subseteq risk'[q]
                               /\ Owes(p) /\ req[q].kind = "list" => c \in risk'[q]
    BY <1>25 DEF Die
  <2>5. \A t \in Tabs, d \in Convs :
          badge[t][d] # None \/ d \in off[t] => badge'[t][d] # None \/ d \in off'[t]
    BY <2>1, <2>3
  <2>6. ~RowsOf(NoReq) /\ NoReq.kind # "list"
    BY BlankNone DEF RowsOf
  <2>7. Lists' /\ Rows'
    BY <2>1, <2>2, <2>3, <2>4, <2>5, <2>6, ListsGoOn DEF Finish
  <2> QED
    BY <1>n, <2>7 DEF ListInv
<1>26. ASSUME NEW t \in Tabs, Drop(t) \/ Connect(t) PROVE ListInv'
  <2>1. UNCHANGED <<key, pc, req, badge, off, risk>>
    BY <1>26 DEF Drop, Connect
  <2> QED
    BY <1>n, <2>1, ListsStay DEF ListInv
<1>27. CASE UNCHANGED vars
  BY <1>n, <1>27, ListsStay DEF vars, ListInv
<1> QED
  BY <1>1, <1>3, <1>4, <1>5, <1>6, <1>7, <1>8, <1>9, <1>10, <1>11, <1>12, <1>13, <1>14, <1>15,
     <1>16, <1>17, <1>18, <1>19, <1>20, <1>21, <1>22, <1>23, <1>24, <1>25, <1>26, <1>27
  DEF Next, Ask, Serve, Answer

LEMMA ListsAlways == Spec => []ListInv
  BY InitLists, StepLists, PTL DEF Spec

(* Only tabs connect and hold lists. *)
TabsOnly == link \subseteq Tabs /\ loaded \subseteq Tabs

LEMMA TabsAlways == Spec => []TabsOnly
<1>1. Init => TabsOnly
  BY DEF Init, TabsOnly
<1>2. ListInv /\ TabsOnly /\ [Next]_vars => TabsOnly'
  <2> SUFFICES ASSUME ListInv, TabsOnly, [Next]_vars PROVE TabsOnly'
    OBVIOUS
  <2> USE DEF TabsOnly, serverVars, tabVars
  <2>1. ASSUME NEW p \in Procs, Opened(p) \/ ListLoads(p) PROVE TabsOnly'
    <3>1. req[p].tab \in Tabs
      BY <2>1 DEF ListInv, BaseInv, Requests, Sound, Opened, ListLoads
    <3> QED
      BY <2>1, <3>1 DEF Opened, ListLoads, Upsert
  <2>2. ASSUME NEW p \in Procs, AnnounceMade(p) PROVE TabsOnly'
    BY <2>2 DEF AnnounceMade, Upsert
  <2>3. ASSUME NEW p \in Procs, Ask(p) PROVE TabsOnly'
    <3>1. UNCHANGED tabVars
      <4>1. ASSUME NEW t \in Tabs, NEW peer \in Users, OpenDirect(p, t, peer)
            PROVE  UNCHANGED tabVars
        BY <4>1 DEF OpenDirect
      <4>2. ASSUME NEW t \in Tabs, NEW n, Delete(p, t, n) PROVE UNCHANGED tabVars
        BY <4>2 DEF Delete
      <4>3. ASSUME NEW t \in Tabs, AskList(p, t) \/ AskPage(p, t) \/ Send(p, t)
            PROVE  UNCHANGED tabVars
        BY <4>3 DEF AskList, AskPage, Send
      <4>4. ASSUME NEW c \in Convs, NEW u \in Users, Note(p, c, u) PROVE UNCHANGED tabVars
        BY <4>4 DEF Note
      <4> QED
        BY <2>3, <4>1, <4>2, <4>3, <4>4 DEF Ask
    <3> QED
      BY <3>1
  <2>4. ASSUME NEW p \in Procs, Serve(p), ~AnnounceMade(p) PROVE TabsOnly'
    <3>1. UNCHANGED <<link, loaded>>
      <4>0. ASSUME NEW c, Found(p, c) PROVE UNCHANGED <<link, loaded>>
        BY <4>0 DEF Found
      <4>1. CASE Find(p) \/ FindAgain(p)
        BY <4>0, <4>1 DEF Find, FindAgain
      <4>5. CASE Raced(p) \/ Count(p)
        BY <4>5 DEF Raced, Count
      <4>6. CASE Insert(p)
        <5>1. UNCHANGED tabVars
          BY <4>6, Zenon DEF Insert
        <5> QED
          BY <5>1
      <4>2. CASE ReadList(p) \/ ReadPage(p)
        BY <4>2 DEF ReadList, ReadPage
      <4>3. CASE Store(p) \/ Mark(p)
        BY <4>3 DEF Store, Mark
      <4>4. CASE AnnounceMessage(p) \/ AnnounceRead(p)
        BY <4>4 DEF AnnounceMessage, AnnounceRead
      <4> QED
        BY <2>4, <4>1, <4>2, <4>3, <4>4, <4>5, <4>6 DEF Serve
    <3> QED
      BY <3>1
  <2>5. ASSUME NEW p \in Procs, PageLoads(p) \/ Die(p) PROVE TabsOnly'
    BY <2>5 DEF PageLoads, Die
  <2>6. ASSUME NEW p \in Procs, NEW t \in Tabs, Acknowledge(p, t) PROVE TabsOnly'
    BY <2>6 DEF Acknowledge
  <2>7. ASSUME NEW t \in Tabs, NEW c \in Convs \cup {None},
               Drop(t) \/ Connect(t) \/ Visit(t, c)
        PROVE  TabsOnly'
    BY <2>7 DEF Drop, Connect, Visit
  <2>8. CASE UNCHANGED vars
    BY <2>8 DEF vars
  <2> QED
    BY <2>1, <2>2, <2>3, <2>4, <2>5, <2>6, <2>7, <2>8 DEF Next, Answer
<1> QED
  BY <1>1, <1>2, ListsAlways, PTL DEF Spec

(* A list that is not in doubt has the conversations of its user, whoever   *)
(* opened them and whatever came in while it was being asked for.           *)
THEOREM EveryoneSeesTheirConversations == Spec => []EveryoneListsIt
<1>1. ListInv /\ TabsOnly => EveryoneListsIt
  <2> SUFFICES ASSUME ListInv, TabsOnly, NEW t \in loaded, NEW c \in Convs, Quiet(t, c), c \notin off[t]
               PROVE  badge[t][c] # None <=> c \in ConvsOf(UserOf[t])
    BY DEF EveryoneListsIt
  <2>1. t \in Tabs
    BY DEF TabsOnly
  <2>2. c \in ConvsOf(UserOf[t]) <=> c \in Owned(key, UserOf[t])
    BY DEF ConvsOf, MembersOf, Owned
  <2>3. ~Announcing(c)
    BY DEF Quiet, Announcing
  <2> QED
    BY <2>1, <2>2, <2>3 DEF ListInv, Lists, BaseInv, Shelves
<1> QED
  BY <1>1, ListsAlways, TabsAlways, PTL

-----------------------------------------------------------------------------
(***************************************************************************)
(* Unread counts.  A badge counts the messages its user has been told of   *)
(* and not read, as the server will have it when the acknowledgement on    *)
(* its way has arrived; a page that has not acknowledged its newest        *)
(* message is about to set the badge to 0, whatever it shows.              *)
(***************************************************************************)
(* The members have not been told of message n yet. *)
Secret(c, n) == \E p \in Procs : Telling(p) /\ req[p].conv = c /\ req[p].n = n

(* An acknowledgement of n by t is on its way. *)
Marking(t, c, n) ==
  \E p \in Procs : pc[p] = "mark" /\ req[p].tab = t /\ req[p].conv = c /\ n <= req[p].n

Unheard(t, c) ==
  {n \in 1 .. Len(log[c]) :
     /\ CountsAsUnread(log[c][n], UserOf[t]) /\ ~(n <= cursor[c][UserOf[t]])
     /\ ~Marking(t, c, n) /\ ~Secret(c, n)}

Lagging(t, c) ==
  /\ at[t] = c
  /\ \E n \in 1 .. Len(log[c]) :
       /\ n > acked[t] /\ ~Secret(c, n)
       /\ c \in paged[t] => n \in ToSet(hist[t][c]) /\ hist[t][c][1] # acked[t]

BadgeRight(t, c) ==
  badge[t][c] # None => badge[t][c] = Cardinality(Unheard(t, c)) \/ Lagging(t, c)

(* What the members have not been told of is new to them. *)
News(t, c) ==
  \A n \in 1 .. Len(log[c]) : Secret(c, n) =>
    /\ at[t] = c => n > acked[t]
    /\ ~log[c][n].system /\ log[c][n].by # UserOf[t] =>
         ~log[c][n].gone /\ n > cursor[c][UserOf[t]] /\ ~Marking(t, c, n)

(* A history has a message before it is announced only as one that was      *)
(* loaded up to it.                                                         *)
Early(t, c) ==
  \A n \in 1 .. Len(log[c]) : Secret(c, n) /\ n \in ToSet(hist[t][c]) =>
    1 .. n \subseteq ToSet(hist[t][c]) /\ hist[t][c][1] >= n

(* p has fixed part of its answer. *)
Looked(step, r) ==
  \/ r.kind = "list" /\ step \in {"read", "reply"} /\ (r.rows # None \/ r.counts # None)
  \/ r.kind = "open" /\ step \in {"count", "announce", "reply"}

(* The answer r of a handler is right about c. *)
AnswerRight(step, r, c) ==
  /\ ~Unmarked(c)
  /\ \A n \in 1 .. Len(log[c]) : Secret(c, n) =>
       log[c][n].system /\ (at[r.tab] = c => n > acked[r.tab])
  /\ r.kind = "list" /\ r.counts # None => r.counts[c] = Unread(c, r.user)
  /\ r.kind = "open" /\ r.conv = c => r.cur[r.user] = cursor[c][r.user]
  /\ r.kind = "open" /\ r.conv = c /\ step # "count" => r.count = Unread(c, r.user)

Badges ==
  \A t \in Tabs : \A c \in Convs \ off[t] : BadgeRight(t, c) /\ News(t, c)

Histories == \A t \in Tabs, c \in Convs : Early(t, c)

Answers ==
  \A p \in Procs : Looked(pc[p], req[p]) =>
    \A c \in Convs \ risk[p] : AnswerRight(pc[p], req[p], c)

BadgeInv == ListInv /\ Badges /\ Histories /\ Answers

(* Handlers that neither announce a message nor mark one. *)
Plain(step, r) ==
  ~(step = "announce" /\ r.kind \in {"send", "note"}) /\ step # "mark"

LEMMA HandlersQuiet ==
  ASSUME BaseInv, NEW p \in Procs, NEW step, NEW r,
         pc' = [pc EXCEPT ![p] = step], req' = [req EXCEPT ![p] = r],
         Plain(pc[p], req[p]), Plain(step, r)
  PROVE  /\ \A c, n : Secret(c, n)' <=> Secret(c, n)
         /\ \A t, c, n : Marking(t, c, n)' <=> Marking(t, c, n)
         /\ \A c : Unmarked(c)' <=> Unmarked(c)
<1>1. /\ \A q \in Procs : q # p => pc'[q] = pc[q] /\ req'[q] = req[q]
      /\ pc'[p] = step /\ req'[p] = r
  BY DEF BaseInv, SeenInv, KeyInv
<1>2. \A q \in Procs : Telling(q)' <=> Telling(q)
  BY <1>1 DEF Telling, Plain
<1>3. ~Telling(p) /\ pc[p] # "mark" /\ pc'[p] # "mark"
  BY <1>1 DEF Telling, Plain
<1>4. \A c, n : Secret(c, n)' <=> Secret(c, n)
  BY <1>1, <1>2, <1>3 DEF Secret
<1>5. \A t, c, n : Marking(t, c, n)' <=> Marking(t, c, n)
  BY <1>1, <1>3 DEF Marking
<1>6. \A c : Unmarked(c)' <=> Unmarked(c)
  BY <1>1, <1>3 DEF Unmarked
<1> QED
  BY <1>4, <1>5, <1>6

LEMMA HandlersRest ==
  ASSUME UNCHANGED <<pc, req>>
  PROVE  /\ \A c, n : Secret(c, n)' <=> Secret(c, n)
         /\ \A t, c, n : Marking(t, c, n)' <=> Marking(t, c, n)
         /\ \A c : Unmarked(c)' <=> Unmarked(c)
  BY DEF Secret, Telling, Marking, Unmarked

(* t stays on its page, or starts anew on one. *)
Steps(t) == (at'[t] = at[t] /\ acked'[t] = acked[t]) \/ acked'[t] = 0

(* Nothing about c changes for t, which leaves the page of c only when it   *)
(* has read all of it.                                                      *)
LEMMA BadgeStays ==
  ASSUME NEW t \in Tabs, NEW c \in Convs,
         UNCHANGED <<log[c], cursor[c][UserOf[t]], badge[t][c], hist[t][c]>>,
         c \in paged[t] <=> c \in paged'[t],
         \A n : Secret(c, n)' <=> Secret(c, n),
         \A n : Marking(t, c, n)' <=> Marking(t, c, n),
         Len(log[c]) \in Nat,
         at'[t] = c => Steps(t), at[t] = c /\ at'[t] = c => acked'[t] = acked[t],
         at[t] = c /\ at'[t] # c => ReadAll(t, c),
         BadgeRight(t, c), News(t, c)
  PROVE  BadgeRight(t, c)' /\ News(t, c)'
<1>1. Unheard(t, c)' = Unheard(t, c)
  BY DEF Unheard, CountsAsUnread
<1>2. ASSUME Lagging(t, c) PROVE Lagging(t, c)'
  <2>1. PICK n \in 1 .. Len(log[c]) :
          /\ n > acked[t] /\ ~Secret(c, n)
          /\ c \in paged[t] => n \in ToSet(hist[t][c]) /\ hist[t][c][1] # acked[t]
    BY <1>2 DEF Lagging
  <2>2. at[t] = c
    BY <1>2 DEF Lagging
  <2>3. at'[t] = c
    <3> SUFFICES ASSUME at'[t] # c PROVE FALSE
      OBVIOUS
    <3>1. c \in paged[t] /\ (hist[t][c] = <<>> \/ acked[t] = hist[t][c][1])
      BY <2>2 DEF ReadAll, UpToDate
    <3>2. hist[t][c] # <<>>
      BY <2>1, <3>1 DEF ToSet
    <3> QED
      BY <2>1, <3>1, <3>2
  <2>4. acked'[t] = acked[t]
    BY <2>2, <2>3
  <2> QED
    BY <2>1, <2>3, <2>4 DEF Lagging
<1>3. BadgeRight(t, c)'
  BY <1>1, <1>2 DEF BadgeRight
<1>4. News(t, c)'
  <2> SUFFICES ASSUME NEW n \in 1 .. Len(log[c]), Secret(c, n)
               PROVE  /\ at'[t] = c => n > acked'[t]
                      /\ ~log[c][n].system /\ log[c][n].by # UserOf[t] =>
                           /\ ~log[c][n].gone /\ n > cursor[c][UserOf[t]]
                           /\ ~Marking(t, c, n)
    BY DEF News
  <2>1. at'[t] = c => n > acked'[t]
    BY DEF News, Steps
  <2> QED
    BY <2>1 DEF News
<1> QED
  BY <1>3, <1>4

(* A badge stays right as long as as much is unheard of. *)
LEMMA BadgeKept ==
  ASSUME NEW t \in Tabs, NEW c \in Convs,
         UNCHANGED <<badge[t][c], hist[t][c], at[t], acked[t]>>,
         Len(log[c]) \in Nat, Len(log'[c]) \in Nat, Len(log[c]) <= Len(log'[c]),
         c \in paged[t] <=> c \in paged'[t],
         \A n \in 1 .. Len(log[c]) : Secret(c, n)' => Secret(c, n),
         Unheard(t, c)' = Unheard(t, c), BadgeRight(t, c)
  PROVE  BadgeRight(t, c)'
<1>1. ASSUME Lagging(t, c) PROVE Lagging(t, c)'
  <2>1. PICK n \in 1 .. Len(log[c]) :
          /\ n > acked[t] /\ ~Secret(c, n)
          /\ c \in paged[t] => n \in ToSet(hist[t][c]) /\ hist[t][c][1] # acked[t]
    BY <1>1 DEF Lagging
  <2>2. n \in 1 .. Len(log'[c]) /\ ~Secret(c, n)'
    BY <2>1
  <2> QED
    BY <1>1, <2>1, <2>2 DEF Lagging
<1> QED
  BY <1>1 DEF BadgeRight

LEMMA EarlyStays ==
  ASSUME NEW t \in Tabs, NEW c \in Convs, Len(log'[c]) = Len(log[c]), UNCHANGED hist[t][c],
         \A n : Secret(c, n)' => Secret(c, n), Early(t, c)
  PROVE  Early(t, c)'
  BY DEF Early

LEMMA AnswerStays ==
  ASSUME NEW c \in Convs, NEW step, NEW r, Len(log[c]) \in Nat,
         UNCHANGED <<log[c], cursor[c]>>,
         \A n : Secret(c, n)' => Secret(c, n), Unmarked(c)' => Unmarked(c),
         at'[r.tab] = c => Steps(r.tab),
         AnswerRight(step, r, c)
  PROVE  AnswerRight(step, r, c)'
<1>1. Unread(c, r.user)' = Unread(c, r.user)
  BY DEF Unread, UnreadFrom, CountsAsUnread
<1>2. ASSUME NEW n \in 1 .. Len(log[c]), Secret(c, n), at'[r.tab] = c
      PROVE  n > acked'[r.tab]
  BY <1>2 DEF AnswerRight, Steps
<1> QED
  BY <1>1, <1>2 DEF AnswerRight

LEMMA AnswersGoOn ==
  ASSUME BadgeInv, NEW p \in Procs, NEW step, NEW r,
         pc' = [pc EXCEPT ![p] = step], req' = [req EXCEPT ![p] = r],
         \A q \in Procs \ {p} : Looked(pc[q], req[q]) => risk[q] \subseteq risk'[q],
         \A st, rr : \A c \in Convs :
           /\ \E q \in Procs \ {p} : st = pc[q] /\ rr = req[q] /\ c \notin risk'[q]
           /\ Looked(st, rr) /\ AnswerRight(st, rr, c)
           => AnswerRight(st, rr, c)',
         \A c \in Convs \ risk'[p] : Looked(step, r) => AnswerRight(step, r, c)'
  PROVE  Answers'
<1>1. /\ \A q \in Procs : q # p => pc'[q] = pc[q] /\ req'[q] = req[q]
      /\ pc'[p] = step /\ req'[p] = r
  BY DEF BadgeInv, ListInv, BaseInv, SeenInv, KeyInv
<1> SUFFICES ASSUME NEW q \in Procs, Looked(pc'[q], req'[q]), NEW c \in Convs \ risk'[q]
             PROVE  AnswerRight(pc[q], req[q], c)'
  BY DEF Answers, Looked
<1>2. PICK st, rr : st = pc'[q] /\ rr = req'[q]
  OBVIOUS
<1>3. AnswerRight(st, rr, c)'
  <2>1. CASE q = p
    BY <1>1, <1>2, <2>1
  <2>2. CASE q # p
    <3>1. st = pc[q] /\ rr = req[q] /\ Looked(st, rr) /\ c \notin risk[q]
      BY <1>1, <1>2, <2>2
    <3>2. AnswerRight(st, rr, c)
      BY <3>1 DEF BadgeInv, Answers
    <3> QED
      BY <2>2, <3>1, <3>2
  <2> QED
    BY <2>1, <2>2
<1> QED
  BY <1>2, <1>3 DEF AnswerRight

(* A handler goes on without a word about messages. *)
LEMMA QuietAnswers ==
  ASSUME BadgeInv, NEW p \in Procs, NEW step, NEW r,
         pc' = [pc EXCEPT ![p] = step], req' = [req EXCEPT ![p] = r],
         Plain(pc[p], req[p]), Plain(step, r), UNCHANGED <<log, cursor>>,
         \A t \in Tabs : Steps(t),
         \A q \in Procs \ {p} : Looked(pc[q], req[q]) => risk[q] \subseteq risk'[q],
         \A c \in Convs \ risk'[p] : Looked(step, r) => AnswerRight(step, r, c)'
  PROVE  Answers'
<1>1. /\ \A c, n : Secret(c, n)' <=> Secret(c, n)
      /\ \A c : Unmarked(c)' <=> Unmarked(c)
  BY HandlersQuiet DEF BadgeInv, ListInv
<1>2. ASSUME NEW st, NEW rr, NEW c \in Convs, NEW q \in Procs, rr = req[q],
             Looked(st, rr), AnswerRight(st, rr, c)
      PROVE  AnswerRight(st, rr, c)'
  <2>1. rr.tab \in Tabs
    BY <1>2 DEF BadgeInv, ListInv, BaseInv, Requests, Sound, Looked
  <2>2. Len(log[c]) \in Nat
    BY Lengths DEF BadgeInv, ListInv
  <2> QED
    BY <1>1, <1>2, <2>1, <2>2, AnswerStays
<1> QED
  BY <1>2, AnswersGoOn

LEMMA QuietStep ==
  ASSUME BadgeInv, ListInv', NEW p \in Procs, NEW step, NEW r,
         pc' = [pc EXCEPT ![p] = step], req' = [req EXCEPT ![p] = r],
         Plain(pc[p], req[p]), Plain(step, r),
         UNCHANGED <<log, cursor, badge, hist, paged, at, acked, off>>,
         \A q \in Procs \ {p} : Looked(pc[q], req[q]) => risk[q] \subseteq risk'[q],
         \A c \in Convs \ risk'[p] : Looked(step, r) => AnswerRight(step, r, c)'
  PROVE  BadgeInv'
<1>1. /\ \A c, n : Secret(c, n)' <=> Secret(c, n)
      /\ \A t, c, n : Marking(t, c, n)' <=> Marking(t, c, n)
  BY HandlersQuiet DEF BadgeInv, ListInv
<1>2. \A c \in Convs : Len(log[c]) \in Nat
  BY Lengths DEF BadgeInv, ListInv
<1>3. \A t \in Tabs : Steps(t)
  BY DEF Steps
<1>4. Badges'
  <2>1. ASSUME NEW t \in Tabs, NEW c \in Convs, c \notin off[t]
        PROVE  BadgeRight(t, c)' /\ News(t, c)'
    BY <1>1, <1>2, <1>3, <2>1, BadgeStays DEF BadgeInv, Badges
  <2> QED
    BY <2>1 DEF Badges
<1>5. Histories'
  <2>1. ASSUME NEW t \in Tabs, NEW c \in Convs PROVE Early(t, c)'
    BY <1>1, EarlyStays DEF BadgeInv, Histories
  <2> QED
    BY <2>1 DEF Histories
<1>6. Answers'
  BY <1>3, QuietAnswers
<1> QED
  BY <1>4, <1>5, <1>6 DEF BadgeInv

(* What an answer is not in doubt about when it is looked up. *)
LEMMA LooksClean ==
  ASSUME BaseInv, NEW p \in Procs, Look(p), ~Telling(p), NEW c \in Convs, c \notin risk'[p]
  PROVE  c \notin risk[p] /\ ~Unmarked(c) /\ \A n : ~Secret(c, n)
<1> DEFINE cs == {d \in Convs : UntoldBy(Procs \ {p}, d) \/ Unmarked(d)}
<1>1. risk'[p] = risk[p] \cup cs
  BY DoubtsGrow
<1>2. c \notin risk[p] /\ ~UntoldBy(Procs \ {p}, c) /\ ~Unmarked(c)
  BY <1>1
<1>3. ASSUME NEW n, Secret(c, n) PROVE FALSE
  BY <1>2, <1>3 DEF Secret, Telling, UntoldBy, Owes
<1> QED
  BY <1>2, <1>3

LEMMA AnswersRest ==
  ASSUME BadgeInv, UNCHANGED <<pc, req>>,
         \A q \in Procs : Looked(pc[q], req[q]) => risk[q] \subseteq risk'[q],
         \A st, rr : \A c \in Convs :
           /\ \E q \in Procs : st = pc[q] /\ rr = req[q] /\ c \notin risk'[q]
           /\ Looked(st, rr) /\ AnswerRight(st, rr, c)
           => AnswerRight(st, rr, c)'
  PROVE  Answers'
<1> SUFFICES ASSUME NEW q \in Procs, Looked(pc[q], req[q]), NEW c \in Convs \ risk'[q]
             PROVE  AnswerRight(pc[q], req[q], c)'
  BY DEF Answers, Looked
<1>2. PICK st, rr : st = pc[q] /\ rr = req[q]
  OBVIOUS
<1>3. AnswerRight(st, rr, c)
  BY <1>2 DEF BadgeInv, Answers
<1>4. AnswerRight(st, rr, c)'
  BY <1>2, <1>3
<1> QED
  BY <1>2, <1>4 DEF AnswerRight

(* One handler goes on: what it tells and marks.                            *)
Tells(step, r, c, n) ==
  step = "announce" /\ r.kind \in {"send", "note"} /\ r.conv = c /\ r.n = n

Marks(step, r, t, c, n) == step = "mark" /\ r.tab = t /\ r.conv = c /\ n <= r.n

Goes(p, step, r) ==
  /\ \A c, n : Secret(c, n)' => Secret(c, n) \/ Tells(step, r, c, n)
  /\ \A c, n : Secret(c, n) => Secret(c, n)' \/ Tells(pc[p], req[p], c, n)
  /\ \A c, n : Tells(step, r, c, n) => Secret(c, n)'
  /\ \A t, c, n : Marking(t, c, n)' => Marking(t, c, n) \/ Marks(step, r, t, c, n)
  /\ \A t, c, n : Marking(t, c, n) => Marking(t, c, n)' \/ Marks(pc[p], req[p], t, c, n)
  /\ \A t, c, n : Marks(step, r, t, c, n) => Marking(t, c, n)'
  /\ \A c : Unmarked(c)' => Unmarked(c) \/ (step = "mark" /\ r.conv = c)

LEMMA OneGoes ==
  ASSUME BaseInv, NEW p \in Procs, NEW step, NEW r,
         pc' = [pc EXCEPT ![p] = step], req' = [req EXCEPT ![p] = r]
  PROVE  Goes(p, step, r)
<1>1. /\ \A q \in Procs : q # p => pc'[q] = pc[q] /\ req'[q] = req[q]
      /\ pc'[p] = step /\ req'[p] = r
  BY DEF BaseInv, SeenInv, KeyInv
<1>2. ASSUME NEW c, NEW n
      PROVE  /\ Secret(c, n) <=> \E q \in Procs : Tells(pc[q], req[q], c, n)
             /\ Secret(c, n)' <=> \E q \in Procs : Tells(pc'[q], req'[q], c, n)
  BY DEF Secret, Telling, Tells
<1>3. ASSUME NEW t, NEW c, NEW n
      PROVE  /\ Marking(t, c, n) <=> \E q \in Procs : Marks(pc[q], req[q], t, c, n)
             /\ Marking(t, c, n)' <=> \E q \in Procs : Marks(pc'[q], req'[q], t, c, n)
  BY DEF Marking, Marks
<1>4. ASSUME NEW c, NEW n
      PROVE  /\ Secret(c, n)' => Secret(c, n) \/ Tells(step, r, c, n)
             /\ Secret(c, n) => Secret(c, n)' \/ Tells(pc[p], req[p], c, n)
             /\ Tells(step, r, c, n) => Secret(c, n)'
  BY <1>1, <1>2
<1>5. ASSUME NEW t, NEW c, NEW n
      PROVE  /\ Marking(t, c, n)' => Marking(t, c, n) \/ Marks(step, r, t, c, n)
             /\ Marking(t, c, n) => Marking(t, c, n)' \/ Marks(pc[p], req[p], t, c, n)
             /\ Marks(step, r, t, c, n) => Marking(t, c, n)'
  BY <1>1, <1>3
<1>6. ASSUME NEW c, Unmarked(c)' PROVE Unmarked(c) \/ (step = "mark" /\ r.conv = c)
  BY <1>1, <1>6 DEF Unmarked
<1> QED
  BY <1>4, <1>5, <1>6 DEF Goes

(* What the server counts. *)
LEMMA UnreadIs ==
  ASSUME BaseInv, NEW c \in Convs, NEW u \in Users
  PROVE  Unread(c, u) = Cardinality({n \in 1 .. Len(log[c]) :
                          CountsAsUnread(log[c][n], u) /\ ~(n <= cursor[c][u])})
<1> DEFINE k == cursor[c][u]
<1>1. k \in Nat /\ Len(log[c]) \in Nat
  BY Lengths DEF BaseInv, SeenInv, Tables, Cursors
<1> HIDE DEF k
<1>2. ASSUME NEW n PROVE n \in k + 1 .. Len(log[c]) <=> n \in 1 .. Len(log[c]) /\ ~(n <= k)
  BY <1>1
<1>3. {n \in k + 1 .. Len(log[c]) : CountsAsUnread(log[c][n], u)} =
      {n \in 1 .. Len(log[c]) : CountsAsUnread(log[c][n], u) /\ ~(n <= k)}
  BY <1>2
<1> QED
  BY <1>3 DEF Unread, UnreadFrom, k

(* A fresh count. *)
LEMMA BadgeAnew ==
  ASSUME BaseInv, NEW t \in Tabs, NEW c \in Convs,
         UNCHANGED <<log[c], cursor[c]>>, ~Unmarked(c)',
         \A n \in 1 .. Len(log[c]) : Secret(c, n)' => log[c][n].system,
         badge'[t][c] \in {None, Unread(c, UserOf[t])}
  PROVE  BadgeRight(t, c)'
<1>1. Unheard(t, c)' = {n \in 1 .. Len(log[c]) : /\ CountsAsUnread(log[c][n], UserOf[t])
                                                /\ ~(n <= cursor[c][UserOf[t]])}
  <2>1. \A n : ~Marking(t, c, n)'
    BY DEF Marking, Unmarked
  <2> QED
    BY <2>1 DEF Unheard, CountsAsUnread
<1>2. UserOf[t] \in Users
  BY SignedInAssumption
<1> QED
  BY <1>1, <1>2, UnreadIs DEF BadgeRight

LEMMA InitBadges == Init => BadgeInv
<1> SUFFICES ASSUME Init PROVE BadgeInv
  OBVIOUS
<1>1. ListInv
  BY InitLists
<1>2. \A c \in Convs : 1 .. Len(log[c]) = {}
  BY DEF Init
<1>3. Badges
  BY <1>2 DEF Badges, BadgeRight, News, Init
<1>4. Histories
  BY <1>2 DEF Histories, Early
<1>5. Answers
  BY BlankNone DEF Answers, Looked, Init
<1> QED
  BY <1>1, <1>3, <1>4, <1>5 DEF BadgeInv

LEMMA StepBadges == BadgeInv /\ [Next]_vars => BadgeInv'
<1> SUFFICES ASSUME BadgeInv, [Next]_vars
             PROVE  BadgeInv'
  OBVIOUS
<1> USE DEF Begin, Goto, serverVars, tabVars, flight, doubts
<1>n. ListInv' /\ BaseInv' /\ ListInv /\ BaseInv
  BY StepLists DEF BadgeInv, ListInv
<1>c. ASSUME NEW p \in Procs
      PROVE  /\ Shaped(req[p]) /\ Fit(pc[p], req[p]) /\ Finds(key, pc[p], req[p])
             /\ Carries(log, cursor, pc[p], req[p]) /\ Sound(key, log, pc[p], req[p])
  BY <1>n DEF BaseInv, SeenInv, KeyInv, Handlers, Requests
<1>l. \A c \in Convs : log[c] \in Seq(Entries) /\ Len(log[c]) \in Nat
                       /\ DOMAIN log[c] = 1 .. Len(log[c])
  BY <1>n, Lengths
<1>t. /\ badge \in [Tabs -> [Convs -> Nat \cup {None}]]
      /\ acked \in [Tabs -> Nat] /\ paged \in [Tabs -> SUBSET Convs]
      /\ off \in [Tabs -> SUBSET Convs] /\ risk \in [Procs -> SUBSET Convs]
      /\ at \in [Tabs -> Convs \cup {None}]
      /\ key \in [Convs -> Keys] /\ log \in Logs /\ cursor \in Cursors
  BY <1>n DEF BaseInv, Shelves, Doubts, SeenInv, Pages, KeyInv, Tables
(* A handler goes on, and the tabs learn nothing.                           *)
<1>q. ASSUME NEW p \in Procs, NEW step, NEW r,
             pc' = [pc EXCEPT ![p] = step], req' = [req EXCEPT ![p] = r],
             Plain(pc[p], req[p]), Plain(step, r),
             UNCHANGED <<log, cursor, tabVars, off>>, UNCHANGED risk \/ Look(p),
             \A c \in Convs \ risk'[p] : Looked(step, r) => AnswerRight(step, r, c)'
      PROVE  BadgeInv'
  <2>1. \A q \in Procs : risk[q] \subseteq risk'[q]
    <3>1. CASE Look(p)
      BY <1>n, <1>q, <3>1, LooksGrow
    <3> QED
      BY <1>q, <3>1
  <2> QED
    BY <1>n, <1>q, <2>1, QuietStep
<1>b. ASSUME NEW p \in Procs, NEW step, NEW r, Idle(p), step \in {"find", "read", "store"},
             pc' = [pc EXCEPT ![p] = step], req' = [req EXCEPT ![p] = r], Blank(r),
             UNCHANGED <<serverVars, tabVars, doubts>>
      PROVE  BadgeInv'
  <2>1. ~Looked(step, r)
    BY <1>b DEF Looked, Blank
  <2>2. Plain(pc[p], req[p]) /\ Plain(step, r)
    BY <1>b DEF Plain, Idle
  <2> QED
    BY <1>b, <1>q, <2>1, <2>2
(* p has looked, and answers of what it sees.                               *)
<1>k. ASSUME NEW p \in Procs, NEW step, NEW r, NEW c \in Convs, c \notin risk'[p],
             pc' = [pc EXCEPT ![p] = step], req' = [req EXCEPT ![p] = r],
             Plain(pc[p], req[p]), Plain(step, r), Look(p)
      PROVE  ~Unmarked(c)' /\ \A n : ~Secret(c, n)'
  <2>1. ~Telling(p)
    BY <1>k DEF Telling, Plain
  <2>2. ~Unmarked(c) /\ \A n : ~Secret(c, n)
    BY <1>k, <1>n, <2>1, LooksClean
  <2> QED
    BY <1>k, <1>n, <2>2, HandlersQuiet
<1>1. ASSUME NEW p \in Procs, NEW t \in Tabs, NEW peer \in Users, OpenDirect(p, t, peer)
      PROVE  BadgeInv'
  <2> DEFINE r == [Req("open", t, None) EXCEPT !.peer = peer]
  <2>1. Blank(r)
    BY BlankOpen
  <2>2. pc' = [pc EXCEPT ![p] = "find"] /\ req' = [req EXCEPT ![p] = r] /\ Idle(p)
        /\ UNCHANGED <<serverVars, tabVars, doubts>>
    BY <1>1 DEF OpenDirect
  <2> HIDE DEF r
  <2> QED
    BY <1>b, <2>1, <2>2
<1>2. ASSUME NEW p \in Procs, NEW c \in WithKey(KeyOf(req[p])), Found(p, c),
             pc[p] \in {"find", "again"}
      PROVE  BadgeInv'
  <2>0. PICK r : r = Aimed(req[p], c, cursor[c])
    OBVIOUS
  <2>1. r.kind = "open" /\ r.conv = c /\ r.cur = cursor[c]
    BY <1>2, <1>c, <2>0, Untouched DEF SameAim, Fit
  <2>2. pc' = [pc EXCEPT ![p] = "count"] /\ req' = [req EXCEPT ![p] = r]
        /\ UNCHANGED <<serverVars, tabVars, off>> /\ Look(p)
    BY <1>2, <2>0 DEF Found, Aimed
  <2>3. Plain(pc[p], req[p]) /\ Plain("count", r)
    BY <1>2 DEF Plain
  <2>4. ASSUME NEW d \in Convs, d \notin risk'[p] PROVE AnswerRight("count", r, d)'
    <3>1. ~Unmarked(d)' /\ \A n : ~Secret(d, n)'
      BY <1>k, <2>2, <2>3, <2>4
    <3> QED
      BY <2>1, <2>2, <3>1 DEF AnswerRight
  <2> QED
    BY <1>q, <2>2, <2>3, <2>4
<1>3. ASSUME NEW p \in Procs, Find(p) PROVE BadgeInv'
  <2>1. CASE WithKey(KeyOf(req[p])) = {}
    <3>0. PICK r : r = req[p]
      OBVIOUS
    <3>1. pc' = [pc EXCEPT ![p] = "insert"] /\ req' = [req EXCEPT ![p] = r]
          /\ UNCHANGED <<serverVars, tabVars, doubts>> /\ pc[p] = "find"
      BY <1>3, <2>1, <3>0 DEF Find
    <3>2. r.kind = "open"
      BY <1>c, <3>0, <3>1 DEF Fit
    <3> QED
      BY <1>q, <3>1, <3>2 DEF Plain, Looked
  <2> QED
    BY <1>2, <1>3, <2>1 DEF Find
<1>4. ASSUME NEW p \in Procs, FindAgain(p) PROVE BadgeInv'
  BY <1>2, <1>4 DEF FindAgain
<1>5. ASSUME NEW p \in Procs, Insert(p) PROVE BadgeInv'
  <2>1. PICK c \in Convs : /\ key[c] = None /\ key' = [key EXCEPT ![c] = KeyOf(req[p])]
                           /\ pc' = [pc EXCEPT ![p] = "count"]
                           /\ req' = [req EXCEPT ![p] = [req[p] EXCEPT !.conv = c, !.made = TRUE]]
    BY <1>5, Zenon DEF Insert
  <2>0. PICK r : r = Made(req[p], c)
    OBVIOUS
  <2>2. r.kind = "open" /\ r.conv = c /\ r.cur = req[p].cur /\ r.user = req[p].user
    BY <1>5, <1>c, <2>0, Untouched DEF SameAim, Fit, Insert
  <2>3. UNCHANGED <<log, cursor, tabVars, off>> /\ Look(p) /\ req' = [req EXCEPT ![p] = r]
        /\ pc[p] = "insert"
    BY <1>5, <2>0, <2>1 DEF Insert, Made
  <2>4. Plain(pc[p], req[p]) /\ Plain("count", r)
    BY <2>3 DEF Plain
  (* Nobody has read anything where nothing was written.                    *)
  <2>5. r.cur[r.user] = cursor[c][r.user]
    <3>1. r.user \in Users /\ r.cur = [u \in Users |-> 0]
      BY <1>c, <2>2, <2>3 DEF Carries, Fit
    <3>2. log[c] = <<>>
      BY <1>n, <2>1 DEF BaseInv, Shelves
    <3>3. cursor[c][r.user] \in Nat /\ cursor[c][r.user] <= Len(log[c])
      BY <1>n, <3>1 DEF BaseInv, SeenInv, Tables, Cursors
    <3> QED
      BY <3>1, <3>2, <3>3
  <2>6. ASSUME NEW d \in Convs, d \notin risk'[p] PROVE AnswerRight("count", r, d)'
    <3>1. ~Unmarked(d)' /\ \A n : ~Secret(d, n)'
      BY <1>k, <2>1, <2>3, <2>4, <2>6
    <3> QED
      BY <2>2, <2>3, <2>5, <3>1 DEF AnswerRight
  <2> QED
    BY <1>q, <2>1, <2>3, <2>4, <2>6
<1>6. ASSUME NEW p \in Procs, Raced(p) PROVE BadgeInv'
  <2>0. PICK r : r = req[p]
    OBVIOUS
  <2>1. pc' = [pc EXCEPT ![p] = "again"] /\ req' = [req EXCEPT ![p] = r]
        /\ UNCHANGED <<serverVars, tabVars, doubts>> /\ pc[p] = "insert"
    BY <1>6, <2>0 DEF Raced
  <2>2. r.kind = "open"
    BY <1>c, <2>0, <2>1 DEF Fit
  <2> QED
    BY <1>q, <2>1, <2>2 DEF Plain, Looked
<1>7. ASSUME NEW p \in Procs, Count(p) PROVE BadgeInv'
  <2> DEFINE n == UnreadFrom(req[p].conv, req[p].user, req[p].cur[req[p].user])
  <2>0. PICK r : r = Counted(req[p], n)
    OBVIOUS
  <2>1. /\ r.kind = "open" /\ req[p].kind = "open" /\ r.conv = req[p].conv
        /\ r.user = req[p].user /\ r.cur = req[p].cur /\ r.count = n
    BY <1>7, <1>c, <2>0, Untouched DEF SameAim, Fit, Count
  <2>2. PICK step \in {"announce", "reply"} :
          pc' = [pc EXCEPT ![p] = step] /\ req' = [req EXCEPT ![p] = r]
    BY <1>7, <2>0 DEF Count, Counted
  <2>3. UNCHANGED <<serverVars, tabVars, off>> /\ Look(p) /\ pc[p] = "count"
    BY <1>7 DEF Count
  <2>4. Plain(pc[p], req[p]) /\ Plain(step, r)
    BY <2>1, <2>3 DEF Plain
  <2>5. ASSUME NEW d \in Convs, d \notin risk'[p] PROVE AnswerRight(step, r, d)'
    <3>1. ~Unmarked(d)' /\ \A m : ~Secret(d, m)'
      BY <1>k, <2>2, <2>3, <2>4, <2>5
    <3>2. d \notin risk[p]
      BY <1>n, <2>3, <2>4, <2>5, LooksGrow
    <3>3. AnswerRight(pc[p], req[p], d)
      BY <2>1, <2>3, <3>2 DEF BadgeInv, Answers, Looked
    <3>4. r.conv = d => r.cur[r.user] = cursor[d][r.user] /\ r.count = Unread(d, r.user)
      BY <2>1, <3>3 DEF AnswerRight, Unread
    <3>5. Unread(d, r.user)' = Unread(d, r.user)
      BY <2>3 DEF Unread, UnreadFrom, CountsAsUnread
    <3> QED
      BY <2>1, <2>3, <3>1, <3>4, <3>5 DEF AnswerRight
  <2> QED
    BY <1>q, <2>2, <2>3, <2>4, <2>5
<1>11. ASSUME NEW p \in Procs, NEW t \in Tabs, AskList(p, t) PROVE BadgeInv'
  <2> DEFINE r == Req("list", t, None)
  <2>1. Blank(r)
    BY BlankRequest
  <2>2. pc' = [pc EXCEPT ![p] = "read"] /\ req' = [req EXCEPT ![p] = r] /\ Idle(p)
        /\ UNCHANGED <<serverVars, tabVars, doubts>>
    BY <1>11 DEF AskList
  <2> HIDE DEF r
  <2> QED
    BY <1>b, <2>1, <2>2
<1>12. ASSUME NEW p \in Procs, ReadList(p) PROVE BadgeInv'
  <2>0. PICK rows, counts : /\ rows = ConvsOf(req[p].user)
                            /\ counts = [c \in Convs |-> Unread(c, req[p].user)]
    OBVIOUS
  <2>r. PICK a, b : a = Listing(req[p], rows) /\ b = Tallied(req[p], counts)
    OBVIOUS
  <2>1. req' = [req EXCEPT ![p] = a] \/ req' = [req EXCEPT ![p] = b]
    BY <1>12, <2>0, <2>r DEF ReadList, Listing, Tallied
  <2>2. Shaped(req[p]) /\ req[p].kind = "list"
    BY <1>12, <1>c DEF ReadList
  <2>3. /\ a.kind = "list" /\ a.user = req[p].user /\ a.counts = req[p].counts
        /\ b.kind = "list" /\ b.user = req[p].user /\ b.counts = counts
    BY <2>2, <2>r, Untouched DEF SameAim
  <2>4. PICK step \in {"reply", "read"} : pc' = [pc EXCEPT ![p] = step]
    BY <1>12 DEF ReadList
  <2>5. UNCHANGED <<serverVars, tabVars, off>> /\ Look(p) /\ pc[p] = "read"
    BY <1>12 DEF ReadList
  <2>6. Plain(pc[p], req[p]) /\ Plain(step, a) /\ Plain(step, b)
    BY <2>3, <2>4, <2>5 DEF Plain
  <2>8. ASSUME NEW d \in Convs, d \notin risk'[p], req' = [req EXCEPT ![p] = a]
        PROVE  AnswerRight(step, a, d)'
    <3>1. ~Unmarked(d)' /\ \A m : ~Secret(d, m)'
      BY <1>k, <2>4, <2>5, <2>6, <2>8
    <3>2. ASSUME a.counts # None PROVE a.counts[d] = Unread(d, a.user)
      <4>1. d \notin risk[p]
        BY <1>n, <2>5, <2>8, LooksGrow
      <4>2. AnswerRight(pc[p], req[p], d)
        BY <2>2, <2>3, <2>5, <3>2, <4>1 DEF BadgeInv, Answers, Looked
      <4> QED
        BY <2>2, <2>3, <3>2, <4>2 DEF AnswerRight
    <3>3. Unread(d, a.user)' = Unread(d, a.user)
      BY <2>5 DEF Unread, UnreadFrom, CountsAsUnread
    <3> QED
      BY <2>3, <3>1, <3>2, <3>3 DEF AnswerRight
  <2>9. ASSUME NEW d \in Convs, d \notin risk'[p], req' = [req EXCEPT ![p] = b]
        PROVE  AnswerRight(step, b, d)'
    <3>1. ~Unmarked(d)' /\ \A m : ~Secret(d, m)'
      BY <1>k, <2>4, <2>5, <2>6, <2>9
    <3>2. b.counts[d] = Unread(d, b.user)
      BY <2>0, <2>3
    <3>3. Unread(d, b.user)' = Unread(d, b.user)
      BY <2>5 DEF Unread, UnreadFrom, CountsAsUnread
    <3> QED
      BY <2>3, <3>1, <3>2, <3>3 DEF AnswerRight
  <2> QED
    BY <1>q, <2>1, <2>4, <2>5, <2>6, <2>8, <2>9
<1>14. ASSUME NEW p \in Procs, NEW t \in Tabs, AskPage(p, t) PROVE BadgeInv'
  <2>1. PICK kind \in {"page", "detail"} :
          pc' = [pc EXCEPT ![p] = "read"] /\ req' = [req EXCEPT ![p] = Req(kind, t, at[t])]
    BY <1>14 DEF AskPage
  <2> DEFINE r == Req(kind, t, at[t])
  <2>2. Blank(r)
    BY BlankRequest
  <2>3. UNCHANGED <<serverVars, tabVars, doubts>> /\ req' = [req EXCEPT ![p] = r] /\ Idle(p)
    BY <1>14, <2>1 DEF AskPage
  <2> HIDE DEF r
  <2> QED
    BY <1>b, <2>1, <2>2, <2>3
<1>15. ASSUME NEW p \in Procs, ReadPage(p) PROVE BadgeInv'
  <2>0. PICK c, items : /\ c = req[p].conv
                        /\ items = [i \in DOMAIN log[c] |-> Len(log[c]) + 1 - i]
    OBVIOUS
  <2>r. PICK a, b : a = Detailed(req[p], cursor[c]) /\ b = Paged(req[p], items)
    OBVIOUS
  <2>1. /\ pc' = [pc EXCEPT ![p] = "reply"]
        /\ req' = [req EXCEPT ![p] = a] \/ req' = [req EXCEPT ![p] = b]
    BY <1>15, <2>0, <2>r DEF ReadPage, Detailed, Paged
  <2>2. UNCHANGED <<serverVars, tabVars, doubts>> /\ pc[p] = "read"
        /\ req[p].kind \in {"page", "detail"}
    BY <1>15 DEF ReadPage
  <2>3. a.kind = req[p].kind /\ b.kind = req[p].kind
    BY <1>c, <2>r, Untouched DEF SameAim
  <2> QED
    BY <1>q, <2>1, <2>2, <2>3 DEF Plain, Looked
<1>17. ASSUME NEW p \in Procs, NEW t \in Tabs, Send(p, t) PROVE BadgeInv'
  <2> DEFINE r == Req("send", t, at[t])
  <2>1. pc' = [pc EXCEPT ![p] = "store"] /\ req' = [req EXCEPT ![p] = r] /\ Idle(p)
        /\ UNCHANGED <<serverVars, tabVars, doubts>>
    BY <1>17 DEF Send
  <2>2. Blank(r)
    BY BlankRequest
  <2> HIDE DEF r
  <2> QED
    BY <1>b, <2>1, <2>2
<1>18. ASSUME NEW p \in Procs, NEW c \in Convs, NEW u \in Users, Note(p, c, u) PROVE BadgeInv'
  <2>1. pc' = [pc EXCEPT ![p] = "store"] /\ req' = [req EXCEPT ![p] = Posted(c, u)] /\ Idle(p)
        /\ UNCHANGED <<serverVars, tabVars, doubts>>
    BY <1>18 DEF Note, Posted
  <2> QED
    BY <1>b, <2>1, BlankNote
<1>19. ASSUME NEW p \in Procs, NEW t \in Tabs, NEW n, Delete(p, t, n) PROVE BadgeInv'
  <2> DEFINE r == Numbered(Req("delete", t, at[t]), n)
  <2>1. pc' = [pc EXCEPT ![p] = "store"] /\ req' = [req EXCEPT ![p] = r] /\ Idle(p)
        /\ UNCHANGED <<serverVars, tabVars, doubts>>
    BY <1>19 DEF Delete, Numbered
  <2>2. Blank(r)
    BY BlankNumbered
  <2> HIDE DEF r
  <2> QED
    BY <1>b, <2>1, <2>2
<1>24. ASSUME NEW p \in Procs, AnnounceRead(p) PROVE BadgeInv'
  <2>1. /\ Finish(p) /\ req[p].kind = "read" /\ pc[p] = "announce"
        /\ UNCHANGED <<serverVars, link, rooms, loaded, badge, at, paged, hist, acked, doubts>>
    BY <1>24 DEF AnnounceRead
  <2>2. ~Looked("idle", NoReq) /\ Plain("idle", NoReq) /\ Plain(pc[p], req[p])
    BY <2>1, BlankNone DEF Looked, Plain
  <2> QED
    BY <1>n, <2>1, <2>2, QuietStep DEF Finish
(* A handler has answered, and a tab has a badge or a history of it.        *)
<1>f. ASSUME NEW p \in Procs, Finish(p), pc[p] \in {"reply", "count", "announce"},
             Plain(pc[p], req[p]), UNCHANGED <<log, cursor>>, \A t \in Tabs : Steps(t),
             \A q \in Procs : q # p => risk[q] \subseteq risk'[q]
      PROVE  Answers'
  <2>1. ~Looked("idle", NoReq) /\ Plain("idle", NoReq)
    BY BlankNone DEF Looked, Plain
  <2> QED
    BY <1>f, <2>1, QuietAnswers DEF Finish
<1>e. ASSUME \A c, n : Secret(c, n)' => Secret(c, n), UNCHANGED <<log, hist>>
      PROVE  Histories'
  <2>1. \A t \in Tabs, c \in Convs : Early(t, c)'
    BY <1>e, EarlyStays DEF BadgeInv, Histories
  <2> QED
    BY <2>1 DEF Histories
<1>g. ASSUME NEW t \in Tabs, NEW c \in Convs \cup {None}, GoTo(t, c), NEW s \in Tabs, NEW d
      PROVE  /\ Steps(s) /\ (at[s] = d /\ at'[s] = d => acked'[s] = acked[s])
             /\ at[s] = d /\ at'[s] # d => s = t /\ d # c
             /\ s # t => at'[s] = at[s]
             /\ at'[t] = c
  BY <1>g, <1>t DEF GoTo, Steps
<1>8. ASSUME NEW p \in Procs, AnnounceMade(p) PROVE BadgeInv'
  <2>0. PICK c, theirs, doubted, r :
          /\ c = req[p].conv /\ theirs = {t \in link : UserOf[t] \in key[c]}
          /\ doubted = IF log[c] = <<>> THEN Tabs \ theirs ELSE Tabs
          /\ r = req[p]
    OBVIOUS
  <2>1. /\ pc' = [pc EXCEPT ![p] = "reply"] /\ req' = [req EXCEPT ![p] = r]
        /\ UNCHANGED <<serverVars, at, paged, hist, acked>>
        /\ Doubt(doubted, c) /\ Overtake(p, c) /\ Upsert(theirs, c, 0)
        /\ pc[p] = "announce" /\ req[p].kind = "open"
    BY <1>8, <2>0 DEF AnnounceMade
  <2>2. c \in Convs
    BY <1>c, <2>0, <2>1 DEF Finds
  <2>3. badge' = [t \in Tabs |-> IF t \in theirs THEN [badge[t] EXCEPT ![c] = 0] ELSE badge[t]]
    BY <2>1 DEF Upsert
  <2>4. Plain(pc[p], req[p]) /\ Plain("reply", r)
    BY <2>0, <2>1 DEF Plain
  <2>5. /\ \A d, n : Secret(d, n)' <=> Secret(d, n)
        /\ \A t, d, n : Marking(t, d, n)' <=> Marking(t, d, n)
        /\ \A d : Unmarked(d)' <=> Unmarked(d)
    BY <1>n, <2>1, <2>4, HandlersQuiet
  <2>6. \A t \in Tabs : off'[t] = IF t \in doubted THEN off[t] \cup {c} ELSE off[t]
    BY <1>n, <2>1, <2>2, DoubtsGrow
  <2>7. \A q \in Procs : risk[q] \subseteq risk'[q] /\ risk'[p] = risk[p]
    <3>1. \A q \in Procs : risk'[q] = IF q # p /\ req[q].kind \in {"open", "list"}
                                      THEN risk[q] \cup {c} ELSE risk[q]
      BY <1>n, <2>1, <2>2, DoubtsGrow
    <3> QED
      BY <3>1
  <2>8. \A t \in Tabs : Steps(t)
    BY <2>1 DEF Steps
  <2>9. Badges'
    <3> SUFFICES ASSUME NEW t \in Tabs, NEW d \in Convs, d \notin off'[t]
                 PROVE  BadgeRight(t, d)' /\ News(t, d)'
      BY DEF Badges
    <3>1. d \notin off[t]
      BY <2>6
    <3>2. BadgeRight(t, d) /\ News(t, d)
      BY <3>1 DEF BadgeInv, Badges
    <3>3. CASE badge'[t][d] = badge[t][d]
      BY <1>l, <2>1, <2>5, <2>8, <3>2, <3>3, BadgeStays
    <3>4. CASE badge'[t][d] # badge[t][d]
      <4>1. t \in theirs /\ d = c /\ badge'[t][d] = 0
        BY <1>t, <2>3, <3>4
      <4>2. log[d] = <<>>
        BY <2>0, <2>6, <4>1
      <4>3. 1 .. Len(log[d]) = {}
        BY <4>2
      <4>4. Unheard(t, d)' = {} /\ Cardinality({}) = 0
        BY <2>1, <4>3, FS_EmptySet DEF Unheard
      <4> QED
        BY <2>1, <4>1, <4>3, <4>4 DEF BadgeRight, News
    <3> QED
      BY <3>3, <3>4
  <2>10. Answers'
    <3>1. ASSUME NEW d \in Convs, d \notin risk[p] PROVE AnswerRight("reply", r, d)'
      <4>1. AnswerRight("announce", r, d)
        BY <2>0, <2>1, <3>1 DEF BadgeInv, Answers, Looked
      <4>2. AnswerRight("reply", r, d)
        BY <4>1 DEF AnswerRight
      <4>3. r.tab \in Tabs
        BY <1>c, <2>0, <2>1 DEF Sound
      <4> QED
        BY <1>l, <2>1, <2>5, <2>8, <4>2, <4>3, AnswerStays
    <3> QED
      BY <2>1, <2>4, <2>7, <2>8, <3>1, QuietAnswers
  <2>11. Histories'
    BY <1>e, <2>1, <2>5
  <2> QED
    BY <1>n, <2>9, <2>10, <2>11 DEF BadgeInv
<1>9. ASSUME NEW p \in Procs, Opened(p) PROVE BadgeInv'
  <2>0. PICK c, t, r : c = req[p].conv /\ t = req[p].tab /\ r = req[p]
    OBVIOUS
  <2>1. /\ Finish(p) /\ UNCHANGED <<serverVars, paged, hist>>
        /\ Upsert({t}, c, r.count) /\ GoTo(t, c) /\ Settle(p)
        /\ off' = [off EXCEPT ![t] = (@ \ {c}) \cup (risk[p] \cap {c}) \cup LeftUnread(t, c)]
        /\ pc[p] = "reply" /\ r.kind = "open"
    BY <1>9, <2>0 DEF Opened
  <2>2. c \in Convs /\ t \in Tabs /\ r.count \in Nat /\ r.user = UserOf[t]
    BY <1>c, <2>0, <2>1 DEF Finds, Sound
  <2>3. badge' = [s \in Tabs |-> IF s \in {t} THEN [badge[s] EXCEPT ![c] = r.count] ELSE badge[s]]
    BY <2>1 DEF Upsert
  <2>4. Plain(pc[p], req[p]) /\ Plain("idle", NoReq)
    BY <2>1 DEF Plain
  <2>5. /\ \A d, n : Secret(d, n)' <=> Secret(d, n)
        /\ \A s, d, n : Marking(s, d, n)' <=> Marking(s, d, n)
        /\ \A d : Unmarked(d)' <=> Unmarked(d)
    BY <1>n, <2>1, <2>4, HandlersQuiet DEF Finish
  <2>6. ASSUME NEW s \in Tabs, NEW d
        PROVE  /\ Steps(s) /\ (at[s] = d /\ at'[s] = d => acked'[s] = acked[s])
               /\ at[s] = d /\ at'[s] # d => s = t /\ d # c
    BY <1>g, <2>1, <2>2
  <2>7. Badges'
    <3> SUFFICES ASSUME NEW s \in Tabs, NEW d \in Convs, d \notin off'[s]
                 PROVE  BadgeRight(s, d)' /\ News(s, d)'
      BY DEF Badges
    <3>1. CASE ~(s = t /\ d = c)
      <4>1. d \notin off[s] /\ (s = t => d \notin LeftUnread(t, c))
        BY <1>t, <2>1, <3>1
      <4>2. BadgeRight(s, d) /\ News(s, d)
        BY <4>1 DEF BadgeInv, Badges
      <4>3. badge'[s][d] = badge[s][d]
        BY <1>t, <2>3, <3>1
      <4>4. at[s] = d /\ at'[s] # d => ReadAll(s, d)
        BY <2>6, <4>1 DEF LeftUnread
      <4> QED
        BY <1>l, <2>1, <2>5, <2>6, <4>2, <4>3, <4>4, BadgeStays
    <3>2. CASE s = t /\ d = c
      <4>1. c \notin risk[p]
        BY <1>t, <2>1, <2>2, <3>2
      <4>2. AnswerRight(pc[p], req[p], c)
        BY <2>0, <2>1, <2>2, <4>1 DEF BadgeInv, Answers, Looked
      <4>3. /\ ~Unmarked(c) /\ r.count = Unread(c, UserOf[t])
            /\ \A n \in 1 .. Len(log[c]) : Secret(c, n) =>
                 log[c][n].system /\ (at[t] = c => n > acked[t])
        BY <2>0, <2>1, <2>2, <4>2 DEF AnswerRight
      <4>4. badge'[t][c] = r.count
        BY <1>t, <2>2, <2>3
      <4>5. BadgeRight(t, c)'
        BY <1>n, <2>1, <2>2, <2>5, <4>3, <4>4, BadgeAnew
      <4>6. News(t, c)'
        <5>1. ASSUME NEW n \in 1 .. Len(log[c]), Secret(c, n), at'[t] = c PROVE n > acked'[t]
          BY <1>l, <2>2, <2>6, <4>3, <5>1 DEF Steps
        <5> QED
          BY <2>1, <2>5, <4>3, <5>1 DEF News
      <4> QED
        BY <3>2, <4>5, <4>6
    <3> QED
      BY <3>1, <3>2
  <2>8. Histories'
    BY <1>e, <2>1, <2>5
  <2>9. \A q \in Procs : q # p => risk[q] \subseteq risk'[q]
    BY <1>n, <2>1, DoubtsGrow
  <2>10. Answers'
    BY <1>f, <2>1, <2>4, <2>6, <2>9
  <2> QED
    BY <1>n, <2>7, <2>8, <2>10 DEF BadgeInv
<1>10. ASSUME NEW p \in Procs, ListLoads(p) PROVE BadgeInv'
  <2>0. PICK t, r : t = req[p].tab /\ r = req[p]
    OBVIOUS
  <2>1. /\ Finish(p) /\ UNCHANGED <<serverVars, at, acked, paged, hist>> /\ Settle(p)
        /\ badge' = [badge EXCEPT ![t] =
             [c \in Convs |-> IF c \in r.rows THEN r.counts[c] ELSE None]]
        /\ off' = [off EXCEPT ![t] = risk[p]]
        /\ pc[p] = "reply" /\ r.kind = "list"
    BY <1>10, <2>0 DEF ListLoads
  <2>2. t \in Tabs /\ r.user = UserOf[t] /\ r.counts # None
    BY <1>c, <2>0, <2>1 DEF Sound
  <2>4. Plain(pc[p], req[p]) /\ Plain("idle", NoReq)
    BY <2>1 DEF Plain
  <2>5. /\ \A d, n : Secret(d, n)' <=> Secret(d, n)
        /\ \A s, d, n : Marking(s, d, n)' <=> Marking(s, d, n)
        /\ \A d : Unmarked(d)' <=> Unmarked(d)
    BY <1>n, <2>1, <2>4, HandlersQuiet DEF Finish
  <2>6. \A s \in Tabs : Steps(s)
    BY <2>1 DEF Steps
  <2>7. Badges'
    <3> SUFFICES ASSUME NEW s \in Tabs, NEW d \in Convs, d \notin off'[s]
                 PROVE  BadgeRight(s, d)' /\ News(s, d)'
      BY DEF Badges
    <3>1. CASE s # t
      <4>1. d \notin off[s] /\ badge'[s][d] = badge[s][d]
        BY <1>t, <2>1, <3>1
      <4>2. BadgeRight(s, d) /\ News(s, d)
        BY <4>1 DEF BadgeInv, Badges
      <4> QED
        BY <1>l, <2>1, <2>5, <2>6, <4>1, <4>2, BadgeStays
    <3>2. CASE s = t
      <4>1. d \notin risk[p]
        BY <1>t, <2>1, <2>2, <3>2
      <4>2. AnswerRight(pc[p], req[p], d)
        BY <2>0, <2>1, <2>2, <4>1 DEF BadgeInv, Answers, Looked
      <4>3. /\ ~Unmarked(d) /\ r.counts[d] = Unread(d, UserOf[t])
            /\ \A n \in 1 .. Len(log[d]) : Secret(d, n) =>
                 log[d][n].system /\ (at[t] = d => n > acked[t])
        BY <2>0, <2>1, <2>2, <4>2 DEF AnswerRight
      <4>4. badge'[t][d] \in {None, r.counts[d]}
        BY <1>t, <2>1, <2>2
      <4>5. BadgeRight(t, d)'
        BY <1>n, <2>1, <2>2, <2>5, <4>3, <4>4, BadgeAnew
      <4>6. News(t, d)'
        BY <2>1, <2>5, <4>3 DEF News
      <4> QED
        BY <3>2, <4>5, <4>6
    <3> QED
      BY <3>1, <3>2
  <2>8. Histories'
    BY <1>e, <2>1, <2>5
  <2>9. \A q \in Procs : q # p => risk[q] \subseteq risk'[q]
    BY <1>n, <2>1, DoubtsGrow
  <2>10. Answers'
    BY <1>f, <2>1, <2>4, <2>6, <2>9
  <2> QED
    BY <1>n, <2>7, <2>8, <2>10 DEF BadgeInv
<1>13. ASSUME NEW t \in Tabs, NEW c \in Convs \cup {None}, Visit(t, c) PROVE BadgeInv'
  <2>1. /\ c # at[t] /\ GoTo(t, c)
        /\ off' = [off EXCEPT ![t] = @ \cup LeftUnread(t, c)]
        /\ UNCHANGED <<serverVars, pc, req, badge, paged, hist, risk>>
    BY <1>13 DEF Visit
  <2>2. /\ \A d, n : Secret(d, n)' <=> Secret(d, n)
        /\ \A s, d, n : Marking(s, d, n)' <=> Marking(s, d, n)
        /\ \A d : Unmarked(d)' <=> Unmarked(d)
    BY <2>1, HandlersRest
  <2>3. ASSUME NEW s \in Tabs, NEW d
        PROVE  /\ Steps(s) /\ (at[s] = d /\ at'[s] = d => acked'[s] = acked[s])
               /\ at[s] = d /\ at'[s] # d => s = t /\ d # c
    BY <1>g, <2>1
  <2>4. Badges'
    <3> SUFFICES ASSUME NEW s \in Tabs, NEW d \in Convs, d \notin off'[s]
                 PROVE  BadgeRight(s, d)' /\ News(s, d)'
      BY DEF Badges
    <3>1. d \notin off[s] /\ (s = t => d \notin LeftUnread(t, c))
      BY <1>t, <2>1
    <3>2. BadgeRight(s, d) /\ News(s, d)
      BY <3>1 DEF BadgeInv, Badges
    <3>3. at[s] = d /\ at'[s] # d => ReadAll(s, d)
      BY <2>3, <3>1 DEF LeftUnread
    <3> QED
      BY <1>l, <2>1, <2>2, <2>3, <3>2, <3>3, BadgeStays
  <2>5. Histories'
    BY <1>e, <2>1, <2>2
  <2>6. Answers'
    <3>1. ASSUME NEW st, NEW rr, NEW d \in Convs, NEW q \in Procs, rr = req[q],
                 Looked(st, rr), AnswerRight(st, rr, d)
          PROVE  AnswerRight(st, rr, d)'
      <4>1. rr.tab \in Tabs
        BY <1>c, <3>1 DEF Sound, Looked
      <4> QED
        BY <1>l, <2>1, <2>2, <2>3, <3>1, <4>1, AnswerStays
    <3> QED
      BY <2>1, <3>1, AnswersRest
  <2> QED
    BY <1>n, <2>4, <2>5, <2>6 DEF BadgeInv
<1>26. ASSUME UNCHANGED <<log, cursor, pc, req, badge, at, acked, paged, hist, off, risk>>
       PROVE  BadgeInv'
  <2>2. /\ \A d, n : Secret(d, n)' <=> Secret(d, n)
        /\ \A s, d, n : Marking(s, d, n)' <=> Marking(s, d, n)
        /\ \A d : Unmarked(d)' <=> Unmarked(d)
    BY <1>26, HandlersRest
  <2>3. \A s \in Tabs : Steps(s)
    BY <1>26 DEF Steps
  <2>4. ASSUME NEW s \in Tabs, NEW d \in Convs, d \notin off[s]
        PROVE  BadgeRight(s, d)' /\ News(s, d)'
    BY <1>l, <1>26, <2>2, <2>3, <2>4, BadgeStays DEF BadgeInv, Badges
  <2>5. Histories'
    BY <1>e, <1>26, <2>2
  <2>6. Answers'
    <3>1. ASSUME NEW st, NEW rr, NEW d \in Convs, NEW q \in Procs, rr = req[q],
                 Looked(st, rr), AnswerRight(st, rr, d)
          PROVE  AnswerRight(st, rr, d)'
      <4>1. rr.tab \in Tabs
        BY <1>c, <3>1 DEF Sound, Looked
      <4> QED
        BY <1>l, <1>26, <2>2, <2>3, <3>1, <4>1, AnswerStays
    <3> QED
      BY <1>26, <3>1, AnswersRest
  <2> QED
    BY <1>n, <1>26, <2>4, <2>5, <2>6 DEF BadgeInv, Badges
<1>27. ASSUME NEW t \in Tabs, Drop(t) \/ Connect(t) PROVE BadgeInv'
  BY <1>26, <1>27 DEF Drop, Connect
<1>28. CASE UNCHANGED vars
  BY <1>26, <1>28 DEF vars
<1>16. ASSUME NEW p \in Procs, PageLoads(p) PROVE BadgeInv'
  <2>0. PICK c, t, r : c = req[p].conv /\ t = req[p].tab /\ r = req[p]
    OBVIOUS
  <2>1. /\ Finish(p) /\ UNCHANGED <<serverVars, badge, at, acked, risk>>
        /\ pc[p] = "reply" /\ r.kind \in {"page", "detail"}
    BY <1>16, <2>0 DEF PageLoads
  <2>2. t \in Tabs /\ c \in Convs
    BY <1>c, <2>0, <2>1 DEF Sound, Carries
  <2>3. Plain(pc[p], req[p]) /\ Plain("idle", NoReq)
    BY <2>1 DEF Plain
  <2>4. /\ \A d, n : Secret(d, n)' <=> Secret(d, n)
        /\ \A s, d, n : Marking(s, d, n)' <=> Marking(s, d, n)
    BY <1>n, <2>1, <2>3, HandlersQuiet DEF Finish
  <2>5. \A s \in Tabs : Steps(s)
    BY <2>1 DEF Steps
  <2>6. Answers'
    BY <1>f, <2>1, <2>3, <2>5
  <2>7. CASE r.kind = "detail"
    <3>1. UNCHANGED <<paged, hist, off>>
      BY <1>16, <2>0, <2>7 DEF PageLoads
    <3>2. Histories'
      BY <1>e, <2>1, <2>4, <3>1
    <3>3. ASSUME NEW s \in Tabs, NEW d \in Convs, d \notin off[s]
          PROVE  BadgeRight(s, d)' /\ News(s, d)'
      BY <1>l, <2>1, <2>4, <2>5, <3>1, <3>3, BadgeStays DEF BadgeInv, Badges
    <3> QED
      BY <1>n, <2>6, <3>1, <3>2, <3>3 DEF BadgeInv, Badges
  <2>8. CASE r.kind = "page"
    <3>1. /\ paged' = [paged EXCEPT ![t] = @ \cup {c}]
          /\ hist' = [hist EXCEPT ![t][c] = r.items]
          /\ Doubt(IF Len(r.items) = Len(log[c]) THEN {} ELSE {t}, c)
      BY <1>16, <2>0, <2>8 DEF PageLoads
    <3>d. PICK ts : ts = IF Len(r.items) = Len(log[c]) THEN {} ELSE {t}
      OBVIOUS
    <3>2. PICK k \in 0 .. Len(log[c]) : r.items = [i \in 1 .. k |-> k + 1 - i]
      BY <1>c, <2>0, <2>1, <2>8 DEF Sound, Whole
    <3>3. /\ k \in Nat /\ Len(r.items) = k /\ ToSet(r.items) = 1 .. k
          /\ k > 0 => r.items[1] = k
      <4>1. k \in Nat
        BY <1>l, <2>2, <3>2
      <4>2. ASSUME NEW n \in 1 .. k PROVE n \in ToSet(r.items)
        <5>1. k + 1 - n \in 1 .. k /\ r.items[k + 1 - n] = n
          BY <3>2, <4>1
        <5> QED
          BY <3>2, <5>1 DEF ToSet
      <4>3. ToSet(r.items) \subseteq 1 .. k
        BY <3>2, <4>1 DEF ToSet
      <4>4. Len(r.items) = k
        BY <3>2, <4>1
      <4>5. k > 0 => r.items[1] = k
        BY <3>2, <4>1
      <4>6. ToSet(r.items) = 1 .. k
        BY <4>2, <4>3
      <4> QED
        BY <4>1, <4>4, <4>5, <4>6
    <3>4. /\ hist'[t][c] = r.items
          /\ \A s \in Tabs, d \in Convs : ~(s = t /\ d = c) =>
               /\ hist'[s][d] = hist[s][d]
               /\ d \in paged'[s] <=> d \in paged[s]
      <4>1. /\ DOMAIN hist = Tabs /\ \A s \in Tabs : DOMAIN hist[s] = Convs
        BY <1>n DEF BaseInv, SeenInv, Pages
      <4>2. hist'[t][c] = r.items
        BY <2>2, <3>1, <4>1
      <4>3. ASSUME NEW s \in Tabs, NEW d \in Convs, ~(s = t /\ d = c)
            PROVE  hist'[s][d] = hist[s][d]
        BY <2>2, <3>1, <4>1, <4>3
      <4>4. ASSUME NEW s \in Tabs, NEW d \in Convs, ~(s = t /\ d = c)
            PROVE  d \in paged'[s] <=> d \in paged[s]
        BY <1>t, <2>2, <3>1, <4>4
      <4> QED
        BY <4>2, <4>3, <4>4
    <3>5. \A s \in Tabs : off'[s] = IF s \in ts THEN off[s] \cup {c} ELSE off[s]
      BY <3>1, <3>d DEF Doubt
    <3>6. Histories'
      <4> SUFFICES ASSUME NEW s \in Tabs, NEW d \in Convs PROVE Early(s, d)'
        BY DEF Histories
      <4>1. CASE ~(s = t /\ d = c)
        BY <2>1, <2>4, <3>4, <4>1, EarlyStays DEF BadgeInv, Histories
      <4>2. CASE s = t /\ d = c
        <5>1. ASSUME NEW n \in 1 .. k PROVE 1 .. n \subseteq 1 .. k /\ k >= n /\ k > 0
          BY <3>3
        <5> QED
          BY <3>3, <3>4, <4>2, <5>1 DEF Early
      <4> QED
        BY <4>1, <4>2
    <3>7. Badges'
      <4> SUFFICES ASSUME NEW s \in Tabs, NEW d \in Convs, d \notin off'[s]
                   PROVE  BadgeRight(s, d)' /\ News(s, d)'
        BY DEF Badges
      <4>1. d \notin off[s]
        BY <3>5
      <4>2. BadgeRight(s, d) /\ News(s, d)
        BY <4>1 DEF BadgeInv, Badges
      <4>3. CASE ~(s = t /\ d = c)
        BY <1>l, <2>1, <2>4, <2>5, <3>4, <4>2, <4>3, BadgeStays
      <4>4. CASE s = t /\ d = c
        <5>1. k = Len(log[c])
          BY <3>3, <3>5, <3>d, <4>4
        <5>2. Unheard(t, c)' = Unheard(t, c)
          BY <2>1, <2>4 DEF Unheard, CountsAsUnread
        <5>3. Lagging(t, c) => Lagging(t, c)'
          <6> SUFFICES ASSUME Lagging(t, c) PROVE Lagging(t, c)'
            OBVIOUS
          <6>1. PICK n \in 1 .. k : n > acked[t] /\ ~Secret(c, n)
            BY <5>1 DEF Lagging
          <6>2. acked[t] \in Nat
            BY <1>t, <2>2
          <6>3. n \in ToSet(hist'[t][c]) /\ hist'[t][c][1] # acked[t]
            BY <3>3, <3>4, <6>1, <6>2
          <6> QED
            BY <2>1, <2>4, <5>1, <6>1, <6>3 DEF Lagging
        <5>4. BadgeRight(t, c)'
          BY <2>1, <4>2, <4>4, <5>2, <5>3 DEF BadgeRight
        <5>5. News(t, c)'
          BY <2>1, <2>4, <4>2, <4>4 DEF News
        <5> QED
          BY <4>4, <5>4, <5>5
      <4> QED
        BY <4>3, <4>4
    <3> QED
      BY <1>n, <2>6, <3>6, <3>7 DEF BadgeInv
  <2> QED
    BY <2>1, <2>7, <2>8
(* The acknowledgement of a page.                                           *)
<1>20. ASSUME NEW p \in Procs, NEW t \in Tabs, Acknowledge(p, t) PROVE BadgeInv'
  <2>0. PICK c, k, r : c = at[t] /\ k = hist[t][c][1] /\ r = Numbered(Req("read", t, c), k)
    OBVIOUS
  <2>1. /\ c # None /\ hist[t][c] # <<>> /\ Idle(p) /\ at[t] = c
        /\ acked' = [acked EXCEPT ![t] = k]
        /\ badge' = IF badge[t][c] = None THEN badge ELSE [badge EXCEPT ![t][c] = 0]
        /\ Overtake(p, c) /\ UNCHANGED <<serverVars, at, paged, hist>>
    BY <1>20, <2>0 DEF Acknowledge
  <2>2. \/ /\ pc' = [pc EXCEPT ![p] = "mark"] /\ req' = [req EXCEPT ![p] = r]
           /\ IF Untold(c) \/ k # Len(log[c]) THEN Doubt({t}, c) ELSE UNCHANGED off
        \/ UNCHANGED <<pc, req>> /\ Doubt({t}, c)
    BY <1>20, <2>0 DEF Acknowledge, Numbered
  <2>3. r.kind = "read" /\ r.tab = t /\ r.conv = c /\ r.n = k
    BY <2>0, BlankNumbered
  <2>4. c \in Convs
    BY <1>t, <2>1
  <2>5. k \in 1 .. Len(log[c])
    <3>1. hist[t][c] \in Seq(1 .. Len(log[c]))
      BY <1>n, <2>4 DEF BaseInv, Shelves
    <3> QED
      BY <2>0, <2>1, <3>1
  <2>6. /\ badge'[t][c] \in {0, None} /\ acked'[t] = k
        /\ \A s \in Tabs, d \in Convs : ~(s = t /\ d = c) =>
             badge'[s][d] = badge[s][d] /\ (at[s] = d => acked'[s] = acked[s])
    BY <1>t, <2>1, <2>4
  <2>7. /\ \A d, n : Secret(d, n)' <=> Secret(d, n)
        /\ \A s, d, n : ~(s = t /\ d = c) => (Marking(s, d, n)' <=> Marking(s, d, n))
        /\ \A d : d # c /\ Unmarked(d)' => Unmarked(d)
    <3>1. CASE UNCHANGED <<pc, req>>
      BY <3>1, HandlersRest
    <3>2. CASE pc' = [pc EXCEPT ![p] = "mark"] /\ req' = [req EXCEPT ![p] = r]
      <4>1. \A d, n, s : ~Tells(pc[p], req[p], d, n) /\ ~Marks(pc[p], req[p], s, d, n)
                         /\ ~Tells("mark", r, d, n)
        BY <2>1 DEF Tells, Marks, Idle
      <4>2. \A s, d, n : Marks("mark", r, s, d, n) => s = t /\ d = c
        BY <2>3 DEF Marks
      <4>0. Goes(p, "mark", r)
        BY <1>n, <3>2, OneGoes
      <4>4. \A d, n : Secret(d, n)' <=> Secret(d, n)
        BY <4>0, <4>1 DEF Goes
      <4>5. \A s, d, n : ~(s = t /\ d = c) => (Marking(s, d, n)' <=> Marking(s, d, n))
        BY <4>0, <4>1, <4>2 DEF Goes
      <4>6. \A d : d # c /\ Unmarked(d)' => Unmarked(d)
        BY <2>3, <2>1, <4>0 DEF Goes
      <4> QED
        BY <4>4, <4>5, <4>6
    <3> QED
      BY <2>2, <3>1, <3>2
  <2>8. /\ \A s \in Tabs : off[s] \subseteq off'[s]
        /\ c \notin off'[t] => /\ ~Untold(c) /\ k = Len(log[c])
                               /\ pc' = [pc EXCEPT ![p] = "mark"] /\ req' = [req EXCEPT ![p] = r]
    <3>1. CASE Doubt({t}, c)
      BY <3>1 DEF Doubt
    <3>2. CASE ~Doubt({t}, c)
      BY <2>2, <3>2
    <3> QED
      BY <3>1, <3>2
  <2>9. Badges'
    <3> SUFFICES ASSUME NEW s \in Tabs, NEW d \in Convs, d \notin off'[s]
                 PROVE  BadgeRight(s, d)' /\ News(s, d)'
      BY DEF Badges
    <3>1. BadgeRight(s, d) /\ News(s, d)
      BY <2>8 DEF BadgeInv, Badges
    <3>2. CASE ~(s = t /\ d = c)
      <4>1. at'[s] = d => Steps(s)
        BY <2>1, <2>6, <3>2 DEF Steps
      <4> QED
        BY <1>l, <2>1, <2>6, <2>7, <3>1, <3>2, <4>1, BadgeStays
    <3>3. CASE s = t /\ d = c
      <4>1. \A n \in 1 .. Len(log[c]) : Marking(t, c, n)'
        <5>1. \A n \in 1 .. Len(log[c]) : Marks("mark", r, t, c, n)
          BY <1>l, <2>3, <2>4, <2>8, <3>3 DEF Marks
        <5>2. Goes(p, "mark", r)
          BY <1>n, <2>8, <3>3, OneGoes
        <5> QED
          BY <5>1, <5>2 DEF Goes
      <4>2. Unheard(t, c)' = {}
        BY <2>1, <4>1 DEF Unheard
      <4>3. BadgeRight(t, c)'
        BY <2>6, <4>2, FS_EmptySet DEF BadgeRight
      <4>4. \A n : ~Secret(c, n)
        BY <2>8, <3>3, Zenon DEF Untold, UntoldBy, Owes, Secret, Telling
      <4>5. \A n : ~Secret(c, n)'
        BY <2>7, <4>4
      <4> QED
        BY <3>3, <4>3, <4>5 DEF News
    <3> QED
      BY <3>2, <3>3
  <2>10. Histories'
    BY <1>e, <2>1, <2>7
  <2>11. \A q \in Procs : risk'[q] = IF q # p /\ req[q].kind \in {"open", "list"}
                                     THEN risk[q] \cup {c} ELSE risk[q]
    BY <1>n, <2>1, <2>4, DoubtsGrow
  <2>12. ASSUME NEW st, NEW rr, NEW d \in Convs, NEW q \in Procs, st = pc[q], rr = req[q],
                d \notin risk'[q], Looked(st, rr), AnswerRight(st, rr, d)
         PROVE  AnswerRight(st, rr, d)'
    <3>1. q # p /\ rr.kind \in {"open", "list"}
      BY <2>1, <2>12 DEF Looked, Idle
    <3>2. d # c
      BY <2>11, <2>12, <3>1
    <3>3. rr.tab \in Tabs
      BY <1>c, <2>12, <3>1 DEF Sound
    <3>4. at'[rr.tab] = d => Steps(rr.tab)
      BY <2>1, <2>6, <3>2, <3>3 DEF Steps
    <3> QED
      BY <1>l, <2>1, <2>7, <2>12, <3>2, <3>4, AnswerStays
  <2>13. \A q \in Procs : risk[q] \subseteq risk'[q]
    BY <2>11
  <2>14. Answers'
    <3>1. CASE UNCHANGED <<pc, req>>
      BY <2>12, <2>13, <3>1, AnswersRest
    <3>2. CASE pc' = [pc EXCEPT ![p] = "mark"] /\ req' = [req EXCEPT ![p] = r]
      <4>1. ~Looked("mark", r)
        BY DEF Looked
      <4> QED
        BY <2>12, <2>13, <3>2, <4>1, AnswersGoOn
    <3> QED
      BY <2>2, <3>1, <3>2
  <2> QED
    BY <1>n, <2>9, <2>10, <2>14 DEF BadgeInv
(* read:ack.                                                                *)
<1>21. ASSUME NEW p \in Procs, Mark(p) PROVE BadgeInv'
  <2>0. PICK r, c, t, u : r = req[p] /\ c = r.conv /\ t = r.tab /\ u = r.user
    OBVIOUS
  <2>1. /\ pc[p] = "mark" /\ r.kind = "read" /\ c \in Convs /\ t \in Tabs /\ u = UserOf[t]
        /\ r.n \in 0 .. Len(log[c]) /\ UNCHANGED <<key, log, tabVars>>
    BY <1>21, <1>c, <2>0 DEF Mark, Fit, Carries, Sound
  <2>2. u \in Users /\ r.n \in Nat /\ \A d \in Convs, v \in Users : cursor[d][v] \in Nat
    BY <1>t, <1>l, <2>1, SignedInAssumption DEF Cursors
  <2>3. CASE cursor[c][u] < r.n
    <3>0. PICK ts : ts = {s \in TabsOf(u) \ {t} : Miscounts(s, c)}
      OBVIOUS
    <3>1. /\ pc' = [pc EXCEPT ![p] = "announce"] /\ req' = [req EXCEPT ![p] = r]
          /\ cursor' = [cursor EXCEPT ![c][u] = r.n]
          /\ Doubt(ts, c) /\ Overtake(p, c)
      BY <1>21, <2>0, <2>3, <3>0 DEF Mark
    <3>2. /\ cursor'[c][u] = r.n
          /\ \A d \in Convs, v \in Users : ~(d = c /\ v = u) => cursor'[d][v] = cursor[d][v]
          /\ \A d \in Convs : d # c => cursor'[d] = cursor[d]
      BY <1>t, <2>1, <2>2, <3>1 DEF Cursors
    <3>3. Goes(p, "announce", r)
      BY <1>n, <3>1, OneGoes
    <3>4. /\ \A d, n : Secret(d, n)' <=> Secret(d, n)
          /\ \A s, d, n : Marking(s, d, n)' => Marking(s, d, n)
          /\ \A s, d, n : Marking(s, d, n) => Marking(s, d, n)' \/ (s = t /\ d = c /\ n <= r.n)
          /\ \A n : n <= r.n => Marking(t, c, n)
          /\ \A d : Unmarked(d)' => Unmarked(d)
      <4>1. /\ \A d, n : ~Tells(pc[p], req[p], d, n) /\ ~Tells("announce", r, d, n)
            /\ \A s, d, n : ~Marks("announce", r, s, d, n)
            /\ \A s, d, n : Marks(pc[p], req[p], s, d, n) => s = t /\ d = c /\ n <= r.n
        BY <2>0, <2>1 DEF Tells, Marks
      <4>2. \A n : n <= r.n => Marking(t, c, n)
        BY <2>0, <2>1 DEF Marking
      <4> QED
        BY <3>3, <4>1, <4>2 DEF Goes
    <3>5. \A s \in Tabs : off[s] \subseteq off'[s] /\ (s \in ts => c \in off'[s])
      BY <3>1 DEF Doubt
    <3>6. \A s \in Tabs : Steps(s)
      BY <2>1 DEF Steps
    <3>7. Badges'
      <4> SUFFICES ASSUME NEW s \in Tabs, NEW d \in Convs, d \notin off'[s]
                   PROVE  BadgeRight(s, d)' /\ News(s, d)'
        BY DEF Badges
      <4>1. BadgeRight(s, d) /\ News(s, d) /\ UserOf[s] \in Users
        BY <3>5, SignedInAssumption DEF BadgeInv, Badges
      <4>2. CASE d # c \/ UserOf[s] # u
        <5>1. \A n : Marking(s, d, n)' <=> Marking(s, d, n)
          BY <2>1, <3>4, <4>2
        <5>2. cursor'[d][UserOf[s]] = cursor[d][UserOf[s]]
          BY <3>2, <4>1, <4>2
        <5> QED
          BY <1>l, <2>1, <3>4, <3>6, <4>1, <5>1, <5>2, BadgeStays
      (* What was on its way has arrived.                                   *)
      <4>3. CASE d = c /\ s = t
        <5>1. ASSUME NEW n \in 1 .. Len(log[c])
              PROVE  /\ n <= cursor'[c][u] \/ Marking(t, c, n)' <=>
                          n <= cursor[c][u] \/ Marking(t, c, n)
                     /\ n <= cursor'[c][u] => Marking(t, c, n)
          BY <2>1, <2>2, <2>3, <3>2, <3>4
        <5>2. Unheard(t, c)' = Unheard(t, c)
          BY <2>1, <3>4, <5>1 DEF Unheard, CountsAsUnread
        <5>3. BadgeRight(t, c)'
          BY <1>l, <2>1, <3>4, <4>1, <4>3, <5>2, BadgeKept
        <5>4. News(t, c)'
          <6> SUFFICES ASSUME NEW n \in 1 .. Len(log[c]), Secret(c, n)
                       PROVE  /\ at[t] = c => n > acked[t]
                              /\ ~log[c][n].system /\ log[c][n].by # UserOf[t] =>
                                   /\ ~log[c][n].gone /\ n > cursor'[c][UserOf[t]]
                                   /\ ~Marking(t, c, n)'
            BY <2>1, <3>4 DEF News
          <6>1. ~Marking(t, c, n) => n > cursor'[c][u]
            BY <2>1, <2>2, <3>2, <5>1
          <6> QED
            BY <2>1, <3>4, <4>1, <4>3, <6>1 DEF News
        <5> QED
          BY <4>3, <5>3, <5>4
      <4>4. CASE d = c /\ UserOf[s] = u /\ s # t
        <5>1. badge[s][c] \in {0, None} /\ ~Untold(c)
          BY <3>0, <3>5, <4>4 DEF TabsOf, Miscounts
        <5>2. \A n : ~Secret(c, n)
          BY <5>1 DEF Untold, UntoldBy, Owes, Secret, Telling
        <5>3. ASSUME badge[s][c] = 0, ~Lagging(s, c) PROVE Unheard(s, c)' = Unheard(s, c)
          <6>0. 0 # None
            BY NullAssumption
          <6>1. Cardinality(Unheard(s, c)) = 0
            BY <4>1, <4>4, <5>3, <6>0 DEF BadgeRight
          <6>2. IsFiniteSet(1 .. Len(log[c])) /\ Unheard(s, c) \subseteq 1 .. Len(log[c])
            <7>1. 1 \in Int /\ Len(log[c]) \in Int
              BY <1>l, <2>1
            <7>2. IsFiniteSet(1 .. Len(log[c]))
              BY <7>1, FS_Interval, Zenon
            <7> QED
              BY <7>2 DEF Unheard
          <6>3. Unheard(s, c) = {}
            BY <6>1, <6>2, FS_Subset, FS_EmptySet
          <6>4. Unheard(s, c)' \subseteq Unheard(s, c)
            <7>1. ASSUME NEW n \in 1 .. Len(log[c]), n <= cursor[c][u] PROVE n <= cursor'[c][u]
              BY <2>1, <2>2, <2>3, <3>2, <7>1
            <7> QED
              BY <2>1, <3>4, <4>4, <7>1 DEF Unheard, CountsAsUnread
          <6> QED
            BY <6>3, <6>4
        <5>4. BadgeRight(s, c)'
          <6>1. CASE badge[s][c] = 0 /\ ~Lagging(s, c)
            BY <1>l, <2>1, <3>4, <4>1, <4>4, <5>3, <6>1, BadgeKept
          <6>2. CASE Lagging(s, c)
            <7>1. Lagging(s, c)'
              BY <2>1, <3>4, <6>2 DEF Lagging
            <7> QED
              BY <7>1 DEF BadgeRight
          <6>3. CASE badge[s][c] = None
            BY <2>1, <6>3 DEF BadgeRight
          <6> QED
            BY <5>1, <6>1, <6>2, <6>3
        <5>5. News(s, c)'
          BY <3>4, <5>2 DEF News
        <5> QED
          BY <4>4, <5>4, <5>5
      <4> QED
        BY <2>1, <4>2, <4>3, <4>4
    <3>8. Histories'
      BY <1>e, <2>1, <3>4
    <3>9. \A q \in Procs : risk'[q] = IF q # p /\ req[q].kind \in {"open", "list"}
                                      THEN risk[q] \cup {c} ELSE risk[q]
      BY <1>n, <2>1, <3>1, DoubtsGrow
    <3>10. ASSUME NEW st, NEW rr, NEW d \in Convs, NEW q \in Procs, q # p, st = pc[q], rr = req[q],
                  d \notin risk'[q], Looked(st, rr), AnswerRight(st, rr, d)
           PROVE  AnswerRight(st, rr, d)'
      <4>1. rr.kind \in {"open", "list"}
        BY <3>10 DEF Looked
      <4>2. d # c
        BY <3>9, <3>10, <4>1
      <4>3. rr.tab \in Tabs
        BY <1>c, <3>10, <4>1 DEF Sound
      <4> QED
        BY <1>l, <2>1, <3>2, <3>4, <3>6, <3>10, <4>2, <4>3, AnswerStays
    <3>11. \A q \in Procs : risk[q] \subseteq risk'[q]
      BY <3>9
    <3>12. ~Looked("announce", r)
      BY <2>1 DEF Looked
    <3>13. Answers'
      BY <3>1, <3>10, <3>11, <3>12, AnswersGoOn
    <3> QED
      BY <1>n, <3>7, <3>8, <3>13 DEF BadgeInv
  <2>4. CASE ~(cursor[c][u] < r.n)
    <3>1. Finish(p) /\ UNCHANGED <<cursor, doubts>>
      BY <1>21, <2>0, <2>4 DEF Mark
    <3>2. Goes(p, "idle", NoReq)
      BY <1>n, <3>1, OneGoes DEF Finish
    <3>3. /\ \A d, n : Secret(d, n)' <=> Secret(d, n)
          /\ \A s, d, n : Marking(s, d, n)' => Marking(s, d, n)
          /\ \A s, d, n : Marking(s, d, n) => Marking(s, d, n)' \/ (s = t /\ d = c /\ n <= r.n)
          /\ \A d : Unmarked(d)' => Unmarked(d)
      <4>1. /\ \A d, n : ~Tells(pc[p], req[p], d, n) /\ ~Tells("idle", NoReq, d, n)
            /\ \A s, d, n : ~Marks("idle", NoReq, s, d, n)
            /\ \A s, d, n : Marks(pc[p], req[p], s, d, n) => s = t /\ d = c /\ n <= r.n
        BY <2>0, <2>1 DEF Tells, Marks
      <4> QED
        BY <3>2, <4>1 DEF Goes
    <3>4. \A s \in Tabs : Steps(s)
      BY <2>1 DEF Steps
    <3>5. Badges'
      <4> SUFFICES ASSUME NEW s \in Tabs, NEW d \in Convs, d \notin off[s]
                   PROVE  BadgeRight(s, d)' /\ News(s, d)'
        BY <3>1 DEF Badges
      <4>1. BadgeRight(s, d) /\ News(s, d)
        BY DEF BadgeInv, Badges
      <4>2. ASSUME NEW n \in 1 .. Len(log[d])
            PROVE  n <= cursor[d][UserOf[s]] \/ Marking(s, d, n)' <=>
                     n <= cursor[d][UserOf[s]] \/ Marking(s, d, n)
        <5>1. s = t /\ d = c /\ n <= r.n => n <= cursor[d][UserOf[s]]
          BY <1>l, <2>1, <2>2, <2>4
        <5> QED
          BY <3>3, <5>1
      <4>3. Unheard(s, d)' = Unheard(s, d)
        BY <2>1, <3>1, <3>3, <4>2 DEF Unheard, CountsAsUnread
      <4>4. BadgeRight(s, d)'
        BY <1>l, <2>1, <3>3, <4>1, <4>3, BadgeKept
      <4>5. News(s, d)'
        BY <2>1, <3>1, <3>3, <4>1 DEF News
      <4> QED
        BY <4>4, <4>5
    <3>6. Histories'
      BY <1>e, <2>1, <3>3
    <3>7. ASSUME NEW st, NEW rr, NEW d \in Convs, NEW q \in Procs, q # p, st = pc[q], rr = req[q],
                 Looked(st, rr), AnswerRight(st, rr, d)
          PROVE  AnswerRight(st, rr, d)'
      <4>1. rr.tab \in Tabs
        BY <1>c, <3>7 DEF Sound, Looked
      <4> QED
        BY <1>l, <2>1, <3>1, <3>3, <3>4, <3>7, <4>1, AnswerStays
    <3>8. ~Looked("idle", NoReq)
      BY BlankNone DEF Looked
    <3>9. Answers'
      BY <3>1, <3>7, <3>8, AnswersGoOn DEF Finish
    <3> QED
      BY <1>n, <3>5, <3>6, <3>9 DEF BadgeInv
  <2> QED
    BY <2>3, <2>4
(* A handler dies.                                                          *)
<1>25. ASSUME NEW p \in Procs, Die(p) PROVE BadgeInv'
  <2>0. PICK r, c, t : r = req[p] /\ c = r.conv /\ t = r.tab
    OBVIOUS
  <2>1. Finish(p) /\ UNCHANGED <<serverVars, tabVars>>
    BY <1>25 DEF Die
  <2>2. Goes(p, "idle", NoReq)
    BY <1>n, <2>1, OneGoes DEF Finish
  <2>3. \A n, d, s : ~Tells("idle", NoReq, d, n) /\ ~Marks("idle", NoReq, s, d, n)
    BY DEF Tells, Marks
  <2>4. /\ \A d, n : Secret(d, n)' => Secret(d, n)
        /\ \A s, d, n : Marking(s, d, n)' => Marking(s, d, n)
        /\ \A d : Unmarked(d)' => Unmarked(d)
    BY <2>2, <2>3 DEF Goes
  <2>5. \A s \in Tabs : Steps(s)
    BY <2>1 DEF Steps
  <2>6. Histories'
    BY <1>e, <2>1, <2>4
  <2>7. ASSUME NEW st, NEW rr, NEW d \in Convs, NEW q \in Procs, rr = req[q],
               Looked(st, rr), AnswerRight(st, rr, d)
        PROVE  AnswerRight(st, rr, d)'
    <3>1. rr.tab \in Tabs
      BY <1>c, <2>7 DEF Sound, Looked
    <3> QED
      BY <1>l, <2>1, <2>4, <2>5, <2>7, <3>1, AnswerStays
  <2>8. ~Looked("idle", NoReq)
    BY BlankNone DEF Looked
  <2>9. \A q \in Procs \ {p} : risk[q] \subseteq risk'[q]
    BY <1>25 DEF Die
  <2>10. Answers'
    BY <2>1, <2>7, <2>8, <2>9, AnswersGoOn DEF Finish
  (* What its tabs have not heard of, or not marked, they are in doubt of.  *)
  <2>11. ASSUME NEW s \in Tabs, NEW d \in Convs, d \notin off'[s]
         PROVE  /\ d \notin off[s]
                /\ \A n : Secret(d, n)' <=> Secret(d, n)
                /\ \A n : Marking(s, d, n)' <=> Marking(s, d, n)
    <3>1. CASE Owes(p)
      <4>1. Doubt(Tabs, c)
        BY <1>25, <2>0, <3>1 DEF Die, Owes
      <4>2. d # c /\ d \notin off[s]
        BY <2>11, <4>1 DEF Doubt
      <4>3. \A n : ~Tells(pc[p], req[p], d, n) /\ ~Marks(pc[p], req[p], s, d, n)
        BY <2>0, <4>2 DEF Tells, Marks
      <4> QED
        BY <2>2, <2>3, <4>2, <4>3 DEF Goes
    <3>2. CASE pc[p] = "mark"
      <4>1. Doubt({t}, c)
        BY <1>25, <2>0, <3>2 DEF Die, Owes
      <4>2. ~(s = t /\ d = c) /\ d \notin off[s]
        BY <2>11, <4>1 DEF Doubt
      <4>3. \A n : ~Tells(pc[p], req[p], d, n) /\ ~Marks(pc[p], req[p], s, d, n)
        BY <2>0, <3>2, <4>2 DEF Tells, Marks
      <4> QED
        BY <2>2, <2>3, <4>2, <4>3 DEF Goes
    <3>3. CASE ~Owes(p) /\ pc[p] # "mark"
      <4>1. off' = off
        BY <1>25, <3>3 DEF Die
      <4>2. \A n : ~Tells(pc[p], req[p], d, n) /\ ~Marks(pc[p], req[p], s, d, n)
        BY <3>3 DEF Tells, Marks, Owes
      <4> QED
        BY <2>2, <2>3, <2>11, <4>1, <4>2 DEF Goes
    <3> QED
      BY <3>1, <3>2, <3>3
  <2>12. Badges'
    <3>1. ASSUME NEW s \in Tabs, NEW d \in Convs, d \notin off'[s]
          PROVE  BadgeRight(s, d)' /\ News(s, d)'
      <4>1. BadgeRight(s, d) /\ News(s, d)
        BY <2>11, <3>1 DEF BadgeInv, Badges
      <4> QED
        BY <1>l, <2>1, <2>5, <2>11, <3>1, <4>1, BadgeStays
    <3> QED
      BY <3>1 DEF Badges
  <2> QED
    BY <1>n, <2>6, <2>10, <2>12 DEF BadgeInv
(* message:send, message:delete and the server's own messages.              *)
<1>22. ASSUME NEW p \in Procs, Store(p) PROVE BadgeInv'
  <2>0. PICK r, c, u, m, e : /\ r = req[p] /\ c = r.conv /\ u = r.user
                             /\ m = Len(log[c]) + 1 /\ e = Entry(u, r.kind = "note")
    OBVIOUS
  <2>1. /\ pc[p] = "store" /\ r.kind \in {"send", "note", "delete"} /\ c \in Convs
        /\ r.kind \in {"send", "note"} => u \in Users
        /\ pc' = [pc EXCEPT ![p] = "announce"] /\ UNCHANGED <<key, tabVars>>
    BY <1>22, <1>c, <2>0 DEF Store, Fit, Carries
  <2>2. \A s \in Tabs : Steps(s)
    BY <2>1 DEF Steps
  <2>3. CASE r.kind = "delete"
    <3>1. /\ log' = [log EXCEPT ![c][r.n].gone = TRUE] /\ UNCHANGED cursor
          /\ req' = [req EXCEPT ![p] = r]
          /\ Doubt(Tabs, c) /\ Overtake(p, c)
      BY <1>22, <2>0, <2>3 DEF Store
    <3>2. /\ \A d \in Convs : d # c => log'[d] = log[d]
          /\ \A d \in Convs : Len(log'[d]) = Len(log[d])
      <4> DEFINE k == [log[c] EXCEPT ![r.n].gone = TRUE]
      <4>1. log' = [log EXCEPT ![c] = k]
        BY <3>1
      <4>2. k \in Seq(Entries) /\ DOMAIN k = DOMAIN log[c]
        BY <1>l, <2>1, LogForgets
      <4>3. Len(k) = Len(log[c])
        BY <1>l, <2>1, <4>2
      <4> HIDE DEF k
      <4> QED
        BY <1>t, <2>1, <4>1, <4>3 DEF Logs
    <3>3. Goes(p, "announce", r)
      BY <1>n, <2>1, <3>1, OneGoes
    <3>4. /\ \A d, n : Secret(d, n)' <=> Secret(d, n)
          /\ \A s, d, n : Marking(s, d, n)' <=> Marking(s, d, n)
          /\ \A d : Unmarked(d)' => Unmarked(d)
      <4>1. \A s, d, n : /\ ~Tells(pc[p], req[p], d, n) /\ ~Tells("announce", r, d, n)
                         /\ ~Marks(pc[p], req[p], s, d, n) /\ ~Marks("announce", r, s, d, n)
        BY <2>1, <2>3 DEF Tells, Marks
      <4> QED
        BY <3>3, <4>1 DEF Goes
    <3>5. Badges'
      <4> SUFFICES ASSUME NEW s \in Tabs, NEW d \in Convs, d \notin off'[s]
                   PROVE  BadgeRight(s, d)' /\ News(s, d)'
        BY DEF Badges
      <4>1. d # c /\ d \notin off[s]
        BY <3>1 DEF Doubt
      <4>2. BadgeRight(s, d) /\ News(s, d)
        BY <4>1 DEF BadgeInv, Badges
      <4> QED
        BY <1>l, <2>1, <2>2, <3>1, <3>2, <3>4, <4>1, <4>2, BadgeStays
    <3>6. Histories'
      <4>1. ASSUME NEW s \in Tabs, NEW d \in Convs PROVE Early(s, d)'
        BY <2>1, <3>2, <3>4, EarlyStays DEF BadgeInv, Histories
      <4> QED
        BY <4>1 DEF Histories
    <3>7. \A q \in Procs : risk'[q] = IF q # p /\ req[q].kind \in {"open", "list"}
                                      THEN risk[q] \cup {c} ELSE risk[q]
      BY <1>n, <2>1, <3>1, DoubtsGrow
    <3>8. ASSUME NEW st, NEW rr, NEW d \in Convs, NEW q \in Procs, q # p, st = pc[q], rr = req[q],
                 d \notin risk'[q], Looked(st, rr), AnswerRight(st, rr, d)
          PROVE  AnswerRight(st, rr, d)'
      <4>1. rr.kind \in {"open", "list"}
        BY <3>8 DEF Looked
      <4>2. d # c
        BY <3>7, <3>8, <4>1
      <4>3. rr.tab \in Tabs
        BY <1>c, <3>8, <4>1 DEF Sound
      <4> QED
        BY <1>l, <2>1, <2>2, <3>1, <3>2, <3>4, <3>8, <4>2, <4>3, AnswerStays
    <3>9. \A q \in Procs : risk[q] \subseteq risk'[q]
      BY <3>7
    <3>10. ~Looked("announce", r)
      BY <2>3 DEF Looked
    <3>11. Answers'
      BY <2>1, <3>1, <3>8, <3>9, <3>10, AnswersGoOn
    <3> QED
      BY <1>n, <3>5, <3>6, <3>11 DEF BadgeInv
  <2>4. CASE r.kind \in {"send", "note"}
    <3>0. PICK w, ts : w = Numbered(r, m) /\ ts = {t \in TabsOf(u) : Miscounts(t, c)}
      OBVIOUS
    <3>1. log' = [log EXCEPT ![c] = Append(log[c], e)]
      BY <1>22, <2>0, <2>4 DEF Store
    <3>2. /\ m \in Nat /\ Len(log'[c]) = m /\ log'[c][m] = e
          /\ \A n \in 1 .. Len(log[c]) : log'[c][n] = log[c][n]
          /\ \A d \in Convs : d # c => log'[d] = log[d]
          /\ e.by = u /\ e.system = (r.kind = "note") /\ ~e.gone
          /\ \A n : n \in 1 .. m <=> n \in 1 .. Len(log[c]) \/ n = m
      <4>1. e \in Entries /\ e.by = u /\ e.system = (r.kind = "note") /\ ~e.gone
        BY <2>0, <2>1, <2>4 DEF Entry, Entries
      <4>2. log'[c] = Append(log[c], e) /\ \A d \in Convs : d # c => log'[d] = log[d]
        BY <1>t, <2>1, <3>1 DEF Logs
      <4>3. log[c] \in Seq(Entries) /\ Len(log[c]) \in Nat
        BY <1>l, <2>1
      <4>4. /\ m \in Nat /\ Len(log'[c]) = m /\ log'[c][m] = e
            /\ \A n \in 1 .. Len(log[c]) : log'[c][n] = log[c][n]
        BY <2>0, <4>1, <4>2, <4>3
      <4>5. \A n : n \in 1 .. m <=> n \in 1 .. Len(log[c]) \/ n = m
        BY <2>0, <4>3
      <4> QED
        BY <4>1, <4>2, <4>4, <4>5
    <3>3. /\ cursor' = IF r.kind = "send" THEN [cursor EXCEPT ![c][u] = m] ELSE cursor
          /\ req' = [req EXCEPT ![p] = w]
          /\ r.kind = "send" => Doubt(ts, c) /\ Overtake(p, c)
          /\ r.kind = "note" => UNCHANGED doubts
      <4>1. Len(log'[r.conv]) = m
        BY <2>0, <3>2
      <4> QED
        BY <1>22, <2>0, <2>4, <3>0, <4>1 DEF Store, Numbered
    <3>4. w.kind = r.kind /\ w.conv = c /\ w.n = m
      BY <1>c, <2>0, <3>0, Untouched DEF SameAim
    <3>5. Goes(p, "announce", w)
      BY <1>n, <2>1, <3>3, OneGoes
    <3>6. ASSUME NEW d, NEW n PROVE Secret(d, n)' <=> Secret(d, n) \/ (d = c /\ n = m)
      <4>1. ~Tells(pc[p], req[p], d, n)
        BY <2>1 DEF Tells
      <4>2. Tells("announce", w, d, n) <=> d = c /\ n = m
        BY <2>4, <3>4 DEF Tells
      <4> QED
        BY <3>5, <4>1, <4>2 DEF Goes
    <3>7. /\ \A s, d, n : Marking(s, d, n)' <=> Marking(s, d, n)
          /\ \A d : Unmarked(d)' => Unmarked(d)
      <4>1. \A s, d, n : ~Marks(pc[p], req[p], s, d, n) /\ ~Marks("announce", w, s, d, n)
        BY <2>1 DEF Marks
      <4> QED
        BY <3>5, <4>1 DEF Goes
    (* Nobody has anything of the message that is stored.                   *)
    <3>8. /\ \A s : ~Marking(s, c, m)
          /\ \A s \in Tabs : m \notin ToSet(hist[s][c]) /\ (at[s] = c => m > acked[s])
          /\ \A v \in Users : m > cursor[c][v]
      <4>1. ASSUME NEW q \in Procs, pc[q] = "mark", req[q].conv = c, m <= req[q].n PROVE FALSE
        <5>1. req[q].n \in 0 .. Len(log[c])
          BY <1>c, <4>1 DEF Fit, Carries
        <5> QED
          BY <1>l, <2>0, <2>1, <4>1, <5>1
      <4>2. \A s \in Tabs : m \notin ToSet(hist[s][c])
        <5>1. \A s \in Tabs : hist[s][c] \in Seq(1 .. Len(log[c]))
          BY <1>n, <2>1 DEF BaseInv, Shelves
        <5>2. m \notin 1 .. Len(log[c])
          BY <1>l, <2>0, <2>1
        <5> QED
          BY <5>1, <5>2 DEF ToSet
      <4>3. ASSUME NEW s \in Tabs, at[s] = c PROVE m > acked[s]
        <5>1. acked[s] \in Nat /\ acked[s] <= Len(log[c])
          BY <1>n, <2>1, <4>3 DEF BaseInv, Shelves
        <5> QED
          BY <1>l, <2>0, <2>1, <5>1
      <4>4. ASSUME NEW v \in Users PROVE m > cursor[c][v]
        <5>1. cursor[c][v] \in Nat /\ cursor[c][v] <= Len(log[c])
          BY <1>n, <2>1 DEF BaseInv, SeenInv, Tables, Cursors
        <5> QED
          BY <1>l, <2>0, <2>1, <5>1
      <4> QED
        BY <4>1, <4>2, <4>3, <4>4 DEF Marking
    <3>9. /\ \A s \in Tabs : off[s] \subseteq off'[s]
          /\ \A s \in Tabs : r.kind = "send" /\ c \notin off'[s] => s \notin ts
      <4>1. CASE Doubt(ts, c)
        BY <4>1 DEF Doubt
      <4>2. CASE r.kind = "note"
        BY <3>3, <4>2
      <4> QED
        BY <2>4, <3>3, <4>1, <4>2
    <3>10. /\ \A d \in Convs : d # c => cursor'[d] = cursor[d]
           /\ \A v \in Users : r.kind = "note" \/ v # u => cursor'[c][v] = cursor[c][v]
           /\ r.kind = "send" => cursor'[c][u] = m
      BY <1>t, <2>1, <2>4, <3>3 DEF Cursors
    <3>11. Badges'
      <4> SUFFICES ASSUME NEW s \in Tabs, NEW d \in Convs, d \notin off'[s]
                   PROVE  BadgeRight(s, d)' /\ News(s, d)'
        BY DEF Badges
      <4>0. BadgeRight(s, d) /\ News(s, d) /\ UserOf[s] \in Users
        BY <3>9, SignedInAssumption DEF BadgeInv, Badges
      <4>1. CASE d # c
        <5>1. \A n : Secret(d, n)' <=> Secret(d, n)
          BY <3>6, <4>1
        <5> QED
          BY <1>l, <2>1, <2>2, <3>2, <3>7, <3>10, <4>0, <4>1, <5>1, BadgeStays
      <4>2. CASE d = c
        <5>1. \A n \in 1 .. Len(log[c]) : n # m /\ (Secret(c, n)' => Secret(c, n))
          BY <1>l, <2>0, <2>1, <3>6
        <5>2. /\ Len(log[c]) \in Nat /\ Len(log'[c]) \in Nat /\ Len(log[c]) <= Len(log'[c])
          BY <1>l, <2>0, <2>1, <3>2
        <5>3. CASE r.kind = "note" \/ UserOf[s] # u
          <6>1. cursor'[c][UserOf[s]] = cursor[c][UserOf[s]]
            BY <3>10, <4>0, <5>3
          <6>2. \A n : n \in Unheard(s, c)' <=> n \in Unheard(s, c)
            <7>1. m \notin Unheard(s, c)' /\ m \notin Unheard(s, c)
              <8>1. m \notin 1 .. Len(log[c])
                BY <5>1
              <8> QED
                BY <3>6, <8>1 DEF Unheard
            <7>2. ASSUME NEW n, n # m PROVE n \in Unheard(s, c)' <=> n \in Unheard(s, c)
              BY <3>2, <3>6, <3>7, <6>1, <7>2 DEF Unheard, CountsAsUnread
            <7> QED
              BY <7>1, <7>2
          <6>3. Unheard(s, c)' = Unheard(s, c)
            BY <6>2 DEF Unheard
          <6>4. BadgeRight(s, c)'
            BY <2>1, <4>0, <4>2, <5>1, <5>2, <6>3, BadgeKept
          <6>5. News(s, c)'
            <7> SUFFICES ASSUME NEW n \in 1 .. m, Secret(c, n)'
                         PROVE  /\ at[s] = c => n > acked[s]
                                /\ ~log'[c][n].system /\ log'[c][n].by # UserOf[s] =>
                                     /\ ~log'[c][n].gone /\ n > cursor'[c][UserOf[s]]
                                     /\ ~Marking(s, c, n)'
              BY <2>1, <3>2 DEF News
            <7>1. CASE n = m
              BY <3>2, <3>7, <3>8, <4>0, <6>1, <7>1
            <7>2. CASE n # m
              BY <3>2, <3>6, <3>7, <4>0, <4>2, <6>1, <7>2 DEF News
            <7> QED
              BY <7>1, <7>2
          <6> QED
            BY <4>2, <6>4, <6>5
        <5>4. CASE r.kind = "send" /\ UserOf[s] = u
          <6>1. badge[s][c] \in {0, None} /\ ~Untold(c)
            BY <3>0, <3>9, <4>2, <5>4 DEF TabsOf, Miscounts
          <6>2. \A n : Secret(c, n)' => n = m
            BY <3>6, <6>1 DEF Untold, UntoldBy, Owes, Secret, Telling
          <6>3. Unheard(s, c)' = {}
            <7>1. \A n \in 1 .. m : n <= cursor'[c][u]
              BY <3>2, <3>10, <5>4
            <7> QED
              BY <3>2, <5>4, <7>1 DEF Unheard
          <6>4. BadgeRight(s, c)'
            BY <2>1, <6>1, <6>3, FS_EmptySet DEF BadgeRight
          <6>5. News(s, c)'
            BY <2>1, <3>2, <3>8, <5>4, <6>2 DEF News
          <6> QED
            BY <4>2, <6>4, <6>5
        <5> QED
          BY <2>4, <5>3, <5>4
      <4> QED
        BY <4>1, <4>2
    <3>12. Histories'
      <4> SUFFICES ASSUME NEW s \in Tabs, NEW d \in Convs PROVE Early(s, d)'
        BY DEF Histories
      <4>1. Early(s, d)
        BY DEF BadgeInv, Histories
      <4>2. CASE d # c
        <5>1. \A n : Secret(d, n)' => Secret(d, n)
          BY <3>6, <4>2
        <5> QED
          BY <2>1, <3>2, <4>1, <4>2, <5>1, EarlyStays
      <4>3. CASE d = c
        <5> SUFFICES ASSUME NEW n \in 1 .. m, Secret(c, n)', n \in ToSet(hist[s][c])
                     PROVE  1 .. n \subseteq ToSet(hist[s][c]) /\ hist[s][c][1] >= n
          BY <2>1, <3>2, <4>3 DEF Early
        <5>1. n # m
          BY <3>8
        <5> QED
          BY <3>2, <3>6, <4>1, <4>3, <5>1 DEF Early
      <4> QED
        BY <4>2, <4>3
    <3>13. /\ \A q \in Procs : risk[q] \subseteq risk'[q]
           /\ r.kind = "send" => \A q \in Procs : q # p /\ req[q].kind \in {"open", "list"} =>
                                   c \in risk'[q]
      <4>1. CASE r.kind = "send"
        <5>1. \A q \in Procs : risk'[q] = IF q # p /\ req[q].kind \in {"open", "list"}
                                          THEN risk[q] \cup {c} ELSE risk[q]
          BY <1>n, <2>1, <3>3, <4>1, DoubtsGrow
        <5> QED
          BY <5>1
      <4>2. CASE r.kind = "note"
        BY <3>3, <4>2
      <4> QED
        BY <2>4, <4>1, <4>2
    <3>14. ASSUME NEW st, NEW rr, NEW d \in Convs, NEW q \in Procs, q # p, st = pc[q], rr = req[q],
                  d \notin risk'[q], Looked(st, rr), AnswerRight(st, rr, d)
           PROVE  AnswerRight(st, rr, d)'
      <4>1. rr.kind \in {"open", "list"} /\ rr.tab \in Tabs /\ rr.user \in Users
        BY <1>c, <3>14, SignedInAssumption DEF Sound, Looked
      <4>2. CASE d # c
        <5>1. \A n : Secret(d, n)' => Secret(d, n)
          BY <3>6, <4>2
        <5> QED
          BY <1>l, <2>1, <2>2, <3>2, <3>7, <3>10, <3>14, <4>1, <4>2, <5>1, AnswerStays
      (* A system message does not count.                                   *)
      <4>3. CASE d = c
        <5>1. r.kind = "note" /\ cursor' = cursor /\ e.system
          BY <2>4, <3>2, <3>3, <3>13, <3>14, <4>1, <4>3
        <5>2. Unread(c, rr.user)' = Unread(c, rr.user)
          <6> DEFINE from == cursor[c][rr.user]
          <6>1. from \in Nat /\ Len(log[c]) \in Nat
            BY <1>t, <1>l, <2>1, <4>1 DEF Cursors
          <6> HIDE DEF from
          <6>2. \A n : n \in from + 1 .. m /\ n # m <=> n \in from + 1 .. Len(log[c])
            BY <2>0, <6>1
          <6>3. \A n \in from + 1 .. Len(log[c]) : n \in 1 .. Len(log[c])
            BY <6>1
          <6>4. \A n : n \in from + 1 .. m /\ CountsAsUnread(log'[c][n], rr.user) <=>
                       n \in from + 1 .. Len(log[c]) /\ CountsAsUnread(log[c][n], rr.user)
            BY <3>2, <5>1, <6>2, <6>3 DEF CountsAsUnread
          <6>5. {n \in from + 1 .. m : CountsAsUnread(log'[c][n], rr.user)} =
                {n \in from + 1 .. Len(log[c]) : CountsAsUnread(log[c][n], rr.user)}
            BY <6>4
          <6>6. Unread(c, rr.user) =
                Cardinality({n \in from + 1 .. Len(log[c]) : CountsAsUnread(log[c][n], rr.user)})
            BY DEF Unread, UnreadFrom, from
          <6>7. Unread(c, rr.user)' =
                Cardinality({n \in from + 1 .. m : CountsAsUnread(log'[c][n], rr.user)})
            BY <3>2, <5>1 DEF Unread, UnreadFrom, from, CountsAsUnread
          <6> QED
            BY <6>5, <6>6, <6>7
        <5>3. ASSUME NEW n \in 1 .. m, Secret(c, n)'
              PROVE  log'[c][n].system /\ (at[rr.tab] = c => n > acked[rr.tab])
          <6>1. CASE n = m
            BY <3>2, <3>8, <4>1, <5>1, <6>1
          <6>2. CASE n # m
            BY <3>2, <3>6, <3>14, <4>3, <5>3, <6>2 DEF AnswerRight
          <6> QED
            BY <6>1, <6>2
        <5> QED
          BY <2>1, <3>2, <3>7, <3>14, <4>3, <5>1, <5>2, <5>3 DEF AnswerRight
      <4> QED
        BY <4>2, <4>3
    <3>15. ~Looked("announce", w)
      BY <2>4, <3>4 DEF Looked
    <3>16. Answers'
      BY <2>1, <3>3, <3>13, <3>14, <3>15, AnswersGoOn
    <3> QED
      BY <1>n, <3>11, <3>12, <3>16 DEF BadgeInv
  <2> QED
    BY <2>1, <2>3, <2>4
(* message:new, or a deletion, which changes no count.                      *)
<1>23. ASSUME NEW p \in Procs, AnnounceMessage(p) PROVE BadgeInv'
  <2>0. PICK r, c, n : r = req[p] /\ c = r.conv /\ n = r.n
    OBVIOUS
  <2>1. /\ pc[p] = "announce" /\ r.kind \in {"send", "note", "delete"} /\ c \in Convs
        /\ Finish(p) /\ UNCHANGED <<serverVars, at, paged, acked>>
    BY <1>23, <1>c, <2>0 DEF AnnounceMessage, Carries
  <2>2. ~Looked("idle", NoReq)
    BY BlankNone DEF Looked
  <2>3. CASE r.kind = "delete"
    <3>1. UNCHANGED <<hist, badge, doubts>>
      BY <1>23, <2>0, <2>3 DEF AnnounceMessage
    <3>2. Plain(pc[p], req[p]) /\ Plain("idle", NoReq)
      BY <2>0, <2>1, <2>3 DEF Plain
    <3> QED
      BY <1>n, <2>1, <2>2, <3>1, <3>2, QuietStep DEF Finish
  <2>4. CASE r.kind \in {"send", "note"}
    <3>0. PICK append, counted :
            /\ append = {t \in Tabs \ Deaf(c) : c \in paged[t] /\ ~Contains(hist[t][c], n)}
            /\ counted = {t \in Tabs \ Deaf(c) : badge[t][c] # None /\ Counts(t, c, log[c][n])}
      OBVIOUS
    <3>1. /\ hist' = [t \in Tabs |-> IF t \in append THEN [hist[t] EXCEPT ![c] = <<n>> \o hist[t][c]]
                                     ELSE hist[t]]
          /\ badge' = [t \in Tabs |-> IF t \in counted THEN [badge[t] EXCEPT ![c] = badge[t][c] + 1]
                                      ELSE badge[t]]
      BY <1>23, <2>0, <2>4, <3>0 DEF AnnounceMessage
    <3>d. PICK ts : ts = Deaf(c)
      OBVIOUS
    <3>2. Doubt(ts, c) /\ Overtake(p, c)
      <4>1. Doubt(Deaf(c), c) /\ Overtake(p, c)
        BY <1>23, <2>0, <2>4 DEF AnnounceMessage
      <4> QED
        BY <3>d, <4>1 DEF Doubt
    <3>3. Goes(p, "idle", NoReq)
      BY <1>n, <2>1, OneGoes DEF Finish
    <3>4. /\ \A d, m : Secret(d, m)' => Secret(d, m)
          /\ \A d, m : Secret(d, m) => Secret(d, m)' \/ (d = c /\ m = n)
          /\ \A s, d, m : Marking(s, d, m)' <=> Marking(s, d, m)
          /\ \A d : Unmarked(d)' => Unmarked(d)
      <4>1. /\ \A s, d, m : ~Tells("idle", NoReq, d, m) /\ ~Marks("idle", NoReq, s, d, m)
            /\ \A s, d, m : ~Marks(pc[p], req[p], s, d, m)
            /\ \A d, m : Tells(pc[p], req[p], d, m) => d = c /\ m = n
        BY <2>0, <2>1 DEF Tells, Marks
      <4> QED
        BY <3>3, <4>1 DEF Goes
    (* p alone announces this message. *)
    <3>5. Secret(c, n) /\ ~Secret(c, n)' /\ n \in 1 .. Len(log[c])
      <4>1. Telling(p) /\ n \in 1 .. Len(log[c])
        BY <1>c, <2>0, <2>1, <2>4 DEF Telling, Sound
      <4>2. ASSUME NEW q \in Procs, Telling(q)', req'[q].conv = c, req'[q].n = n PROVE FALSE
        <5>1. pc'[p] = "idle"
          BY <1>n, <2>1 DEF Finish, BaseInv, SeenInv, KeyInv
        <5>2. q # p
          BY <4>2, <5>1 DEF Telling
        <5>3. pc'[q] = pc[q] /\ req'[q] = req[q]
          BY <1>n, <2>1, <5>2 DEF Finish, BaseInv, SeenInv, KeyInv
        <5>4. Telling(q)
          BY <4>2, <5>3 DEF Telling
        <5> QED
          BY <1>n, <2>0, <4>1, <4>2, <5>2, <5>3, <5>4 DEF BaseInv, Requests, OneTeller
      <4> QED
        BY <2>0, <4>1, <4>2 DEF Secret
    <3>6. n \in Nat /\ Len(log[c]) \in Nat
      BY <1>l, <2>1, <3>5
    <3>7. \A s \in Tabs : Steps(s)
      BY <2>1 DEF Steps
    <3>8. /\ \A s \in Tabs : s \in append =>
               hist'[s][c] = <<n>> \o hist[s][c] /\ c \in paged[s] /\ n \notin ToSet(hist[s][c])
          /\ \A s \in Tabs, d \in Convs : d # c \/ s \notin append => hist'[s][d] = hist[s][d]
      <4>1. /\ DOMAIN hist = Tabs /\ \A s \in Tabs : DOMAIN hist[s] = Convs
        BY <1>n DEF BaseInv, SeenInv, Pages
      <4>2. \A s \in Tabs : s \in append => c \in paged[s] /\ n \notin ToSet(hist[s][c])
        BY <3>0 DEF Contains, ToSet
      <4>3. ASSUME NEW s \in Tabs, s \in append PROVE hist'[s][c] = <<n>> \o hist[s][c]
        BY <2>1, <3>1, <4>1, <4>3
      <4>4. ASSUME NEW s \in Tabs, NEW d \in Convs, d # c \/ s \notin append
            PROVE  hist'[s][d] = hist[s][d]
        BY <2>1, <3>1, <4>1, <4>4
      <4> QED
        BY <4>2, <4>3, <4>4
    <3>9. /\ \A s \in Tabs : s \in counted => badge'[s][c] = badge[s][c] + 1
          /\ \A s \in Tabs, d \in Convs : d # c \/ s \notin counted => badge'[s][d] = badge[s][d]
      BY <1>t, <2>1, <3>1
    <3>10. \A s \in Tabs : off[s] \subseteq off'[s] /\ (s \in ts => c \in off'[s])
      BY <3>2 DEF Doubt
    (* A history that is prepended to had nothing newer.                    *)
    <3>11. ASSUME NEW s \in Tabs, s \in append
           PROVE  /\ hist'[s][c][1] = n /\ n \in ToSet(hist'[s][c])
                  /\ ToSet(hist[s][c]) \subseteq ToSet(hist'[s][c])
                  /\ ToSet(hist'[s][c]) \subseteq ToSet(hist[s][c]) \cup {n}
      <4> DEFINE h == hist[s][c]
                 g == hist'[s][c]
      <4>1. h \in Seq(1 .. Len(log[c])) /\ g = <<n>> \o h
        BY <1>n, <2>1, <3>8, <3>11 DEF BaseInv, Shelves
      <4> HIDE DEF h, g
      <4>2. /\ Len(h) \in Nat /\ DOMAIN h = 1 .. Len(h) /\ DOMAIN g = 1 .. Len(h) + 1
            /\ g[1] = n /\ \A i \in 1 .. Len(h) : g[i + 1] = h[i]
        BY <3>5, <4>1
      <4>3. n \in ToSet(g)
        BY <4>2 DEF ToSet
      <4>4. ASSUME NEW i \in 1 .. Len(h) PROVE h[i] \in ToSet(g)
        <5>1. i + 1 \in DOMAIN g /\ g[i + 1] = h[i]
          BY <4>2
        <5> QED
          BY <5>1 DEF ToSet
      <4>5. ASSUME NEW j \in 1 .. Len(h) + 1 PROVE g[j] \in ToSet(h) \cup {n}
        <5>1. CASE j = 1
          BY <4>2, <5>1
        <5>2. CASE j # 1
          <6>1. j - 1 \in 1 .. Len(h) /\ g[j] = h[j - 1]
            BY <4>2, <5>2
          <6> QED
            BY <4>2, <6>1 DEF ToSet
        <5> QED
          BY <5>1, <5>2
      <4>6. ToSet(h) \subseteq ToSet(g) /\ ToSet(g) \subseteq ToSet(h) \cup {n}
        BY <4>2, <4>4, <4>5 DEF ToSet
      <4> QED
        BY <4>2, <4>3, <4>6 DEF h, g
    <3>12. Histories'
      <4> SUFFICES ASSUME NEW s \in Tabs, NEW d \in Convs PROVE Early(s, d)'
        BY DEF Histories
      <4>1. Early(s, d)
        BY DEF BadgeInv, Histories
      <4>2. CASE d # c \/ s \notin append
        BY <2>1, <3>4, <3>8, <4>1, <4>2, EarlyStays
      <4>3. CASE d = c /\ s \in append
        <5> SUFFICES ASSUME NEW m \in 1 .. Len(log[c]), Secret(c, m)', m \in ToSet(hist'[s][c])
                     PROVE  1 .. m \subseteq ToSet(hist'[s][c]) /\ hist'[s][c][1] >= m
          BY <2>1, <4>3 DEF Early
        <5>1. m # n /\ Secret(c, m)
          BY <3>4, <3>5
        <5>2. m \in ToSet(hist[s][c])
          BY <3>11, <4>3, <5>1
        <5>3. 1 .. m \subseteq ToSet(hist[s][c])
          BY <4>1, <4>3, <5>1, <5>2 DEF Early
        <5>4. n >= m
          BY <3>5, <3>6, <3>8, <4>3, <5>3
        <5> QED
          BY <3>11, <4>3, <5>3, <5>4
      <4> QED
        BY <4>2, <4>3
    <3>13. Badges'
      <4> SUFFICES ASSUME NEW s \in Tabs, NEW d \in Convs, d \notin off'[s]
                   PROVE  BadgeRight(s, d)' /\ News(s, d)'
        BY DEF Badges
      <4>0. BadgeRight(s, d) /\ News(s, d)
        BY <3>10 DEF BadgeInv, Badges
      <4>1. CASE d # c
        <5>1. \A m : Secret(d, m)' <=> Secret(d, m)
          BY <3>4, <4>1
        <5> QED
          BY <1>l, <2>1, <3>4, <3>7, <3>8, <3>9, <4>0, <4>1, <5>1, BadgeStays
      <4>2. CASE d = c
        <5>1. s \in Tabs \ Deaf(c)
          BY <3>10, <3>d, <4>2
        <5>2. News(s, c)'
          BY <2>1, <3>4, <4>0, <4>2 DEF News
        <5>3. CASE at[s] = c
          <6>1. n > acked[s] /\ acked[s] \in Nat
            BY <1>t, <3>5, <4>0, <4>2, <5>3 DEF News
          <6>2. ASSUME c \in paged[s] PROVE n \in ToSet(hist'[s][c]) /\ hist'[s][c][1] # acked[s]
            <7>1. CASE s \in append
              BY <3>6, <3>11, <6>1, <7>1
            <7>2. CASE s \notin append
              <8>1. n \in ToSet(hist[s][c])
                BY <3>0, <5>1, <6>2, <7>2 DEF Contains, ToSet
              <8>2. hist[s][c][1] >= n
                BY <2>1, <3>5, <8>1 DEF BadgeInv, Histories, Early
              <8>3. hist[s][c][1] \in Nat
                <9>1. hist[s][c] \in Seq(1 .. Len(log[c]))
                  BY <1>n, <2>1 DEF BaseInv, Shelves
                <9>2. hist[s][c] # <<>>
                  BY <8>1 DEF ToSet
                <9> QED
                  BY <9>1, <9>2
              <8> QED
                BY <2>1, <3>6, <3>8, <6>1, <7>2, <8>1, <8>2, <8>3
            <7> QED
              BY <7>1, <7>2
          <6>3. Lagging(s, c)'
            BY <2>1, <3>5, <5>3, <6>1, <6>2 DEF Lagging
          <6> QED
            BY <4>2, <5>2, <6>3 DEF BadgeRight
        <5>4. CASE at[s] # c
          <6>1. ~Lagging(s, c)
            BY <5>4 DEF Lagging
          <6>2. CASE badge[s][c] = None
            <7>1. badge'[s][c] = None
              BY <2>1, <3>0, <3>9, <6>2
            <7> QED
              BY <4>2, <5>2, <7>1 DEF BadgeRight
          <6>3. CASE badge[s][c] # None /\ s \notin counted
            <7>1. ~CountsAsUnread(log[c][n], UserOf[s])
              BY <3>0, <5>1, <5>4, <6>3 DEF Counts, CountsAsUnread
            <7>2. \A m : m \in Unheard(s, c)' <=> m \in Unheard(s, c)
              BY <2>1, <3>4, <7>1 DEF Unheard, CountsAsUnread
            <7>3. Unheard(s, c)' = Unheard(s, c)
              BY <7>2 DEF Unheard
            <7>4. badge'[s][c] = Cardinality(Unheard(s, c)')
              BY <2>1, <3>9, <4>0, <4>2, <6>1, <6>3, <7>3 DEF BadgeRight
            <7> QED
              BY <4>2, <5>2, <7>4 DEF BadgeRight
          <6>4. CASE badge[s][c] # None /\ s \in counted
            <7>1. ~log[c][n].system /\ log[c][n].by # UserOf[s]
              BY <3>0, <6>4 DEF Counts
            <7>2. ~log[c][n].gone /\ n > cursor[c][UserOf[s]] /\ ~Marking(s, c, n)
              BY <3>5, <4>0, <4>2, <7>1 DEF News
            <7>3. cursor[c][UserOf[s]] \in Nat
              BY <1>t, <2>1, SignedInAssumption DEF Cursors
            <7>4. \A m : m \in Unheard(s, c)' <=> m \in Unheard(s, c) \/ m = n
              <8>1. n \in Unheard(s, c)'
                BY <2>1, <3>4, <3>5, <3>6, <7>1, <7>2, <7>3 DEF Unheard, CountsAsUnread
              <8>2. ASSUME NEW m, m # n PROVE m \in Unheard(s, c)' <=> m \in Unheard(s, c)
                BY <2>1, <3>4, <8>2 DEF Unheard, CountsAsUnread
              <8> QED
                BY <8>1, <8>2
            <7>5. Unheard(s, c)' = Unheard(s, c) \cup {n}
              BY <7>4 DEF Unheard
            <7>6. n \notin Unheard(s, c)
              BY <3>5 DEF Unheard
            <7>7. IsFiniteSet(Unheard(s, c))
              <8>1. 1 \in Int /\ Len(log[c]) \in Int
                BY <3>6
              <8>2. IsFiniteSet(1 .. Len(log[c]))
                BY <8>1, FS_Interval, Zenon
              <8>3. Unheard(s, c) \subseteq 1 .. Len(log[c])
                BY DEF Unheard
              <8> QED
                BY <8>2, <8>3, FS_Subset
            <7>8. Cardinality(Unheard(s, c)') = Cardinality(Unheard(s, c)) + 1
              BY <7>5, <7>6, <7>7, FS_AddElement
            <7>9. badge'[s][c] = Cardinality(Unheard(s, c)')
              BY <3>9, <4>0, <4>2, <6>1, <6>4, <7>8 DEF BadgeRight
            <7> QED
              BY <4>2, <5>2, <7>9 DEF BadgeRight
          <6> QED
            BY <6>2, <6>3, <6>4
        <5> QED
          BY <5>3, <5>4
      <4> QED
        BY <4>1, <4>2
    <3>14. \A q \in Procs : risk'[q] = IF q # p /\ req[q].kind \in {"open", "list"}
                                       THEN risk[q] \cup {c} ELSE risk[q]
      BY <1>n, <2>1, <3>2, DoubtsGrow
    <3>15. ASSUME NEW st, NEW rr, NEW d \in Convs, NEW q \in Procs, rr = req[q],
                  Looked(st, rr), AnswerRight(st, rr, d)
           PROVE  AnswerRight(st, rr, d)'
      <4>1. rr.tab \in Tabs
        BY <1>c, <3>15 DEF Sound, Looked
      <4> QED
        BY <1>l, <2>1, <3>4, <3>7, <3>15, <4>1, AnswerStays
    <3>16. \A q \in Procs : risk[q] \subseteq risk'[q]
      BY <3>14
    <3>17. Answers'
      BY <2>1, <2>2, <3>15, <3>16, AnswersGoOn DEF Finish
    <3> QED
      BY <1>n, <3>12, <3>13, <3>17 DEF BadgeInv
  <2> QED
    BY <2>1, <2>3, <2>4
<1> QED
  BY <1>1, <1>3, <1>4, <1>5, <1>6, <1>7, <1>8, <1>9, <1>10, <1>11, <1>12, <1>13, <1>14, <1>15,
     <1>16, <1>17, <1>18, <1>19, <1>20, <1>21, <1>22, <1>23, <1>24, <1>25, <1>27, <1>28
  DEF Next, Ask, Serve, Answer

LEMMA BadgesAlways == Spec => []BadgeInv
  BY InitBadges, StepBadges, PTL DEF Spec

(* The number on a list entry is what the server would count, when nothing  *)
(* is on its way and nothing of what the list may be wrong about happened:  *)
(* counting up for messages, setting to 0 for reading and loading the list  *)
(* while others write, read and delete come to the same.                    *)
THEOREM BadgesAreHonest == Spec => []BadgeIsHonest
<1>1. BadgeInv /\ TabsOnly => BadgeIsHonest
  <2> SUFFICES ASSUME BadgeInv, TabsOnly, NEW t \in loaded, NEW c \in Convs, Quiet(t, c),
                      c \notin off[t], badge[t][c] # None
               PROVE  badge[t][c] = Unread(c, UserOf[t])
    BY DEF BadgeIsHonest
  <2>1. t \in Tabs /\ UserOf[t] \in Users
    BY SignedInAssumption DEF TabsOnly
  <2>2. \A n : ~Secret(c, n) /\ ~Marking(t, c, n)
    BY DEF Quiet, Secret, Marking
  <2>3. ASSUME Lagging(t, c) PROVE FALSE
    <3>1. PICK n \in 1 .. Len(log[c]) :
            c \in paged[t] => n \in ToSet(hist[t][c]) /\ hist[t][c][1] # acked[t]
      BY <2>3 DEF Lagging
    <3>2. c \in paged[t] /\ (hist[t][c] = <<>> \/ acked[t] = hist[t][c][1])
      BY <2>3 DEF Lagging, Quiet, ReadAll, UpToDate
    <3>3. hist[t][c] # <<>>
      BY <3>1, <3>2 DEF ToSet
    <3> QED
      BY <3>1, <3>2, <3>3
  <2>4. badge[t][c] = Cardinality(Unheard(t, c))
    BY <2>1, <2>3 DEF BadgeInv, Badges, BadgeRight
  <2>5. Unheard(t, c) = {n \in 1 .. Len(log[c]) : /\ CountsAsUnread(log[c][n], UserOf[t])
                                                 /\ ~(n <= cursor[c][UserOf[t]])}
    BY <2>2 DEF Unheard
  <2> QED
    BY <2>1, <2>4, <2>5, UnreadIs DEF BadgeInv, ListInv
<1> QED
  BY <1>1, BadgesAlways, TabsAlways, PTL
=============================================================================
