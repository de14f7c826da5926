-------------------------- MODULE CallClientProofs --------------------------
(***************************************************************************)
(* Proofs about CallClient.  First one tab: what each handler makes of the *)
(* fields of a tab (the ...Fields lemmas), and that it keeps the refs of   *)
(* the tab fitting together (the Handled... lemmas).  Then all tabs and    *)
(* the server, action by action.  Then a call from its invitation on: the  *)
(* moves a tab makes (the ...Moves lemmas) and what they leave of a call   *)
(* that rings.  Last an answered call, from the answer until the two tabs  *)
(* in it are connected.                                                    *)
(***************************************************************************)
EXTENDS CallClient, TLAPS

-----------------------------------------------------------------------------
(* One tab. *)

(* Nothing is live or connected but the stream the tab holds and the        *)
(* connection it uses, which belong together.                               *)
OneMedium(x) ==
  /\ \A s \in Streams :
       /\ s # x.local => x.media[s].mic = "off"
       /\ s # x.peer => x.media[s] = [NoMedium EXCEPT !.mic = x.media[s].mic]
  /\ x.peer \in {None, x.local}
  /\ x.local # None => x.media[x.local].mic # "off"
  /\ x.muted => x.local # None /\ x.media[x.local].mic # "on"

(* What the refs say without a call. *)
NoCallNothing(x) ==
  /\ x.call = None =>
       /\ x.phase = "idle" /\ x.peer = None /\ x.pending = {}
       /\ ~x.here /\ ~x.outgoing
  /\ x.call # None => x.phase # "idle"
  /\ x.ring \in {None, x.call}
  /\ x.timers \subseteq {x.ring}
  /\ x.ring # None => x.outgoing
  /\ x.phase = "ringing" /\ ~x.here => x.local = None

(* A stream is there for a call, or for one asked for. *)
MediumAskedFor(x) ==
  /\ x.local # None =>
       x.call # None \/ \E k \in Jobs : x.jobs[k].at = "ack"
  /\ \A k \in Jobs : LET j == x.jobs[k] IN
       /\ j.at \in {"startMedia", "acceptMedia"} => x.local = None
       /\ j.at = "ack" => j.stream # None /\ x.local = j.stream /\ x.peer = None

Neat(x) == OneMedium(x) /\ NoCallNothing(x) /\ MediumAskedFor(x)

Sound(x) == ~Tangled(x) /\ Neat(x)

(* Nothing is live for the call shown, or will be.                           *)
Relinquished(x) ==
  /\ x.call # None => x.local = None
  /\ \A k \in Jobs : x.jobs[k].at # "acceptMedia"

TabsAreNeat ==
  \A t \in Tabs : "tangled" \notin trouble[t] => Sound(tab[t])

-----------------------------------------------------------------------------
(* What a tab shows is real.                                                 *)
CallsAreReal ==
  \A t \in Tabs :
    /\ "cut" \notin trouble[t] => t \in up
    /\ trouble[t] \cap {"cut", "untold"} = {} /\ tab[t].call # None
         => Party(tab[t].call, UserOf[t])

(* What a sign-out leaves behind: nothing before, and nothing that is live   *)
(* but what a start in flight will clear away.                               *)
NothingLeftBehind ==
  \A t \in Tabs : trouble[t] \cap {"tangled", "stranded"} = {} =>
    /\ t \notin left
    /\ t \notin mounted => Relinquished(tab[t])

-----------------------------------------------------------------------------
(* The fields of a tab, handler by handler. *)

Media == [Streams -> Medium]
JobTable == [Jobs -> Job]
Outs == SUBSET Requests
Phases == {"idle", "calling", "ringing", "active"}

TabSet == [call : Calls \cup {None}, here : BOOLEAN, ring : Calls \cup {None},
           local : Streams \cup {None}, peer : Streams \cup {None}, pending : SUBSET Tabs,
           phase : Phases, outgoing : BOOLEAN,
           muted : BOOLEAN, sees : BOOLEAN, timers : SUBSET Calls,
           media : Media, jobs : JobTable, out : Outs]

LEMMA TabIs == Tab = TabSet
  BY DEF Tab, TabSet, Media, JobTable, Outs, Phases

SameRefs(x, y) ==
  /\ y.call = x.call /\ y.here = x.here /\ y.ring = x.ring
  /\ y.local = x.local /\ y.peer = x.peer /\ y.pending = x.pending
SameState(x, y) ==
  /\ y.phase = x.phase /\ y.outgoing = x.outgoing
  /\ y.muted = x.muted /\ y.sees = x.sees
SameWork(x, y) == y.timers = x.timers /\ y.media = x.media /\ y.jobs = x.jobs

LEMMA TabFields ==
  ASSUME NEW x \in Tab
  PROVE  /\ x.call \in Calls \cup {None} /\ x.here \in BOOLEAN /\ x.ring \in Calls \cup {None}
         /\ x.local \in Streams \cup {None} /\ x.peer \in Streams \cup {None}
         /\ x.pending \subseteq Tabs /\ x.phase \in Phases
         /\ x.outgoing \in BOOLEAN /\ x.muted \in BOOLEAN /\ x.sees \in BOOLEAN
         /\ x.timers \subseteq Calls
         /\ x.media \in Media /\ x.jobs \in JobTable /\ x.out \subseteq Requests
  BY TabIs DEF TabSet, Outs

LEMMA MediaSet ==
  ASSUME NEW m \in Media, NEW s \in Streams
  PROVE  /\ \A v \in {"off", "on", "muted"} : [m EXCEPT ![s].mic = v] \in Media
         /\ \A v \in {"none", "new", "offered", "stable"} : [m EXCEPT ![s].pc = v] \in Media
         /\ \A v \in Tabs \cup {None} : [m EXCEPT ![s].remote = v] \in Media
         /\ \A v \in SUBSET Tabs : [m EXCEPT ![s].ice = v] \in Media
  BY DEF Media, Medium

LEMMA MediaFields ==
  ASSUME NEW m \in Media, NEW s \in Streams
  PROVE  /\ m[s] \in Medium
         /\ m[s].mic \in {"off", "on", "muted"} /\ m[s].pc \in {"none", "new", "offered", "stable"}
         /\ m[s].remote \in Tabs \cup {None} /\ m[s].ice \subseteq Tabs
  BY DEF Media, Medium

LEMMA JobsSet ==
  ASSUME NEW js \in JobTable, NEW k \in Jobs
  PROVE  /\ \A j \in Job : [js EXCEPT ![k] = j] \in JobTable
         /\ js[k] \in Job
  BY DEF JobTable

LEMMA JobFields ==
  ASSUME NEW j \in Job
  PROVE  /\ j.at \in {"free", "startMedia", "ack", "acceptMedia", "describe"}
         /\ j.to \in Users \cup {None} /\ j.call \in Calls \cup {None}
         /\ j.stream \in Streams \cup {None} /\ j.kind \in {"offer", "answer"}
         /\ j.from \in Tabs \cup {None}
  BY DEF Job

LEMMA FreeIsJob == Free \in Job /\ Free.at = "free" /\ Free.stream = None
  BY DEF Free, Job

LEMMA NoMediumIs ==
  /\ NoMedium \in Medium /\ NoMedium.mic = "off" /\ NoMedium.pc = "none"
  /\ NoMedium.remote = None /\ NoMedium.ice = {}
  BY DEF NoMedium, Medium

LEMMA SendFields ==
  ASSUME NEW x \in Tab, NEW rs \in Outs
  PROVE  /\ Send(x, rs) \in Tab
         /\ SameRefs(x, Send(x, rs)) /\ SameState(x, Send(x, rs)) /\ SameWork(x, Send(x, rs))
         /\ Send(x, rs).out = x.out \cup rs
<1>1. x \in TabSet /\ x.out \cup rs \in Outs
  BY TabIs DEF TabSet, Outs
<1>2. Send(x, rs) \in TabSet
  BY <1>1 DEF Send, TabSet
<1> QED
  BY <1>1, <1>2, TabIs DEF Send, TabSet, SameRefs, SameState, SameWork

LEMMA FreshTabFields ==
  /\ FreshTab \in Tab
  /\ FreshTab.call = None /\ FreshTab.here = FALSE /\ FreshTab.ring = None
  /\ FreshTab.local = None /\ FreshTab.peer = None /\ FreshTab.pending = {}
  /\ FreshTab.phase = "idle" /\ FreshTab.outgoing = FALSE
  /\ FreshTab.muted = FALSE /\ FreshTab.sees = FALSE /\ FreshTab.timers = {}
  /\ FreshTab.media = [s \in Streams |-> NoMedium]
  /\ FreshTab.jobs = [k \in Jobs |-> Free] /\ FreshTab.out = {}
<1> DEFINE m == [s \in Streams |-> NoMedium]
           js == [k \in Jobs |-> Free]
<1>1. m \in Media /\ js \in JobTable /\ {} \in Outs
  BY NoMediumIs, FreeIsJob DEF Media, JobTable, Outs
<1> HIDE DEF m, js
<1>2. FreshTab = [call |-> None, here |-> FALSE, ring |-> None, local |-> None,
             peer |-> None, pending |-> {}, phase |-> "idle", outgoing |-> FALSE,
             muted |-> FALSE, sees |-> FALSE, timers |-> {},
             media |-> m, jobs |-> js, out |-> {}]
  BY DEF FreshTab, Silence, m, js
<1>3. FreshTab \in TabSet
  BY <1>1, <1>2 DEF TabSet, Phases
<1> QED
  BY <1>2, <1>3, TabIs DEF m, js

LEMMA StoppedFields ==
  ASSUME NEW m \in Media, NEW s, NEW p
  PROVE  /\ Stopped(m, s, p) \in Media
         /\ \A i \in Streams :
              /\ Stopped(m, s, p)[i].mic = IF i = s THEN "off" ELSE m[i].mic
              /\ i = p => Stopped(m, s, p)[i] = [NoMedium EXCEPT !.mic = Stopped(m, s, p)[i].mic]
              /\ i # p => /\ Stopped(m, s, p)[i].pc = m[i].pc
                          /\ Stopped(m, s, p)[i].remote = m[i].remote
                          /\ Stopped(m, s, p)[i].ice = m[i].ice
<1>1. \A i \in Streams : m[i] \in Medium
  BY DEF Media
<1>2. \A i \in Streams :
        LET v == [(IF i = p THEN NoMedium ELSE m[i]) EXCEPT !.mic = IF i = s THEN "off" ELSE m[i].mic] IN
        /\ v \in Medium
        /\ v.mic = IF i = s THEN "off" ELSE m[i].mic
        /\ i = p => v = [NoMedium EXCEPT !.mic = v.mic]
        /\ i # p => v.pc = m[i].pc /\ v.remote = m[i].remote /\ v.ice = m[i].ice
  BY <1>1, NoMediumIs DEF Medium
<1> QED
  BY <1>2 DEF Stopped, Media

LEMMA TeardownFields ==
  ASSUME NEW x \in Tab
  PROVE  /\ Teardown(x) \in Tab
         /\ Teardown(x).call = None /\ Teardown(x).here = FALSE /\ Teardown(x).ring = None
         /\ Teardown(x).local = None /\ Teardown(x).peer = None /\ Teardown(x).pending = {}
         /\ Teardown(x).phase = "idle" /\ Teardown(x).outgoing = FALSE
         /\ Teardown(x).muted = FALSE /\ Teardown(x).sees = x.sees
         /\ Teardown(x).timers = x.timers \ {x.ring}
         /\ Teardown(x).media = Stopped(x.media, x.local, x.peer)
         /\ Teardown(x).jobs = x.jobs /\ Teardown(x).out = x.out
<1>1. /\ x \in TabSet
      /\ Stopped(x.media, x.local, x.peer) \in Media
      /\ x.timers \ {x.ring} \subseteq Calls
  BY TabIs, TabFields, StoppedFields DEF TabSet
<1>2. FreshTab \in TabSet
  BY TabIs, FreshTabFields
<1>3. Teardown(x) \in TabSet
  BY <1>1, <1>2 DEF Teardown, TabSet
<1> QED
  BY <1>2, <1>3, TabIs, FreshTabFields DEF Teardown, TabSet

LEMMA AcquireFields ==
  ASSUME NEW x \in Tab, NEW s \in Streams
  PROVE  /\ Acquire(x, s) \in Tab
         /\ Acquire(x, s).call = x.call /\ Acquire(x, s).here = x.here
         /\ Acquire(x, s).ring = x.ring /\ Acquire(x, s).local = s
         /\ Acquire(x, s).peer = x.peer /\ Acquire(x, s).pending = x.pending
         /\ SameState(x, Acquire(x, s))
         /\ Acquire(x, s).timers = x.timers
         /\ Acquire(x, s).media = [x.media EXCEPT ![s].mic = "on"]
         /\ Acquire(x, s).jobs = x.jobs /\ Acquire(x, s).out = x.out
<1>1. x \in TabSet /\ [x.media EXCEPT ![s].mic = "on"] \in Media
  BY TabIs, TabFields, MediaSet
<1>2. Acquire(x, s) \in TabSet
  BY <1>1 DEF Acquire, TabSet
<1> QED
  BY <1>1, <1>2, TabIs DEF Acquire, TabSet, SameState

LEMMA ConnectionFields ==
  ASSUME NEW x \in Tab, NEW s \in Streams
  PROVE  /\ Connection(x, s) \in Tab
         /\ Connection(x, s).call = x.call /\ Connection(x, s).here = x.here
         /\ Connection(x, s).ring = x.ring /\ Connection(x, s).local = x.local
         /\ Connection(x, s).peer = s /\ Connection(x, s).pending = x.pending
         /\ SameState(x, Connection(x, s))
         /\ Connection(x, s).timers = x.timers
         /\ Connection(x, s).media = [x.media EXCEPT ![s].pc = "new"]
         /\ Connection(x, s).jobs = x.jobs /\ Connection(x, s).out = x.out
<1>1. x \in TabSet /\ [x.media EXCEPT ![s].pc = "new"] \in Media
  BY TabIs, TabFields, MediaSet
<1>2. Connection(x, s) \in TabSet
  BY <1>1 DEF Connection, TabSet
<1> QED
  BY <1>1, <1>2, TabIs DEF Connection, TabSet, SameState

LEMMA ReturnFields ==
  ASSUME NEW x \in Tab, NEW k \in Jobs
  PROVE  /\ Return(x, k) \in Tab
         /\ SameRefs(x, Return(x, k)) /\ SameState(x, Return(x, k))
         /\ Return(x, k).timers = x.timers /\ Return(x, k).media = x.media
         /\ Return(x, k).jobs = [x.jobs EXCEPT ![k] = Free]
         /\ Return(x, k).out = x.out
<1>1. x \in TabSet /\ [x.jobs EXCEPT ![k] = Free] \in JobTable
  BY TabIs, TabFields, JobsSet, FreeIsJob
<1>2. Return(x, k) \in TabSet
  BY <1>1 DEF Return, TabSet
<1> QED
  BY <1>1, <1>2, TabIs DEF Return, TabSet, SameRefs, SameState

(* A new invocation takes a slot that no job and no invitation has.         *)
LEMMA SpawnFields ==
  ASSUME NEW x \in Tab, NEW j \in Job, Slots(x) # {}
  PROVE  \E k \in Slots(x) :
           /\ Spawn(x, j) \in Tab
           /\ SameRefs(x, Spawn(x, j)) /\ SameState(x, Spawn(x, j))
           /\ Spawn(x, j).timers = x.timers /\ Spawn(x, j).media = x.media
           /\ Spawn(x, j).jobs = [x.jobs EXCEPT ![k] = j]
           /\ Spawn(x, j).out = x.out
<1> DEFINE k == CHOOSE k \in Slots(x) : TRUE
<1>1. k \in Slots(x)
  OBVIOUS
<1>2. k \in Jobs
  BY <1>1 DEF Slots
<1>3. Spawn(x, j) = [x EXCEPT !.jobs[k] = j]
  BY DEF Spawn
<1> HIDE DEF k
<1>4. x \in TabSet /\ [x.jobs EXCEPT ![k] = j] \in JobTable
  BY <1>2, TabIs, TabFields, JobsSet
<1>5. Spawn(x, j) \in TabSet
  BY <1>3, <1>4 DEF TabSet
<1> QED
  BY <1>1, <1>3, <1>4, <1>5, TabIs DEF TabSet, SameRefs, SameState

(* The tab y that x becomes when its invitation is acknowledged. *)
Acked(x, k, c, y) ==
  /\ y \in Tab /\ y.call = c /\ y.here = x.here /\ y.ring = c /\ y.local = x.local
  /\ y.peer = x.jobs[k].stream /\ y.pending = x.pending
  /\ y.phase = "calling" /\ y.outgoing = TRUE /\ y.muted = FALSE /\ y.sees = x.sees
  /\ y.timers = x.timers \cup {c}
  /\ y.media = [x.media EXCEPT ![x.jobs[k].stream].pc = "new"]
  /\ y.jobs = [x.jobs EXCEPT ![k] = Free] /\ y.out = x.out

LEMMA OnAckFields ==
  ASSUME NEW x \in Tab, NEW k \in Jobs, NEW c \in Calls,
         x.jobs[k].at = "ack", x.jobs[k].stream \in Streams
  PROVE  Acked(x, k, c, OnAck(x, k, c))
<1> DEFINE s == x.jobs[k].stream
           w == [x EXCEPT !.call = c]
           y == Connection(w, s)
           z == Return(y, k)
<1>1. x \in TabSet
  BY TabIs
<1>2. /\ w \in TabSet /\ w.call = c /\ w.here = x.here /\ w.ring = x.ring
      /\ w.local = x.local /\ w.pending = x.pending /\ w.sees = x.sees
      /\ w.timers = x.timers /\ w.media = x.media /\ w.jobs = x.jobs /\ w.out = x.out
  BY <1>1 DEF TabSet
<1>3. OnAck(x, k, c) = [z EXCEPT !.phase = "calling", !.outgoing = TRUE, !.muted = FALSE,
                                !.ring = c, !.timers = @ \cup {c}]
  BY DEF OnAck
<1> HIDE DEF w
<1>4. /\ y \in Tab /\ y.call = c /\ y.here = x.here /\ y.ring = x.ring
      /\ y.local = x.local /\ y.peer = s /\ y.pending = x.pending /\ y.sees = x.sees
      /\ y.timers = x.timers /\ y.media = [x.media EXCEPT ![s].pc = "new"]
      /\ y.jobs = x.jobs /\ y.out = x.out
  BY <1>2, TabIs, ConnectionFields, SMTT(30) DEF SameState
<1> HIDE DEF y
<1>5. /\ z \in Tab /\ z.call = c /\ z.here = x.here /\ z.ring = x.ring
      /\ z.local = x.local /\ z.peer = s /\ z.pending = x.pending /\ z.sees = x.sees
      /\ z.timers = x.timers /\ z.media = [x.media EXCEPT ![s].pc = "new"]
      /\ z.jobs = [x.jobs EXCEPT ![k] = Free] /\ z.out = x.out
  <2>1. /\ z \in Tab /\ SameRefs(y, z) /\ SameState(y, z) /\ z.timers = y.timers
        /\ z.media = y.media /\ z.jobs = [y.jobs EXCEPT ![k] = Free] /\ z.out = y.out
    BY <1>4, ReturnFields
  <2> HIDE DEF z
  <2> QED
    BY <1>4, <2>1 DEF SameState, SameRefs
<1> HIDE DEF z, s
<1>6. z \in TabSet /\ z.timers \cup {c} \subseteq Calls
  BY <1>5, TabIs, TabFields
<1>7. OnAck(x, k, c) \in TabSet
  BY <1>3, <1>6 DEF TabSet, Phases
<1> QED
  BY <1>3, <1>5, <1>6, <1>7, TabIs DEF TabSet, s, Acked

LEMMA OnIncomingFields ==
  ASSUME NEW x \in Tab, NEW c \in Calls, x.call = None
  PROVE  /\ OnIncoming(x, c) \in Tab
         /\ OnIncoming(x, c).call = c /\ OnIncoming(x, c).here = x.here
         /\ OnIncoming(x, c).ring = x.ring /\ OnIncoming(x, c).local = x.local
         /\ OnIncoming(x, c).peer = x.peer /\ OnIncoming(x, c).pending = x.pending
         /\ OnIncoming(x, c).phase = "ringing" /\ OnIncoming(x, c).outgoing = FALSE
         /\ OnIncoming(x, c).muted = FALSE /\ OnIncoming(x, c).sees = x.sees
         /\ SameWork(x, OnIncoming(x, c)) /\ OnIncoming(x, c).out = x.out
<1>1. x \in TabSet
  BY TabIs
<1>2. OnIncoming(x, c) = [x EXCEPT !.call = c, !.phase = "ringing", !.outgoing = FALSE, !.muted = FALSE]
  BY DEF OnIncoming
<1>3. OnIncoming(x, c) \in TabSet
  BY <1>1, <1>2 DEF TabSet, Phases
<1> QED
  BY <1>1, <1>2, <1>3, TabIs DEF TabSet, SameWork

LEMMA AboutIs ==
  ASSUME NEW c \in Calls
  PROVE  /\ \A kind \in {"accept", "decline", "hangup", "offer", "answer", "ice"} :
              {About(kind, c)} \in Outs
         /\ \A kind : About(kind, c).kind = kind /\ About(kind, c).call = c
  BY DEF About, Outs, Requests

LEMMA InviteIs ==
  ASSUME NEW k \in Jobs, NEW v \in Users
  PROVE  /\ {Invite(k, v)} \in Outs
         /\ Invite(k, v).kind = "invite" /\ Invite(k, v).job = k /\ Invite(k, v).to = v
  BY DEF Invite, Outs, Requests

(* The tab y that x becomes when its call c is answered. *)
Pickup(x, c, y) ==
  /\ y \in Tab /\ y.call = c /\ y.here = x.here /\ y.ring = None /\ y.local = x.local
  /\ y.peer = x.peer /\ y.pending = x.pending
  /\ y.phase = "active" /\ y.outgoing = x.outgoing /\ y.muted = x.muted /\ y.sees = x.sees
  /\ y.timers = x.timers \ {x.ring} /\ y.jobs = x.jobs
  /\ y.media = IF x.sees /\ x.peer # None
               THEN [x.media EXCEPT ![x.peer].pc = "offered"] ELSE x.media
  /\ y.out = IF x.sees /\ x.peer # None
             THEN x.out \cup {About("offer", c), About("ice", c)} ELSE x.out

LEMMA OnAcceptedFields ==
  ASSUME NEW x \in Tab, NEW c \in Calls, x.call = c, x.here \/ x.sees
  PROVE  Pickup(x, c, OnAccepted(x, c))
<1> DEFINE y == [x EXCEPT !.phase = "active", !.ring = None, !.timers = @ \ {x.ring}]
           z == [y EXCEPT !.media[x.peer].pc = "offered"]
           rs == {About("offer", c), About("ice", c)}
<1>1. x \in TabSet /\ x.timers \ {x.ring} \subseteq Calls
  BY TabIs, TabFields
<1>2. OnAccepted(x, c) = IF x.sees /\ x.peer # None THEN Send(z, rs) ELSE y
  BY TabFields DEF OnAccepted
<1>3. /\ y \in TabSet /\ y.call = c /\ y.here = x.here /\ y.ring = None /\ y.local = x.local
      /\ y.peer = x.peer /\ y.pending = x.pending /\ y.phase = "active"
      /\ y.outgoing = x.outgoing /\ y.muted = x.muted /\ y.sees = x.sees
      /\ y.timers = x.timers \ {x.ring} /\ y.media = x.media /\ y.jobs = x.jobs /\ y.out = x.out
  BY <1>1 DEF TabSet, Phases
<1> HIDE DEF y
<1>4. CASE x.sees /\ x.peer # None
  <2>1. x.peer \in Streams /\ [y.media EXCEPT ![x.peer].pc = "offered"] \in Media
    BY <1>3, <1>4, TabFields, MediaSet
  <2>2. /\ z \in TabSet /\ z.call = c /\ z.here = x.here /\ z.ring = None /\ z.local = x.local
        /\ z.peer = x.peer /\ z.pending = x.pending /\ z.phase = "active"
        /\ z.outgoing = x.outgoing /\ z.muted = x.muted /\ z.sees = x.sees
        /\ z.timers = x.timers \ {x.ring} /\ z.jobs = x.jobs /\ z.out = x.out
        /\ z.media = [x.media EXCEPT ![x.peer].pc = "offered"]
    BY <1>3, <2>1 DEF TabSet
  <2> HIDE DEF z
  <2>3. rs \in Outs
    BY AboutIs DEF Outs
  <2> HIDE DEF rs
  <2>4. z \in Tab
    BY <2>2, TabIs
  <2>5. /\ Send(z, rs) \in Tab
        /\ SameRefs(z, Send(z, rs)) /\ SameState(z, Send(z, rs)) /\ SameWork(z, Send(z, rs))
        /\ Send(z, rs).out = z.out \cup rs
    BY <2>3, <2>4, SendFields
  <2> QED
    BY <1>2, <1>4, <2>2, <2>5 DEF rs, SameRefs, SameState, SameWork, Pickup
<1>5. CASE ~(x.sees /\ x.peer # None)
  BY <1>2, <1>3, <1>5, TabIs DEF Pickup
<1> QED
  BY <1>4, <1>5

(* The tab y that x becomes on a candidate: it waits, or is added to the     *)
(* connection.                                                               *)
Iced(x, from, y) ==
  /\ y \in Tab /\ y.call = x.call /\ y.here = x.here /\ y.ring = x.ring /\ y.local = x.local
  /\ y.peer = x.peer /\ SameState(x, y) /\ y.timers = x.timers /\ y.jobs = x.jobs
  /\ y.out = x.out
  /\ IF x.peer = None \/ x.media[x.peer].remote = None
     THEN y.pending = x.pending \cup {from} /\ y.media = x.media
     ELSE /\ y.pending = x.pending
          /\ y.media = [x.media EXCEPT ![x.peer].ice = @ \cup {from}]

LEMMA OnIceFields ==
  ASSUME NEW x \in Tab, NEW c \in Calls, NEW from \in Tabs, x.call = c
  PROVE  Iced(x, from, OnIce(x, c, from))
<1>1. x \in TabSet
  BY TabIs
<1>2. CASE x.peer = None \/ x.media[x.peer].remote = None
  <2>1. OnIce(x, c, from) = [x EXCEPT !.pending = @ \cup {from}] /\ x.pending \cup {from} \subseteq Tabs
    BY <1>2, TabFields DEF OnIce
  <2>2. OnIce(x, c, from) \in TabSet
    BY <1>1, <2>1 DEF TabSet
  <2> QED
    BY <1>1, <1>2, <2>1, <2>2, TabIs DEF TabSet, SameState, Iced
<1>3. CASE x.peer # None /\ x.media[x.peer].remote # None
  <2>1. x.peer \in Streams /\ x.media \in Media
    BY <1>3, TabFields
  <2>2. x.media[x.peer].ice \cup {from} \subseteq Tabs
    BY <2>1, MediaFields
  <2>3. [x.media EXCEPT ![x.peer].ice = x.media[x.peer].ice \cup {from}] \in Media
    BY <2>1, <2>2, MediaSet
  <2> DEFINE m == [x.media EXCEPT ![x.peer].ice = x.media[x.peer].ice \cup {from}]
  <2>4. OnIce(x, c, from) = [x EXCEPT !.media = m]
    BY <1>1, <1>3, <2>1 DEF OnIce, TabSet
  <2>5. m = [x.media EXCEPT ![x.peer].ice = @ \cup {from}]
    BY <2>1 DEF Media, Medium
  <2> HIDE DEF m
  <2>6. m \in Media
    BY <2>3 DEF m
  <2>7. OnIce(x, c, from) \in TabSet
    BY <1>1, <2>4, <2>6 DEF TabSet
  <2> QED
    BY <1>1, <1>3, <2>4, <2>5, <2>7, TabIs DEF TabSet, SameState, Iced
<1> QED
  BY <1>2, <1>3

LEMMA DescribedFields ==
  ASSUME NEW x \in Tab, NEW s \in Streams, NEW j \in Job
  PROVE  /\ Described(x, s, j) \in Tab
         /\ SameRefs(x, Described(x, s, j)) /\ SameState(x, Described(x, s, j))
         /\ Described(x, s, j).timers = x.timers
         /\ Described(x, s, j).jobs = x.jobs /\ Described(x, s, j).out = x.out
         /\ Described(x, s, j).media =
              [x.media EXCEPT ![s].remote = j.from, ![s].pc = "stable"]
<1> DEFINE m == [x.media EXCEPT ![s].remote = j.from, ![s].pc = "stable"]
<1>1. x \in TabSet /\ x.media \in Media /\ j.from \in Tabs \cup {None}
  BY TabIs, TabFields, JobFields
<1>2. [x.media EXCEPT ![s].remote = j.from] \in Media
  BY <1>1, MediaSet
<1>3. m \in Media
  BY <1>2, MediaSet
<1>4. Described(x, s, j) = [x EXCEPT !.media = m]
  BY <1>1 DEF Described, TabSet
<1> HIDE DEF m
<1>5. Described(x, s, j) \in TabSet
  BY <1>1, <1>3, <1>4 DEF TabSet
<1> QED
  BY <1>1, <1>4, <1>5, TabIs DEF TabSet, SameRefs, SameState, m

LEMMA FlushedFields ==
  ASSUME NEW x \in Tab, x.peer # None
  PROVE  /\ Flushed(x) \in Tab
         /\ Flushed(x).call = x.call /\ Flushed(x).here = x.here /\ Flushed(x).ring = x.ring
         /\ Flushed(x).local = x.local /\ Flushed(x).peer = x.peer
         /\ Flushed(x).pending = {} /\ SameState(x, Flushed(x))
         /\ Flushed(x).timers = x.timers
         /\ Flushed(x).jobs = x.jobs /\ Flushed(x).out = x.out
         /\ Flushed(x).media = IF x.media[x.peer].remote = None THEN x.media
                               ELSE [x.media EXCEPT ![x.peer].ice = @ \cup x.pending]
<1> DEFINE m == IF x.media[x.peer].remote = None THEN x.media
                ELSE [x.media EXCEPT ![x.peer].ice = x.media[x.peer].ice \cup x.pending]
<1>1. x \in TabSet /\ x.media \in Media /\ x.peer \in Streams /\ x.pending \subseteq Tabs
  BY TabIs, TabFields
<1>2. x.media[x.peer].ice \cup x.pending \subseteq Tabs
  BY <1>1, MediaFields
<1>3. m \in Media
  BY <1>1, <1>2, MediaSet
<1>4. m = IF x.media[x.peer].remote = None THEN x.media
          ELSE [x.media EXCEPT ![x.peer].ice = @ \cup x.pending]
  BY <1>1 DEF Media, Medium
<1>5. Flushed(x) = [x EXCEPT !.pending = {}, !.media = m]
  BY <1>1 DEF Flushed, TabSet, Media, Medium
<1> HIDE DEF m
<1>6. Flushed(x) \in TabSet
  BY <1>1, <1>3, <1>5 DEF TabSet
<1> QED
  BY <1>1, <1>4, <1>5, <1>6, TabIs DEF TabSet, SameState

LEMMA AnsweredFields ==
  ASSUME NEW x \in Tab, NEW s \in Streams, NEW c \in Calls
  PROVE  /\ Answered(x, s, c) \in Tab
         /\ SameRefs(x, Answered(x, s, c)) /\ SameState(x, Answered(x, s, c))
         /\ Answered(x, s, c).timers = x.timers /\ Answered(x, s, c).jobs = x.jobs
         /\ Answered(x, s, c).media = [x.media EXCEPT ![s].pc = "stable"]
         /\ Answered(x, s, c).out = x.out \cup {About("answer", c), About("ice", c)}
<1> DEFINE m == [x.media EXCEPT ![s].pc = "stable"]
           w == [x EXCEPT !.media = m]
           rs == {About("answer", c), About("ice", c)}
<1>1. x \in TabSet /\ m \in Media
  BY TabIs, TabFields, MediaSet
<1>2. Answered(x, s, c) = Send(w, rs)
  BY <1>1 DEF Answered, TabSet
<1>3. rs \in Outs
  BY AboutIs DEF Outs
<1> HIDE DEF m, rs
<1>4. w \in TabSet /\ w = [x EXCEPT !.media = m]
  BY <1>1 DEF TabSet
<1>5. SameRefs(x, w) /\ SameState(x, w) /\ w.timers = x.timers /\ w.jobs = x.jobs
      /\ w.media = m /\ w.out = x.out
  BY <1>1, <1>4 DEF TabSet, SameRefs, SameState
<1> HIDE DEF w
<1>6. w \in Tab
  BY <1>4, TabIs
<1>7. /\ Send(w, rs) \in Tab
      /\ SameRefs(w, Send(w, rs)) /\ SameState(w, Send(w, rs)) /\ SameWork(w, Send(w, rs))
      /\ Send(w, rs).out = w.out \cup rs
  BY <1>3, <1>6, SendFields
<1> QED
  BY <1>2, <1>5, <1>7 DEF SameRefs, SameState, SameWork, m, rs

(* getUserMedia answered start: the stream is kept, the invitation sent. *)
Inviting(x, k, s) == Send([Acquire(x, s) EXCEPT !.jobs[k].at = "ack", !.jobs[k].stream = s],
                          {Invite(k, x.jobs[k].to)})
InvitingJob(j, s) == [j EXCEPT !.at = "ack", !.stream = s]

(* The tab y that x becomes then. *)
Invited(x, k, s, y) ==
  /\ y \in Tab /\ y.call = x.call /\ y.here = x.here /\ y.ring = x.ring /\ y.local = s
  /\ y.peer = x.peer /\ y.pending = x.pending /\ SameState(x, y) /\ y.timers = x.timers
  /\ y.media = [x.media EXCEPT ![s].mic = "on"]
  /\ y.jobs = [x.jobs EXCEPT ![k] = InvitingJob(x.jobs[k], s)]
  /\ y.out = x.out \cup {Invite(k, x.jobs[k].to)}

LEMMA InvitingFields ==
  ASSUME NEW x \in Tab, NEW k \in Jobs, NEW s \in Streams, x.jobs[k].to \in Users
  PROVE  Invited(x, k, s, Inviting(x, k, s))
<1> DEFINE y == Acquire(x, s)
           js == [x.jobs EXCEPT ![k] = InvitingJob(x.jobs[k], s)]
           w == [y EXCEPT !.jobs = js]
           rs == {Invite(k, x.jobs[k].to)}
<1>1. /\ y \in Tab /\ y.call = x.call /\ y.here = x.here /\ y.ring = x.ring
      /\ y.local = s /\ y.peer = x.peer /\ y.pending = x.pending /\ SameState(x, y)
      /\ y.timers = x.timers /\ y.media = [x.media EXCEPT ![s].mic = "on"]
      /\ y.jobs = x.jobs /\ y.out = x.out
  BY AcquireFields
<1>2. InvitingJob(x.jobs[k], s) \in Job
  <2>1. x.jobs[k] \in Job
    BY TabFields, JobsSet
  <2> QED
    BY <2>1 DEF InvitingJob, Job
<1>3. js \in JobTable
  BY <1>2, TabFields, JobsSet
<1>4. rs \in Outs
  BY InviteIs
<1>5. Inviting(x, k, s) = Send([y EXCEPT !.jobs[k].at = "ack", !.jobs[k].stream = s], rs)
  BY DEF Inviting
<1> HIDE DEF y, rs
<1>6. y \in TabSet
  BY <1>1, TabIs
<1>7. [y EXCEPT !.jobs[k].at = "ack", !.jobs[k].stream = s] = w
  <2>1. x.jobs \in [Jobs -> Job]
    BY TabFields DEF JobTable
  <2> QED
    BY <1>1, <1>6, <2>1 DEF TabSet, InvitingJob, Job
<1> HIDE DEF js
<1>8. w \in TabSet /\ w = [y EXCEPT !.jobs = js]
  BY <1>3, <1>6 DEF TabSet
<1>9. SameRefs(y, w) /\ SameState(y, w) /\ w.timers = y.timers /\ w.jobs = js
      /\ w.media = y.media /\ w.out = y.out
  BY <1>6, <1>8 DEF TabSet, SameRefs, SameState
<1> HIDE DEF w
<1>10. w \in Tab
  BY <1>8, TabIs
<1>11. /\ Send(w, rs) \in Tab
      /\ SameRefs(w, Send(w, rs)) /\ SameState(w, Send(w, rs)) /\ SameWork(w, Send(w, rs))
      /\ Send(w, rs).out = w.out \cup rs
  BY <1>4, <1>10, SendFields
<1> QED
  BY <1>1, <1>5, <1>7, <1>9, <1>11 DEF SameRefs, SameState, SameWork, js, rs, Invited

(* getUserMedia answered accept. *)
Accepting(x, k, s) == Send([Return(Connection(Acquire(x, s), s), k) EXCEPT !.here = TRUE],
                           {About("accept", x.jobs[k].call)})
LiveMedia(m, s) == [m EXCEPT ![s].mic = "on", ![s].pc = "new"]

(* The tab y that x becomes then. *)
Accepted(x, k, s, y) ==
  /\ y \in Tab /\ y.call = x.call /\ y.here = TRUE /\ y.ring = x.ring /\ y.local = s
  /\ y.peer = s /\ y.pending = x.pending /\ SameState(x, y) /\ y.timers = x.timers
  /\ y.media = LiveMedia(x.media, s) /\ y.jobs = [x.jobs EXCEPT ![k] = Free]
  /\ y.out = x.out \cup {About("accept", x.jobs[k].call)}

LEMMA AcceptingFields ==
  ASSUME NEW x \in Tab, NEW k \in Jobs, NEW s \in Streams, x.jobs[k].call \in Calls
  PROVE  Accepted(x, k, s, Accepting(x, k, s))
<1> DEFINE y == Acquire(x, s)
           z == Connection(y, s)
           v == Return(z, k)
           w == [v EXCEPT !.here = TRUE]
           rs == {About("accept", x.jobs[k].call)}
<1>1. /\ y \in Tab /\ y.call = x.call /\ y.here = x.here /\ y.ring = x.ring
      /\ y.local = s /\ y.peer = x.peer /\ y.pending = x.pending /\ SameState(x, y)
      /\ y.timers = x.timers /\ y.media = [x.media EXCEPT ![s].mic = "on"]
      /\ y.jobs = x.jobs /\ y.out = x.out
  BY AcquireFields
<1>2. Accepting(x, k, s) = Send(w, rs)
  BY DEF Accepting
<1>3. rs \in Outs
  BY AboutIs
<1> HIDE DEF y, rs
<1>4. /\ z \in Tab /\ z.call = y.call /\ z.here = y.here /\ z.ring = y.ring
      /\ z.local = y.local /\ z.peer = s /\ z.pending = y.pending /\ SameState(y, z)
      /\ z.timers = y.timers /\ z.media = [y.media EXCEPT ![s].pc = "new"]
      /\ z.jobs = y.jobs /\ z.out = y.out
  <2>1. y \in Tab
    BY <1>1
  <2> QED
    BY <2>1, ConnectionFields
<1> HIDE DEF z
<1>5. /\ v \in Tab /\ SameRefs(z, v) /\ SameState(z, v) /\ v.timers = z.timers
      /\ v.media = z.media /\ v.jobs = [z.jobs EXCEPT ![k] = Free] /\ v.out = z.out
  BY <1>4, ReturnFields
<1> HIDE DEF v
<1>6. /\ w \in Tab /\ w.call = v.call /\ w.here = TRUE /\ w.ring = v.ring
      /\ w.local = v.local /\ w.peer = v.peer /\ w.pending = v.pending /\ SameState(v, w)
      /\ SameWork(v, w) /\ w.out = v.out
  BY <1>5, TabIs DEF TabSet, SameState, SameWork
<1> HIDE DEF w
<1>7. /\ Send(w, rs) \in Tab
      /\ SameRefs(w, Send(w, rs)) /\ SameState(w, Send(w, rs)) /\ SameWork(w, Send(w, rs))
      /\ Send(w, rs).out = w.out \cup rs
  BY <1>3, <1>6, SendFields
<1>8. [[x.media EXCEPT ![s].mic = "on"] EXCEPT ![s].pc = "new"] = LiveMedia(x.media, s)
  BY TabFields DEF LiveMedia, Media, Medium
<1> DEFINE r == Send(w, rs)
<1>9. /\ r \in Tab /\ SameRefs(w, r) /\ SameState(w, r) /\ SameWork(w, r)
      /\ r.out = w.out \cup rs
  BY <1>7
<1> HIDE DEF r
<1>10. /\ r.call = x.call /\ r.here = TRUE /\ r.ring = x.ring /\ r.local = s /\ r.peer = s
       /\ r.pending = x.pending /\ r.timers = x.timers /\ SameState(x, r)
  BY <1>1, <1>4, <1>5, <1>6, <1>9 DEF SameRefs, SameState, SameWork
<1>11. r.media = LiveMedia(x.media, s) /\ r.jobs = [x.jobs EXCEPT ![k] = Free]
  BY <1>1, <1>4, <1>5, <1>6, <1>8, <1>9 DEF SameWork
<1>12. r.out = x.out \cup {About("accept", x.jobs[k].call)}
  BY <1>1, <1>4, <1>5, <1>6, <1>9 DEF rs
<1>13. Accepted(x, k, s, r)
  BY <1>9, <1>10, <1>11, <1>12 DEF Accepted
<1> QED
  BY <1>2, <1>13 DEF r

(* toggleMute. *)
Muted(x) ==
  LET s == x.local
      mute == x.media[s].mic = "on"
  IN [x EXCEPT !.muted = mute, !.media[s].mic = IF mute THEN "muted" ELSE "on"]

LEMMA MutedFields ==
  ASSUME NEW x \in Tab, x.local # None
  PROVE  /\ Muted(x) \in Tab
         /\ SameRefs(x, Muted(x))
         /\ Muted(x).phase = x.phase /\ Muted(x).outgoing = x.outgoing /\ Muted(x).sees = x.sees
         /\ Muted(x).muted = (x.media[x.local].mic = "on")
         /\ Muted(x).timers = x.timers /\ Muted(x).jobs = x.jobs /\ Muted(x).out = x.out
         /\ \/ x.media[x.local].mic = "on" /\ Muted(x).media = [x.media EXCEPT ![x.local].mic = "muted"]
            \/ x.media[x.local].mic # "on" /\ Muted(x).media = [x.media EXCEPT ![x.local].mic = "on"]
<1> DEFINE m == [x.media EXCEPT ![x.local].mic = IF x.media[x.local].mic = "on" THEN "muted" ELSE "on"]
           mute == x.media[x.local].mic = "on"
<1>1. x \in TabSet /\ x.media \in Media /\ x.local \in Streams
  BY TabIs, TabFields
<1>2. m \in Media
  BY <1>1, MediaSet
<1>3. Muted(x) = [x EXCEPT !.muted = mute, !.media = m]
  BY <1>1 DEF Muted, TabSet
<1>4. /\ x.media[x.local].mic = "on" => m = [x.media EXCEPT ![x.local].mic = "muted"]
      /\ x.media[x.local].mic # "on" => m = [x.media EXCEPT ![x.local].mic = "on"]
  OBVIOUS
<1>5. mute \in BOOLEAN /\ mute = (x.media[x.local].mic = "on")
  OBVIOUS
<1> HIDE DEF m, mute
<1>6. Muted(x) \in TabSet
  BY <1>1, <1>2, <1>3, <1>5 DEF TabSet
<1>7. /\ SameRefs(x, Muted(x))
      /\ Muted(x).phase = x.phase /\ Muted(x).outgoing = x.outgoing /\ Muted(x).sees = x.sees
      /\ Muted(x).muted = mute /\ Muted(x).media = m
      /\ Muted(x).timers = x.timers /\ Muted(x).jobs = x.jobs /\ Muted(x).out = x.out
  BY <1>1, <1>3 DEF TabSet, SameRefs
<1> QED
  BY <1>4, <1>5, <1>6, <1>7, TabIs

(* The small ones: the effect, the ring time-out, requests that are gone. *)
Seen(x) == [x EXCEPT !.sees = x.outgoing]
Rung(x, c) == Send([x EXCEPT !.timers = @ \ {c}], {About("hangup", c)})
Sent(x, rs) == [x EXCEPT !.out = rs]

LEMMA SeenFields ==
  ASSUME NEW x \in Tab
  PROVE  /\ Seen(x) \in Tab /\ SameRefs(x, Seen(x)) /\ SameWork(x, Seen(x))
         /\ Seen(x).phase = x.phase /\ Seen(x).outgoing = x.outgoing
         /\ Seen(x).muted = x.muted /\ Seen(x).sees = x.outgoing /\ Seen(x).out = x.out
  BY TabIs DEF Seen, TabSet, SameRefs, SameWork

LEMMA SentFields ==
  ASSUME NEW x \in Tab, NEW rs \in Outs
  PROVE  /\ Sent(x, rs) \in Tab /\ SameRefs(x, Sent(x, rs)) /\ SameState(x, Sent(x, rs))
         /\ SameWork(x, Sent(x, rs)) /\ Sent(x, rs).out = rs
  BY TabIs DEF Sent, TabSet, SameRefs, SameWork, SameState

LEMMA RungFields ==
  ASSUME NEW x \in Tab, NEW c \in Calls
  PROVE  /\ Rung(x, c) \in Tab /\ SameRefs(x, Rung(x, c)) /\ SameState(x, Rung(x, c))
         /\ Rung(x, c).timers = x.timers \ {c} /\ Rung(x, c).media = x.media
         /\ Rung(x, c).jobs = x.jobs /\ Rung(x, c).out = x.out \cup {About("hangup", c)}
<1> DEFINE w == [x EXCEPT !.timers = @ \ {c}]
           rs == {About("hangup", c)}
<1>1. x \in TabSet /\ x.timers \ {c} \subseteq Calls
  BY TabIs, TabFields
<1>2. /\ w \in TabSet /\ SameRefs(x, w) /\ SameState(x, w) /\ w.timers = x.timers \ {c}
      /\ w.media = x.media /\ w.jobs = x.jobs /\ w.out = x.out
  BY <1>1 DEF TabSet, SameRefs, SameState
<1>3. rs \in Outs /\ Rung(x, c) = Send(w, rs)
  BY AboutIs DEF Rung
<1> HIDE DEF w, rs
<1>4. /\ Send(w, rs) \in Tab
      /\ SameRefs(w, Send(w, rs)) /\ SameState(w, Send(w, rs)) /\ SameWork(w, Send(w, rs))
      /\ Send(w, rs).out = w.out \cup rs
  BY <1>2, <1>3, TabIs, SendFields
<1> QED
  BY <1>2, <1>3, <1>4 DEF SameRefs, SameState, SameWork, rs

-----------------------------------------------------------------------------
(* What every tab is, and what a tab that is asked for one thing at a time  *)
(* is, handler by handler.                                                  *)

JobKnows(j) ==
  /\ j.at = "startMedia" => j.to \in Users
  /\ j.at = "ack" => j.stream \in Streams
  /\ j.at = "acceptMedia" => j.call \in Calls
  /\ j.at = "describe" => j.call \in Calls /\ j.stream \in Streams /\ j.from \in Tabs

Whole(x) ==
  /\ x \in Tab
  /\ \A k \in Jobs : JobKnows(x.jobs[k])
  /\ x.phase = "idle" <=> x.call = None

(* A handler that turns x into y. *)
Handled(x, y) == Whole(y) /\ (Sound(x) /\ ~Tangled(y) => Neat(y))

LEMMA HandledNothing == ASSUME NEW x, Whole(x) PROVE Handled(x, x)
  BY DEF Handled, Sound

(* What is on its way to the server does not matter here. *)
LEMMA AlikeTabs ==
  ASSUME NEW x, NEW y, Whole(x), y \in Tab,
         SameRefs(x, y), y.phase = x.phase, y.outgoing = x.outgoing, y.muted = x.muted,
         y.media = x.media, y.jobs = x.jobs, y.timers \subseteq x.timers
  PROVE  /\ Whole(y)
         /\ Tangled(y) <=> Tangled(x)
         /\ OneMedium(x) => OneMedium(y)
         /\ Neat(x) => Neat(y)
<1>1. Whole(y)
  BY DEF Whole, SameRefs
<1>2. Tangled(y) <=> Tangled(x)
  BY DEF Tangled, SameRefs
<1>3. OneMedium(x) => OneMedium(y)
  BY DEF OneMedium, SameRefs
<1>4. NoCallNothing(x) => NoCallNothing(y)
  BY DEF NoCallNothing, SameRefs
<1>5. MediumAskedFor(x) => MediumAskedFor(y)
  BY DEF MediumAskedFor, SameRefs
<1> QED
  BY <1>1, <1>2, <1>3, <1>4, <1>5 DEF Neat

LEMMA HandledSend ==
  ASSUME NEW x, Whole(x), NEW rs \in Outs
  PROVE  Handled(x, Send(x, rs)) /\ (Sound(x) => Sound(Send(x, rs)))
<1>1. x \in Tab
  BY DEF Whole
<1>2. /\ Send(x, rs) \in Tab
      /\ SameRefs(x, Send(x, rs)) /\ SameState(x, Send(x, rs)) /\ SameWork(x, Send(x, rs))
  BY <1>1, SendFields
<1> DEFINE y == Send(x, rs)
<1> HIDE DEF y
<1>3. y \in Tab /\ SameRefs(x, y) /\ SameState(x, y) /\ SameWork(x, y)
  BY <1>2 DEF y
<1>4. /\ Whole(y) /\ (Tangled(y) <=> Tangled(x)) /\ (Neat(x) => Neat(y))
  <2>1. /\ y.phase = x.phase /\ y.outgoing = x.outgoing /\ y.muted = x.muted
        /\ y.media = x.media /\ y.jobs = x.jobs /\ y.timers \subseteq x.timers
    BY <1>3 DEF SameState, SameWork
  <2> QED
    BY <1>3, <2>1, AlikeTabs
<1> QED
  BY <1>4 DEF Handled, Sound, y

LEMMA HandledSent ==
  ASSUME NEW x, Whole(x), NEW rs \in Outs
  PROVE  Handled(x, Sent(x, rs)) /\ (Sound(x) <=> Sound(Sent(x, rs)))
<1> DEFINE y == Sent(x, rs)
<1>1. y \in Tab /\ SameRefs(x, y) /\ SameState(x, y) /\ SameWork(x, y)
  BY SentFields DEF Whole
<1> HIDE DEF y
<1>2. /\ Whole(y) /\ (Tangled(y) <=> Tangled(x)) /\ (Neat(x) => Neat(y))
  <2>1. /\ y.phase = x.phase /\ y.outgoing = x.outgoing /\ y.muted = x.muted
        /\ y.media = x.media /\ y.jobs = x.jobs /\ y.timers \subseteq x.timers
    BY <1>1 DEF SameState, SameWork
  <2> QED
    BY <1>1, <2>1, AlikeTabs
<1>3. Neat(y) => Neat(x)
  <2>1. /\ x.phase = y.phase /\ x.outgoing = y.outgoing /\ x.muted = y.muted
        /\ x.media = y.media /\ x.jobs = y.jobs /\ x.timers \subseteq y.timers
        /\ SameRefs(y, x) /\ x \in Tab
    BY <1>1 DEF SameState, SameWork, SameRefs, Whole
  <2> QED
    BY <1>2, <2>1, AlikeTabs
<1> QED
  BY <1>2, <1>3 DEF Handled, Sound, y

LEMMA HandledSeen ==
  ASSUME NEW x, Whole(x)
  PROVE  Handled(x, Seen(x))
<1> DEFINE y == Seen(x)
<1>1. /\ y \in Tab /\ SameRefs(x, y) /\ SameWork(x, y)
      /\ y.phase = x.phase /\ y.outgoing = x.outgoing /\ y.muted = x.muted
  BY SeenFields DEF Whole
<1> HIDE DEF y
<1>2. /\ Whole(y) /\ (Tangled(y) <=> Tangled(x)) /\ (Neat(x) => Neat(y))
  <2>1. y.media = x.media /\ y.jobs = x.jobs /\ y.timers \subseteq x.timers
    BY <1>1 DEF SameWork
  <2> QED
    BY <1>1, <2>1, AlikeTabs
<1> QED
  BY <1>2 DEF Handled, Sound, y

LEMMA HandledRung ==
  ASSUME NEW x, Whole(x), NEW c \in Calls
  PROVE  Handled(x, Rung(x, c))
<1> DEFINE y == Rung(x, c)
<1>1. /\ y \in Tab /\ SameRefs(x, y) /\ SameState(x, y)
      /\ y.timers = x.timers \ {c} /\ y.media = x.media /\ y.jobs = x.jobs
  BY RungFields DEF Whole
<1> HIDE DEF y
<1>2. /\ Whole(y) /\ (Tangled(y) <=> Tangled(x)) /\ (Neat(x) => Neat(y))
  <2>1. /\ y.phase = x.phase /\ y.outgoing = x.outgoing /\ y.muted = x.muted
        /\ y.timers \subseteq x.timers
    BY <1>1 DEF SameState
  <2> QED
    BY <1>1, <2>1, AlikeTabs
<1> QED
  BY <1>2 DEF Handled, Sound, y

(* Tearing down leaves nothing of the tab's one medium. *)
LEMMA TornDown ==
  ASSUME NEW x, Whole(x)
  PROVE  /\ Whole(Teardown(x))
         /\ OneMedium(x) /\ x.timers \subseteq {x.ring}
              /\ (\A k \in Jobs : x.jobs[k].at # "ack")
            => Neat(Teardown(x)) /\ Teardown(x).timers = {}
               /\ Teardown(x).media = [s \in Streams |-> NoMedium]
<1> DEFINE y == Teardown(x)
           m == Stopped(x.media, x.local, x.peer)
<1>1. x \in Tab /\ x.media \in Media /\ x.timers \subseteq Calls
  BY TabFields DEF Whole
<1>2. /\ y \in Tab
      /\ y.call = None /\ y.here = FALSE /\ y.ring = None
      /\ y.local = None /\ y.peer = None /\ y.pending = {}
      /\ y.phase = "idle" /\ y.outgoing = FALSE /\ y.muted = FALSE
      /\ y.timers = x.timers \ {x.ring} /\ y.media = m /\ y.jobs = x.jobs
  BY <1>1, TeardownFields
<1>3. /\ m \in Media
      /\ \A i \in Streams :
              /\ m[i].mic = IF i = x.local THEN "off" ELSE x.media[i].mic
              /\ i = x.peer => m[i] = [NoMedium EXCEPT !.mic = m[i].mic]
              /\ i # x.peer => /\ m[i].pc = x.media[i].pc
                               /\ m[i].remote = x.media[i].remote
                               /\ m[i].ice = x.media[i].ice
  BY <1>1, StoppedFields
<1> HIDE DEF y, m
<1>4. Whole(y)
  BY <1>2 DEF Whole
<1>5. ASSUME OneMedium(x), x.timers \subseteq {x.ring}, \A k \in Jobs : x.jobs[k].at # "ack"
      PROVE  Neat(y) /\ y.timers = {} /\ y.media = [s \in Streams |-> NoMedium]
  <2>1. \A i \in Streams : m[i] = NoMedium
    <3> SUFFICES ASSUME NEW i \in Streams PROVE m[i] = NoMedium
      OBVIOUS
    <3>1. m[i].mic = "off"
      BY <1>3, <1>5 DEF OneMedium
    <3>2. m[i] \in Medium /\ x.media[i] \in Medium
      BY <1>1, <1>3 DEF Media
    <3>3. CASE i = x.peer
      BY <1>3, <3>1, <3>3 DEF NoMedium
    <3>4. CASE i # x.peer
      <4>1. x.media[i] = [NoMedium EXCEPT !.mic = x.media[i].mic]
        BY <1>5, <3>4 DEF OneMedium
      <4>2. m[i].pc = "none" /\ m[i].remote = None /\ m[i].ice = {}
        BY <1>3, <3>4, <4>1, NoMediumIs DEF NoMedium
      <4> QED
        BY <3>1, <3>2, <4>2 DEF Medium, NoMedium
    <3> QED
      BY <3>3, <3>4
  <2>2. m = [s \in Streams |-> NoMedium]
    BY <1>3, <2>1 DEF Media
  <2>3. y.timers = {}
    BY <1>2, <1>5
  <2>4. OneMedium(y)
    BY <1>2, <2>1, NoneAssumption, NoMediumIs DEF OneMedium, NoMedium
  <2>5. NoCallNothing(y)
    BY <1>2, <2>3 DEF NoCallNothing
  <2>6. MediumAskedFor(y)
    BY <1>2, <1>5 DEF MediumAskedFor
  <2> QED
    BY <1>2, <2>2, <2>3, <2>4, <2>5, <2>6 DEF Neat
<1> QED
  BY <1>4, <1>5 DEF y

(* A tab with a call is torn down. *)
LEMMA HandledTeardown ==
  ASSUME NEW x, Whole(x), x.call # None
  PROVE  Handled(x, Teardown(x))
<1>1. Sound(x) => OneMedium(x) /\ x.timers \subseteq {x.ring}
                  /\ (\A k \in Jobs : x.jobs[k].at # "ack")
  BY DEF Sound, Neat, Tangled, NoCallNothing
<1> QED
  BY <1>1, TornDown DEF Handled

LEMMA FreeJobKnows == JobKnows(Free)
  BY FreeIsJob DEF JobKnows

(* A job that was asking gives up, and the tab with it. *)
LEMMA HandledGiveUp ==
  ASSUME NEW x, Whole(x), NEW k \in Jobs, Asking(x.jobs[k])
  PROVE  Handled(x, Teardown(Return(x, k)))
<1> DEFINE y == Return(x, k)
<1>1. x \in Tab /\ x.jobs \in JobTable
  BY TabFields DEF Whole
<1>2. /\ y \in Tab /\ SameRefs(x, y) /\ SameState(x, y)
      /\ y.timers = x.timers /\ y.media = x.media
      /\ y.jobs = [x.jobs EXCEPT ![k] = Free]
  BY <1>1, ReturnFields
<1> HIDE DEF y
<1>3. y.jobs[k] = Free /\ \A l \in Jobs \ {k} : y.jobs[l] = x.jobs[l]
  BY <1>1, <1>2 DEF JobTable
<1>4. Whole(y)
  BY <1>2, <1>3, FreeJobKnows DEF Whole, SameRefs, SameState
<1>5. Sound(x) => OneMedium(y) /\ y.timers \subseteq {y.ring}
  BY <1>2 DEF Sound, Neat, OneMedium, NoCallNothing, SameRefs, SameState
<1>6. Sound(x) => \A l \in Jobs : y.jobs[l].at # "ack"
  BY <1>3, FreeIsJob DEF Sound, Tangled, Asking
<1> QED
  BY <1>4, <1>5, <1>6, TornDown DEF Handled, y

(* A media table that keeps the tab's one medium. *)
LEMMA HandledOnAck ==
  ASSUME NEW x, Whole(x), NEW k \in Jobs, NEW c \in Calls
  PROVE  Handled(x, OnAck(x, k, c))
<1>1. CASE x.jobs[k].at # "ack"
  BY <1>1, HandledNothing DEF OnAck
<1>2. CASE x.jobs[k].at = "ack"
  <2> DEFINE y == OnAck(x, k, c)
             s == x.jobs[k].stream
  <2>1. x \in Tab /\ x.jobs \in JobTable /\ x.media \in Media /\ s \in Streams
    BY <1>2, TabFields DEF Whole, JobKnows
  <2>0. Acked(x, k, c, y)
    <3>1. x.jobs[k].stream \in Streams /\ x \in Tab
      BY <2>1
    <3> QED
      BY <1>2, <3>1, OnAckFields
  <2> HIDE DEF y
  <2>2. /\ y \in Tab /\ y.call = c /\ y.here = x.here /\ y.ring = c /\ y.local = x.local
        /\ y.peer = s /\ y.pending = x.pending /\ y.phase = "calling" /\ y.outgoing = TRUE
        /\ y.muted = FALSE /\ y.timers = x.timers \cup {c}
        /\ y.media = [x.media EXCEPT ![s].pc = "new"]
        /\ y.jobs = [x.jobs EXCEPT ![k] = Free]
    BY <2>0 DEF Acked
  <2> HIDE DEF s
  <2>3. y.jobs[k] = Free /\ \A l \in Jobs \ {k} : y.jobs[l] = x.jobs[l]
    BY <2>1, <2>2 DEF JobTable
  <2>4. /\ \A i \in Streams \ {s} : y.media[i] = x.media[i]
        /\ y.media[s].mic = x.media[s].mic
    BY <2>1, <2>2 DEF Media, Medium
  <2>5. Whole(y)
    BY <2>2, <2>3, FreeJobKnows, NoneAssumption DEF Whole
  <2>6. ASSUME Sound(x) PROVE Neat(y)
    <3>1. x.call = None /\ x.local = s /\ x.peer = None /\ x.timers = {}
      <4>1. x.call = None
        BY <1>2, <2>6 DEF Sound, Tangled
      <4>2. x.local = s /\ x.peer = None
        BY <1>2, <2>6 DEF Sound, Neat, MediumAskedFor, s
      <4>3. x.ring = None /\ x.timers \subseteq {None}
        BY <2>6, <4>1 DEF Sound, Neat, NoCallNothing
      <4> QED
        BY <2>1, <4>1, <4>2, <4>3, TabFields, NoneAssumption
    <3>2. OneMedium(x)
      BY <2>6 DEF Sound, Neat
    <3>3. OneMedium(y)
      BY <2>2, <2>4, <3>1, <3>2, NoneAssumption DEF OneMedium
    <3>4. NoCallNothing(y)
      BY <2>2, <3>1, NoneAssumption DEF NoCallNothing
    <3>5. \A l \in Jobs \ {k} : ~Asking(x.jobs[l])
      BY <1>2, <2>6 DEF Sound, Tangled, Asking
    <3>6. MediumAskedFor(y)
      BY <2>2, <2>3, <3>5, FreeIsJob, NoneAssumption DEF MediumAskedFor, Asking
    <3> QED
      BY <3>3, <3>4, <3>6 DEF Neat
  <2> QED
    BY <2>5, <2>6 DEF Handled, y
<1> QED
  BY <1>1, <1>2

LEMMA HandledOnRefused ==
  ASSUME NEW x, Whole(x), NEW k \in Jobs
  PROVE  Handled(x, OnRefused(x, k))
<1>1. CASE x.jobs[k].at # "ack"
  BY <1>1, HandledNothing DEF OnRefused
<1>2. CASE x.jobs[k].at = "ack"
  BY <1>2, HandledGiveUp DEF OnRefused, Asking
<1> QED
  BY <1>1, <1>2

LEMMA HandledOnIncoming ==
  ASSUME NEW x, Whole(x), NEW c \in Calls
  PROVE  Handled(x, OnIncoming(x, c))
<1>1. CASE x.call # None
  BY <1>1, HandledSend, AboutIs DEF OnIncoming
<1>2. CASE x.call = None
  <2> DEFINE y == OnIncoming(x, c)
  <2>1. x \in Tab
    BY DEF Whole
  <2>2. /\ y \in Tab /\ y.call = c /\ y.here = x.here /\ y.ring = x.ring
        /\ y.local = x.local /\ y.peer = x.peer /\ y.pending = x.pending
        /\ y.phase = "ringing" /\ y.outgoing = FALSE /\ y.muted = FALSE
        /\ SameWork(x, y)
    BY <1>2, <2>1, OnIncomingFields
  <2> HIDE DEF y
  <2>3. Whole(y)
    BY <2>2, NoneAssumption DEF Whole, SameWork
  <2>4. ASSUME Sound(x), ~Tangled(y) PROVE Neat(y)
    <3>1. x.here = FALSE /\ x.ring = None
      BY <1>2, <2>1, <2>4, TabFields DEF Sound, Neat, NoCallNothing
    <3>2. \A k \in Jobs : x.jobs[k].at # "ack"
      BY <2>2, <2>4, NoneAssumption DEF Tangled, SameWork
    <3>3. x.local = None
      BY <1>2, <2>4, <3>2 DEF Sound, Neat, MediumAskedFor
    <3>4. OneMedium(y)
      BY <2>2, <2>4 DEF Sound, Neat, OneMedium, SameWork
    <3>5. NoCallNothing(y)
      BY <2>2, <2>4, <3>1, <3>3, NoneAssumption DEF Sound, Neat, NoCallNothing, SameWork
    <3>6. MediumAskedFor(y)
      BY <2>2, <2>4, <3>2, <3>3 DEF Sound, Neat, MediumAskedFor, SameWork
    <3> QED
      BY <3>4, <3>5, <3>6 DEF Neat
  <2> QED
    BY <2>3, <2>4 DEF Handled, y
<1> QED
  BY <1>1, <1>2

LEMMA HandledOnAccepted ==
  ASSUME NEW x, Whole(x), NEW c \in Calls
  PROVE  Handled(x, OnAccepted(x, c))
<1>0. x \in Tab /\ x.here \in BOOLEAN /\ x.sees \in BOOLEAN /\ x.media \in Media
  BY TabFields DEF Whole
<1>1. CASE x.call # c
  BY <1>1, HandledNothing DEF OnAccepted
<1>2. CASE x.call = c /\ ~x.here /\ ~x.sees
  BY <1>2, HandledTeardown, NoneAssumption DEF OnAccepted
<1>3. CASE x.call = c /\ (x.here \/ x.sees)
  <2> DEFINE y == OnAccepted(x, c)
  <2>1. /\ y \in Tab /\ y.call = c /\ y.here = x.here /\ y.ring = None /\ y.local = x.local
        /\ y.peer = x.peer /\ y.pending = x.pending /\ y.phase = "active"
        /\ y.outgoing = x.outgoing /\ y.muted = x.muted
        /\ y.timers = x.timers \ {x.ring} /\ y.jobs = x.jobs
        /\ y.media = IF x.sees /\ x.peer # None
                     THEN [x.media EXCEPT ![x.peer].pc = "offered"] ELSE x.media
    BY <1>0, <1>3, OnAcceptedFields DEF Pickup
  <2> HIDE DEF y
  <2>2. Whole(y)
    BY <2>1, NoneAssumption DEF Whole
  <2>3. /\ \A i \in Streams : i # x.peer => y.media[i] = x.media[i]
        /\ \A i \in Streams : y.media[i].mic = x.media[i].mic
    <3>1. CASE x.sees /\ x.peer # None
      BY <1>0, <2>1, <3>1 DEF Media, Medium
    <3>2. CASE ~(x.sees /\ x.peer # None)
      BY <2>1, <3>2
    <3> QED
      BY <3>1, <3>2
  <2>4. ASSUME Sound(x) PROVE Neat(y)
    <3>1. x.local \in Streams \cup {None}
      BY <1>0, TabFields
    <3>2. OneMedium(y)
      <4>1. OneMedium(x)
        BY <2>4 DEF Sound, Neat
      <4> QED
        BY <2>1, <2>3, <3>1, <4>1 DEF OneMedium
    <3>3. NoCallNothing(y)
      BY <1>3, <2>1, <2>4, NoneAssumption DEF Sound, Neat, NoCallNothing
    <3>4. MediumAskedFor(y)
      BY <1>3, <2>1, <2>4, NoneAssumption DEF Sound, Neat, MediumAskedFor
    <3> QED
      BY <3>2, <3>3, <3>4 DEF Neat
  <2> QED
    BY <2>2, <2>4 DEF Handled, y
<1> QED
  BY <1>1, <1>2, <1>3

LEMMA HandledOnEnded ==
  ASSUME NEW x, Whole(x), NEW c \in Calls
  PROVE  Handled(x, OnEnded(x, c))
BY HandledNothing, HandledTeardown, NoneAssumption DEF OnEnded

(* A new invocation; what it was asked must be known. *)
LEMMA HandledSpawn ==
  ASSUME NEW x, Whole(x), NEW j \in Job, JobKnows(j), Slots(x) # {},
         j.at # "ack",
         j.at \in {"startMedia", "acceptMedia"} /\ Sound(x) /\ ~Tangled(Spawn(x, j)) => x.local = None
  PROVE  Handled(x, Spawn(x, j))
<1> DEFINE y == Spawn(x, j)
<1>1. x \in Tab /\ x.jobs \in JobTable
  BY TabFields DEF Whole
<1>2. PICK k \in Slots(x) :
        /\ y \in Tab /\ SameRefs(x, y) /\ SameState(x, y)
        /\ y.timers = x.timers /\ y.media = x.media /\ y.jobs = [x.jobs EXCEPT ![k] = j]
  BY <1>1, SpawnFields
<1> HIDE DEF y
<1>3. k \in Jobs /\ x.jobs[k] = Free
  BY <1>2 DEF Slots
<1>4. y.jobs[k] = j /\ \A l \in Jobs \ {k} : y.jobs[l] = x.jobs[l]
  BY <1>1, <1>2, <1>3 DEF JobTable
<1>5. Whole(y)
  BY <1>2, <1>4 DEF Whole, SameRefs, SameState
<1>6. ASSUME Sound(x), ~Tangled(y) PROVE Neat(y)
  <2>1. OneMedium(y) /\ NoCallNothing(y)
    BY <1>2, <1>6 DEF Sound, Neat, OneMedium, NoCallNothing, SameRefs, SameState
  <2>2. j.at \in {"startMedia", "acceptMedia"} => x.local = None
    BY <1>6 DEF y
  <2>3. MediumAskedFor(y)
    <3>1. MediumAskedFor(x) /\ y.local = x.local /\ y.call = x.call /\ y.peer = x.peer
      BY <1>2, <1>6 DEF Sound, Neat, SameRefs
    <3>2. \A l \in Jobs : x.jobs[l].at = "ack" => y.jobs[l] = x.jobs[l]
      BY <1>3, <1>4, FreeIsJob
    <3> QED
      BY <1>4, <2>2, <3>1, <3>2 DEF MediumAskedFor
  <2> QED
    BY <2>1, <2>3 DEF Neat
<1> QED
  BY <1>5, <1>6 DEF Handled, y

LEMMA HandledOnSdp ==
  ASSUME NEW x, Whole(x), NEW c \in Calls, NEW kind \in {"offer", "answer"},
         NEW from \in Tabs, Slots(x) # {}
  PROVE  Handled(x, OnSdp(x, c, kind, from))
<1>1. CASE x.call # c \/ x.peer = None
  BY <1>1, HandledNothing DEF OnSdp
<1>2. CASE x.call = c /\ x.peer # None
  <2> DEFINE j == [Free EXCEPT !.at = "describe", !.call = c, !.stream = x.peer,
                               !.kind = kind, !.from = from]
  <2>1. x.peer \in Streams
    BY <1>2, TabFields DEF Whole
  <2>2. j \in Job /\ j.at = "describe" /\ j.call = c /\ j.stream = x.peer /\ j.from = from
    BY <2>1 DEF Free, Job
  <2>3. OnSdp(x, c, kind, from) = Spawn(x, j)
    BY <1>2 DEF OnSdp
  <2> HIDE DEF j
  <2>4. JobKnows(j)
    BY <2>1, <2>2 DEF JobKnows
  <2>5. Handled(x, Spawn(x, j))
    BY <2>2, <2>4, HandledSpawn
  <2> QED
    BY <2>3, <2>5
<1> QED
  BY <1>1, <1>2

(* Only what the tab's own connection has got to has changed. *)
LEMMA AtThePeer ==
  ASSUME NEW x, NEW y, Whole(x), y \in Tab,
         y.call = x.call, y.here = x.here, y.ring = x.ring,
         y.local = x.local, y.peer = x.peer, x.call = None => y.pending = {},
         SameState(x, y), y.timers = x.timers,
         \A k \in Jobs : \/ y.jobs[k] = x.jobs[k]
                         \/ x.jobs[k].at = "describe" /\ y.jobs[k] = Free
  PROVE  /\ Whole(y)
         /\ /\ Neat(x)
            /\ \A i \in Streams : /\ y.media[i].mic = x.media[i].mic
                                  /\ i # x.peer => y.media[i] = x.media[i]
            => Neat(y)
<1>1. Whole(y)
  BY FreeJobKnows DEF Whole, SameState
<1>2. ASSUME Neat(x),
             \A i \in Streams : /\ y.media[i].mic = x.media[i].mic
                                /\ i # x.peer => y.media[i] = x.media[i]
      PROVE  Neat(y)
  <2>1. x.local \in Streams \cup {None}
    BY TabFields DEF Whole
  <2>2. OneMedium(y)
    <3>1. OneMedium(x) /\ y.muted = x.muted
      BY <1>2 DEF Neat, SameState
    <3> QED
      BY <1>2, <2>1, <3>1 DEF OneMedium
  <2>3. NoCallNothing(y)
    <3>1. NoCallNothing(x) /\ y.phase = x.phase /\ y.outgoing = x.outgoing
      BY <1>2 DEF Neat, SameState
    <3> QED
      BY <3>1 DEF NoCallNothing
  <2>4. MediumAskedFor(y)
    <3>1. MediumAskedFor(x)
      BY <1>2 DEF Neat
    <3> QED
      BY <3>1, FreeIsJob DEF MediumAskedFor
  <2> QED
    BY <2>2, <2>3, <2>4 DEF Neat
<1> QED
  BY <1>1, <1>2

LEMMA HandledOnIce ==
  ASSUME NEW x, Whole(x), NEW c \in Calls, NEW from \in Tabs
  PROVE  Handled(x, OnIce(x, c, from))
<1>1. CASE x.call # c
  BY <1>1, HandledNothing DEF OnIce
<1>2. CASE x.call = c
  <2> DEFINE y == OnIce(x, c, from)
  <2>1. x \in Tab /\ x.media \in Media
    BY TabFields DEF Whole
  <2>0. Iced(x, from, OnIce(x, c, from))
    BY <1>2, <2>1, OnIceFields
  <2> HIDE DEF y
  <2>2. /\ y \in Tab /\ y.call = x.call /\ y.here = x.here /\ y.ring = x.ring
        /\ y.local = x.local /\ y.peer = x.peer /\ SameState(x, y)
        /\ y.timers = x.timers /\ y.jobs = x.jobs
    BY <2>0 DEF Iced, y
  <2>3. \A i \in Streams : /\ y.media[i].mic = x.media[i].mic
                           /\ i # x.peer => y.media[i] = x.media[i]
    <3>1. CASE x.peer = None \/ x.media[x.peer].remote = None
      <4>1. y.media = x.media
        BY <2>0, <3>1 DEF Iced, y
      <4> QED
        BY <4>1
    <3>2. CASE x.peer # None /\ x.media[x.peer].remote # None
      <4> DEFINE m == [x.media EXCEPT ![x.peer].ice = @ \cup {from}]
      <4>1. y.media = m
        BY <2>0, <3>2 DEF Iced, y
      <4>2. \A i \in Streams : m[i].mic = x.media[i].mic /\ (i # x.peer => m[i] = x.media[i])
        BY <2>1 DEF Media, Medium
      <4> HIDE DEF m
      <4> QED
        BY <4>1, <4>2
    <3> QED
      BY <3>1, <3>2
  <2>4. Whole(y) /\ (Neat(x) => Neat(y))
    <3>1. x.call # None
      BY <1>2, NoneAssumption
    <3> QED
      BY <2>2, <2>3, <3>1, AtThePeer
  <2> QED
    BY <2>4 DEF Handled, Sound, y
<1> QED
  BY <1>1, <1>2

(* getUserMedia hands out a stream the tab knows nothing of. *)
LEMMA UnusedIs ==
  ASSUME NEW x, Whole(x), NEW s \in Unused(x)
  PROVE  /\ s \in Streams /\ x.media[s] = NoMedium /\ s # x.local /\ s # x.peer /\ s # None
         /\ \A k \in Jobs : x.jobs[k].stream # s
  BY NoneAssumption DEF Unused

(* A tab that has no stream has nothing live or connected. *)
LEMMA NothingLive ==
  ASSUME NEW x, Whole(x), OneMedium(x), x.local = None
  PROVE  x.peer = None /\ x.muted = FALSE /\ x.media = [s \in Streams |-> NoMedium]
<1>1. x.media \in Media /\ x.muted \in BOOLEAN
  BY TabFields DEF Whole
<1>2. x.peer = None /\ x.muted = FALSE
  BY <1>1 DEF OneMedium
<1>3. \A i \in Streams : x.media[i] = NoMedium
  <2> SUFFICES ASSUME NEW i \in Streams PROVE x.media[i] = NoMedium
    OBVIOUS
  <2>1. x.media[i].mic = "off" /\ x.media[i] = [NoMedium EXCEPT !.mic = x.media[i].mic]
    BY <1>2, NoneAssumption DEF OneMedium
  <2> QED
    BY <2>1 DEF NoMedium
<1> QED
  BY <1>1, <1>2, <1>3 DEF Media

LEMMA HandledInviting ==
  ASSUME NEW x, Whole(x), NEW k \in Jobs, x.jobs[k].at = "startMedia", NEW s \in Unused(x)
  PROVE  Handled(x, Inviting(x, k, s))
<1> DEFINE y == Inviting(x, k, s)
           j == InvitingJob(x.jobs[k], s)
<1>1. /\ x \in Tab /\ x.jobs \in JobTable /\ x.media \in Media /\ x.jobs[k].to \in Users
      /\ x.jobs[k] \in Job
  BY TabFields, JobsSet DEF Whole, JobKnows
<1>2. s \in Streams /\ s # None
  BY UnusedIs
<1>3. /\ y \in Tab /\ y.call = x.call /\ y.here = x.here /\ y.ring = x.ring /\ y.local = s
      /\ y.peer = x.peer /\ y.pending = x.pending /\ SameState(x, y) /\ y.timers = x.timers
      /\ y.media = [x.media EXCEPT ![s].mic = "on"]
      /\ y.jobs = [x.jobs EXCEPT ![k] = InvitingJob(x.jobs[k], s)]
  <2>1. Invited(x, k, s, y)
    BY <1>1, <1>2, InvitingFields
  <2> HIDE DEF y
  <2> QED
    BY <2>1 DEF Invited
<1> HIDE DEF y
<1>4. j.at = "ack" /\ j.stream = s
  BY <1>1 DEF InvitingJob, Job
<1>5. y.jobs[k] = j /\ \A l \in Jobs \ {k} : y.jobs[l] = x.jobs[l]
  BY <1>1, <1>3 DEF JobTable
<1>6. y.media[s].mic = "on" /\ \A i \in Streams : i # s => y.media[i] = x.media[i]
  BY <1>1, <1>2, <1>3 DEF Media, Medium
<1>7. \A i \in Streams : y.media[i].pc = x.media[i].pc /\ y.media[i].remote = x.media[i].remote
                         /\ y.media[i].ice = x.media[i].ice
  BY <1>1, <1>2, <1>3 DEF Media, Medium
<1> HIDE DEF j
<1>8. Whole(y)
  BY <1>2, <1>3, <1>4, <1>5 DEF Whole, JobKnows, SameState
<1>9. ASSUME Sound(x) PROVE Neat(y)
  <2>1. x.local = None
    BY <1>9 DEF Sound, Neat, MediumAskedFor
  <2>2. x.peer = None /\ x.muted = FALSE /\ x.media = [i \in Streams |-> NoMedium]
    BY <1>9, <2>1, NothingLive DEF Sound, Neat
  <2>3. \A l \in Jobs \ {k} : ~Asking(x.jobs[l])
    BY <1>9 DEF Sound, Tangled, Asking
  <2>4. OneMedium(y)
    <3>1. y.muted = FALSE /\ y.peer = None /\ y.local = s
      BY <1>3, <2>2 DEF SameState
    <3>2. \A i \in Streams : i # s => y.media[i].mic = "off" /\ y.media[i] = [NoMedium EXCEPT !.mic = y.media[i].mic]
      BY <1>6, <2>2, NoMediumIs DEF NoMedium
    <3>3. y.media[s] = [NoMedium EXCEPT !.mic = "on"]
      BY <1>2, <1>3, <2>2
    <3> QED
      BY <1>2, <1>6, <3>1, <3>2, <3>3 DEF OneMedium
  <2>5. NoCallNothing(y)
    <3>1. x.call = None /\ x.phase = "idle"
      BY <1>9 DEF Sound, Tangled, Neat, NoCallNothing
    <3> QED
      BY <1>3, <1>9, <3>1 DEF Sound, Neat, NoCallNothing, SameState
  <2>6. MediumAskedFor(y)
    BY <1>2, <1>3, <1>4, <1>5, <2>2, <2>3 DEF MediumAskedFor, Asking
  <2> QED
    BY <2>4, <2>5, <2>6 DEF Neat
<1> QED
  BY <1>8, <1>9 DEF Handled, y

LEMMA HandledAccepting ==
  ASSUME NEW x, Whole(x), NEW k \in Jobs, x.jobs[k].at = "acceptMedia", NEW s \in Unused(x)
  PROVE  Handled(x, Accepting(x, k, s))
<1> DEFINE y == Accepting(x, k, s)
<1>1. /\ x \in Tab /\ x.jobs \in JobTable /\ x.media \in Media /\ x.jobs[k].call \in Calls
  BY TabFields DEF Whole, JobKnows
<1>2. s \in Streams /\ s # None
  BY UnusedIs
<1>2a. Accepted(x, k, s, y)
  BY <1>1, <1>2, AcceptingFields
<1> HIDE DEF y
<1>3. /\ y \in Tab /\ y.call = x.call /\ y.here = TRUE /\ y.ring = x.ring /\ y.local = s
      /\ y.peer = s /\ y.pending = x.pending /\ SameState(x, y) /\ y.timers = x.timers
      /\ y.media = LiveMedia(x.media, s) /\ y.jobs = [x.jobs EXCEPT ![k] = Free]
  BY <1>2a DEF Accepted
<1>4. y.jobs[k] = Free /\ \A l \in Jobs \ {k} : y.jobs[l] = x.jobs[l]
  BY <1>1, <1>3 DEF JobTable
<1>5. y.media[s].mic = "on" /\ \A i \in Streams : i # s => y.media[i] = x.media[i]
  BY <1>1, <1>2, <1>3 DEF Media, Medium, LiveMedia
<1>6. Whole(y)
  BY <1>3, <1>4, FreeJobKnows DEF Whole, SameState
<1>7. ASSUME Sound(x) PROVE Neat(y)
  <2>1. x.local = None /\ x.call # None
    BY <1>1, <1>7, NoneAssumption DEF Sound, Neat, MediumAskedFor, Tangled
  <2>2. x.peer = None /\ x.muted = FALSE /\ x.media = [i \in Streams |-> NoMedium]
    BY <1>7, <2>1, NothingLive DEF Sound, Neat
  <2>3. \A l \in Jobs \ {k} : ~Asking(x.jobs[l])
    BY <1>7 DEF Sound, Tangled, Asking
  <2>4. OneMedium(y)
    <3>1. y.muted = FALSE
      BY <1>3, <2>2 DEF SameState
    <3>2. \A i \in Streams : i # s => y.media[i].mic = "off" /\ y.media[i] = [NoMedium EXCEPT !.mic = y.media[i].mic]
      BY <1>5, <2>2, NoMediumIs DEF NoMedium
    <3> QED
      BY <1>2, <1>3, <1>5, <3>1, <3>2 DEF OneMedium
  <2>5. NoCallNothing(y)
    BY <1>3, <1>7, <2>1 DEF Sound, Neat, NoCallNothing, SameState
  <2>6. MediumAskedFor(y)
    BY <1>3, <1>4, <2>1, <2>3, FreeIsJob DEF MediumAskedFor, Asking
  <2> QED
    BY <2>4, <2>5, <2>6 DEF Neat
<1> QED
  BY <1>6, <1>7 DEF Handled, y

(* A request sent on the way out. *)
LEMMA HandledThenSend ==
  ASSUME NEW x, NEW y, Handled(x, y), NEW rs \in Outs
  PROVE  Handled(x, Send(y, rs))
<1>1. Whole(y) /\ y \in Tab
  BY DEF Handled, Whole
<1>2. /\ Send(y, rs) \in Tab
      /\ SameRefs(y, Send(y, rs)) /\ SameState(y, Send(y, rs)) /\ SameWork(y, Send(y, rs))
  BY <1>1, SendFields
<1> DEFINE z == Send(y, rs)
<1> HIDE DEF z
<1>3. z \in Tab /\ SameRefs(y, z) /\ SameState(y, z) /\ SameWork(y, z)
  BY <1>2 DEF z
<1>4. /\ Whole(z) /\ (Tangled(z) <=> Tangled(y)) /\ (Neat(y) => Neat(z))
  <2>1. /\ z.phase = y.phase /\ z.outgoing = y.outgoing /\ z.muted = y.muted
        /\ z.media = y.media /\ z.jobs = y.jobs /\ z.timers \subseteq y.timers
    BY <1>3 DEF SameState, SameWork
  <2> QED
    BY <1>1, <1>3, <2>1, AlikeTabs
<1> QED
  BY <1>4 DEF Handled, z

LEMMA TeardownSends ==
  ASSUME NEW x \in Tab, NEW rs \in Outs
  PROVE  Teardown(Send(x, rs)) = Send(Teardown(x), rs)
<1> DEFINE w == Send(x, rs)
           y == Teardown(x)
           v == Teardown(w)
           u == Send(y, rs)
<1>1. /\ w \in Tab /\ SameRefs(x, w) /\ SameState(x, w) /\ SameWork(x, w)
      /\ w.out = x.out \cup rs
  BY SendFields
<1>2. /\ y \in Tab
      /\ y.call = None /\ y.here = FALSE /\ y.ring = None
      /\ y.local = None /\ y.peer = None /\ y.pending = {}
      /\ y.phase = "idle" /\ y.outgoing = FALSE
      /\ y.muted = FALSE /\ y.sees = x.sees
      /\ y.timers = x.timers \ {x.ring}
      /\ y.media = Stopped(x.media, x.local, x.peer)
      /\ y.jobs = x.jobs /\ y.out = x.out
  BY TeardownFields
<1> HIDE DEF w, y
<1>3. /\ v \in Tab
      /\ v.call = None /\ v.here = FALSE /\ v.ring = None
      /\ v.local = None /\ v.peer = None /\ v.pending = {}
      /\ v.phase = "idle" /\ v.outgoing = FALSE
      /\ v.muted = FALSE /\ v.sees = w.sees
      /\ v.timers = w.timers \ {w.ring}
      /\ v.media = Stopped(w.media, w.local, w.peer)
      /\ v.jobs = w.jobs /\ v.out = w.out
  BY <1>1, TeardownFields
<1>4. /\ u \in Tab /\ SameRefs(y, u) /\ SameState(y, u) /\ SameWork(y, u)
      /\ u.out = y.out \cup rs
  BY <1>2, SendFields
<1> HIDE DEF v, u
<1>5. u \in TabSet /\ v \in TabSet
  BY <1>3, <1>4, TabIs
<1>6. /\ u.call = v.call /\ u.here = v.here /\ u.ring = v.ring /\ u.local = v.local
      /\ u.peer = v.peer /\ u.pending = v.pending
  BY <1>2, <1>3, <1>4 DEF SameRefs
<1>7. u.phase = v.phase /\ u.outgoing = v.outgoing /\ u.muted = v.muted /\ u.sees = v.sees
  BY <1>1, <1>2, <1>3, <1>4 DEF SameState
<1>8. u.timers = v.timers /\ u.media = v.media /\ u.jobs = v.jobs
  BY <1>1, <1>2, <1>3, <1>4 DEF SameWork, SameRefs
<1>9. u.out = v.out
  BY <1>1, <1>2, <1>3, <1>4
<1>10. u = v
  BY <1>5, <1>6, <1>7, <1>8, <1>9 DEF TabSet
<1> QED
  BY <1>10 DEF u, v, w, y

LEMMA HandledLetGo ==
  ASSUME NEW x, Whole(x), x.call # None, NEW rs \in Outs
  PROVE  Handled(x, Teardown(Send(x, rs)))
<1>1. Teardown(Send(x, rs)) = Send(Teardown(x), rs)
  BY TeardownSends DEF Whole
<1>2. Handled(x, Teardown(x))
  BY HandledTeardown
<1>3. Handled(x, Send(Teardown(x), rs))
  BY <1>2, HandledThenSend
<1> QED
  BY <1>1, <1>3

LEMMA HandledAcceptFails ==
  ASSUME NEW x, Whole(x), NEW k \in Jobs, Asking(x.jobs[k]), NEW rs \in Outs
  PROVE  Handled(x, Teardown(Send(Return(x, k), rs)))
<1>1. Return(x, k) \in Tab
  BY ReturnFields DEF Whole
<1>2. Teardown(Send(Return(x, k), rs)) = Send(Teardown(Return(x, k)), rs)
  BY <1>1, TeardownSends
<1>3. Handled(x, Teardown(Return(x, k)))
  BY HandledGiveUp
<1>4. Handled(x, Send(Teardown(Return(x, k)), rs))
  BY <1>3, HandledThenSend
<1> QED
  BY <1>2, <1>4

LEMMA HandledMuted ==
  ASSUME NEW x, Whole(x), x.local # None
  PROVE  Handled(x, Muted(x))
<1> DEFINE y == Muted(x)
<1>1. x \in Tab /\ x.local \in Streams /\ x.media \in Media
  BY TabFields DEF Whole
<1>2. /\ y \in Tab /\ SameRefs(x, y)
      /\ y.phase = x.phase /\ y.outgoing = x.outgoing
      /\ y.muted = (x.media[x.local].mic = "on")
      /\ y.timers = x.timers /\ y.jobs = x.jobs
      /\ \/ x.media[x.local].mic = "on" /\ y.media = [x.media EXCEPT ![x.local].mic = "muted"]
         \/ x.media[x.local].mic # "on" /\ y.media = [x.media EXCEPT ![x.local].mic = "on"]
  BY <1>1, MutedFields
<1> HIDE DEF y
<1>3. /\ y.media[x.local].mic \in {"on", "muted"}
      /\ y.muted => y.media[x.local].mic = "muted"
      /\ \A i \in Streams : /\ i # x.local => y.media[i].mic = x.media[i].mic
                            /\ y.media[i] = [x.media[i] EXCEPT !.mic = y.media[i].mic]
  <2>1. \A i \in Streams : x.media[i] \in Medium
    BY <1>1 DEF Media
  <2>2. \A v \in {"on", "muted"} : LET m == [x.media EXCEPT ![x.local].mic = v] IN
          /\ m[x.local].mic = v
          /\ \A i \in Streams : /\ i # x.local => m[i] = x.media[i]
                                /\ m[i] = [x.media[i] EXCEPT !.mic = m[i].mic]
    BY <1>1, <2>1 DEF Media, Medium
  <2>3. CASE x.media[x.local].mic = "on" /\ y.media = [x.media EXCEPT ![x.local].mic = "muted"]
    <3> DEFINE m == [x.media EXCEPT ![x.local].mic = "muted"]
    <3>1. /\ m[x.local].mic = "muted"
          /\ \A i \in Streams : /\ i # x.local => m[i] = x.media[i]
                                /\ m[i] = [x.media[i] EXCEPT !.mic = m[i].mic]
      BY <2>2
    <3>2. y.media = m
      BY <2>3
    <3> HIDE DEF m
    <3> QED
      BY <3>1, <3>2
  <2>4. CASE x.media[x.local].mic # "on" /\ y.media = [x.media EXCEPT ![x.local].mic = "on"]
    <3> DEFINE m == [x.media EXCEPT ![x.local].mic = "on"]
    <3>1. /\ m[x.local].mic = "on"
          /\ \A i \in Streams : /\ i # x.local => m[i] = x.media[i]
                                /\ m[i] = [x.media[i] EXCEPT !.mic = m[i].mic]
      BY <2>2
    <3>2. y.media = m /\ y.muted = FALSE
      BY <1>2, <2>4
    <3> HIDE DEF m
    <3> QED
      BY <3>1, <3>2
  <2> QED
    BY <1>2, <2>3, <2>4
<1>4. Whole(y)
  BY <1>2 DEF Whole, SameRefs
<1>5. ASSUME Sound(x) PROVE Neat(y)
  <2>1. OneMedium(y)
    <3>1. OneMedium(x) /\ y.local = x.local /\ y.peer = x.peer
      BY <1>2, <1>5 DEF Sound, Neat, SameRefs
    <3>2. \A i \in Streams : i # x.peer => y.media[i] = [NoMedium EXCEPT !.mic = y.media[i].mic]
      <4> SUFFICES ASSUME NEW i \in Streams, i # x.peer
                   PROVE  y.media[i] = [NoMedium EXCEPT !.mic = y.media[i].mic]
        OBVIOUS
      <4>1. x.media[i] = [NoMedium EXCEPT !.mic = x.media[i].mic]
        BY <3>1 DEF OneMedium
      <4>2. y.media[i] = [x.media[i] EXCEPT !.mic = y.media[i].mic]
        BY <1>3
      <4> QED
        BY <4>1, <4>2 DEF NoMedium
    <3> QED
      BY <1>1, <1>3, <3>1, <3>2, NoneAssumption DEF OneMedium
  <2>2. NoCallNothing(y)
    BY <1>2, <1>5 DEF Sound, Neat, NoCallNothing, SameRefs
  <2>3. MediumAskedFor(y)
    BY <1>2, <1>5 DEF Sound, Neat, MediumAskedFor, SameRefs
  <2> QED
    BY <2>1, <2>2, <2>3 DEF Neat
<1> QED
  BY <1>4, <1>5 DEF Handled, y

LEMMA FreshIsNeat == Whole(FreshTab) /\ Sound(FreshTab)
<1> DEFINE y == FreshTab
<1>1. /\ y \in Tab
      /\ y.call = None /\ y.here = FALSE /\ y.ring = None
      /\ y.local = None /\ y.peer = None /\ y.pending = {}
      /\ y.phase = "idle" /\ y.outgoing = FALSE
      /\ y.muted = FALSE /\ y.timers = {}
      /\ y.media = [s \in Streams |-> NoMedium]
      /\ y.jobs = [k \in Jobs |-> Free]
  BY FreshTabFields
<1> HIDE DEF y
<1>2. Whole(y)
  BY <1>1, FreeJobKnows DEF Whole
<1>3. ~Tangled(y)
  BY <1>1, FreeIsJob DEF Tangled, Asking
<1>4. OneMedium(y)
  <2>1. \A s \in Streams : y.media[s] = NoMedium
    BY <1>1
  <2> QED
    BY <1>1, <2>1, NoMediumIs DEF OneMedium, NoMedium
<1>5. NoCallNothing(y) /\ MediumAskedFor(y)
  BY <1>1, FreeIsJob DEF NoCallNothing, MediumAskedFor
<1> QED
  BY <1>2, <1>3, <1>4, <1>5 DEF Sound, Neat, y

(* The description is set, and the candidates that waited are added.  What   *)
(* the tab becomes when the description is one for the connection it uses.   *)
Settled(x, j) == Flushed(Described(x, j.stream, j))
SettledAt(x, j, y) ==
  /\ y \in Tab /\ y.call = x.call /\ y.here = x.here /\ y.ring = x.ring /\ y.local = x.local
  /\ y.peer = x.peer /\ SameState(x, y) /\ y.timers = x.timers /\ y.jobs = x.jobs /\ y.out = x.out
  /\ y.pending = IF x.peer = None THEN x.pending ELSE {}
  /\ \A i \in Streams : y.media[i].mic = x.media[i].mic
  /\ \A i \in Streams : i # j.stream /\ i # x.peer => y.media[i] = x.media[i]
  /\ j.stream = x.peer =>
       /\ y.media[j.stream].remote = j.from /\ y.media[j.stream].pc = "stable"
       /\ y.media[j.stream].ice = x.media[j.stream].ice \cup x.pending

LEMMA SettledFields ==
  ASSUME NEW x \in Tab, NEW j \in Job, j.stream \in Streams, j.from \in Tabs
  PROVE  SettledAt(x, j, Settled(x, j))
<1> DEFINE s == j.stream
           w == Described(x, s, j)
           y == Settled(x, j)
           m == [x.media EXCEPT ![s].remote = j.from, ![s].pc = "stable"]
<1>1. x.media \in Media /\ x.peer \in Streams \cup {None} /\ j.from # None
  BY TabFields, NoneAssumption
<1>2. /\ w \in Tab /\ SameRefs(x, w) /\ SameState(x, w) /\ w.timers = x.timers
      /\ w.jobs = x.jobs /\ w.out = x.out /\ w.media = m
  BY DescribedFields
<1>3. /\ m[s].remote = j.from /\ m[s].pc = "stable"
      /\ m[s].ice = x.media[s].ice /\ m[s].mic = x.media[s].mic
      /\ \A i \in Streams : i # s => m[i] = x.media[i]
  BY <1>1 DEF Media, Medium
<1>4. y = Flushed(w)
  BY DEF Settled
<1> HIDE DEF m, w, y
<1>5. w.media \in Media
  BY <1>2, TabFields
<1>6. CASE x.peer = None
  <2>1. y = w
    BY <1>2, <1>4, <1>6 DEF Flushed, SameRefs
  <2>2. s # x.peer
    BY <1>6, NoneAssumption DEF s
  <2> QED
    BY <1>2, <1>3, <1>6, <2>1, <2>2 DEF SettledAt, SameRefs, y
<1>7. CASE x.peer # None
  <2>1. x.peer \in Streams /\ w.peer = x.peer /\ w.peer # None
    BY <1>1, <1>2, <1>7 DEF SameRefs
  <2>2. /\ y \in Tab
        /\ y.call = w.call /\ y.here = w.here /\ y.ring = w.ring
        /\ y.local = w.local /\ y.peer = w.peer
        /\ y.pending = {} /\ SameState(w, y)
        /\ y.timers = w.timers
        /\ y.jobs = w.jobs /\ y.out = w.out
        /\ y.media = IF w.media[w.peer].remote = None THEN w.media
                     ELSE [w.media EXCEPT ![w.peer].ice = @ \cup w.pending]
    BY <1>2, <1>4, <2>1, FlushedFields
  <2>3. /\ \A i \in Streams : y.media[i].mic = w.media[i].mic
        /\ \A i \in Streams : i # x.peer => y.media[i] = w.media[i]
        /\ y.media[x.peer].remote = w.media[x.peer].remote
        /\ y.media[x.peer].pc = w.media[x.peer].pc
        /\ w.media[x.peer].remote # None => y.media[x.peer].ice = w.media[x.peer].ice \cup w.pending
    <3>1. CASE w.media[w.peer].remote = None
      BY <2>1, <2>2, <3>1
    <3>2. CASE w.media[w.peer].remote # None
      <4> DEFINE n == [w.media EXCEPT ![x.peer].ice = @ \cup w.pending]
      <4>1. y.media = n
        BY <2>1, <2>2, <3>2
      <4>2. /\ \A i \in Streams : n[i].mic = w.media[i].mic
            /\ \A i \in Streams : i # x.peer => n[i] = w.media[i]
            /\ n[x.peer].remote = w.media[x.peer].remote
            /\ n[x.peer].pc = w.media[x.peer].pc
            /\ n[x.peer].ice = w.media[x.peer].ice \cup w.pending
        BY <1>5, <2>1 DEF Media, Medium
      <4> HIDE DEF n
      <4> QED
        BY <4>1, <4>2
    <3> QED
      BY <3>1, <3>2
  <2>4. /\ \A i \in Streams : y.media[i].mic = x.media[i].mic
        /\ \A i \in Streams : i # s /\ i # x.peer => y.media[i] = x.media[i]
    BY <1>2, <1>3, <2>3
  <2>5. s = x.peer => /\ y.media[s].remote = j.from /\ y.media[s].pc = "stable"
                      /\ y.media[s].ice = x.media[s].ice \cup x.pending
    <3>1. ASSUME s = x.peer PROVE w.media[x.peer].remote # None
      BY <1>1, <1>2, <1>3, <3>1
    <3> QED
      BY <1>2, <1>3, <2>3, <3>1 DEF SameRefs
  <2>6. y \in Tab /\ y.call = x.call /\ y.here = x.here /\ y.ring = x.ring /\ y.local = x.local
        /\ y.peer = x.peer /\ y.timers = x.timers /\ y.jobs = x.jobs /\ y.out = x.out
        /\ y.pending = {}
    BY <1>2, <2>2 DEF SameRefs
  <2>7. SameState(x, y)
    BY <1>2, <2>2 DEF SameState
  <2> QED
    BY <1>7, <2>4, <2>5, <2>6, <2>7 DEF SettledAt, y, s
<1> QED
  BY <1>6, <1>7

(* onSdp goes on. *)
Describing(x, k) ==
  LET j == x.jobs[k]
      pc == x.media[j.stream].pc
      y == Flushed(Described(x, j.stream, j))
  IN Return(IF pc = "none" \/ (j.kind = "answer" /\ pc # "offered") THEN x
            ELSE IF j.kind = "answer" THEN y
            ELSE Answered(y, j.stream, j.call), k)
Useless(x, j) ==
  LET pc == x.media[j.stream].pc IN pc = "none" \/ (j.kind = "answer" /\ pc # "offered")

(* What the tab becomes, when it is asked for one thing at a time. *)
DescribedBy(x, k, y) ==
  LET j == x.jobs[k] IN
  /\ y \in Tab /\ y.call = x.call /\ y.here = x.here /\ y.ring = x.ring /\ y.local = x.local
  /\ y.peer = x.peer /\ SameState(x, y) /\ y.timers = x.timers
  /\ y.jobs = [x.jobs EXCEPT ![k] = Free]
  /\ Useless(x, j) => y.pending = x.pending /\ y.media = x.media /\ y.out = x.out
  /\ ~Useless(x, j) =>
       /\ y.pending = IF x.peer = None THEN x.pending ELSE {}
       /\ \A i \in Streams : y.media[i].mic = x.media[i].mic
       /\ \A i \in Streams : i # j.stream /\ i # x.peer => y.media[i] = x.media[i]
       /\ j.stream = x.peer =>
            /\ y.media[j.stream].remote = j.from /\ y.media[j.stream].pc = "stable"
            /\ y.media[j.stream].ice = x.media[j.stream].ice \cup x.pending
       /\ y.out = IF j.kind = "answer" THEN x.out
                  ELSE x.out \cup {About("answer", j.call), About("ice", j.call)}

LEMMA DescribingFields ==
  ASSUME NEW x, Whole(x), NEW k \in Jobs, x.jobs[k].at = "describe"
  PROVE  DescribedBy(x, k, Describing(x, k))
<1> DEFINE j == x.jobs[k]
           w == Settled(x, j)
           a == Answered(w, j.stream, j.call)
           z == IF Useless(x, j) THEN x ELSE IF j.kind = "answer" THEN w ELSE a
           y == Describing(x, k)
<1>1. /\ x \in Tab /\ j \in Job /\ j.stream \in Streams /\ j.from \in Tabs /\ j.call \in Calls
      /\ x.jobs \in JobTable
  BY TabFields, JobsSet DEF Whole, JobKnows
<1>2. y = Return(z, k)
  BY DEF Describing, Useless, Settled
<1> HIDE DEF j
<1>3. SettledAt(x, j, w)
  BY <1>1, SettledFields
<1> HIDE DEF w
<1>4. w \in Tab
  BY <1>3 DEF SettledAt
<1>5. /\ a \in Tab
      /\ SameRefs(w, a) /\ SameState(w, a)
      /\ a.timers = w.timers /\ a.jobs = w.jobs
      /\ a.media = [w.media EXCEPT ![j.stream].pc = "stable"]
      /\ a.out = w.out \cup {About("answer", j.call), About("ice", j.call)}
  BY <1>1, <1>4, AnsweredFields
<1>6. /\ a.media[j.stream].pc = "stable"
      /\ a.media[j.stream].ice = w.media[j.stream].ice
      /\ a.media[j.stream].remote = w.media[j.stream].remote
      /\ \A i \in Streams : a.media[i].mic = w.media[i].mic
      /\ \A i \in Streams : i # j.stream => a.media[i] = w.media[i]
  <2>1. w.media \in Media
    BY <1>4, TabFields
  <2> QED
    BY <1>1, <1>5, <2>1 DEF Media, Medium
<1> HIDE DEF a, z, y
<1>7. z \in Tab
  BY <1>1, <1>4, <1>5 DEF z
<1>8. /\ y \in Tab /\ SameRefs(z, y) /\ SameState(z, y) /\ y.timers = z.timers
      /\ y.media = z.media /\ y.jobs = [z.jobs EXCEPT ![k] = Free] /\ y.out = z.out
  BY <1>2, <1>7, ReturnFields
<1>9. CASE Useless(x, j)
  <2>1. z = x
    BY <1>9 DEF z
  <2> QED
    BY <1>8, <1>9, <2>1 DEF DescribedBy, SameRefs, SameState, j, y
<1>10. CASE ~Useless(x, j) /\ j.kind = "answer"
  <2>1. z = w
    BY <1>10 DEF z
  <2>2. SettledAt(x, j, z)
    BY <1>3, <2>1
  <2>3. y.pending = z.pending /\ y.call = z.call /\ y.here = z.here /\ y.ring = z.ring
        /\ y.local = z.local /\ y.peer = z.peer
    BY <1>8 DEF SameRefs
  <2>4. SameState(x, y)
    BY <1>8, <2>2 DEF SameState, SettledAt
  <2>5. y.jobs = [x.jobs EXCEPT ![k] = Free] /\ y.timers = x.timers /\ y.out = x.out
    BY <1>8, <2>2 DEF SettledAt
  <2> QED
    BY <1>8, <1>10, <2>2, <2>3, <2>4, <2>5 DEF DescribedBy, SettledAt, j, y
<1>11. CASE ~Useless(x, j) /\ j.kind # "answer"
  <2>1. z = a
    BY <1>11 DEF z
  <2>2. y.pending = w.pending /\ y.call = w.call /\ y.here = w.here /\ y.ring = w.ring
        /\ y.local = w.local /\ y.peer = w.peer
    BY <1>5, <1>8, <2>1 DEF SameRefs
  <2>3. SameState(x, y)
    BY <1>3, <1>5, <1>8, <2>1 DEF SameState, SettledAt
  <2>4. y.jobs = [x.jobs EXCEPT ![k] = Free] /\ y.timers = x.timers
        /\ y.out = x.out \cup {About("answer", j.call), About("ice", j.call)}
    BY <1>3, <1>5, <1>8, <2>1 DEF SettledAt
  <2>5. y.media = a.media
    BY <1>8, <2>1
  <2>6. /\ \A i \in Streams : y.media[i].mic = x.media[i].mic
        /\ \A i \in Streams : i # j.stream /\ i # x.peer => y.media[i] = x.media[i]
        /\ y.media[j.stream].pc = "stable"
    BY <1>1, <1>3, <1>6, <2>5 DEF SettledAt
  <2>7. j.stream = x.peer =>
            /\ y.media[j.stream].remote = j.from
            /\ y.media[j.stream].ice = x.media[j.stream].ice \cup x.pending
    BY <1>1, <1>3, <1>6, <2>5 DEF SettledAt
  <2>8. /\ y.call = x.call /\ y.here = x.here /\ y.ring = x.ring /\ y.local = x.local
        /\ y.peer = x.peer
        /\ y.pending = IF x.peer = None THEN x.pending ELSE {}
    BY <1>3, <2>2 DEF SettledAt
  <2> QED
    BY <1>8, <1>11, <2>3, <2>4, <2>6, <2>7, <2>8 DEF DescribedBy, j, y
<1> QED
  BY <1>9, <1>10, <1>11

LEMMA HandledDescribing ==
  ASSUME NEW x, Whole(x), NEW k \in Jobs, x.jobs[k].at = "describe"
  PROVE  Handled(x, Describing(x, k))
<1> DEFINE y == Describing(x, k)
<1>1. DescribedBy(x, k, y)
  BY DescribingFields
<1> HIDE DEF y
<1>2. x \in Tab /\ x.jobs \in JobTable /\ x.jobs[k].stream \in Streams /\ x.pending \subseteq Tabs
  BY TabFields DEF Whole, JobKnows
<1>3. \A l \in Jobs : y.jobs[l] = x.jobs[l] \/ (x.jobs[l].at = "describe" /\ y.jobs[l] = Free)
  BY <1>1, <1>2 DEF DescribedBy, JobTable
<1>4. /\ y \in Tab /\ y.call = x.call /\ y.here = x.here /\ y.ring = x.ring
      /\ y.local = x.local /\ y.peer = x.peer /\ SameState(x, y) /\ y.timers = x.timers
  BY <1>1 DEF DescribedBy
<1>5. Whole(y)
  BY <1>3, <1>4, FreeJobKnows DEF Whole, SameState
<1>6. ASSUME Sound(x) PROVE Neat(y)
  <2>1. x.call = None => y.pending = {}
    <3>1. x.call = None => x.pending = {}
      BY <1>6 DEF Sound, Neat, NoCallNothing
    <3> QED
      BY <1>1, <3>1 DEF DescribedBy
  <2>2. \A i \in Streams : /\ y.media[i].mic = x.media[i].mic
                           /\ i # x.peer => y.media[i] = x.media[i]
    <3>1. CASE Useless(x, x.jobs[k])
      BY <1>1, <3>1 DEF DescribedBy
    <3>2. CASE ~Useless(x, x.jobs[k])
      <4>1. x.jobs[k].stream = x.peer
        <5>1. x.media[x.jobs[k].stream].pc # "none"
          BY <3>2 DEF Useless
        <5> QED
          BY <1>2, <1>6, <5>1, NoMediumIs DEF Sound, Neat, OneMedium, NoMedium
      <4> QED
        BY <1>1, <3>2, <4>1 DEF DescribedBy
    <3> QED
      BY <3>1, <3>2
  <2>3. Neat(x)
    BY <1>6 DEF Sound
  <2> QED
    BY <1>3, <1>4, <2>1, <2>2, <2>3, AtThePeer
<1> QED
  BY <1>5, <1>6 DEF Handled, y

-----------------------------------------------------------------------------
(* All tabs, action by action. *)

ServerTyped ==
  /\ phase \in [Calls -> {"idle", "ringing", "active", "over"}]
  /\ line \in [Calls -> SUBSET Users]
  /\ caller \in [Calls -> Users \cup {None}]
  /\ up \subseteq Tabs
  /\ gone \subseteq Users

(* With the types: who was never cut off is connected.                       *)
TypeInv ==
  TypeOK /\ \A t \in Tabs : Whole(tab[t]) /\ ("cut" \notin trouble[t] => t \in up)

(* Every tab makes a step of its own, or none. *)
Moved ==
  /\ tab' = [t \in Tabs |-> tab'[t]]
  /\ \A t \in Tabs : Handled(tab[t], tab'[t])

LEMMA HandledAfterSent ==
  ASSUME NEW x, Whole(x), NEW rs \in Outs, NEW y, Handled(Sent(x, rs), y)
  PROVE  Handled(x, y)
BY HandledSent DEF Handled

LEMMA RestIs ==
  ASSUME TypeInv, NEW t \in Tabs, NEW r
  PROVE  /\ Rest(t, r) = [i \in Tabs |-> Rest(t, r)[i]]
         /\ Rest(t, r)[t] = Sent(tab[t], tab[t].out \ {r})
         /\ \A i \in Tabs \ {t} : Rest(t, r)[i] = tab[i]
         /\ \A i \in Tabs : Whole(Rest(t, r)[i])
         /\ \A i \in Tabs : \A y : Handled(Rest(t, r)[i], y) => Handled(tab[i], y)
<1>1. tab \in [Tabs -> Tab] /\ tab[t] \in TabSet
  BY TabIs DEF TypeInv, TypeOK
<1>2. Rest(t, r) = [i \in Tabs |-> IF i = t THEN Sent(tab[t], tab[t].out \ {r}) ELSE tab[i]]
  BY <1>1 DEF Rest, Sent, TabSet
<1>3. tab[t].out \ {r} \in Outs
  BY <1>1 DEF TabSet, Outs
<1>4. Whole(tab[t]) /\ \A i \in Tabs : Whole(tab[i])
  BY DEF TypeInv
<1>5. Whole(Sent(tab[t], tab[t].out \ {r}))
  BY <1>3, <1>4, HandledSent DEF Handled
<1>6. \A y : Handled(Sent(tab[t], tab[t].out \ {r}), y) => Handled(tab[t], y)
  BY <1>3, <1>4, HandledAfterSent
<1> QED
  BY <1>2, <1>4, <1>5, <1>6

LEMMA Becomes ==
  ASSUME TypeInv, NEW t \in Tabs, NEW x, Become(t, x), Handled(tab[t], x)
  PROVE  Moved /\ ServerTyped'
<1>1. tab \in [Tabs -> Tab] /\ tab' = [tab EXCEPT ![t] = x]
  BY DEF TypeInv, TypeOK, Become
<1>2. \A i \in Tabs : Handled(tab[i], tab[i])
  BY HandledNothing DEF TypeInv
<1>3. Moved
  BY <1>1, <1>2 DEF Moved
<1>4. ServerTyped'
  BY DEF TypeInv, TypeOK, Become, serverVars, ServerTyped
<1> QED
  BY <1>3, <1>4

LEMMA ServerSteps ==
  ASSUME TypeInv, NEW c \in Calls
  PROVE  /\ \A a, b \in Users : Server!Ring(c, a, b) =>
              /\ phase' \in [Calls -> {"idle", "ringing", "active", "over"}]
              /\ line' \in [Calls -> SUBSET Users]
         /\ Server!Answer(c) \/ Server!End(c) =>
              /\ phase' \in [Calls -> {"idle", "ringing", "active", "over"}]
              /\ line' \in [Calls -> SUBSET Users]
BY DEF TypeInv, TypeOK, Server!Ring, Server!Answer, Server!End

LEMMA MovedByInvite ==
  ASSUME TypeInv, NEW t \in Tabs, NEW k \in Jobs, NEW v \in Users, NEW c \in Calls,
         HandleInvite(t, k, v, c)
  PROVE  Moved /\ ServerTyped'
<1> DEFINE rest == Rest(t, Invite(k, v))
<1>1. /\ rest = [i \in Tabs |-> rest[i]] /\ \A i \in Tabs : Whole(rest[i])
      /\ \A i \in Tabs : \A y : Handled(rest[i], y) => Handled(tab[i], y)
  BY RestIs
<1>2. tab' = [i \in Tabs |-> IF i = t THEN OnAck(rest[i], k, c)
                             ELSE IF Hears(i, {v}) THEN OnIncoming(rest[i], c)
                             ELSE rest[i]]
  BY DEF HandleInvite
<1> HIDE DEF rest
<1>3. \A i \in Tabs : Handled(rest[i], tab'[i])
  <2> SUFFICES ASSUME NEW i \in Tabs PROVE Handled(rest[i], tab'[i])
    OBVIOUS
  <2>1. Whole(rest[i])
    BY <1>1
  <2>2. Handled(rest[i], OnAck(rest[i], k, c))
    BY <2>1, HandledOnAck
  <2>3. Handled(rest[i], OnIncoming(rest[i], c))
    BY <2>1, HandledOnIncoming
  <2>4. Handled(rest[i], rest[i])
    BY <2>1, HandledNothing
  <2> QED
    BY <1>2, <2>2, <2>3, <2>4
<1>4. Moved
  BY <1>1, <1>2, <1>3 DEF Moved
<1>5. ServerTyped'
  <2>1. UserOf[t] \in Users
    BY UserOfAssumption
  <2> QED
    BY <2>1, ServerSteps DEF HandleInvite, Take, TypeInv, TypeOK, ServerTyped
<1> QED
  BY <1>4, <1>5

LEMMA MovedByRefusal ==
  ASSUME TypeInv, NEW t \in Tabs, NEW k \in Jobs, NEW v \in Users, RefuseInvite(t, k, v)
  PROVE  Moved /\ ServerTyped'
<1> DEFINE rest == Rest(t, Invite(k, v))
<1>1. /\ rest = [i \in Tabs |-> rest[i]] /\ \A i \in Tabs : Whole(rest[i])
      /\ \A i \in Tabs : \A y : Handled(rest[i], y) => Handled(tab[i], y)
  BY RestIs
<1>2. tab' = [rest EXCEPT ![t] = OnRefused(@, k)]
  BY DEF RefuseInvite
<1> HIDE DEF rest
<1>3. tab' = [i \in Tabs |-> IF i = t THEN OnRefused(rest[i], k) ELSE rest[i]]
  BY <1>1, <1>2
<1>4. \A i \in Tabs : Handled(rest[i], tab'[i])
  BY <1>1, <1>3, HandledOnRefused, HandledNothing
<1>5. Moved
  BY <1>1, <1>3, <1>4 DEF Moved
<1>6. ServerTyped'
  BY DEF RefuseInvite, Take, serverVars, TypeInv, TypeOK, ServerTyped
<1> QED
  BY <1>5, <1>6

(* The tabs of the two people hear that their call was answered or is over. *)
LEMMA MovedByTelling ==
  ASSUME TypeInv, NEW t \in Tabs, NEW r, NEW c \in Calls,
         \/ TellAccepted(Rest(t, r), c) \/ TellEnded(Rest(t, r), c)
         \/ TellEnded(tab, c) \/ tab' = Rest(t, r)
  PROVE  Moved
<1> DEFINE rest == Rest(t, r)
<1>1. /\ rest = [i \in Tabs |-> rest[i]] /\ \A i \in Tabs : Whole(rest[i])
      /\ \A i \in Tabs : \A y : Handled(rest[i], y) => Handled(tab[i], y)
  BY RestIs
<1>2. \A i \in Tabs : /\ Handled(rest[i], OnAccepted(rest[i], c))
                      /\ Handled(rest[i], OnEnded(rest[i], c))
                      /\ Handled(rest[i], rest[i])
  BY <1>1, HandledOnAccepted, HandledOnEnded, HandledNothing
<1>3. \A i \in Tabs : Handled(tab[i], OnEnded(tab[i], c)) /\ Handled(tab[i], tab[i])
  BY HandledOnEnded, HandledNothing DEF TypeInv
<1> HIDE DEF rest
<1>4. CASE TellAccepted(rest, c)
  BY <1>1, <1>2, <1>4 DEF TellAccepted, Moved
<1>5. CASE TellEnded(rest, c)
  BY <1>1, <1>2, <1>5 DEF TellEnded, Moved
<1>6. CASE TellEnded(tab, c)
  BY <1>3, <1>6 DEF TellEnded, Moved
<1>7. CASE tab' = rest
  BY <1>1, <1>2, <1>7 DEF Moved
<1> QED
  BY <1>4, <1>5, <1>6, <1>7 DEF rest

LEMMA MovedByAccept ==
  ASSUME TypeInv, NEW t \in Tabs, NEW c \in Calls, HandleAccept(t, c)
  PROVE  Moved /\ ServerTyped'
<1>1. Moved
  BY MovedByTelling DEF HandleAccept
<1>2. ServerTyped'
  BY ServerSteps DEF HandleAccept, Take, TypeInv, TypeOK, ServerTyped
<1> QED
  BY <1>1, <1>2

LEMMA MovedByClose ==
  ASSUME TypeInv, NEW t \in Tabs, NEW c \in Calls, NEW kind, HandleClose(t, c, kind)
  PROVE  Moved /\ ServerTyped'
<1>1. Moved
  BY MovedByTelling DEF HandleClose
<1>2. ServerTyped'
  BY ServerSteps DEF HandleClose, Take, TypeInv, TypeOK, ServerTyped
<1> QED
  BY <1>1, <1>2

LEMMA MovedByDrop ==
  ASSUME TypeInv, NEW u \in Users, Drop(u)
  PROVE  Moved /\ ServerTyped'
<1>1. \A i \in Tabs : Handled(tab[i], tab[i])
  BY HandledNothing DEF TypeInv
<1>2. tab = [i \in Tabs |-> tab[i]]
  BY DEF TypeInv, TypeOK
<1>3. CASE \E c \in Calls : Party(c, u) /\ Server!End(c) /\ TellEnded(tab, c)
  <2>1. PICK c \in Calls : Server!End(c) /\ TellEnded(tab, c)
    BY <1>3
  <2>2. \A i \in Tabs : Handled(tab[i], OnEnded(tab[i], c))
    BY HandledOnEnded DEF TypeInv
  <2>3. Moved
    BY <1>1, <2>1, <2>2 DEF Moved, TellEnded
  <2>4. ServerTyped'
    BY <2>1, ServerSteps DEF Drop, TypeInv, TypeOK, ServerTyped
  <2> QED
    BY <2>3, <2>4
<1>4. CASE UNCHANGED <<phase, line, tab>>
  BY <1>1, <1>2, <1>4 DEF Moved, Drop, TypeInv, TypeOK, ServerTyped
<1> QED
  BY <1>3, <1>4 DEF Drop

LEMMA MovedByRelay ==
  ASSUME TypeInv, NEW t \in Tabs, NEW c \in Calls, NEW kind \in {"offer", "answer", "ice"},
         Relay(t, c, kind)
  PROVE  Moved /\ ServerTyped'
<1> DEFINE rest == Rest(t, About(kind, c))
<1>1. /\ rest = [i \in Tabs |-> rest[i]] /\ \A i \in Tabs : Whole(rest[i])
      /\ \A i \in Tabs : \A y : Handled(rest[i], y) => Handled(tab[i], y)
  BY RestIs
<1>2. /\ tab' = [i \in Tabs |->
           IF Party(c, UserOf[t]) /\ Hears(i, line[c] \ {UserOf[t]})
             THEN IF kind = "ice" THEN OnIce(rest[i], c, t) ELSE OnSdp(rest[i], c, kind, t)
             ELSE rest[i]]
      /\ kind # "ice" => \A i \in Tabs : Slots(rest[i]) # {}
  BY DEF Relay
<1> HIDE DEF rest
<1>3. \A i \in Tabs : Handled(rest[i], tab'[i])
  <2> SUFFICES ASSUME NEW i \in Tabs PROVE Handled(rest[i], tab'[i])
    OBVIOUS
  <2>1. Whole(rest[i])
    BY <1>1
  <2>2. Handled(rest[i], OnIce(rest[i], c, t))
    BY <2>1, HandledOnIce
  <2>3. kind # "ice" => Handled(rest[i], OnSdp(rest[i], c, kind, t))
    BY <1>2, <2>1, HandledOnSdp
  <2>4. Handled(rest[i], rest[i])
    BY <2>1, HandledNothing
  <2> QED
    BY <1>2, <2>2, <2>3, <2>4
<1>4. Moved
  BY <1>1, <1>2, <1>3 DEF Moved
<1>5. ServerTyped'
  BY DEF Relay, Take, serverVars, TypeInv, TypeOK, ServerTyped
<1> QED
  BY <1>4, <1>5

LEMMA MovedByClick ==
  ASSUME TypeInv, NEW t \in Tabs, Click(t)
  PROVE  Moved /\ ServerTyped'
<1> DEFINE x == tab[t]
<1>1. Whole(x) /\ x \in Tab /\ x.call \in Calls \cup {None} /\ x.local \in Streams \cup {None}
  BY TabFields DEF TypeInv, Whole
<1>2. x.phase # "idle" => x.call \in Calls /\ x.call # None
  BY <1>1 DEF Whole
<1>3. ASSUME NEW v \in Users, Start(t, v) PROVE Moved /\ ServerTyped'
  <2> DEFINE j == [Free EXCEPT !.at = "startMedia", !.to = v]
  <2>1. j \in Job /\ j.at = "startMedia" /\ JobKnows(j)
    BY DEF Free, Job, JobKnows
  <2>2. Slots(x) # {} /\ x.phase = "idle" /\ Become(t, Spawn(x, j))
    BY <1>3 DEF Start
  <2> HIDE DEF j, x
  <2>3. ASSUME Sound(x), ~Tangled(Spawn(x, j)) PROVE x.local = None
    <3>1. PICK k \in Slots(x) : Spawn(x, j).jobs = [x.jobs EXCEPT ![k] = j]
      BY <1>1, <2>1, <2>2, SpawnFields
    <3>2. k \in Jobs /\ x.jobs[k] = Free /\ x.jobs \in JobTable
      BY <1>1, <3>1, TabFields DEF Slots
    <3>3. Spawn(x, j).jobs[k] = j /\ \A l \in Jobs \ {k} : Spawn(x, j).jobs[l] = x.jobs[l]
      BY <3>1, <3>2 DEF JobTable
    <3>4. \A l \in Jobs \ {k} : ~Asking(x.jobs[l])
      <4>1. Asking(j)
        BY <2>1 DEF Asking
      <4> QED
        BY <2>3, <3>2, <3>3, <4>1 DEF Tangled
    <3>5. \A l \in Jobs : x.jobs[l].at # "ack"
      BY <3>2, <3>4, FreeIsJob DEF Asking
    <3>6. x.call = None
      BY <1>1, <2>2 DEF Whole
    <3> QED
      BY <2>3, <3>5, <3>6 DEF Sound, Neat, MediumAskedFor
  <2>4. Handled(x, Spawn(x, j))
    BY <1>1, <2>1, <2>2, <2>3, HandledSpawn
  <2> QED
    BY <2>2, <2>4, Becomes DEF x
<1>4. ASSUME Accept(t) PROVE Moved /\ ServerTyped'
  <2> DEFINE j == [Free EXCEPT !.at = "acceptMedia", !.call = x.call]
  <2>1. Slots(x) # {} /\ x.phase = "ringing" /\ Become(t, Spawn(x, j))
    BY <1>4 DEF Accept
  <2>2. j \in Job /\ j.at = "acceptMedia" /\ JobKnows(j)
    BY <1>2, <2>1 DEF Free, Job, JobKnows
  <2> HIDE DEF j, x
  <2>3. ASSUME Sound(x), ~Tangled(Spawn(x, j)) PROVE x.local = None
    <3>1. PICK k \in Slots(x) : /\ Spawn(x, j).jobs = [x.jobs EXCEPT ![k] = j]
                                /\ SameRefs(x, Spawn(x, j))
      BY <1>1, <2>1, <2>2, SpawnFields
    <3>2. k \in Jobs /\ x.jobs \in JobTable
      BY <1>1, <3>1, TabFields DEF Slots
    <3>3. Spawn(x, j).jobs[k] = j
      BY <3>1, <3>2 DEF JobTable
    <3>4. ~x.here
      BY <2>2, <2>3, <3>1, <3>2, <3>3 DEF Tangled, SameRefs
    <3> QED
      BY <2>1, <2>3, <3>4 DEF Sound, Neat, NoCallNothing
  <2>4. Handled(x, Spawn(x, j))
    BY <1>1, <2>1, <2>2, <2>3, HandledSpawn
  <2> QED
    BY <2>1, <2>4, Becomes DEF x
<1>5. ASSUME Decline(t) PROVE Moved /\ ServerTyped'
  <2>1. x.call \in Calls /\ x.call # None
    BY <1>2, <1>5 DEF Decline
  <2>2. {About("decline", x.call)} \in Outs
    BY <2>1, AboutIs
  <2>3. Handled(x, Teardown(Send(x, {About("decline", x.call)})))
    BY <1>1, <2>1, <2>2, HandledLetGo
  <2> QED
    BY <1>5, <2>3, Becomes DEF Decline
<1>6. ASSUME HangUp(t) PROVE Moved /\ ServerTyped'
  <2>1. x.call \in Calls /\ x.call # None
    BY <1>2, <1>6 DEF HangUp
  <2>2. {About("hangup", x.call)} \in Outs
    BY <2>1, AboutIs
  <2>3. Handled(x, Teardown(Send(x, {About("hangup", x.call)})))
    BY <1>1, <2>1, <2>2, HandledLetGo
  <2> QED
    BY <1>6, <2>3, Becomes DEF HangUp
<1>7. ASSUME ToggleMute(t) PROVE Moved /\ ServerTyped'
  <2>1. x.local # None /\ Become(t, Muted(x))
    BY <1>7 DEF ToggleMute, Muted
  <2>2. Handled(x, Muted(x))
    BY <1>1, <2>1, HandledMuted
  <2> QED
    BY <2>1, <2>2, Becomes
<1> QED
  BY <1>3, <1>4, <1>5, <1>6, <1>7 DEF Click

LEMMA MovedByRun ==
  ASSUME TypeInv, NEW t \in Tabs, Run(t)
  PROVE  Moved /\ ServerTyped'
<1> DEFINE x == tab[t]
<1>1. Whole(x)
  BY DEF TypeInv
<1>2. ASSUME Rerender(t) PROVE Moved /\ ServerTyped'
  <2>1. Become(t, Seen(x))
    BY <1>2 DEF Rerender, Seen
  <2> QED
    BY <1>1, <2>1, HandledSeen, Becomes
<1>3. ASSUME NEW c \in Calls, TimerFires(t, c) PROVE Moved /\ ServerTyped'
  <2>1. Become(t, Rung(x, c))
    BY <1>3 DEF TimerFires, Rung
  <2> QED
    BY <1>1, <2>1, HandledRung, Becomes
<1>4. ASSUME NEW k \in Jobs, StartMedia(t, k) PROVE Moved /\ ServerTyped'
  <2>1. PICK s \in Unused(x) : Become(t, Inviting(x, k, s))
    <3>1. \A s : Inviting(x, k, s) =
                 Send([Acquire(x, s) EXCEPT !.jobs[k].at = "ack", !.jobs[k].stream = s],
                      {Invite(k, x.jobs[k].to)})
      BY DEF Inviting
    <3> QED
      BY <1>4, <3>1, Zenon DEF StartMedia
  <2>2. x.jobs[k].at = "startMedia"
    BY <1>4 DEF StartMedia, At
  <2>3. Handled(x, Inviting(x, k, s))
    BY <1>1, <2>2, HandledInviting
  <2> QED
    BY <2>1, <2>3, Becomes
<1>5. ASSUME NEW k \in Jobs, AcceptMedia(t, k) PROVE Moved /\ ServerTyped'
  <2>1. PICK s \in Unused(x) : Become(t, Accepting(x, k, s))
    BY <1>5 DEF AcceptMedia, Accepting
  <2>2. x.jobs[k].at = "acceptMedia"
    BY <1>5 DEF AcceptMedia, At
  <2>3. Handled(x, Accepting(x, k, s))
    BY <1>1, <2>2, HandledAccepting
  <2> QED
    BY <2>1, <2>3, Becomes
<1>6. ASSUME NEW k \in Jobs, Describe(t, k) PROVE Moved /\ ServerTyped'
  <2>1. Become(t, Describing(x, k))
    BY <1>6 DEF Describe, Describing
  <2>2. x.jobs[k].at = "describe"
    BY <1>6 DEF Describe, At
  <2>3. Handled(x, Describing(x, k))
    BY <1>1, <2>2, HandledDescribing
  <2> QED
    BY <2>1, <2>3, Becomes
<1> QED
  BY <1>2, <1>3, <1>4, <1>5, <1>6 DEF Run

(* A tab is cut off, closed, signed out or shown anew: it says nothing more, *)
(* is a fresh one, or stays as it is.                                        *)
Exits(t) == Disconnect(t) \/ Leave(t) \/ Unmount(t) \/ Mount(t)
Unplugged(t, y) ==
  /\ t \notin up /\ tab' = [tab EXCEPT ![t] = y] /\ UNCHANGED <<serverVars, up, gone>>

LEMMA ExitsAre ==
  ASSUME TypeInv, NEW t \in Tabs, Exits(t)
  PROVE  \E y \in {tab[t], Sent(tab[t], {}), FreshTab} : Hangs(t, y) \/ Unplugged(t, y)
<1>1. ASSUME Silenced(t) PROVE Hangs(t, Sent(tab[t], {}))
  BY <1>1 DEF Silenced, Sent
<1>2. CASE Disconnect(t)
  BY <1>1, <1>2 DEF Disconnect
<1>3. CASE Leave(t)
  BY <1>3 DEF Leave
<1>4. CASE Unmount(t)
  <2>1. CASE Silenced(t)
    BY <1>1, <2>1
  <2>2. CASE t \notin up /\ UNCHANGED <<serverVars, up, gone, tab>>
    <3>1. tab' = [tab EXCEPT ![t] = tab[t]]
      BY <2>2 DEF TypeInv, TypeOK
    <3>2. Unplugged(t, tab[t])
      BY <2>2, <3>1 DEF Unplugged
    <3> QED
      BY <3>2
  <2> QED
    BY <1>4, <2>1, <2>2 DEF Unmount
<1>5. CASE Mount(t)
  <2>1. Unplugged(t, FreshTab)
    BY <1>5 DEF Mount, Unplugged, TypeInv, TypeOK
  <2> QED
    BY <2>1
<1> QED
  BY <1>2, <1>3, <1>4, <1>5 DEF Exits

(* All that the tabs and the server have of an exit.                         *)
LEMMA ExitsLeave ==
  ASSUME TypeInv, NEW t \in Tabs, Exits(t)
  PROVE  /\ \A i \in Tabs : /\ tab'[i] \in {tab[i], Sent(tab[i], {}), FreshTab}
                            /\ i # t => tab'[i] = tab[i]
         /\ t \notin up' /\ up' \subseteq up /\ gone \subseteq gone'
         /\ UNCHANGED serverVars
<1>1. PICK y \in {tab[t], Sent(tab[t], {}), FreshTab} : Hangs(t, y) \/ Unplugged(t, y)
  BY ExitsAre
<1>2. tab' = [tab EXCEPT ![t] = y] /\ tab \in [Tabs -> Tab]
  BY <1>1 DEF Hangs, Unplugged, TypeInv, TypeOK
<1> QED
  BY <1>1, <1>2 DEF Hangs, Unplugged

LEMMA MovedByHanging ==
  ASSUME TypeInv, NEW t \in Tabs, NEW x, Hangs(t, x) \/ Unplugged(t, x), Handled(tab[t], x)
  PROVE  Moved /\ ServerTyped'
<1>1. tab \in [Tabs -> Tab] /\ tab' = [tab EXCEPT ![t] = x]
  BY DEF TypeInv, TypeOK, Hangs, Unplugged
<1>2. \A i \in Tabs : Handled(tab[i], tab[i])
  BY HandledNothing DEF TypeInv
<1>3. Moved
  BY <1>1, <1>2 DEF Moved
<1>4. UserOf[t] \in Users
  BY UserOfAssumption
<1>5. ServerTyped'
  BY <1>4 DEF TypeInv, TypeOK, Hangs, Unplugged, serverVars, ServerTyped
<1> QED
  BY <1>3, <1>5

LEMMA MovedByExit ==
  ASSUME TypeInv, NEW t \in Tabs, Exits(t)
  PROVE  Moved /\ ServerTyped'
<1> DEFINE x == tab[t]
<1>1. Whole(x) /\ {} \in Outs
  BY DEF TypeInv, Outs
<1>2. Handled(x, x) /\ Handled(x, Sent(x, {}))
  BY <1>1, HandledSent, HandledNothing
<1>3. Handled(x, FreshTab)
  BY FreshIsNeat DEF Handled, Sound
<1>4. PICK y \in {x, Sent(x, {}), FreshTab} : Hangs(t, y) \/ Unplugged(t, y)
  BY ExitsAre
<1> QED
  BY <1>2, <1>3, <1>4, MovedByHanging

LEMMA MovedByFailure ==
  ASSUME TypeInv, NEW t \in Tabs, Fail(t)
  PROVE  Moved /\ ServerTyped'
<1> DEFINE x == tab[t]
<1>1. Whole(x)
  BY DEF TypeInv
<1>2. ASSUME Exits(t) PROVE Moved /\ ServerTyped'
  BY <1>2, MovedByExit
<1>4. ASSUME NEW k \in Jobs, StartFails(t, k) PROVE Moved /\ ServerTyped'
  <2>1. Asking(x.jobs[k]) /\ Become(t, Teardown(Return(x, k)))
    BY <1>4 DEF StartFails, At, Asking
  <2>2. Handled(x, Teardown(Return(x, k)))
    BY <1>1, <2>1, HandledGiveUp
  <2> QED
    BY <2>1, <2>2, Becomes
<1>5. ASSUME NEW k \in Jobs, AcceptFails(t, k) PROVE Moved /\ ServerTyped'
  <2>1. x.jobs[k].at = "acceptMedia"
    BY <1>5 DEF AcceptFails, At
  <2>2. Asking(x.jobs[k]) /\ {About("decline", x.jobs[k].call)} \in Outs
    BY <1>1, <2>1, AboutIs DEF Asking, Whole, JobKnows
  <2>3. Handled(x, Teardown(Send(Return(x, k), {About("decline", x.jobs[k].call)})))
    BY <1>1, <2>2, HandledAcceptFails
  <2> QED
    BY <1>5, <2>3, Becomes DEF AcceptFails
<1> QED
  BY <1>2, <1>4, <1>5 DEF Fail, Exits

LEMMA StepsMove ==
  ASSUME TypeInv, Step
  PROVE  Moved /\ ServerTyped'
<1>1. ASSUME NEW t \in Tabs, HandleRequest(t) PROVE Moved /\ ServerTyped'
  BY <1>1, MovedByInvite, MovedByRefusal, MovedByAccept, MovedByClose, MovedByRelay
     DEF HandleRequest
<1>2. ASSUME NEW t \in Tabs, Connect(t) PROVE Moved /\ ServerTyped'
  <2>1. \A i \in Tabs : Handled(tab[i], tab[i])
    BY HandledNothing DEF TypeInv
  <2> QED
    BY <1>2, <2>1 DEF Connect, Moved, serverVars, TypeInv, TypeOK, ServerTyped
<1> QED
  BY <1>1, <1>2, MovedByClick, MovedByRun, MovedByFailure, MovedByExit, MovedByDrop
     DEF Step, Exits

-----------------------------------------------------------------------------
(* The tabs keep their shape. *)

LEMMA TroublesAre ==
  ASSUME TypeInv, Record
  PROVE  /\ trouble' \in [Tabs -> SUBSET Troubles]
         /\ \A t \in Tabs : trouble[t] \subseteq trouble'[t]
         /\ \A t \in Tabs :
              /\ Tangled(tab'[t]) => "tangled" \in trouble'[t]
              /\ AnsweredTwice(t) => "twice" \in trouble'[t]
              /\ GivesUp(t) => "gaveUp" \in trouble'[t]
              /\ Stale(t) => "stale" \in trouble'[t]
              /\ "cut" \notin trouble'[t] => t \in up /\ t \in up'
              /\ Untold(t) => "untold" \in trouble'[t]
              /\ Stranded(t) => "stranded" \in trouble'[t]
<1>1. trouble' = [t \in Tabs |-> trouble[t]
    \cup {w \in Troubles :
          \/ w = "tangled" /\ Tangled(tab'[t])
          \/ w = "twice" /\ AnsweredTwice(t)
          \/ w = "gaveUp" /\ GivesUp(t)
          \/ w = "stale" /\ Stale(t)
          \/ w = "cut" /\ t \in up \ up'
          \/ w = "untold" /\ Untold(t)
          \/ w = "stranded" /\ Stranded(t)}]
  BY DEF Record
<1>2. trouble \in [Tabs -> SUBSET Troubles]
  BY DEF TypeInv, TypeOK
<1>3. ASSUME NEW t \in Tabs
      PROVE  /\ trouble[t] \subseteq trouble'[t] /\ trouble'[t] \subseteq Troubles
             /\ Tangled(tab'[t]) => "tangled" \in trouble'[t]
             /\ AnsweredTwice(t) => "twice" \in trouble'[t]
             /\ GivesUp(t) => "gaveUp" \in trouble'[t]
             /\ Stale(t) => "stale" \in trouble'[t]
             /\ t \in up \ up' => "cut" \in trouble'[t]
             /\ Untold(t) => "untold" \in trouble'[t]
             /\ Stranded(t) => "stranded" \in trouble'[t]
  <2> DEFINE new == {w \in Troubles :
                       \/ w = "tangled" /\ Tangled(tab'[t])
                       \/ w = "twice" /\ AnsweredTwice(t)
                       \/ w = "gaveUp" /\ GivesUp(t)
                       \/ w = "stale" /\ Stale(t)
                       \/ w = "cut" /\ t \in up \ up'
                       \/ w = "untold" /\ Untold(t)
                       \/ w = "stranded" /\ Stranded(t)}
  <2>1. trouble'[t] = trouble[t] \cup new /\ trouble[t] \subseteq Troubles
    BY <1>1, <1>2
  <2>2. /\ new \subseteq Troubles
        /\ Tangled(tab'[t]) => "tangled" \in new
        /\ AnsweredTwice(t) => "twice" \in new
        /\ GivesUp(t) => "gaveUp" \in new
        /\ Stale(t) => "stale" \in new
        /\ t \in up \ up' => "cut" \in new
        /\ Untold(t) => "untold" \in new
        /\ Stranded(t) => "stranded" \in new
    BY DEF Troubles
  <2> HIDE DEF new
  <2> QED
    BY <2>1, <2>2
<1>4. \A t \in Tabs : "cut" \notin trouble'[t] => t \in up /\ t \in up'
  BY <1>3 DEF TypeInv
<1>5. trouble' \in [Tabs -> SUBSET Troubles]
  BY <1>1, <1>3
<1> QED
  BY <1>3, <1>4, <1>5

LEMMA TypesStart == Init => TypeInv /\ TabsAreNeat
<1> SUFFICES ASSUME Init PROVE TypeInv /\ TabsAreNeat
  OBVIOUS
<1>1. \A t \in Tabs : tab[t] = FreshTab /\ t \in up
  BY DEF Init
<1>2. TypeOK
  BY FreshTabFields DEF TypeOK, Init, Server!Init
<1> QED
  BY <1>1, <1>2, FreshIsNeat DEF TypeInv, TabsAreNeat

(* Only a tab that shows the application is connected.                       *)
LEMMA PagesStay ==
  ASSUME TypeInv, Step
  PROVE  up' \subseteq mounted' /\ mounted' \subseteq Tabs /\ left' \subseteq Tabs
<1>1. up \subseteq mounted /\ mounted \subseteq Tabs /\ left \subseteq Tabs
  BY DEF TypeInv, TypeOK
<1>2. ASSUME NEW t \in Tabs, HandleRequest(t) PROVE UNCHANGED <<up, pages>>
  BY <1>2, Zenon DEF HandleRequest, HandleInvite, RefuseInvite, HandleAccept, HandleClose, Relay, Take
<1>3. ASSUME NEW t \in Tabs, Click(t) PROVE UNCHANGED <<up, pages>>
  BY <1>3, Zenon DEF Click, Accept, Decline, HangUp, ToggleMute, Start, Become
<1>4. ASSUME NEW t \in Tabs, Run(t) PROVE UNCHANGED <<up, pages>>
  BY <1>4, Zenon DEF Run, Rerender, TimerFires, StartMedia, AcceptMedia, Describe, Become
<1>5. ASSUME NEW t \in Tabs, NEW k \in Jobs, StartFails(t, k) \/ AcceptFails(t, k)
      PROVE  UNCHANGED <<up, pages>>
  BY <1>5, Zenon DEF StartFails, AcceptFails, Become
<1>6. ASSUME NEW t \in Tabs, Disconnect(t) \/ Leave(t) \/ Unmount(t)
      PROVE  up' \subseteq mounted' /\ mounted' \subseteq Tabs /\ left' \subseteq Tabs
  BY <1>1, <1>6 DEF Disconnect, Leave, Unmount, Silenced, Hangs, pages
<1>7. ASSUME NEW t \in Tabs, Mount(t) \/ Connect(t)
      PROVE  up' \subseteq mounted' /\ mounted' \subseteq Tabs /\ left' \subseteq Tabs
  BY <1>1, <1>7 DEF Mount, Connect, pages
<1>8. ASSUME NEW u \in Users, Drop(u) PROVE UNCHANGED <<up, pages>>
  BY <1>8, Zenon DEF Drop
<1> QED
  BY <1>1, <1>2, <1>3, <1>4, <1>5, <1>6, <1>7, <1>8 DEF Step, Fail, pages

LEMMA TypesStay ==
  ASSUME TypeInv, Next
  PROVE  TypeInv'
<1>1. Moved /\ ServerTyped'
  BY StepsMove DEF Next
<1>2. \A t \in Tabs : Whole(tab'[t]) /\ tab'[t] \in Tab
  BY <1>1 DEF Moved, Handled, Whole
<1>3. tab' \in [Tabs -> Tab]
  BY <1>1, <1>2 DEF Moved
<1>4. /\ trouble' \in [Tabs -> SUBSET Troubles]
      /\ \A t \in Tabs : "cut" \notin trouble'[t] => t \in up'
  BY TroublesAre DEF Next
<1> QED
  BY <1>1, <1>2, <1>3, <1>4, PagesStay DEF Next, TypeInv, TypeOK, ServerTyped

LEMMA NeatnessStays ==
  ASSUME TypeInv, TabsAreNeat, Next
  PROVE  TabsAreNeat'
<1>1. Moved
  BY StepsMove DEF Next
<1>2. ASSUME NEW t \in Tabs, "tangled" \notin trouble'[t] PROVE Sound(tab'[t])
  <2>1. ~Tangled(tab'[t]) /\ "tangled" \notin trouble[t]
    BY <1>2, TroublesAre DEF Next
  <2> QED
    BY <1>1, <2>1 DEF Moved, Handled, TabsAreNeat, Sound
<1> QED
  BY <1>2 DEF TabsAreNeat

(* A tab on the login page hears nothing and is not clicked; what it waited  *)
(* for makes it let go of a stream, not take one for a call.                 *)
LEMMA LoginPageStays ==
  ASSUME TypeInv, Step, NEW t \in Tabs, t \notin mounted, t \notin mounted',
         ~Tangled(tab[t]), Relinquished(tab[t])
  PROVE  Relinquished(tab'[t])
<1> DEFINE x == tab[t]
<1>1. t \notin up /\ Whole(x) /\ x \in Tab /\ tab \in [Tabs -> Tab]
  BY TabFields DEF TypeInv, TypeOK, Whole
<1>2. ASSUME NEW m \in Tabs, HandleRequest(m) PROVE tab'[t] = x
  <2>1. ASSUME NEW r, Take(m, r) PROVE m # t /\ Rest(m, r)[t] = x
    <3>1. m # t
      BY <1>1, <2>1 DEF Take
    <3>2. \A i \in Tabs \ {m} : Rest(m, r)[i] = tab[i]
      BY RestIs
    <3> QED
      BY <3>1, <3>2
  <2>2. ASSUME NEW c \in Calls, HandleAccept(m, c) PROVE tab'[t] = x
    BY <1>1, <2>1, <2>2 DEF HandleAccept, TellAccepted, Hears
  <2>3. ASSUME NEW c \in Calls, NEW kind, HandleClose(m, c, kind) PROVE tab'[t] = x
    BY <1>1, <2>1, <2>3 DEF HandleClose, TellEnded, Hears
  <2>4. ASSUME NEW c \in Calls, NEW kind, Relay(m, c, kind) PROVE tab'[t] = x
    BY <1>1, <2>1, <2>4 DEF Relay, Hears
  <2>5. ASSUME NEW k \in Jobs, NEW v \in Users, NEW c \in Calls, HandleInvite(m, k, v, c)
        PROVE  tab'[t] = x
    BY <1>1, <2>1, <2>5 DEF HandleInvite, Hears
  <2>6. ASSUME NEW k \in Jobs, NEW v \in Users, RefuseInvite(m, k, v) PROVE tab'[t] = x
    <3>1. m # t /\ Rest(m, Invite(k, v))[t] = x
      BY <2>1, <2>6 DEF RefuseInvite
    <3>2. Rest(m, Invite(k, v)) = [i \in Tabs |-> Rest(m, Invite(k, v))[i]]
      BY RestIs
    <3> QED
      BY <2>6, <3>1, <3>2 DEF RefuseInvite
  <2> QED
    BY <1>2, <2>2, <2>3, <2>4, <2>5, <2>6 DEF HandleRequest
<1>3. ASSUME NEW m \in Tabs, m # t, NEW y, Become(m, y) PROVE tab'[t] = x
  BY <1>1, <1>3 DEF Become
<1>4. ASSUME NEW m \in Tabs, Click(m) PROVE tab'[t] = x
  <2>1. m # t
    BY <1>4 DEF Click
  <2> QED
    <3>1. \E y : Become(m, y)
      BY <1>4, Zenon DEF Click, Accept, Decline, HangUp, ToggleMute, Start
    <3> QED
      BY <1>3, <2>1, <3>1
<1>5. ASSUME NEW y, Become(t, y), y.call \in {x.call, None}, y.local \in {x.local, None},
             \A k \in Jobs : y.jobs[k] \in {x.jobs[k], Free}
      PROVE  Relinquished(tab'[t])
  <2>1. tab'[t] = y
    BY <1>1, <1>5 DEF Become
  <2> QED
    BY <1>5, <2>1, FreeIsJob DEF Relinquished
<1>6. ASSUME NEW m \in Tabs, Run(m) PROVE Relinquished(tab'[t])
  <2>1. CASE m # t
    <3>1. \E y : Become(m, y)
      BY <1>6, Zenon DEF Run, Rerender, TimerFires, StartMedia, AcceptMedia, Describe
    <3>2. tab'[t] = x
      BY <1>3, <2>1, <3>1
    <3> QED
      BY <3>2
  <2>2. ASSUME Rerender(t) PROVE Relinquished(tab'[t])
    <3>1. Become(t, Seen(x))
      BY <2>2 DEF Rerender, Seen
    <3> QED
      BY <1>1, <1>5, <3>1, SeenFields DEF SameRefs, SameWork
  <2>3. ASSUME NEW c \in Calls, TimerFires(t, c) PROVE Relinquished(tab'[t])
    <3>1. Become(t, Rung(x, c))
      BY <2>3 DEF TimerFires, Rung
    <3> QED
      BY <1>1, <1>5, <3>1, RungFields DEF SameRefs, SameWork
  <2>4. ASSUME NEW k \in Jobs, StartMedia(t, k) PROVE Relinquished(tab'[t])
    <3>1. PICK s \in Unused(x) : Become(t, Inviting(x, k, s))
      <4>1. \A s : Inviting(x, k, s) =
                   Send([Acquire(x, s) EXCEPT !.jobs[k].at = "ack", !.jobs[k].stream = s],
                        {Invite(k, x.jobs[k].to)})
        BY DEF Inviting
      <4> QED
        BY <2>4, <4>1, Zenon DEF StartMedia
    <3>2. s \in Streams /\ x.jobs[k].to \in Users
      BY <1>1, <2>4, UnusedIs DEF StartMedia, At, Whole, JobKnows
    <3>3. Invited(x, k, s, Inviting(x, k, s))
      BY <1>1, <3>2, InvitingFields
    <3>4. x.call = None
      BY <2>4 DEF StartMedia, At, Tangled
    <3>5. tab'[t] = Inviting(x, k, s)
      BY <1>1, <3>1 DEF Become
    <3>6. \A l \in Jobs : Inviting(x, k, s).jobs[l].at \in {"ack", x.jobs[l].at}
      <4>1. x.jobs \in JobTable
        BY <1>1, TabFields
      <4>2. x.jobs[k] \in Job /\ InvitingJob(x.jobs[k], s).at = "ack"
        BY <4>1 DEF JobTable, InvitingJob, Job
      <4> QED
        BY <3>3, <4>1, <4>2 DEF Invited, JobTable
    <3>7. Inviting(x, k, s).call = None
      BY <3>3, <3>4 DEF Invited
    <3> QED
      BY <3>5, <3>6, <3>7 DEF Relinquished
  <2>5. ASSUME NEW k \in Jobs, AcceptMedia(t, k) PROVE FALSE
    BY <2>5 DEF AcceptMedia, At, Relinquished
  <2>6. ASSUME NEW k \in Jobs, Describe(t, k) PROVE Relinquished(tab'[t])
    <3>1. Become(t, Describing(x, k))
      BY <2>6 DEF Describe, Describing
    <3>2. DescribedBy(x, k, Describing(x, k))
      BY <1>1, <2>6, DescribingFields DEF Describe, At
    <3>3. x.jobs \in JobTable
      BY <1>1, TabFields
    <3> QED
      BY <1>5, <3>1, <3>2, <3>3 DEF DescribedBy, JobTable
  <2> QED
    BY <1>6, <2>1, <2>2, <2>3, <2>4, <2>5, <2>6 DEF Run
<1>7. ASSUME NEW m \in Tabs, NEW k \in Jobs, StartFails(m, k) \/ AcceptFails(m, k)
      PROVE  Relinquished(tab'[t])
  <2>1. CASE m # t
    BY <1>3, <1>7, <2>1 DEF StartFails, AcceptFails
  <2>2. CASE m = t
    <3>1. Become(t, Teardown(Return(x, k)))
      BY <1>7, <2>2 DEF StartFails, AcceptFails, At, Relinquished
    <3>2. Return(x, k) \in Tab /\ Return(x, k).jobs = [x.jobs EXCEPT ![k] = Free]
      BY <1>1, ReturnFields
    <3>3. x.jobs \in JobTable
      BY <1>1, TabFields
    <3>4. \A l \in Jobs : Return(x, k).jobs[l] \in {x.jobs[l], Free}
      BY <3>2, <3>3 DEF JobTable
    <3>5. LET y == Teardown(Return(x, k)) IN
          y.call = None /\ y.local = None /\ y.jobs = Return(x, k).jobs
      BY <3>2, TeardownFields
    <3> QED
      BY <1>5, <3>1, <3>4, <3>5
  <2> QED
    BY <2>1, <2>2
<1>8. ASSUME NEW m \in Tabs, Exits(m) PROVE tab'[t] = x
  <2>1. CASE m = t
    BY <1>1, <1>8, <2>1 DEF Exits, Disconnect, Leave, Unmount, Mount, Silenced, Hangs
  <2>2. CASE m # t
    BY <1>8, <2>2, ExitsLeave
  <2> QED
    BY <2>1, <2>2
<1>9. ASSUME NEW u \in Users, Drop(u) PROVE tab'[t] = x
  BY <1>1, <1>9 DEF Drop, TellEnded, Hears
<1>10. ASSUME NEW m \in Tabs, Connect(m) PROVE tab'[t] = x
  BY <1>10 DEF Connect
<1>11. ASSUME NEW m \in Tabs, Fail(m) PROVE Relinquished(tab'[t])
  BY <1>7, <1>8, <1>11 DEF Fail, Exits
<1> QED
  BY <1>2, <1>4, <1>6, <1>8, <1>9, <1>10, <1>11 DEF Step, Exits

(* The steps that change the pages.                                          *)
LEMMA PageSteps ==
  ASSUME TypeInv, Step, NEW t \in Tabs
  PROVE  \/ left' \ left \subseteq Tabs \ {t} /\ (t \in mounted => t \in mounted')
         \/ Unmount(t) \/ Mount(t)
<1>1. ASSUME NEW m \in Tabs, HandleRequest(m) PROVE UNCHANGED pages
  BY <1>1, Zenon DEF HandleRequest, HandleInvite, RefuseInvite, HandleAccept, HandleClose, Relay, Take
<1>2. ASSUME NEW m \in Tabs, Click(m) PROVE UNCHANGED pages
  BY <1>2, Zenon DEF Click, Accept, Decline, HangUp, ToggleMute, Start, Become
<1>3. ASSUME NEW m \in Tabs, Run(m) PROVE UNCHANGED pages
  BY <1>3, Zenon DEF Run, Rerender, TimerFires, StartMedia, AcceptMedia, Describe, Become
<1>4. ASSUME NEW m \in Tabs, NEW k \in Jobs, StartFails(m, k) \/ AcceptFails(m, k)
      PROVE  UNCHANGED pages
  BY <1>4, Zenon DEF StartFails, AcceptFails, Become
<1>5. ASSUME NEW m \in Tabs, Disconnect(m) \/ Leave(m) \/ Connect(m)
      PROVE  left' \subseteq left /\ mounted' = mounted
  BY <1>5 DEF Disconnect, Leave, Connect, pages
<1>6. ASSUME NEW m \in Tabs, m # t, Unmount(m) \/ Mount(m)
      PROVE  left' \subseteq left \cup {m} /\ (t \in mounted => t \in mounted')
  BY <1>6 DEF Unmount, Mount
<1>7. ASSUME NEW u \in Users, Drop(u) PROVE UNCHANGED pages
  BY <1>7, Zenon DEF Drop
<1>8. left' \subseteq Tabs
  BY PagesStay
<1> QED
  BY <1>1, <1>2, <1>3, <1>4, <1>5, <1>6, <1>7, <1>8 DEF Step, Fail, pages

(* Nobody asks, and nothing is held for a call: nothing is live.             *)
LEMMA LettingGo ==
  ASSUME TypeInv, NEW t \in Tabs, Sound(tab[t]), \A k \in Jobs : ~Asking(tab[t].jobs[k]),
         tab[t].call = None \/ Relinquished(tab[t])
  PROVE  tab[t].media = Silence
<1>1. Whole(tab[t]) /\ OneMedium(tab[t]) /\ MediumAskedFor(tab[t])
  BY DEF TypeInv, Sound, Neat
<1>2. tab[t].local = None
  BY <1>1 DEF MediumAskedFor, Asking, Relinquished
<1> QED
  BY <1>1, <1>2, NothingLive DEF Silence

LEMMA CleanlinessStays ==
  ASSUME TypeInv, TabsAreNeat, NothingLeftBehind, Next
  PROVE  NothingLeftBehind'
<1> SUFFICES ASSUME NEW t \in Tabs, trouble'[t] \cap {"tangled", "stranded"} = {}
             PROVE  t \notin left' /\ (t \notin mounted' => Relinquished(tab'[t]))
  BY DEF NothingLeftBehind
<1>1. Step /\ trouble[t] \cap {"tangled", "stranded"} = {} /\ ~Stranded(t)
  BY TroublesAre DEF Next
<1>2. Sound(tab[t]) /\ t \notin left /\ (t \notin mounted => Relinquished(tab[t]))
  BY <1>1 DEF NothingLeftBehind, TabsAreNeat
<1>3. CASE t \notin mounted /\ t \notin mounted'
  <2>1. Relinquished(tab'[t])
    BY <1>1, <1>2, <1>3, LoginPageStays DEF Sound
  <2>2. t \notin left'
    BY <1>1, <1>2, <1>3, PageSteps DEF Unmount, Mount
  <2> QED
    BY <2>1, <2>2
<1>4. CASE Mount(t)
  <2>1. t \notin mounted /\ \A k \in Jobs : ~Asking(tab[t].jobs[k])
    BY <1>4 DEF Mount
  <2>2. tab[t].media = Silence
    BY <1>2, <2>1, LettingGo
  <2> QED
    BY <1>2, <1>4, <2>2 DEF Mount
<1>5. CASE Unmount(t)
  <2>1. t \in mounted \ mounted' /\ left' = left
    BY <1>5 DEF Unmount
  <2>2. Relinquished(tab[t])
    BY <1>1, <2>1 DEF Stranded, Relinquished
  <2>3. tab[t] \in Tab /\ tab \in [Tabs -> Tab] /\ {} \in Outs
    BY DEF TypeInv, TypeOK, Outs
  <2>4. tab'[t] \in {tab[t], Sent(tab[t], {})}
    BY <1>5, <2>3 DEF Unmount, Silenced, Hangs, Sent
  <2>5. Relinquished(Sent(tab[t], {}))
    BY <2>2, <2>3, SentFields DEF Relinquished, SameRefs, SameWork
  <2> QED
    BY <1>2, <2>1, <2>2, <2>4, <2>5
<1> QED
  BY <1>1, <1>2, <1>3, <1>4, <1>5, PageSteps

LEMMA CleanlinessStarts == Init => NothingLeftBehind
  BY DEF Init, NothingLeftBehind
LEMMA CleanlinessStutters == NothingLeftBehind /\ UNCHANGED vars => NothingLeftBehind'
  BY DEF NothingLeftBehind, Relinquished, vars, pages

LEMMA NeatnessMeans ==
  TypeInv /\ TabsAreNeat /\ NothingLeftBehind => MicrophoneFollowsTheCall
<1> SUFFICES ASSUME TypeInv, TabsAreNeat, NothingLeftBehind, NEW t \in Tabs,
                    trouble[t] \cap {"tangled", "stranded"} = {}
             PROVE  /\ (t \notin mounted \/ tab[t].call = None)
                         /\ (\A k \in Jobs : ~Asking(tab[t].jobs[k]))
                         => tab[t].media = Silence
                    /\ t \notin left
                    /\ tab[t].muted => \A s \in Streams : tab[t].media[s].mic # "on"
  BY DEF MicrophoneFollowsTheCall
<1>1. Sound(tab[t]) /\ t \notin left /\ (t \notin mounted => Relinquished(tab[t]))
  BY DEF NothingLeftBehind, TabsAreNeat
<1>2. ASSUME t \notin mounted \/ tab[t].call = None, \A k \in Jobs : ~Asking(tab[t].jobs[k])
      PROVE  tab[t].media = Silence
  BY <1>1, <1>2, LettingGo
<1>3. ASSUME tab[t].muted PROVE \A s \in Streams : tab[t].media[s].mic # "on"
  BY <1>1, <1>3 DEF Sound, Neat, OneMedium
<1> QED
  BY <1>1, <1>2, <1>3

LEMMA TypesStutter == TypeInv /\ UNCHANGED vars => TypeInv'
  BY DEF TypeInv, TypeOK, vars, pages
LEMMA NeatnessStutters == TabsAreNeat /\ UNCHANGED vars => TabsAreNeat'
  BY DEF TabsAreNeat, vars

(* Whatever is clicked, answered, lost or refused, every tab stays a tab: in *)
(* particular a tab shows a phase exactly when it holds a call, and a job    *)
(* knows the person, call, stream and tab it will go on with.                *)
THEOREM TypeCorrect == Spec => []TypeInv
<1>1. TypeInv /\ [Next]_vars => TypeInv'
  BY TypesStay, TypesStutter
<1> QED
  BY <1>1, TypesStart, PTL DEF Spec

(* The refs of one tab fit together: one stream at most, the connection is   *)
(* built for it, the ring time-out is that of the call shown.                *)
THEOREM TabsStayNeat == Spec => []TabsAreNeat
<1>1. TypeInv /\ TabsAreNeat /\ [Next]_vars => TabsAreNeat'
  BY NeatnessStays, NeatnessStutters
<1> QED
  BY <1>1, TypesStart, TypeCorrect, PTL DEF Spec

(* Camera and microphone go out with the call, and who is shown as muted is  *)
(* not heard: also at a sign-out, but for one in a call.                     *)
THEOREM MicrophonesFollow == Spec => []MicrophoneFollowsTheCall
<1>1. TypeInv /\ TabsAreNeat /\ NothingLeftBehind /\ [Next]_vars => NothingLeftBehind'
  BY CleanlinessStays, CleanlinessStutters
<1> QED
  BY <1>1, CleanlinessStarts, TypeCorrect, TabsStayNeat, NeatnessMeans, PTL DEF Spec

-----------------------------------------------------------------------------
(* What a tab shows.  But for an invitation, no step makes a tab show a call *)
(* it did not show.                                                          *)

Holds(x, y) == y.call \in {x.call, None}
Keeping == \A t \in Tabs : Holds(tab[t], tab'[t])

LEMMA EventsHold ==
  ASSUME NEW x, Whole(x), NEW c \in Calls
  PROVE  /\ Holds(x, OnAccepted(x, c)) /\ Holds(x, OnEnded(x, c))
         /\ x.call = c => OnEnded(x, c).call = None
         /\ \A k \in Jobs : Holds(x, OnRefused(x, k))
         /\ \A from \in Tabs : Holds(x, OnIce(x, c, from))
         /\ \A from \in Tabs, kind \in {"offer", "answer"} :
              Slots(x) # {} => Holds(x, OnSdp(x, c, kind, from))
<1>1. x \in Tab /\ x.here \in BOOLEAN /\ x.sees \in BOOLEAN
  BY TabFields DEF Whole
<1>2. Teardown(x).call = None
  BY <1>1, TeardownFields
<1>3. Holds(x, OnAccepted(x, c))
  <2>1. CASE x.call = c /\ (x.here \/ x.sees)
    <3>1. OnAccepted(x, c).call = c
      BY <1>1, <2>1, OnAcceptedFields DEF Pickup
    <3> QED
      BY <2>1, <3>1 DEF Holds
  <2>2. CASE ~(x.call = c /\ (x.here \/ x.sees))
    BY <1>1, <1>2, <2>2 DEF OnAccepted, Holds
  <2> QED
    BY <2>1, <2>2
<1>4. Holds(x, OnEnded(x, c)) /\ (x.call = c => OnEnded(x, c).call = None)
  BY <1>2 DEF OnEnded, Holds
<1>5. ASSUME NEW k \in Jobs PROVE Holds(x, OnRefused(x, k))
  <2>1. Return(x, k) \in Tab
    BY <1>1, ReturnFields
  <2>2. Teardown(Return(x, k)).call = None
    BY <2>1, TeardownFields
  <2> QED
    BY <2>2 DEF OnRefused, Holds
<1>6. ASSUME NEW from \in Tabs PROVE Holds(x, OnIce(x, c, from))
  <2>1. x.call = c => OnIce(x, c, from).call = x.call
    BY <1>1, OnIceFields DEF Iced
  <2> QED
    BY <2>1 DEF OnIce, Holds
<1>7. ASSUME NEW from \in Tabs, NEW kind \in {"offer", "answer"}, Slots(x) # {}
      PROVE  Holds(x, OnSdp(x, c, kind, from))
  <2>1. CASE x.call # c \/ x.peer = None
    BY <2>1 DEF OnSdp, Holds
  <2>2. CASE x.call = c /\ x.peer # None
    <3> DEFINE j == [Free EXCEPT !.at = "describe", !.call = c, !.stream = x.peer,
                                 !.kind = kind, !.from = from]
    <3>1. x.peer \in Streams
      BY <1>1, <2>2, TabFields
    <3>2. j \in Job
      BY <3>1 DEF Free, Job
    <3>3. OnSdp(x, c, kind, from) = Spawn(x, j)
      BY <2>2 DEF OnSdp
    <3> HIDE DEF j
    <3>4. SameRefs(x, Spawn(x, j))
      BY <1>1, <1>7, <3>2, SpawnFields
    <3> QED
      BY <3>3, <3>4 DEF SameRefs, Holds
  <2> QED
    BY <2>1, <2>2
<1> QED
  BY <1>3, <1>4, <1>5, <1>6, <1>7

LEMMA RestHolds ==
  ASSUME TypeInv, NEW t \in Tabs, NEW r
  PROVE  \A i \in Tabs : Rest(t, r)[i].call = tab[i].call
<1>1. /\ Rest(t, r)[t] = Sent(tab[t], tab[t].out \ {r})
      /\ \A i \in Tabs \ {t} : Rest(t, r)[i] = tab[i]
  BY RestIs
<1>2. tab[t] \in Tab /\ tab[t].out \ {r} \in Outs
  BY TabFields DEF TypeInv, Whole, Outs
<1>3. SameRefs(tab[t], Rest(t, r)[t])
  BY <1>1, <1>2, SentFields
<1> QED
  BY <1>1, <1>3 DEF SameRefs

(* What the server says of a call, once it is Party to it or not any more.  *)
LEMMA ServerKeeps ==
  ASSUME TypeInv, NEW c \in Calls, NEW d \in Calls, NEW u, Party(d, u)
  PROVE  /\ \A a, b : Server!Ring(c, a, b) => Party(d, u)'
         /\ Server!Answer(c) => Party(d, u)'
         /\ Server!End(c) /\ c # d => Party(d, u)'
BY DEF Party, Server!Ring, Server!Answer, Server!End, Server!Engaged, TypeInv, TypeOK

Hushed == \A t \in Tabs : tab'[t] = Sent(tab[t], tab'[t].out)
Told(c) ==
  Hushed \/ \A t \in Tabs : tab[t].call = c /\ Hears(t, line[c]) => tab'[t].call = None

LEMMA TellEndedIs ==
  ASSUME NEW tabs, NEW c, TellEnded(tabs, c)
  PROVE  \/ tab' = [t \in Tabs |-> tabs[t]]
         \/ tab' = [t \in Tabs |-> IF Hears(t, line[c]) THEN OnEnded(tabs[t], c) ELSE tabs[t]]
<1>1. PICK settled \in BOOLEAN :
        tab' = [t \in Tabs |-> IF settled /\ Hears(t, line[c])
                                 THEN OnEnded(tabs[t], c) ELSE tabs[t]]
  BY DEF TellEnded
<1>2. CASE settled = TRUE
  BY <1>1, <1>2
<1>3. CASE settled = FALSE
  BY <1>1, <1>3
<1> QED
  BY <1>2, <1>3

LEMMA KeptByTelling ==
  ASSUME TypeInv, NEW t \in Tabs, NEW r, NEW c \in Calls
  PROVE  /\ TellAccepted(Rest(t, r), c) => Keeping
         /\ TellEnded(Rest(t, r), c) => Keeping /\ Told(c)
         /\ TellEnded(tab, c) => Keeping /\ Told(c)
         /\ tab' = Rest(t, r) => Keeping
<1> DEFINE rest == Rest(t, r)
<1>1. /\ rest = [i \in Tabs |-> rest[i]] /\ \A i \in Tabs : Whole(rest[i])
  BY RestIs
<1>2. \A i \in Tabs : rest[i].call = tab[i].call
  BY RestHolds
<1> HIDE DEF rest
<1>3. \A i \in Tabs : /\ Holds(tab[i], OnAccepted(rest[i], c))
                      /\ Holds(tab[i], OnEnded(rest[i], c))
                      /\ tab[i].call = c => OnEnded(rest[i], c).call = None
                      /\ Holds(tab[i], rest[i])
  BY <1>1, <1>2, EventsHold DEF Holds
<1>4. \A i \in Tabs : /\ Holds(tab[i], OnEnded(tab[i], c))
                      /\ tab[i].call = c => OnEnded(tab[i], c).call = None
                      /\ Holds(tab[i], tab[i])
  BY EventsHold DEF TypeInv, Holds
<1>5. TellAccepted(rest, c) => Keeping
  BY <1>3 DEF TellAccepted, Keeping
<1>6. ASSUME NEW tabs, tabs \in {rest, tab}, TellEnded(tabs, c) PROVE Keeping /\ Told(c)
  <2>1. \A i \in Tabs : /\ Holds(tab[i], OnEnded(tabs[i], c)) /\ Holds(tab[i], tabs[i])
                        /\ tab[i].call = c => OnEnded(tabs[i], c).call = None
    BY <1>3, <1>4, <1>6
  <2>2. \A i \in Tabs : tabs[i] = Sent(tab[i], tabs[i].out)
    <3> SUFFICES ASSUME NEW i \in Tabs PROVE tabs[i] = Sent(tab[i], tabs[i].out)
      OBVIOUS
    <3>1. tab[i] \in TabSet
      BY TabIs DEF TypeInv, TypeOK
    <3>2. rest[t] = Sent(tab[t], tab[t].out \ {r}) /\ \A j \in Tabs \ {t} : rest[j] = tab[j]
      BY RestIs DEF rest
    <3>3. tabs[i] \in {tab[i], Sent(tab[i], tab[i].out \ {r})}
      BY <1>6, <3>2
    <3> QED
      BY <3>1, <3>3 DEF Sent, TabSet
  <2>3. CASE tab' = [i \in Tabs |-> tabs[i]]
    BY <2>1, <2>2, <2>3 DEF Keeping, Told, Hushed
  <2>4. CASE tab' = [i \in Tabs |-> IF Hears(i, line[c]) THEN OnEnded(tabs[i], c) ELSE tabs[i]]
    BY <2>1, <2>4 DEF Keeping, Told
  <2> QED
    BY <1>6, <2>3, <2>4, TellEndedIs
<1>7. /\ TellEnded(rest, c) => Keeping /\ Told(c)
      /\ TellEnded(tab, c) => Keeping /\ Told(c)
  BY <1>6
<1>8. tab' = rest => Keeping
  BY <1>3 DEF Keeping
<1> QED
  BY <1>5, <1>7, <1>8 DEF rest

(* A call that is over is told to everybody who is connected, or to nobody. *)
Closes(c) == Server!End(c) /\ Told(c)
Untouched == UNCHANGED <<phase, line>>

LEMMA KeptByTab ==
  ASSUME TypeInv, NEW t \in Tabs, NEW x, x.call \in {tab[t].call, None},
         Become(t, x)
  PROVE  Keeping /\ Untouched /\ up' = up
BY DEF Become, Keeping, Holds, TypeInv, TypeOK, Untouched, serverVars

LEMMA KeptByExit ==
  ASSUME TypeInv, NEW t \in Tabs, Exits(t)
  PROVE  Keeping /\ Untouched /\ up' \subseteq up
<1>1. \A i \in Tabs : Sent(tab[i], {}).call = tab[i].call
  <2>1. \A i \in Tabs : tab[i] \in Tab /\ {} \in Outs
    BY DEF TypeInv, TypeOK, Outs
  <2> QED
    BY <2>1, SentFields DEF SameRefs
<1>2. \A i \in Tabs : tab'[i] \in {tab[i], Sent(tab[i], {}), FreshTab}
  BY ExitsLeave
<1>3. Keeping
  BY <1>1, <1>2, FreshTabFields DEF Keeping, Holds
<1> QED
  BY <1>3, ExitsLeave DEF Untouched, serverVars

LEMMA KeptByRelay ==
  ASSUME TypeInv, NEW t \in Tabs, NEW c \in Calls, NEW kind \in {"offer", "answer", "ice"},
         Relay(t, c, kind)
  PROVE  Keeping /\ Untouched
<1> DEFINE rest == Rest(t, About(kind, c))
<1>1. \A j \in Tabs : Whole(rest[j]) /\ rest[j].call = tab[j].call
  <2>1. \A j \in Tabs : Whole(rest[j])
    BY RestIs
  <2>2. \A j \in Tabs : rest[j].call = tab[j].call
    BY RestHolds
  <2> QED
    BY <2>1, <2>2
<1>2. /\ tab' = [j \in Tabs |->
           IF Party(c, UserOf[t]) /\ Hears(j, line[c] \ {UserOf[t]})
             THEN IF kind = "ice" THEN OnIce(rest[j], c, t) ELSE OnSdp(rest[j], c, kind, t)
             ELSE rest[j]]
      /\ kind # "ice" => \A j \in Tabs : Slots(rest[j]) # {}
  BY DEF Relay
<1> HIDE DEF rest
<1>3. ASSUME NEW j \in Tabs PROVE Holds(tab[j], tab'[j])
  <2>1. Holds(rest[j], OnIce(rest[j], c, t))
    BY <1>1, EventsHold
  <2>2. kind # "ice" => Holds(rest[j], OnSdp(rest[j], c, kind, t))
    BY <1>1, <1>2, EventsHold
  <2> QED
    BY <1>1, <1>2, <2>1, <2>2 DEF Holds
<1> QED
  BY <1>3 DEF Keeping, Relay, Untouched, serverVars

LEMMA KeptByClick ==
  ASSUME TypeInv, NEW t \in Tabs, Click(t)
  PROVE  Keeping /\ Untouched /\ up' = up
<1> DEFINE x == tab[t]
<1>1. Whole(x) /\ x \in Tab /\ x.call \in Calls \cup {None} /\ x.local \in Streams \cup {None}
  BY TabFields DEF TypeInv, Whole
<1>2. x.phase # "idle" => x.call \in Calls
  BY <1>1 DEF Whole
<1>3. ASSUME NEW v \in Users, Start(t, v) PROVE Keeping /\ Untouched /\ up' = up
  <2> DEFINE j == [Free EXCEPT !.at = "startMedia", !.to = v]
  <2>1. j \in Job
    BY DEF Free, Job
  <2>2. Slots(x) # {} /\ Become(t, Spawn(x, j))
    BY <1>3 DEF Start
  <2> HIDE DEF j
  <2>3. SameRefs(x, Spawn(x, j))
    BY <1>1, <2>1, <2>2, SpawnFields
  <2> QED
    BY <2>2, <2>3, KeptByTab DEF SameRefs
<1>4. ASSUME Accept(t) PROVE Keeping /\ Untouched /\ up' = up
  <2> DEFINE j == [Free EXCEPT !.at = "acceptMedia", !.call = x.call]
  <2>1. j \in Job
    BY <1>1 DEF Free, Job
  <2>2. Slots(x) # {} /\ Become(t, Spawn(x, j))
    BY <1>4 DEF Accept
  <2> HIDE DEF j
  <2>3. SameRefs(x, Spawn(x, j))
    BY <1>1, <2>1, <2>2, SpawnFields
  <2> QED
    BY <2>2, <2>3, KeptByTab DEF SameRefs
<1>5. ASSUME Decline(t) \/ HangUp(t) PROVE Keeping /\ Untouched /\ up' = up
  <2>1. \A rs \in Outs : Teardown(Send(x, rs)).call = None
    BY <1>1, SendFields, TeardownFields
  <2>2. {About("decline", x.call)} \in Outs /\ {About("hangup", x.call)} \in Outs
    BY <1>2, <1>5, AboutIs DEF Decline, HangUp
  <2>3. CASE Decline(t)
    <3>1. Become(t, Teardown(Send(x, {About("decline", x.call)})))
      BY <2>3 DEF Decline
    <3> QED
      BY <2>1, <2>2, <3>1, KeptByTab
  <2>4. CASE HangUp(t)
    <3>1. Become(t, Teardown(Send(x, {About("hangup", x.call)})))
      BY <2>4 DEF HangUp
    <3> QED
      BY <2>1, <2>2, <3>1, KeptByTab
  <2> QED
    BY <1>5, <2>3, <2>4
<1>6. ASSUME ToggleMute(t) PROVE Keeping /\ Untouched /\ up' = up
  <2>1. x.local # None /\ Become(t, Muted(x))
    BY <1>6 DEF ToggleMute, Muted
  <2>2. SameRefs(x, Muted(x))
    BY <1>1, <2>1, MutedFields
  <2> QED
    BY <2>1, <2>2, KeptByTab DEF SameRefs
<1> QED
  BY <1>3, <1>4, <1>5, <1>6 DEF Click

LEMMA KeptByRun ==
  ASSUME TypeInv, NEW t \in Tabs, Run(t)
  PROVE  Keeping /\ Untouched /\ up' = up
<1> DEFINE x == tab[t]
<1>1. Whole(x) /\ x \in Tab
  BY TabFields DEF TypeInv, Whole
<1>2. ASSUME Rerender(t) PROVE Keeping /\ Untouched /\ up' = up
  <2>1. Become(t, Seen(x))
    BY <1>2 DEF Rerender, Seen
  <2> QED
    BY <1>1, <2>1, SeenFields, KeptByTab DEF SameRefs
<1>3. ASSUME NEW c \in Calls, TimerFires(t, c) PROVE Keeping /\ Untouched /\ up' = up
  <2>1. Become(t, Rung(x, c))
    BY <1>3 DEF TimerFires, Rung
  <2> QED
    BY <1>1, <2>1, RungFields, KeptByTab DEF SameRefs
<1>4. ASSUME NEW k \in Jobs, StartMedia(t, k) PROVE Keeping /\ Untouched /\ up' = up
  <2>1. PICK s \in Unused(x) : Become(t, Inviting(x, k, s))
    <3>1. \A s : Inviting(x, k, s) =
                 Send([Acquire(x, s) EXCEPT !.jobs[k].at = "ack", !.jobs[k].stream = s],
                      {Invite(k, x.jobs[k].to)})
      BY DEF Inviting
    <3> QED
      BY <1>4, <3>1, Zenon DEF StartMedia
  <2>2. s \in Streams /\ x.jobs[k].to \in Users
    BY <1>1, <1>4, UnusedIs DEF StartMedia, At, Whole, JobKnows
  <2>3. Invited(x, k, s, Inviting(x, k, s))
    BY <1>1, <2>2, InvitingFields
  <2> QED
    BY <2>1, <2>3, KeptByTab DEF Invited
<1>5. ASSUME NEW k \in Jobs, AcceptMedia(t, k) PROVE Keeping /\ Untouched /\ up' = up
  <2>1. PICK s \in Unused(x) : Become(t, Accepting(x, k, s))
    BY <1>5 DEF AcceptMedia, Accepting
  <2>2. s \in Streams /\ x.jobs[k].call \in Calls
    BY <1>1, <1>5, UnusedIs DEF AcceptMedia, At, Whole, JobKnows
  <2>3. Accepted(x, k, s, Accepting(x, k, s))
    BY <1>1, <2>2, AcceptingFields
  <2> QED
    BY <2>1, <2>3, KeptByTab DEF Accepted
<1>6. ASSUME NEW k \in Jobs, Describe(t, k) PROVE Keeping /\ Untouched /\ up' = up
  <2>1. Become(t, Describing(x, k))
    BY <1>6 DEF Describe, Describing
  <2>2. DescribedBy(x, k, Describing(x, k))
    BY <1>1, <1>6, DescribingFields DEF Describe, At
  <2> QED
    BY <2>1, <2>2, KeptByTab DEF DescribedBy
<1> QED
  BY <1>2, <1>3, <1>4, <1>5, <1>6 DEF Run

LEMMA KeptByFailure ==
  ASSUME TypeInv, NEW t \in Tabs, Fail(t)
  PROVE  Keeping /\ Untouched /\ up' \subseteq up
<1> DEFINE x == tab[t]
<1>1. Whole(x) /\ x \in Tab
  BY TabFields DEF TypeInv, Whole
<1>2. ASSUME Exits(t) PROVE Keeping /\ Untouched /\ up' \subseteq up
  BY <1>2, KeptByExit
<1>4. ASSUME NEW k \in Jobs, StartFails(t, k) PROVE Keeping /\ Untouched /\ up' \subseteq up
  <2>1. Become(t, Teardown(Return(x, k)))
    BY <1>4 DEF StartFails
  <2>2. Teardown(Return(x, k)).call = None
    BY <1>1, ReturnFields, TeardownFields
  <2> QED
    BY <2>1, <2>2, KeptByTab
<1>5. ASSUME NEW k \in Jobs, AcceptFails(t, k) PROVE Keeping /\ Untouched /\ up' \subseteq up
  <2>1. {About("decline", x.jobs[k].call)} \in Outs
    BY <1>1, <1>5, AboutIs DEF AcceptFails, At, Whole, JobKnows
  <2>2. Become(t, Teardown(Send(Return(x, k), {About("decline", x.jobs[k].call)})))
    BY <1>5 DEF AcceptFails
  <2>3. Return(x, k) \in Tab
    BY <1>1, ReturnFields
  <2>4. Send(Return(x, k), {About("decline", x.jobs[k].call)}) \in Tab
    BY <2>1, <2>3, SendFields
  <2>5. Teardown(Send(Return(x, k), {About("decline", x.jobs[k].call)})).call = None
    BY <2>4, TeardownFields
  <2> QED
    BY <2>2, <2>5, KeptByTab
<1> QED
  BY <1>2, <1>4, <1>5 DEF Fail, Exits

LEMMA InviteShows ==
  ASSUME TypeInv, NEW t \in Tabs, NEW k \in Jobs, NEW v \in Users, NEW c \in Calls,
         HandleInvite(t, k, v, c)
  PROVE  \A i \in Tabs : \/ Holds(tab[i], tab'[i])
                         \/ tab'[i].call = c /\ UserOf[i] \in {UserOf[t], v}
<1> DEFINE rest == Rest(t, Invite(k, v))
<1>1. \A i \in Tabs : Whole(rest[i]) /\ rest[i].call = tab[i].call
  <2>1. \A i \in Tabs : Whole(rest[i])
    BY RestIs
  <2>2. \A i \in Tabs : rest[i].call = tab[i].call
    BY RestHolds
  <2> QED
    BY <2>1, <2>2
<1>2. tab' = [i \in Tabs |-> IF i = t THEN OnAck(rest[i], k, c)
                             ELSE IF Hears(i, {v}) THEN OnIncoming(rest[i], c)
                             ELSE rest[i]]
  BY DEF HandleInvite
<1> HIDE DEF rest
<1> SUFFICES ASSUME NEW i \in Tabs
             PROVE  \/ Holds(tab[i], tab'[i])
                    \/ tab'[i].call = c /\ UserOf[i] \in {UserOf[t], v}
  OBVIOUS
<1> DEFINE x == rest[i]
<1>3. Whole(x) /\ x \in Tab /\ x.call = tab[i].call
  BY <1>1 DEF Whole
<1> HIDE DEF x
<1>4. OnAck(x, k, c).call \in {x.call, c}
  <2>1. CASE x.jobs[k].at = "ack"
    <3>1. x.jobs[k].stream \in Streams
      BY <1>3, <2>1 DEF Whole, JobKnows
    <3>2. Acked(x, k, c, OnAck(x, k, c))
      BY <1>3, <2>1, <3>1, OnAckFields
    <3> QED
      BY <3>2 DEF Acked
  <2>2. CASE x.jobs[k].at # "ack"
    BY <2>2 DEF OnAck
  <2> QED
    BY <2>1, <2>2
<1>5. OnIncoming(x, c).call \in {x.call, c}
  <2>1. CASE x.call = None
    BY <1>3, <2>1, OnIncomingFields
  <2>2. CASE x.call # None
    <3>1. {About("decline", c)} \in Outs
      BY AboutIs
    <3>2. SameRefs(x, Send(x, {About("decline", c)}))
      BY <1>3, <3>1, SendFields
    <3> QED
      BY <2>2, <3>2 DEF OnIncoming, SameRefs
  <2> QED
    BY <2>1, <2>2
<1>6. tab'[i] = IF i = t THEN OnAck(x, k, c)
                ELSE IF Hears(i, {v}) THEN OnIncoming(x, c) ELSE x
  BY <1>2 DEF x
<1> QED
  BY <1>3, <1>4, <1>5, <1>6 DEF Holds, Hears

LEMMA RealityStays ==
  ASSUME TypeInv, CallsAreReal, Next
  PROVE  CallsAreReal'
<1>2. \A t \in Tabs : "cut" \notin trouble'[t] => t \in up /\ t \in up'
  BY TroublesAre DEF Next
<1> SUFFICES ASSUME NEW i \in Tabs, trouble'[i] \cap {"cut", "untold"} = {}
             PROVE  \A d \in Calls : tab'[i].call = d => Party(d, UserOf[i])'
  <2>1. \A t \in Tabs : tab'[t].call \in Calls \cup {None}
    BY TypesStay, TabFields DEF TypeInv, Whole
  <2> QED
    BY <1>2, <2>1 DEF CallsAreReal, Party, Server!Engaged
<1>1. trouble[i] \cap {"cut", "untold"} = {} /\ ~Untold(i) /\ i \in up
  BY <1>2, TroublesAre DEF Next
<1>3. tab[i].call \in Calls \cup {None} /\ (\A d \in Calls : tab[i].call = d => Party(d, UserOf[i]))
  BY <1>1, NoneAssumption, TabFields DEF CallsAreReal, TypeInv, Whole
<1>4. CASE Keeping /\ Untouched
  <2>1. tab'[i].call \in {tab[i].call, None}
    BY <1>4 DEF Keeping, Holds
  <2>2. \A d \in Calls : Party(d, UserOf[i]) => Party(d, UserOf[i])'
    BY <1>4 DEF Untouched, Party, Server!Engaged
  <2> QED
    BY <1>3, <2>1, <2>2, NoneAssumption
<1>5. ASSUME NEW c \in Calls, Closes(c), Keeping
      PROVE  \A d \in Calls : tab'[i].call = d => Party(d, UserOf[i])'
  <2>1. tab'[i].call \in {tab[i].call, None}
    BY <1>5 DEF Keeping, Holds
  <2>2. tab[i].call = c => tab'[i].call = None
    <3>1. ASSUME tab[i].call = c PROVE phase[c] # "over" /\ phase'[c] = "over" /\ Hears(i, line[c])
      BY <1>1, <1>3, <1>5, <3>1
         DEF Closes, Hears, Party, Server!End, Server!Engaged, TypeInv, TypeOK
    <3>2. tab[i].call = c => ~Hushed
      BY <1>1, <3>1 DEF Untold, Hushed, Sent
    <3> QED
      BY <1>5, <3>1, <3>2 DEF Closes, Told
  <2>3. \A d \in Calls : d # c /\ Party(d, UserOf[i]) => Party(d, UserOf[i])'
    BY <1>5, ServerKeeps DEF Closes
  <2> QED
    BY <1>3, <2>1, <2>2, <2>3, NoneAssumption
<1>6. ASSUME NEW t \in Tabs, NEW k \in Jobs, NEW v \in Users, NEW c \in Calls,
             HandleInvite(t, k, v, c)
      PROVE  \A d \in Calls : tab'[i].call = d => Party(d, UserOf[i])'
  <2>1. Server!Ring(c, UserOf[t], v)
    BY <1>6 DEF HandleInvite
  <2>2. \A d \in Calls : Party(d, UserOf[i]) => Party(d, UserOf[i])'
    BY <2>1, ServerKeeps
  <2>3. \A u \in {UserOf[t], v} : Party(c, u)'
    BY <2>1 DEF Party, Server!Ring, Server!Engaged, TypeInv, TypeOK
  <2>4. \/ tab'[i].call \in {tab[i].call, None}
        \/ tab'[i].call = c /\ UserOf[i] \in {UserOf[t], v}
    BY <1>6, InviteShows DEF Holds
  <2> QED
    BY <1>3, <2>2, <2>3, <2>4, NoneAssumption
<1>7. ASSUME NEW t \in Tabs, NEW k \in Jobs, NEW v \in Users, RefuseInvite(t, k, v)
      PROVE  Keeping /\ Untouched
  <2> DEFINE rest == Rest(t, Invite(k, v))
  <2>1. \A j \in Tabs : Whole(rest[j]) /\ rest[j].call = tab[j].call
    <3>1. \A j \in Tabs : Whole(rest[j])
      BY RestIs
    <3>2. \A j \in Tabs : rest[j].call = tab[j].call
      BY RestHolds
    <3> QED
      BY <3>1, <3>2
  <2>2. rest = [j \in Tabs |-> rest[j]]
    BY RestIs
  <2>3. tab' = [rest EXCEPT ![t] = OnRefused(@, k)] /\ Untouched
    BY <1>7 DEF RefuseInvite, Untouched, serverVars
  <2> HIDE DEF rest
  <2>4. \A j \in Tabs : tab'[j] = rest[j] \/ tab'[j] = OnRefused(rest[j], k)
    BY <2>2, <2>3
  <2>5. \A j \in Tabs : Holds(rest[j], OnRefused(rest[j], k)) \/ Calls = {}
    BY <2>1, EventsHold
  <2>6. ASSUME Calls = {} PROVE Keeping
    <3>1. \A j \in Tabs : tab[j].call \in Calls \cup {None} /\ tab'[j].call \in Calls \cup {None}
      BY <1>7, TabFields, MovedByRefusal DEF TypeInv, Whole, Moved, Handled
    <3> QED
      BY <2>6, <3>1 DEF Keeping, Holds
  <2> QED
    BY <2>1, <2>3, <2>4, <2>5, <2>6 DEF Keeping, Holds
<1>8. ASSUME NEW t \in Tabs, NEW c \in Calls, HandleAccept(t, c)
      PROVE  \A d \in Calls : tab'[i].call = d => Party(d, UserOf[i])'
  <2>1. Keeping
    BY <1>8, KeptByTelling DEF HandleAccept
  <2>2. Server!Answer(c) \/ Untouched
    BY <1>8 DEF HandleAccept, Untouched
  <2>3. CASE Server!Answer(c)
    <3>1. \A d \in Calls : Party(d, UserOf[i]) => Party(d, UserOf[i])'
      BY <2>3, ServerKeeps
    <3> QED
      BY <1>3, <2>1, <3>1, NoneAssumption DEF Keeping, Holds
  <2> QED
    BY <1>4, <2>1, <2>2, <2>3
<1>9. ASSUME NEW t \in Tabs, NEW c \in Calls, NEW kind, HandleClose(t, c, kind)
      PROVE  \A d \in Calls : tab'[i].call = d => Party(d, UserOf[i])'
  <2>1. Keeping /\ (Closes(c) \/ Untouched)
    BY <1>9, KeptByTelling DEF HandleClose, Closes, Untouched
  <2> QED
    BY <1>4, <1>5, <2>1
<1>10. ASSUME NEW u \in Users, Drop(u)
       PROVE  \A d \in Calls : tab'[i].call = d => Party(d, UserOf[i])'
  <2>1. CASE \E c \in Calls : Party(c, u) /\ Server!End(c) /\ TellEnded(tab, c)
    <3>1. PICK c \in Calls : Server!End(c) /\ TellEnded(tab, c)
      BY <2>1
    <3>2. Keeping /\ Closes(c)
      BY <3>1, KeptByTelling DEF Closes
    <3> QED
      BY <1>5, <3>2
  <2>2. CASE UNCHANGED <<phase, line, tab>>
    <3>1. Keeping /\ Untouched
      BY <2>2 DEF Keeping, Holds, Untouched
    <3> QED
      BY <1>4, <3>1
  <2> QED
    BY <1>10, <2>1, <2>2 DEF Drop
<1>11. ASSUME NEW t \in Tabs, NEW c \in Calls, NEW kind \in {"offer", "answer", "ice"},
              Relay(t, c, kind)
       PROVE  Keeping /\ Untouched
  BY <1>11, KeptByRelay
<1>12. ASSUME NEW t \in Tabs, Connect(t) PROVE Keeping /\ Untouched
  BY <1>12 DEF Connect, Keeping, Holds, Untouched, serverVars
<1>13. ASSUME NEW t \in Tabs, HandleRequest(t)
       PROVE  \A d \in Calls : tab'[i].call = d => Party(d, UserOf[i])'
  BY <1>13, <1>4, <1>6, <1>7, <1>8, <1>9, <1>11 DEF HandleRequest
<1>14. ASSUME NEW t \in Tabs, Click(t) \/ Run(t) \/ Fail(t) \/ Connect(t)
       PROVE  Keeping /\ Untouched
  BY <1>12, <1>14, KeptByClick, KeptByRun, KeptByFailure
<1>15. ASSUME NEW t \in Tabs, Mount(t) PROVE Keeping /\ Untouched
  BY <1>15, KeptByExit DEF Exits
<1> QED
  BY <1>4, <1>10, <1>13, <1>14, <1>15 DEF Next, Step

LEMMA RealityStarts == Init => CallsAreReal
<1> SUFFICES ASSUME Init PROVE CallsAreReal
  OBVIOUS
<1>1. \A t \in Tabs : tab[t] = FreshTab /\ t \in up
  BY DEF Init
<1> QED
  BY <1>1, FreshTabFields DEF CallsAreReal
LEMMA RealityStutters == CallsAreReal /\ UNCHANGED vars => CallsAreReal'
  BY DEF CallsAreReal, Party, Server!Engaged, vars

(* The call a connected tab shows is, on the server, ringing or active, and *)
(* the tab's user is one of its two people: at any moment, not only when    *)
(* nothing is under way, unless a call it showed could not be settled.      *)
THEOREM CallsStayReal == Spec => []CallsAreReal
<1>1. TypeInv /\ CallsAreReal /\ [Next]_vars => CallsAreReal'
  BY RealityStays, RealityStutters
<1> QED
  BY <1>1, RealityStarts, TypeCorrect, PTL DEF Spec

LEMMA RealityMeans == CallsAreReal => ShownCallIsReal
  BY DEF CallsAreReal, ShownCallIsReal

(* No tab is left with a call the server does not have, but one that was cut *)
(* off and one whose call ended without anybody being told.                  *)
THEOREM ShownCallsAreReal == Spec => []ShownCallIsReal
  BY CallsStayReal, RealityMeans, PTL

-----------------------------------------------------------------------------
(* The server behind the tabs is the one Telephony promises.                 *)

LEMMA ServerOrNothing ==
  ASSUME TypeInv, Next
  PROVE  Server!Next \/ Untouched
<1>1. ASSUME NEW t \in Tabs, HandleRequest(t) PROVE Server!Next \/ Untouched
  <2>1. ASSUME NEW k \in Jobs, NEW v \in Users, NEW c \in Calls, HandleInvite(t, k, v, c)
        PROVE  Server!Next
    BY <2>1, UserOfAssumption DEF HandleInvite, Server!Next
  <2>2. ASSUME NEW k \in Jobs, NEW v \in Users, RefuseInvite(t, k, v) PROVE Untouched
    BY <2>2 DEF RefuseInvite, Untouched, serverVars
  <2>3. ASSUME NEW c \in Calls, HandleAccept(t, c) PROVE Server!Next \/ Untouched
    BY <2>3 DEF HandleAccept, Server!Next, Untouched
  <2>4. ASSUME NEW c \in Calls, NEW kind, HandleClose(t, c, kind) PROVE Server!Next \/ Untouched
    BY <2>4 DEF HandleClose, Server!Next, Untouched
  <2>5. ASSUME NEW c \in Calls, NEW kind, Relay(t, c, kind) PROVE Untouched
    BY <2>5 DEF Relay, Untouched, serverVars
  <2> QED
    BY <1>1, <2>1, <2>2, <2>3, <2>4, <2>5 DEF HandleRequest
<1>2. ASSUME NEW u \in Users, Drop(u) PROVE Server!Next \/ Untouched
  BY <1>2 DEF Drop, Server!Next, Untouched
<1>3. ASSUME NEW t \in Tabs, Click(t) \/ Run(t) \/ Fail(t) PROVE Untouched
  BY <1>3, KeptByClick, KeptByRun, KeptByFailure
<1>4. ASSUME NEW t \in Tabs, Connect(t) \/ Mount(t) PROVE Untouched
  BY <1>4 DEF Connect, Mount, Untouched, serverVars
<1> QED
  BY <1>1, <1>2, <1>3, <1>4 DEF Next, Step

(* Whatever the tabs do, the calls on the server ring between two people who *)
(* are in no other call, are answered once and end once.                     *)
THEOREM TabsUseTelephony == Spec => Server!Spec
<1>1. Init => Server!Init
  BY DEF Init
<1>2. TypeInv /\ [Next]_vars => [Server!Next]_Server!vars
  BY ServerOrNothing DEF Untouched, Server!vars, vars
<1> QED
  BY <1>1, <1>2, TypeCorrect, PTL DEF Spec, Server!Spec

-----------------------------------------------------------------------------
(* What becomes of a tab, in fewer words: the moves a tab makes, but for     *)
(* what it sends.                                                            *)

SameLink(x, y, s) ==
  /\ y.media[s].pc = x.media[s].pc /\ y.media[s].remote = x.media[s].remote
  /\ y.media[s].ice = x.media[s].ice
SameLinks(x, y) == \A s \in Streams : SameLink(x, y, s)

Stays(x, y) ==
  /\ SameRefs(x, y) /\ y.phase = x.phase /\ y.outgoing = x.outgoing
  /\ y.jobs = x.jobs /\ SameLinks(x, y)
Begins(x, y, k, j) ==
  /\ SameRefs(x, y) /\ SameState(x, y) /\ y.timers = x.timers /\ y.media = x.media
  /\ x.jobs[k] = Free /\ y.jobs[k] = j /\ \A l \in Jobs \ {k} : y.jobs[l] = x.jobs[l]
Clears(x, y) ==
  /\ y.call = None /\ y.peer = None /\ y.outgoing = FALSE /\ y.here = FALSE /\ y.pending = {}
Drops(x, y) == Clears(x, y) /\ y.jobs = x.jobs /\ y.out = x.out
LetsGo(x, y, k) ==
  Clears(x, y) /\ y.jobs[k] = Free /\ \A l \in Jobs \ {k} : y.jobs[l] = x.jobs[l]
Acks(x, y, k, c) ==
  /\ x.jobs[k].at = "ack"
  /\ y.call = c /\ y.here = x.here /\ y.peer = x.jobs[k].stream /\ y.pending = x.pending
  /\ y.phase = "calling" /\ y.outgoing = TRUE /\ y.timers = x.timers \cup {c}
  /\ y.jobs[k] = Free /\ \A l \in Jobs \ {k} : y.jobs[l] = x.jobs[l]
  /\ \A s \in Streams : s # y.peer => SameLink(x, y, s)
  /\ y.media[y.peer].pc = "new" /\ y.media[y.peer].remote = x.media[y.peer].remote
  /\ y.media[y.peer].ice = x.media[y.peer].ice
Rings(x, y, c) ==
  /\ x.call = None /\ y.call = c /\ y.here = x.here /\ y.peer = x.peer /\ y.pending = x.pending
  /\ y.phase = "ringing" /\ y.outgoing = FALSE /\ y.jobs = x.jobs /\ SameLinks(x, y)
Answers(x, y, c) ==
  /\ x.call = c /\ (x.here \/ x.sees)
  /\ y.call = c /\ y.here = x.here /\ y.ring = None /\ y.peer = x.peer /\ y.pending = x.pending
  /\ y.phase = "active" /\ y.outgoing = x.outgoing /\ y.jobs = x.jobs
  /\ \A s \in Streams : s # x.peer => SameLink(x, y, s)
  /\ x.peer # None =>
       /\ y.media[x.peer].pc = IF x.sees THEN "offered" ELSE x.media[x.peer].pc
       /\ y.media[x.peer].remote = x.media[x.peer].remote
       /\ y.media[x.peer].ice = x.media[x.peer].ice
Ices(x, y, c, from) ==
  /\ x.call = c /\ y.call = c /\ y.here = x.here /\ y.ring = x.ring /\ y.peer = x.peer
  /\ y.phase = x.phase /\ y.outgoing = x.outgoing /\ y.jobs = x.jobs /\ y.timers = x.timers
  /\ \A s \in Streams : s # x.peer => SameLink(x, y, s)
  /\ IF x.peer = None \/ x.media[x.peer].remote = None
     THEN y.pending = x.pending \cup {from} /\ SameLinks(x, y)
     ELSE /\ y.pending = x.pending
          /\ y.media[x.peer].pc = x.media[x.peer].pc
          /\ y.media[x.peer].remote = x.media[x.peer].remote
          /\ y.media[x.peer].ice = x.media[x.peer].ice \cup {from}
Asks(x, y, k, s) ==
  /\ x.jobs[k].at = "startMedia" /\ s \in Unused(x)
  /\ y.call = x.call /\ y.here = x.here /\ y.ring = x.ring /\ y.peer = x.peer
  /\ y.pending = x.pending /\ y.phase = x.phase /\ y.outgoing = x.outgoing
  /\ y.jobs[k].at = "ack" /\ y.jobs[k].to = x.jobs[k].to /\ y.jobs[k].stream = s
  /\ \A l \in Jobs \ {k} : y.jobs[l] = x.jobs[l]
  /\ SameLinks(x, y)
Takes(x, y, k, s) ==
  /\ x.jobs[k].at = "acceptMedia" /\ s \in Unused(x)
  /\ y.call = x.call /\ y.here = TRUE /\ y.ring = x.ring /\ y.peer = s
  /\ y.pending = x.pending /\ y.phase = x.phase /\ y.outgoing = x.outgoing
  /\ y.jobs[k] = Free /\ \A l \in Jobs \ {k} : y.jobs[l] = x.jobs[l]
  /\ y.media[s].pc = "new" /\ y.media[s].remote = x.media[s].remote
  /\ y.media[s].ice = x.media[s].ice

LEMMA SendStays ==
  ASSUME NEW x \in Tab, NEW rs \in Outs
  PROVE  Stays(x, Send(x, rs)) /\ Send(x, rs).timers = x.timers /\ Send(x, rs).out = x.out \cup rs
<1>1. /\ SameRefs(x, Send(x, rs)) /\ SameState(x, Send(x, rs)) /\ SameWork(x, Send(x, rs))
      /\ Send(x, rs).out = x.out \cup rs
  BY SendFields
<1> QED
  BY <1>1 DEF Stays, SameState, SameWork, SameLinks, SameLink

LEMMA SpawnBegins ==
  ASSUME NEW x \in Tab, NEW j \in Job, Slots(x) # {}
  PROVE  \E k \in Slots(x) : k \in Jobs /\ Begins(x, Spawn(x, j), k, j) /\ Spawn(x, j).out = x.out
<1>1. PICK k \in Slots(x) :
        /\ SameRefs(x, Spawn(x, j)) /\ SameState(x, Spawn(x, j))
        /\ Spawn(x, j).timers = x.timers /\ Spawn(x, j).media = x.media
        /\ Spawn(x, j).jobs = [x.jobs EXCEPT ![k] = j] /\ Spawn(x, j).out = x.out
  BY SpawnFields
<1>2. k \in Jobs /\ x.jobs[k] = Free /\ x.jobs \in [Jobs -> Job]
  BY TabFields DEF Slots, JobTable
<1>3. Spawn(x, j).jobs[k] = j /\ \A l \in Jobs \ {k} : Spawn(x, j).jobs[l] = x.jobs[l]
  BY <1>1, <1>2
<1> QED
  BY <1>1, <1>2, <1>3 DEF Begins

LEMMA TeardownClears ==
  ASSUME NEW x \in Tab
  PROVE  Drops(x, Teardown(x))
<1>1. /\ Teardown(x).call = None /\ Teardown(x).here = FALSE
      /\ Teardown(x).peer = None /\ Teardown(x).pending = {}
      /\ Teardown(x).outgoing = FALSE
      /\ Teardown(x).jobs = x.jobs /\ Teardown(x).out = x.out
  BY TeardownFields
<1> QED
  BY <1>1 DEF Drops, Clears

LEMMA GiveUpClears ==
  ASSUME NEW x \in Tab, NEW k \in Jobs
  PROVE  LetsGo(x, Teardown(Return(x, k)), k) /\ Teardown(Return(x, k)).out = x.out
<1> DEFINE w == Return(x, k)
<1>1. w \in Tab /\ w.jobs = [x.jobs EXCEPT ![k] = Free] /\ w.out = x.out
  BY ReturnFields
<1>2. x.jobs \in [Jobs -> Job]
  BY TabFields DEF JobTable
<1>3. w.jobs[k] = Free /\ \A l \in Jobs \ {k} : w.jobs[l] = x.jobs[l]
  BY <1>1, <1>2
<1> HIDE DEF w
<1>4. /\ Teardown(w).call = None /\ Teardown(w).here = FALSE
      /\ Teardown(w).peer = None /\ Teardown(w).pending = {}
      /\ Teardown(w).outgoing = FALSE
      /\ Teardown(w).jobs = w.jobs /\ Teardown(w).out = w.out
  BY <1>1, TeardownFields
<1> QED
  BY <1>1, <1>3, <1>4 DEF LetsGo, Clears, w

LEMMA OnAckMoves ==
  ASSUME NEW x, Whole(x), NEW k \in Jobs, NEW c \in Calls
  PROVE  /\ x.jobs[k].at = "ack" => Acks(x, OnAck(x, k, c), k, c)
         /\ x.jobs[k].at # "ack" => OnAck(x, k, c) = x
         /\ OnAck(x, k, c).out = x.out
<1> DEFINE y == OnAck(x, k, c)
<1>1. x \in Tab /\ x.jobs \in [Jobs -> Job] /\ x.media \in Media
  BY TabFields DEF Whole, JobTable
<1>2. x.jobs[k].at # "ack" => OnAck(x, k, c) = x
  BY DEF OnAck
<1>3. ASSUME x.jobs[k].at = "ack" PROVE Acks(x, y, k, c) /\ y.out = x.out
  <2>1. x.jobs[k].stream \in Streams
    BY <1>3 DEF Whole, JobKnows
  <2>2. Acked(x, k, c, y)
    BY <1>1, <1>3, <2>1, OnAckFields
  <2> HIDE DEF y
  <2> DEFINE s == x.jobs[k].stream
             m == [x.media EXCEPT ![s].pc = "new"]
  <2>3. /\ \A i \in Streams : i # s => m[i] = x.media[i]
        /\ m[s].pc = "new" /\ m[s].remote = x.media[s].remote /\ m[s].ice = x.media[s].ice
    BY <1>1, <2>1 DEF Media, Medium
  <2>4. y.media = m /\ y.peer = s
    BY <2>2 DEF Acked
  <2>5. y.jobs[k] = Free /\ \A l \in Jobs \ {k} : y.jobs[l] = x.jobs[l]
    BY <1>1, <2>2 DEF Acked
  <2>6. /\ y.call = c /\ y.here = x.here /\ y.pending = x.pending
        /\ y.phase = "calling" /\ y.outgoing = TRUE /\ y.timers = x.timers \cup {c}
        /\ y.out = x.out /\ y.peer = x.jobs[k].stream
    BY <2>2 DEF Acked
  <2> HIDE DEF m, s
  <2> QED
    BY <1>3, <2>3, <2>4, <2>5, <2>6 DEF Acks, SameLink
<1> QED
  BY <1>2, <1>3

LEMMA OnIncomingMoves ==
  ASSUME NEW x, Whole(x), NEW c \in Calls
  PROVE  /\ x.call = None => Rings(x, OnIncoming(x, c), c) /\ OnIncoming(x, c).out = x.out
         /\ x.call # None => /\ Stays(x, OnIncoming(x, c))
                             /\ OnIncoming(x, c).timers = x.timers
                             /\ OnIncoming(x, c).out = x.out \cup {About("decline", c)}
<1>1. x \in Tab
  BY DEF Whole
<1>2. ASSUME x.call = None PROVE Rings(x, OnIncoming(x, c), c) /\ OnIncoming(x, c).out = x.out
  BY <1>1, <1>2, OnIncomingFields DEF Rings, SameWork, SameLinks, SameLink
<1>3. ASSUME x.call # None PROVE /\ Stays(x, OnIncoming(x, c))
                                 /\ OnIncoming(x, c).timers = x.timers
                                 /\ OnIncoming(x, c).out = x.out \cup {About("decline", c)}
  BY <1>1, <1>3, SendStays, AboutIs DEF OnIncoming
<1> QED
  BY <1>2, <1>3

LEMMA OnAcceptedMoves ==
  ASSUME NEW x, Whole(x), NEW c \in Calls
  PROVE  LET y == OnAccepted(x, c) IN
         /\ x.call # c => y = x
         /\ x.call = c /\ ~x.here /\ ~x.sees => Drops(x, y)
         /\ x.call = c /\ (x.here \/ x.sees) =>
              /\ Answers(x, y, c)
              /\ y.out = IF x.sees /\ x.peer # None
                         THEN x.out \cup {About("offer", c), About("ice", c)} ELSE x.out
<1> DEFINE y == OnAccepted(x, c)
<1>1. x \in Tab /\ x.media \in Media /\ x.here \in BOOLEAN /\ x.sees \in BOOLEAN
      /\ x.peer \in Streams \cup {None}
  BY TabFields DEF Whole
<1>2. x.call # c => y = x
  BY DEF OnAccepted
<1>3. x.call = c /\ ~x.here /\ ~x.sees => Drops(x, y)
  BY <1>1, TeardownClears DEF OnAccepted
<1>4. ASSUME x.call = c, x.here \/ x.sees
      PROVE  /\ Answers(x, y, c)
             /\ y.out = IF x.sees /\ x.peer # None
                        THEN x.out \cup {About("offer", c), About("ice", c)} ELSE x.out
  <2> DEFINE m == [x.media EXCEPT ![x.peer].pc = "offered"]
  <2>0. Pickup(x, c, OnAccepted(x, c))
    BY <1>1, <1>4, OnAcceptedFields
  <2> HIDE DEF y
  <2>1. /\ y.call = c /\ y.here = x.here /\ y.ring = None
        /\ y.peer = x.peer /\ y.pending = x.pending
        /\ y.phase = "active" /\ y.outgoing = x.outgoing
        /\ y.jobs = x.jobs
        /\ y.out = IF x.sees /\ x.peer # None
                   THEN x.out \cup {About("offer", c), About("ice", c)} ELSE x.out
    BY <2>0 DEF Pickup, y
  <2>2. y.media = IF x.sees /\ x.peer # None THEN m ELSE x.media
    BY <2>0 DEF Pickup, y
  <2>3. x.peer # None => /\ \A s \in Streams : s # x.peer => m[s] = x.media[s]
                         /\ m[x.peer].pc = "offered" /\ m[x.peer].remote = x.media[x.peer].remote
                         /\ m[x.peer].ice = x.media[x.peer].ice
    BY <1>1 DEF Media, Medium
  <2> HIDE DEF m
  <2>4. \A s \in Streams : s # x.peer => SameLink(x, y, s)
    BY <2>2, <2>3 DEF SameLink
  <2>5. x.peer # None =>
          /\ y.media[x.peer].pc = IF x.sees THEN "offered" ELSE x.media[x.peer].pc
          /\ y.media[x.peer].remote = x.media[x.peer].remote
          /\ y.media[x.peer].ice = x.media[x.peer].ice
    BY <2>2, <2>3
  <2> QED
    BY <1>4, <2>1, <2>4, <2>5 DEF Answers
<1> QED
  BY <1>2, <1>3, <1>4

LEMMA OnEndedMoves ==
  ASSUME NEW x, Whole(x), NEW c \in Calls
  PROVE  /\ x.call # c => OnEnded(x, c) = x
         /\ x.call = c => Drops(x, OnEnded(x, c))
BY TeardownClears DEF OnEnded, Whole

LEMMA OnIceMoves ==
  ASSUME NEW x, Whole(x), NEW c \in Calls, NEW from \in Tabs
  PROVE  /\ x.call # c => OnIce(x, c, from) = x
         /\ x.call = c => Ices(x, OnIce(x, c, from), c, from)
         /\ OnIce(x, c, from).out = x.out
<1> DEFINE y == OnIce(x, c, from)
<1>1. x \in Tab /\ x.media \in Media /\ x.peer \in Streams \cup {None}
  BY TabFields DEF Whole
<1>2. x.call # c => y = x
  BY DEF OnIce
<1>3. ASSUME x.call = c PROVE Ices(x, y, c, from) /\ y.out = x.out
  <2> DEFINE m == [x.media EXCEPT ![x.peer].ice = @ \cup {from}]
  <2>0. Iced(x, from, OnIce(x, c, from))
    BY <1>1, <1>3, OnIceFields
  <2> HIDE DEF y
  <2>1. /\ y.call = x.call /\ y.here = x.here /\ y.ring = x.ring
        /\ y.peer = x.peer /\ SameState(x, y) /\ y.timers = x.timers
        /\ y.jobs = x.jobs /\ y.out = x.out
    BY <2>0 DEF Iced, y
  <2>2. IF x.peer = None \/ x.media[x.peer].remote = None
        THEN y.pending = x.pending \cup {from} /\ y.media = x.media
        ELSE y.pending = x.pending /\ y.media = m
    BY <2>0 DEF Iced, y
  <2>3. x.peer # None => /\ \A s \in Streams : s # x.peer => m[s] = x.media[s]
                         /\ m[x.peer].pc = x.media[x.peer].pc
                         /\ m[x.peer].remote = x.media[x.peer].remote
                         /\ m[x.peer].ice = x.media[x.peer].ice \cup {from}
    BY <1>1 DEF Media, Medium
  <2> HIDE DEF m
  <2>4. \A s \in Streams : s # x.peer => SameLink(x, y, s)
    BY <2>2, <2>3 DEF SameLink
  <2> QED
    BY <1>3, <2>1, <2>2, <2>3, <2>4 DEF Ices, SameState, SameLinks, SameLink, y
<1> QED
  BY <1>2, <1>3

LEMMA OnSdpMoves ==
  ASSUME NEW x, Whole(x), NEW c \in Calls, NEW kind \in {"offer", "answer"}, NEW from \in Tabs,
         Slots(x) # {}
  PROVE  /\ x.call # c \/ x.peer = None => OnSdp(x, c, kind, from) = x
         /\ x.call = c /\ x.peer # None =>
              \E k \in Slots(x), j \in Job :
                /\ Begins(x, OnSdp(x, c, kind, from), k, j)
                /\ j.at = "describe" /\ j.call = c /\ j.stream = x.peer
                /\ j.kind = kind /\ j.from = from
         /\ OnSdp(x, c, kind, from).out = x.out
<1>1. x.call # c \/ x.peer = None => OnSdp(x, c, kind, from) = x
  BY DEF OnSdp
<1>2. ASSUME x.call = c, x.peer # None
      PROVE  /\ \E k \in Slots(x), j \in Job :
                  /\ Begins(x, OnSdp(x, c, kind, from), k, j)
                  /\ j.at = "describe" /\ j.call = c /\ j.stream = x.peer
                  /\ j.kind = kind /\ j.from = from
             /\ OnSdp(x, c, kind, from).out = x.out
  <2> DEFINE j == [Free EXCEPT !.at = "describe", !.call = c, !.stream = x.peer,
                               !.kind = kind, !.from = from]
  <2>1. x \in Tab /\ x.peer \in Streams
    BY <1>2, TabFields DEF Whole
  <2>2. /\ j \in Job /\ j.at = "describe" /\ j.call = c /\ j.stream = x.peer /\ j.from = from
        /\ j.kind = kind
    BY <2>1 DEF Free, Job
  <2>3. OnSdp(x, c, kind, from) = Spawn(x, j)
    BY <1>2 DEF OnSdp
  <2> HIDE DEF j
  <2>4. \E k \in Slots(x) : k \in Jobs /\ Begins(x, Spawn(x, j), k, j) /\ Spawn(x, j).out = x.out
    BY <2>1, <2>2, SpawnBegins
  <2> QED
    BY <2>2, <2>3, <2>4
<1> QED
  BY <1>1, <1>2

LEMMA MutedMoves ==
  ASSUME NEW x, Whole(x), x.local # None
  PROVE  Stays(x, Muted(x)) /\ Muted(x).out = x.out /\ Muted(x).timers = x.timers
<1> DEFINE y == Muted(x)
<1>1. x \in Tab /\ x.local \in Streams /\ x.media \in Media
  BY TabFields DEF Whole
<1>2. /\ SameRefs(x, y)
      /\ y.phase = x.phase /\ y.outgoing = x.outgoing
      /\ y.timers = x.timers /\ y.jobs = x.jobs /\ y.out = x.out
      /\ \/ y.media = [x.media EXCEPT ![x.local].mic = "muted"]
         \/ y.media = [x.media EXCEPT ![x.local].mic = "on"]
  BY <1>1, MutedFields
<1> HIDE DEF y
<1>3. \A v \in {"on", "muted"} : LET m == [x.media EXCEPT ![x.local].mic = v] IN
        \A s \in Streams : m[s].pc = x.media[s].pc /\ m[s].remote = x.media[s].remote
                           /\ m[s].ice = x.media[s].ice
  BY <1>1 DEF Media, Medium
<1>4. SameLinks(x, y)
  BY <1>2, <1>3 DEF SameLinks, SameLink
<1> QED
  BY <1>2, <1>4 DEF Stays, y

LEMMA InvitingMoves ==
  ASSUME NEW x, Whole(x), NEW k \in Jobs, x.jobs[k].at = "startMedia", NEW s \in Unused(x)
  PROVE  /\ Asks(x, Inviting(x, k, s), k, s)
         /\ Inviting(x, k, s).timers = x.timers
         /\ Inviting(x, k, s).out = x.out \cup {Invite(k, x.jobs[k].to)}
<1> DEFINE y == Inviting(x, k, s)
<1>1. /\ x \in Tab /\ x.jobs \in JobTable /\ x.media \in Media /\ x.jobs[k].to \in Users
      /\ x.jobs[k] \in Job
  BY TabFields, JobsSet DEF Whole, JobKnows
<1>2. s \in Streams
  BY UnusedIs
<1>3. Invited(x, k, s, y)
  BY <1>1, <1>2, InvitingFields
<1> HIDE DEF y
<1> DEFINE j == InvitingJob(x.jobs[k], s)
           m == [x.media EXCEPT ![s].mic = "on"]
<1>4. j.at = "ack" /\ j.stream = s /\ j.to = x.jobs[k].to
  BY <1>1 DEF InvitingJob, Job
<1>5. y.jobs[k] = j /\ \A l \in Jobs \ {k} : y.jobs[l] = x.jobs[l]
  BY <1>1, <1>3 DEF JobTable, Invited
<1>6. \A i \in Streams : m[i].pc = x.media[i].pc /\ m[i].remote = x.media[i].remote
                         /\ m[i].ice = x.media[i].ice
  BY <1>1, <1>2 DEF Media, Medium
<1>7. y.media = m
  BY <1>3 DEF Invited
<1> HIDE DEF j, m
<1>8. SameLinks(x, y)
  BY <1>6, <1>7 DEF SameLinks, SameLink
<1> QED
  BY <1>3, <1>4, <1>5, <1>8 DEF Invited, Asks, SameState, y

LEMMA AcceptingMoves ==
  ASSUME NEW x, Whole(x), NEW k \in Jobs, x.jobs[k].at = "acceptMedia", NEW s \in Unused(x)
  PROVE  /\ Takes(x, Accepting(x, k, s), k, s)
         /\ Accepting(x, k, s).timers = x.timers
         /\ Accepting(x, k, s).out = x.out \cup {About("accept", x.jobs[k].call)}
<1> DEFINE y == Accepting(x, k, s)
           m == LiveMedia(x.media, s)
<1>1. /\ x \in Tab /\ x.jobs \in JobTable /\ x.media \in Media /\ x.jobs[k].call \in Calls
  BY TabFields DEF Whole, JobKnows
<1>2. s \in Streams
  BY UnusedIs
<1>3. Accepted(x, k, s, y)
  BY <1>1, <1>2, AcceptingFields
<1> HIDE DEF y
<1>4. y.jobs[k] = Free /\ \A l \in Jobs \ {k} : y.jobs[l] = x.jobs[l]
  BY <1>1, <1>3 DEF JobTable, Accepted
<1>5. m[s].pc = "new" /\ m[s].remote = x.media[s].remote /\ m[s].ice = x.media[s].ice
  BY <1>1, <1>2 DEF Media, Medium, LiveMedia
<1>6. y.media = m
  BY <1>3 DEF Accepted
<1> HIDE DEF m
<1> QED
  BY <1>3, <1>4, <1>5, <1>6 DEF Accepted, Takes, SameState, y

-----------------------------------------------------------------------------
(* What a tab makes of a step of its own, x becoming y.                      *)

Idles(x, y) == Stays(x, y) /\ y.timers = x.timers /\ y.out = x.out
Expires(x, y, c) ==
  Stays(x, y) /\ y.timers = x.timers \ {c} /\ y.out = x.out \cup {About("hangup", c)}
Starts(x, y, k, j) == Begins(x, y, k, j) /\ y.out = x.out /\ j.at = "startMedia"
Accepts(x, y, k, j) ==
  /\ Begins(x, y, k, j) /\ y.out = x.out
  /\ j.at = "acceptMedia" /\ j.call = x.call /\ x.phase = "ringing"
Declines(x, y) ==
  /\ x.phase = "ringing" /\ Clears(x, y) /\ y.jobs = x.jobs
  /\ y.out = x.out \cup {About("decline", x.call)}
HangsUp(x, y) ==
  Clears(x, y) /\ y.jobs = x.jobs /\ y.out = x.out \cup {About("hangup", x.call)}
Invites(x, y, k, s) ==
  /\ Asks(x, y, k, s) /\ y.timers = x.timers
  /\ y.out = x.out \cup {Invite(k, x.jobs[k].to)}
Enters(x, y, k, s) ==
  /\ Takes(x, y, k, s) /\ y.timers = x.timers
  /\ y.out = x.out \cup {About("accept", x.jobs[k].call)}
Describes(x, y, k) == x.jobs[k].at = "describe" /\ DescribedBy(x, k, y)
GivesIn(x, y, k) ==
  x.jobs[k].at \in {"startMedia", "ack"} /\ LetsGo(x, y, k) /\ y.out = x.out
Excuses(x, y, k) ==
  /\ x.jobs[k].at = "acceptMedia" /\ LetsGo(x, y, k)
  /\ y.out = x.out \cup {About("decline", x.jobs[k].call)}

Acts(x, y) ==
  \/ Idles(x, y) \/ Declines(x, y) \/ HangsUp(x, y)
  \/ \E c \in Calls : Expires(x, y, c)
  \/ \E k \in Slots(x), j \in Job : Starts(x, y, k, j) \/ Accepts(x, y, k, j)
  \/ \E k \in Jobs, s \in Unused(x) : Invites(x, y, k, s) \/ Enters(x, y, k, s)
  \/ \E k \in Jobs : Describes(x, y, k) \/ GivesIn(x, y, k) \/ Excuses(x, y, k)

(* Nothing but tab t changes.                                                *)
Alone(t) ==
  /\ UNCHANGED <<serverVars, up, gone>>
  /\ \A i \in Tabs \ {t} : tab'[i] = tab[i]

LEMMA BecomesAlone ==
  ASSUME TypeInv, NEW t \in Tabs, NEW x, Become(t, x)
  PROVE  tab'[t] = x /\ Alone(t)
BY DEF Become, Alone, TypeInv, TypeOK

LEMMA ClicksAct ==
  ASSUME TypeInv, NEW t \in Tabs, Click(t)
  PROVE  Acts(tab[t], tab'[t]) /\ Alone(t)
<1> DEFINE x == tab[t]
<1>1. Whole(x) /\ x \in Tab /\ x.call \in Calls \cup {None}
  BY TabFields DEF TypeInv, Whole
<1>2. x.phase # "idle" => x.call \in Calls
  BY <1>1 DEF Whole
<1>3. ASSUME NEW v \in Users, Start(t, v) PROVE Acts(x, tab'[t]) /\ Alone(t)
  <2> DEFINE j == [Free EXCEPT !.at = "startMedia", !.to = v]
  <2>1. j \in Job /\ j.at = "startMedia"
    BY DEF Free, Job
  <2>2. Slots(x) # {} /\ Become(t, Spawn(x, j))
    BY <1>3 DEF Start
  <2> HIDE DEF j
  <2>3. tab'[t] = Spawn(x, j) /\ Alone(t)
    BY <2>2, BecomesAlone
  <2>4. \E k \in Slots(x) : Starts(x, Spawn(x, j), k, j)
    BY <1>1, <2>1, <2>2, SpawnBegins DEF Starts
  <2> QED
    BY <2>1, <2>3, <2>4 DEF Acts
<1>4. ASSUME Accept(t) PROVE Acts(x, tab'[t]) /\ Alone(t)
  <2> DEFINE j == [Free EXCEPT !.at = "acceptMedia", !.call = x.call]
  <2>1. j \in Job /\ j.at = "acceptMedia" /\ j.call = x.call
    BY <1>1 DEF Free, Job
  <2>2. x.phase = "ringing" /\ Slots(x) # {} /\ Become(t, Spawn(x, j))
    BY <1>4 DEF Accept
  <2> HIDE DEF j
  <2>3. tab'[t] = Spawn(x, j) /\ Alone(t)
    BY <2>2, BecomesAlone
  <2>4. \E k \in Slots(x) : Accepts(x, Spawn(x, j), k, j)
    BY <1>1, <2>1, <2>2, SpawnBegins DEF Accepts
  <2> QED
    BY <2>1, <2>3, <2>4 DEF Acts
<1>5. ASSUME NEW rs \in Outs
      PROVE  LET y == Teardown(Send(x, rs)) IN
             Clears(x, y) /\ y.jobs = x.jobs /\ y.out = x.out \cup rs
  <2> DEFINE w == Send(x, rs)
  <2>1. w \in Tab /\ w.jobs = x.jobs /\ w.out = x.out \cup rs
    BY <1>1, SendFields DEF SameWork
  <2> HIDE DEF w
  <2>2. Drops(w, Teardown(w))
    BY <2>1, TeardownClears
  <2> QED
    BY <2>1, <2>2 DEF Drops, Clears, w
<1>6. ASSUME Decline(t) PROVE Acts(x, tab'[t]) /\ Alone(t)
  <2> DEFINE y == Teardown(Send(x, {About("decline", x.call)}))
  <2>1. x.phase = "ringing" /\ Become(t, y)
    BY <1>6 DEF Decline
  <2>2. {About("decline", x.call)} \in Outs
    BY <1>2, <2>1, AboutIs
  <2>3. Declines(x, y)
    BY <1>5, <2>1, <2>2 DEF Declines
  <2> HIDE DEF y
  <2> QED
    BY <2>1, <2>3, BecomesAlone DEF Acts
<1>7. ASSUME HangUp(t) PROVE Acts(x, tab'[t]) /\ Alone(t)
  <2> DEFINE y == Teardown(Send(x, {About("hangup", x.call)}))
  <2>1. x.phase \in {"calling", "active"} /\ Become(t, y)
    BY <1>7 DEF HangUp
  <2>2. {About("hangup", x.call)} \in Outs
    BY <1>2, <2>1, AboutIs
  <2>3. HangsUp(x, y)
    BY <1>5, <2>2 DEF HangsUp
  <2> HIDE DEF y
  <2> QED
    BY <2>1, <2>3, BecomesAlone DEF Acts
<1>8. ASSUME ToggleMute(t) PROVE Acts(x, tab'[t]) /\ Alone(t)
  <2>1. x.local # None /\ Become(t, Muted(x))
    BY <1>8 DEF ToggleMute, Muted
  <2>2. Idles(x, Muted(x))
    BY <1>1, <2>1, MutedMoves DEF Idles
  <2> QED
    BY <2>1, <2>2, BecomesAlone DEF Acts
<1> QED
  BY <1>3, <1>4, <1>6, <1>7, <1>8 DEF Click

LEMMA RunsAct ==
  ASSUME TypeInv, NEW t \in Tabs, Run(t)
  PROVE  Acts(tab[t], tab'[t]) /\ Alone(t)
<1> DEFINE x == tab[t]
<1>1. Whole(x) /\ x \in Tab
  BY TabFields DEF TypeInv, Whole
<1>2. ASSUME Rerender(t) PROVE Acts(x, tab'[t]) /\ Alone(t)
  <2>1. Become(t, Seen(x))
    BY <1>2 DEF Rerender, Seen
  <2>2. Idles(x, Seen(x))
    BY <1>1, SeenFields DEF Idles, Stays, SameWork, SameLinks, SameLink
  <2> QED
    BY <2>1, <2>2, BecomesAlone DEF Acts
<1>3. ASSUME NEW c \in Calls, TimerFires(t, c) PROVE Acts(x, tab'[t]) /\ Alone(t)
  <2>1. Become(t, Rung(x, c))
    BY <1>3 DEF TimerFires, Rung
  <2>2. Expires(x, Rung(x, c), c)
    BY <1>1, RungFields DEF Expires, Stays, SameState, SameLinks, SameLink
  <2> QED
    BY <2>1, <2>2, BecomesAlone DEF Acts
<1>4. ASSUME NEW k \in Jobs, StartMedia(t, k) PROVE Acts(x, tab'[t]) /\ Alone(t)
  <2>1. PICK s \in Unused(x) : Become(t, Inviting(x, k, s))
    <3>1. \A s : Inviting(x, k, s) =
                 Send([Acquire(x, s) EXCEPT !.jobs[k].at = "ack", !.jobs[k].stream = s],
                      {Invite(k, x.jobs[k].to)})
      BY DEF Inviting
    <3> QED
      BY <1>4, <3>1, Zenon DEF StartMedia
  <2>2. Invites(x, Inviting(x, k, s), k, s)
    BY <1>1, <1>4, InvitingMoves DEF StartMedia, At, Invites
  <2> QED
    BY <2>1, <2>2, BecomesAlone DEF Acts
<1>5. ASSUME NEW k \in Jobs, AcceptMedia(t, k) PROVE Acts(x, tab'[t]) /\ Alone(t)
  <2>1. PICK s \in Unused(x) : Become(t, Accepting(x, k, s))
    BY <1>5 DEF AcceptMedia, Accepting
  <2>2. Enters(x, Accepting(x, k, s), k, s)
    BY <1>1, <1>5, AcceptingMoves DEF AcceptMedia, At, Enters
  <2> QED
    BY <2>1, <2>2, BecomesAlone DEF Acts
<1>6. ASSUME NEW k \in Jobs, Describe(t, k) PROVE Acts(x, tab'[t]) /\ Alone(t)
  <2>1. Become(t, Describing(x, k))
    BY <1>6 DEF Describe, Describing
  <2>2. Describes(x, Describing(x, k), k)
    BY <1>1, <1>6, DescribingFields DEF Describe, At, Describes
  <2> QED
    BY <2>1, <2>2, BecomesAlone DEF Acts
<1> QED
  BY <1>2, <1>3, <1>4, <1>5, <1>6 DEF Run

LEMMA FailuresAct ==
  ASSUME TypeInv, NEW t \in Tabs, NEW k \in Jobs, StartFails(t, k) \/ AcceptFails(t, k)
  PROVE  Acts(tab[t], tab'[t]) /\ Alone(t)
<1> DEFINE x == tab[t]
<1>1. Whole(x) /\ x \in Tab
  BY DEF TypeInv, Whole
<1>2. ASSUME StartFails(t, k) PROVE Acts(x, tab'[t]) /\ Alone(t)
  <2>1. Become(t, Teardown(Return(x, k)))
    BY <1>2 DEF StartFails
  <2>2. GivesIn(x, Teardown(Return(x, k)), k)
    BY <1>1, <1>2, GiveUpClears DEF StartFails, At, GivesIn
  <2> QED
    BY <2>1, <2>2, BecomesAlone DEF Acts
<1>3. ASSUME AcceptFails(t, k) PROVE Acts(x, tab'[t]) /\ Alone(t)
  <2> DEFINE rs == {About("decline", x.jobs[k].call)}
             w == Return(x, k)
  <2>1. x.jobs[k].at = "acceptMedia" /\ Become(t, Teardown(Send(w, rs)))
    BY <1>3 DEF AcceptFails, At
  <2>2. rs \in Outs
    BY <1>1, <2>1, AboutIs DEF Whole, JobKnows
  <2>3. w \in Tab
    BY <1>1, ReturnFields
  <2>4. LetsGo(x, Teardown(w), k) /\ Teardown(w).out = x.out /\ Teardown(w) \in Tab
    BY <1>1, <2>3, GiveUpClears, TeardownFields
  <2> HIDE DEF rs, w
  <2>5. Teardown(Send(w, rs)) = Send(Teardown(w), rs)
    BY <2>2, <2>3, TeardownSends
  <2> DEFINE z == Teardown(w)
             y == Send(z, rs)
  <2>6. /\ y.call = z.call /\ y.peer = z.peer /\ y.outgoing = z.outgoing /\ y.here = z.here
        /\ y.pending = z.pending /\ y.jobs = z.jobs /\ y.out = z.out \cup rs
    BY <2>2, <2>4, SendFields DEF SameRefs, SameState, SameWork
  <2>7. z.out = x.out /\ LetsGo(x, z, k)
    BY <2>4
  <2> HIDE DEF y, z
  <2>8. Excuses(x, y, k)
    BY <2>1, <2>6, <2>7 DEF Excuses, LetsGo, Clears, rs
  <2>9. tab'[t] = y /\ Alone(t)
    BY <2>1, <2>5, BecomesAlone DEF y, z
  <2> QED
    BY <2>8, <2>9 DEF Acts
<1> QED
  BY <1>2, <1>3

-----------------------------------------------------------------------------
(* A tab and the call c that rings, or will: own, whether the tab is one of  *)
(* the caller.                                                               *)

Unheard(x, c) ==
  x.call # c /\ \A k \in Jobs : x.jobs[k].at = "acceptMedia" => x.jobs[k].call # c
Fits(x, c, own) ==
  /\ x.call = c => x.phase = IF own THEN "calling" ELSE "ringing"
  /\ \A k \in Jobs : x.jobs[k].at = "acceptMedia" /\ x.jobs[k].call = c => ~own
Follows(x, y, c) ==
  /\ Unheard(x, c) => Unheard(y, c)
  /\ \A own \in BOOLEAN : Fits(x, c, own) => Fits(y, c, own)

(* A request of the tab to end call c is on its way.                         *)
Asked(x, c, own) == About("hangup", c) \in x.out \/ (About("decline", c) \in x.out /\ ~own)

(* A tab that shows call c goes on to do so, with the same time-outs, or     *)
(* asks to end it.                                                           *)
Kept(x, y, c, own) ==
  /\ Asked(x, c, own) => Asked(y, c, own)
  /\ x.call = c => \/ y.call = c /\ (c \in x.timers => c \in y.timers)
                   \/ Asked(y, c, own)

Bears(x, y, c) ==
  /\ Follows(x, y, c)
  /\ \A own \in BOOLEAN : ~Tangled(x) /\ Fits(x, c, own) => Kept(x, y, c, own)

LEMMA BearsBoth ==
  ASSUME NEW x, NEW y, NEW z, NEW c, Bears(x, y, c), Bears(y, z, c), Tangled(y) => Tangled(x)
  PROVE  Bears(x, z, c)
BY DEF Bears, Follows, Kept

(* The jobs of y are jobs of x, but for a new one that is no accept.         *)
FewerAccepts(x, y) ==
  \A k \in Jobs : y.jobs[k].at = "acceptMedia" => y.jobs[k] = x.jobs[k]

LEMMA BearsAlike ==
  ASSUME NEW x, NEW y, NEW c \in Calls, FewerAccepts(x, y),
         y.call = x.call /\ y.phase = x.phase /\ y.timers = x.timers, x.out \subseteq y.out
  PROVE  Bears(x, y, c)
BY DEF FewerAccepts, Bears, Follows, Unheard, Fits, Kept, Asked

(* A tab that lets go of its call asks to end it, or was asked for too much. *)
LEMMA BearsCleared ==
  ASSUME NEW x, NEW y, NEW c \in Calls, Clears(x, y), FewerAccepts(x, y),
         x.out \subseteq y.out,
         \A own \in BOOLEAN : x.call = c /\ ~Tangled(x) /\ Fits(x, c, own) => Asked(y, c, own)
  PROVE  Bears(x, y, c)
<1>1. y.call = None /\ y.call # c
  BY NoneAssumption DEF Clears
<1>2. Follows(x, y, c)
  BY <1>1 DEF FewerAccepts, Follows, Unheard, Fits
<1> QED
  BY <1>2 DEF Bears, Kept, Asked

LEMMA AskingClashes ==
  ASSUME NEW x, NEW k \in Jobs, ~Tangled(x)
  PROVE  /\ x.jobs[k].at \in {"startMedia", "ack"} => x.call = None
         /\ x.jobs[k].at = "acceptMedia" => x.call = x.jobs[k].call
BY DEF Tangled

LEMMA BegunBears ==
  ASSUME NEW x, NEW y, NEW k \in Jobs, NEW j \in Job, NEW c \in Calls,
         Begins(x, y, k, j), y.out = x.out,
         j.at = "acceptMedia" => j.call = x.call /\ x.phase = "ringing"
  PROVE  Bears(x, y, c)
<1>1. /\ y.call = x.call /\ y.phase = x.phase /\ y.timers = x.timers /\ y.jobs[k] = j
      /\ \A l \in Jobs \ {k} : y.jobs[l] = x.jobs[l]
  BY DEF Begins, SameRefs, SameState
<1>2. CASE j.at # "acceptMedia"
  <2>1. FewerAccepts(x, y)
    BY <1>1, <1>2 DEF FewerAccepts
  <2> QED
    BY <1>1, <2>1, BearsAlike
<1>3. CASE j.at = "acceptMedia"
  <2>1. Unheard(x, c) => Unheard(y, c)
    BY <1>1, <1>3 DEF Unheard
  <2>2. ASSUME NEW own \in BOOLEAN, Fits(x, c, own) PROVE Fits(y, c, own)
    BY <1>1, <1>3, <2>2 DEF Fits
  <2> QED
    BY <1>1, <2>1, <2>2 DEF Bears, Follows, Kept, Asked
<1> QED
  BY <1>2, <1>3

LEMMA ActsBear ==
  ASSUME NEW x, NEW y, Whole(x), Acts(x, y), NEW c \in Calls
  PROVE  Bears(x, y, c)
<1>1. x \in Tab /\ x.call \in Calls \cup {None}
  BY TabFields DEF Whole
<1>2. CASE Idles(x, y)
  <2>1. FewerAccepts(x, y)
    BY <1>2 DEF Idles, Stays, FewerAccepts
  <2> QED
    BY <1>2, <2>1, BearsAlike DEF Idles, Stays, SameRefs
<1>3. ASSUME NEW d \in Calls, Expires(x, y, d) PROVE Bears(x, y, c)
  <2>1. /\ y.call = x.call /\ y.phase = x.phase /\ y.jobs = x.jobs
        /\ y.timers = x.timers \ {d} /\ y.out = x.out \cup {About("hangup", d)}
    BY <1>3 DEF Expires, Stays, SameRefs
  <2>2. Follows(x, y, c)
    BY <2>1 DEF Follows, Unheard, Fits
  <2>3. (c \in x.timers => c \in y.timers) \/ About("hangup", c) \in y.out
    BY <2>1
  <2>4. \A own \in BOOLEAN : Kept(x, y, c, own)
    BY <2>1, <2>3 DEF Kept, Asked
  <2> QED
    BY <2>2, <2>4 DEF Bears
<1>4. CASE Declines(x, y)
  <2>1. ASSUME NEW own \in BOOLEAN, x.call = c, Fits(x, c, own) PROVE Asked(y, c, own)
    BY <1>4, <2>1 DEF Declines, Fits, Asked
  <2> QED
    BY <1>4, <2>1, BearsCleared DEF Declines, FewerAccepts
<1>5. CASE HangsUp(x, y)
  <2>1. x.call = c => About("hangup", c) \in y.out
    BY <1>5 DEF HangsUp
  <2> QED
    BY <1>5, <2>1, BearsCleared DEF HangsUp, FewerAccepts, Asked
<1>6. ASSUME NEW k \in Slots(x), NEW j \in Job, Starts(x, y, k, j) \/ Accepts(x, y, k, j)
      PROVE  Bears(x, y, c)
  <2>1. k \in Jobs
    BY DEF Slots
  <2> QED
    BY <1>6, <2>1, BegunBears DEF Starts, Accepts
<1>7. ASSUME NEW k \in Jobs, NEW s \in Unused(x), Invites(x, y, k, s) PROVE Bears(x, y, c)
  <2>1. FewerAccepts(x, y)
    BY <1>7 DEF Invites, Asks, FewerAccepts
  <2> QED
    BY <1>7, <2>1, BearsAlike DEF Invites, Asks
<1>8. ASSUME NEW k \in Jobs, NEW s \in Unused(x), Enters(x, y, k, s) PROVE Bears(x, y, c)
  <2>1. FewerAccepts(x, y)
    BY <1>8, FreeIsJob DEF Enters, Takes, FewerAccepts
  <2> QED
    BY <1>8, <2>1, BearsAlike DEF Enters, Takes
<1>9. ASSUME NEW k \in Jobs, Describes(x, y, k) PROVE Bears(x, y, c)
  <2>1. /\ y.call = x.call /\ y.phase = x.phase /\ y.timers = x.timers
        /\ y.jobs = [x.jobs EXCEPT ![k] = Free]
    BY <1>9 DEF Describes, DescribedBy, SameState
  <2>2. x.out \subseteq y.out
    BY <1>9 DEF Describes, DescribedBy
  <2>3. x.jobs \in [Jobs -> Job]
    BY <1>1, TabFields DEF JobTable
  <2>4. FewerAccepts(x, y)
    BY <2>1, <2>3, FreeIsJob DEF FewerAccepts
  <2> QED
    BY <2>1, <2>2, <2>4, BearsAlike
<1>10. ASSUME NEW k \in Jobs, GivesIn(x, y, k) PROVE Bears(x, y, c)
  <2>1. ~Tangled(x) => x.call = None
    BY <1>10, AskingClashes DEF GivesIn
  <2>2. FewerAccepts(x, y)
    BY <1>10, FreeIsJob DEF GivesIn, LetsGo, FewerAccepts
  <2> QED
    BY <1>10, <2>1, <2>2, NoneAssumption, BearsCleared DEF GivesIn, LetsGo
<1>11. ASSUME NEW k \in Jobs, Excuses(x, y, k) PROVE Bears(x, y, c)
  <2>1. ASSUME NEW own \in BOOLEAN, x.call = c, ~Tangled(x), Fits(x, c, own)
        PROVE  Asked(y, c, own)
    <3>1. x.jobs[k].at = "acceptMedia" /\ x.jobs[k].call = c
      BY <1>11, <2>1, AskingClashes DEF Excuses
    <3>2. ~own
      BY <2>1, <3>1 DEF Fits
    <3> QED
      BY <1>11, <3>1, <3>2 DEF Excuses, Asked
  <2>2. FewerAccepts(x, y)
    BY <1>11, FreeIsJob DEF Excuses, LetsGo, FewerAccepts
  <2> QED
    BY <1>11, <2>1, <2>2, BearsCleared DEF Excuses, LetsGo
<1> QED
  BY <1>2, <1>3, <1>4, <1>5, <1>6, <1>7, <1>8, <1>9, <1>10, <1>11 DEF Acts

(* What a tab makes of an event about call d: of one that only the tab of    *)
(* the request heeds, or the tabs at that call.                              *)

Minds(x, y) ==
  \/ y = x
  \/ \E k \in Jobs : GivesIn(x, y, k)
  \/ \E c \in Calls, from \in Tabs : Ices(x, y, c, from) /\ y.out = x.out
  \/ \E k \in Slots(x), j \in Job : /\ Begins(x, y, k, j) /\ y.out = x.out
                                    /\ j.at = "describe"
Learns(x, y, d) ==
  \/ y = x
  \/ /\ Answers(x, y, d) /\ x.out \subseteq y.out
     /\ y.out \subseteq x.out \cup {About("offer", d), About("ice", d)}
  \/ x.call = d /\ Drops(x, y)

LEMMA MindsBear ==
  ASSUME NEW x, NEW y, Whole(x), Minds(x, y), NEW c \in Calls
  PROVE  Bears(x, y, c)
<1>1. CASE y = x
  BY <1>1 DEF Bears, Follows, Kept
<1>2. ASSUME NEW k \in Jobs, GivesIn(x, y, k) PROVE Bears(x, y, c)
  <2>1. Acts(x, y)
    BY <1>2 DEF Acts
  <2> QED
    BY <2>1, ActsBear
<1>3. ASSUME NEW d \in Calls, NEW from \in Tabs, Ices(x, y, d, from), y.out = x.out
      PROVE  Bears(x, y, c)
  <2>1. /\ y.call = x.call /\ y.phase = x.phase /\ y.timers = x.timers
        /\ FewerAccepts(x, y)
    BY <1>3 DEF Ices, FewerAccepts
  <2> QED
    BY <1>3, <2>1, BearsAlike
<1>4. ASSUME NEW k \in Slots(x), NEW j \in Job, Begins(x, y, k, j), y.out = x.out,
             j.at = "describe"
      PROVE  Bears(x, y, c)
  <2>1. k \in Jobs
    BY DEF Slots
  <2> QED
    BY <1>4, <2>1, BegunBears
<1> QED
  BY <1>1, <1>2, <1>3, <1>4 DEF Minds

LEMMA LearnsBear ==
  ASSUME NEW x, NEW y, NEW d \in Calls, Learns(x, y, d), NEW c \in Calls, c # d
  PROVE  Bears(x, y, c)
<1>1. CASE y = x
  BY <1>1 DEF Bears, Follows, Kept
<1>2. CASE Answers(x, y, d) /\ x.out \subseteq y.out
  <2>1. x.call # c /\ y.call # c /\ y.jobs = x.jobs
    BY <1>2 DEF Answers
  <2> QED
    BY <1>2, <2>1 DEF Bears, Follows, Unheard, Fits, Kept, Asked
<1>3. CASE x.call = d /\ Drops(x, y)
  <2>1. x.call # c /\ Clears(x, y) /\ FewerAccepts(x, y) /\ y.out = x.out
    BY <1>3 DEF Drops, FewerAccepts
  <2> QED
    BY <2>1, BearsCleared
<1> QED
  BY <1>1, <1>2, <1>3 DEF Learns

(* A request on its way that is no request of tab i to end call c.           *)
Other(t, r, i, c) ==
  i = t => /\ r # About("hangup", c)
           /\ r = About("decline", c) => UserOf[i] = caller[c]

(* A tab that hears of something when the request it was about is handled.   *)
LEMMA RestBears ==
  ASSUME TypeInv, NEW t \in Tabs, NEW r, NEW i \in Tabs, NEW c \in Calls,
         NEW y, Bears(Rest(t, r)[i], y, c)
  PROVE  /\ Follows(tab[i], y, c)
         /\ /\ Other(t, r, i, c) /\ ~Tangled(tab[i]) /\ Fits(tab[i], c, UserOf[i] = caller[c])
            => Kept(tab[i], y, c, UserOf[i] = caller[c])
<1> DEFINE x == tab[i]
           w == Rest(t, r)[i]
           own == UserOf[i] = caller[c]
<1>1. i # t => w = x
  BY RestIs
<1>2. ASSUME i = t
      PROVE  SameRefs(x, w) /\ SameState(x, w) /\ SameWork(x, w) /\ w.out = x.out \ {r}
  <2>1. x \in Tab /\ x.out \ {r} \in Outs
    BY TabFields DEF TypeInv, Whole, Outs
  <2>2. w = Sent(x, x.out \ {r})
    BY <1>2, RestIs
  <2> QED
    BY <2>1, <2>2, SentFields
<1>3. w.call = x.call /\ w.here = x.here /\ w.phase = x.phase /\ w.timers = x.timers
      /\ w.jobs = x.jobs
  BY <1>1, <1>2 DEF SameRefs, SameState, SameWork
<1>4. Other(t, r, i, c) => (Asked(x, c, own) => Asked(w, c, own))
  BY <1>1, <1>2 DEF Asked, Other
<1>5. own \in BOOLEAN /\ Bears(w, y, c)
  OBVIOUS
<1> HIDE DEF x, w, own
<1>6. Follows(x, w, c) /\ (Tangled(w) => Tangled(x))
  BY <1>3 DEF Follows, Unheard, Fits, Tangled
<1>7. Other(t, r, i, c) => Kept(x, w, c, own)
  BY <1>3, <1>4 DEF Kept
<1>8. Follows(x, y, c)
  BY <1>5, <1>6 DEF Bears, Follows
<1>9. Other(t, r, i, c) /\ ~Tangled(x) /\ Fits(x, c, own) => Kept(x, y, c, own)
  <2>1. ~Tangled(x) /\ Fits(x, c, own) => Kept(w, y, c, own)
    BY <1>5, <1>6 DEF Bears, Follows
  <2> QED
    BY <1>7, <2>1 DEF Kept
<1> QED
  BY <1>8, <1>9 DEF x, own

(* What a step makes of tab i and call c.                                    *)
Carried(i, c) ==
  /\ phase'[c] = phase[c] /\ line'[c] = line[c] /\ caller'[c] = caller[c]
  /\ Follows(tab[i], tab'[i], c)
  /\ /\ Party(c, UserOf[i]) /\ i \in up'
     /\ ~Tangled(tab[i]) /\ Fits(tab[i], c, UserOf[i] = caller[c])
     => Kept(tab[i], tab'[i], c, UserOf[i] = caller[c])
Progress(c) == phase'[c] \in {"active", "over"}

LEMMA CarriedByTab ==
  ASSUME TypeInv, NEW t \in Tabs, Acts(tab[t], tab'[t]), Alone(t),
         NEW i \in Tabs, NEW c \in Calls
  PROVE  Carried(i, c)
<1>1. Bears(tab[i], tab'[i], c)
  <2>1. CASE i = t
    BY <2>1, ActsBear DEF TypeInv
  <2>2. CASE i # t
    <3>1. Minds(tab[i], tab'[i])
      BY <2>2 DEF Alone, Minds
    <3> QED
      BY <3>1, MindsBear DEF TypeInv
  <2> QED
    BY <2>1, <2>2
<1>2. (UserOf[i] = caller[c]) \in BOOLEAN
  OBVIOUS
<1> QED
  BY <1>1, <1>2 DEF Carried, Bears, Alone, serverVars

(* The request r of tab t is handled, which changes nothing about call c.    *)
LEMMA CarriedByRequest ==
  ASSUME TypeInv, NEW t \in Tabs, NEW r, NEW i \in Tabs, NEW c \in Calls,
         Bears(Rest(t, r)[i], tab'[i], c),
         Party(c, UserOf[i]) => Other(t, r, i, c),
         phase'[c] = phase[c] /\ line'[c] = line[c] /\ caller'[c] = caller[c]
  PROVE  Carried(i, c)
BY RestBears DEF Carried

LEMMA OtherRequests ==
  ASSUME NEW t, NEW i, NEW c
  PROVE  /\ \A k, v : Other(t, Invite(k, v), i, c)
         /\ \A d, kind : kind \notin {"hangup", "decline"} \/ d # c
                           => Other(t, About(kind, d), i, c)
BY DEF Other, Invite, About

LEMMA AckBears ==
  ASSUME NEW x, Whole(x), NEW k \in Jobs, NEW d \in Calls, NEW c \in Calls, c # d
  PROVE  Bears(x, OnAck(x, k, d), c) /\ Bears(x, OnIncoming(x, d), c)
<1>1. Bears(x, x, c)
  BY DEF Bears, Follows, Kept
<1>2. ASSUME x.jobs[k].at = "ack" PROVE Bears(x, OnAck(x, k, d), c)
  <2> DEFINE y == OnAck(x, k, d)
  <2>1. Acks(x, y, k, d) /\ y.out = x.out
    BY <1>2, OnAckMoves
  <2> HIDE DEF y
  <2>2. y.call # c /\ FewerAccepts(x, y)
    BY <2>1, FreeIsJob DEF Acks, FewerAccepts
  <2>3. Follows(x, y, c)
    BY <2>2 DEF Follows, Unheard, Fits, FewerAccepts
  <2>4. x.call # None => Tangled(x)
    BY <2>1, AskingClashes DEF Acks
  <2>5. \A own \in BOOLEAN : ~Tangled(x) => Kept(x, y, c, own)
    BY <2>1, <2>4, NoneAssumption DEF Kept, Asked
  <2> QED
    BY <2>3, <2>5 DEF Bears, y
<1>3. ASSUME x.call = None PROVE Bears(x, OnIncoming(x, d), c)
  <2> DEFINE y == OnIncoming(x, d)
  <2>1. Rings(x, y, d) /\ y.out = x.out
    BY <1>3, OnIncomingMoves
  <2> HIDE DEF y
  <2>2. x.call # c /\ y.call # c /\ y.jobs = x.jobs
    BY <2>1, NoneAssumption DEF Rings
  <2> QED
    BY <2>1, <2>2 DEF Bears, Follows, Unheard, Fits, Kept, Asked, y
<1>4. ASSUME x.call # None PROVE Bears(x, OnIncoming(x, d), c)
  <2> DEFINE y == OnIncoming(x, d)
  <2>1. Stays(x, y) /\ y.timers = x.timers /\ x.out \subseteq y.out
    BY <1>4, OnIncomingMoves
  <2> HIDE DEF y
  <2>2. y.call = x.call /\ y.phase = x.phase /\ FewerAccepts(x, y)
    BY <2>1 DEF Stays, SameRefs, FewerAccepts
  <2> QED
    BY <2>1, <2>2, BearsAlike DEF y
<1> QED
  BY <1>1, <1>2, <1>3, <1>4, OnAckMoves

LEMMA CarriedByInvite ==
  ASSUME TypeInv, NEW t \in Tabs, NEW k \in Jobs, NEW v \in Users, NEW d \in Calls,
         HandleInvite(t, k, v, d), NEW i \in Tabs, NEW c \in Calls, c # d
  PROVE  Carried(i, c)
<1> DEFINE rest == Rest(t, Invite(k, v))
<1>1. Whole(rest[i])
  BY RestIs
<1>2. tab' = [j \in Tabs |-> IF j = t THEN OnAck(rest[j], k, d)
                             ELSE IF Hears(j, {v}) THEN OnIncoming(rest[j], d)
                             ELSE rest[j]]
  BY DEF HandleInvite
<1> HIDE DEF rest
<1>3. Minds(rest[i], rest[i])
  BY DEF Minds
<1>4. Bears(rest[i], rest[i], c)
  BY <1>1, <1>3, MindsBear
<1>5. Bears(rest[i], OnAck(rest[i], k, d), c) /\ Bears(rest[i], OnIncoming(rest[i], d), c)
  BY <1>1, AckBears
<1>6. Bears(rest[i], tab'[i], c)
  BY <1>2, <1>4, <1>5
<1>7. phase'[c] = phase[c] /\ line'[c] = line[c] /\ caller'[c] = caller[c]
  BY DEF HandleInvite, Server!Ring, TypeInv, TypeOK
<1> QED
  BY <1>6, <1>7, CarriedByRequest, OtherRequests DEF rest

LEMMA CarriedByRefusal ==
  ASSUME TypeInv, NEW t \in Tabs, NEW k \in Jobs, NEW v \in Users, RefuseInvite(t, k, v),
         NEW i \in Tabs, NEW c \in Calls
  PROVE  Carried(i, c)
<1> DEFINE rest == Rest(t, Invite(k, v))
<1>1. Whole(rest[i]) /\ rest = [j \in Tabs |-> rest[j]]
  BY RestIs
<1>2. tab' = [rest EXCEPT ![t] = OnRefused(@, k)]
  BY DEF RefuseInvite
<1> HIDE DEF rest
<1>3. tab'[i] = rest[i] \/ tab'[i] = OnRefused(rest[i], k)
  BY <1>1, <1>2
<1>4. Minds(rest[i], OnRefused(rest[i], k))
  <2> DEFINE x == rest[i]
  <2>1. CASE x.jobs[k].at # "ack"
    BY <2>1 DEF OnRefused, Minds
  <2>2. CASE x.jobs[k].at = "ack"
    <3>1. GivesIn(x, Teardown(Return(x, k)), k)
      BY <1>1, <2>2, GiveUpClears DEF GivesIn, Whole
    <3> QED
      BY <2>2, <3>1 DEF OnRefused, Minds
  <2> QED
    BY <2>1, <2>2
<1>5. Minds(rest[i], tab'[i])
  BY <1>3, <1>4 DEF Minds
<1>6. Bears(rest[i], tab'[i], c)
  BY <1>1, <1>5, MindsBear
<1>7. phase'[c] = phase[c] /\ line'[c] = line[c] /\ caller'[c] = caller[c]
  BY DEF RefuseInvite, serverVars
<1> QED
  BY <1>6, <1>7, CarriedByRequest, OtherRequests DEF rest

LEMMA TellingTeaches ==
  ASSUME NEW x, Whole(x), NEW d \in Calls
  PROVE  Learns(x, OnAccepted(x, d), d) /\ Learns(x, OnEnded(x, d), d)
<1>1. Learns(x, OnAccepted(x, d), d)
  <2>1. CASE x.call # d
    BY <2>1, OnAcceptedMoves DEF Learns
  <2>2. CASE x.call = d /\ ~x.here /\ ~x.sees
    BY <2>2, OnAcceptedMoves DEF Learns
  <2>3. CASE x.call = d /\ (x.here \/ x.sees)
    <3>1. /\ Answers(x, OnAccepted(x, d), d) /\ x.out \subseteq OnAccepted(x, d).out
          /\ OnAccepted(x, d).out \subseteq x.out \cup {About("offer", d), About("ice", d)}
      BY <2>3, OnAcceptedMoves
    <3> QED
      BY <3>1 DEF Learns
  <2>4. x.here \in BOOLEAN /\ x.sees \in BOOLEAN
    BY TabFields DEF Whole
  <2> QED
    BY <2>1, <2>2, <2>3, <2>4
<1>2. Learns(x, OnEnded(x, d), d)
  BY OnEndedMoves DEF Learns
<1> QED
  BY <1>1, <1>2

(* Those who hear of call d bear it with any other call.                     *)
LEMMA BearsTelling ==
  ASSUME TypeInv, NEW t \in Tabs, NEW r, NEW d \in Calls, NEW i \in Tabs, NEW c \in Calls
  PROVE  /\ (TellAccepted(Rest(t, r), d) \/ TellEnded(Rest(t, r), d)) /\ c # d
              => Bears(Rest(t, r)[i], tab'[i], c)
         /\ tab' = Rest(t, r) => Bears(Rest(t, r)[i], tab'[i], c)
         /\ TellEnded(tab, d) /\ c # d => Bears(tab[i], tab'[i], c)
<1> DEFINE x == Rest(t, r)[i]
<1>1. Whole(x)
  BY RestIs
<1>2. Learns(x, OnAccepted(x, d), d) /\ Learns(x, OnEnded(x, d), d)
  BY <1>1, TellingTeaches
<1>3. \A w : Bears(w, w, c)
  BY DEF Bears, Follows, Kept
<1>4. c # d => Bears(x, OnAccepted(x, d), c) /\ Bears(x, OnEnded(x, d), c)
  BY <1>2, LearnsBear
<1>5. c # d => Bears(tab[i], OnEnded(tab[i], d), c)
  <2>1. Whole(tab[i])
    BY DEF TypeInv
  <2>2. Learns(tab[i], OnEnded(tab[i], d), d)
    BY <2>1, TellingTeaches
  <2> QED
    BY <2>2, LearnsBear
<1>6. TellAccepted(Rest(t, r), d) /\ c # d => Bears(x, tab'[i], c)
  BY <1>3, <1>4 DEF TellAccepted
<1>7. TellEnded(Rest(t, r), d) /\ c # d => Bears(x, tab'[i], c)
  BY <1>3, <1>4 DEF TellEnded
<1>8. TellEnded(tab, d) /\ c # d => Bears(tab[i], tab'[i], c)
  BY <1>3, <1>5 DEF TellEnded
<1>9. tab' = Rest(t, r) => Bears(x, tab'[i], c)
  BY <1>3
<1> QED
  BY <1>6, <1>7, <1>8, <1>9

LEMMA CarriedByAccept ==
  ASSUME TypeInv, NEW t \in Tabs, NEW d \in Calls, HandleAccept(t, d),
         NEW i \in Tabs, NEW c \in Calls
  PROVE  Carried(i, c) \/ Progress(c)
<1> DEFINE r == About("accept", d)
<1>1. Other(t, r, i, c)
  BY OtherRequests
<1> HIDE DEF r
<1>2. CASE Server!Answer(d) /\ UNCHANGED caller /\ TellAccepted(Rest(t, r), d)
  <2>1. CASE c = d
    BY <1>2, <2>1 DEF Server!Answer, Progress, TypeInv, TypeOK
  <2>2. CASE c # d
    <3>1. phase'[c] = phase[c] /\ line'[c] = line[c] /\ caller'[c] = caller[c]
      BY <1>2, <2>2 DEF Server!Answer, TypeInv, TypeOK
    <3>2. Bears(Rest(t, r)[i], tab'[i], c)
      BY <1>2, <2>2, BearsTelling
    <3> QED
      BY <1>1, <3>1, <3>2, CarriedByRequest
  <2> QED
    BY <2>1, <2>2
<1>3. CASE /\ phase[d] = "active" /\ UNCHANGED <<phase, line, caller>>
           /\ TellAccepted(Rest(t, r), d)
  <2>1. CASE c = d
    BY <1>3, <2>1 DEF Progress
  <2>2. CASE c # d
    <3>1. Bears(Rest(t, r)[i], tab'[i], c)
      BY <1>3, <2>2, BearsTelling
    <3> QED
      BY <1>1, <1>3, <3>1, CarriedByRequest
  <2> QED
    BY <2>1, <2>2
<1>4. CASE UNCHANGED <<phase, line, caller>> /\ tab' = Rest(t, r)
  <2>1. Bears(Rest(t, r)[i], tab'[i], c)
    BY <1>4, BearsTelling
  <2> QED
    BY <1>1, <1>4, <2>1, CarriedByRequest
<1> QED
  BY <1>2, <1>3, <1>4 DEF HandleAccept, r

LEMMA CarriedByClose ==
  ASSUME TypeInv, NEW t \in Tabs, NEW d \in Calls, NEW kind \in {"decline", "hangup"},
         HandleClose(t, d, kind), NEW i \in Tabs, NEW c \in Calls
  PROVE  Carried(i, c) \/ Progress(c)
<1> DEFINE r == About(kind, d)
           may == Party(d, UserOf[t]) /\ (kind = "decline" => UserOf[t] # caller[d])
<1>1. c # d => Other(t, r, i, c)
  BY OtherRequests
<1>2. ~may /\ Party(c, UserOf[i]) => Other(t, r, i, c)
  <2> SUFFICES ASSUME ~may, Party(c, UserOf[i]), i = t, c = d PROVE Other(t, r, i, c)
    BY <1>1 DEF Other
  <2>1. kind = "decline" /\ UserOf[t] = caller[d]
    OBVIOUS
  <2> QED
    BY <2>1 DEF Other, About
<1> HIDE DEF r, may
<1>3. CASE Server!End(d) /\ UNCHANGED caller /\ TellEnded(Rest(t, r), d)
  <2>1. CASE c = d
    BY <1>3, <2>1 DEF Server!End, Progress, TypeInv, TypeOK
  <2>2. CASE c # d
    <3>1. phase'[c] = phase[c] /\ line'[c] = line[c] /\ caller'[c] = caller[c]
      BY <1>3, <2>2 DEF Server!End, TypeInv, TypeOK
    <3>2. Bears(Rest(t, r)[i], tab'[i], c)
      BY <1>3, <2>2, BearsTelling
    <3> QED
      BY <1>1, <2>2, <3>1, <3>2, CarriedByRequest
  <2> QED
    BY <2>1, <2>2
<1>4. CASE ~may /\ UNCHANGED <<phase, line, caller>> /\ tab' = Rest(t, r)
  <2>1. Bears(Rest(t, r)[i], tab'[i], c)
    BY <1>4, BearsTelling
  <2> QED
    BY <1>2, <1>4, <2>1, CarriedByRequest
<1> QED
  BY <1>3, <1>4 DEF HandleClose, r, may

LEMMA CarriedByRelay ==
  ASSUME TypeInv, NEW t \in Tabs, NEW d \in Calls, NEW kind \in {"offer", "answer", "ice"},
         Relay(t, d, kind), NEW i \in Tabs, NEW c \in Calls
  PROVE  Carried(i, c)
<1> DEFINE r == About(kind, d)
           rest == Rest(t, r)
           x == rest[i]
<1>1. Whole(x)
  BY RestIs
<1>2. Other(t, r, i, c)
  BY OtherRequests
<1>3. /\ tab' = [j \in Tabs |->
           IF Party(d, UserOf[t]) /\ Hears(j, line[d] \ {UserOf[t]})
             THEN IF kind = "ice" THEN OnIce(rest[j], d, t) ELSE OnSdp(rest[j], d, kind, t)
             ELSE rest[j]]
      /\ kind # "ice" => Slots(x) # {}
  BY DEF Relay
<1> HIDE DEF r, rest
<1>4. Minds(x, OnIce(x, d, t))
  BY <1>1, OnIceMoves DEF Minds
<1>5. kind # "ice" => Minds(x, OnSdp(x, d, kind, t))
  <2> SUFFICES ASSUME kind # "ice" PROVE Minds(x, OnSdp(x, d, kind, t))
    OBVIOUS
  <2>1. CASE x.call # d \/ x.peer = None
    BY <2>1 DEF OnSdp, Minds
  <2>2. CASE x.call = d /\ x.peer # None
    <3>1. kind \in {"offer", "answer"} /\ Slots(x) # {}
      BY <1>3
    <3>2. /\ \E k \in Slots(x), j \in Job :
               Begins(x, OnSdp(x, d, kind, t), k, j) /\ j.at = "describe"
          /\ OnSdp(x, d, kind, t).out = x.out
      BY <1>1, <2>2, <3>1, OnSdpMoves
    <3> QED
      BY <3>2 DEF Minds
  <2> QED
    BY <2>1, <2>2
<1>6. Minds(x, x)
  BY DEF Minds
<1>7. Minds(x, tab'[i])
  BY <1>3, <1>4, <1>5, <1>6
<1>8. Bears(x, tab'[i], c)
  BY <1>1, <1>7, MindsBear
<1>9. phase'[c] = phase[c] /\ line'[c] = line[c] /\ caller'[c] = caller[c]
  BY DEF Relay, serverVars
<1> QED
  BY <1>2, <1>8, <1>9, CarriedByRequest DEF rest

LEMMA CarriedByDrop ==
  ASSUME TypeInv, NEW u \in Users, Drop(u), NEW i \in Tabs, NEW c \in Calls
  PROVE  Carried(i, c) \/ Progress(c)
<1>1. CASE \E d \in Calls : Party(d, u) /\ Server!End(d) /\ TellEnded(tab, d)
  <2>1. PICK d \in Calls : Server!End(d) /\ TellEnded(tab, d)
    BY <1>1
  <2>2. CASE c = d
    BY <2>1, <2>2 DEF Server!End, Progress, TypeInv, TypeOK
  <2>3. CASE c # d
    <3>1. phase'[c] = phase[c] /\ line'[c] = line[c] /\ caller'[c] = caller[c]
      BY <2>1, <2>3 DEF Server!End, TypeInv, TypeOK, Drop
    <3>2. Bears(tab[i], tab'[i], c)
      BY <2>1, <2>3, BearsTelling
    <3>3. (UserOf[i] = caller[c]) \in BOOLEAN
      OBVIOUS
    <3> QED
      BY <3>1, <3>2, <3>3 DEF Carried, Bears
  <2> QED
    BY <2>2, <2>3
<1>2. CASE UNCHANGED <<phase, line, tab>>
  BY <1>2 DEF Drop, Carried, Follows, Kept
<1> QED
  BY <1>1, <1>2 DEF Drop

LEMMA CarriedByExit ==
  ASSUME TypeInv, NEW t \in Tabs, Exits(t), NEW i \in Tabs, NEW c \in Calls
  PROVE  Carried(i, c)
<1> DEFINE x == tab[t]
<1>1. x \in Tab /\ {} \in Outs
  BY DEF TypeInv, Whole, Outs
<1>2. Follows(x, Sent(x, {}), c)
  BY <1>1, SentFields DEF SameRefs, SameState, SameWork, Follows, Unheard, Fits
<1>3. Follows(x, FreshTab, c)
  <2>1. FreshTab.call # c /\ \A k \in Jobs : FreshTab.jobs[k].at # "acceptMedia"
    BY NoneAssumption, FreshTabFields, FreeIsJob
  <2> QED
    BY <2>1 DEF Follows, Unheard, Fits
<1>4. /\ tab'[t] \in {x, Sent(x, {}), FreshTab} /\ (\A j \in Tabs \ {t} : tab'[j] = tab[j])
      /\ t \notin up' /\ UNCHANGED serverVars
  BY ExitsLeave
<1>5. CASE i = t
  BY <1>2, <1>3, <1>4, <1>5 DEF Carried, Follows, serverVars
<1>6. CASE i # t
  BY <1>4, <1>6 DEF Carried, Follows, Kept, serverVars
<1> QED
  BY <1>5, <1>6

(* Every call that rings keeps ringing at every tab, is asked to end there,  *)
(* or does not ring any more; and nothing else makes a call ring than an     *)
(* invitation.                                                               *)
LEMMA StepsCarry ==
  ASSUME TypeInv, Step, NEW i \in Tabs, NEW c \in Calls
  PROVE  \/ Carried(i, c) \/ Progress(c)
         \/ \E t \in Tabs, k \in Jobs, v \in Users : HandleInvite(t, k, v, c)
<1>1. ASSUME NEW t \in Tabs, HandleRequest(t)
      PROVE  \/ Carried(i, c) \/ Progress(c)
             \/ \E k \in Jobs, v \in Users : HandleInvite(t, k, v, c)
  <2>1. ASSUME NEW k \in Jobs, NEW v \in Users, NEW d \in Calls, HandleInvite(t, k, v, d)
        PROVE  Carried(i, c) \/ HandleInvite(t, k, v, c)
    BY <2>1, CarriedByInvite
  <2> QED
    BY <1>1, <2>1, CarriedByRefusal, CarriedByAccept, CarriedByClose, CarriedByRelay
       DEF HandleRequest
<1>2. ASSUME NEW t \in Tabs, Click(t) PROVE Carried(i, c)
  BY <1>2, ClicksAct, CarriedByTab
<1>3. ASSUME NEW t \in Tabs, Run(t) PROVE Carried(i, c)
  BY <1>3, RunsAct, CarriedByTab
<1>4. ASSUME NEW t \in Tabs, Fail(t) PROVE Carried(i, c)
  <2>1. ASSUME NEW k \in Jobs, StartFails(t, k) \/ AcceptFails(t, k) PROVE Carried(i, c)
    <3>1. Acts(tab[t], tab'[t]) /\ Alone(t)
      BY <2>1, FailuresAct
    <3> QED
      BY <3>1, CarriedByTab
  <2> QED
    BY <1>4, <2>1, CarriedByExit DEF Fail, Exits
<1>5. ASSUME NEW t \in Tabs, Connect(t) PROVE Carried(i, c)
  BY <1>5 DEF Connect, serverVars, Carried, Follows, Kept
<1> QED
  BY <1>1, <1>2, <1>3, <1>4, <1>5, CarriedByDrop, CarriedByExit DEF Step, Exits

-----------------------------------------------------------------------------
(* A job waits for every invitation on its way.                              *)

IsInvite(r) == r.kind = "invite"
Awaits(x) ==
  \A r \in x.out : IsInvite(r) => x.jobs[r.job].at = "ack" /\ x.jobs[r.job].to = r.to
InvitesAreAwaited == \A t \in Tabs : "gaveUp" \notin trouble[t] => Awaits(tab[t])

LEMMA InvitesAre ==
  ASSUME NEW x, Whole(x)
  PROVE  /\ \A r \in x.out : IsInvite(r) => r.job \in Jobs /\ r.to \in Users
                                            /\ r = Invite(r.job, r.to)
         /\ \A kind, c : kind # "invite" => ~IsInvite(About(kind, c))
<1>1. x.out \subseteq Requests
  BY TabFields DEF Whole
<1>2. \A r \in Requests : IsInvite(r) => r.job \in Jobs /\ r.to \in Users
                                         /\ r = Invite(r.job, r.to)
  BY DEF Requests, IsInvite, Invite
<1>3. \A kind, c : kind # "invite" => ~IsInvite(About(kind, c))
  BY DEF IsInvite, About
<1> QED
  BY <1>1, <1>2, <1>3

LEMMA AwaitsAlike ==
  ASSUME NEW x, NEW y, Awaits(x),
         \A r \in y.out : IsInvite(r) => r \in x.out /\ y.jobs[r.job] = x.jobs[r.job]
  PROVE  Awaits(y)
BY DEF Awaits

(* What becomes of the jobs that wait, when no invitation is added.          *)
LEMMA AwaitsStill ==
  ASSUME NEW x, NEW y, Whole(x), Awaits(x),
         \A r \in y.out : IsInvite(r) => r \in x.out,
         \A k \in Jobs : x.jobs[k].at = "ack" => y.jobs[k] = x.jobs[k]
  PROVE  Awaits(y)
<1>1. \A r \in y.out : IsInvite(r) => r \in x.out /\ y.jobs[r.job] = x.jobs[r.job]
  BY InvitesAre DEF Awaits
<1> QED
  BY <1>1, AwaitsAlike

LEMMA ActsAwait ==
  ASSUME NEW x, NEW y, Whole(x), Awaits(x), Acts(x, y)
  PROVE  \/ Awaits(y)
         \/ /\ \E k \in Jobs : x.jobs[k].at = "ack" /\ y.jobs[k] = Free
            /\ y.call = None /\ y.out = x.out
<1>1. /\ \A r \in x.out : IsInvite(r) => r.job \in Jobs
      /\ \A kind, c : kind # "invite" => ~IsInvite(About(kind, c))
  BY InvitesAre
<1>2. CASE Idles(x, y)
  BY <1>2, AwaitsStill DEF Idles, Stays
<1>3. CASE Declines(x, y) \/ HangsUp(x, y)
  <2>1. /\ y.jobs = x.jobs
        /\ \/ y.out = x.out \cup {About("decline", x.call)}
           \/ y.out = x.out \cup {About("hangup", x.call)}
    BY <1>3 DEF Declines, HangsUp
  <2>2. \A r \in y.out : IsInvite(r) => r \in x.out
    BY <1>1, <2>1
  <2> QED
    BY <2>1, <2>2, AwaitsStill
<1>4. ASSUME NEW c \in Calls, Expires(x, y, c) PROVE Awaits(y)
  <2>1. y.jobs = x.jobs /\ y.out = x.out \cup {About("hangup", c)}
    BY <1>4 DEF Expires, Stays
  <2>2. \A r \in y.out : IsInvite(r) => r \in x.out
    BY <1>1, <2>1
  <2> QED
    BY <2>1, <2>2, AwaitsStill
<1>5. ASSUME NEW k \in Slots(x), NEW j \in Job, Starts(x, y, k, j) \/ Accepts(x, y, k, j)
      PROVE  Awaits(y)
  <2>1. y.out = x.out /\ x.jobs[k] = Free /\ \A l \in Jobs \ {k} : y.jobs[l] = x.jobs[l]
    BY <1>5 DEF Starts, Accepts, Begins
  <2>2. \A l \in Jobs : x.jobs[l].at = "ack" => y.jobs[l] = x.jobs[l]
    BY <2>1, FreeIsJob
  <2> QED
    BY <2>1, <2>2, AwaitsStill
<1>6. ASSUME NEW k \in Jobs, NEW s \in Unused(x), Invites(x, y, k, s) PROVE Awaits(y)
  <2>1. /\ x.jobs[k].at = "startMedia"
        /\ y.jobs[k].at = "ack" /\ y.jobs[k].to = x.jobs[k].to
        /\ \A l \in Jobs \ {k} : y.jobs[l] = x.jobs[l]
        /\ y.out = x.out \cup {Invite(k, x.jobs[k].to)}
    BY <1>6 DEF Invites, Asks
  <2>2. ASSUME NEW r \in x.out, IsInvite(r)
        PROVE  y.jobs[r.job].at = "ack" /\ y.jobs[r.job].to = r.to
    <3>1. r.job \in Jobs \ {k} /\ x.jobs[r.job].at = "ack" /\ x.jobs[r.job].to = r.to
      BY <1>1, <2>1, <2>2 DEF Awaits
    <3> QED
      BY <2>1, <3>1
  <2>3. LET r == Invite(k, x.jobs[k].to) IN r.job = k /\ r.to = x.jobs[k].to
    BY DEF Invite
  <2> QED
    BY <2>1, <2>2, <2>3 DEF Awaits
<1>7. ASSUME NEW k \in Jobs, NEW s \in Unused(x), Enters(x, y, k, s) PROVE Awaits(y)
  <2>1. /\ x.jobs[k].at = "acceptMedia" /\ \A l \in Jobs \ {k} : y.jobs[l] = x.jobs[l]
        /\ y.out = x.out \cup {About("accept", x.jobs[k].call)}
    BY <1>7 DEF Enters, Takes
  <2>2. \A r \in y.out : IsInvite(r) => r \in x.out
    BY <1>1, <2>1
  <2> QED
    BY <2>1, <2>2, AwaitsStill
<1>8. ASSUME NEW k \in Jobs, Describes(x, y, k) PROVE Awaits(y)
  <2> DEFINE j == x.jobs[k]
  <2>1. /\ j.at = "describe" /\ y.jobs = [x.jobs EXCEPT ![k] = Free]
        /\ \/ y.out = x.out
           \/ y.out = x.out \cup {About("answer", j.call), About("ice", j.call)}
    BY <1>8 DEF Describes, DescribedBy
  <2>2. \A r \in y.out : IsInvite(r) => r \in x.out
    BY <1>1, <2>1
  <2>3. x.jobs \in [Jobs -> Job]
    BY TabFields DEF Whole, JobTable
  <2>4. \A l \in Jobs : x.jobs[l].at = "ack" => y.jobs[l] = x.jobs[l]
    BY <2>1, <2>3
  <2> QED
    BY <2>2, <2>4, AwaitsStill
<1>9. ASSUME NEW k \in Jobs, GivesIn(x, y, k), x.jobs[k].at # "ack" PROVE Awaits(y)
  <2>1. y.out = x.out /\ \A l \in Jobs \ {k} : y.jobs[l] = x.jobs[l]
    BY <1>9 DEF GivesIn, LetsGo
  <2>2. \A l \in Jobs : x.jobs[l].at = "ack" => y.jobs[l] = x.jobs[l]
    BY <1>9, <2>1
  <2> QED
    BY <2>1, <2>2, AwaitsStill
<1>10. ASSUME NEW k \in Jobs, GivesIn(x, y, k), x.jobs[k].at = "ack"
       PROVE  x.jobs[k].at = "ack" /\ y.jobs[k] = Free /\ y.call = None /\ y.out = x.out
  BY <1>10 DEF GivesIn, LetsGo, Clears
<1>11. ASSUME NEW k \in Jobs, Excuses(x, y, k) PROVE Awaits(y)
  <2>1. /\ x.jobs[k].at = "acceptMedia" /\ \A l \in Jobs \ {k} : y.jobs[l] = x.jobs[l]
        /\ y.out = x.out \cup {About("decline", x.jobs[k].call)}
    BY <1>11 DEF Excuses, LetsGo
  <2>2. \A r \in y.out : IsInvite(r) => r \in x.out
    BY <1>1, <2>1
  <2> QED
    BY <2>1, <2>2, AwaitsStill
<1> QED
  BY <1>2, <1>3, <1>4, <1>5, <1>6, <1>7, <1>8, <1>9, <1>10, <1>11 DEF Acts

(* Once invitation k is handled no other is on its way that names job k.     *)
LEMMA RestAwaits ==
  ASSUME TypeInv, NEW t \in Tabs, NEW r, NEW i \in Tabs, Awaits(tab[i])
  PROVE  /\ Awaits(Rest(t, r)[i])
         /\ Rest(t, r)[i].jobs = tab[i].jobs
         /\ \A k, v : i = t /\ r = Invite(k, v) /\ r \in tab[i].out =>
              \A q \in Rest(t, r)[i].out : IsInvite(q) => q.job # k
<1> DEFINE x == tab[i]
           w == Rest(t, r)[i]
<1>1. Whole(x)
  BY DEF TypeInv
<1>2. w.jobs = x.jobs /\ w.out = IF i = t THEN x.out \ {r} ELSE x.out
  <2>1. CASE i # t
    <3>1. w = x
      BY <2>1, RestIs
    <3> HIDE DEF w
    <3> QED
      BY <2>1, <3>1
  <2>2. CASE i = t
    <3>1. x \in Tab /\ x.out \ {r} \in Outs
      BY <1>1, TabFields DEF Whole, Outs
    <3>2. w = Sent(x, x.out \ {r})
      BY <2>2, RestIs
    <3> QED
      BY <2>2, <3>1, <3>2, SentFields DEF SameWork
  <2> QED
    BY <2>1, <2>2
<1> HIDE DEF w
<1>3. Awaits(w)
  BY <1>2, AwaitsAlike
<1>4. ASSUME NEW k, NEW v, i = t, r = Invite(k, v), r \in x.out,
             NEW q \in w.out, IsInvite(q)
      PROVE  q.job # k
  <2>1. q \in x.out /\ q # r
    BY <1>2, <1>4
  <2>2. IsInvite(r) /\ r.job = k /\ r.to = v
    BY <1>4 DEF Invite, IsInvite
  <2>3. x.jobs[k].to = v /\ x.jobs[q.job].to = q.to
    BY <1>4, <2>1, <2>2 DEF Awaits
  <2>4. q = Invite(q.job, q.to)
    BY <1>1, <1>4, <2>1, InvitesAre
  <2> QED
    BY <1>4, <2>1, <2>3, <2>4
<1> QED
  BY <1>2, <1>3, <1>4 DEF w

LEMMA LearnsAwait ==
  ASSUME NEW x, NEW y, NEW d \in Calls, Whole(x), Awaits(x), Learns(x, y, d)
  PROVE  Awaits(y)
<1>1. CASE y = x
  BY <1>1
<1>2. CASE /\ Answers(x, y, d)
           /\ y.out \subseteq x.out \cup {About("offer", d), About("ice", d)}
  <2>1. y.jobs = x.jobs /\ \A r \in y.out : IsInvite(r) => r \in x.out
    BY <1>2, InvitesAre DEF Answers
  <2> QED
    BY <2>1, AwaitsStill
<1>3. CASE Drops(x, y)
  BY <1>3, AwaitsStill DEF Drops
<1> QED
  BY <1>1, <1>2, <1>3 DEF Learns

(* A job is done with that no invitation on its way names.                   *)
LEMMA AwaitsOthers ==
  ASSUME NEW x, NEW y, Whole(x), Awaits(x), NEW k, y.out = x.out,
         \A r \in x.out : IsInvite(r) => r.job # k,
         \A l \in Jobs \ {k} : y.jobs[l] = x.jobs[l]
  PROVE  Awaits(y)
<1>1. \A r \in y.out : IsInvite(r) => r \in x.out /\ y.jobs[r.job] = x.jobs[r.job]
  BY InvitesAre
<1> QED
  BY <1>1, AwaitsAlike

LEMMA AwaitedByInvite ==
  ASSUME TypeInv, NEW t \in Tabs, NEW k \in Jobs, NEW v \in Users, NEW d \in Calls,
         HandleInvite(t, k, v, d), NEW i \in Tabs, Awaits(tab[i])
  PROVE  Awaits(tab'[i])
<1> DEFINE r == Invite(k, v)
           rest == Rest(t, r)
           x == rest[i]
<1>1. Whole(x)
  BY RestIs
<1>2. tab' = [j \in Tabs |-> IF j = t THEN OnAck(rest[j], k, d)
                             ELSE IF Hears(j, {v}) THEN OnIncoming(rest[j], d)
                             ELSE rest[j]]
      /\ r \in tab[t].out
  BY DEF HandleInvite, Take
<1>3. Awaits(x) /\ (i = t => \A q \in x.out : IsInvite(q) => q.job # k)
  BY <1>2, RestAwaits
<1> HIDE DEF rest, r
<1>4. ASSUME i = t PROVE Awaits(OnAck(x, k, d))
  <2> DEFINE y == OnAck(x, k, d)
  <2>1. CASE x.jobs[k].at # "ack"
    BY <1>1, <1>3, <2>1, OnAckMoves
  <2>2. CASE x.jobs[k].at = "ack"
    <3>1. Acks(x, y, k, d) /\ y.out = x.out
      BY <1>1, <2>2, OnAckMoves
    <3> HIDE DEF y
    <3>2. \A l \in Jobs \ {k} : y.jobs[l] = x.jobs[l]
      BY <3>1 DEF Acks
    <3>3. Awaits(y)
      BY <1>1, <1>3, <1>4, <3>1, <3>2, AwaitsOthers
    <3> QED
      BY <3>3 DEF y
  <2> QED
    BY <2>1, <2>2
<1>5. Awaits(OnIncoming(x, d))
  <2> DEFINE y == OnIncoming(x, d)
  <2>1. y.jobs = x.jobs /\ y.out \subseteq x.out \cup {About("decline", d)}
    BY <1>1, OnIncomingMoves DEF Rings, Stays
  <2> HIDE DEF y
  <2>2. \A q \in y.out : IsInvite(q) => q \in x.out
    BY <1>1, <2>1, InvitesAre
  <2>3. Awaits(y)
    BY <1>1, <1>3, <2>1, <2>2, AwaitsStill
  <2> QED
    BY <2>3 DEF y
<1> QED
  BY <1>2, <1>3, <1>4, <1>5

LEMMA AwaitedByRefusal ==
  ASSUME TypeInv, NEW t \in Tabs, NEW k \in Jobs, NEW v \in Users, RefuseInvite(t, k, v),
         NEW i \in Tabs, Awaits(tab[i])
  PROVE  Awaits(tab'[i])
<1> DEFINE r == Invite(k, v)
           rest == Rest(t, r)
           x == rest[i]
<1>1. Whole(x) /\ rest = [j \in Tabs |-> rest[j]]
  BY RestIs
<1>2. tab' = [rest EXCEPT ![t] = OnRefused(@, k)] /\ r \in tab[t].out
  BY DEF RefuseInvite, Take
<1>3. Awaits(x) /\ (i = t => \A q \in x.out : IsInvite(q) => q.job # k)
  BY <1>2, RestAwaits
<1> HIDE DEF rest, r
<1>4. CASE i # t
  BY <1>1, <1>2, <1>3, <1>4
<1>5. CASE i = t
  <2>1. tab'[i] = OnRefused(x, k)
    BY <1>1, <1>2, <1>5
  <2>2. CASE x.jobs[k].at # "ack"
    BY <1>3, <2>1, <2>2 DEF OnRefused
  <2>3. CASE x.jobs[k].at = "ack"
    <3> DEFINE y == Teardown(Return(x, k))
    <3>1. LetsGo(x, y, k) /\ y.out = x.out
      BY <1>1, GiveUpClears DEF Whole
    <3>2. tab'[i] = y
      BY <2>1, <2>3 DEF OnRefused
    <3> HIDE DEF y
    <3>3. \A l \in Jobs \ {k} : y.jobs[l] = x.jobs[l]
      BY <3>1 DEF LetsGo
    <3>4. Awaits(y)
      BY <1>1, <1>3, <1>5, <3>1, <3>3, AwaitsOthers
    <3> QED
      BY <3>2, <3>4
  <2> QED
    BY <2>2, <2>3
<1> QED
  BY <1>4, <1>5

LEMMA AwaitedByTelling ==
  ASSUME TypeInv, NEW t \in Tabs, NEW r, NEW d \in Calls, NEW i \in Tabs, Awaits(tab[i]),
         \/ TellAccepted(Rest(t, r), d) \/ TellEnded(Rest(t, r), d)
         \/ TellEnded(tab, d) \/ tab' = Rest(t, r)
  PROVE  Awaits(tab'[i])
<1> DEFINE rest == Rest(t, r)
           x == rest[i]
<1>1. Whole(x) /\ Awaits(x) /\ Whole(tab[i])
  BY RestIs, RestAwaits DEF TypeInv
<1> HIDE DEF rest
<1>2. \A w : Whole(w) /\ Awaits(w) => Awaits(OnAccepted(w, d)) /\ Awaits(OnEnded(w, d))
  BY TellingTeaches, LearnsAwait
<1>3. CASE TellAccepted(rest, d)
  BY <1>1, <1>2, <1>3 DEF TellAccepted
<1>4. CASE TellEnded(rest, d)
  BY <1>1, <1>2, <1>4 DEF TellEnded
<1>5. CASE TellEnded(tab, d)
  BY <1>1, <1>2, <1>5 DEF TellEnded
<1>6. CASE tab' = rest
  BY <1>1, <1>6
<1> QED
  BY <1>3, <1>4, <1>5, <1>6 DEF rest

LEMMA AwaitedByRelay ==
  ASSUME TypeInv, NEW t \in Tabs, NEW d \in Calls, NEW kind \in {"offer", "answer", "ice"},
         Relay(t, d, kind), NEW i \in Tabs, Awaits(tab[i])
  PROVE  Awaits(tab'[i])
<1> DEFINE r == About(kind, d)
           rest == Rest(t, r)
           x == rest[i]
<1>1. Whole(x) /\ Awaits(x)
  BY RestIs, RestAwaits
<1>2. /\ tab' = [j \in Tabs |->
           IF Party(d, UserOf[t]) /\ Hears(j, line[d] \ {UserOf[t]})
             THEN IF kind = "ice" THEN OnIce(rest[j], d, t) ELSE OnSdp(rest[j], d, kind, t)
             ELSE rest[j]]
      /\ kind # "ice" => Slots(x) # {}
  BY DEF Relay
<1> HIDE DEF r, rest
<1>3. Awaits(OnIce(x, d, t))
  <2>1. OnIce(x, d, t).jobs = x.jobs /\ OnIce(x, d, t).out = x.out
    BY <1>1, OnIceMoves DEF Ices
  <2> QED
    BY <1>1, <2>1, AwaitsStill
<1>4. ASSUME kind # "ice" PROVE Awaits(OnSdp(x, d, kind, t))
  <2> DEFINE y == OnSdp(x, d, kind, t)
  <2>1. kind \in {"offer", "answer"} /\ Slots(x) # {}
    BY <1>2, <1>4
  <2>2. y.out = x.out
    BY <1>1, <2>1, OnSdpMoves
  <2>3. CASE x.call # d \/ x.peer = None
    BY <1>1, <2>3 DEF OnSdp
  <2>4. CASE x.call = d /\ x.peer # None
    <3>1. PICK k \in Slots(x), j \in Job : Begins(x, y, k, j)
      BY <1>1, <2>1, <2>4, OnSdpMoves
    <3> HIDE DEF y
    <3>2. \A l \in Jobs : x.jobs[l].at = "ack" => y.jobs[l] = x.jobs[l]
      BY <3>1, FreeIsJob DEF Begins
    <3>3. Awaits(y)
      BY <1>1, <2>2, <3>2, AwaitsStill
    <3> QED
      BY <3>3 DEF y
  <2> QED
    BY <2>3, <2>4
<1> QED
  BY <1>1, <1>2, <1>3, <1>4

LEMMA AwaitedByTab ==
  ASSUME TypeInv, NEW t \in Tabs, Acts(tab[t], tab'[t]), Alone(t),
         NEW i \in Tabs, Awaits(tab[i])
  PROVE  Awaits(tab'[i]) \/ GivesUp(i)
<1>1. CASE i = t
  <2>1. Whole(tab[i])
    BY DEF TypeInv
  <2> QED
    BY <1>1, <2>1, ActsAwait DEF GivesUp
<1>2. CASE i # t
  BY <1>2 DEF Alone
<1> QED
  BY <1>1, <1>2

LEMMA AwaitedByExit ==
  ASSUME TypeInv, NEW t \in Tabs, Exits(t), NEW i \in Tabs, Awaits(tab[i])
  PROVE  Awaits(tab'[i])
<1>1. tab[i] \in Tab /\ {} \in Outs
  BY DEF TypeInv, Whole, Outs
<1>2. Sent(tab[i], {}).out = {} /\ FreshTab.out = {}
  BY <1>1, SentFields, FreshTabFields
<1> QED
  BY <1>2, ExitsLeave DEF Awaits

LEMMA InvitesStayAwaited ==
  ASSUME TypeInv, InvitesAreAwaited, Next
  PROVE  InvitesAreAwaited'
<1> SUFFICES ASSUME NEW i \in Tabs, "gaveUp" \notin trouble'[i] PROVE Awaits(tab'[i])
  BY DEF InvitesAreAwaited, Awaits
<1>1. Awaits(tab[i]) /\ ~GivesUp(i) /\ Step
  BY TroublesAre DEF InvitesAreAwaited, Next
<1>2. ASSUME NEW t \in Tabs, HandleRequest(t) PROVE Awaits(tab'[i])
  <2>1. ASSUME NEW c \in Calls, HandleAccept(t, c) PROVE Awaits(tab'[i])
    BY <1>1, <2>1, AwaitedByTelling DEF HandleAccept
  <2>2. ASSUME NEW c \in Calls, NEW kind, HandleClose(t, c, kind) PROVE Awaits(tab'[i])
    BY <1>1, <2>2, AwaitedByTelling DEF HandleClose
  <2> QED
    BY <1>1, <1>2, <2>1, <2>2, AwaitedByInvite, AwaitedByRefusal, AwaitedByRelay
       DEF HandleRequest
<1>3. ASSUME NEW t \in Tabs, Click(t) PROVE Awaits(tab'[i])
  BY <1>1, <1>3, ClicksAct, AwaitedByTab
<1>4. ASSUME NEW t \in Tabs, Run(t) PROVE Awaits(tab'[i])
  BY <1>1, <1>4, RunsAct, AwaitedByTab
<1>5. ASSUME NEW t \in Tabs, Fail(t) PROVE Awaits(tab'[i])
  <2>1. ASSUME NEW k \in Jobs, StartFails(t, k) \/ AcceptFails(t, k) PROVE Awaits(tab'[i])
    <3>1. Acts(tab[t], tab'[t]) /\ Alone(t)
      BY <2>1, FailuresAct
    <3> QED
      BY <1>1, <3>1, AwaitedByTab
  <2> QED
    BY <1>1, <1>5, <2>1, AwaitedByExit DEF Fail, Exits
<1>6. ASSUME NEW t \in Tabs, Connect(t) PROVE Awaits(tab'[i])
  BY <1>1, <1>6 DEF Connect
<1>7. ASSUME NEW u \in Users, Drop(u) PROVE Awaits(tab'[i])
  <2>1. CASE \E c \in Calls : TellEnded(tab, c)
    <3>1. PICK c \in Calls : TellEnded(tab, c)
      BY <2>1
    <3> QED
      BY <1>1, <3>1, AwaitedByTelling
  <2>2. CASE UNCHANGED tab
    BY <1>1, <2>2
  <2> QED
    BY <1>7, <2>1, <2>2 DEF Drop
<1> QED
  BY <1>1, <1>2, <1>3, <1>4, <1>5, <1>6, <1>7, AwaitedByExit DEF Step, Exits

-----------------------------------------------------------------------------
(* A call that rings is heard.                                               *)

(* Before a call rings nothing in a tab is about it.  While it rings, a tab  *)
(* that shows it is calling if it is the caller's and ringing otherwise, and *)
(* only the callee's tabs are accepting it.                                  *)
RingsFit ==
  \A t \in Tabs, c \in Calls :
    /\ phase[c] = "idle" => Unheard(tab[t], c)
    /\ phase[c] = "ringing" => Fits(tab[t], c, UserOf[t] = caller[c])

(* Somebody's request to end call c is on its way.                           *)
Ending(c) ==
  \E t \in Tabs : UserOf[t] \in line[c] /\ Asked(tab[t], c, UserOf[t] = caller[c])

(* The caller's tab shows call c and times it, a tab of the callee shows it. *)
Ringing(c) ==
  /\ \E t \in Tabs : /\ UserOf[t] \in line[c] /\ UserOf[t] = caller[c]
                     /\ tab[t].call = c /\ c \in tab[t].timers
  /\ \E t \in Tabs : UserOf[t] \in line[c] /\ UserOf[t] # caller[c] /\ tab[t].call = c

RingsAreHeard ==
  \A c \in Calls : phase[c] = "ringing" /\ Untroubled(c) => Ending(c) \/ Ringing(c)

(* What an invitation makes of the tabs that hear of its call, which none    *)
(* has heard of before.                                                      *)
LEMMA InviteRings ==
  ASSUME TypeInv, NEW t \in Tabs, NEW k \in Jobs, NEW v \in Users, NEW c \in Calls,
         HandleInvite(t, k, v, c), NEW i \in Tabs
  PROVE  /\ Unheard(tab[i], c) => Fits(tab'[i], c, UserOf[i] = UserOf[t])
         /\ i = t /\ Awaits(tab[i]) => tab'[i].call = c /\ c \in tab'[i].timers
         /\ i # t /\ UserOf[i] = v /\ i \in up =>
              tab'[i].call = c \/ About("decline", c) \in tab'[i].out
<1> DEFINE r == Invite(k, v)
           rest == Rest(t, r)
           x == rest[i]
<1>1. Whole(x)
  BY RestIs
<1>2. tab' = [j \in Tabs |-> IF j = t THEN OnAck(rest[j], k, c)
                             ELSE IF Hears(j, {v}) THEN OnIncoming(rest[j], c)
                             ELSE rest[j]]
      /\ r \in tab[t].out /\ UserOf[t] # v
  BY DEF HandleInvite, Take, CanRing
<1>3. Unheard(tab[i], c) => Unheard(x, c)
  <2>1. Minds(x, x)
    BY DEF Minds
  <2>2. Bears(x, x, c)
    BY <1>1, <2>1, MindsBear
  <2>3. Follows(tab[i], x, c)
    BY <2>2, RestBears
  <2> QED
    BY <2>3 DEF Follows
<1>4. Awaits(tab[i]) /\ i = t => x.jobs[k].at = "ack"
  <2>1. Awaits(tab[i]) /\ i = t => tab[i].jobs[k].at = "ack"
    BY <1>2 DEF Awaits, IsInvite, Invite
  <2>2. Awaits(tab[i]) => x.jobs = tab[i].jobs
    BY RestAwaits
  <2> QED
    BY <2>1, <2>2
<1> HIDE DEF r, rest
<1>5. ASSUME x.jobs[k].at = "ack"
      PROVE  /\ Unheard(x, c) => Fits(OnAck(x, k, c), c, TRUE)
             /\ OnAck(x, k, c).call = c /\ c \in OnAck(x, k, c).timers
  <2> DEFINE y == OnAck(x, k, c)
  <2>1. Acks(x, y, k, c)
    BY <1>1, <1>5, OnAckMoves
  <2> HIDE DEF y
  <2>2. /\ y.call = c /\ y.phase = "calling" /\ c \in y.timers
        /\ y.jobs[k] = Free /\ \A l \in Jobs \ {k} : y.jobs[l] = x.jobs[l]
    BY <2>1 DEF Acks
  <2>3. Unheard(x, c) => Fits(y, c, TRUE)
    BY <2>2, FreeIsJob DEF Unheard, Fits
  <2> QED
    BY <2>2, <2>3 DEF y
<1>6. x.jobs[k].at # "ack" => OnAck(x, k, c) = x
  BY <1>1, OnAckMoves
<1>7. \A own \in BOOLEAN : Unheard(x, c) => Fits(x, c, own)
  BY DEF Unheard, Fits
<1>8. /\ Unheard(x, c) => Fits(OnIncoming(x, c), c, FALSE)
      /\ OnIncoming(x, c).call = c \/ About("decline", c) \in OnIncoming(x, c).out
  <2> DEFINE y == OnIncoming(x, c)
  <2>1. CASE x.call = None
    <3>1. Rings(x, y, c)
      BY <1>1, <2>1, OnIncomingMoves
    <3> HIDE DEF y
    <3>2. y.call = c /\ (Unheard(x, c) => Fits(y, c, FALSE))
      BY <3>1 DEF Rings, Unheard, Fits
    <3> QED
      BY <3>2 DEF y
  <2>2. CASE x.call # None
    <3>1. Stays(x, y) /\ About("decline", c) \in y.out
      BY <1>1, <2>2, OnIncomingMoves
    <3> HIDE DEF y
    <3>2. Unheard(x, c) => Fits(y, c, FALSE)
      BY <3>1 DEF Stays, SameRefs, Unheard, Fits
    <3> QED
      BY <3>1, <3>2 DEF y
  <2> QED
    BY <2>1, <2>2
<1>9. CASE i = t
  <2>1. tab'[i] = OnAck(x, k, c)
    BY <1>2, <1>9
  <2>2. Unheard(x, c) => Fits(tab'[i], c, TRUE)
    BY <1>5, <1>6, <1>7, <2>1
  <2>3. (UserOf[i] = UserOf[t]) = TRUE
    BY <1>9
  <2> QED
    BY <1>3, <1>4, <1>5, <1>9, <2>1, <2>2, <2>3
<1>10. CASE i # t /\ Hears(i, {v})
  <2>1. tab'[i] = OnIncoming(x, c)
    BY <1>2, <1>10
  <2>2. (UserOf[i] = UserOf[t]) = FALSE
    BY <1>2, <1>10 DEF Hears
  <2> QED
    BY <1>3, <1>8, <1>10, <2>1, <2>2
<1>11. CASE i # t /\ ~Hears(i, {v})
  <2>1. tab'[i] = x
    BY <1>2, <1>11
  <2>2. (UserOf[i] = UserOf[t]) \in BOOLEAN
    OBVIOUS
  <2> QED
    BY <1>3, <1>7, <1>11, <2>1, <2>2 DEF Hears
<1> QED
  BY <1>9, <1>10, <1>11

LEMMA FitStays ==
  ASSUME TypeInv, RingsFit, Next
  PROVE  RingsFit'
<1> SUFFICES ASSUME NEW i \in Tabs, NEW c \in Calls
             PROVE  /\ phase'[c] = "idle" => Unheard(tab'[i], c)
                    /\ phase'[c] = "ringing" => Fits(tab'[i], c, UserOf[i] = caller'[c])
  BY DEF RingsFit, Unheard, Fits
<1>1. /\ phase[c] = "idle" => Unheard(tab[i], c)
      /\ phase[c] = "ringing" => Fits(tab[i], c, UserOf[i] = caller[c])
  BY DEF RingsFit
<1>2. CASE Carried(i, c)
  <2>1. phase'[c] = phase[c] /\ caller'[c] = caller[c] /\ Follows(tab[i], tab'[i], c)
    BY <1>2 DEF Carried
  <2>2. phase[c] = "idle" => Unheard(tab'[i], c)
    BY <1>1, <2>1 DEF Follows
  <2>3. (UserOf[i] = caller[c]) \in BOOLEAN
    OBVIOUS
  <2>4. phase[c] = "ringing" => Fits(tab'[i], c, UserOf[i] = caller[c])
    BY <1>1, <2>1, <2>3 DEF Follows
  <2> QED
    BY <2>1, <2>2, <2>4
<1>3. CASE Progress(c)
  BY <1>3 DEF Progress
<1>4. ASSUME NEW t \in Tabs, NEW k \in Jobs, NEW v \in Users, HandleInvite(t, k, v, c)
      PROVE  /\ phase'[c] = "ringing"
             /\ Fits(tab'[i], c, UserOf[i] = caller'[c])
  <2>1. phase[c] = "idle" /\ phase'[c] = "ringing" /\ caller'[c] = UserOf[t]
    BY <1>4 DEF HandleInvite, Server!Ring, TypeInv, TypeOK
  <2>2. Fits(tab'[i], c, UserOf[i] = UserOf[t])
    BY <1>1, <1>4, <2>1, InviteRings
  <2> QED
    BY <2>1, <2>2
<1> QED
  BY <1>2, <1>3, <1>4, StepsCarry DEF Next

(* A new call: the caller's tab, which waited for it, times it, and a tab of *)
(* the callee shows it or declines it.                                       *)
LEMMA NewCallIsHeard ==
  ASSUME TypeInv, RingsFit, InvitesAreAwaited, Record,
         NEW t \in Tabs, NEW k \in Jobs, NEW v \in Users, NEW c \in Calls,
         HandleInvite(t, k, v, c), Untroubled(c)'
  PROVE  Ending(c)' \/ Ringing(c)'
<1>1. /\ line'[c] = {UserOf[t], v} /\ caller'[c] = UserOf[t] /\ phase[c] = "idle"
      /\ UserOf[t] # v /\ TabsOf(v) \cap up # {}
  BY DEF HandleInvite, CanRing, Server!Ring, TypeInv, TypeOK
<1>2. trouble'[t] = {}
  BY <1>1 DEF Untroubled
<1>3. Awaits(tab[t])
  BY <1>2, TroublesAre DEF InvitesAreAwaited
<1>4. tab'[t].call = c /\ c \in tab'[t].timers
  BY <1>3, InviteRings
<1>5. PICK i \in Tabs : i \in up /\ UserOf[i] = v
  BY <1>1 DEF TabsOf
<1>6. tab'[i].call = c \/ About("decline", c) \in tab'[i].out
  BY <1>1, <1>5, InviteRings
<1>7. CASE tab'[i].call = c
  BY <1>1, <1>4, <1>5, <1>7 DEF Ringing
<1>8. CASE About("decline", c) \in tab'[i].out
  BY <1>1, <1>5, <1>8 DEF Ending, Asked
<1> QED
  BY <1>6, <1>7, <1>8

(* A call that goes on to ring: its tabs show it and time it as before, or   *)
(* ask to end it.                                                            *)
LEMMA OldCallIsHeard ==
  ASSUME TypeInv, TabsAreNeat, RingsFit, RingsAreHeard, Record,
         NEW c \in Calls, phase'[c] = "ringing", Untroubled(c)',
         phase[c] = "ringing", line'[c] = line[c], caller'[c] = caller[c],
         \A i \in Tabs : Carried(i, c)
  PROVE  Ending(c)' \/ Ringing(c)'
<1>1. \A i \in Tabs : UserOf[i] \in line[c] => trouble[i] = {} /\ trouble'[i] = {}
  BY TroublesAre DEF Untroubled
<1>2. Ending(c) \/ Ringing(c)
  BY <1>1 DEF RingsAreHeard, Untroubled
<1>3. ASSUME NEW i \in Tabs, UserOf[i] \in line[c]
      PROVE  Kept(tab[i], tab'[i], c, UserOf[i] = caller[c])
  <2>1. Party(c, UserOf[i])
    BY <1>3 DEF Party, Server!Engaged
  <2>2. i \in up'
    BY <1>1, <1>3, TroublesAre
  <2>3. ~Tangled(tab[i])
    BY <1>1, <1>3 DEF TabsAreNeat, Sound
  <2>4. Fits(tab[i], c, UserOf[i] = caller[c])
    BY DEF RingsFit
  <2> QED
    BY <2>1, <2>2, <2>3, <2>4 DEF Carried
<1>4. ASSUME NEW i \in Tabs, UserOf[i] \in line[c], Asked(tab'[i], c, UserOf[i] = caller[c])
      PROVE  Ending(c)'
  BY <1>4 DEF Ending, Asked
<1>5. CASE Ending(c)
  <2>1. PICK i \in Tabs : UserOf[i] \in line[c] /\ Asked(tab[i], c, UserOf[i] = caller[c])
    BY <1>5 DEF Ending
  <2>2. Asked(tab'[i], c, UserOf[i] = caller[c])
    BY <1>3, <2>1 DEF Kept
  <2> QED
    BY <1>4, <2>1, <2>2
<1>6. CASE Ringing(c)
  <2>1. PICK t \in Tabs : /\ UserOf[t] \in line[c] /\ UserOf[t] = caller[c]
                          /\ tab[t].call = c /\ c \in tab[t].timers
    BY <1>6 DEF Ringing
  <2>2. PICK i \in Tabs : UserOf[i] \in line[c] /\ UserOf[i] # caller[c] /\ tab[i].call = c
    BY <1>6 DEF Ringing
  <2>3. \/ tab'[t].call = c /\ c \in tab'[t].timers
        \/ Asked(tab'[t], c, UserOf[t] = caller[c])
    BY <1>3, <2>1 DEF Kept
  <2>4. tab'[i].call = c \/ Asked(tab'[i], c, UserOf[i] = caller[c])
    BY <1>3, <2>2 DEF Kept
  <2>5. CASE /\ tab'[t].call = c /\ c \in tab'[t].timers
             /\ tab'[i].call = c
    BY <2>1, <2>2, <2>5 DEF Ringing
  <2> QED
    BY <1>4, <2>1, <2>2, <2>3, <2>4, <2>5
<1> QED
  BY <1>2, <1>5, <1>6

LEMMA HeardStays ==
  ASSUME TypeInv, TabsAreNeat, RingsFit, InvitesAreAwaited, RingsAreHeard, Next
  PROVE  RingsAreHeard'
<1> SUFFICES ASSUME NEW c \in Calls, phase'[c] = "ringing", Untroubled(c)'
             PROVE  Ending(c)' \/ Ringing(c)'
  BY DEF RingsAreHeard
<1>1. Step /\ Record
  BY DEF Next
<1>2. CASE \E t \in Tabs, k \in Jobs, v \in Users : HandleInvite(t, k, v, c)
  BY <1>1, <1>2, NewCallIsHeard
<1>3. CASE Tabs = {}
  <2>1. PICK u \in Users : Drop(u)
    BY <1>1, <1>3 DEF Step
  <2>2. phase[c] = "ringing"
    BY <2>1 DEF Drop, Server!End, Server!Engaged, TypeInv, TypeOK
  <2>3. Untroubled(c)
    BY <1>3 DEF Untroubled
  <2>4. Ending(c) \/ Ringing(c)
    BY <2>2, <2>3 DEF RingsAreHeard
  <2> QED
    BY <1>3, <2>4 DEF Ending, Ringing
<1>4. CASE /\ ~\E t \in Tabs, k \in Jobs, v \in Users : HandleInvite(t, k, v, c)
           /\ Tabs # {}
  <2>1. \A i \in Tabs : Carried(i, c)
    <3>1. ~Progress(c)
      BY DEF Progress
    <3> QED
      BY <1>1, <1>4, <3>1, StepsCarry
  <2>2. phase[c] = "ringing" /\ line'[c] = line[c] /\ caller'[c] = caller[c]
    BY <1>4, <2>1 DEF Carried
  <2> QED
    BY <1>1, <2>1, <2>2, OldCallIsHeard
<1> QED
  BY <1>2, <1>3, <1>4

LEMMA HearingStarts == Init => RingsFit /\ InvitesAreAwaited /\ RingsAreHeard
<1> SUFFICES ASSUME Init PROVE RingsFit /\ InvitesAreAwaited /\ RingsAreHeard
  OBVIOUS
<1>1. \A t \in Tabs : tab[t] = FreshTab
  BY DEF Init
<1>2. \A c \in Calls : phase[c] = "idle"
  BY DEF Init, Server!Init
<1>3. /\ FreshTab.call = None /\ FreshTab.out = {}
      /\ \A k \in Jobs : FreshTab.jobs[k].at = "free"
  BY FreshTabFields, FreeIsJob
<1>4. \A c \in Calls : Unheard(FreshTab, c)
  BY <1>3, NoneAssumption DEF Unheard
<1> QED
  BY <1>1, <1>2, <1>3, <1>4 DEF RingsFit, InvitesAreAwaited, Awaits, RingsAreHeard

LEMMA HearingStutters ==
  ASSUME UNCHANGED vars
  PROVE  /\ RingsFit => RingsFit'
         /\ InvitesAreAwaited => InvitesAreAwaited'
         /\ RingsAreHeard => RingsAreHeard'
BY DEF vars, RingsFit, Unheard, Fits, InvitesAreAwaited, Awaits, IsInvite, RingsAreHeard,
       Ending, Ringing, Asked, Untroubled

(* No tab is about a call before it is placed, and while it rings its        *)
(* caller's tabs are calling and the callee's tabs ringing.                  *)
THEOREM RingsStayFit == Spec => []RingsFit
<1>1. TypeInv /\ RingsFit /\ [Next]_vars => RingsFit'
  BY FitStays, HearingStutters
<1> QED
  BY <1>1, HearingStarts, TypeCorrect, PTL DEF Spec

(* Unless its start gave up, a tab waits for the answer to every invitation  *)
(* it has on its way.                                                        *)
THEOREM InvitesAreAlwaysAwaited == Spec => []InvitesAreAwaited
<1>1. TypeInv /\ InvitesAreAwaited /\ [Next]_vars => InvitesAreAwaited'
  BY InvitesStayAwaited, HearingStutters
<1> QED
  BY <1>1, HearingStarts, TypeCorrect, PTL DEF Spec

(* At any moment: a call that rings is timed by a tab of its caller and      *)
(* shown in a tab of its callee, or somebody's request to end it is on its   *)
(* way.                                                                      *)
THEOREM RingsAreAlwaysHeard == Spec => []RingsAreHeard
<1>1. /\ TypeInv /\ TabsAreNeat /\ RingsFit /\ InvitesAreAwaited
      /\ RingsAreHeard /\ [Next]_vars
      => RingsAreHeard'
  BY HeardStays, HearingStutters
<1> QED
  BY <1>1, HearingStarts, TypeCorrect, TabsStayNeat, RingsStayFit, InvitesAreAlwaysAwaited,
     PTL DEF Spec

LEMMA HearingMeans ==
  ASSUME CallsAreReal, RingsFit, RingsAreHeard
  PROVE  RingingIsHeard
<1> SUFFICES ASSUME Quiet, NEW c \in Calls, phase[c] = "ringing", Untroubled(c)
             PROVE  /\ \E t \in up : /\ UserOf[t] # caller[c] /\ tab[t].call = c
                                     /\ tab[t].phase = "ringing"
                    /\ \E t \in up : /\ UserOf[t] = caller[c] /\ tab[t].call = c
                                     /\ c \in tab[t].timers
  BY DEF RingingIsHeard
<1>1. \A t \in Tabs : UserOf[t] \in line[c] => t \in up /\ tab[t].out = {}
  BY DEF Quiet, Untroubled, CallsAreReal
<1>2. ~Ending(c)
  BY <1>1 DEF Ending, Asked
<1>3. Ringing(c)
  BY <1>2 DEF RingsAreHeard
<1>4. PICK t \in Tabs : UserOf[t] \in line[c] /\ UserOf[t] # caller[c] /\ tab[t].call = c
  BY <1>3 DEF Ringing
<1>5. tab[t].phase = "ringing"
  BY <1>4 DEF RingsFit, Fits
<1> QED
  BY <1>1, <1>3, <1>4, <1>5 DEF Ringing

(* The server never waits for a ring nobody hears or nobody times: once      *)
(* nothing is under way, a call that rings shows in a connected tab of the   *)
(* callee, and a connected tab of the caller will hang up.                   *)
THEOREM RingingCallsAreHeard == Spec => []RingingIsHeard
<1>1. CallsAreReal /\ RingsFit /\ RingsAreHeard => RingingIsHeard
  BY HearingMeans
<1> QED
  BY <1>1, CallsStayReal, RingsStayFit, RingsAreAlwaysHeard, PTL

-----------------------------------------------------------------------------
(* An answered call connects two tabs.                                       *)

(* Requests about a call that the other side hears of, and jobs that work on *)
(* what came of them.                                                        *)
Signals(c) == {About("offer", c), About("answer", c), About("ice", c)}
Silent(x, c) ==
  /\ x.out \cap Signals(c) = {}
  /\ \A k \in Jobs : x.jobs[k].at = "describe" => x.jobs[k].call # c
Unknown(x, c) == Unheard(x, c) /\ Silent(x, c) /\ About("accept", c) \notin x.out

(* Jobs belong to the call and to the connection they were begun for.        *)
JobsFit(x) ==
  /\ x.phase = "ringing" => ~x.outgoing
  /\ \A k \in Jobs : x.jobs[k].at = "acceptMedia" => ~x.outgoing
  /\ \A k \in Jobs : x.jobs[k].at = "describe" =>
       /\ x.jobs[k].stream = x.peer => x.jobs[k].call = x.call
       /\ \A l \in Jobs : x.jobs[l].at = "ack" => x.jobs[l].stream # x.jobs[k].stream

(* The jobs at work on a description for the connection in use.              *)
Works(x) == {k \in Jobs : x.jobs[k].at = "describe" /\ x.jobs[k].stream = x.peer}

(* A connection of which nothing is known of the other side yet.             *)
New(m) == m.pc = "new" /\ m.remote = None /\ m.ice = {}

(* What a tab is that shows a call nobody has answered yet.                  *)
ShowsRinging(x, own) ==
  /\ x.phase = IF own THEN "calling" ELSE "ringing"
  /\ x.outgoing = own
  /\ x.pending = {} /\ (x.peer # None => New(x.media[x.peer]))
  /\ own => x.peer # None
  /\ x.here => x.peer # None

(* A tab of one of the two people while call c rings: nobody has signalled,  *)
(* and who accepts the call shows it.                                        *)
Ready(x, c, own) ==
  /\ x.call = c => ShowsRinging(x, own)
  /\ Silent(x, c)
  /\ ~own /\ About("accept", c) \in x.out => x.call = c /\ x.here

TabsFit == \A t \in Tabs : "tangled" \notin trouble[t] => JobsFit(tab[t])

(* Who shows a call is one of its two people, one of whom placed it, in one  *)
(* tab.                                                                      *)
CallsAreKnown ==
  \A t \in Tabs, c \in Calls :
    /\ phase[c] = "idle" => Unknown(tab[t], c)
    /\ tab[t].call = c => UserOf[t] \in line[c]
    /\ \A i \in Tabs : tab[t].call = c /\ tab[i].call = c
                         /\ UserOf[t] = caller[c] /\ UserOf[i] = caller[c] => t = i
LinesAreOfTwo ==
  \A c \in Calls : \A u, w \in line[c] \ {caller[c]} : u = w

CallsAreReady ==
  \A c \in Calls : phase[c] = "ringing" /\ Untroubled(c) =>
    Ending(c) \/ \A t \in Tabs : UserOf[t] \in line[c] => Ready(tab[t], c, UserOf[t] = caller[c])

(* How far the offer of x and the answer of z have come; x is tab t, that of *)
(* the caller, and z tab i.                                                  *)
Works1(x, kind, from) ==
  \E k \in Jobs : Works(x) = {k} /\ x.jobs[k].kind = kind /\ x.jobs[k].from = from
Linked(x, pc, from) == x.media[x.peer].pc = pc /\ x.media[x.peer].remote = from
Offering(c, x, z, t, i) ==
  \/ /\ About("offer", c) \in x.out /\ About("answer", c) \notin z.out
     /\ Works(x) = {} /\ Works(z) = {}
     /\ Linked(x, "offered", None) /\ Linked(z, "new", None)
  \/ /\ About("offer", c) \notin x.out /\ About("answer", c) \notin z.out
     /\ Works(x) = {} /\ Works1(z, "offer", t)
     /\ Linked(x, "offered", None) /\ Linked(z, "new", None)
Answering(c, x, z, t, i) ==
  \/ /\ About("offer", c) \notin x.out /\ About("answer", c) \in z.out
     /\ Works(x) = {} /\ Works(z) = {}
     /\ Linked(x, "offered", None) /\ Linked(z, "stable", t)
  \/ /\ About("offer", c) \notin x.out /\ About("answer", c) \notin z.out
     /\ Works1(x, "answer", i) /\ Works(z) = {}
     /\ Linked(x, "offered", None) /\ Linked(z, "stable", t)
Connected(c, x, z, t, i) ==
  /\ About("offer", c) \notin x.out /\ About("answer", c) \notin z.out
  /\ Works(x) = {} /\ Works(z) = {}
  /\ Linked(x, "stable", i) /\ Linked(z, "stable", t)

(* The candidate of tab from, which holds out: on its way, waiting in x, or  *)
(* added to the connection of x.                                             *)
Candidate(c, x, from, out) ==
  IF About("ice", c) \in out THEN x.pending = {} /\ x.media[x.peer].ice = {}
  ELSE IF x.media[x.peer].remote = None THEN x.pending = {from} /\ x.media[x.peer].ice = {}
  ELSE x.pending = {} /\ x.media[x.peer].ice = {from}
Candidates(c, x, z, t, i) ==
  /\ Candidate(c, z, t, x.out)
  /\ IF z.media[z.peer].remote = None
     THEN /\ About("ice", c) \notin z.out
          /\ x.pending = {} /\ x.media[x.peer].ice = {}
     ELSE Candidate(c, x, i, z.out)

InCall(x, c) == x.call = c /\ x.phase = "active" /\ x.ring = None /\ x.peer # None
Pair(c, x, z, t, i) ==
  /\ InCall(x, c) /\ x.outgoing /\ About("answer", c) \notin x.out
  /\ InCall(z, c) /\ z.here /\ About("offer", c) \notin z.out
  /\ Offering(c, x, z, t, i) \/ Answering(c, x, z, t, i) \/ Connected(c, x, z, t, i)
  /\ Candidates(c, x, z, t, i)

(* What the tabs of the two people have to do with the call but for the two  *)
(* that are in it.                                                           *)
Aloof(x, c) == x.call # c /\ x.out \cap Signals(c) = {}

Talk(c, t, i) ==
  /\ UserOf[t] \in line[c] /\ UserOf[t] = caller[c]
  /\ UserOf[i] \in line[c] /\ UserOf[i] # caller[c]
  /\ Pair(c, tab[t], tab[i], t, i)
  /\ \A j \in Tabs : UserOf[j] \in line[c] =>
       /\ j \notin {t, i} => Aloof(tab[j], c)
       /\ UserOf[j] # caller[c] => About("accept", c) \notin tab[j].out

CallsConnect ==
  \A c \in Calls : phase[c] = "active" /\ Untroubled(c) =>
    Ending(c) \/ \E t, i \in Tabs : Talk(c, t, i)

-----------------------------------------------------------------------------
(* What a tab makes of an event about call d, or of a refusal.               *)

Hires(x, y, k, j, d) ==
  /\ Begins(x, y, k, j) /\ y.out = x.out /\ x.call = d /\ x.peer # None
  /\ j.at = "describe" /\ j.call = d /\ j.stream = x.peer
Heeds(x, y, d) ==
  \/ y = x
  \/ \E k \in Jobs : Acks(x, y, k, d) /\ y.out = x.out
  \/ Rings(x, y, d) /\ y.out = x.out
  \/ Stays(x, y) /\ y.out = x.out \cup {About("decline", d)}
  \/ \E k \in Jobs : GivesIn(x, y, k)
  \/ Answers(x, y, d) /\ y.out \in {x.out, x.out \cup {About("offer", d), About("ice", d)}}
  \/ x.call = d /\ Drops(x, y)
  \/ \E from \in Tabs : Ices(x, y, d, from) /\ y.out = x.out
  \/ \E k \in Slots(x), j \in Job : Hires(x, y, k, j, d)

LEMMA EventsHeeded ==
  ASSUME NEW x, Whole(x), NEW d \in Calls
  PROVE  /\ \A k \in Jobs : Heeds(x, OnAck(x, k, d), d)
         /\ Heeds(x, OnIncoming(x, d), d)
         /\ Heeds(x, OnAccepted(x, d), d)
         /\ Heeds(x, OnEnded(x, d), d)
         /\ \A from \in Tabs : Heeds(x, OnIce(x, d, from), d)
         /\ \A kind \in {"offer", "answer"}, from \in Tabs :
              Slots(x) # {} => Heeds(x, OnSdp(x, d, kind, from), d)
<1>1. ASSUME NEW k \in Jobs PROVE Heeds(x, OnAck(x, k, d), d)
  <2> DEFINE y == OnAck(x, k, d)
  <2>1. y = x \/ (Acks(x, y, k, d) /\ y.out = x.out)
    BY OnAckMoves
  <2> HIDE DEF y
  <2>2. Heeds(x, y, d)
    BY <2>1 DEF Heeds
  <2> QED
    BY <2>2 DEF y
<1>2. Heeds(x, OnIncoming(x, d), d)
  <2> DEFINE y == OnIncoming(x, d)
  <2>1. \/ Rings(x, y, d) /\ y.out = x.out
        \/ Stays(x, y) /\ y.out = x.out \cup {About("decline", d)}
    BY OnIncomingMoves
  <2> HIDE DEF y
  <2>2. Heeds(x, y, d)
    BY <2>1 DEF Heeds
  <2> QED
    BY <2>2 DEF y
<1>3. Heeds(x, OnAccepted(x, d), d)
  <2> DEFINE y == OnAccepted(x, d)
  <2>1. /\ x.call # d => y = x
        /\ x.call = d /\ ~x.here /\ ~x.sees => Drops(x, y)
        /\ x.call = d /\ (x.here \/ x.sees) =>
             /\ Answers(x, y, d)
             /\ y.out \in {x.out, x.out \cup {About("offer", d), About("ice", d)}}
    BY OnAcceptedMoves
  <2> HIDE DEF y
  <2>2. Heeds(x, y, d)
    BY <2>1 DEF Heeds
  <2> QED
    BY <2>2 DEF y
<1>4. Heeds(x, OnEnded(x, d), d)
  <2> DEFINE y == OnEnded(x, d)
  <2>1. y = x \/ (x.call = d /\ Drops(x, y))
    BY OnEndedMoves
  <2> HIDE DEF y
  <2>2. Heeds(x, y, d)
    BY <2>1 DEF Heeds
  <2> QED
    BY <2>2 DEF y
<1>5. ASSUME NEW from \in Tabs PROVE Heeds(x, OnIce(x, d, from), d)
  <2> DEFINE y == OnIce(x, d, from)
  <2>1. y = x \/ (Ices(x, y, d, from) /\ y.out = x.out)
    BY OnIceMoves
  <2> HIDE DEF y
  <2>2. Heeds(x, y, d)
    BY <2>1 DEF Heeds
  <2> QED
    BY <2>2 DEF y
<1>6. ASSUME NEW kind \in {"offer", "answer"}, NEW from \in Tabs, Slots(x) # {}
      PROVE  Heeds(x, OnSdp(x, d, kind, from), d)
  <2> DEFINE y == OnSdp(x, d, kind, from)
  <2>1. y = x \/ \E k \in Slots(x), j \in Job : Hires(x, y, k, j, d)
    BY <1>6, OnSdpMoves DEF Hires
  <2> HIDE DEF y
  <2>2. Heeds(x, y, d)
    BY <2>1 DEF Heeds
  <2> QED
    BY <2>2 DEF y
<1> QED
  BY <1>1, <1>2, <1>3, <1>4, <1>5, <1>6

LEMMA RefusalHeeded ==
  ASSUME NEW x, Whole(x), NEW d, NEW k \in Jobs
  PROVE  Heeds(x, OnRefused(x, k), d)
<1> DEFINE y == OnRefused(x, k)
<1>1. y = x \/ (x.jobs[k].at = "ack" /\ y = Teardown(Return(x, k)))
  BY DEF OnRefused
<1> HIDE DEF y
<1>2. y = x \/ (x.jobs[k].at = "ack" /\ LetsGo(x, y, k) /\ y.out = x.out)
  BY <1>1, GiveUpClears DEF Whole
<1>3. Heeds(x, y, d)
  BY <1>2 DEF Heeds, GivesIn
<1> QED
  BY <1>3 DEF y

(* The jobs of a tab go on fitting it.                                       *)
LEMMA ClearedJobsFit ==
  ASSUME NEW x, NEW y, Whole(x), JobsFit(x), Clears(x, y),
         \A k \in Jobs : y.jobs[k] \in {x.jobs[k], Free}
  PROVE  JobsFit(y)
<1>1. \A k \in Jobs : x.jobs[k].at = "describe" => x.jobs[k].stream \in Streams
  BY DEF Whole, JobKnows
<1>3. y.peer = None /\ y.outgoing = FALSE
  BY DEF Clears
<1>4. \A k \in Jobs : y.jobs[k] = x.jobs[k] \/ y.jobs[k].at = "free"
  BY FreeIsJob
<1>5. \A k \in Jobs : y.jobs[k].at = "describe" =>
        /\ y.jobs[k].stream # y.peer
        /\ \A l \in Jobs : y.jobs[l].at = "ack" => y.jobs[l].stream # y.jobs[k].stream
  BY <1>1, <1>3, <1>4, NoneAssumption DEF JobsFit
<1> QED
  BY <1>3, <1>5 DEF JobsFit

(* Those of y are those of x, but for one that is no description.            *)
LEMMA AlikeJobsFit ==
  ASSUME NEW x, NEW y, JobsFit(x),
         y.peer = x.peer, y.call = x.call, y.outgoing = x.outgoing,
         y.phase = "ringing" => x.phase = "ringing",
         \A k \in Jobs : \/ y.jobs[k] = x.jobs[k]
                         \/ y.jobs[k].at \in {"free", "startMedia"}
                         \/ y.jobs[k].at = "acceptMedia" /\ x.phase = "ringing"
  PROVE  JobsFit(y)
BY DEF JobsFit

LEMMA ActsFitJobs ==
  ASSUME NEW x, NEW y, Whole(x), Sound(x), JobsFit(x), Acts(x, y)
  PROVE  JobsFit(y)
<1>1. CASE Idles(x, y)
  BY <1>1, AlikeJobsFit DEF Idles, Stays, SameRefs
<1>2. CASE Declines(x, y) \/ HangsUp(x, y)
  BY <1>2, ClearedJobsFit DEF Declines, HangsUp
<1>3. ASSUME NEW c \in Calls, Expires(x, y, c) PROVE JobsFit(y)
  BY <1>3, AlikeJobsFit DEF Expires, Stays, SameRefs
<1>4. ASSUME NEW k \in Slots(x), NEW j \in Job, Starts(x, y, k, j) \/ Accepts(x, y, k, j)
      PROVE  JobsFit(y)
  <2>1. /\ y.peer = x.peer /\ y.call = x.call /\ y.outgoing = x.outgoing /\ y.phase = x.phase
        /\ y.jobs[k] = j /\ \A l \in Jobs \ {k} : y.jobs[l] = x.jobs[l]
        /\ j.at = "startMedia" \/ (j.at = "acceptMedia" /\ x.phase = "ringing")
    BY <1>4 DEF Starts, Accepts, Begins, SameRefs, SameState
  <2> QED
    BY <2>1, AlikeJobsFit
<1>5. ASSUME NEW k \in Jobs, NEW s \in Unused(x), Invites(x, y, k, s) PROVE JobsFit(y)
  <2>1. /\ y.peer = x.peer /\ y.call = x.call /\ y.outgoing = x.outgoing /\ y.phase = x.phase
        /\ y.jobs[k].at = "ack" /\ y.jobs[k].stream = s
        /\ \A l \in Jobs \ {k} : y.jobs[l] = x.jobs[l]
    BY <1>5 DEF Invites, Asks
  <2>2. \A l \in Jobs : x.jobs[l].stream # s
    BY DEF Unused
  <2> QED
    BY <2>1, <2>2 DEF JobsFit
<1>6. ASSUME NEW k \in Jobs, NEW s \in Unused(x), Enters(x, y, k, s) PROVE JobsFit(y)
  <2>1. /\ y.peer = s /\ y.outgoing = x.outgoing /\ y.phase = x.phase
        /\ y.jobs[k] = Free /\ \A l \in Jobs \ {k} : y.jobs[l] = x.jobs[l]
    BY <1>6 DEF Enters, Takes
  <2>2. \A l \in Jobs : x.jobs[l].stream # s
    BY DEF Unused
  <2>3. \A l \in Jobs : y.jobs[l] = x.jobs[l] \/ y.jobs[l].at = "free"
    BY <2>1, FreeIsJob
  <2> QED
    BY <2>1, <2>2, <2>3 DEF JobsFit
<1>7. ASSUME NEW k \in Jobs, Describes(x, y, k) PROVE JobsFit(y)
  <2>1. /\ y.peer = x.peer /\ y.call = x.call /\ y.outgoing = x.outgoing /\ y.phase = x.phase
        /\ y.jobs = [x.jobs EXCEPT ![k] = Free]
    BY <1>7 DEF Describes, DescribedBy, SameState
  <2>2. x.jobs \in [Jobs -> Job]
    BY TabFields DEF Whole, JobTable
  <2>3. \A l \in Jobs : y.jobs[l] = x.jobs[l] \/ y.jobs[l].at = "free"
    BY <2>1, <2>2, FreeIsJob
  <2> QED
    BY <2>1, <2>3, AlikeJobsFit
<1>8. ASSUME NEW k \in Jobs, GivesIn(x, y, k) \/ Excuses(x, y, k) PROVE JobsFit(y)
  BY <1>8, ClearedJobsFit DEF GivesIn, Excuses, LetsGo
<1> QED
  BY <1>1, <1>2, <1>3, <1>4, <1>5, <1>6, <1>7, <1>8 DEF Acts

LEMMA HeedsFitJobs ==
  ASSUME NEW x, NEW y, NEW d, Whole(x), Sound(x), JobsFit(x), Heeds(x, y, d)
  PROVE  JobsFit(y)
<1>1. CASE y = x
  BY <1>1
<1>2. ASSUME NEW k \in Jobs, Acks(x, y, k, d) PROVE JobsFit(y)
  <2>1. /\ x.jobs[k].at = "ack" /\ y.peer = x.jobs[k].stream /\ y.phase = "calling"
        /\ y.jobs[k] = Free /\ \A l \in Jobs \ {k} : y.jobs[l] = x.jobs[l]
    BY <1>2 DEF Acks
  <2>2. \A l \in Jobs : x.jobs[l].at = "acceptMedia" => FALSE
    BY <2>1 DEF Sound, Tangled, Asking
  <2>3. \A l \in Jobs : y.jobs[l] = x.jobs[l] \/ y.jobs[l].at = "free"
    BY <2>1, FreeIsJob
  <2>4. \A l \in Jobs : x.jobs[l].at = "describe" => x.jobs[l].stream # y.peer
    BY <2>1 DEF JobsFit
  <2> QED
    BY <2>1, <2>2, <2>3, <2>4 DEF JobsFit
<1>3. CASE Rings(x, y, d)
  <2>1. /\ y.peer = x.peer /\ y.outgoing = FALSE /\ y.jobs = x.jobs /\ x.call = None
    BY <1>3 DEF Rings
  <2>2. x.peer = None
    BY <2>1 DEF Sound, Neat, NoCallNothing
  <2>3. \A k \in Jobs : x.jobs[k].at = "describe" => x.jobs[k].stream # None
    BY NoneAssumption DEF Whole, JobKnows
  <2> QED
    BY <2>1, <2>2, <2>3 DEF JobsFit
<1>4. CASE Stays(x, y)
  BY <1>4, AlikeJobsFit DEF Stays, SameRefs
<1>5. ASSUME NEW k \in Jobs, GivesIn(x, y, k) PROVE JobsFit(y)
  BY <1>5, ClearedJobsFit DEF GivesIn, LetsGo
<1>6. CASE Answers(x, y, d)
  BY <1>6, AlikeJobsFit DEF Answers
<1>7. CASE Drops(x, y)
  BY <1>7, ClearedJobsFit DEF Drops
<1>8. ASSUME NEW from \in Tabs, Ices(x, y, d, from) PROVE JobsFit(y)
  BY <1>8, AlikeJobsFit DEF Ices
<1>9. ASSUME NEW k \in Slots(x), NEW j \in Job, Hires(x, y, k, j, d) PROVE JobsFit(y)
  <2>1. /\ y.peer = x.peer /\ y.call = x.call /\ y.outgoing = x.outgoing /\ y.phase = x.phase
        /\ y.jobs[k] = j /\ \A l \in Jobs \ {k} : y.jobs[l] = x.jobs[l]
        /\ j.at = "describe" /\ j.call = x.call /\ x.peer # None
    BY <1>9 DEF Hires, Begins, SameRefs, SameState
  <2>2. \A l \in Jobs : x.jobs[l].at # "ack"
    BY <2>1 DEF Sound, Neat, MediumAskedFor
  <2> QED
    BY <2>1, <2>2 DEF JobsFit
<1> QED
  BY <1>1, <1>2, <1>3, <1>4, <1>5, <1>6, <1>7, <1>8, <1>9 DEF Heeds

-----------------------------------------------------------------------------
(* What a tab has to do with call c, in the call or not, stays as it is; own, *)
(* whether it is a tab of the caller.                                        *)

SameSide(x, y) ==
  /\ y.here = x.here /\ (x.ring = None => y.ring = None) /\ y.peer = x.peer
  /\ y.pending = x.pending /\ y.phase = x.phase /\ y.outgoing = x.outgoing
  /\ x.peer # None => SameLink(x, y, x.peer)
  /\ Works(y) = Works(x) /\ \A k \in Works(x) : y.jobs[k] = x.jobs[k]
SameSignals(x, y, c) == \A r \in Signals(c) : r \in y.out <=> r \in x.out
SameCall(x, y, c, own) ==
  /\ IF x.call = c THEN y.call = c /\ SameSide(x, y) ELSE y.call # c
  /\ SameSignals(x, y, c)
  /\ Silent(x, c) => Silent(y, c)
  /\ ~own /\ About("accept", c) \in y.out => About("accept", c) \in x.out
  /\ Asked(x, c, own) => Asked(y, c, own)

(* The tab goes into the call, as the callee's.                              *)
Joins(x, y, c, own) ==
  /\ x.call = c /\ ~x.here /\ ~own
  /\ y.call = c /\ y.phase = x.phase /\ y.outgoing = x.outgoing /\ y.pending = x.pending
  /\ y.here = TRUE /\ y.peer # None /\ New(y.media[y.peer])
  /\ Silent(x, c) => Silent(y, c)

(* It works on a description for the connection in use.                      *)
Speaks(x, y, c) == x.call = c /\ \E k \in Works(x) : Describes(x, y, k)

LEMMA SignalsAre ==
  ASSUME NEW c
  PROVE  /\ \A r : r \in Signals(c) => r \in {About("offer", c), About("answer", c), About("ice", c)}
         /\ \A r \in Signals(c) : r.kind \in {"offer", "answer", "ice"} /\ r.call = c
         /\ \A kind : About(kind, c).kind = kind /\ About(kind, c).call = c
         /\ \A k, u : Invite(k, u).kind = "invite"
BY DEF Signals, About, Invite

(* One that no longer shows the call, or never did.                          *)
LEMMA SameAway ==
  ASSUME NEW x, NEW y, NEW c \in Calls, NEW own \in BOOLEAN,
         x.call # c, y.call # c,
         \A k \in Jobs : y.jobs[k].at = "describe" /\ y.jobs[k].call = c => y.jobs[k] = x.jobs[k],
         x.out \subseteq y.out,
         \A r \in y.out : r \in x.out \/ r.call # c \/ r.kind \in {"invite", "hangup", "decline"}
  PROVE  SameCall(x, y, c, own)
<1>1. /\ \A r \in Signals(c) : r.kind \in {"offer", "answer", "ice"} /\ r.call = c
      /\ About("accept", c).kind = "accept" /\ About("accept", c).call = c
  BY SignalsAre
<1>2. SameSignals(x, y, c)
  BY <1>1 DEF SameSignals
<1>3. About("accept", c) \in y.out => About("accept", c) \in x.out
  BY <1>1
<1>4. Silent(x, c) => Silent(y, c)
  BY <1>2 DEF Silent, SameSignals
<1>5. Asked(x, c, own) => Asked(y, c, own)
  BY DEF Asked
<1> QED
  BY <1>2, <1>3, <1>4, <1>5 DEF SameCall

(* One that goes on showing it, or not.                                      *)
LEMMA SameStaying ==
  ASSUME NEW x, NEW y, Whole(x), NEW c \in Calls, NEW own \in BOOLEAN,
         y.call = x.call, y.here = x.here, y.ring = x.ring, y.peer = x.peer,
         y.pending = x.pending, y.phase = x.phase, y.outgoing = x.outgoing, SameLinks(x, y),
         \A k \in Jobs : \/ y.jobs[k] = x.jobs[k]
                         \/ /\ x.jobs[k].at # "describe" \/ x.jobs[k].stream # x.peer
                            /\ y.jobs[k].at # "describe",
         x.out \subseteq y.out,
         \A r \in y.out : r \in x.out \/ r.call # c \/ r.kind \in {"invite", "hangup", "decline"}
  PROVE  SameCall(x, y, c, own)
<1>1. /\ \A r \in Signals(c) : r.kind \in {"offer", "answer", "ice"} /\ r.call = c
      /\ About("accept", c).kind = "accept" /\ About("accept", c).call = c
  BY SignalsAre
<1>2. SameSignals(x, y, c)
  BY <1>1 DEF SameSignals
<1>3. About("accept", c) \in y.out => About("accept", c) \in x.out
  BY <1>1
<1>4. Silent(x, c) => Silent(y, c)
  BY <1>2 DEF Silent, SameSignals
<1>5. Asked(x, c, own) => Asked(y, c, own)
  BY DEF Asked
<1>6. Works(y) = Works(x) /\ \A k \in Works(x) : y.jobs[k] = x.jobs[k]
  BY DEF Works
<1>7. x.peer # None => SameLink(x, y, x.peer)
  BY TabFields DEF SameLinks, Whole
<1>8. SameSide(x, y)
  BY <1>6, <1>7 DEF SameSide
<1> QED
  BY <1>2, <1>3, <1>4, <1>5, <1>8 DEF SameCall

LEMMA SameItself ==
  ASSUME NEW x, Whole(x), NEW c \in Calls, NEW own \in BOOLEAN
  PROVE  SameCall(x, x, c, own)
BY SameStaying DEF SameLinks, SameLink

LEMMA SameBegun ==
  ASSUME NEW x, NEW y, Whole(x), NEW c \in Calls, NEW own \in BOOLEAN,
         NEW k, NEW j, Begins(x, y, k, j), j.at # "describe", y.out = x.out
  PROVE  SameCall(x, y, c, own)
<1>1. /\ y.call = x.call /\ y.here = x.here /\ y.ring = x.ring /\ y.peer = x.peer
      /\ y.pending = x.pending /\ y.phase = x.phase /\ y.outgoing = x.outgoing
      /\ y.media = x.media
      /\ x.jobs[k] = Free /\ y.jobs[k] = j /\ \A l \in Jobs \ {k} : y.jobs[l] = x.jobs[l]
  BY DEF Begins, SameRefs, SameState
<1>2. SameLinks(x, y)
  BY <1>1 DEF SameLinks, SameLink
<1>3. \A l \in Jobs : \/ y.jobs[l] = x.jobs[l]
                      \/ x.jobs[l].at # "describe" /\ y.jobs[l].at # "describe"
  BY <1>1, FreeIsJob
<1> QED
  BY <1>1, <1>2, <1>3, SameStaying

(* Whatever a tab does by itself.                                            *)
LEMMA ActsOnCall ==
  ASSUME NEW x, NEW y, Whole(x), Sound(x), JobsFit(x), Acts(x, y),
         NEW c \in Calls, NEW own \in BOOLEAN, x.call = c /\ own => x.outgoing
  PROVE  SameCall(x, y, c, own) \/ Asked(y, c, own) \/ Joins(x, y, c, own) \/ Speaks(x, y, c)
<1>1. \A kind, d : About(kind, d).kind = kind /\ About(kind, d).call = d
  BY SignalsAre
<1>2. CASE Idles(x, y)
  BY <1>2, SameStaying DEF Idles, Stays, SameRefs
<1>3. ASSUME Clears(x, y), \A k \in Jobs : y.jobs[k] \in {x.jobs[k], Free}, x.call # c,
             \/ y.out = x.out
             \/ \E kind \in {"hangup", "decline"} : \E d : y.out = x.out \cup {About(kind, d)}
      PROVE  SameCall(x, y, c, own)
  <2>1. y.call # c
    BY <1>3, NoneAssumption DEF Clears
  <2>2. \A k \in Jobs : y.jobs[k].at = "describe" => y.jobs[k] = x.jobs[k]
    BY <1>3, FreeIsJob
  <2>3. /\ x.out \subseteq y.out
        /\ \A r \in y.out : r \in x.out \/ r.kind \in {"hangup", "decline"}
    BY <1>1, <1>3
  <2> QED
    BY <1>3, <2>1, <2>2, <2>3, SameAway
<1>4. CASE Declines(x, y)
  <2>1. /\ x.phase = "ringing" /\ Clears(x, y) /\ y.jobs = x.jobs
        /\ y.out = x.out \cup {About("decline", x.call)}
    BY <1>4 DEF Declines
  <2>2. CASE x.call = c
    BY <2>1, <2>2 DEF JobsFit, Asked
  <2> QED
    BY <1>3, <2>1, <2>2
<1>5. CASE HangsUp(x, y)
  <2>1. Clears(x, y) /\ y.jobs = x.jobs /\ y.out = x.out \cup {About("hangup", x.call)}
    BY <1>5 DEF HangsUp
  <2>2. CASE x.call = c
    BY <2>1, <2>2 DEF Asked
  <2> QED
    BY <1>3, <2>1, <2>2
<1>6. ASSUME NEW d \in Calls, Expires(x, y, d) PROVE SameCall(x, y, c, own)
  <2>1. Stays(x, y) /\ y.out = x.out \cup {About("hangup", d)}
    BY <1>6 DEF Expires
  <2>2. \A r \in y.out : r \in x.out \/ r.kind = "hangup"
    BY <1>1, <2>1
  <2> QED
    BY <2>1, <2>2, SameStaying DEF Stays, SameRefs
<1>7. ASSUME NEW k \in Slots(x), NEW j \in Job, Starts(x, y, k, j) \/ Accepts(x, y, k, j)
      PROVE  SameCall(x, y, c, own)
  BY <1>7, SameBegun DEF Starts, Accepts
<1>8. ASSUME NEW k \in Jobs, NEW s \in Unused(x), Invites(x, y, k, s)
      PROVE  SameCall(x, y, c, own)
  <2>1. /\ x.jobs[k].at = "startMedia" /\ y.call = x.call /\ y.jobs[k].at = "ack"
        /\ \A l \in Jobs \ {k} : y.jobs[l] = x.jobs[l]
        /\ y.out = x.out \cup {Invite(k, x.jobs[k].to)}
    BY <1>8 DEF Invites, Asks
  <2>2. x.call # c
    BY <2>1, NoneAssumption, AskingClashes DEF Sound
  <2>3. \A r \in y.out : r \in x.out \/ r.kind = "invite"
    BY <2>1, SignalsAre
  <2> QED
    BY <2>1, <2>2, <2>3, SameAway
<1>9. ASSUME NEW k \in Jobs, NEW s \in Unused(x), Enters(x, y, k, s)
      PROVE  SameCall(x, y, c, own) \/ Joins(x, y, c, own)
  <2>1. /\ x.jobs[k].at = "acceptMedia"
        /\ y.call = x.call /\ y.here = TRUE /\ y.ring = x.ring /\ y.peer = s
        /\ y.pending = x.pending /\ y.phase = x.phase /\ y.outgoing = x.outgoing
        /\ y.jobs[k] = Free /\ \A l \in Jobs \ {k} : y.jobs[l] = x.jobs[l]
        /\ y.media[s].pc = "new" /\ y.media[s].remote = x.media[s].remote
        /\ y.media[s].ice = x.media[s].ice
        /\ y.out = x.out \cup {About("accept", x.jobs[k].call)}
    BY <1>9 DEF Enters, Takes
  <2>2. x.call = x.jobs[k].call /\ ~x.here
    BY <2>1 DEF Sound, Tangled
  <2>3. ~x.outgoing
    BY <2>1 DEF JobsFit
  <2>4. s \in Streams /\ x.media[s] = NoMedium
    BY DEF Unused
  <2>5. \A l \in Jobs : y.jobs[l].at = "describe" => y.jobs[l] = x.jobs[l]
    BY <2>1, FreeIsJob
  <2>6. CASE x.call = c
    <3>1. New(y.media[y.peer]) /\ y.peer # None
      BY <2>1, <2>4, NoMediumIs, NoneAssumption DEF New
    <3>2. Silent(x, c) => Silent(y, c)
      <4>1. About("accept", x.jobs[k].call) \notin Signals(c)
        BY <1>1, SignalsAre
      <4> QED
        BY <2>1, <2>5, <4>1 DEF Silent
    <3> QED
      BY <2>1, <2>2, <2>3, <2>6, <3>1, <3>2 DEF Joins
  <2>7. CASE x.call # c
    <3>1. \A r \in y.out : r \in x.out \/ r.call # c
      BY <1>1, <2>1, <2>2, <2>7
    <3> QED
      BY <2>1, <2>5, <2>7, <3>1, SameAway
  <2> QED
    BY <2>6, <2>7
<1>10. ASSUME NEW k \in Jobs, Describes(x, y, k)
       PROVE  SameCall(x, y, c, own) \/ Speaks(x, y, c)
  <2> DEFINE j == x.jobs[k]
  <2>1. /\ j.at = "describe" /\ j.stream \in Streams
        /\ y.call = x.call /\ y.here = x.here /\ y.ring = x.ring /\ y.peer = x.peer
        /\ y.phase = x.phase /\ y.outgoing = x.outgoing
        /\ y.jobs = [x.jobs EXCEPT ![k] = Free]
    BY <1>10 DEF Describes, DescribedBy, SameState, Whole, JobKnows
  <2>2. x.jobs \in [Jobs -> Job]
    BY TabFields DEF Whole, JobTable
  <2>3. y.jobs[k] = Free /\ \A l \in Jobs \ {k} : y.jobs[l] = x.jobs[l]
    BY <2>1, <2>2
  <2>4. \A l \in Jobs : y.jobs[l].at = "describe" => y.jobs[l] = x.jobs[l]
    BY <2>3, FreeIsJob
  <2>5. j.stream = x.peer => j.call = x.call
    BY <2>1 DEF JobsFit
  <2>6. j.stream # x.peer => y.pending = x.pending /\ y.media = x.media /\ y.out = x.out
    <3>1. ASSUME j.stream # x.peer PROVE x.media[j.stream].pc = "none"
      <4>1. x.media[j.stream] = [NoMedium EXCEPT !.mic = x.media[j.stream].mic]
        BY <2>1, <3>1 DEF Sound, Neat, OneMedium
      <4> QED
        BY <4>1 DEF NoMedium
    <3>2. j.stream # x.peer => Useless(x, j)
      BY <3>1 DEF Useless
    <3> QED
      BY <1>10, <3>2 DEF Describes, DescribedBy
  <2>7. CASE x.call = c /\ j.stream = x.peer
    BY <1>10, <2>1, <2>7 DEF Speaks, Works
  <2>8. CASE j.stream # x.peer
    <3>1. SameLinks(x, y)
      BY <2>6, <2>8 DEF SameLinks, SameLink
    <3>2. \A l \in Jobs : \/ y.jobs[l] = x.jobs[l]
                          \/ x.jobs[l].stream # x.peer /\ y.jobs[l].at # "describe"
      BY <2>3, <2>8, FreeIsJob
    <3>3. \A l \in Jobs : \/ y.jobs[l] = x.jobs[l]
                          \/ /\ x.jobs[l].at # "describe" \/ x.jobs[l].stream # x.peer
                             /\ y.jobs[l].at # "describe"
      BY <3>2
    <3>4. y.out = x.out /\ y.pending = x.pending
      BY <2>6, <2>8
    <3>5. /\ y.call = x.call /\ y.here = x.here /\ y.ring = x.ring /\ y.peer = x.peer
          /\ y.phase = x.phase /\ y.outgoing = x.outgoing
      BY <2>1
    <3> HIDE DEF j
    <3> QED
      BY <3>1, <3>3, <3>4, <3>5, SameStaying
  <2>9. CASE x.call # c /\ j.stream = x.peer
    <3>1. j.call # c /\ (\/ y.out = x.out
                         \/ y.out = x.out \cup {About("answer", j.call), About("ice", j.call)})
      BY <1>10, <2>5, <2>9 DEF Describes, DescribedBy
    <3>2. \A r \in y.out : r \in x.out \/ r.call # c
      BY <1>1, <3>1
    <3>3. x.out \subseteq y.out
      BY <3>1
    <3>4. x.call # c /\ y.call # c
      BY <2>1, <2>9
    <3>5. SameCall(x, y, c, own)
      BY <2>4, <3>2, <3>3, <3>4, SameAway
    <3> QED
      BY <3>5
  <2> QED
    BY <2>7, <2>8, <2>9
<1>11. ASSUME NEW k \in Jobs, GivesIn(x, y, k) PROVE SameCall(x, y, c, own)
  <2>1. x.call # c
    BY <1>11, NoneAssumption, AskingClashes DEF GivesIn, Sound
  <2> QED
    BY <1>3, <1>11, <2>1 DEF GivesIn, LetsGo
<1>12. ASSUME NEW k \in Jobs, Excuses(x, y, k)
       PROVE  SameCall(x, y, c, own) \/ Asked(y, c, own)
  <2>1. /\ x.jobs[k].at = "acceptMedia" /\ Clears(x, y)
        /\ y.jobs[k] = Free /\ \A l \in Jobs \ {k} : y.jobs[l] = x.jobs[l]
        /\ y.out = x.out \cup {About("decline", x.jobs[k].call)}
    BY <1>12 DEF Excuses, LetsGo
  <2>2. x.call = x.jobs[k].call /\ ~x.outgoing
    BY <2>1, AskingClashes DEF Sound, JobsFit
  <2>3. CASE x.call = c
    BY <2>1, <2>2, <2>3 DEF Asked
  <2> QED
    BY <1>3, <2>1, <2>3
<1> QED
  BY <1>2, <1>4, <1>5, <1>6, <1>7, <1>8, <1>9, <1>10, <1>11, <1>12 DEF Acts

(* An event about another call.                                              *)
LEMMA HeedsElsewhere ==
  ASSUME NEW x, NEW y, NEW d, NEW c \in Calls, d # c, NEW own \in BOOLEAN,
         Whole(x), Sound(x), Heeds(x, y, d)
  PROVE  SameCall(x, y, c, own)
<1>1. /\ \A kind : About(kind, d).kind = kind /\ About(kind, d).call = d
      /\ \A k \in Jobs : x.jobs[k].at = "ack" => x.call # c
  <2>1. \A kind : About(kind, d).kind = kind /\ About(kind, d).call = d
    BY SignalsAre
  <2>2. \A k \in Jobs : x.jobs[k].at = "ack" => x.call # c
    BY AskingClashes, NoneAssumption DEF Sound
  <2> QED
    BY <2>1, <2>2
<1>2. CASE y = x
  BY <1>2, SameItself
<1>3. ASSUME NEW k \in Jobs, Acks(x, y, k, d), y.out = x.out PROVE SameCall(x, y, c, own)
  <2>1. /\ x.jobs[k].at = "ack" /\ y.call = d
        /\ y.jobs[k] = Free /\ \A l \in Jobs \ {k} : y.jobs[l] = x.jobs[l]
    BY <1>3 DEF Acks
  <2>2. \A l \in Jobs : y.jobs[l].at = "describe" => y.jobs[l] = x.jobs[l]
    BY <2>1, FreeIsJob
  <2> QED
    BY <1>1, <1>3, <2>1, <2>2, SameAway
<1>4. CASE Rings(x, y, d) /\ y.out = x.out
  <2>1. x.call # c /\ y.call = d /\ y.jobs = x.jobs
    BY <1>4, NoneAssumption DEF Rings
  <2> QED
    BY <1>4, <2>1, SameAway
<1>5. CASE Stays(x, y) /\ y.out = x.out \cup {About("decline", d)}
  <2>1. \A r \in y.out : r \in x.out \/ r.call # c
    BY <1>1, <1>5
  <2> QED
    BY <1>5, <2>1, SameStaying DEF Stays, SameRefs
<1>6. ASSUME NEW k \in Jobs, GivesIn(x, y, k) PROVE SameCall(x, y, c, own)
  <2>1. /\ y.call = None /\ y.out = x.out
        /\ y.jobs[k] = Free /\ \A l \in Jobs \ {k} : y.jobs[l] = x.jobs[l]
        /\ x.call = None
    BY <1>6, AskingClashes DEF GivesIn, LetsGo, Clears, Sound
  <2>2. \A l \in Jobs : y.jobs[l].at = "describe" => y.jobs[l] = x.jobs[l]
    BY <2>1, FreeIsJob
  <2>3. None # c
    BY NoneAssumption
  <2> QED
    BY <2>1, <2>2, <2>3, SameAway
<1>7. CASE /\ Answers(x, y, d)
           /\ y.out \in {x.out, x.out \cup {About("offer", d), About("ice", d)}}
  <2>1. x.call = d /\ y.call = d /\ y.jobs = x.jobs
    BY <1>7 DEF Answers
  <2>2. x.out \subseteq y.out /\ \A r \in y.out : r \in x.out \/ r.call # c
    BY <1>1, <1>7
  <2> QED
    BY <2>1, <2>2, SameAway
<1>8. CASE x.call = d /\ Drops(x, y)
  <2>1. y.call # c /\ y.jobs = x.jobs /\ y.out = x.out
    BY <1>8, NoneAssumption DEF Drops, Clears
  <2> QED
    BY <1>8, <2>1, SameAway
<1>9. ASSUME NEW from \in Tabs, Ices(x, y, d, from), y.out = x.out
      PROVE  SameCall(x, y, c, own)
  <2>1. x.call = d /\ y.call = d /\ y.jobs = x.jobs
    BY <1>9 DEF Ices
  <2> QED
    BY <1>9, <2>1, SameAway
<1>10. ASSUME NEW k \in Slots(x), NEW j \in Job, Hires(x, y, k, j, d)
       PROVE  SameCall(x, y, c, own)
  <2>1. /\ x.call = d /\ y.call = d /\ y.out = x.out
        /\ y.jobs[k] = j /\ j.call = d /\ \A l \in Jobs \ {k} : y.jobs[l] = x.jobs[l]
    BY <1>10 DEF Hires, Begins, SameRefs
  <2>2. \A l \in Jobs : y.jobs[l].at = "describe" /\ y.jobs[l].call = c => y.jobs[l] = x.jobs[l]
    BY <2>1
  <2> QED
    BY <2>1, <2>2, SameAway
<1> QED
  BY <1>2, <1>3, <1>4, <1>5, <1>6, <1>7, <1>8, <1>9, <1>10 DEF Heeds

LEMMA SameTwice ==
  ASSUME NEW x, NEW w, NEW y, NEW c \in Calls, NEW own \in BOOLEAN,
         SameCall(x, w, c, own), SameCall(w, y, c, own)
  PROVE  SameCall(x, y, c, own)
<1>1. SameSide(x, w) /\ SameSide(w, y) => SameSide(x, y)
  BY DEF SameSide, SameLink
<1> QED
  BY <1>1 DEF SameCall, SameSignals

(* A request of tab t is handled that is none of call c's two people about   *)
(* call c, or says nothing about it.                                         *)
Aside(t, r, c) ==
  Party(c, UserOf[t]) =>
    /\ r \notin Signals(c) /\ r # About("hangup", c)
    /\ r \in {About("accept", c), About("decline", c)} => UserOf[t] = caller[c]

LEMMA RestSame ==
  ASSUME TypeInv, NEW t \in Tabs, NEW r, NEW i \in Tabs, NEW c \in Calls,
         Party(c, UserOf[i]), Aside(t, r, c)
  PROVE  /\ SameCall(tab[i], Rest(t, r)[i], c, UserOf[i] = caller[c])
         /\ Sound(tab[i]) => Sound(Rest(t, r)[i])
<1> DEFINE x == tab[i]
           w == Rest(t, r)[i]
           own == UserOf[i] = caller[c]
<1>1. Whole(x) /\ own \in BOOLEAN
  BY DEF TypeInv
<1>2. CASE i # t
  <2>1. w = x
    BY <1>2, RestIs
  <2> QED
    BY <1>1, <2>1, SameItself
<1>3. CASE i = t
  <2>1. x \in Tab /\ x.out \ {r} \in Outs
    BY <1>1, TabFields DEF Whole, Outs
  <2>2. w = Sent(x, x.out \ {r})
    BY <1>3, RestIs
  <2>3. SameRefs(x, w) /\ SameState(x, w) /\ SameWork(x, w) /\ w.out = x.out \ {r}
    BY <2>1, <2>2, SentFields
  <2>4. r \notin Signals(c) /\ r # About("hangup", c)
        /\ (r \in {About("accept", c), About("decline", c)} => own)
    BY <1>3 DEF Aside
  <2> HIDE DEF x, w, own
  <2>5. w.call = x.call /\ SameSide(x, w)
    BY <2>3 DEF SameRefs, SameState, SameWork, SameSide, SameLink, Works
  <2>6. SameSignals(x, w, c) /\ (Asked(x, c, own) => Asked(w, c, own))
    BY <2>3, <2>4 DEF SameSignals, Asked
  <2>7. Silent(x, c) => Silent(w, c)
    BY <2>3 DEF Silent, SameWork
  <2>8. SameCall(x, w, c, own)
    BY <2>3, <2>5, <2>6, <2>7 DEF SameCall
  <2>9. Sound(x) => Sound(w)
    BY <2>3 DEF SameRefs, SameState, SameWork, Sound, Tangled, Neat, OneMedium, NoCallNothing,
                MediumAskedFor
  <2> QED
    BY <2>8, <2>9 DEF x, w, own
<1> QED
  BY <1>2, <1>3

(* A tab that knows nothing of call c learns of it from its events only.     *)
LEMMA ActsUnknowing ==
  ASSUME NEW x, NEW y, Whole(x), Acts(x, y), NEW c \in Calls, Unknown(x, c)
  PROVE  Unknown(y, c)
<1>1. /\ \A r \in Signals(c) : r.kind \in {"offer", "answer", "ice"} /\ r.call = c
      /\ \A kind, d : About(kind, d).kind = kind /\ About(kind, d).call = d
      /\ \A k, u : Invite(k, u).kind = "invite"
  BY SignalsAre
<1>2. Unheard(y, c)
  BY ActsBear DEF Bears, Follows, Unknown
<1>3. ASSUME \A k \in Jobs : y.jobs[k].at = "describe" => y.jobs[k] = x.jobs[k],
             \A r \in y.out : \/ r \in x.out \/ r.call # c
                              \/ r.kind \in {"invite", "hangup", "decline"}
      PROVE  Unknown(y, c)
  <2>1. y.out \cap Signals(c) = {} /\ About("accept", c) \notin y.out
    BY <1>1, <1>3 DEF Unknown, Silent
  <2>2. \A k \in Jobs : y.jobs[k].at = "describe" => y.jobs[k].call # c
    BY <1>3 DEF Unknown, Silent
  <2> QED
    BY <1>2, <2>1, <2>2 DEF Unknown, Silent
<1>4. CASE Idles(x, y)
  BY <1>3, <1>4 DEF Idles, Stays
<1>5. CASE Declines(x, y) \/ HangsUp(x, y)
  <2>1. y.jobs = x.jobs /\ \A r \in y.out : r \in x.out \/ r.kind \in {"hangup", "decline"}
    BY <1>1, <1>5 DEF Declines, HangsUp
  <2> QED
    BY <1>3, <2>1
<1>6. ASSUME NEW d \in Calls, Expires(x, y, d) PROVE Unknown(y, c)
  <2>1. y.jobs = x.jobs /\ \A r \in y.out : r \in x.out \/ r.kind = "hangup"
    BY <1>1, <1>6 DEF Expires, Stays
  <2> QED
    BY <1>3, <2>1
<1>7. ASSUME NEW k \in Slots(x), NEW j \in Job, Starts(x, y, k, j) \/ Accepts(x, y, k, j)
      PROVE  Unknown(y, c)
  <2>1. /\ y.jobs[k].at # "describe" /\ \A l \in Jobs \ {k} : y.jobs[l] = x.jobs[l]
        /\ y.out = x.out
    BY <1>7 DEF Starts, Accepts, Begins
  <2> QED
    BY <1>3, <2>1
<1>8. ASSUME NEW k \in Jobs, NEW s \in Unused(x), Invites(x, y, k, s) PROVE Unknown(y, c)
  <2>1. /\ y.jobs[k].at = "ack" /\ \A l \in Jobs \ {k} : y.jobs[l] = x.jobs[l]
        /\ y.out = x.out \cup {Invite(k, x.jobs[k].to)}
    BY <1>8 DEF Invites, Asks
  <2> QED
    BY <1>1, <1>3, <2>1
<1>9. ASSUME NEW k \in Jobs, NEW s \in Unused(x), Enters(x, y, k, s) PROVE Unknown(y, c)
  <2>1. /\ x.jobs[k].at = "acceptMedia"
        /\ y.jobs[k] = Free /\ \A l \in Jobs \ {k} : y.jobs[l] = x.jobs[l]
        /\ y.out = x.out \cup {About("accept", x.jobs[k].call)}
    BY <1>9 DEF Enters, Takes
  <2>2. \A l \in Jobs : y.jobs[l].at = "describe" => y.jobs[l] = x.jobs[l]
    BY <2>1, FreeIsJob
  <2>3. x.jobs[k].call # c
    BY <2>1 DEF Unknown, Unheard
  <2> QED
    BY <1>1, <1>3, <2>1, <2>2, <2>3
<1>10. ASSUME NEW k \in Jobs, Describes(x, y, k) PROVE Unknown(y, c)
  <2> DEFINE j == x.jobs[k]
  <2>1. /\ j.at = "describe" /\ y.jobs = [x.jobs EXCEPT ![k] = Free]
        /\ \/ y.out = x.out
           \/ y.out = x.out \cup {About("answer", j.call), About("ice", j.call)}
    BY <1>10 DEF Describes, DescribedBy
  <2>2. x.jobs \in [Jobs -> Job]
    BY TabFields DEF Whole, JobTable
  <2>3. \A l \in Jobs : y.jobs[l].at = "describe" => y.jobs[l] = x.jobs[l]
    BY <2>1, <2>2, FreeIsJob
  <2>4. j.call # c
    BY <2>1 DEF Unknown, Silent
  <2>5. \A r \in y.out : r \in x.out \/ r.call # c
    BY <1>1, <2>1, <2>4
  <2> QED
    BY <1>3, <2>3, <2>5
<1>11. ASSUME NEW k \in Jobs, GivesIn(x, y, k) \/ Excuses(x, y, k) PROVE Unknown(y, c)
  <2>1. /\ y.jobs[k] = Free /\ \A l \in Jobs \ {k} : y.jobs[l] = x.jobs[l]
        /\ \A r \in y.out : r \in x.out \/ r.kind = "decline"
    BY <1>1, <1>11 DEF GivesIn, Excuses, LetsGo
  <2>2. \A l \in Jobs : y.jobs[l].at = "describe" => y.jobs[l] = x.jobs[l]
    BY <2>1, FreeIsJob
  <2> QED
    BY <1>3, <2>1, <2>2
<1> QED
  BY <1>4, <1>5, <1>6, <1>7, <1>8, <1>9, <1>10, <1>11 DEF Acts

LEMMA HeedsUnknowing ==
  ASSUME NEW x, NEW y, NEW d, NEW c \in Calls, d # c, Heeds(x, y, d), Unknown(x, c)
  PROVE  Unknown(y, c)
<1>1. /\ \A r \in Signals(c) : r.kind \in {"offer", "answer", "ice"} /\ r.call = c
      /\ \A kind, e : About(kind, e).kind = kind /\ About(kind, e).call = e
  BY SignalsAre
<1>2. ASSUME y.call # c,
             \A k \in Jobs : \/ y.jobs[k] = x.jobs[k] \/ y.jobs[k].at = "free"
                             \/ y.jobs[k].at = "describe" /\ y.jobs[k].call = d,
             \A r \in y.out : r \in x.out \/ r.call # c
      PROVE  Unknown(y, c)
  <2>1. y.out \cap Signals(c) = {} /\ About("accept", c) \notin y.out
    BY <1>1, <1>2 DEF Unknown, Silent
  <2>2. \A k \in Jobs : y.jobs[k].at \in {"describe", "acceptMedia"} => y.jobs[k].call # c
    BY <1>2 DEF Unknown, Silent, Unheard
  <2> QED
    BY <1>2, <2>1, <2>2 DEF Unknown, Silent, Unheard
<1>3. x.call # c
  BY DEF Unknown, Unheard
<1>4. CASE y = x
  BY <1>4
<1>5. ASSUME NEW k \in Jobs, Acks(x, y, k, d), y.out = x.out PROVE Unknown(y, c)
  BY <1>2, <1>5, FreeIsJob DEF Acks
<1>6. CASE Rings(x, y, d) /\ y.out = x.out
  BY <1>2, <1>6 DEF Rings
<1>7. CASE Stays(x, y) /\ y.out = x.out \cup {About("decline", d)}
  BY <1>1, <1>2, <1>3, <1>7 DEF Stays, SameRefs
<1>8. ASSUME NEW k \in Jobs, GivesIn(x, y, k) PROVE Unknown(y, c)
  BY <1>2, <1>8, FreeIsJob, NoneAssumption DEF GivesIn, LetsGo, Clears
<1>9. CASE /\ Answers(x, y, d)
           /\ y.out \in {x.out, x.out \cup {About("offer", d), About("ice", d)}}
  <2>1. y.call = d /\ y.jobs = x.jobs
    BY <1>9 DEF Answers
  <2>2. \A r \in y.out : r \in x.out \/ r.call # c
    BY <1>1, <1>9
  <2> QED
    BY <1>2, <2>1, <2>2
<1>10. CASE Drops(x, y)
  BY <1>2, <1>10, NoneAssumption DEF Drops, Clears
<1>11. ASSUME NEW from \in Tabs, Ices(x, y, d, from), y.out = x.out PROVE Unknown(y, c)
  BY <1>2, <1>11 DEF Ices
<1>12. ASSUME NEW k \in Slots(x), NEW j \in Job, Hires(x, y, k, j, d) PROVE Unknown(y, c)
  <2>1. /\ x.call = d /\ y.call = d /\ y.out = x.out
        /\ y.jobs[k] = j /\ j.at = "describe" /\ j.call = d
        /\ \A l \in Jobs \ {k} : y.jobs[l] = x.jobs[l]
    BY <1>12 DEF Hires, Begins, SameRefs
  <2> QED
    BY <1>2, <2>1
<1> QED
  BY <1>4, <1>5, <1>6, <1>7, <1>8, <1>9, <1>10, <1>11, <1>12 DEF Heeds

LEMMA RestUnknowing ==
  ASSUME TypeInv, NEW t \in Tabs, NEW r, NEW i \in Tabs, NEW c \in Calls,
         Unknown(tab[i], c)
  PROVE  Unknown(Rest(t, r)[i], c)
<1> DEFINE x == tab[i]
           w == Rest(t, r)[i]
<1>1. CASE i # t
  BY <1>1, RestIs
<1>2. CASE i = t
  <2>1. x \in Tab /\ x.out \ {r} \in Outs
    BY TabFields DEF TypeInv, Whole, Outs
  <2>2. w = Sent(x, x.out \ {r})
    BY <1>2, RestIs
  <2>3. SameRefs(x, w) /\ SameWork(x, w) /\ w.out = x.out \ {r}
    BY <2>1, <2>2, SentFields
  <2> HIDE DEF w
  <2>4. Unknown(w, c)
    BY <2>3 DEF SameRefs, SameWork, Unknown, Unheard, Silent
  <2> QED
    BY <2>4 DEF w
<1> QED
  BY <1>1, <1>2

-----------------------------------------------------------------------------
(* What a step may have to do with call c.                                   *)

(* Request r of tab t is handled, and what the tabs hear is about d.         *)
Heeding(t, r, d) == \A i \in Tabs : Heeds(Rest(t, r)[i], tab'[i], d)
SameOnServer(c) == phase'[c] = phase[c] /\ line'[c] = line[c] /\ caller'[c] = caller[c]
Ends(c) ==
  /\ Server!Engaged(c) /\ phase'[c] = "over" /\ line'[c] = line[c] /\ caller'[c] = caller[c]
  /\ Keeping
Besides(c) ==
  /\ SameOnServer(c)
  /\ \E d \in Calls \cup {None} : d # c /\
       \/ \E t \in Tabs : \E r \in tab[t].out : Aside(t, r, c) /\ Heeding(t, r, d)
       \/ \A i \in Tabs : Heeds(tab[i], tab'[i], d)

LEMMA TellingHeeded ==
  ASSUME TypeInv, NEW t \in Tabs, NEW r, NEW d \in Calls
  PROVE  /\ TellAccepted(Rest(t, r), d) \/ TellEnded(Rest(t, r), d) => Heeding(t, r, d)
         /\ tab' = Rest(t, r) => \A e : Heeding(t, r, e)
         /\ TellEnded(tab, d) => \A i \in Tabs : Heeds(tab[i], tab'[i], d)
<1> DEFINE rest == Rest(t, r)
<1>1. \A i \in Tabs : Whole(rest[i]) /\ Whole(tab[i])
  BY RestIs DEF TypeInv
<1>2. \A x, e : Heeds(x, x, e)
  BY DEF Heeds
<1>3. \A i \in Tabs : /\ Heeds(rest[i], OnAccepted(rest[i], d), d)
                      /\ Heeds(rest[i], OnEnded(rest[i], d), d)
                      /\ Heeds(tab[i], OnEnded(tab[i], d), d)
  BY <1>1, EventsHeeded
<1> HIDE DEF rest
<1>4. \A e : (\A i \in Tabs : Heeds(rest[i], tab'[i], e)) => Heeding(t, r, e)
  BY DEF Heeding, rest
<1>5. TellAccepted(rest, d) => \A i \in Tabs : Heeds(rest[i], tab'[i], d)
  BY <1>2, <1>3 DEF TellAccepted
<1>6. TellEnded(rest, d) => \A i \in Tabs : Heeds(rest[i], tab'[i], d)
  BY <1>2, <1>3 DEF TellEnded
<1>7. tab' = rest => \A e : \A i \in Tabs : Heeds(rest[i], tab'[i], e)
  BY <1>2
<1>8. TellEnded(tab, d) => \A i \in Tabs : Heeds(tab[i], tab'[i], d)
  BY <1>2, <1>3 DEF TellEnded
<1> QED
  BY <1>4, <1>5, <1>6, <1>7, <1>8 DEF rest

LEMMA InviteHeeded ==
  ASSUME TypeInv, NEW t \in Tabs, NEW k \in Jobs, NEW v \in Users, NEW d \in Calls,
         HandleInvite(t, k, v, d)
  PROVE  Heeding(t, Invite(k, v), d)
<1> DEFINE rest == Rest(t, Invite(k, v))
<1>1. \A i \in Tabs : Whole(rest[i])
  BY RestIs
<1>2. tab' = [i \in Tabs |-> IF i = t THEN OnAck(rest[i], k, d)
                             ELSE IF Hears(i, {v}) THEN OnIncoming(rest[i], d)
                             ELSE rest[i]]
  BY DEF HandleInvite
<1> HIDE DEF rest
<1>3. \A i \in Tabs : /\ Heeds(rest[i], rest[i], d)
                      /\ Heeds(rest[i], OnAck(rest[i], k, d), d)
                      /\ Heeds(rest[i], OnIncoming(rest[i], d), d)
  <2>1. \A i \in Tabs : Heeds(rest[i], rest[i], d)
    BY DEF Heeds
  <2> QED
    BY <1>1, <2>1, EventsHeeded
<1>4. \A i \in Tabs : Heeds(rest[i], tab'[i], d)
  BY <1>2, <1>3
<1> QED
  BY <1>4 DEF Heeding, rest

LEMMA RefuseHeeded ==
  ASSUME TypeInv, NEW t \in Tabs, NEW k \in Jobs, NEW v \in Users, NEW d,
         RefuseInvite(t, k, v)
  PROVE  Heeding(t, Invite(k, v), d)
<1> DEFINE rest == Rest(t, Invite(k, v))
<1>1. \A i \in Tabs : Whole(rest[i])
  BY RestIs
<1>2. rest = [i \in Tabs |-> rest[i]] /\ tab' = [rest EXCEPT ![t] = OnRefused(@, k)]
  BY RestIs DEF RefuseInvite
<1> HIDE DEF rest
<1>3. \A i \in Tabs : tab'[i] = rest[i] \/ tab'[i] = OnRefused(rest[i], k)
  BY <1>2
<1>4. \A i \in Tabs : Heeds(rest[i], rest[i], d) /\ Heeds(rest[i], OnRefused(rest[i], k), d)
  <2>1. \A i \in Tabs : Heeds(rest[i], rest[i], d)
    BY DEF Heeds
  <2> QED
    BY <1>1, <2>1, RefusalHeeded
<1>5. \A i \in Tabs : Heeds(rest[i], tab'[i], d)
  BY <1>3, <1>4
<1> QED
  BY <1>5 DEF Heeding, rest

LEMMA RelayHeeded ==
  ASSUME TypeInv, NEW t \in Tabs, NEW d \in Calls, NEW kind \in {"offer", "answer", "ice"},
         Relay(t, d, kind)
  PROVE  /\ Heeding(t, About(kind, d), d)
         /\ ~Party(d, UserOf[t]) => \A e : Heeding(t, About(kind, d), e)
<1> DEFINE rest == Rest(t, About(kind, d))
<1>1. \A i \in Tabs : Whole(rest[i])
  BY RestIs
<1>2. /\ tab' = [i \in Tabs |->
           IF Party(d, UserOf[t]) /\ Hears(i, line[d] \ {UserOf[t]})
             THEN IF kind = "ice" THEN OnIce(rest[i], d, t) ELSE OnSdp(rest[i], d, kind, t)
             ELSE rest[i]]
      /\ kind # "ice" => \A i \in Tabs : Slots(rest[i]) # {}
  BY DEF Relay
<1> HIDE DEF rest
<1>3. \A i \in Tabs : \A e : Heeds(rest[i], rest[i], e)
  BY DEF Heeds
<1>4. \A i \in Tabs : Heeds(rest[i], OnIce(rest[i], d, t), d)
  BY <1>1, EventsHeeded
<1>5. kind # "ice" => \A i \in Tabs : Heeds(rest[i], OnSdp(rest[i], d, kind, t), d)
  BY <1>1, <1>2, EventsHeeded
<1>6. \A i \in Tabs : Heeds(rest[i], tab'[i], d)
  BY <1>2, <1>3, <1>4, <1>5
<1>7. ~Party(d, UserOf[t]) => \A i \in Tabs : \A e : Heeds(rest[i], tab'[i], e)
  BY <1>2, <1>3
<1> QED
  BY <1>6, <1>7 DEF Heeding, rest

LEMMA ServerElsewhere ==
  ASSUME TypeInv, NEW c \in Calls, NEW d \in Calls, c # d
  PROVE  /\ \A a, b : Server!Ring(d, a, b) => phase'[c] = phase[c] /\ line'[c] = line[c]
         /\ Server!Answer(d) \/ Server!End(d) => phase'[c] = phase[c] /\ line'[c] = line[c]
BY DEF Server!Ring, Server!Answer, Server!End, TypeInv, TypeOK

LEMMA RequestKinds ==
  ASSUME TypeInv, NEW t \in Tabs, HandleRequest(t), NEW c \in Calls
  PROVE  \/ Ends(c)
         \/ \E k \in Jobs, v \in Users : HandleInvite(t, k, v, c)
         \/ Party(c, UserOf[t]) /\ UserOf[t] # caller[c] /\ HandleAccept(t, c)
         \/ \E kind \in {"offer", "answer", "ice"} : Party(c, UserOf[t]) /\ Relay(t, c, kind)
         \/ Besides(c)
<1>1. \A kind, d : About(kind, d).kind = kind /\ About(kind, d).call = d
  BY SignalsAre
<1>2. \A r : r \in Signals(c) => r.kind \in {"offer", "answer", "ice"} /\ r.call = c
  BY SignalsAre
<1>3. ASSUME SameOnServer(c), NEW r \in tab[t].out, Aside(t, r, c),
             NEW d \in Calls \cup {None}, d # c, Heeding(t, r, d)
      PROVE  Besides(c)
  BY <1>3 DEF Besides
<1>4. None # c
  BY NoneAssumption
<1>5. \A d : d # c => \A kind : Aside(t, About(kind, d), c)
  BY <1>1, <1>2 DEF Aside
<1>6. \A k, v : Aside(t, Invite(k, v), c)
  BY <1>1, <1>2, SignalsAre DEF Aside
<1>7. ASSUME NEW k \in Jobs, NEW v \in Users, RefuseInvite(t, k, v) PROVE Besides(c)
  <2>1. SameOnServer(c) /\ Invite(k, v) \in tab[t].out
    BY <1>7 DEF RefuseInvite, serverVars, SameOnServer, Take
  <2>2. Heeding(t, Invite(k, v), None)
    BY <1>7, RefuseHeeded
  <2> QED
    BY <1>3, <1>4, <1>6, <2>1, <2>2
<1>8. ASSUME NEW k \in Jobs, NEW v \in Users, NEW d \in Calls, d # c, HandleInvite(t, k, v, d)
      PROVE  Besides(c)
  <2>1. Heeding(t, Invite(k, v), d)
    BY <1>8, InviteHeeded
  <2>2. Server!Ring(d, UserOf[t], v) /\ Invite(k, v) \in tab[t].out
        /\ caller' = [caller EXCEPT ![d] = UserOf[t]]
    BY <1>8 DEF HandleInvite, Take
  <2>3. SameOnServer(c)
    BY <1>8, <2>2, ServerElsewhere DEF SameOnServer, TypeInv, TypeOK
  <2> QED
    BY <1>3, <1>6, <1>8, <2>1, <2>2, <2>3
<1>9. ASSUME NEW d \in Calls, HandleAccept(t, d)
      PROVE  \/ d = c /\ Party(c, UserOf[t]) /\ UserOf[t] # caller[c]
             \/ Besides(c)
  <2>1. About("accept", d) \in tab[t].out /\ caller' = caller
    BY <1>9 DEF HandleAccept, Take
  <2>2. \/ Server!Answer(d) /\ TellAccepted(Rest(t, About("accept", d)), d)
        \/ UNCHANGED <<phase, line>> /\ TellAccepted(Rest(t, About("accept", d)), d)
        \/ /\ ~(Party(d, UserOf[t]) /\ UserOf[t] # caller[d])
           /\ UNCHANGED <<phase, line>> /\ tab' = Rest(t, About("accept", d))
    BY <1>9 DEF HandleAccept
  <2>3. CASE d # c
    <3>1. Heeding(t, About("accept", d), d)
      BY <2>2, TellingHeeded
    <3>2. SameOnServer(c)
      BY <2>1, <2>2, <2>3, ServerElsewhere DEF SameOnServer
    <3> QED
      BY <1>3, <1>5, <2>1, <2>3, <3>1, <3>2
  <2>4. CASE d = c /\ ~(Party(c, UserOf[t]) /\ UserOf[t] # caller[c])
    <3>1. UNCHANGED <<phase, line>> /\ tab' = Rest(t, About("accept", d))
      BY <1>9, <2>4 DEF HandleAccept
    <3>2. Heeding(t, About("accept", d), None)
      BY <3>1, TellingHeeded
    <3>3. SameOnServer(c)
      BY <2>1, <3>1 DEF SameOnServer
    <3>4. Aside(t, About("accept", d), c)
      <4>1. About("accept", d) \notin Signals(c) /\ About("accept", d) # About("hangup", c)
        BY <1>1, <1>2
      <4> QED
        BY <2>4, <4>1 DEF Aside
    <3> QED
      BY <1>3, <1>4, <2>1, <3>2, <3>3, <3>4
  <2> QED
    BY <2>3, <2>4
<1>10. ASSUME NEW d \in Calls, NEW kind \in {"decline", "hangup"}, HandleClose(t, d, kind)
       PROVE  \/ Ends(c)
              \/ Besides(c)
  <2> DEFINE may == Party(d, UserOf[t]) /\ (kind = "decline" => UserOf[t] # caller[d])
             r == About(kind, d)
  <2>1. /\ r \in tab[t].out /\ caller' = caller
        /\ \/ may /\ Server!End(d) /\ TellEnded(Rest(t, r), d)
           \/ ~may /\ UNCHANGED <<phase, line>> /\ tab' = Rest(t, r)
    BY <1>10 DEF HandleClose, Take
  <2>2. CASE d # c
    <3>1. Heeding(t, r, d)
      BY <2>1, TellingHeeded
    <3>2. SameOnServer(c)
      BY <2>1, <2>2, ServerElsewhere DEF SameOnServer
    <3>3. Aside(t, r, c)
      BY <1>5, <2>2
    <3> QED
      BY <1>3, <2>1, <2>2, <3>1, <3>2, <3>3
  <2>3. CASE d = c /\ may
    <3>1. Keeping
      BY <2>1, <2>3, KeptByTelling
    <3> QED
      BY <2>1, <2>3, <3>1 DEF Ends, Server!End, Server!Engaged, TypeInv, TypeOK
  <2>4. CASE d = c /\ ~may
    <3>1. UNCHANGED <<phase, line>> /\ tab' = Rest(t, r)
      BY <2>1, <2>4
    <3>2. Heeding(t, r, None)
      BY <3>1, TellingHeeded
    <3>3. SameOnServer(c)
      BY <2>1, <3>1 DEF SameOnServer
    <3>4. Aside(t, r, c)
      <4>1. r.kind = kind
        BY <1>1
      <4>2. r \notin Signals(c) /\ r # About("accept", c)
            /\ (r = About("hangup", c) => kind = "hangup")
            /\ (r = About("decline", c) => kind = "decline")
        BY <1>1, <1>2, <4>1
      <4> QED
        BY <2>4, <4>2 DEF Aside
    <3> QED
      BY <1>3, <1>4, <2>1, <3>2, <3>3, <3>4
  <2> QED
    BY <2>2, <2>3, <2>4
<1>11. ASSUME NEW d \in Calls, NEW kind \in {"offer", "answer", "ice"}, Relay(t, d, kind),
              d # c \/ ~Party(c, UserOf[t])
       PROVE  Besides(c)
  <2>1. About(kind, d) \in tab[t].out /\ SameOnServer(c)
    BY <1>11 DEF Relay, Take, serverVars, SameOnServer
  <2>2. CASE d # c
    BY <1>3, <1>5, <1>11, <2>1, <2>2, RelayHeeded
  <2>3. CASE d = c /\ ~Party(c, UserOf[t])
    <3>1. Heeding(t, About(kind, d), None)
      BY <1>11, <2>3, RelayHeeded
    <3>2. Aside(t, About(kind, d), c)
      BY <2>3 DEF Aside
    <3> QED
      BY <1>3, <1>4, <2>1, <3>1, <3>2
  <2> QED
    BY <1>11, <2>2, <2>3
<1> QED
  BY <1>7, <1>8, <1>9, <1>10, <1>11 DEF HandleRequest

LEMMA StepKinds ==
  ASSUME TypeInv, Step, NEW c \in Calls
  PROVE  \/ \E t \in Tabs : Acts(tab[t], tab'[t]) /\ Alone(t)
         \/ \E t \in Tabs : Exits(t)
         \/ Ends(c)
         \/ \E t \in Tabs, k \in Jobs, v \in Users : HandleInvite(t, k, v, c)
         \/ \E t \in Tabs : Party(c, UserOf[t]) /\ UserOf[t] # caller[c] /\ HandleAccept(t, c)
         \/ \E t \in Tabs, kind \in {"offer", "answer", "ice"} :
              Party(c, UserOf[t]) /\ Relay(t, c, kind)
         \/ Besides(c)
<1>1. \A x, d : Heeds(x, x, d)
  BY DEF Heeds
<1>2. tab' = tab /\ SameOnServer(c) => Besides(c)
  BY <1>1, NoneAssumption DEF Besides
<1>3. ASSUME NEW t \in Tabs, Connect(t) PROVE Besides(c)
  BY <1>2, <1>3 DEF Connect, serverVars, SameOnServer
<1>4. ASSUME NEW u \in Users, Drop(u)
      PROVE  \/ Ends(c)
             \/ Besides(c)
  <2>1. ASSUME NEW d \in Calls, Server!End(d), TellEnded(tab, d), caller' = caller
        PROVE  \/ Ends(c)
               \/ Besides(c)
    <3>1. CASE d = c
      <4>1. Keeping
        <5>1. CASE Tabs = {}
          BY <5>1 DEF Keeping
        <5>2. ASSUME NEW t \in Tabs PROVE Keeping
          BY <2>1, KeptByTelling
        <5> QED
          BY <5>1, <5>2
      <4> QED
        BY <2>1, <3>1, <4>1 DEF Ends, Server!End, Server!Engaged, TypeInv, TypeOK
    <3>2. CASE d # c
      <4>1. SameOnServer(c)
        BY <2>1, <3>2, ServerElsewhere DEF SameOnServer
      <4>2. \A i \in Tabs : Heeds(tab[i], tab'[i], d)
        <5>1. CASE Tabs = {}
          BY <5>1
        <5>2. ASSUME NEW t \in Tabs PROVE \A i \in Tabs : Heeds(tab[i], tab'[i], d)
          BY <2>1, TellingHeeded
        <5> QED
          BY <5>1, <5>2
      <4> QED
        BY <3>2, <4>1, <4>2 DEF Besides
    <3> QED
      BY <3>1, <3>2
  <2>2. CASE UNCHANGED <<phase, line, tab>>
    BY <1>2, <1>4, <2>2 DEF Drop, SameOnServer
  <2> QED
    BY <1>4, <2>1, <2>2 DEF Drop
<1>5. ASSUME NEW t \in Tabs, Click(t) \/ Run(t) PROVE Acts(tab[t], tab'[t]) /\ Alone(t)
  BY <1>5, ClicksAct, RunsAct
<1>6. ASSUME NEW t \in Tabs, Fail(t)
      PROVE  \/ Exits(t)
             \/ Acts(tab[t], tab'[t]) /\ Alone(t)
  BY <1>6, FailuresAct DEF Fail, Exits
<1>7. ASSUME NEW t \in Tabs, HandleRequest(t)
      PROVE  \/ Ends(c)
             \/ \E k \in Jobs, v \in Users : HandleInvite(t, k, v, c)
             \/ Party(c, UserOf[t]) /\ UserOf[t] # caller[c] /\ HandleAccept(t, c)
             \/ \E kind \in {"offer", "answer", "ice"} : Party(c, UserOf[t]) /\ Relay(t, c, kind)
             \/ Besides(c)
  BY <1>7, RequestKinds
<1> QED
  BY <1>3, <1>4, <1>5, <1>6, <1>7 DEF Step, Exits

(* Any step, tab by tab.                                                     *)
Heard(i) ==
  \/ \E t \in Tabs : \E r \in tab[t].out : \E d \in Calls \cup {None} :
       Heeds(Rest(t, r)[i], tab'[i], d)
  \/ \E d \in Calls \cup {None} : Heeds(tab[i], tab'[i], d)

LEMMA StepsAreHeard ==
  ASSUME TypeInv, Step, NEW i \in Tabs
  PROVE  \/ Acts(tab[i], tab'[i])
         \/ tab'[i] \in {tab[i], Sent(tab[i], {}), FreshTab}
         \/ Heard(i)
<1>1. ASSUME NEW t \in Tabs, HandleRequest(t) PROVE Heard(i)
  <2>1. ASSUME NEW r \in tab[t].out, NEW d \in Calls \cup {None}, Heeding(t, r, d)
        PROVE  Heard(i)
    BY <2>1 DEF Heeding, Heard
  <2>2. ASSUME NEW k \in Jobs, NEW v \in Users, RefuseInvite(t, k, v) PROVE Heard(i)
    BY <2>1, <2>2, RefuseHeeded DEF RefuseInvite, Take
  <2>3. ASSUME NEW k \in Jobs, NEW v \in Users, NEW c \in Calls, HandleInvite(t, k, v, c)
        PROVE  Heard(i)
    BY <2>1, <2>3, InviteHeeded DEF HandleInvite, Take
  <2>4. ASSUME NEW c \in Calls, HandleAccept(t, c) PROVE Heard(i)
    <3>1. Heeding(t, About("accept", c), c)
      BY <2>4, TellingHeeded DEF HandleAccept
    <3> QED
      BY <2>1, <2>4, <3>1 DEF HandleAccept, Take
  <2>5. ASSUME NEW c \in Calls, NEW kind, HandleClose(t, c, kind) PROVE Heard(i)
    <3>1. Heeding(t, About(kind, c), c)
      BY <2>5, TellingHeeded DEF HandleClose
    <3> QED
      BY <2>1, <2>5, <3>1 DEF HandleClose, Take
  <2>6. ASSUME NEW c \in Calls, NEW kind \in {"offer", "answer", "ice"}, Relay(t, c, kind)
        PROVE  Heard(i)
    BY <2>1, <2>6, RelayHeeded DEF Relay, Take
  <2> QED
    BY <1>1, <2>2, <2>3, <2>4, <2>5, <2>6 DEF HandleRequest
<1>2. ASSUME NEW u \in Users, Drop(u) PROVE tab'[i] = tab[i] \/ Heard(i)
  <2>1. ASSUME NEW c \in Calls, TellEnded(tab, c) PROVE Heard(i)
    BY <2>1, TellingHeeded DEF Heard
  <2> QED
    BY <1>2, <2>1 DEF Drop
<1>3. ASSUME NEW t \in Tabs, Acts(tab[t], tab'[t]) /\ Alone(t)
      PROVE  Acts(tab[i], tab'[i]) \/ tab'[i] = tab[i]
  BY <1>3 DEF Alone
<1>4. ASSUME NEW t \in Tabs, Exits(t)
      PROVE  tab'[i] \in {tab[i], Sent(tab[i], {}), FreshTab}
  BY <1>4, ExitsLeave
<1>5. ASSUME NEW t \in Tabs, Connect(t) PROVE tab'[i] = tab[i]
  BY <1>5 DEF Connect
<1>6. ASSUME NEW t \in Tabs, Click(t) \/ Run(t)
      PROVE  Acts(tab[i], tab'[i]) \/ tab'[i] = tab[i]
  BY <1>3, <1>6, ClicksAct, RunsAct
<1>7. ASSUME NEW t \in Tabs, Fail(t)
      PROVE  \/ Acts(tab[i], tab'[i])
             \/ tab'[i] \in {tab[i], Sent(tab[i], {}), FreshTab}
  BY <1>3, <1>4, <1>7, FailuresAct DEF Fail, Exits
<1> QED
  BY <1>1, <1>2, <1>4, <1>5, <1>6, <1>7 DEF Step, Exits

(* Without the request r, tab i is as it was.                                *)
LEMMA RestAlike ==
  ASSUME TypeInv, NEW t \in Tabs, NEW r, NEW i \in Tabs
  PROVE  LET x == tab[i]
             w == Rest(t, r)[i]
         IN  /\ SameRefs(x, w) /\ SameState(x, w) /\ SameWork(x, w)
             /\ w.out = IF i = t THEN x.out \ {r} ELSE x.out
<1>1. tab[i] \in Tab /\ tab[i].out \ {r} \in Outs
  BY TabFields DEF TypeInv, Whole, Outs
<1>2. CASE i # t
  <2>1. Rest(t, r)[i] = tab[i]
    BY <1>2, RestIs
  <2> QED
    BY <1>2, <2>1 DEF SameRefs, SameState, SameWork
<1>3. CASE i = t
  <2> DEFINE w == Sent(tab[i], tab[i].out \ {r})
  <2>1. Rest(t, r)[i] = w
    BY <1>3, RestIs
  <2>2. SameRefs(tab[i], w) /\ SameState(tab[i], w) /\ SameWork(tab[i], w)
        /\ w.out = tab[i].out \ {r}
    BY <1>1, SentFields
  <2> HIDE DEF w
  <2> QED
    BY <1>3, <2>1, <2>2
<1> QED
  BY <1>2, <1>3

LEMMA AlikeIsFit ==
  ASSUME NEW x, NEW w, SameRefs(x, w), SameState(x, w), SameWork(x, w)
  PROVE  /\ Sound(x) => Sound(w)
         /\ JobsFit(x) => JobsFit(w)
<1>1. Sound(x) => Sound(w)
  BY DEF SameRefs, SameState, SameWork, Sound, Tangled, Neat, OneMedium, NoCallNothing,
         MediumAskedFor
<1>2. JobsFit(x) => JobsFit(w)
  BY DEF SameRefs, SameState, SameWork, JobsFit
<1> QED
  BY <1>1, <1>2

LEMMA FreshFits == JobsFit(FreshTab)
BY FreshTabFields, FreeIsJob DEF JobsFit

LEMMA TabsStayFit ==
  ASSUME TypeInv, TabsAreNeat, TabsFit, Next
  PROVE  TabsFit'
<1> SUFFICES ASSUME NEW i \in Tabs, "tangled" \notin trouble'[i] PROVE JobsFit(tab'[i])
  BY DEF TabsFit, JobsFit
<1> DEFINE y == tab'[i]
<1>1. Step /\ Record
  BY DEF Next
<1>2. "tangled" \notin trouble[i]
  BY <1>1, TroublesAre
<1>3. Whole(tab[i]) /\ Sound(tab[i]) /\ JobsFit(tab[i])
  BY <1>2 DEF TypeInv, TabsAreNeat, TabsFit
<1>4. CASE Acts(tab[i], tab'[i])
  BY <1>3, <1>4, ActsFitJobs
<1>5. CASE tab'[i] \in {tab[i], Sent(tab[i], {}), FreshTab}
  <2>1. {} \in Outs
    BY DEF Outs
  <2>2. JobsFit(Sent(tab[i], {}))
    BY <1>3, <2>1, SentFields, AlikeIsFit DEF Whole
  <2> QED
    BY <1>3, <1>5, <2>2, FreshFits
<1>6. CASE Heard(i)
  <2>1. ASSUME NEW t \in Tabs, NEW r, NEW d, Heeds(Rest(t, r)[i], tab'[i], d)
        PROVE  JobsFit(tab'[i])
    <3> DEFINE w == Rest(t, r)[i]
    <3>1. Whole(w)
      BY RestIs
    <3>2. Sound(w) /\ JobsFit(w)
      BY <1>3, RestAlike, AlikeIsFit
    <3> HIDE DEF w, y
    <3>3. Heeds(w, y, d)
      BY <2>1 DEF w, y
    <3>4. JobsFit(y)
      BY <3>1, <3>2, <3>3, HeedsFitJobs
    <3> QED
      BY <3>4 DEF y
  <2>2. ASSUME NEW d, Heeds(tab[i], tab'[i], d) PROVE JobsFit(tab'[i])
    BY <1>3, <2>2, HeedsFitJobs
  <2> QED
    BY <1>6, <2>1, <2>2 DEF Heard
<1> QED
  BY <1>1, <1>4, <1>5, <1>6, StepsAreHeard

(* Before a call rings, nothing in a tab has to do with it.                  *)
LEMMA FreshKnowsNothing == \A c \in Calls : Unknown(FreshTab, c)
<1>1. \A k \in Jobs : FreshTab.jobs[k].at = "free"
  BY FreshTabFields, FreeIsJob
<1> QED
  BY <1>1, FreshTabFields, NoneAssumption DEF Unknown, Unheard, Silent

LEMMA UnknownStays ==
  ASSUME TypeInv, Step, NEW c \in Calls, NEW i \in Tabs, Unknown(tab[i], c),
         phase'[c] = "idle"
  PROVE  Unknown(tab'[i], c)
<1> DEFINE y == tab'[i]
<1>1. Whole(tab[i])
  BY DEF TypeInv
<1>2. ASSUME NEW t \in Tabs, Acts(tab[t], tab'[t]), Alone(t) PROVE Unknown(tab'[i], c)
  <2>1. CASE i = t
    BY <1>1, <1>2, <2>1, ActsUnknowing
  <2>2. CASE i # t
    BY <1>2, <2>2 DEF Alone
  <2> QED
    BY <2>1, <2>2
<1>3. ASSUME NEW t \in Tabs, Exits(t) PROVE Unknown(tab'[i], c)
  <2>1. tab'[i] \in {tab[i], Sent(tab[i], {}), FreshTab}
    BY <1>3, ExitsLeave
  <2>2. {} \in Outs
    BY DEF Outs
  <2>3. Unknown(Sent(tab[i], {}), c)
    BY <1>1, <2>2, SentFields DEF Whole, SameRefs, SameWork, Unknown, Unheard, Silent
  <2> QED
    BY <2>1, <2>3, FreshKnowsNothing
<1>4. ASSUME NEW t \in Tabs, NEW k \in Jobs, NEW v \in Users, HandleInvite(t, k, v, c)
      PROVE  FALSE
  BY <1>4 DEF HandleInvite, Server!Ring, TypeInv, TypeOK
<1>5. ASSUME NEW t \in Tabs, Party(c, UserOf[t]), HandleAccept(t, c) PROVE FALSE
  BY <1>5 DEF HandleAccept, Party, Server!Engaged, Server!Answer, TypeInv, TypeOK
<1>6. ASSUME NEW t \in Tabs, Party(c, UserOf[t]), NEW kind, Relay(t, c, kind) PROVE FALSE
  BY <1>6 DEF Relay, serverVars, Party, Server!Engaged
<1>7. CASE Besides(c)
  <2>1. ASSUME NEW t \in Tabs, NEW r, NEW d, d # c, Heeds(Rest(t, r)[i], tab'[i], d)
        PROVE  Unknown(tab'[i], c)
    <3> DEFINE w == Rest(t, r)[i]
    <3>1. Unknown(w, c)
      BY RestUnknowing
    <3> HIDE DEF w, y
    <3>2. Heeds(w, y, d)
      BY <2>1 DEF w, y
    <3>3. Unknown(y, c)
      BY <2>1, <3>1, <3>2, HeedsUnknowing
    <3> QED
      BY <3>3 DEF y
  <2>2. ASSUME NEW d, d # c, Heeds(tab[i], tab'[i], d) PROVE Unknown(tab'[i], c)
    BY <2>2, HeedsUnknowing
  <2> QED
    BY <1>7, <2>1, <2>2 DEF Besides, Heeding
<1>8. ~Ends(c)
  BY DEF Ends
<1> QED
  BY <1>2, <1>3, <1>4, <1>5, <1>6, <1>7, <1>8, StepKinds

(* But for the invitation to call c, no step makes a tab show it, and its    *)
(* people stay who they are.                                                 *)
LEMMA ActsHold ==
  ASSUME NEW x, NEW y, Acts(x, y)
  PROVE  Holds(x, y)
<1>1. CASE Idles(x, y)
  BY <1>1 DEF Idles, Stays, SameRefs, Holds
<1>2. CASE Declines(x, y) \/ HangsUp(x, y)
  BY <1>2 DEF Declines, HangsUp, Clears, Holds
<1>3. ASSUME NEW c \in Calls, Expires(x, y, c) PROVE Holds(x, y)
  BY <1>3 DEF Expires, Stays, SameRefs, Holds
<1>4. ASSUME NEW k, NEW j, Starts(x, y, k, j) \/ Accepts(x, y, k, j) PROVE Holds(x, y)
  BY <1>4 DEF Starts, Accepts, Begins, SameRefs, Holds
<1>5. ASSUME NEW k, NEW s, Invites(x, y, k, s) \/ Enters(x, y, k, s) PROVE Holds(x, y)
  BY <1>5 DEF Invites, Asks, Enters, Takes, Holds
<1>6. ASSUME NEW k, Describes(x, y, k) PROVE Holds(x, y)
  BY <1>6 DEF Describes, DescribedBy, Holds
<1>7. ASSUME NEW k, GivesIn(x, y, k) \/ Excuses(x, y, k) PROVE Holds(x, y)
  BY <1>7 DEF GivesIn, Excuses, LetsGo, Clears, Holds
<1> QED
  BY <1>1, <1>2, <1>3, <1>4, <1>5, <1>6, <1>7 DEF Acts

LEMMA HeedsShow ==
  ASSUME NEW x, NEW y, NEW d, Heeds(x, y, d)
  PROVE  y.call \in {x.call, d, None}
<1>1. ASSUME NEW k, Acks(x, y, k, d) PROVE y.call = d
  BY <1>1 DEF Acks
<1>2. CASE Rings(x, y, d) \/ Answers(x, y, d)
  BY <1>2 DEF Rings, Answers
<1>3. CASE Stays(x, y)
  BY <1>3 DEF Stays, SameRefs
<1>4. ASSUME NEW k, GivesIn(x, y, k) PROVE y.call = None
  BY <1>4 DEF GivesIn, LetsGo, Clears
<1>5. CASE Drops(x, y)
  BY <1>5 DEF Drops, Clears
<1>6. ASSUME NEW from, Ices(x, y, d, from) PROVE y.call = d
  BY <1>6 DEF Ices
<1>7. ASSUME NEW k, NEW j, Hires(x, y, k, j, d) PROVE y.call = x.call
  BY <1>7 DEF Hires, Begins, SameRefs
<1> QED
  BY <1>1, <1>2, <1>3, <1>4, <1>5, <1>6, <1>7 DEF Heeds

Lasts(c) ==
  /\ line'[c] = line[c] /\ caller'[c] = caller[c]
  /\ phase'[c] = "idle" => phase[c] = "idle"
  /\ phase'[c] = "ringing" => phase[c] = "ringing"
  /\ phase'[c] = "active" => phase[c] \in {"ringing", "active"}
  /\ \A i \in Tabs : tab'[i].call = c => tab[i].call = c

LEMMA StepsLast ==
  ASSUME TypeInv, Step, NEW c \in Calls
  PROVE  \/ Lasts(c)
         \/ \E t \in Tabs, k \in Jobs, v \in Users : HandleInvite(t, k, v, c)
<1>1. None # c
  BY NoneAssumption
<1>2. ASSUME Keeping, SameOnServer(c) PROVE Lasts(c)
  BY <1>1, <1>2 DEF Keeping, Holds, SameOnServer, Lasts
<1>3. phase \in [Calls -> {"idle", "ringing", "active", "over"}]
  BY DEF TypeInv, TypeOK
<1>4. ASSUME NEW t \in Tabs, Acts(tab[t], tab'[t]), Alone(t) PROVE Lasts(c)
  <2>1. \A i \in Tabs : Holds(tab[i], tab'[i])
    BY <1>4, ActsHold DEF Alone, Holds
  <2> QED
    BY <1>2, <1>4, <2>1 DEF Alone, serverVars, SameOnServer, Keeping
<1>5. ASSUME NEW t \in Tabs, Exits(t) PROVE Lasts(c)
  BY <1>2, <1>5, KeptByExit, ExitsLeave DEF serverVars, SameOnServer
<1>6. ASSUME Ends(c) PROVE Lasts(c)
  BY <1>1, <1>6 DEF Ends, Keeping, Holds, Lasts
<1>7. ASSUME NEW t \in Tabs, HandleAccept(t, c) PROVE Lasts(c)
  <2>1. Keeping
    BY <1>7, KeptByTelling DEF HandleAccept
  <2>2. /\ line'[c] = line[c] /\ caller'[c] = caller[c]
        /\ \/ phase[c] = "ringing" /\ phase'[c] = "active"
           \/ phase'[c] = phase[c]
    BY <1>3, <1>7 DEF HandleAccept, Server!Answer
  <2> QED
    BY <1>1, <2>1, <2>2 DEF Keeping, Holds, Lasts
<1>8. ASSUME NEW t \in Tabs, NEW kind \in {"offer", "answer", "ice"}, Relay(t, c, kind)
      PROVE  Lasts(c)
  <2>1. Keeping
    BY <1>8, KeptByRelay
  <2>2. SameOnServer(c)
    BY <1>8 DEF Relay, serverVars, SameOnServer
  <2> QED
    BY <1>2, <2>1, <2>2
<1>9. ASSUME Besides(c) PROVE Lasts(c)
  <2>1. ASSUME NEW i \in Tabs PROVE tab'[i].call = c => tab[i].call = c
    <3>1. ASSUME NEW t \in Tabs, NEW r, NEW d, d # c, Heeds(Rest(t, r)[i], tab'[i], d)
          PROVE  tab'[i].call = c => tab[i].call = c
      <4>1. tab'[i].call \in {Rest(t, r)[i].call, d, None}
        BY <3>1, HeedsShow
      <4>2. Rest(t, r)[i].call = tab[i].call
        BY RestHolds
      <4> QED
        BY <1>1, <3>1, <4>1, <4>2
    <3>2. ASSUME NEW d, d # c, Heeds(tab[i], tab'[i], d)
          PROVE  tab'[i].call = c => tab[i].call = c
      BY <1>1, <3>2, HeedsShow
    <3> QED
      BY <1>9, <3>1, <3>2 DEF Besides, Heeding
  <2> QED
    BY <1>9, <2>1 DEF Besides, SameOnServer, Lasts
<1> QED
  BY <1>4, <1>5, <1>6, <1>7, <1>8, <1>9, StepKinds

LEMMA LinesStayOfTwo ==
  ASSUME TypeInv, LinesAreOfTwo, Next
  PROVE  LinesAreOfTwo'
<1> SUFFICES ASSUME NEW c \in Calls
             PROVE  \A u, w \in line'[c] \ {caller'[c]} : u = w
  BY DEF LinesAreOfTwo
<1>1. CASE Lasts(c)
  BY <1>1 DEF Lasts, LinesAreOfTwo
<1>2. ASSUME NEW t \in Tabs, NEW k \in Jobs, NEW v \in Users, HandleInvite(t, k, v, c)
      PROVE  \A u, w \in line'[c] \ {caller'[c]} : u = w
  <2>1. line'[c] = {UserOf[t], v} /\ caller'[c] = UserOf[t]
    BY <1>2 DEF HandleInvite, Server!Ring, TypeInv, TypeOK
  <2> QED
    BY <2>1
<1> QED
  BY <1>1, <1>2, StepsLast DEF Next

LEMMA CallsStayKnown ==
  ASSUME TypeInv, CallsAreKnown, Next
  PROVE  CallsAreKnown'
<1> SUFFICES ASSUME NEW c \in Calls
             PROVE  \A t \in Tabs :
                      /\ phase'[c] = "idle" => Unknown(tab'[t], c)
                      /\ tab'[t].call = c => UserOf[t] \in line'[c]
                      /\ \A i \in Tabs : tab'[t].call = c /\ tab'[i].call = c
                           /\ UserOf[t] = caller'[c] /\ UserOf[i] = caller'[c] => t = i
  BY DEF CallsAreKnown, Unknown, Unheard, Silent
<1>1. CASE Lasts(c)
  <2>1. \A t \in Tabs : phase'[c] = "idle" => Unknown(tab'[t], c)
    <3>1. phase'[c] = "idle" => \A t \in Tabs : Unknown(tab[t], c)
      BY <1>1 DEF Lasts, CallsAreKnown
    <3> QED
      BY <3>1, UnknownStays DEF Next
  <2> QED
    BY <1>1, <2>1 DEF Lasts, CallsAreKnown
<1>2. ASSUME NEW j \in Tabs, NEW k \in Jobs, NEW v \in Users, HandleInvite(j, k, v, c)
      PROVE  \A t \in Tabs :
                      /\ phase'[c] = "idle" => Unknown(tab'[t], c)
                      /\ tab'[t].call = c => UserOf[t] \in line'[c]
                      /\ \A i \in Tabs : tab'[t].call = c /\ tab'[i].call = c
                           /\ UserOf[t] = caller'[c] /\ UserOf[i] = caller'[c] => t = i
  <2>1. /\ phase[c] = "idle" /\ phase'[c] = "ringing"
        /\ line'[c] = {UserOf[j], v} /\ caller'[c] = UserOf[j] /\ UserOf[j] # v
    BY <1>2 DEF HandleInvite, CanRing, Server!Ring, TypeInv, TypeOK
  <2>2. \A t \in Tabs : tab[t].call # c
    BY <2>1 DEF CallsAreKnown, Unknown, Unheard
  <2>3. \A t \in Tabs : tab'[t].call = c => UserOf[t] \in line'[c]
    BY <1>2, <2>1, <2>2, InviteShows, NoneAssumption DEF Holds
  <2>4. ASSUME NEW t \in Tabs, t # j, UserOf[t] = UserOf[j] PROVE tab'[t].call # c
    <3>1. tab'[t] = Rest(j, Invite(k, v))[t]
      BY <1>2, <2>1, <2>4 DEF HandleInvite, Hears
    <3>2. Rest(j, Invite(k, v))[t].call = tab[t].call
      BY RestHolds
    <3> QED
      BY <2>2, <3>1, <3>2
  <2> QED
    BY <2>1, <2>3, <2>4
<1> QED
  BY <1>1, <1>2, StepsLast DEF Next

-----------------------------------------------------------------------------
(* What the tabs of call c make of a step that tells them nothing about it.  *)

SameOf(i, c) == SameCall(tab[i], tab'[i], c, UserOf[i] = caller[c])
Turn(j, c) ==
  /\ UserOf[j] \in line[c]
  /\ \A i \in Tabs : UserOf[i] \in line[c] /\ i # j => SameOf(i, c)
  /\ \/ Asked(tab'[j], c, UserOf[j] = caller[c])
     \/ Joins(tab[j], tab'[j], c, UserOf[j] = caller[c])
     \/ Speaks(tab[j], tab'[j], c)
Calm(c) == \A i \in Tabs : UserOf[i] \in line[c] => SameOf(i, c)

(* Requests stay on their way.                                               *)
LEMMA HeedsKeepOut ==
  ASSUME NEW x, NEW y, NEW d, Heeds(x, y, d)
  PROVE  x.out \subseteq y.out
<1>1. Stays(x, y) /\ y.out = x.out \cup {About("decline", d)} => x.out \subseteq y.out
  OBVIOUS
<1> QED
  BY <1>1 DEF Heeds, GivesIn, Drops, Hires

LEMMA ActsKeepOut ==
  ASSUME NEW x, NEW y, Acts(x, y)
  PROVE  x.out \subseteq y.out
<1>1. ASSUME NEW k, Describes(x, y, k) PROVE x.out \subseteq y.out
  BY <1>1 DEF Describes, DescribedBy
<1>2. CASE Idles(x, y) \/ Declines(x, y) \/ HangsUp(x, y) \/ \E c \in Calls : Expires(x, y, c)
  BY <1>2 DEF Idles, Declines, HangsUp, Expires
<1>3. ASSUME NEW k, NEW j, Starts(x, y, k, j) \/ Accepts(x, y, k, j) PROVE x.out \subseteq y.out
  BY <1>3 DEF Starts, Accepts
<1>4. ASSUME NEW k, NEW s, Invites(x, y, k, s) \/ Enters(x, y, k, s) PROVE x.out \subseteq y.out
  BY <1>4 DEF Invites, Enters
<1>5. ASSUME NEW k, GivesIn(x, y, k) \/ Excuses(x, y, k) PROVE x.out \subseteq y.out
  BY <1>5 DEF GivesIn, Excuses
<1> QED
  BY <1>1, <1>2, <1>3, <1>4, <1>5 DEF Acts

LEMMA UntroubledBefore ==
  ASSUME TypeInv, TabsAreNeat, TabsFit, Record, NEW c \in Calls, line'[c] = line[c],
         Untroubled(c)'
  PROVE  /\ Untroubled(c)
         /\ \A i \in Tabs : UserOf[i] \in line[c] =>
              /\ trouble'[i] = {} /\ i \in up'
              /\ Whole(tab[i]) /\ Sound(tab[i]) /\ JobsFit(tab[i])
<1>1. \A i \in Tabs : UserOf[i] \in line[c] => trouble[i] = {} /\ trouble'[i] = {}
  BY TroublesAre DEF Untroubled
<1>2. \A i \in Tabs : trouble'[i] = {} => i \in up'
  BY TroublesAre
<1>3. \A i \in Tabs : UserOf[i] \in line[c] => Whole(tab[i]) /\ Sound(tab[i]) /\ JobsFit(tab[i])
  BY <1>1 DEF TypeInv, TabsAreNeat, TabsFit
<1> QED
  BY <1>1, <1>2, <1>3 DEF Untroubled

(* Who asked to end the call goes on asking, until it ends.                  *)
LEMMA EndingStays ==
  ASSUME TypeInv, TabsAreNeat, TabsFit, Next, NEW c \in Calls, Lasts(c), Untroubled(c)',
         phase'[c] \in {"ringing", "active"}, Ending(c)
  PROVE  Ending(c)'
<1>1. Step /\ Record
  BY DEF Next
<1>2. line'[c] = line[c] /\ caller'[c] = caller[c]
  BY DEF Lasts
<1>3. PICK i \in Tabs : UserOf[i] \in line[c] /\ Asked(tab[i], c, UserOf[i] = caller[c])
  BY DEF Ending
<1> DEFINE own == UserOf[i] = caller[c]
           x == tab[i]
           y == tab'[i]
<1>4. Asked(y, c, own) => Ending(c)'
  BY <1>2, <1>3 DEF Ending, Asked
<1>5. own \in BOOLEAN /\ Asked(x, c, own)
  BY <1>3
<1>6. Party(c, UserOf[i]) <=> Server!Engaged(c)
  BY <1>3 DEF Party
<1>7. About("hangup", c).kind = "hangup" /\ About("decline", c).kind = "decline"
      /\ \A kind : About(kind, c).kind = kind
  BY DEF About
<1> HIDE DEF own, x, y
<1>8. x.out \subseteq y.out => Asked(y, c, own)
  BY <1>5 DEF Asked
<1>9. ASSUME NEW t \in Tabs, Acts(tab[t], tab'[t]), Alone(t) PROVE x.out \subseteq y.out
  <2>1. CASE i = t
    BY <1>9, <2>1, ActsKeepOut DEF x, y
  <2>2. CASE i # t
    BY <1>9, <2>2 DEF Alone, x, y
  <2> QED
    BY <2>1, <2>2
<1>10. ASSUME NEW t \in Tabs, Exits(t) PROVE x.out \subseteq y.out
  <2>1. i \in up'
    BY <1>1, <1>2, <1>3, UntroubledBefore
  <2>2. t \notin up' /\ \A l \in Tabs \ {t} : tab'[l] = tab[l]
    BY <1>10, ExitsLeave
  <2> QED
    BY <2>1, <2>2 DEF x, y
<1>11. ASSUME NEW t \in Tabs, NEW kind \in {"accept", "offer", "answer", "ice"}, NEW d,
              Heeding(t, About(kind, c), d)
       PROVE  Asked(y, c, own)
  <2> DEFINE r == About(kind, c)
             w == Rest(t, r)[i]
  <2>1. Heeds(w, y, d)
    BY <1>11 DEF Heeding, y
  <2>2. w.out = IF i = t THEN x.out \ {r} ELSE x.out
    BY RestAlike DEF x
  <2>3. r # About("hangup", c) /\ r # About("decline", c)
    BY <1>7
  <2> HIDE DEF w, r
  <2>4. w.out \subseteq y.out
    BY <2>1, HeedsKeepOut
  <2> QED
    BY <1>5, <2>2, <2>3, <2>4 DEF Asked
<1>12. ASSUME NEW t \in Tabs, HandleAccept(t, c) PROVE Asked(y, c, own)
  <2>1. Heeding(t, About("accept", c), c)
    BY <1>12, TellingHeeded DEF HandleAccept
  <2> QED
    BY <1>11, <2>1
<1>13. ASSUME NEW t \in Tabs, NEW kind \in {"offer", "answer", "ice"}, Relay(t, c, kind)
       PROVE  Asked(y, c, own)
  <2>1. Heeding(t, About(kind, c), c)
    BY <1>13, RelayHeeded
  <2> QED
    BY <1>11, <2>1
<1>14. ASSUME Besides(c) PROVE Asked(y, c, own)
  <2>1. ASSUME NEW t \in Tabs, NEW r, NEW d, Aside(t, r, c), Heeding(t, r, d)
        PROVE  Asked(y, c, own)
    <3> DEFINE w == Rest(t, r)[i]
    <3>1. Heeds(w, y, d)
      BY <2>1 DEF Heeding, y
    <3>2. w.out = IF i = t THEN x.out \ {r} ELSE x.out
      BY RestAlike DEF x
    <3>3. i = t => r # About("hangup", c) /\ (r = About("decline", c) => own)
      <4>1. Server!Engaged(c)
        BY DEF Lasts, Server!Engaged
      <4> QED
        BY <1>6, <2>1, <4>1 DEF Aside, own
    <3> HIDE DEF w
    <3>4. w.out \subseteq y.out
      BY <3>1, HeedsKeepOut
    <3> QED
      BY <1>5, <3>2, <3>3, <3>4 DEF Asked
  <2>2. ASSUME NEW d, Heeds(tab[i], tab'[i], d) PROVE Asked(y, c, own)
    <3>1. x.out \subseteq y.out
      BY <2>2, HeedsKeepOut DEF x, y
    <3> QED
      BY <1>8, <3>1
  <2> QED
    BY <1>14, <2>1, <2>2 DEF Besides
<1>15. ~Ends(c)
  BY DEF Ends
<1>16. ASSUME NEW t \in Tabs, NEW k \in Jobs, NEW v \in Users, HandleInvite(t, k, v, c)
       PROVE  FALSE
  BY <1>16 DEF HandleInvite, Server!Ring, Lasts, TypeInv, TypeOK
<1> QED
  BY <1>1, <1>4, <1>8, <1>9, <1>10, <1>12, <1>13, <1>14, <1>15, <1>16, StepKinds

LEMMA StepTurns ==
  ASSUME TypeInv, TabsAreNeat, TabsFit, Record, NEW c \in Calls, Server!Engaged(c),
         Untroubled(c)', line'[c] = line[c],
         \A i \in Tabs : UserOf[i] \in line[c] /\ tab[i].call = c /\ UserOf[i] = caller[c]
                           => tab[i].outgoing,
         \/ \E t \in Tabs : Acts(tab[t], tab'[t]) /\ Alone(t)
         \/ \E t \in Tabs : Exits(t)
         \/ Besides(c)
  PROVE  Calm(c) \/ \E j \in Tabs : Turn(j, c)
<1>1. \A i \in Tabs : UserOf[i] \in line[c] =>
        /\ i \in up' /\ Whole(tab[i]) /\ Sound(tab[i]) /\ JobsFit(tab[i])
  BY UntroubledBefore
<1>2. \A i \in Tabs : (UserOf[i] = caller[c]) \in BOOLEAN
  OBVIOUS
<1>3. ASSUME NEW i \in Tabs, UserOf[i] \in line[c], tab'[i] = tab[i] PROVE SameOf(i, c)
  BY <1>1, <1>2, <1>3, SameItself DEF SameOf
<1>4. ASSUME NEW t \in Tabs, Acts(tab[t], tab'[t]), Alone(t)
      PROVE  Calm(c) \/ \E j \in Tabs : Turn(j, c)
  <2>1. \A i \in Tabs : UserOf[i] \in line[c] /\ i # t => SameOf(i, c)
    BY <1>3, <1>4 DEF Alone
  <2>2. CASE UserOf[t] \notin line[c]
    BY <2>1, <2>2 DEF Calm
  <2>3. CASE UserOf[t] \in line[c]
    <3>1. Whole(tab[t]) /\ Sound(tab[t]) /\ JobsFit(tab[t])
      BY <1>1, <2>3
    <3>2. tab[t].call = c /\ UserOf[t] = caller[c] => tab[t].outgoing
      BY <2>3
    <3> DEFINE own == UserOf[t] = caller[c]
               y == tab'[t]
    <3>3. own \in BOOLEAN
      OBVIOUS
    <3> HIDE DEF own, y
    <3>4. tab[t].call = c /\ own => tab[t].outgoing
      BY <3>2 DEF own
    <3>5. Acts(tab[t], y)
      BY <1>4 DEF y
    <3>6. \/ SameCall(tab[t], y, c, own) \/ Asked(y, c, own)
          \/ Joins(tab[t], y, c, own) \/ Speaks(tab[t], y, c)
      BY <3>1, <3>3, <3>4, <3>5, ActsOnCall
    <3>7. CASE SameCall(tab[t], y, c, own)
      BY <2>1, <3>7 DEF Calm, SameOf, own, y
    <3>8. CASE Asked(y, c, own) \/ Joins(tab[t], y, c, own) \/ Speaks(tab[t], y, c)
      BY <2>1, <2>3, <3>8 DEF Turn, own, y
    <3> QED
      BY <3>6, <3>7, <3>8
  <2> QED
    BY <2>2, <2>3
<1>5. ASSUME NEW t \in Tabs, Exits(t) PROVE Calm(c)
  <2>1. t \notin up' /\ \A i \in Tabs \ {t} : tab'[i] = tab[i]
    BY <1>5, ExitsLeave
  <2> QED
    BY <1>1, <1>3, <2>1 DEF Calm
<1>6. ASSUME Besides(c) PROVE Calm(c)
  <2> SUFFICES ASSUME NEW i \in Tabs, UserOf[i] \in line[c] PROVE SameOf(i, c)
    BY DEF Calm
  <2> DEFINE own == UserOf[i] = caller[c]
             y == tab'[i]
  <2>1. own \in BOOLEAN /\ Whole(tab[i]) /\ Sound(tab[i])
    BY <1>1
  <2>2. ASSUME NEW t \in Tabs, NEW r, NEW d, d # c, Aside(t, r, c), Heeding(t, r, d)
        PROVE  SameCall(tab[i], y, c, own)
    <3> DEFINE w == Rest(t, r)[i]
    <3>1. Whole(w)
      BY RestIs
    <3>2. Party(c, UserOf[i])
      BY DEF Party
    <3>3. SameCall(tab[i], w, c, own) /\ Sound(w)
      BY <2>1, <2>2, <3>2, RestSame
    <3>4. Heeds(w, y, d)
      BY <2>2 DEF Heeding
    <3> HIDE DEF w, y, own
    <3>5. SameCall(w, y, c, own)
      BY <2>1, <2>2, <3>1, <3>3, <3>4, HeedsElsewhere
    <3> QED
      BY <2>1, <3>3, <3>5, SameTwice
  <2>3. ASSUME NEW d, d # c, Heeds(tab[i], y, d) PROVE SameCall(tab[i], y, c, own)
    <3> HIDE DEF own, y
    <3> QED
      BY <2>1, <2>3, HeedsElsewhere
  <2>4. SameCall(tab[i], y, c, own)
    BY <1>6, <2>2, <2>3 DEF Besides
  <2> QED
    BY <2>4 DEF SameOf
<1> QED
  BY <1>4, <1>5, <1>6

-----------------------------------------------------------------------------
(* A call that rings is ready to be answered.                                *)

LEMMA SameReady ==
  ASSUME NEW x, NEW y, NEW c \in Calls, NEW own \in BOOLEAN, Ready(x, c, own),
         SameCall(x, y, c, own)
  PROVE  Ready(y, c, own)
<1>1. Silent(y, c)
  BY DEF Ready, SameCall
<1>2. y.call = c => x.call = c /\ SameSide(x, y)
  BY DEF SameCall
<1>3. ShowsRinging(x, own) /\ SameSide(x, y) => ShowsRinging(y, own)
  BY DEF ShowsRinging, SameSide, SameLink, New
<1>4. ~own /\ About("accept", c) \in y.out => y.call = c /\ y.here
  BY DEF Ready, SameCall, SameSide
<1> QED
  BY <1>1, <1>2, <1>3, <1>4 DEF Ready

LEMMA JoinedReady ==
  ASSUME NEW x, NEW y, NEW c \in Calls, NEW own \in BOOLEAN, Ready(x, c, own),
         Joins(x, y, c, own)
  PROVE  Ready(y, c, own)
BY DEF Ready, Joins, ShowsRinging

(* What a tab makes of the invitation that starts call c.                    *)
LEMMA NewReady ==
  ASSUME NEW x, NEW y, Whole(x), Sound(x), NEW c \in Calls, NEW own \in BOOLEAN, Unknown(x, c),
         \/ y = x
         \/ own /\ y.out = x.out /\ \E k \in Jobs : Acks(x, y, k, c)
         \/ ~own /\ y.out = x.out /\ Rings(x, y, c)
         \/ Stays(x, y) /\ y.out = x.out \cup {About("decline", c)}
  PROVE  Ready(y, c, own)
<1>1. x.call # c /\ Silent(x, c) /\ About("accept", c) \notin x.out
  BY DEF Unknown, Unheard
<1>2. /\ x.call = None => x.pending = {} /\ x.here = FALSE /\ x.peer = None
      /\ \A s \in Streams : s # x.peer => x.media[s] = [NoMedium EXCEPT !.mic = x.media[s].mic]
  BY DEF Sound, Neat, NoCallNothing, OneMedium
<1>3. CASE y = x
  BY <1>1, <1>3 DEF Ready
<1>4. ASSUME own, y.out = x.out, NEW k \in Jobs, Acks(x, y, k, c) PROVE Ready(y, c, own)
  <2> DEFINE s == x.jobs[k].stream
  <2>1. x.jobs[k].at = "ack" /\ x.call = None
    BY <1>4, AskingClashes DEF Acks, Sound
  <2>2. s \in Streams /\ s # None
    BY <2>1, NoneAssumption DEF Whole, JobKnows
  <2>3. x.media[s] = [NoMedium EXCEPT !.mic = x.media[s].mic]
    BY <1>2, <2>1, <2>2
  <2>4. x.media[s].remote = None /\ x.media[s].ice = {}
    BY <2>3 DEF NoMedium
  <2>5. /\ y.peer = s /\ y.here = FALSE /\ y.pending = {} /\ y.phase = "calling"
        /\ y.outgoing = TRUE
        /\ y.jobs[k] = Free /\ \A l \in Jobs \ {k} : y.jobs[l] = x.jobs[l]
        /\ y.media[s].pc = "new" /\ y.media[s].remote = None /\ y.media[s].ice = {}
    BY <1>2, <1>4, <2>1, <2>4 DEF Acks
  <2>6. Silent(y, c)
    BY <1>1, <1>4, <2>5, FreeIsJob DEF Silent
  <2>7. ShowsRinging(y, own)
    BY <1>4, <2>2, <2>5 DEF ShowsRinging, New
  <2> QED
    BY <1>4, <2>6, <2>7 DEF Ready
<1>5. CASE ~own /\ y.out = x.out /\ Rings(x, y, c)
  <2>1. /\ y.peer = None /\ y.here = FALSE /\ y.pending = {} /\ y.phase = "ringing"
        /\ y.outgoing = FALSE /\ y.jobs = x.jobs
    BY <1>2, <1>5 DEF Rings
  <2>2. Silent(y, c) /\ ShowsRinging(y, own)
    BY <1>1, <1>5, <2>1 DEF Silent, ShowsRinging
  <2> QED
    BY <1>1, <1>5, <2>2 DEF Ready
<1>6. CASE Stays(x, y) /\ y.out = x.out \cup {About("decline", c)}
  <2>1. y.call # c /\ y.jobs = x.jobs
    BY <1>1, <1>6 DEF Stays, SameRefs
  <2>2. About("decline", c) \notin Signals(c) /\ About("decline", c) # About("accept", c)
    BY DEF Signals, About
  <2> QED
    BY <1>1, <1>6, <2>1, <2>2 DEF Ready, Silent
<1> QED
  BY <1>3, <1>4, <1>5, <1>6

LEMMA InviteReadies ==
  ASSUME TypeInv, TabsAreNeat, CallsAreKnown, Record, NEW c \in Calls, Untroubled(c)',
         NEW t \in Tabs, NEW k \in Jobs, NEW v \in Users, HandleInvite(t, k, v, c),
         NEW i \in Tabs, UserOf[i] \in line'[c]
  PROVE  Ready(tab'[i], c, UserOf[i] = caller'[c])
<1> DEFINE r == Invite(k, v)
           w == Rest(t, r)[i]
           own == UserOf[i] = caller'[c]
           y == tab'[i]
<1>1. /\ phase[c] = "idle" /\ line'[c] = {UserOf[t], v} /\ caller'[c] = UserOf[t]
      /\ UserOf[t] # v
      /\ tab' = [j \in Tabs |-> IF j = t THEN OnAck(Rest(t, r)[j], k, c)
                                ELSE IF Hears(j, {v}) THEN OnIncoming(Rest(t, r)[j], c)
                                ELSE Rest(t, r)[j]]
  BY DEF HandleInvite, CanRing, Server!Ring, TypeInv, TypeOK
<1>2. trouble[i] = {}
  BY TroublesAre DEF Untroubled
<1>3. Sound(tab[i])
  BY <1>2 DEF TabsAreNeat
<1>4. Whole(w) /\ Sound(w)
  <2>1. Whole(w)
    BY RestIs
  <2>2. Sound(w)
    BY <1>3, RestAlike, AlikeIsFit
  <2> QED
    BY <2>1, <2>2
<1>5. Unknown(w, c)
  BY <1>1, RestUnknowing DEF CallsAreKnown
<1>6. y = IF i = t THEN OnAck(w, k, c) ELSE IF Hears(i, {v}) THEN OnIncoming(w, c) ELSE w
  BY <1>1
<1>7. own \in BOOLEAN /\ (i = t => own) /\ (Hears(i, {v}) => ~own)
  BY <1>1 DEF Hears
<1> HIDE DEF w, y, own
<1>8. CASE i = t
  <2>1. y = w \/ (y.out = w.out /\ Acks(w, y, k, c))
    BY <1>4, <1>6, <1>8, OnAckMoves
  <2> QED
    BY <1>4, <1>5, <1>7, <1>8, <2>1, NewReady DEF y, own
<1>9. CASE i # t /\ Hears(i, {v})
  <2>1. \/ y.out = w.out /\ Rings(w, y, c)
        \/ Stays(w, y) /\ y.out = w.out \cup {About("decline", c)}
    BY <1>4, <1>6, <1>9, OnIncomingMoves
  <2> QED
    BY <1>4, <1>5, <1>7, <1>9, <2>1, NewReady DEF y, own
<1>10. CASE i # t /\ ~Hears(i, {v})
  <2>1. y = w
    BY <1>6, <1>10
  <2> QED
    BY <1>4, <1>5, <1>7, <2>1, NewReady DEF y, own
<1> QED
  BY <1>8, <1>9, <1>10

LEMMA CallsStayReady ==
  ASSUME TypeInv, TabsAreNeat, TabsFit, CallsAreKnown, CallsAreReady, Next
  PROVE  CallsAreReady'
<1> SUFFICES ASSUME NEW c \in Calls, phase'[c] = "ringing", Untroubled(c)', ~Ending(c)'
             PROVE  \A i \in Tabs : UserOf[i] \in line'[c] =>
                      Ready(tab'[i], c, UserOf[i] = caller'[c])
  BY DEF CallsAreReady, Ready, Silent
<1>1. Step /\ Record
  BY DEF Next
<1>2. ASSUME NEW t \in Tabs, NEW k \in Jobs, NEW v \in Users, HandleInvite(t, k, v, c)
      PROVE  \A i \in Tabs : UserOf[i] \in line'[c] =>
               Ready(tab'[i], c, UserOf[i] = caller'[c])
  BY <1>1, <1>2, InviteReadies
<1>3. ASSUME Lasts(c)
      PROVE  \A i \in Tabs : UserOf[i] \in line'[c] =>
               Ready(tab'[i], c, UserOf[i] = caller'[c])
  <2>1. phase[c] = "ringing" /\ line'[c] = line[c] /\ caller'[c] = caller[c]
    BY <1>3 DEF Lasts
  <2>2. Untroubled(c) /\ \A i \in Tabs : UserOf[i] \in line[c] => JobsFit(tab[i])
    BY <1>1, <2>1, UntroubledBefore
  <2>3. Server!Engaged(c)
    BY <2>1 DEF Server!Engaged
  <2>4. ~Ending(c)
    BY <1>1, <1>3, EndingStays
  <2>5. \A i \in Tabs : UserOf[i] \in line[c] => Ready(tab[i], c, UserOf[i] = caller[c])
    BY <2>1, <2>2, <2>4 DEF CallsAreReady
  <2>6. \A i \in Tabs : UserOf[i] \in line[c] /\ tab[i].call = c /\ UserOf[i] = caller[c]
                          => tab[i].outgoing
    BY <2>5 DEF Ready, ShowsRinging
  <2>7. ASSUME NEW i \in Tabs, UserOf[i] \in line[c], SameOf(i, c)
        PROVE  Ready(tab'[i], c, UserOf[i] = caller[c])
    <3> DEFINE own == UserOf[i] = caller[c]
    <3>1. own \in BOOLEAN /\ Ready(tab[i], c, own) /\ SameCall(tab[i], tab'[i], c, own)
      BY <2>5, <2>7 DEF SameOf
    <3> HIDE DEF own
    <3>2. Ready(tab'[i], c, own)
      BY <3>1, SameReady
    <3> QED
      BY <3>2 DEF own
  <2>8. ASSUME NEW j \in Tabs, Turn(j, c)
        PROVE  Ready(tab'[j], c, UserOf[j] = caller[c])
    <3> DEFINE own == UserOf[j] = caller[c]
    <3>1. own \in BOOLEAN /\ UserOf[j] \in line[c]
      BY <2>8 DEF Turn
    <3>2. Ready(tab[j], c, own) /\ JobsFit(tab[j])
      BY <2>2, <2>5, <3>1
    <3>3. ~Asked(tab'[j], c, own)
      BY <2>1, <3>1 DEF Ending, Asked
    <3>4. ~Speaks(tab[j], tab'[j], c)
      BY <3>2 DEF Ready, Silent, Speaks, Works, JobsFit
    <3>5. Joins(tab[j], tab'[j], c, own)
      BY <2>8, <3>3, <3>4 DEF Turn
    <3> HIDE DEF own
    <3>6. Ready(tab'[j], c, own)
      BY <3>1, <3>2, <3>5, JoinedReady
    <3> QED
      BY <3>6 DEF own
  <2>9. CASE Calm(c) \/ \E j \in Tabs : Turn(j, c)
    <3>1. \A i \in Tabs : UserOf[i] \in line[c] => SameOf(i, c) \/ Turn(i, c)
      BY <2>9 DEF Calm, Turn
    <3> QED
      BY <2>1, <2>7, <2>8, <3>1
  <2>10. ASSUME NEW t \in Tabs, Party(c, UserOf[t]), NEW kind \in {"offer", "answer", "ice"},
                Relay(t, c, kind)
         PROVE  FALSE
    <3>1. About(kind, c) \in tab[t].out /\ About(kind, c) \in Signals(c)
      BY <2>10 DEF Relay, Take, Signals
    <3> QED
      BY <2>5, <2>10, <3>1 DEF Party, Ready, Silent
  <2>11. ASSUME NEW t \in Tabs, Party(c, UserOf[t]), UserOf[t] # caller[c], HandleAccept(t, c)
         PROVE  FALSE
    BY <2>1, <2>11 DEF HandleAccept, Server!Answer, TypeInv, TypeOK
  <2>12. ~Ends(c)
    BY DEF Ends
  <2>13. ASSUME NEW t \in Tabs, NEW k \in Jobs, NEW v \in Users, HandleInvite(t, k, v, c)
         PROVE  FALSE
    BY <2>1, <2>13 DEF HandleInvite, Server!Ring
  <2> QED
    BY <1>1, <2>1, <2>3, <2>6, <2>9, <2>10, <2>11, <2>12, <2>13, StepKinds, StepTurns
<1> QED
  BY <1>1, <1>2, <1>3, StepsLast

-----------------------------------------------------------------------------
(* The two tabs in a call, step by step.                                     *)

LEMMA SignalsDiffer ==
  ASSUME NEW c
  PROVE  \A a, b \in {"offer", "answer", "ice", "accept"} : a # b => About(a, c) # About(b, c)
BY DEF About

LEMMA SameInCall ==
  ASSUME NEW x, NEW y, NEW c \in Calls, NEW own \in BOOLEAN, SameCall(x, y, c, own), InCall(x, c)
  PROVE  /\ InCall(y, c)
         /\ y.outgoing = x.outgoing /\ y.here = x.here /\ y.pending = x.pending
         /\ SameLink(x, y, x.peer) /\ y.peer = x.peer
         /\ Works(y) = Works(x) /\ \A k \in Works(x) : y.jobs[k] = x.jobs[k]
         /\ \A kind \in {"offer", "answer", "ice"} :
              About(kind, c) \in y.out <=> About(kind, c) \in x.out
<1>1. y.call = c /\ SameSide(x, y) /\ SameSignals(x, y, c)
  BY DEF SameCall, InCall
<1>2. \A kind \in {"offer", "answer", "ice"} : About(kind, c) \in Signals(c)
  BY DEF Signals
<1> QED
  BY <1>1, <1>2 DEF SameSide, SameSignals, InCall

LEMMA PairSame ==
  ASSUME NEW c \in Calls, NEW t \in Tabs, NEW i \in Tabs, NEW x, NEW z, NEW y, NEW w,
         Pair(c, x, z, t, i), SameCall(x, y, c, TRUE), SameCall(z, w, c, FALSE)
  PROVE  Pair(c, y, w, t, i)
<1>1. InCall(x, c) /\ InCall(z, c)
  BY DEF Pair
<1>2. /\ InCall(y, c)
      /\ y.outgoing = x.outgoing /\ y.here = x.here /\ y.pending = x.pending
      /\ SameLink(x, y, x.peer) /\ y.peer = x.peer
      /\ Works(y) = Works(x) /\ \A k \in Works(x) : y.jobs[k] = x.jobs[k]
      /\ \A kind \in {"offer", "answer", "ice"} :
           About(kind, c) \in y.out <=> About(kind, c) \in x.out
  BY <1>1, SameInCall
<1>3. /\ InCall(w, c)
      /\ w.outgoing = z.outgoing /\ w.here = z.here /\ w.pending = z.pending
      /\ SameLink(z, w, z.peer) /\ w.peer = z.peer
      /\ Works(w) = Works(z) /\ \A k \in Works(z) : w.jobs[k] = z.jobs[k]
      /\ \A kind \in {"offer", "answer", "ice"} :
           About(kind, c) \in w.out <=> About(kind, c) \in z.out
  BY <1>1, SameInCall
<1>4. /\ \A pc, from : Linked(x, pc, from) => Linked(y, pc, from)
      /\ \A pc, from : Linked(z, pc, from) => Linked(w, pc, from)
  BY <1>2, <1>3 DEF Linked, SameLink
<1>5. /\ \A kind, from : Works1(x, kind, from) => Works1(y, kind, from)
      /\ \A kind, from : Works1(z, kind, from) => Works1(w, kind, from)
  BY <1>2, <1>3 DEF Works1
<1>6. Offering(c, x, z, t, i) => Offering(c, y, w, t, i)
  BY <1>2, <1>3, <1>4, <1>5 DEF Offering
<1>7. Answering(c, x, z, t, i) => Answering(c, y, w, t, i)
  BY <1>2, <1>3, <1>4, <1>5 DEF Answering
<1>8. Connected(c, x, z, t, i) => Connected(c, y, w, t, i)
  BY <1>2, <1>3, <1>4, <1>5 DEF Connected
<1>9. Candidates(c, x, z, t, i) => Candidates(c, y, w, t, i)
  BY <1>2, <1>3 DEF Candidates, Candidate, SameLink
<1> QED
  BY <1>2, <1>3, <1>6, <1>7, <1>8, <1>9 DEF Pair

(* What a description does to the connection in use.                         *)
Spoken(x, y, k, c) ==
  /\ y.call = x.call /\ y.here = x.here /\ y.ring = x.ring /\ y.peer = x.peer
  /\ y.phase = x.phase /\ y.outgoing = x.outgoing /\ y.pending = {}
  /\ y.media[y.peer].remote = x.jobs[k].from /\ y.media[y.peer].pc = "stable"
  /\ y.media[y.peer].ice = x.media[x.peer].ice \cup x.pending
  /\ Works(y) = Works(x) \ {k}
  /\ y.out = IF x.jobs[k].kind = "answer" THEN x.out
             ELSE x.out \cup {About("answer", c), About("ice", c)}
LEMMA SpeaksFields ==
  ASSUME NEW x, NEW y, Whole(x), JobsFit(x), NEW c \in Calls, x.call = c,
         NEW k \in Works(x), Describes(x, y, k), ~Useless(x, x.jobs[k]), x.peer # None
  PROVE  Spoken(x, y, k, c)
<1>1. k \in Jobs /\ x.jobs[k].at = "describe" /\ x.jobs[k].stream = x.peer
  BY DEF Works
<1>2. x.jobs[k].call = c
  BY <1>1 DEF JobsFit
<1>3. /\ y.call = x.call /\ y.here = x.here /\ y.ring = x.ring /\ y.peer = x.peer
      /\ y.phase = x.phase /\ y.outgoing = x.outgoing /\ y.pending = {}
      /\ y.media[y.peer].remote = x.jobs[k].from /\ y.media[y.peer].pc = "stable"
      /\ y.media[y.peer].ice = x.media[x.peer].ice \cup x.pending
      /\ y.jobs = [x.jobs EXCEPT ![k] = Free]
      /\ y.out = IF x.jobs[k].kind = "answer" THEN x.out
                 ELSE x.out \cup {About("answer", c), About("ice", c)}
  BY <1>1, <1>2 DEF Describes, DescribedBy, SameState
<1>4. x.jobs \in [Jobs -> Job]
  BY TabFields DEF Whole, JobTable
<1>5. y.jobs[k].at = "free" /\ \A l \in Jobs \ {k} : y.jobs[l] = x.jobs[l]
  BY <1>1, <1>3, <1>4, FreeIsJob
<1>6. Works(y) = Works(x) \ {k}
  BY <1>1, <1>3, <1>5 DEF Works
<1> QED
  BY <1>3, <1>6 DEF Spoken

(* The callee's tab sets the offer and answers it.                           *)
LEMMA CalleeSpeaks ==
  ASSUME NEW c \in Calls, NEW t \in Tabs, NEW i \in Tabs, NEW x, NEW z, NEW w,
         Whole(z), JobsFit(z), Pair(c, x, z, t, i), Speaks(z, w, c)
  PROVE  /\ Pair(c, x, w, t, i)
         /\ About("accept", c) \in w.out => About("accept", c) \in z.out
<1>1. PICK k \in Works(z) : Describes(z, w, k)
  BY DEF Speaks
<1>2. InCall(x, c) /\ InCall(z, c) /\ Candidates(c, x, z, t, i)
  BY DEF Pair
<1>3. /\ Works1(z, "offer", t) /\ Works(x) = {}
      /\ About("offer", c) \notin x.out /\ About("answer", c) \notin z.out
      /\ Linked(x, "offered", None) /\ Linked(z, "new", None)
  BY <1>1 DEF Pair, Offering, Answering, Connected
<1>4. Works(z) = {k} /\ z.jobs[k].kind = "offer" /\ z.jobs[k].from = t
  BY <1>1, <1>3 DEF Works1
<1>5. z.jobs[k].stream = z.peer /\ ~Useless(z, z.jobs[k])
  BY <1>3, <1>4 DEF Works, Useless, Linked
<1>6. /\ w.call = z.call /\ w.here = z.here /\ w.ring = z.ring /\ w.peer = z.peer
      /\ w.phase = z.phase /\ w.outgoing = z.outgoing /\ w.pending = {}
      /\ w.media[w.peer].remote = t /\ w.media[w.peer].pc = "stable"
      /\ w.media[w.peer].ice = z.media[z.peer].ice \cup z.pending
      /\ Works(w) = {}
      /\ w.out = z.out \cup {About("answer", c), About("ice", c)}
  <2>1. z.call = c /\ z.peer # None
    BY <1>2 DEF InCall
  <2>2. Spoken(z, w, k, c)
    BY <1>1, <1>5, <2>1, SpeaksFields
  <2> QED
    BY <1>4, <2>2 DEF Spoken
<1>7. InCall(w, c) /\ w.here = z.here
  BY <1>2, <1>6 DEF InCall
<1>8. Answering(c, x, w, t, i)
  BY <1>3, <1>6 DEF Answering, Linked
<1>9. Candidates(c, x, w, t, i)
  <2>1. t # None
    BY NoneAssumption
  <2>2. z.media[z.peer].remote = None /\ About("ice", c) \in w.out
    BY <1>3, <1>6 DEF Linked
  <2> QED
    BY <1>2, <1>6, <2>1, <2>2 DEF Candidates, Candidate
<1>10. \A a \in {"offer", "accept"} : About(a, c) \in w.out => About(a, c) \in z.out
  BY <1>6, SignalsDiffer
<1> QED
  BY <1>2, <1>7, <1>8, <1>9, <1>10 DEF Pair

(* The caller's tab sets the answer.                                         *)
LEMMA CallerSpeaks ==
  ASSUME NEW c \in Calls, NEW t \in Tabs, NEW i \in Tabs, NEW x, NEW z, NEW y,
         Whole(x), JobsFit(x), Pair(c, x, z, t, i), Speaks(x, y, c)
  PROVE  Pair(c, y, z, t, i)
<1>1. PICK k \in Works(x) : Describes(x, y, k)
  BY DEF Speaks
<1>2. InCall(x, c) /\ InCall(z, c) /\ Candidates(c, x, z, t, i)
  BY DEF Pair
<1>3. /\ Works1(x, "answer", i) /\ Works(z) = {}
      /\ About("offer", c) \notin x.out /\ About("answer", c) \notin z.out
      /\ Linked(x, "offered", None) /\ Linked(z, "stable", t)
  BY <1>1 DEF Pair, Offering, Answering, Connected
<1>4. Works(x) = {k} /\ x.jobs[k].kind = "answer" /\ x.jobs[k].from = i
  BY <1>1, <1>3 DEF Works1
<1>5. x.jobs[k].stream = x.peer /\ ~Useless(x, x.jobs[k])
  BY <1>3, <1>4 DEF Works, Useless, Linked
<1>6. /\ y.call = x.call /\ y.here = x.here /\ y.ring = x.ring /\ y.peer = x.peer
      /\ y.phase = x.phase /\ y.outgoing = x.outgoing /\ y.pending = {}
      /\ y.media[y.peer].remote = i /\ y.media[y.peer].pc = "stable"
      /\ y.media[y.peer].ice = x.media[x.peer].ice \cup x.pending
      /\ Works(y) = {}
      /\ y.out = x.out
  <2>1. x.call = c /\ x.peer # None
    BY <1>2 DEF InCall
  <2>2. Spoken(x, y, k, c)
    BY <1>1, <1>5, <2>1, SpeaksFields
  <2> QED
    BY <1>4, <2>2 DEF Spoken
<1>7. InCall(y, c) /\ y.outgoing = x.outgoing
  BY <1>2, <1>6 DEF InCall
<1>8. Connected(c, y, z, t, i)
  BY <1>3, <1>6 DEF Connected, Linked
<1>9. Candidates(c, y, z, t, i)
  <2>1. t # None /\ i # None
    BY NoneAssumption
  <2>2. z.media[z.peer].remote = t /\ x.media[x.peer].remote = None
    BY <1>3 DEF Linked
  <2> QED
    BY <1>2, <1>6, <2>1, <2>2 DEF Candidates, Candidate
<1> QED
  BY <1>2, <1>6, <1>7, <1>8, <1>9 DEF Pair

(* Tab y is tab x without request r; w is tab z with one more job, a          *)
(* description for the connection in use.                                    *)
Without(x, y, r) ==
  SameRefs(x, y) /\ SameState(x, y) /\ SameWork(x, y) /\ y.out = x.out \ {r}
Gets(z, w, kind, from) ==
  /\ w.out = z.out
  /\ \E k \in Jobs, j \in Job :
       /\ Begins(z, w, k, j) /\ j.at = "describe" /\ j.stream = z.peer
       /\ j.kind = kind /\ j.from = from

LEMMA WithoutFields ==
  ASSUME NEW x, NEW y, NEW c \in Calls, NEW r, Without(x, y, r), InCall(x, c)
  PROVE  /\ InCall(y, c) /\ y.outgoing = x.outgoing /\ y.here = x.here /\ y.pending = x.pending
         /\ y.peer = x.peer /\ y.media = x.media /\ y.jobs = x.jobs /\ Works(y) = Works(x)
BY DEF Without, InCall, SameRefs, SameState, SameWork, Works

LEMMA GetsFields ==
  ASSUME NEW z, NEW w, NEW c \in Calls, NEW kind, NEW from, Gets(z, w, kind, from),
         InCall(z, c), Works(z) = {}
  PROVE  /\ InCall(w, c) /\ w.outgoing = z.outgoing /\ w.here = z.here /\ w.pending = z.pending
         /\ w.peer = z.peer /\ w.media = z.media /\ Works1(w, kind, from)
<1>1. PICK k \in Jobs, j \in Job :
        /\ Begins(z, w, k, j) /\ j.at = "describe" /\ j.stream = z.peer
        /\ j.kind = kind /\ j.from = from
  BY DEF Gets
<1>2. /\ InCall(w, c) /\ w.outgoing = z.outgoing /\ w.here = z.here /\ w.pending = z.pending
      /\ w.peer = z.peer /\ w.media = z.media
      /\ w.jobs[k] = j /\ \A l \in Jobs \ {k} : w.jobs[l] = z.jobs[l]
  BY <1>1 DEF Begins, InCall, SameRefs, SameState
<1>3. Works(w) = {k}
  BY <1>1, <1>2 DEF Works
<1> QED
  BY <1>1, <1>2, <1>3 DEF Works1

(* The caller's offer arrives.                                               *)
LEMMA PairOffered ==
  ASSUME NEW c \in Calls, NEW t \in Tabs, NEW i \in Tabs, NEW x, NEW z, NEW y, NEW w,
         Pair(c, x, z, t, i), About("offer", c) \in x.out, Without(x, y, About("offer", c)),
         Gets(z, w, "offer", t)
  PROVE  Pair(c, y, w, t, i)
<1>1. /\ InCall(x, c) /\ InCall(z, c) /\ Candidates(c, x, z, t, i)
      /\ About("answer", c) \notin z.out /\ Works(x) = {} /\ Works(z) = {}
      /\ Linked(x, "offered", None) /\ Linked(z, "new", None)
  BY DEF Pair, Offering, Answering, Connected
<1>2. /\ InCall(y, c) /\ y.outgoing = x.outgoing /\ y.here = x.here /\ y.pending = x.pending
      /\ y.peer = x.peer /\ y.media = x.media /\ Works(y) = Works(x)
  BY <1>1, WithoutFields
<1>3. /\ InCall(w, c) /\ w.outgoing = z.outgoing /\ w.here = z.here /\ w.pending = z.pending
      /\ w.peer = z.peer /\ w.media = z.media /\ Works1(w, "offer", t)
  BY <1>1, GetsFields
<1>4. About("offer", c) \notin y.out /\ w.out = z.out
      /\ (About("ice", c) \in y.out <=> About("ice", c) \in x.out)
      /\ (About("answer", c) \in y.out => About("answer", c) \in x.out)
  BY SignalsDiffer DEF Without, Gets
<1>5. Offering(c, y, w, t, i)
  BY <1>1, <1>2, <1>3, <1>4 DEF Offering, Linked
<1>6. Candidates(c, y, w, t, i)
  BY <1>1, <1>2, <1>3, <1>4 DEF Candidates, Candidate
<1> QED
  BY <1>2, <1>3, <1>4, <1>5, <1>6 DEF Pair

(* The callee's answer arrives.                                              *)
LEMMA PairAnswered ==
  ASSUME NEW c \in Calls, NEW t \in Tabs, NEW i \in Tabs, NEW x, NEW z, NEW y, NEW w,
         Pair(c, x, z, t, i), About("answer", c) \in z.out, Without(z, w, About("answer", c)),
         Gets(x, y, "answer", i)
  PROVE  Pair(c, y, w, t, i)
<1>1. /\ InCall(x, c) /\ InCall(z, c) /\ Candidates(c, x, z, t, i)
      /\ About("offer", c) \notin x.out /\ Works(x) = {} /\ Works(z) = {}
      /\ Linked(x, "offered", None) /\ Linked(z, "stable", t)
  BY DEF Pair, Offering, Answering, Connected
<1>2. /\ InCall(w, c) /\ w.outgoing = z.outgoing /\ w.here = z.here /\ w.pending = z.pending
      /\ w.peer = z.peer /\ w.media = z.media /\ Works(w) = Works(z)
  BY <1>1, WithoutFields
<1>3. /\ InCall(y, c) /\ y.outgoing = x.outgoing /\ y.here = x.here /\ y.pending = x.pending
      /\ y.peer = x.peer /\ y.media = x.media /\ Works1(y, "answer", i)
  BY <1>1, GetsFields
<1>4. About("answer", c) \notin w.out /\ y.out = x.out
      /\ (About("ice", c) \in w.out <=> About("ice", c) \in z.out)
      /\ (About("offer", c) \in w.out => About("offer", c) \in z.out)
  BY SignalsDiffer DEF Without, Gets
<1>5. Answering(c, y, w, t, i)
  BY <1>1, <1>2, <1>3, <1>4 DEF Answering, Linked
<1>6. Candidates(c, y, w, t, i)
  BY <1>1, <1>2, <1>3, <1>4 DEF Candidates, Candidate
<1> QED
  BY <1>2, <1>3, <1>4, <1>5, <1>6 DEF Pair

(* A candidate arrives: of tab from, in tab x.                               *)
LEMMA IcesFields ==
  ASSUME NEW x, NEW y, Whole(x), NEW c \in Calls, NEW from, Ices(x, y, c, from), InCall(x, c)
  PROVE  /\ InCall(y, c) /\ y.outgoing = x.outgoing /\ y.here = x.here
         /\ y.peer = x.peer /\ y.jobs = x.jobs /\ Works(y) = Works(x)
         /\ y.media[y.peer].pc = x.media[x.peer].pc
         /\ y.media[y.peer].remote = x.media[x.peer].remote
         /\ x.media[x.peer].remote = None =>
              y.pending = x.pending \cup {from} /\ y.media[y.peer].ice = x.media[x.peer].ice
         /\ x.media[x.peer].remote # None =>
              y.pending = x.pending /\ y.media[y.peer].ice = x.media[x.peer].ice \cup {from}
<1>1. x.peer \in Streams
  BY TabFields DEF Whole, InCall
<1>2. /\ y.call = c /\ y.here = x.here /\ y.ring = x.ring /\ y.peer = x.peer
      /\ y.phase = x.phase /\ y.outgoing = x.outgoing /\ y.jobs = x.jobs
  BY DEF Ices
<1>3. InCall(y, c) /\ Works(y) = Works(x)
  BY <1>2 DEF InCall, Works
<1>4. x.media[x.peer].remote = None => y.pending = x.pending \cup {from} /\ SameLink(x, y, x.peer)
  BY <1>1 DEF Ices, SameLinks, InCall
<1>5. x.media[x.peer].remote # None =>
        /\ y.pending = x.pending
        /\ y.media[x.peer].pc = x.media[x.peer].pc
        /\ y.media[x.peer].remote = x.media[x.peer].remote
        /\ y.media[x.peer].ice = x.media[x.peer].ice \cup {from}
  BY DEF Ices, InCall
<1> QED
  BY <1>2, <1>3, <1>4, <1>5 DEF SameLink

(* The candidate of tab from, which was on its way, is in tab x.             *)
LEMMA CandidateArrives ==
  ASSUME NEW x, NEW y, Whole(x), NEW c \in Calls, NEW from, Ices(x, y, c, from), InCall(x, c),
         NEW out, NEW less, Candidate(c, x, from, out), About("ice", c) \in out,
         About("ice", c) \notin less
  PROVE  Candidate(c, y, from, less)
<1>1. x.pending = {} /\ x.media[x.peer].ice = {}
  BY DEF Candidate
<1>2. /\ y.media[y.peer].remote = x.media[x.peer].remote
      /\ x.media[x.peer].remote = None =>
           y.pending = x.pending \cup {from} /\ y.media[y.peer].ice = x.media[x.peer].ice
      /\ x.media[x.peer].remote # None =>
           y.pending = x.pending /\ y.media[y.peer].ice = x.media[x.peer].ice \cup {from}
  BY IcesFields
<1> QED
  BY <1>1, <1>2 DEF Candidate

(* The caller's candidate arrives.                                           *)
LEMMA PairHearsCaller ==
  ASSUME NEW c \in Calls, NEW t \in Tabs, NEW i \in Tabs, NEW x, NEW z, NEW y, NEW w,
         Whole(z), Pair(c, x, z, t, i), About("ice", c) \in x.out,
         Without(x, y, About("ice", c)), Ices(z, w, c, t), w.out = z.out
  PROVE  Pair(c, y, w, t, i)
<1>1. InCall(x, c) /\ InCall(z, c) /\ Candidates(c, x, z, t, i)
  BY DEF Pair
<1>2. /\ InCall(y, c) /\ y.outgoing = x.outgoing /\ y.here = x.here /\ y.pending = x.pending
      /\ y.peer = x.peer /\ y.media = x.media /\ y.jobs = x.jobs /\ Works(y) = Works(x)
  BY <1>1, WithoutFields
<1>3. /\ InCall(w, c) /\ w.outgoing = z.outgoing /\ w.here = z.here
      /\ w.peer = z.peer /\ w.jobs = z.jobs /\ Works(w) = Works(z)
      /\ w.media[w.peer].pc = z.media[z.peer].pc
      /\ w.media[w.peer].remote = z.media[z.peer].remote
  BY <1>1, IcesFields
<1>4. /\ About("ice", c) \notin y.out
      /\ \A a \in {"offer", "answer"} : About(a, c) \in y.out <=> About(a, c) \in x.out
  BY SignalsDiffer DEF Without
<1>5. Candidate(c, w, t, y.out)
  <2>1. Candidate(c, z, t, x.out)
    BY <1>1 DEF Candidates
  <2> QED
    BY <1>1, <1>4, <2>1, CandidateArrives
<1>6. Candidates(c, y, w, t, i)
  BY <1>1, <1>2, <1>3, <1>5 DEF Candidates, Candidate
<1>7. /\ \A pc, from : Linked(x, pc, from) => Linked(y, pc, from)
      /\ \A pc, from : Linked(z, pc, from) => Linked(w, pc, from)
      /\ \A kind, from : Works1(x, kind, from) => Works1(y, kind, from)
      /\ \A kind, from : Works1(z, kind, from) => Works1(w, kind, from)
  BY <1>2, <1>3 DEF Linked, Works1
<1>8. /\ Offering(c, x, z, t, i) => Offering(c, y, w, t, i)
      /\ Answering(c, x, z, t, i) => Answering(c, y, w, t, i)
      /\ Connected(c, x, z, t, i) => Connected(c, y, w, t, i)
  BY <1>2, <1>3, <1>4, <1>7 DEF Offering, Answering, Connected
<1> QED
  BY <1>2, <1>3, <1>4, <1>6, <1>8 DEF Pair

(* The callee's candidate arrives.                                           *)
LEMMA PairHearsCallee ==
  ASSUME NEW c \in Calls, NEW t \in Tabs, NEW i \in Tabs, NEW x, NEW z, NEW y, NEW w,
         Whole(x), Pair(c, x, z, t, i), About("ice", c) \in z.out,
         Without(z, w, About("ice", c)), Ices(x, y, c, i), y.out = x.out
  PROVE  Pair(c, y, w, t, i)
<1>1. /\ InCall(x, c) /\ InCall(z, c) /\ Candidates(c, x, z, t, i)
      /\ z.media[z.peer].remote # None
  BY DEF Pair, Candidates
<1>2. /\ InCall(w, c) /\ w.outgoing = z.outgoing /\ w.here = z.here /\ w.pending = z.pending
      /\ w.peer = z.peer /\ w.media = z.media /\ w.jobs = z.jobs /\ Works(w) = Works(z)
  BY <1>1, WithoutFields
<1>3. /\ InCall(y, c) /\ y.outgoing = x.outgoing /\ y.here = x.here
      /\ y.peer = x.peer /\ y.jobs = x.jobs /\ Works(y) = Works(x)
      /\ y.media[y.peer].pc = x.media[x.peer].pc
      /\ y.media[y.peer].remote = x.media[x.peer].remote
  BY <1>1, IcesFields
<1>4. /\ About("ice", c) \notin w.out
      /\ \A a \in {"offer", "answer"} : About(a, c) \in w.out <=> About(a, c) \in z.out
  BY SignalsDiffer DEF Without
<1>5. Candidate(c, y, i, w.out)
  <2>1. Candidate(c, x, i, z.out)
    BY <1>1 DEF Candidates
  <2> QED
    BY <1>1, <1>4, <2>1, CandidateArrives
<1>6. Candidates(c, y, w, t, i)
  BY <1>1, <1>2, <1>3, <1>5 DEF Candidates, Candidate
<1>7. /\ \A pc, from : Linked(x, pc, from) => Linked(y, pc, from)
      /\ \A pc, from : Linked(z, pc, from) => Linked(w, pc, from)
      /\ \A kind, from : Works1(x, kind, from) => Works1(y, kind, from)
      /\ \A kind, from : Works1(z, kind, from) => Works1(w, kind, from)
  BY <1>2, <1>3 DEF Linked, Works1
<1>8. /\ Offering(c, x, z, t, i) => Offering(c, y, w, t, i)
      /\ Answering(c, x, z, t, i) => Answering(c, y, w, t, i)
      /\ Connected(c, x, z, t, i) => Connected(c, y, w, t, i)
  BY <1>2, <1>3, <1>4, <1>7 DEF Offering, Answering, Connected
<1> QED
  BY <1>2, <1>3, <1>4, <1>6, <1>8 DEF Pair

(* The call is answered: the caller's tab offers, the callee's waits.        *)
LEMMA PairBegins ==
  ASSUME NEW c \in Calls, NEW t \in Tabs, NEW i \in Tabs, NEW x, NEW z, NEW y, NEW w,
         Ready(x, c, TRUE), JobsFit(x), x.call = c, x.sees,
         Answers(x, y, c), y.out = x.out \cup {About("offer", c), About("ice", c)},
         Ready(z, c, FALSE), JobsFit(z), z.call = c, z.here, ~z.sees,
         Answers(z, w, c), w.out = z.out
  PROVE  Pair(c, y, w, t, i)
<1>1. /\ x.outgoing /\ x.pending = {} /\ x.peer # None /\ New(x.media[x.peer])
      /\ z.pending = {} /\ z.peer # None /\ New(z.media[z.peer])
  BY DEF Ready, ShowsRinging
<1>2. /\ y.call = c /\ y.ring = None /\ y.peer = x.peer /\ y.pending = {} /\ y.phase = "active"
      /\ y.outgoing = x.outgoing /\ y.jobs = x.jobs
      /\ y.media[y.peer].pc = "offered" /\ y.media[y.peer].remote = None
      /\ y.media[y.peer].ice = {}
  BY <1>1 DEF Answers, New
<1>3. /\ w.call = c /\ w.ring = None /\ w.peer = z.peer /\ w.pending = {} /\ w.phase = "active"
      /\ w.here = z.here /\ w.jobs = z.jobs
      /\ w.media[w.peer].pc = "new" /\ w.media[w.peer].remote = None
      /\ w.media[w.peer].ice = {}
  BY <1>1 DEF Answers, New
<1>4. Works(x) = {} /\ Works(z) = {}
  BY DEF Ready, Silent, JobsFit, Works
<1>5. Works(y) = {} /\ Works(w) = {}
  BY <1>2, <1>3, <1>4 DEF Works
<1>6. /\ \A a \in {"offer", "answer", "ice"} : About(a, c) \notin x.out /\ About(a, c) \notin z.out
  BY DEF Ready, Silent, Signals
<1>7. /\ About("offer", c) \in y.out /\ About("ice", c) \in y.out /\ About("answer", c) \notin y.out
      /\ \A a \in {"offer", "answer", "ice"} : About(a, c) \notin w.out
  BY <1>6, SignalsDiffer
<1>8. Offering(c, y, w, t, i)
  BY <1>2, <1>3, <1>5, <1>7 DEF Offering, Linked
<1>9. Candidates(c, y, w, t, i)
  BY <1>2, <1>3, <1>7 DEF Candidates, Candidate
<1> QED
  BY <1>1, <1>2, <1>3, <1>7, <1>8, <1>9 DEF Pair, InCall

LEMMA SameAloof ==
  ASSUME NEW x, NEW y, NEW c \in Calls, NEW own \in BOOLEAN, SameCall(x, y, c, own), Aloof(x, c)
  PROVE  Aloof(y, c)
BY DEF SameCall, SameSignals, Aloof

(* A step that tells nobody of the call: one of the two may work on it.      *)
LEMMA TalkGoesOn ==
  ASSUME TypeInv, NEW c \in Calls, NEW t \in Tabs, NEW i \in Tabs, Talk(c, t, i),
         \A j \in Tabs : UserOf[j] \in line[c] => Whole(tab[j]) /\ JobsFit(tab[j]),
         line'[c] = line[c], caller'[c] = caller[c], ~Ending(c)',
         Calm(c) \/ \E j \in Tabs : Turn(j, c)
  PROVE  Talk(c, t, i)'
<1> DEFINE x == tab[t]
           z == tab[i]
           y == tab'[t]
           w == tab'[i]
<1>1. /\ UserOf[t] \in line[c] /\ UserOf[t] = caller[c]
      /\ UserOf[i] \in line[c] /\ UserOf[i] # caller[c]
      /\ Pair(c, x, z, t, i)
  BY DEF Talk
<1>2. \A j \in Tabs : UserOf[j] \in line[c] =>
        /\ j \notin {t, i} => Aloof(tab[j], c)
        /\ UserOf[j] # caller[c] => About("accept", c) \notin tab[j].out
  BY DEF Talk
<1>3. t # i /\ Whole(x) /\ JobsFit(x) /\ Whole(z) /\ JobsFit(z)
  BY <1>1
<1>4. ASSUME NEW j \in Tabs, UserOf[j] \in line[c], SameOf(j, c)
      PROVE  /\ j \notin {t, i} => Aloof(tab'[j], c)
             /\ UserOf[j] # caller[c] => About("accept", c) \notin tab'[j].out
  <2> DEFINE own == UserOf[j] = caller[c]
  <2>1. own \in BOOLEAN /\ SameCall(tab[j], tab'[j], c, own)
    BY <1>4 DEF SameOf
  <2>2. ~own => About("accept", c) \notin tab[j].out
    BY <1>2, <1>4
  <2> HIDE DEF own
  <2>3. j \notin {t, i} => Aloof(tab'[j], c)
    BY <1>2, <1>4, <2>1, SameAloof
  <2>4. ~own => About("accept", c) \notin tab'[j].out
    BY <2>1, <2>2 DEF SameCall
  <2> QED
    BY <2>3, <2>4 DEF own
<1>5. (UserOf[t] = caller[c]) = TRUE /\ (UserOf[i] = caller[c]) = FALSE
  BY <1>1
<1>6. /\ SameOf(t, c) => SameCall(x, y, c, TRUE)
      /\ SameOf(i, c) => SameCall(z, w, c, FALSE)
  BY <1>5 DEF SameOf
<1>7. SameCall(x, x, c, TRUE) /\ SameCall(z, z, c, FALSE)
  BY <1>3, SameItself
<1>8. ASSUME Pair(c, y, w, t, i),
             \A j \in Tabs : UserOf[j] \in line[c] =>
               /\ j \notin {t, i} => Aloof(tab'[j], c)
               /\ UserOf[j] # caller[c] => About("accept", c) \notin tab'[j].out
      PROVE  Talk(c, t, i)'
  BY <1>1, <1>8 DEF Talk
<1>9. CASE Calm(c)
  <2>1. SameOf(t, c) /\ SameOf(i, c)
    BY <1>1, <1>9 DEF Calm
  <2>2. SameCall(x, y, c, TRUE) /\ SameCall(z, w, c, FALSE)
    BY <1>6, <2>1
  <2> HIDE DEF x, y, z, w
  <2>3. Pair(c, y, w, t, i)
    BY <1>1, <2>2, PairSame
  <2> QED
    BY <1>4, <1>8, <1>9, <2>3 DEF Calm
<1>10. ASSUME NEW j \in Tabs, Turn(j, c)
       PROVE  Talk(c, t, i)'
  <2>1. /\ UserOf[j] \in line[c]
        /\ \A m \in Tabs : UserOf[m] \in line[c] /\ m # j => SameOf(m, c)
    BY <1>10 DEF Turn
  <2>2. ~Asked(tab'[j], c, UserOf[j] = caller[c])
    BY <2>1 DEF Ending, Asked
  <2>3. tab[j].call = c => j \in {t, i}
    BY <1>2, <2>1 DEF Aloof
  <2>4. ~Joins(tab[j], tab'[j], c, UserOf[j] = caller[c])
    BY <1>1, <2>3 DEF Joins, Pair
  <2>5. Speaks(tab[j], tab'[j], c)
    BY <1>10, <2>2, <2>4 DEF Turn
  <2>6. j \in {t, i}
    BY <2>3, <2>5 DEF Speaks
  <2>7. CASE j = t
    <3>1. SameCall(z, w, c, FALSE)
      BY <1>1, <1>3, <1>6, <2>1, <2>7
    <3>2. Speaks(x, y, c)
      BY <2>5, <2>7
    <3> HIDE DEF x, y, z, w
    <3>3. Pair(c, x, w, t, i)
      BY <1>1, <1>7, <3>1, PairSame
    <3>4. Pair(c, y, w, t, i)
      BY <1>3, <3>2, <3>3, CallerSpeaks
    <3> QED
      BY <1>1, <1>4, <1>8, <2>1, <2>7, <3>4
  <2>8. CASE j = i
    <3>1. SameCall(x, y, c, TRUE)
      BY <1>1, <1>3, <1>6, <2>1, <2>8
    <3>2. Speaks(z, w, c)
      BY <2>5, <2>8
    <3>3. About("accept", c) \notin z.out
      BY <1>1, <1>2
    <3>4. /\ Pair(c, y, z, t, i)
          /\ Pair(c, y, w, t, i) /\ About("accept", c) \notin w.out
      <4> HIDE DEF x, y, z, w
      <4>1. Pair(c, y, z, t, i)
        BY <1>1, <1>7, <3>1, PairSame
      <4> QED
        BY <1>3, <3>2, <3>3, <4>1, CalleeSpeaks
    <3> QED
      BY <1>1, <1>4, <1>8, <2>1, <2>8, <3>4
  <2> QED
    BY <2>6, <2>7, <2>8
<1> QED
  BY <1>9, <1>10

(* A signal of one of the two reaches the other.                             *)
LEMMA SdpGets ==
  ASSUME NEW z, Whole(z), NEW c \in Calls, InCall(z, c), NEW kind \in {"offer", "answer"},
         NEW from \in Tabs, Slots(z) # {}
  PROVE  Gets(z, OnSdp(z, c, kind, from), kind, from)
<1> DEFINE w == OnSdp(z, c, kind, from)
<1>1. z.call = c /\ z.peer # None
  BY DEF InCall
<1>2. /\ w.out = z.out
      /\ \E k \in Slots(z), j \in Job :
           /\ Begins(z, w, k, j) /\ j.at = "describe" /\ j.call = c /\ j.stream = z.peer
           /\ j.kind = kind /\ j.from = from
  BY <1>1, OnSdpMoves
<1>3. Slots(z) \subseteq Jobs
  BY DEF Slots
<1> HIDE DEF w
<1>4. Gets(z, w, kind, from)
  BY <1>2, <1>3 DEF Gets
<1> QED
  BY <1>4 DEF w

LEMMA TalkRelayed ==
  ASSUME TypeInv, NEW c \in Calls, NEW t \in Tabs, NEW i \in Tabs, Talk(c, t, i),
         t \in up, i \in up,
         NEW j \in Tabs, NEW kind \in {"offer", "answer", "ice"},
         Party(c, UserOf[j]), Relay(j, c, kind)
  PROVE  Talk(c, t, i)'
<1> DEFINE r == About(kind, c)
           x == tab[t]
           z == tab[i]
           y == tab'[t]
           w == tab'[i]
<1>1. /\ UserOf[t] \in line[c] /\ UserOf[t] = caller[c]
      /\ UserOf[i] \in line[c] /\ UserOf[i] # caller[c]
      /\ Pair(c, x, z, t, i)
  BY DEF Talk
<1>2. \A m \in Tabs : UserOf[m] \in line[c] =>
        /\ m \notin {t, i} => Aloof(tab[m], c)
        /\ UserOf[m] # caller[c] => About("accept", c) \notin tab[m].out
  BY DEF Talk
<1>3. t # i /\ Whole(x) /\ Whole(z)
  BY <1>1 DEF TypeInv
<1> DEFINE rest == Rest(j, r)
<1>0. /\ tab' = [m \in Tabs |->
           IF Party(c, UserOf[j]) /\ Hears(m, line[c] \ {UserOf[j]})
             THEN IF kind = "ice" THEN OnIce(rest[m], c, j) ELSE OnSdp(rest[m], c, kind, j)
             ELSE rest[m]]
      /\ kind # "ice" => \A m \in Tabs : Slots(rest[m]) # {}
  BY DEF Relay
<1>4. /\ r \in tab[j].out /\ line' = line /\ caller' = caller
      /\ \A m \in Tabs : tab'[m] =
           IF Hears(m, line[c] \ {UserOf[j]})
             THEN IF kind = "ice" THEN OnIce(rest[m], c, j)
                                  ELSE OnSdp(rest[m], c, kind, j)
             ELSE rest[m]
      /\ kind # "ice" => \A m \in Tabs : Slots(rest[m]) # {}
  <2>1. r \in tab[j].out /\ line' = line /\ caller' = caller
    BY DEF Relay, Take, serverVars
  <2> HIDE DEF r, rest
  <2>2. \A m \in Tabs : tab'[m] =
          IF Hears(m, line[c] \ {UserOf[j]})
            THEN IF kind = "ice" THEN OnIce(rest[m], c, j) ELSE OnSdp(rest[m], c, kind, j)
            ELSE rest[m]
    BY <1>0
  <2>3. kind # "ice" => \A m \in Tabs : Slots(rest[m]) # {}
    BY <1>0
  <2> QED
    BY <2>1, <2>2, <2>3
<1>5. \A m \in Tabs : m # j => rest[m] = tab[m]
  <2> HIDE DEF r
  <2>1. \A m \in Tabs \ {j} : Rest(j, r)[m] = tab[m]
    BY RestIs
  <2> QED
    BY <2>1
<1>6. \A m \in Tabs : /\ rest[m].call = tab[m].call
                      /\ rest[m].out \subseteq tab[m].out
  <2> HIDE DEF r
  <2> SUFFICES ASSUME NEW m \in Tabs
               PROVE  /\ rest[m].call = tab[m].call
                      /\ rest[m].out \subseteq tab[m].out
    OBVIOUS
  <2>1. rest[m].call = tab[m].call
    BY RestHolds
  <2>2. rest[m].out \subseteq tab[m].out
    <3>1. CASE m = j
      <4>1. SameRefs(tab[m], rest[m]) /\ rest[m].out = tab[m].out \ {r}
        BY <3>1, RestAlike
      <4> QED
        BY <4>1
    <3>2. CASE m # j
      BY <1>5, <3>2
    <3> QED
      BY <3>1, <3>2
  <2> QED
    BY <2>1, <2>2
<1>7. \A m \in Tabs : Whole(rest[m])
  BY RestIs
<1>8. r \in Signals(c) /\ UserOf[j] \in line[c]
  BY DEF Signals, Party
<1>9. j \in {t, i}
  BY <1>2, <1>4, <1>8 DEF Aloof
<1>10. Without(tab[j], tab'[j], r)
  <2>1. tab'[j] = rest[j]
    BY <1>4 DEF Hears
  <2> HIDE DEF r
  <2> QED
    BY <2>1, RestAlike DEF Without
<1> HIDE DEF r, rest
<1>11. ASSUME NEW m \in Tabs
       PROVE  tab'[m].out \subseteq tab[m].out
  <2> DEFINE v == rest[m]
  <2>1. Whole(v) /\ v.out \subseteq tab[m].out
    BY <1>6, <1>7
  <2>2. kind # "ice" => kind \in {"offer", "answer"} /\ Slots(v) # {}
    BY <1>4
  <2>3. \/ tab'[m] = v
        \/ tab'[m] = OnIce(v, c, j)
        \/ kind # "ice" /\ tab'[m] = OnSdp(v, c, kind, j)
    BY <1>4
  <2> HIDE DEF v
  <2>4. OnIce(v, c, j).out = v.out
    BY <2>1, OnIceMoves
  <2>5. kind # "ice" => OnSdp(v, c, kind, j).out = v.out
    BY <2>1, <2>2, OnSdpMoves
  <2> QED
    BY <2>1, <2>3, <2>4, <2>5
<1>12. ASSUME NEW m \in Tabs, UserOf[m] \in line[c], m \notin {t, i}
       PROVE  Aloof(tab'[m], c)
  <2>1. Aloof(tab[m], c) /\ rest[m].call # c
    BY <1>2, <1>6, <1>12 DEF Aloof
  <2> DEFINE v == rest[m]
  <2>2. tab'[m] \in {v, OnIce(v, c, j), OnSdp(v, c, kind, j)} /\ v.call # c
    BY <1>4, <2>1
  <2> HIDE DEF v
  <2>3. OnIce(v, c, j) = v /\ OnSdp(v, c, kind, j) = v
    BY <2>2 DEF OnIce, OnSdp
  <2>4. tab'[m] = rest[m]
    BY <2>2, <2>3 DEF v
  <2> QED
    BY <1>11, <2>1, <2>4 DEF Aloof
<1>13. CASE j = t
  <2>1. w = IF kind = "ice" THEN OnIce(z, c, t) ELSE OnSdp(z, c, kind, t)
    <3>1. rest[i] = z /\ Hears(i, line[c] \ {UserOf[j]})
      BY <1>1, <1>3, <1>5, <1>13 DEF Hears
    <3> QED
      BY <1>4, <1>13, <3>1
  <2>2. kind # "ice" => Slots(z) # {}
    BY <1>3, <1>4, <1>5, <1>13
  <2>3. Without(x, y, r) /\ r \in x.out
    BY <1>4, <1>10, <1>13
  <2> HIDE DEF x, y, z, w
  <2>4. InCall(x, c) /\ InCall(z, c) /\ About("answer", c) \notin x.out
    BY <1>1 DEF Pair
  <2>5. kind # "answer"
    BY <2>3, <2>4 DEF r
  <2>6. ASSUME kind = "offer" PROVE Pair(c, y, w, t, i)
    <3>0. w = OnSdp(z, c, "offer", t) /\ Slots(z) # {}
      BY <2>1, <2>2, <2>6
    <3>1. Gets(z, w, "offer", t)
      BY <1>3, <2>4, <3>0, SdpGets
    <3> QED
      BY <1>1, <2>3, <2>6, <3>1, PairOffered DEF r
  <2>7. ASSUME kind = "ice" PROVE Pair(c, y, w, t, i)
    <3>0. w = OnIce(z, c, t) /\ z.call = c
      BY <2>1, <2>4, <2>7 DEF InCall
    <3>1. Ices(z, w, c, t) /\ w.out = z.out
      BY <1>3, <3>0, OnIceMoves
    <3> QED
      BY <1>1, <1>3, <2>3, <2>7, <3>1, PairHearsCaller DEF r
  <2>8. Pair(c, y, w, t, i)
    BY <2>5, <2>6, <2>7
  <2> QED
    BY <1>1, <1>2, <1>4, <1>11, <1>12, <2>8 DEF Talk, y, w
<1>14. CASE j = i
  <2>1. y = IF kind = "ice" THEN OnIce(x, c, i) ELSE OnSdp(x, c, kind, i)
    <3>1. rest[t] = x /\ Hears(t, line[c] \ {UserOf[j]})
      BY <1>1, <1>3, <1>5, <1>14 DEF Hears
    <3> QED
      BY <1>4, <1>14, <3>1
  <2>2. kind # "ice" => Slots(x) # {}
    BY <1>3, <1>4, <1>5, <1>14
  <2>3. Without(z, w, r) /\ r \in z.out
    BY <1>4, <1>10, <1>14
  <2> HIDE DEF x, y, z, w
  <2>4. InCall(x, c) /\ InCall(z, c) /\ About("offer", c) \notin z.out
    BY <1>1 DEF Pair
  <2>5. kind # "offer"
    BY <2>3, <2>4 DEF r
  <2>6. ASSUME kind = "answer" PROVE Pair(c, y, w, t, i)
    <3>0. y = OnSdp(x, c, "answer", i) /\ Slots(x) # {}
      BY <2>1, <2>2, <2>6
    <3>1. Gets(x, y, "answer", i)
      BY <1>3, <2>4, <3>0, SdpGets
    <3> QED
      BY <1>1, <2>3, <2>6, <3>1, PairAnswered DEF r
  <2>7. ASSUME kind = "ice" PROVE Pair(c, y, w, t, i)
    <3>0. y = OnIce(x, c, i) /\ x.call = c
      BY <2>1, <2>4, <2>7 DEF InCall
    <3>1. Ices(x, y, c, i) /\ y.out = x.out
      BY <1>3, <3>0, OnIceMoves
    <3> QED
      BY <1>1, <1>3, <2>3, <2>7, <3>1, PairHearsCallee DEF r
  <2>8. Pair(c, y, w, t, i)
    BY <2>5, <2>6, <2>7
  <2> QED
    BY <1>1, <1>2, <1>4, <1>11, <1>12, <2>8 DEF Talk, y, w
<1> QED
  BY <1>9, <1>13, <1>14

(* The callee's answer is handled: the caller's tab and the one that answered *)
(* are in the call, and the callee's other tabs let go of it.                *)
LEMMA ReadyWithout ==
  ASSUME NEW x, NEW y, NEW r, Without(x, y, r), NEW c \in Calls, NEW own, Ready(x, c, own)
  PROVE  Ready(y, c, own)
BY DEF Ready, ShowsRinging, Silent, Without, SameRefs, SameState, SameWork

LEMMA TalkBegins ==
  ASSUME TypeInv, TabsAreNeat, TabsFit, CallsAreReal, CallsAreKnown, LinesAreOfTwo,
         CallsAreReady, RingsAreHeard, Next,
         NEW c \in Calls, Lasts(c), phase[c] = "ringing", phase'[c] = "active",
         Untroubled(c)', ~Ending(c)',
         NEW a \in Tabs, Party(c, UserOf[a]), UserOf[a] # caller[c], HandleAccept(a, c)
  PROVE  \E t, i \in Tabs : Talk(c, t, i)'
<1> DEFINE r == About("accept", c)
           rest == Rest(a, r)
<1>1. line'[c] = line[c] /\ caller'[c] = caller[c] /\ UserOf[a] \in line[c]
  BY DEF Lasts, Party
<1>2. /\ Untroubled(c)
      /\ \A m \in Tabs : UserOf[m] \in line[c] =>
           trouble'[m] = {} /\ Whole(tab[m]) /\ JobsFit(tab[m])
  BY <1>1, UntroubledBefore DEF Next
<1>3. ~Ending(c)
  BY EndingStays
<1>4. \A m \in Tabs : UserOf[m] \in line[c] =>
        Ready(tab[m], c, UserOf[m] = caller[c]) /\ m \in up
  BY <1>2, <1>3 DEF CallsAreReady, Untroubled, CallsAreReal
<1>5. PICK t \in Tabs : UserOf[t] \in line[c] /\ UserOf[t] = caller[c] /\ tab[t].call = c
  BY <1>2, <1>3 DEF RingsAreHeard, Ringing
<1>6. r \in tab[a].out
  BY DEF HandleAccept, Take
<1>7. tab' = [m \in Tabs |-> IF Hears(m, line[c]) THEN OnAccepted(rest[m], c) ELSE rest[m]]
  BY DEF HandleAccept, TellAccepted
<1>8. Without(tab[a], rest[a], r) /\ \A m \in Tabs \ {a} : rest[m] = tab[m]
  <2> HIDE DEF r
  <2>1. Without(tab[a], rest[a], r)
    BY RestAlike DEF Without
  <2>2. \A m \in Tabs \ {a} : rest[m] = tab[m]
    BY RestIs
  <2> QED
    BY <2>1, <2>2
<1>9. Whole(rest[a])
  BY RestIs
<1> HIDE DEF rest
<1>10. \A m \in Tabs : UserOf[m] \in line[c] => tab'[m] = OnAccepted(rest[m], c)
  BY <1>4, <1>7 DEF Hears
<1>11. tab[a].call = c /\ tab[a].here /\ a # t
  BY <1>1, <1>4, <1>5, <1>6 DEF Ready
<1>12. ASSUME NEW m \in Tabs, UserOf[m] \in line[c], tab[m].call = c
       PROVE  /\ tab[m].outgoing = (UserOf[m] = caller[c])
              /\ tab[m].sees = (UserOf[m] = caller[c])
              /\ m = t \/ UserOf[m] # caller[c]
              /\ m \notin {t, a} => ~tab[m].here
  <2> DEFINE own == UserOf[m] = caller[c]
  <2>1. tab[m].outgoing = own
    BY <1>4, <1>12 DEF Ready, ShowsRinging
  <2>2. ~Stale(m) /\ ~AnsweredTwice(m)
    BY <1>2, <1>12, TroublesAre DEF Next
  <2>3. tab[m].sees = tab[m].outgoing
    BY <1>12, <2>2, NoneAssumption DEF Stale
  <2>4. m = t \/ UserOf[m] # caller[c]
    BY <1>5, <1>12 DEF CallsAreKnown
  <2>5. UserOf[m] # caller[c] => UserOf[m] = UserOf[a]
    BY <1>1, <1>12 DEF LinesAreOfTwo
  <2>6. m \notin {t, a} => ~tab[m].here
    BY <1>11, <1>12, <2>2, <2>4, <2>5 DEF AnsweredTwice
  <2> QED
    BY <2>1, <2>3, <2>4, <2>6
<1>13. ASSUME NEW m \in Tabs, UserOf[m] \in line[c], m \notin {t, a}
       PROVE  /\ Aloof(tab'[m], c)
              /\ UserOf[m] # caller[c] => r \notin tab'[m].out
  <2> DEFINE x == tab[m]
             y == tab'[m]
             own == UserOf[m] = caller[c]
  <2>1. Whole(x) /\ Ready(x, c, own) /\ y = OnAccepted(x, c)
    BY <1>2, <1>4, <1>8, <1>10, <1>13
  <2>2. x.call = c => ~own /\ ~x.here /\ ~x.sees
    BY <1>12, <1>13
  <2> HIDE DEF x, y, own
  <2>3. x.call # c => y = x
    BY <2>1, OnAcceptedMoves
  <2>4. x.call = c => y.call = None /\ y.out = x.out
    BY <2>1, <2>2, OnAcceptedMoves DEF Drops, Clears
  <2>5. Aloof(y, c)
    BY <2>1, <2>3, <2>4, NoneAssumption DEF Aloof, Ready, Silent
  <2>6. ~own => r \notin y.out
    BY <2>1, <2>2, <2>3, <2>4 DEF Ready
  <2> QED
    BY <2>5, <2>6 DEF y, own
<1>14. Pair(c, tab'[t], tab'[a], t, a) /\ r \notin tab'[a].out
  <2> DEFINE x == tab[t]
             z == rest[a]
             y == tab'[t]
             w == tab'[a]
  <2>1. (UserOf[t] = caller[c]) = TRUE /\ (UserOf[a] = caller[c]) = FALSE
    BY <1>5
  <2>2. /\ Whole(x) /\ JobsFit(x) /\ Ready(x, c, TRUE) /\ x.call = c /\ x.sees
        /\ y = OnAccepted(x, c)
    BY <1>2, <1>4, <1>5, <1>8, <1>10, <1>11, <1>12, <2>1
  <2>3. Ready(tab[a], c, FALSE) /\ JobsFit(tab[a]) /\ ~tab[a].sees
    BY <1>1, <1>2, <1>4, <1>11, <1>12, <2>1
  <2>4. Ready(z, c, FALSE)
    BY <1>8, <2>3, ReadyWithout
  <2>5. z.call = c /\ z.here /\ ~z.sees /\ z.out = tab[a].out \ {r}
    BY <1>8, <1>11, <2>3 DEF Without, SameRefs, SameState
  <2>6. JobsFit(z)
    BY <1>8, <2>3, AlikeIsFit DEF Without
  <2>7. Whole(z) /\ w = OnAccepted(z, c)
    BY <1>1, <1>9, <1>10
  <2> HIDE DEF x, y, z, w
  <2>8. x.peer # None
    BY <2>2 DEF Ready, ShowsRinging
  <2>9. Answers(x, y, c) /\ y.out = x.out \cup {About("offer", c), About("ice", c)}
    BY <2>2, <2>8, OnAcceptedMoves
  <2>10. Answers(z, w, c) /\ w.out = z.out
    BY <2>5, <2>7, OnAcceptedMoves
  <2>11. Pair(c, y, w, t, a)
    BY <2>2, <2>4, <2>5, <2>6, <2>9, <2>10, PairBegins
  <2>12. r \notin w.out
    BY <2>5, <2>10
  <2> QED
    BY <2>11, <2>12 DEF y, w
<1>15. Talk(c, t, a)'
  BY <1>1, <1>5, <1>13, <1>14 DEF Talk
<1> QED
  BY <1>15

(* An answered call goes on connecting two tabs until it ends.               *)
LEMMA CallsStayConnected ==
  ASSUME TypeInv, TabsAreNeat, TabsFit, CallsAreReal, CallsAreKnown, LinesAreOfTwo,
         CallsAreReady, RingsAreHeard, CallsConnect, Next
  PROVE  CallsConnect'
<1> SUFFICES ASSUME NEW c \in Calls, phase'[c] = "active", Untroubled(c)', ~Ending(c)'
             PROVE  \E t, i \in Tabs : Talk(c, t, i)'
  BY DEF CallsConnect
<1>1. Step /\ Record
  BY DEF Next
<1>2. ASSUME NEW t \in Tabs, NEW k \in Jobs, NEW v \in Users, HandleInvite(t, k, v, c)
      PROVE  FALSE
  BY <1>2 DEF HandleInvite, Server!Ring, TypeInv, TypeOK
<1>3. Lasts(c)
  BY <1>1, <1>2, StepsLast
<1>4. line'[c] = line[c] /\ caller'[c] = caller[c] /\ phase[c] \in {"ringing", "active"}
  BY <1>3 DEF Lasts
<1>5. /\ Untroubled(c)
      /\ \A m \in Tabs : UserOf[m] \in line[c] => Whole(tab[m]) /\ JobsFit(tab[m])
  BY <1>1, <1>4, UntroubledBefore
<1>6. CASE phase[c] = "ringing"
  <2>1. ~(phase'[c] = phase[c])
    BY <1>6
  <2>2. \E a \in Tabs : Party(c, UserOf[a]) /\ UserOf[a] # caller[c] /\ HandleAccept(a, c)
    <3>1. ~Ends(c) /\ ~Besides(c)
      BY <2>1 DEF Ends, Besides, SameOnServer
    <3>2. \A t \in Tabs : ~Alone(t) /\ ~Exits(t)
      BY <2>1, ExitsLeave DEF Alone, serverVars
    <3>3. \A t \in Tabs, kind \in {"offer", "answer", "ice"} : ~Relay(t, c, kind)
      BY <2>1 DEF Relay, serverVars
    <3> QED
      BY <1>1, <1>2, <3>1, <3>2, <3>3, StepKinds
  <2> QED
    BY <1>3, <1>6, <2>2, TalkBegins
<1>7. CASE phase[c] = "active"
  <2>1. ~Ending(c) /\ Server!Engaged(c)
    BY <1>3, <1>7, EndingStays DEF Server!Engaged
  <2>2. PICK t \in Tabs, i \in Tabs : Talk(c, t, i)
    BY <1>5, <1>7, <2>1 DEF CallsConnect
  <2>3. /\ UserOf[t] \in line[c] /\ UserOf[i] \in line[c] /\ UserOf[i] # caller[c]
        /\ tab[t].outgoing
        /\ \A j \in Tabs : UserOf[j] \in line[c] =>
             /\ j \notin {t, i} => tab[j].call # c
             /\ UserOf[j] # caller[c] => About("accept", c) \notin tab[j].out
    BY <2>2 DEF Talk, Pair, Aloof
  <2>4. t \in up /\ i \in up
    BY <1>5, <2>3 DEF Untroubled, CallsAreReal
  <2>5. \A j \in Tabs : UserOf[j] \in line[c] /\ tab[j].call = c /\ UserOf[j] = caller[c]
                          => tab[j].outgoing
    BY <2>3
  <2>6. ASSUME Calm(c) \/ \E j \in Tabs : Turn(j, c) PROVE Talk(c, t, i)'
    BY <1>4, <1>5, <2>2, <2>6, TalkGoesOn
  <2>7. ASSUME NEW j \in Tabs, NEW kind \in {"offer", "answer", "ice"}, Party(c, UserOf[j]),
               Relay(j, c, kind)
        PROVE  Talk(c, t, i)'
    BY <2>2, <2>4, <2>7, TalkRelayed
  <2>8. ASSUME NEW a \in Tabs, Party(c, UserOf[a]), UserOf[a] # caller[c], HandleAccept(a, c)
        PROVE  FALSE
    BY <2>3, <2>8 DEF HandleAccept, Take, Party
  <2>9. ~Ends(c)
    BY DEF Ends
  <2>10. \/ \E m \in Tabs : Acts(tab[m], tab'[m]) /\ Alone(m)
         \/ \E m \in Tabs : Exits(m)
         \/ Besides(c)
         \/ \E j \in Tabs, kind \in {"offer", "answer", "ice"} :
              Party(c, UserOf[j]) /\ Relay(j, c, kind)
    BY <1>1, <1>2, <2>8, <2>9, StepKinds
  <2>11. Talk(c, t, i)'
    BY <1>1, <1>4, <2>1, <2>5, <2>6, <2>7, <2>10, StepTurns
  <2> QED
    BY <2>11
<1> QED
  BY <1>4, <1>6, <1>7

LEMMA ConnectionStarts ==
  Init => TabsFit /\ LinesAreOfTwo /\ CallsAreKnown /\ CallsAreReady /\ CallsConnect
<1> SUFFICES ASSUME Init
             PROVE  TabsFit /\ LinesAreOfTwo /\ CallsAreKnown /\ CallsAreReady /\ CallsConnect
  OBVIOUS
<1>1. \A t \in Tabs : tab[t] = FreshTab
  BY DEF Init
<1>2. \A c \in Calls : phase[c] = "idle" /\ line[c] = {}
  BY DEF Init, Server!Init
<1>3. TabsFit
  BY <1>1, FreshFits DEF TabsFit
<1>4. CallsAreKnown
  BY <1>1, <1>2, FreshKnowsNothing DEF CallsAreKnown, Unknown, Unheard
<1>5. LinesAreOfTwo /\ CallsAreReady /\ CallsConnect
  BY <1>2 DEF LinesAreOfTwo, CallsAreReady, CallsConnect
<1> QED
  BY <1>3, <1>4, <1>5

LEMMA ConnectionStutters ==
  ASSUME UNCHANGED vars
  PROVE  /\ TabsFit => TabsFit'
         /\ LinesAreOfTwo => LinesAreOfTwo'
         /\ CallsAreKnown => CallsAreKnown'
         /\ CallsAreReady => CallsAreReady'
         /\ CallsConnect => CallsConnect'
<1>1. /\ phase' = phase /\ line' = line /\ caller' = caller /\ tab' = tab
      /\ trouble' = trouble
  BY DEF vars
<1>2. \A c \in Calls : (Untroubled(c)' <=> Untroubled(c)) /\ (Ending(c)' <=> Ending(c))
  BY <1>1 DEF Untroubled, Ending, Asked
<1>3. \A c \in Calls, t, i \in Tabs : Talk(c, t, i) => Talk(c, t, i)'
  BY <1>1 DEF Talk
<1>4. TabsFit => TabsFit'
  BY <1>1 DEF TabsFit
<1>5. LinesAreOfTwo => LinesAreOfTwo'
  BY <1>1 DEF LinesAreOfTwo
<1>6. CallsAreKnown => CallsAreKnown'
  BY <1>1 DEF CallsAreKnown
<1>7. CallsAreReady => CallsAreReady'
  BY <1>1, <1>2 DEF CallsAreReady
<1>8. CallsConnect => CallsConnect'
  BY <1>1, <1>2, <1>3 DEF CallsConnect
<1> QED
  BY <1>4, <1>5, <1>6, <1>7, <1>8

(* The jobs of a tab go with its call and its connection.                    *)
THEOREM JobsStayFit == Spec => []TabsFit
<1>1. TypeInv /\ TabsAreNeat /\ TabsFit /\ [Next]_vars => TabsFit'
  BY TabsStayFit, ConnectionStutters
<1> QED
  BY <1>1, ConnectionStarts, TypeCorrect, TabsStayNeat, PTL DEF Spec

(* A call is between two people: whoever is not the caller is one person.    *)
THEOREM CallsAreOfTwo == Spec => []LinesAreOfTwo
<1>1. TypeInv /\ LinesAreOfTwo /\ [Next]_vars => LinesAreOfTwo'
  BY LinesStayOfTwo, ConnectionStutters
<1> QED
  BY <1>1, ConnectionStarts, TypeCorrect, PTL DEF Spec

(* Only tabs of a call's two people show it, and of the caller's only one.   *)
THEOREM CallsAreAlwaysKnown == Spec => []CallsAreKnown
<1>1. TypeInv /\ CallsAreKnown /\ [Next]_vars => CallsAreKnown'
  BY CallsStayKnown, ConnectionStutters
<1> QED
  BY <1>1, ConnectionStarts, TypeCorrect, PTL DEF Spec

(* While a call rings and nobody asks to end it, whoever shows it has a      *)
(* connection of which nothing is known, and nobody has signalled.           *)
THEOREM RingsAreReady == Spec => []CallsAreReady
<1>1. /\ TypeInv /\ TabsAreNeat /\ TabsFit /\ CallsAreKnown /\ CallsAreReady /\ [Next]_vars
      => CallsAreReady'
  BY CallsStayReady, ConnectionStutters
<1> QED
  BY <1>1, ConnectionStarts, TypeCorrect, TabsStayNeat, JobsStayFit, CallsAreAlwaysKnown,
     PTL DEF Spec

(* At any moment: an answered call is asked to be ended, or exactly two tabs *)
(* are in it, one of each person, and the offer, the answer and the two      *)
(* candidates are each on their way, at work or arrived.                     *)
THEOREM CallsAlwaysConnect == Spec => []CallsConnect
<1>1. /\ TypeInv /\ TabsAreNeat /\ TabsFit /\ CallsAreReal /\ CallsAreKnown /\ LinesAreOfTwo
      /\ CallsAreReady /\ RingsAreHeard /\ CallsConnect /\ [Next]_vars
      => CallsConnect'
  BY CallsStayConnected, ConnectionStutters
<1> QED
  BY <1>1, ConnectionStarts, TypeCorrect, TabsStayNeat, JobsStayFit, CallsStayReal,
     CallsAreAlwaysKnown, CallsAreOfTwo, RingsAreReady, RingsAreAlwaysHeard, PTL DEF Spec

(* Nothing of the call is under way: tab x is connected to tab from.         *)
ConnectedTo(x, from) ==
  Linked(x, "stable", from) /\ x.pending = {} /\ x.media[x.peer].ice = {from}
LEMMA PairSettles ==
  ASSUME NEW c \in Calls, NEW t \in Tabs, NEW i \in Tabs, NEW x, NEW z, Pair(c, x, z, t, i),
         x.out = {}, z.out = {}, Works(x) = {}, Works(z) = {}
  PROVE  ConnectedTo(x, i) /\ ConnectedTo(z, t)
<1>1. Connected(c, x, z, t, i)
  BY DEF Pair, Offering, Answering, Works1
<1>2. Linked(x, "stable", i) /\ Linked(z, "stable", t)
  BY <1>1 DEF Connected
<1>3. x.media[x.peer].remote # None /\ z.media[z.peer].remote # None
  BY <1>2, NoneAssumption DEF Linked
<1>4. Candidate(c, z, t, x.out) /\ Candidate(c, x, i, z.out)
  BY <1>3 DEF Pair, Candidates
<1> QED
  BY <1>2, <1>3, <1>4 DEF Candidate, ConnectedTo

LEMMA ConnectionMeans ==
  ASSUME TypeInv, TabsAreNeat, CallsAreReal, CallsAreKnown, CallsConnect
  PROVE  BothSidesTalk
<1> SUFFICES ASSUME Quiet, NEW c \in Calls, phase[c] = "active", Untroubled(c)
             PROVE  \E t, i \in Tabs :
               /\ UserOf[t] # UserOf[i]
               /\ {j \in Tabs : tab[j].call = c} = {t, i}
               /\ \A x \in {tab[t], tab[i]} :
                    /\ x.phase = "active" /\ x.timers = {} /\ x.pending = {}
                    /\ x.peer # None /\ x.peer = x.local /\ x.media[x.peer].mic # "off"
               /\ tab[t].media[tab[t].peer].remote = i /\ tab[t].media[tab[t].peer].ice = {i}
               /\ tab[i].media[tab[i].peer].remote = t /\ tab[i].media[tab[i].peer].ice = {t}
  BY DEF BothSidesTalk
<1>1. \A t \in Tabs : UserOf[t] \in line[c] =>
        tab[t].out = {} /\ Sound(tab[t]) /\ tab[t] \in Tab
  BY DEF Quiet, Untroubled, CallsAreReal, TabsAreNeat, TypeInv, Whole
<1>2. ~Ending(c)
  BY <1>1 DEF Ending, Asked
<1>3. PICK t \in Tabs, i \in Tabs : Talk(c, t, i)
  BY <1>2 DEF CallsConnect
<1>4. /\ UserOf[t] \in line[c] /\ UserOf[t] = caller[c]
      /\ UserOf[i] \in line[c] /\ UserOf[i] # caller[c]
      /\ Pair(c, tab[t], tab[i], t, i)
      /\ \A j \in Tabs : UserOf[j] \in line[c] /\ j \notin {t, i} => tab[j].call # c
  BY <1>3 DEF Talk, Aloof
<1>5. \A j \in Tabs : Works(tab[j]) = {}
  BY FreeIsJob DEF Quiet, Works
<1>6. ConnectedTo(tab[t], i) /\ ConnectedTo(tab[i], t)
  <2>1. tab[t].out = {} /\ tab[i].out = {} /\ Works(tab[t]) = {} /\ Works(tab[i]) = {}
    BY <1>1, <1>4, <1>5
  <2> QED
    BY <1>4, <2>1, PairSettles
<1>7. InCall(tab[t], c) /\ InCall(tab[i], c)
  BY <1>4 DEF Pair
<1>8. {j \in Tabs : tab[j].call = c} = {t, i}
  BY <1>4, <1>7 DEF CallsAreKnown, InCall
<1>9. ASSUME NEW x, Sound(x), x \in Tab, InCall(x, c)
      PROVE  /\ x.phase = "active" /\ x.timers = {}
             /\ x.peer # None /\ x.peer = x.local /\ x.media[x.peer].mic # "off"
  <2>1. x.phase = "active" /\ x.ring = None /\ x.peer # None
    BY <1>9 DEF InCall
  <2>2. x.timers \subseteq {None} /\ x.timers \subseteq Calls
    BY <1>9, <2>1, TabFields DEF Sound, Neat, NoCallNothing
  <2>3. x.peer = x.local /\ x.media[x.local].mic # "off"
    BY <1>9, <2>1 DEF Sound, Neat, OneMedium
  <2> QED
    BY <2>1, <2>2, <2>3, NoneAssumption
<1>10. \A x \in {tab[t], tab[i]} :
         /\ x.phase = "active" /\ x.timers = {} /\ x.pending = {}
         /\ x.peer # None /\ x.peer = x.local /\ x.media[x.peer].mic # "off"
  BY <1>1, <1>4, <1>6, <1>7, <1>9 DEF ConnectedTo
<1>11. UserOf[t] # UserOf[i]
  BY <1>4
<1> QED
  BY <1>6, <1>8, <1>10, <1>11 DEF Linked, ConnectedTo

(* Both sides of an answered call hear each other: once nothing is under     *)
(* way, exactly one tab of each person is in it, each with the description   *)
(* and the candidate of the other and a live stream.                         *)
THEOREM AnsweredCallsTalk == Spec => []BothSidesTalk
<1>1. /\ TypeInv /\ TabsAreNeat /\ CallsAreReal /\ CallsAreKnown /\ CallsConnect
      => BothSidesTalk
  BY ConnectionMeans
<1> QED
  BY <1>1, TypeCorrect, TabsStayNeat, CallsStayReal, CallsAreAlwaysKnown, CallsAlwaysConnect, PTL
=============================================================================
