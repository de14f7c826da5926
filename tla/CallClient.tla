---------------------------- MODULE CallClient ----------------------------
(***************************************************************************)
(* The browser tabs in a call (features/call/call-provider.tsx), talking   *)
(* to the server through socket events.  The server is the one Telephony   *)
(* promises, which Calls is shown to implement; what the socket handlers   *)
(* (realtime/handlers/call.ts) tell whom is modelled here.                 *)
(*                                                                         *)
(* A tab is a record; its handlers are functions from tabs to tabs.  A job *)
(* of a tab is one invocation of an asynchronous function: start, accept,  *)
(* onSdp.  It stands at an await, and whatever the tab hears or is told to *)
(* do meanwhile comes in between.                                          *)
(*                                                                         *)
(* A request waits in the tab's out until the server handles it, in any    *)
(* order.  An event is heard by all connected tabs in the step that emits  *)
(* it: a tab that hears it later behaves like one whose steps up to then   *)
(* were made earlier.                                                      *)
(***************************************************************************)
EXTENDS FiniteSets

CONSTANTS
  Users,     \* the people who can call each other
  Calls,     \* call identifiers (a randomUUID per invite)
  Tabs,      \* the browser tabs
  UserOf,    \* UserOf[t]: who is signed in in tab t
  Streams,   \* identifiers of the streams of a tab
  Jobs,      \* identifiers of the invocations in flight of a tab
  None       \* the null value

ASSUME NoneAssumption ==
  None \notin Users /\ None \notin Calls /\ None \notin Tabs /\ None \notin Streams
ASSUME UserOfAssumption == UserOf \in [Tabs -> Users]

VARIABLES
  phase,     \* phase[c] and line[c]: the call on the server, as in Telephony
  line,
  caller,    \* caller[c]: who placed call c, None before
  up,        \* the tabs whose socket is connected
  gone,      \* the users whose last socket closed, dropFor still to run
  mounted,   \* the tabs that show the application, not the login page
  left,      \* the tabs in which an application shown earlier, whose refs
             \* are lost, has left a live track or an open peer connection
  tab,       \* tab[t]: the refs, the React state and the jobs of tab t
  trouble    \* history: trouble[t]: what tab t met that the code does not guard

serverVars == <<phase, line, caller>>
pages == <<mounted, left>>
vars == <<phase, line, caller, up, gone, pages, tab, trouble>>

Server == INSTANCE Telephony

-----------------------------------------------------------------------------
(* What a tab holds. *)

(* A stream of getUserMedia, with the peer connection built for it: mic,   *)
(* whether its tracks are stopped, live or disabled; pc, the signalling    *)
(* state ("none": not built, or closed); remote, the tab whose description *)
(* is set; ice, the tabs whose candidate was added.                        *)
Medium == [mic : {"off", "on", "muted"},
           pc : {"none", "new", "offered", "stable"},
           remote : Tabs \cup {None}, ice : SUBSET Tabs]
NoMedium == [mic |-> "off", pc |-> "none", remote |-> None, ice |-> {}]
Silence == [s \in Streams |-> NoMedium]

Job == [at : {"free", "startMedia", "ack", "acceptMedia", "describe"},
        to : Users \cup {None}, call : Calls \cup {None}, stream : Streams \cup {None},
        kind : {"offer", "answer"}, from : Tabs \cup {None}]
Free == [at |-> "free", to |-> None, call |-> None, stream |-> None,
         kind |-> "offer", from |-> None]
Asking(j) == j.at \in {"startMedia", "ack", "acceptMedia"}

Invite(k, u) == [kind |-> "invite", job |-> k, to |-> u]
About(kind, c) == [kind |-> kind, call |-> c]
Requests == [kind : {"invite"}, job : Jobs, to : Users]
              \cup [kind : {"accept", "decline", "hangup", "offer", "answer", "ice"},
                    call : Calls]

(* call, here, ring, local, peer, pending: the refs callId, answeredHere,  *)
(* ringTimer, local, peer, pendingIce; phase, outgoing, muted: the state;  *)
(* sees: state.outgoing as the registered handlers captured it; timers:    *)
(* the ring time-outs running.                                             *)
Tab == [call : Calls \cup {None}, here : BOOLEAN, ring : Calls \cup {None},
        local : Streams \cup {None}, peer : Streams \cup {None}, pending : SUBSET Tabs,
        phase : {"idle", "calling", "ringing", "active"}, outgoing : BOOLEAN,
        muted : BOOLEAN, sees : BOOLEAN, timers : SUBSET Calls,
        media : [Streams -> Medium], jobs : [Jobs -> Job], out : SUBSET Requests]
FreshTab == [call |-> None, here |-> FALSE, ring |-> None, local |-> None,
             peer |-> None, pending |-> {}, phase |-> "idle", outgoing |-> FALSE,
             muted |-> FALSE, sees |-> FALSE, timers |-> {},
             media |-> Silence, jobs |-> [k \in Jobs |-> Free],
             out |-> {}]

Troubles == {"tangled", "twice", "gaveUp", "stale", "cut", "untold", "stranded"}

TypeOK ==
  /\ phase \in [Calls -> {"idle", "ringing", "active", "over"}]
  /\ line \in [Calls -> SUBSET Users]
  /\ caller \in [Calls -> Users \cup {None}]
  /\ up \subseteq mounted
  /\ gone \subseteq Users
  /\ mounted \subseteq Tabs
  /\ left \subseteq Tabs
  /\ tab \in [Tabs -> Tab]
  /\ trouble \in [Tabs -> SUBSET Troubles]

Init ==
  /\ Server!Init
  /\ caller = [c \in Calls |-> None]
  /\ up = Tabs
  /\ gone = {}
  /\ mounted = Tabs
  /\ left = {}
  /\ tab = [t \in Tabs |-> FreshTab]
  /\ trouble = [t \in Tabs |-> {}]

-----------------------------------------------------------------------------
(* What every handler is built from; x is a tab. *)

Send(x, rs) == [x EXCEPT !.out = @ \cup rs]

MutStopped(media, s, p) ==
  [i \in Streams |-> IF i = p THEN [NoMedium EXCEPT !.mic = media[i].mic] ELSE media[i]]

(* Tracks of stream s stop, peer connection p is closed. *)
Stopped(media, s, p) ==
  [i \in Streams |-> [(IF i = p THEN NoMedium ELSE media[i])
                        EXCEPT !.mic = IF i = s THEN "off" ELSE media[i].mic]]

Teardown(x) ==
  [FreshTab EXCEPT !.sees = x.sees, !.jobs = x.jobs, !.out = x.out,
                   !.timers = x.timers \ {x.ring},
                   !.media = Stopped(x.media, x.local, x.peer)]

(* media: getUserMedia answers with a new stream s. *)
Acquire(x, s) == [x EXCEPT !.local = s, !.media[s].mic = "on"]

(* connection: a peer connection is built for stream s. *)
Connection(x, s) == [x EXCEPT !.peer = s, !.media[s].pc = "new"]

(* The identifier of a new stream: one that nothing refers to. *)
Unused(x) ==
  {s \in Streams : /\ x.media[s] = NoMedium /\ s # x.local /\ s # x.peer
                   /\ \A k \in Jobs : x.jobs[k].stream # s}

(* A job may take a slot no invitation on its way will be answered to. *)
Slots(x) == {k \in Jobs : x.jobs[k] = Free /\ \A r \in x.out : r.kind = "invite" => r.job # k}
Spawn(x, j) == LET k == CHOOSE k \in Slots(x) : TRUE IN [x EXCEPT !.jobs[k] = j]
Return(x, k) == [x EXCEPT !.jobs[k] = Free]

-----------------------------------------------------------------------------
(* What a tab does on the events of the socket. *)

MutOnAck(x, k, c) ==
  IF x.jobs[k].at # "ack" THEN x
  ELSE [Return(Connection([x EXCEPT !.call = c], x.jobs[k].stream), k)
          EXCEPT !.phase = "calling", !.outgoing = TRUE, !.muted = FALSE]

OnAck(x, k, c) ==
  IF x.jobs[k].at # "ack" THEN x
  ELSE LET y == Connection([x EXCEPT !.call = c], x.jobs[k].stream)
       IN  [Return(y, k) EXCEPT !.phase = "calling", !.outgoing = TRUE, !.muted = FALSE,
                                !.ring = c, !.timers = @ \cup {c}]

OnRefused(x, k) == IF x.jobs[k].at # "ack" THEN x ELSE Teardown(Return(x, k))

OnIncoming(x, c) ==
  IF x.call # None THEN Send(x, {About("decline", c)})
  ELSE [x EXCEPT !.call = c, !.phase = "ringing", !.outgoing = FALSE, !.muted = FALSE]

(* The caller's offer: createOffer and setLocalDescription, whose awaits   *)
(* matter only if the tab is torn down meanwhile, and then the offer is of *)
(* no use to anybody; onicecandidate then reports a candidate, which may   *)
(* be handled first.                                                       *)
OnAccepted(x, c) ==
  LET y == [x EXCEPT !.phase = "active", !.ring = None, !.timers = @ \ {x.ring}] IN
  IF x.call # c THEN x
  ELSE IF ~x.here /\ ~x.sees THEN Teardown(x)
  ELSE IF ~x.sees \/ x.peer = None THEN y
  ELSE Send([y EXCEPT !.media[x.peer].pc = "offered"], {About("offer", c), About("ice", c)})

OnSdp(x, c, kind, from) ==
  IF x.call # c \/ x.peer = None THEN x
  ELSE Spawn(x, [Free EXCEPT !.at = "describe", !.call = c, !.stream = x.peer,
                             !.kind = kind, !.from = from])

MutOnIce(x, c, from) ==
  IF x.call # c \/ x.peer = None THEN x
  ELSE IF x.media[x.peer].remote = None THEN x
  ELSE [x EXCEPT !.media[x.peer].ice = @ \cup {from}]

OnIce(x, c, from) ==
  IF x.call # c THEN x
  ELSE IF x.peer = None THEN [x EXCEPT !.pending = @ \cup {from}]
  ELSE IF x.media[x.peer].remote = None THEN [x EXCEPT !.pending = @ \cup {from}]
  ELSE [x EXCEPT !.media[x.peer].ice = @ \cup {from}]

MutOnEnded(x, c) == IF x.call = c /\ x.phase # "ringing" THEN Teardown(x) ELSE x

OnEnded(x, c) == IF x.call = c THEN Teardown(x) ELSE x

-----------------------------------------------------------------------------
(* The server: the guards of call.service.ts, and who is told.             *)

Hears(t, us) == t \in up /\ UserOf[t] \in us
TabsOf(u) == {t \in Tabs : UserOf[t] = u}

(* Tab t's request r is handled. *)
Take(t, r) == t \in up /\ r \in tab[t].out /\ UNCHANGED <<up, gone, pages>>
Rest(t, r) == [tab EXCEPT ![t].out = @ \ {r}]

TellAccepted(tabs, c) ==
  tab' = [t \in Tabs |-> IF Hears(t, line[c]) THEN OnAccepted(tabs[t], c) ELSE tabs[t]]

(* A call that was released is settled before anybody is told: when the log *)
(* row or the system message cannot be written, nobody is (close throws,    *)
(* and quietly, or the disconnect handler, only logs it).                   *)
TellEnded(tabs, c) ==
  \E settled \in BOOLEAN :
    tab' = [t \in Tabs |-> IF settled /\ Hears(t, line[c])
                             THEN OnEnded(tabs[t], c) ELSE tabs[t]]

Engaged(u) == \E c \in Calls : Server!Engaged(c) /\ u \in line[c]
Party(c, u) == Server!Engaged(c) /\ u \in line[c]
CanRing(u, v) == u # v /\ ~Engaged(u) /\ ~Engaged(v) /\ TabsOf(v) \cap up # {}

(* call:incoming for the callee's tabs and the acknowledgement. *)
HandleInvite(t, k, v, c) ==
  LET rest == Rest(t, Invite(k, v)) IN
  /\ Take(t, Invite(k, v))
  /\ CanRing(UserOf[t], v)
  /\ Server!Ring(c, UserOf[t], v)
  /\ caller' = [caller EXCEPT ![c] = UserOf[t]]
  /\ tab' = [i \in Tabs |-> IF i = t THEN OnAck(rest[i], k, c)
                            ELSE IF Hears(i, {v}) THEN OnIncoming(rest[i], c)
                            ELSE rest[i]]

(* A refused invite: the callee is offline, somebody is busy, or the rate  *)
(* limiter says no, which may happen at any time.  The call:ended of its   *)
(* call means nothing to any tab.                                          *)
RefuseInvite(t, k, v) ==
  /\ Take(t, Invite(k, v))
  /\ tab' = [Rest(t, Invite(k, v)) EXCEPT ![t] = OnRefused(@, k)]
  /\ UNCHANGED serverVars

(* Answering an answered call announces it once more. *)
HandleAccept(t, c) ==
  LET rest == Rest(t, About("accept", c))
      callee == Party(c, UserOf[t]) /\ UserOf[t] # caller[c] IN
  /\ Take(t, About("accept", c))
  /\ UNCHANGED caller
  /\ \/ callee /\ phase[c] = "ringing" /\ Server!Answer(c) /\ TellAccepted(rest, c)
     \/ callee /\ phase[c] = "active" /\ UNCHANGED <<phase, line>> /\ TellAccepted(rest, c)
     \/ ~callee /\ UNCHANGED <<phase, line>> /\ tab' = rest

(* decline by the callee, hangUp by either. *)
HandleClose(t, c, kind) ==
  LET rest == Rest(t, About(kind, c))
      may == Party(c, UserOf[t]) /\ (kind = "decline" => UserOf[t] # caller[c]) IN
  /\ Take(t, About(kind, c))
  /\ UNCHANGED caller
  /\ \/ may /\ Server!End(c) /\ TellEnded(rest, c)
     \/ ~may /\ UNCHANGED <<phase, line>> /\ tab' = rest

(* call:sdp and call:ice: passed on to every tab of the other person.  Jobs *)
(* bounds the descriptions a tab is at work on.                             *)
Relay(t, c, kind) ==
  LET rest == Rest(t, About(kind, c)) IN
  /\ Take(t, About(kind, c))
  /\ kind # "ice" => \A i \in Tabs : Slots(rest[i]) # {}
  /\ UNCHANGED serverVars
  /\ tab' = [i \in Tabs |->
       IF Party(c, UserOf[t]) /\ Hears(i, line[c] \ {UserOf[t]})
         THEN IF kind = "ice" THEN OnIce(rest[i], c, t) ELSE OnSdp(rest[i], c, kind, t)
         ELSE rest[i]]

(* dropFor, once the last socket of u has closed. *)
Drop(u) ==
  /\ u \in gone
  /\ gone' = gone \ {u}
  /\ UNCHANGED <<caller, up, pages>>
  /\ \/ \E c \in Calls : Party(c, u) /\ Server!End(c) /\ TellEnded(tab, c)
     \/ ~Engaged(u) /\ UNCHANGED <<phase, line, tab>>

-----------------------------------------------------------------------------
(* What people do; the call layer offers a button only in its phase.       *)

Become(t, x) == tab' = [tab EXCEPT ![t] = x] /\ UNCHANGED <<serverVars, up, gone, pages>>

(* start, up to its first await. *)
Start(t, v) ==
  /\ tab[t].phase = "idle" /\ v # UserOf[t] /\ Slots(tab[t]) # {}
  /\ Become(t, Spawn(tab[t], [Free EXCEPT !.at = "startMedia", !.to = v]))

(* accept, up to its first await. *)
Accept(t) ==
  /\ tab[t].phase = "ringing" /\ Slots(tab[t]) # {}
  /\ Become(t, Spawn(tab[t], [Free EXCEPT !.at = "acceptMedia", !.call = tab[t].call]))

Decline(t) ==
  /\ tab[t].phase = "ringing"
  /\ Become(t, Teardown(Send(tab[t], {About("decline", tab[t].call)})))

HangUp(t) ==
  /\ tab[t].phase \in {"calling", "active"}
  /\ Become(t, Teardown(Send(tab[t], {About("hangup", tab[t].call)})))

(* toggleMute, and toggleCamera likewise. *)
ToggleMute(t) ==
  LET s == tab[t].local
      mute == tab[t].media[s].mic = "on" IN
  /\ tab[t].phase \in {"calling", "active"} /\ s # None
  /\ Become(t, [tab[t] EXCEPT !.muted = mute,
                              !.media[s].mic = IF mute THEN "muted" ELSE "on"])

-----------------------------------------------------------------------------
(* The jobs, resumed: x is the tab as it is now, not as it was. *)

At(t, k, await) == tab[t].jobs[k].at = await

StartMedia(t, k) ==
  LET x == tab[t] IN
  /\ At(t, k, "startMedia")
  /\ \E s \in Unused(x) :
       Become(t, Send([Acquire(x, s) EXCEPT !.jobs[k].at = "ack", !.jobs[k].stream = s],
                      {Invite(k, x.jobs[k].to)}))

(* The microphone is refused, or ackPromise gives up after ten seconds:    *)
(* the catch of start.  A later acknowledgement is ignored.                *)
StartFails(t, k) ==
  /\ At(t, k, "startMedia") \/ At(t, k, "ack")
  /\ Become(t, Teardown(Return(tab[t], k)))

(* accept goes on with the call it was clicked for. *)
AcceptMedia(t, k) ==
  LET x == tab[t] IN
  /\ At(t, k, "acceptMedia")
  /\ \E s \in Unused(x) :
       Become(t, Send([Return(Connection(Acquire(x, s), s), k) EXCEPT !.here = TRUE],
                      {About("accept", x.jobs[k].call)}))

AcceptFails(t, k) ==
  /\ At(t, k, "acceptMedia")
  /\ Become(t, Teardown(Send(Return(tab[t], k), {About("decline", tab[t].jobs[k].call)})))

(* setRemoteDescription; an answer nobody waits for throws. *)
Described(x, s, j) ==
  [x EXCEPT !.media[s].remote = j.from, !.media[s].pc = "stable"]

(* flushIce: to the connection the tab has now. *)
Flushed(x) ==
  IF x.peer = None THEN x
  ELSE [x EXCEPT !.pending = {},
                 !.media[x.peer].ice = IF x.media[x.peer].remote = None THEN @
                                       ELSE @ \cup x.pending]

(* createAnswer and setLocalDescription. *)
Answered(x, s, c) ==
  Send([x EXCEPT !.media[s].pc = "stable"], {About("answer", c), About("ice", c)})

(* The awaits of onSdp after the first matter only if the tab is torn down *)
(* meanwhile, which is like being torn down before.                        *)
Describe(t, k) ==
  LET x == tab[t]
      j == x.jobs[k]
      pc == x.media[j.stream].pc
      y == Flushed(Described(x, j.stream, j)) IN
  /\ At(t, k, "describe")
  /\ Become(t, Return(IF pc = "none" \/ (j.kind = "answer" /\ pc # "offered") THEN x
                      ELSE IF j.kind = "answer" THEN y
                      ELSE Answered(y, j.stream, j.call), k))

(* The effect runs again: the handlers now see this state.outgoing. *)
Rerender(t) ==
  /\ tab[t].sees # tab[t].outgoing
  /\ Become(t, [tab[t] EXCEPT !.sees = tab[t].outgoing])

(* The ring time-out; the reference to it stays. *)
TimerFires(t, c) ==
  /\ c \in tab[t].timers
  /\ Become(t, Send([tab[t] EXCEPT !.timers = @ \ {c}], {About("hangup", c)}))

-----------------------------------------------------------------------------
(* The connection. *)

(* The socket of t closes: what was on its way is lost, and the server     *)
(* notices a user's last socket.                                           *)
Hangs(t, x) ==
  /\ t \in up
  /\ up' = up \ {t}
  /\ gone' = IF TabsOf(UserOf[t]) \cap up = {t} THEN gone \cup {UserOf[t]} ELSE gone
  /\ tab' = [tab EXCEPT ![t] = x]
  /\ UNCHANGED serverVars

Silenced(t) == Hangs(t, [tab[t] EXCEPT !.out = {}])
Disconnect(t) == Silenced(t) /\ UNCHANGED pages

(* The page is closed or reloaded: nothing of the tab is left. *)
Leave(t) == Hangs(t, FreshTab) /\ left' = left \ {t} /\ UNCHANGED mounted

(* The session query says that nobody is signed in: RequireSession unmounts *)
(* the providers.  The socket closes for good and no event is heard any     *)
(* more; nothing stops the stream or closes the connection, and what the    *)
(* tab waits for still comes.                                               *)
Unmount(t) ==
  /\ t \in mounted
  /\ mounted' = mounted \ {t}
  /\ Silenced(t) \/ (t \notin up /\ UNCHANGED <<serverVars, up, gone, tab>>)
  /\ UNCHANGED left

(* Somebody signs in, once the jobs of the old application are done: a new  *)
(* one is shown, with refs of its own.                                      *)
Mount(t) ==
  /\ t \notin mounted
  /\ \A k \in Jobs : ~Asking(tab[t].jobs[k])
  /\ mounted' = mounted \cup {t}
  /\ left' = IF tab[t].media = Silence THEN left ELSE left \cup {t}
  /\ tab' = [tab EXCEPT ![t] = FreshTab]
  /\ UNCHANGED <<serverVars, up, gone>>

(* What was emitted while disconnected is sent now. *)
Connect(t) ==
  /\ t \in mounted \ up
  /\ up' = up \cup {t}
  /\ UNCHANGED <<serverVars, gone, pages, tab>>

-----------------------------------------------------------------------------
HandleRequest(t) ==
  \/ \E k \in Jobs, v \in Users :
       RefuseInvite(t, k, v) \/ \E c \in Calls : HandleInvite(t, k, v, c)
  \/ \E c \in Calls :
       \/ HandleAccept(t, c)
       \/ \E kind \in {"decline", "hangup"} : HandleClose(t, c, kind)
       \/ \E kind \in {"offer", "answer", "ice"} : Relay(t, c, kind)

Click(t) ==
  /\ t \in mounted
  /\ \/ Accept(t) \/ Decline(t) \/ HangUp(t) \/ ToggleMute(t)
     \/ \E v \in Users : Start(t, v)

Run(t) ==
  \/ Rerender(t)
  \/ \E c \in Calls : TimerFires(t, c)
  \/ \E k \in Jobs : StartMedia(t, k) \/ AcceptMedia(t, k) \/ Describe(t, k)

Fail(t) ==
  \/ Disconnect(t) \/ Leave(t) \/ Unmount(t)
  \/ \E k \in Jobs : StartFails(t, k) \/ AcceptFails(t, k)

Step ==
  \/ \E t \in Tabs : \/ HandleRequest(t) \/ Click(t) \/ Run(t) \/ Fail(t)
                      \/ Connect(t) \/ Mount(t)
  \/ \E u \in Users : Drop(u)

(* What the code does not guard against, recorded in trouble.              *)

(* A tab is asked for two things at once: a second start or accept while   *)
(* one is in flight; a start in flight and a call shown; an accept in      *)
(* flight for a call that is gone, or one that was answered already.       *)
Tangled(x) ==
  \/ \E k, l \in Jobs : k # l /\ Asking(x.jobs[k]) /\ Asking(x.jobs[l])
  \/ \E k \in Jobs : LET j == x.jobs[k] IN
       \/ j.at \in {"startMedia", "ack"} /\ x.call # None
       \/ j.at = "acceptMedia" /\ (x.call # j.call \/ x.here)

(* The tab answers a call another tab of its user is answering. *)
AnsweredTwice(t) ==
  \E i \in Tabs : /\ i # t /\ UserOf[i] = UserOf[t] /\ tab[t].here /\ tab[i].here
                  /\ tab[i].call = tab[t].call

(* A start gives up while its invitation may be under way. *)
GivesUp(t) ==
  \E k \in Jobs : /\ tab[t].jobs[k].at = "ack" /\ tab'[t].jobs[k] = Free
                 /\ tab'[t].call = None /\ tab'[t].out = tab[t].out

(* A call is answered while the handlers registered in t do not know yet   *)
(* whether it is the tab's own: React has not run the effect again.        *)
Stale(t) == /\ tab[t].call # None /\ tab[t].sees # tab[t].outgoing
            /\ phase'[tab[t].call] = "active"

(* The call the tab shows ends and could not be settled: no tab is told.    *)
Untold(t) ==
  /\ \E c \in Calls : /\ phase[c] # "over" /\ phase'[c] = "over"
                     /\ tab[t].call = c /\ Hears(t, line[c])
  /\ \A i \in Tabs : tab'[i] = [tab[i] EXCEPT !.out = tab'[i].out]

(* The application is unmounted in a call it placed or answered, or is      *)
(* answering.                                                               *)
Stranded(t) ==
  /\ t \in mounted \ mounted'
  /\ \/ tab[t].call # None /\ tab[t].local # None
     \/ \E k \in Jobs : tab[t].jobs[k].at = "acceptMedia"

Record ==
  trouble' = [t \in Tabs |-> trouble[t]
    \cup {w \in Troubles :
          \/ w = "tangled" /\ Tangled(tab'[t])
          \/ w = "twice" /\ AnsweredTwice(t)
          \/ w = "gaveUp" /\ GivesUp(t)
          \/ w = "stale" /\ Stale(t)
          \/ w = "cut" /\ t \in up \ up'
          \/ w = "untold" /\ Untold(t)
          \/ w = "stranded" /\ Stranded(t)}]

-----------------------------------------------------------------------------
(* Properties. *)

(* Nothing is under way, in the network or in a tab. *)
Quiet ==
  /\ gone = {}
  /\ \A t \in Tabs : /\ t \in up => tab[t].out = {}
                     /\ tab[t].sees = tab[t].outgoing
                     /\ \A k \in Jobs : tab[t].jobs[k] = Free

(* No tab of the people of call c has met anything of trouble. *)
Untroubled(c) == \A t \in Tabs : UserOf[t] \in line[c] => trouble[t] = {}

(* The microphone and the camera are released when a call ends, whatever   *)
(* ends it and whatever the tab was waiting for: a tab that shows no call   *)
(* and is not asking for one has no live track and no open peer connection, *)
(* nor has it left any behind at a sign-out, unless it was signed out in a  *)
(* call, when nothing releases them.  Whatever replaced the stream since,   *)
(* who is shown as muted is not heard.                                      *)
MicrophoneFollowsTheCall ==
  \A t \in Tabs : trouble[t] \cap {"tangled", "stranded"} = {} =>
    /\ (t \notin mounted \/ tab[t].call = None)
         /\ (\A k \in Jobs : ~Asking(tab[t].jobs[k]))
         => tab[t].media = Silence
    /\ t \notin left
    /\ tab[t].muted => \A s \in Streams : tab[t].media[s].mic # "on"

(* Once everything on its way has arrived, a tab shows a call only if the   *)
(* server has that call, ringing or active, and the tab's user is in it:    *)
(* unless it was disconnected, or the call could not be settled and nobody  *)
(* was told, for a tab never asks.                                          *)
ShownCallIsReal ==
  Quiet => \A t \in Tabs :
             tab[t].call # None /\ trouble[t] \cap {"cut", "untold"} = {}
               => Party(tab[t].call, UserOf[t])

(* A call that rings on the server rings in a tab of the callee, and a tab *)
(* of the caller will hang up after the ring time: the server has no time- *)
(* out of its own, so a ring nobody times would keep both people busy.     *)
RingingIsHeard ==
  Quiet => \A c \in Calls : phase[c] = "ringing" /\ Untroubled(c) =>
    /\ \E t \in up : UserOf[t] # caller[c] /\ tab[t].call = c /\ tab[t].phase = "ringing"
    /\ \E t \in up : UserOf[t] = caller[c] /\ tab[t].call = c /\ c \in tab[t].timers

(* An answered call connects exactly one tab of each person: each has set  *)
(* the other's description, has its candidate and a live stream, and every *)
(* other tab has let go of the call.                                       *)
BothSidesTalk ==
  Quiet => \A c \in Calls : phase[c] = "active" /\ Untroubled(c) =>
    \E t, i \in Tabs :
      /\ UserOf[t] # UserOf[i]
      /\ {j \in Tabs : tab[j].call = c} = {t, i}
      /\ \A x \in {tab[t], tab[i]} :
           /\ x.phase = "active" /\ x.timers = {} /\ x.pending = {}
           /\ x.peer # None /\ x.peer = x.local /\ x.media[x.peer].mic # "off"
      /\ tab[t].media[tab[t].peer].remote = i /\ tab[t].media[tab[t].peer].ice = {i}
      /\ tab[i].media[tab[i].peer].remote = t /\ tab[i].media[tab[i].peer].ice = {t}

-----------------------------------------------------------------------------
Next == Step /\ Record

Spec == Init /\ [][Next]_vars
=============================================================================
