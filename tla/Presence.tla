------------------------------ MODULE Presence ------------------------------
(***************************************************************************)
(* Who is shown online: realtime/presence.ts (the set of a user's socket   *)
(* ids in Redis), and welcome, the disconnect handler and the sweep of     *)
(* realtime/server.ts, for one person.  A watcher has a socket of its own   *)
(* and keeps what it was last told (features/presence/queries.ts); nothing *)
(* clears that when it reconnects.  The two are in a conversation, from    *)
(* the start or once it has been made (conversationCreated or membersAdded *)
(* of realtime/bridge.ts).                                                 *)
(*                                                                         *)
(* Time passes in sweep periods (presenceSweepMs): between two ticks every *)
(* instance sweeps, and the key outlives an EXPIRE by less than TTL ticks  *)
(* (presenceTtlSeconds).  Every MULTI is one step.                         *)
(***************************************************************************)
EXTENDS Naturals

CONSTANTS
  Sockets,     \* the person's connections; a reconnection is a new socket
  Instances,   \* API instances
  InstanceOf,  \* InstanceOf[s]: the instance s is connected to
  TTL          \* presenceTtlSeconds, in sweep periods

ASSUME InstanceAssumption == InstanceOf \in [Sockets -> Instances]
ASSUME TTLAssumption == TTL \in Nat /\ TTL >= 2

VARIABLES
  present,  \* Redis presence:<user>; the key is gone when it is empty
  age,      \* sweep periods since the last EXPIRE of the key
  swept,    \* the instances that swept since the last tick
  conn,     \* the sockets whose connection is alive
  pc,       \* pc[s]: the next step of the setup or the disconnect handler
  first,    \* the sockets presence.online called the first connection, not yet announced
  watcher,  \* the watcher's socket: "off", "joined", "seen" or "up"
  sighted,  \* "joined": is the person a peer it asks for?  Then: was it found online?
  hears,    \* is the watcher's socket in the conversation's room?
  view,     \* what the watcher's client shows of the person
  met,      \* the conversation: "apart", "stored", "joined", "looked", "together"
  found,    \* did announceOnline find the person?
  rooms,    \* the person's sockets whose handlers looked the conversation up
  inRoom,   \* the person's sockets in its room (socket.rooms)
  mishaps   \* history: what may have made the view wrong (see Properties)

redisVars == <<present, age>>
watchVars == <<watcher, sighted, hears, view>>
roomVars == <<met, found, inRoom>>
vars == <<redisVars, swept, conn, pc, first, watchVars, roomVars, rooms, mishaps>>

Setup == {"greet", "settle", "survey"}
Leaving == {"leave", "clear", "part"}
Mishaps == {"crossing", "earlySweep", "redis", "ghost", "crash", "away",
            "staleSighting", "stranger"}

TypeOK ==
  /\ present \subseteq Sockets
  /\ age \in 0 .. TTL - 1
  /\ swept \subseteq Instances
  /\ conn \subseteq {s \in Sockets : pc[s] \in Setup \cup {"up"}}
  /\ pc \in [Sockets -> {"new", "up", "gone"} \cup Setup \cup Leaving]
  /\ first \subseteq Sockets
  /\ watcher \in {"off", "joined", "seen", "up"}
  /\ sighted \in BOOLEAN /\ hears \in BOOLEAN /\ found \in BOOLEAN
  /\ met \in {"apart", "stored", "joined", "looked", "together"}
  /\ rooms \subseteq Sockets /\ inRoom \subseteq Sockets
  /\ view \in {"online", "offline"}
  /\ mishaps \subseteq Mishaps

Init ==
  /\ present = {}
  /\ age = 0
  /\ swept = {}
  /\ conn = {}
  /\ pc = [s \in Sockets |-> "new"]
  /\ first = {}
  /\ watcher = "off"
  /\ sighted = FALSE /\ hears = FALSE /\ found = FALSE
  /\ view = "offline"
  /\ met \in {"apart", "together"}
  /\ rooms = {} /\ inRoom = {}
  /\ mishaps = {}

At(s, step) == pc[s] = step
(* A handler that has ended holds no rooms. *)
Goto(s, step) ==
  /\ pc' = [pc EXCEPT ![s] = step]
  /\ rooms' = IF step = "gone" THEN rooms \ {s} ELSE rooms
Stay == UNCHANGED <<pc, rooms>>

Lose(ss) == conn' = conn \ ss /\ inRoom' = inRoom \ ss

(* presence:update to the conversation's room.                              *)
Tell(status) == view' = IF hears THEN status ELSE view

Blame(reason, when) ==
  mishaps' = IF when THEN mishaps \cup {reason} ELSE mishaps

-----------------------------------------------------------------------------
(* welcome. *)

Connect(s) ==
  /\ At(s, "new")
  /\ Goto(s, "greet")
  /\ conn' = conn \cup {s}
  /\ UNCHANGED <<redisVars, swept, first, watchVars, roomVars, mishaps>>

(* presence.online: SADD, EXPIRE, SCARD.  A dead connection is added too.   *)
Online(s) ==
  /\ At(s, "greet")
  /\ Goto(s, "settle")
  /\ present' = present \cup {s}
  /\ age' = 0
  /\ first' = IF present \subseteq {s} THEN first \cup {s} ELSE first
  /\ Blame("crossing", \E q \in Sockets : pc[q] \in {"clear", "part"})
  /\ UNCHANGED <<swept, conn, watchVars, roomVars>>

(* ... or Redis fails and it is reported as not the first.                  *)
OnlineFails(s) ==
  /\ At(s, "greet")
  /\ Goto(s, "settle")
  /\ Blame("redis", TRUE)
  /\ UNCHANGED <<redisVars, swept, conn, first, watchVars, roomVars>>

(* The memberships are read, the rooms joined, a first connection announced. *)
Settle(s) ==
  LET knows == met # "apart" IN
  /\ At(s, "settle")
  /\ pc' = [pc EXCEPT ![s] = "survey"]
  /\ rooms' = IF knows THEN rooms \cup {s} ELSE rooms
  /\ inRoom' = IF knows /\ s \in conn THEN inRoom \cup {s} ELSE inRoom
  /\ IF knows /\ s \in first THEN Tell("online") ELSE UNCHANGED view
  /\ first' = first \ {s}
  /\ UNCHANGED <<redisVars, swept, conn, watcher, sighted, hears, met, found, mishaps>>

(* The peers were reported; only now the disconnect handler is registered,  *)
(* so a connection lost before is never taken out of the set.               *)
Ready(s) ==
  /\ At(s, "survey")
  /\ Goto(s, IF s \in conn THEN "up" ELSE "gone")
  /\ UNCHANGED <<redisVars, swept, conn, first, watchVars, roomVars, mishaps>>

(* MySQL fails: the socket is disconnected, without presence.offline.       *)
SetupFails(s) ==
  /\ pc[s] \in {"settle", "survey"}
  /\ Goto(s, "gone")
  /\ Lose({s})
  /\ Blame("crash", TRUE)
  /\ UNCHANGED <<redisVars, swept, first, watchVars, met, found>>

-----------------------------------------------------------------------------
(* The connection is lost; the disconnect handler, if there is one.         *)

Drop(s) ==
  /\ s \in conn
  /\ Lose({s})
  /\ IF At(s, "up") THEN Goto(s, "leave") /\ UNCHANGED mishaps
                    ELSE Stay /\ Blame("ghost", TRUE)
  /\ UNCHANGED <<redisVars, swept, first, watchVars, met, found>>

(* presence.offline: SREM, SCARD.                                          *)
MutOffline(s) ==
  /\ At(s, "leave")
  /\ present' = present \ {s}
  /\ Goto(s, "clear")
  /\ UNCHANGED <<age, swept, conn, first, watchVars, roomVars, mishaps>>
Offline(s) ==
  /\ At(s, "leave")
  /\ present' = present \ {s}
  /\ Goto(s, IF present \subseteq {s} THEN "clear" ELSE "gone")
  /\ UNCHANGED <<age, swept, conn, first, watchVars, roomVars, mishaps>>

(* Redis fails at either command, and nothing is announced. *)
OfflineFails(s) ==
  /\ pc[s] \in {"leave", "clear"}
  /\ Goto(s, "gone")
  /\ Blame("redis", TRUE)
  /\ UNCHANGED <<redisVars, swept, conn, first, watchVars, roomVars>>

(* The set was empty: DEL, in a command of its own. *)
Clear(s) ==
  /\ At(s, "clear")
  /\ present' = {}
  /\ Goto(s, "part")
  /\ UNCHANGED <<age, swept, conn, first, watchVars, roomVars, mishaps>>

(* After the call was dropped and last_seen_at written (see Calls).  It is  *)
(* announced to the rooms looked up as the connection was made.             *)
MutPart(s) ==
  /\ At(s, "part")
  /\ Goto(s, "gone")
  /\ UNCHANGED <<redisVars, swept, conn, first, watchVars, roomVars, mishaps>>
Part(s) ==
  /\ At(s, "part")
  /\ Goto(s, "gone")
  /\ IF s \in rooms THEN Tell("offline") ELSE UNCHANGED view
  /\ mishaps' = mishaps \cup
       {b \in {"away", "staleSighting", "stranger"} :
          /\ met # "apart"
          /\ \/ b = "away" /\ ~hears
             \/ b = "staleSighting" /\ (watcher = "seen" \/ met = "looked")
             \/ b = "stranger" /\ s \notin rooms}
  /\ UNCHANGED <<redisVars, swept, conn, first, watcher, sighted, hears, roomVars>>

-----------------------------------------------------------------------------
(* The sweep of one instance, and time. *)

Local(i) == {s \in conn : InstanceOf[s] = i}

(* refresh: MULTI of an SADD and an EXPIRE for each local socket.            *)
Restored(i) == Local(i) \ present

(* Whoever was missing from the set is announced, to the rooms of the user's *)
(* first local socket in the order of the server's table.                   *)
MutSweep(i) ==
  /\ i \notin swept
  /\ swept' = swept \cup {i}
  /\ age' = 0
  /\ UNCHANGED <<present, conn, pc, first, watchVars, roomVars, rooms, mishaps>>
Sweep(i) ==
  LET restored == Restored(i) IN
  /\ i \notin swept
  /\ swept' = swept \cup {i}
  /\ present' = present \cup Local(i)
  /\ age' = IF Local(i) = {} THEN age ELSE 0
  /\ IF restored = {} THEN UNCHANGED view
     ELSE \E s \in Local(i) :
            IF s \in inRoom THEN Tell("online") ELSE UNCHANGED view
  /\ Blame("earlySweep", \E s \in restored : At(s, "greet"))
  /\ UNCHANGED <<conn, pc, first, watcher, sighted, hears, roomVars, rooms>>

(* Redis fails: refresh reports nobody. *)
SweepFails(i) ==
  /\ i \notin swept
  /\ swept' = swept \cup {i}
  /\ Blame("redis", TRUE)
  /\ UNCHANGED <<redisVars, conn, pc, first, watchVars, roomVars, rooms>>

Tick ==
  /\ swept = Instances
  /\ swept' = {}
  /\ IF age + 1 = TTL THEN present' = {} /\ age' = 0
     ELSE UNCHANGED present /\ age' = IF present = {} THEN 0 ELSE age + 1
  /\ UNCHANGED <<conn, pc, first, watchVars, roomVars, rooms, mishaps>>

(* An instance dies and another takes its place: connections and handlers   *)
(* are gone, the set is as it was.                                          *)
Crash(i) ==
  LET dead == {s \in Sockets : InstanceOf[s] = i /\ pc[s] # "new"} IN
  /\ pc' = [s \in Sockets |-> IF s \in dead THEN "gone" ELSE pc[s]]
  /\ rooms' = rooms \ dead
  /\ Lose(dead)
  /\ Blame("crash", \E s \in dead : pc[s] # "gone")
  /\ UNCHANGED <<redisVars, swept, first, watchVars, met, found>>

(* Redis restarts without its data. *)
Flush ==
  /\ present # {}
  /\ present' = {}
  /\ Blame("redis", TRUE)
  /\ UNCHANGED <<age, swept, conn, pc, first, watchVars, roomVars, rooms>>

-----------------------------------------------------------------------------
(* The watcher's own setup: rooms joined, onlineAmong, and only online       *)
(* people are reported.                                                      *)

WatchJoin ==
  /\ watcher = "off"
  /\ watcher' = "joined"
  /\ hears' = (met # "apart")
  /\ sighted' = (met # "apart")
  /\ UNCHANGED <<redisVars, swept, conn, pc, first, view, roomVars, rooms, mishaps>>

WatchRead ==
  /\ watcher = "joined"
  /\ watcher' = "seen"
  /\ sighted' = (sighted /\ present # {})
  /\ UNCHANGED <<redisVars, swept, conn, pc, first, hears, view, roomVars, rooms, mishaps>>

WatchReadFails ==
  /\ watcher = "joined"
  /\ watcher' = "seen"
  /\ sighted' = FALSE
  /\ Blame("redis", TRUE)
  /\ UNCHANGED <<redisVars, swept, conn, pc, first, hears, view, roomVars, rooms>>

WatchShow ==
  /\ watcher = "seen"
  /\ watcher' = "up"
  /\ view' = IF sighted THEN "online" ELSE view
  /\ sighted' = FALSE
  /\ UNCHANGED <<redisVars, swept, conn, pc, first, hears, roomVars, rooms, mishaps>>

WatchDrop ==
  /\ watcher # "off"
  /\ watcher' = "off"
  /\ hears' = FALSE
  /\ sighted' = FALSE
  /\ UNCHANGED <<redisVars, swept, conn, pc, first, view, roomVars, rooms, mishaps>>

-----------------------------------------------------------------------------
(* The conversation is made: stored; the sockets of both join its room and   *)
(* it is announced; who of them is online is looked up, then announced.      *)

Meet ==
  /\ met = "apart"
  /\ met' = "stored"
  /\ UNCHANGED <<redisVars, swept, conn, pc, first, watchVars, found, rooms, inRoom, mishaps>>

Introduce ==
  /\ met = "stored"
  /\ met' = "joined"
  /\ inRoom' = inRoom \cup conn
  /\ hears' = (watcher # "off")
  /\ UNCHANGED <<redisVars, swept, conn, pc, first, watcher, sighted, view, found, rooms,
                 mishaps>>

(* announceOnline. *)
LookUp ==
  /\ met = "joined"
  /\ met' = "looked"
  /\ found' = (present # {})
  /\ UNCHANGED <<redisVars, swept, conn, pc, first, watchVars, rooms, inRoom, mishaps>>

LookUpFails ==
  /\ met = "joined"
  /\ met' = "looked"
  /\ Blame("redis", TRUE)
  /\ UNCHANGED <<redisVars, swept, conn, pc, first, watchVars, found, rooms, inRoom>>

AnnounceOnline ==
  /\ met = "looked"
  /\ met' = "together"
  /\ IF found THEN Tell("online") ELSE UNCHANGED view
  /\ found' = FALSE
  /\ UNCHANGED <<redisVars, swept, conn, pc, first, watcher, sighted, hears, rooms, inRoom,
                 mishaps>>

(* The instance that made it dies: nobody is put in the room any more.      *)
Unannounced ==
  /\ met \in {"stored", "joined", "looked"}
  /\ met' = "together"
  /\ found' = FALSE
  /\ Blame("crash", TRUE)
  /\ UNCHANGED <<redisVars, swept, conn, pc, first, watchVars, rooms, inRoom>>

-----------------------------------------------------------------------------
Handler(s) ==
  \/ Online(s) \/ Settle(s) \/ Ready(s)
  \/ Offline(s) \/ Clear(s) \/ Part(s)

Fault ==
  \/ \E s \in Sockets : OnlineFails(s) \/ SetupFails(s) \/ OfflineFails(s)
  \/ \E i \in Instances : SweepFails(i) \/ Crash(i)
  \/ Flush \/ WatchReadFails \/ LookUpFails \/ Unannounced

Watch == WatchJoin \/ WatchRead \/ WatchShow \/ WatchDrop
Acquaint == Meet \/ Introduce \/ LookUp \/ AnnounceOnline

Next ==
  \/ \E s \in Sockets : Connect(s) \/ Drop(s) \/ Handler(s)
  \/ \E i \in Instances : Sweep(i)
  \/ Tick
  \/ Watch
  \/ Acquaint
  \/ Fault

Spec == Init /\ [][Next]_vars

(* Handlers go on, the interval timer of every instance fires, time passes. *)
FairSpec ==
  /\ Spec
  /\ \A s \in Sockets : WF_vars(Handler(s))
  /\ \A i \in Instances : WF_vars(Sweep(i))
  /\ WF_vars(Tick)
  /\ WF_vars(Introduce \/ LookUp \/ AnnounceOnline)

-----------------------------------------------------------------------------
(* Properties. *)

(* The key only expires when every connection it names is gone: unless      *)
(* Redis failed, no sweep lets a live one's entry lapse, however setups and *)
(* sweeps interleave.                                                       *)
ExpirySparesConnected ==
  [][Tick /\ present # {} /\ present' = {} /\ "redis" \notin mishaps
       => present \cap conn = {}]_vars

(* A connection that stays is counted from some moment on, even if Redis    *)
(* lost the set or a late DEL removed it.                                   *)
StayingIsCounted ==
  \A s \in Sockets : <>[](s \in conn) => <>[](s \in present)

(* The ids of dead connections do not keep somebody online for ever.        *)
GhostsExpire == <>[](conn = {}) => <>[](present = {})

(* The two are in a conversation and nothing is on its way. *)
Quiet ==
  /\ watcher = "up" /\ met = "together"
  /\ \A s \in Sockets : pc[s] \in {"new", "up", "gone"}

(* Somebody shown offline has no connection, unless a connection arrived    *)
(* while the last one was leaving, a sweep counted a connection before its  *)
(* own setup did, a setup failed before it announced its connection, or     *)
(* Redis failed.                                                            *)
OfflineIsTrue ==
  Quiet /\ view = "offline" =>
    \/ conn = {}
    \/ mishaps \cap {"crossing", "earlySweep", "crash", "redis"} # {}

(* Somebody shown online has a connection, unless one was lost during its   *)
(* setup or in a crash, Redis failed, or, as the last one left, the watcher *)
(* was away or just being told, or the connection did not know of the       *)
(* conversation, which was made after it.                                   *)
OnlineIsTrue ==
  Quiet /\ view = "online" =>
    \/ conn # {}
    \/ mishaps \cap {"ghost", "crash", "redis", "away", "staleSighting", "stranger"} # {}
=============================================================================
