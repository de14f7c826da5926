------------------------------- MODULE Typing -------------------------------
(***************************************************************************)
(* Typing indicators of one conversation: useTypingSignal in the sender's  *)
(* browser, realtime/handlers/typing.ts behind the rate limiter, the       *)
(* sorted set of realtime/typing.ts, and features/typing/queries.ts in the *)
(* browsers that show them.                                                *)
(*                                                                         *)
(* Browser timers fire when they are due, and an instance emits what it    *)
(* read from Redis within Delay.  The signals of one instance reach Redis, *)
(* and its updates the sockets, in order, for they share a connection;     *)
(* those of two instances may cross.  All read the same time here (Skew is *)
(* the limiter's concern).                                                 *)
(***************************************************************************)
EXTENDS RateLimiter, Sequences, SequencesExt

CONSTANTS
  Users, Sockets,
  UserOf,      \* UserOf[s]: who is signed in at s
  InstanceOf,  \* InstanceOf[s]: the instance s is connected to
  Ttl,         \* typingTtlSeconds, in the set and in the browsers
  Throttle,    \* typingThrottleMs
  Debounce,    \* typingDebounceMs
  Idle,        \* IDLE_MS
  Delay

ASSUME PlaceAssumption ==
  /\ UserOf \in [Sockets -> Users] /\ InstanceOf \in [Sockets -> Instances]
  /\ Users \subseteq Keys
ASSUME TimingAssumption ==
  /\ {Ttl, Throttle, Debounce, Idle, Delay} \subseteq Nat
  /\ Throttle + Idle <= Ttl /\ Debounce < Idle

VARIABLES
  emittedAt,  \* emittedAt[s]: when s last emitted typing:start, None after stop
  debounce,   \* debounce[s]: when the first typing:start is due, or None
  idle,       \* idle[s]: when the idle timer is due, or None
  wire,       \* wire[s]: signals on their way from s
  storing,    \* sockets with a message:send on its way
  typing,     \* typing[u]: u's score in the sorted set, or None
  out,        \* out[i]: updates instance i is about to emit
  link,       \* sockets that are connected and in the room
  shown,      \* shown[s][u]: when the timer of u at s is due; None: not shown
  started,    \* history: started[u], when a start of u was last handled
  doubt       \* history: doubt[s], who s may fail to show (Properties)

browser == <<emittedAt, debounce, idle>>
server == <<typing, out, storing>>
typingVars == <<now, bucket, browser, wire, server, link, shown, started, doubt>>

Updates == [users : SUBSET Users, at : Nat]

TypingTypeOK ==
  /\ now \in Nat
  /\ emittedAt \in [Sockets -> Nat \cup {None}]
  /\ debounce \in [Sockets -> Nat \cup {None}]
  /\ idle \in [Sockets -> Nat \cup {None}]
  /\ wire \in [Sockets -> Seq({"start", "stop"})]
  /\ storing \subseteq Sockets /\ link \subseteq Sockets
  /\ typing \in [Users -> Nat \cup {None}]
  /\ out \in [Instances -> Seq(Updates)]
  /\ shown \in [Sockets -> [Users -> Nat \cup {None}]]
  /\ started \in [Users -> Nat \cup {None}]
  /\ doubt \in [Sockets -> SUBSET Users]

TypingInit ==
  /\ now = 0 /\ bucket = [k \in Keys |-> None]
  /\ emittedAt = [s \in Sockets |-> None]
  /\ debounce = [s \in Sockets |-> None]
  /\ idle = [s \in Sockets |-> None]
  /\ wire = [s \in Sockets |-> <<>>]
  /\ storing = {}
  /\ typing = [u \in Users |-> None]
  /\ out = [i \in Instances |-> <<>>]
  /\ link \in SUBSET Sockets
  /\ shown = [s \in Sockets |-> [u \in Users |-> None]]
  /\ started = [u \in Users |-> None]
  /\ doubt = [s \in Sockets |-> {}]

-----------------------------------------------------------------------------
(* The sender's browser (useTypingSignal). *)

Signal(s, kind) == wire' = [wire EXCEPT ![s] = Append(@, kind)]

Emit(s) ==
  /\ emittedAt' = [emittedAt EXCEPT ![s] = now]
  /\ Signal(s, "start")

MutInput(s) ==
  /\ idle' = [idle EXCEPT ![s] = now + Idle]
  /\ IF emittedAt[s] = None
     THEN /\ debounce' = [debounce EXCEPT ![s] = IF @ = None THEN now + Debounce ELSE @]
          /\ UNCHANGED <<emittedAt, wire>>
     ELSE UNCHANGED <<emittedAt, wire, debounce>>
  /\ UNCHANGED <<now, bucket, server, link, shown, started, doubt>>
(* A key is pressed. *)
Input(s) ==
  /\ idle' = [idle EXCEPT ![s] = now + Idle]
  /\ IF emittedAt[s] = None
     THEN /\ debounce' = [debounce EXCEPT ![s] = IF @ = None THEN now + Debounce ELSE @]
          /\ UNCHANGED <<emittedAt, wire>>
     ELSE /\ IF now - emittedAt[s] >= Throttle THEN Emit(s) ELSE UNCHANGED <<emittedAt, wire>>
          /\ UNCHANGED debounce
  /\ UNCHANGED <<now, bucket, server, link, shown, started, doubt>>

Due(timer) == timer # None /\ timer <= now

Debounced(s) ==
  /\ Due(debounce[s])
  /\ debounce' = [debounce EXCEPT ![s] = None]
  /\ Emit(s)
  /\ UNCHANGED <<now, bucket, idle, server, link, shown, started, doubt>>

Stop(s) ==
  /\ debounce' = [debounce EXCEPT ![s] = None]
  /\ idle' = [idle EXCEPT ![s] = None]
  /\ IF emittedAt[s] = None THEN UNCHANGED <<emittedAt, wire>>
     ELSE emittedAt' = [emittedAt EXCEPT ![s] = None] /\ Signal(s, "stop")
  /\ UNCHANGED <<now, bucket, typing, out, link, shown, started, doubt>>

(* The idle timer, or the page is left. *)
Pause(s) == idle[s] # None /\ Stop(s) /\ UNCHANGED storing

(* onSent, then message:send. *)
Submit(s) ==
  /\ s \in link \ storing
  /\ Stop(s)
  /\ storing' = storing \cup {s}

-----------------------------------------------------------------------------
(* The server. *)

Live(u) == typing[u] # None /\ typing[u] > now

MutListed(u, set) == set[u] # None
(* After zremrangebyscore, the members left in the set. *)
Listed(u, set) == set[u] # None /\ set[u] > now

Update(i, set) ==
  /\ typing' = [u \in Users |-> IF Listed(u, set) THEN set[u] ELSE None]
  /\ out' = [out EXCEPT ![i] =
       Append(@, [users |-> {u \in Users : Listed(u, set)}, at |-> now])]

MayMiss(ss, us) == doubt' = [s \in Sockets |-> IF s \in ss THEN doubt[s] \cup us ELSE doubt[s]]

Start(s) == Update(InstanceOf[s], [typing EXCEPT ![UserOf[s]] = now + Ttl])
Forget(s) == Update(InstanceOf[s], [typing EXCEPT ![UserOf[s]] = None])

(* signal: refused by the limiter, silently, or one MULTI.                  *)
Handle(s) ==
  LET u == UserOf[s]
      i == InstanceOf[s]
  IN
  /\ s \in link /\ wire[s] # <<>>
  /\ wire' = [wire EXCEPT ![s] = Tail(@)]
  /\ \/ /\ Take(u, i)
        /\ ~Allows(u, i)
        /\ UNCHANGED <<typing, out, started, doubt>>
     \/ /\ (Take(u, i) /\ Allows(u, i)) \/ FailOpen
        /\ IF Head(wire[s]) = "start"
           THEN Start(s) /\ started' = [started EXCEPT ![u] = now] /\ UNCHANGED doubt
           ELSE Forget(s) /\ MayMiss(Sockets, {u}) /\ UNCHANGED started
  /\ UNCHANGED <<now, browser, storing, link, shown>>

(* clearTyping in the browsers. *)
Hide(ss, u) ==
  shown' = [s \in Sockets |-> IF s \in ss THEN [shown[s] EXCEPT ![u] = None] ELSE shown[s]]

(* The message is stored: message:new hides its author; then typing.clear.  *)
Stored(s) ==
  LET u == UserOf[s] IN
  /\ s \in storing
  /\ storing' = storing \ {s}
  /\ Hide(link, u)
  /\ IF typing[u] = None THEN UNCHANGED <<typing, out>> ELSE Forget(s)
  /\ MayMiss(Sockets, {u})
  /\ UNCHANGED <<now, bucket, browser, wire, link, started>>

(* applyTyping: the list replaces what was shown, with new timers.          *)
Apply(s, users) == [u \in Users |-> IF u \in users THEN now + Ttl ELSE None]

Deliver(i) ==
  LET users == Head(out[i]).users IN
  /\ out[i] # <<>>
  /\ out' = [out EXCEPT ![i] = Tail(@)]
  /\ shown' = [s \in Sockets |-> IF s \in link THEN Apply(s, users) ELSE shown[s]]
  /\ doubt' = [s \in Sockets |->
       IF s \notin link THEN doubt[s] \cup users
       ELSE {u \in Users : u \notin users /\ (u \in doubt[s] \/ Live(u))}
              \cup {u \in doubt[s] : ~Live(u)}]
  /\ UNCHANGED <<now, bucket, browser, wire, typing, storing, link, started>>

(* The timer of a user shown. *)
Fade(s, u) ==
  /\ Due(shown[s][u])
  /\ Hide({s}, u)
  /\ UNCHANGED <<now, bucket, browser, wire, server, link, started, doubt>>

Drop(s) ==
  /\ s \in link
  /\ link' = link \ {s}
  /\ UNCHANGED <<now, bucket, browser, wire, server, shown, started, doubt>>

(* What was emitted meanwhile has waited in the socket's buffer.            *)
Connect(s) ==
  /\ s \notin link
  /\ link' = link \cup {s}
  /\ UNCHANGED <<now, bucket, browser, wire, server, shown, started, doubt>>

-----------------------------------------------------------------------------
(* A timer that is due fires, and an update does not age beyond Delay,      *)
(* before time goes on.                                                     *)
OnTime ==
  /\ \A s \in Sockets : ~Due(debounce[s]) /\ ~Due(idle[s])
  /\ \A s \in Sockets, u \in Users : ~Due(shown[s][u])
  /\ \A i \in Instances : \A n \in DOMAIN out[i] : now < out[i][n].at + Delay

Pass ==
  /\ OnTime
  /\ now' = now + 1
  /\ bucket' = [k \in Keys |-> IF bucket[k] # None /\ bucket[k].until <= now + 1 THEN None
                               ELSE bucket[k]]
  /\ UNCHANGED <<browser, wire, server, link, shown, started, doubt>>

Act(s) ==
  \/ Input(s) \/ Pause(s) \/ Submit(s)
  \/ Drop(s) \/ Connect(s)

React(s) ==
  \/ Debounced(s) \/ Handle(s) \/ Stored(s)
  \/ \E u \in Users : Fade(s, u)

TypingNext ==
  \/ \E s \in Sockets : Act(s) \/ React(s)
  \/ \E i \in Instances : Deliver(i)
  \/ Pass

TypingSpec == TypingInit /\ [][TypingNext]_typingVars

-----------------------------------------------------------------------------
(* Properties. *)

(* Nobody is shown as typing for long after they stopped: whatever is lost, *)
(* refused or crosses, the last start handled is less old than that.        *)
TypingEnds ==
  \A s \in Sockets, u \in Users :
    shown[s][u] # None => started[u] # None /\ now < started[u] + Ttl + Delay + Ttl

(* Who is typing is shown, without a gap between the starts that the        *)
(* browser repeats, once the last of them was let through and everything    *)
(* has arrived; unless (doubt) updates of two instances crossed, a message  *)
(* or another tab of theirs stopped it, or s was not connected.             *)
TypistIsShown ==
  \A s \in link, t \in Sockets :
    LET u == UserOf[t] IN
    /\ emittedAt[t] # None /\ wire[t] = <<>>
    /\ started[u] # None /\ started[u] >= emittedAt[t]
    /\ \A i \in Instances : out[i] = <<>>
    /\ ~Due(idle[t])
    /\ u \notin doubt[s]
    => shown[s][u] # None
=============================================================================
