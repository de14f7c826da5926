------------------------------ MODULE MCTyping ------------------------------
(***************************************************************************)
(* Three scenes.  In "tabs" ann types in two tabs at two instances, in     *)
(* "people" ann and bob type at one; the other sockets stay away and the   *)
(* limiter keeps no history.  In "limiter" two instances count one key and *)
(* nobody types.  The bounds: MaxNow and MaxLimiterNow on the time of a    *)
(* scene, MaxKeys on the keys pressed, MaxFaults on the connections lost,  *)
(* the requests allowed without Redis and the messages sent, MaxRegained   *)
(* on what instances with unequal clocks refill twice.                     *)
(***************************************************************************)
EXTENDS Typing

CONSTANTS MaxNow, MaxLimiterNow, MaxKeys, MaxFaults, MaxRegained,
  ann, bob, i1, i2, s1, s2, s3

VARIABLES scene, keys, faults

bounds == <<scene, keys, faults>>
mcVars == <<typingVars, counts, bounds>>

Place == [s \in Sockets |-> IF s = s2 THEN i2 ELSE i1]
SignedIn == [s \in Sockets |-> IF s = s3 THEN bob ELSE ann]
Ahead == [i \in Instances |-> IF i = i1 THEN 0 ELSE MaxSkew]

Present ==
  CASE scene = "tabs" -> {s1, s2} [] scene = "people" -> {s1, s3} [] OTHER -> {}

MCInit ==
  /\ scene \in {"limiter", "tabs", "people"}
  /\ Init /\ TypingInit
  /\ link = Present
  /\ keys = 0 /\ faults = 0

MCLimiter ==
  /\ scene = "limiter"
  /\ \/ Tick \/ Expire(ann) \/ Watch(ann)
     \/ \E i \in Instances : Consume(ann, i)
  /\ now' <= MaxLimiterNow /\ regained'[ann] <= MaxRegained
  /\ UNCHANGED <<browser, wire, server, link, shown, started, doubt, bounds>>

Once(count, max) == count < max /\ count' = count + 1

AllowedUncounted ==
  bucket' = bucket /\ \E s \in Sockets : wire[s] # <<>> /\ wire'[s] = Tail(wire[s])

MCTyping ==
  /\ scene # "limiter"
  /\ UNCHANGED <<counts, scene>>
  /\ \/ \E s \in Present : Input(s) /\ Once(keys, MaxKeys) /\ UNCHANGED faults
     \/ /\ \E s \in Present : Drop(s) \/ Submit(s)
        /\ Once(faults, MaxFaults) /\ UNCHANGED keys
     \/ /\ \E s \in Present : React(s)
        /\ IF AllowedUncounted THEN Once(faults, MaxFaults) ELSE UNCHANGED faults
        /\ UNCHANGED keys
     \/ /\ \/ \E s \in Present : Pause(s) \/ Connect(s)
           \/ \E i \in Instances : Deliver(i)
           \/ Pass /\ now' <= MaxNow
        /\ UNCHANGED <<keys, faults>>

MCSpec == MCInit /\ [][MCLimiter \/ MCTyping]_mcVars
=============================================================================
