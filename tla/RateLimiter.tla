----------------------------- MODULE RateLimiter -----------------------------
(***************************************************************************)
(* The token buckets of middleware/rate-limit.ts: one Redis hash per key,  *)
(* changed by one script, at a time the calling instance reads off its own *)
(* clock.                                                                  *)
(*                                                                         *)
(* Tokens are measured by the time it takes to refill them: a bucket of    *)
(* `max` requests per window holds Window, and a request takes Cost, the   *)
(* max-th part of Window.  So a millisecond refills 1.                     *)
(***************************************************************************)
EXTENDS Integers

CONSTANTS
  Keys,       \* what requests are counted by: a user, an address
  Instances,  \* of the API
  Skew,       \* Skew[i]: how far the clock of i is ahead of the slowest
  MaxSkew,
  Window,     \* windowMs of ruleFromWindow
  Cost,
  Grace,      \* the bucket outlives the time that refills it by so much
  None        \* no bucket

ASSUME WindowAssumption ==
  Window \in Nat /\ Cost \in 1 .. Window /\ MaxSkew \in Nat /\ Grace \in Nat
ASSUME SkewAssumption == Skew \in [Instances -> 0 .. MaxSkew] /\ MaxSkew <= Grace
ASSUME NoBucketAssumption == None \notin [tokens : Nat, updatedAt : Nat, until : Nat] \cup Nat

VARIABLES
  now,      \* the time, on the slowest clock
  bucket,   \* bucket[k]: the hash of k, and when Redis drops it
  since,    \* history: since[k], when counting began
  spent,    \* history: spent[k], what was taken from k's bucket since then
  regained, \* history: regained[k], how far the clocks k was counted by went back
  promised  \* history: promised[k][i], the earliest time for which a refusal
            \* by i, since the last grant, said to come back

Buckets == [tokens : 0 .. Window, updatedAt : Nat, until : Nat]

counts == <<since, spent, regained, promised>>
vars == <<now, bucket, counts>>

TypeOK ==
  /\ now \in Nat
  /\ bucket \in [Keys -> Buckets \cup {None}]
  /\ since \in [Keys -> Nat]
  /\ spent \in [Keys -> Nat]
  /\ regained \in [Keys -> Nat]
  /\ promised \in [Keys -> [Instances -> Nat \cup {None}]]

Init ==
  /\ now = 0
  /\ bucket = [k \in Keys |-> None]
  /\ since = [k \in Keys |-> 0]
  /\ spent = [k \in Keys |-> 0]
  /\ regained = [k \in Keys |-> 0]
  /\ promised = [k \in Keys |-> [i \in Instances |-> None]]

Clock(i) == now + Skew[i]

MutTokensAt(k, t) ==
  IF bucket[k] = None THEN Window
  ELSE IF t <= bucket[k].updatedAt THEN bucket[k].tokens
  ELSE bucket[k].tokens + t - bucket[k].updatedAt
(* What the script finds at time t: a new bucket is full, a clock behind    *)
(* the last one refills nothing.                                            *)
TokensAt(k, t) ==
  IF bucket[k] = None THEN Window
  ELSE IF t <= bucket[k].updatedAt THEN bucket[k].tokens
  ELSE LET refilled == bucket[k].tokens + t - bucket[k].updatedAt IN
       IF refilled < Window THEN refilled ELSE Window

Allows(k, i) == TokensAt(k, Clock(i)) >= Cost

(* The script.  It writes its own time whether that is later or not.        *)
Take(k, i) ==
  bucket' = [bucket EXCEPT ![k] =
    [tokens |-> TokensAt(k, Clock(i)) - (IF Allows(k, i) THEN Cost ELSE 0),
     updatedAt |-> Clock(i),
     until |-> now + Window + Grace]]

MutRetryAfter(k, t) == Cost - TokensAt(k, t) - 1
RetryAfter(k, t) == Cost - TokensAt(k, t)

(* The hash goes when nobody has asked for long. *)
Expired(k) == bucket[k] # None /\ bucket[k].until <= now

Earlier(a, b) == IF a # None /\ a <= b THEN a ELSE b
Promise(k, i) ==
  IF Allows(k, i) THEN [j \in Instances |-> None]
  ELSE [promised[k] EXCEPT ![i] = Earlier(@, now + RetryAfter(k, Clock(i)))]

Consume(k, i) ==
  /\ ~Expired(k)
  /\ Take(k, i)
  /\ spent' = [spent EXCEPT ![k] = @ + (IF Allows(k, i) THEN Cost ELSE 0)]
  /\ regained' = [regained EXCEPT ![k] =
       @ + (IF bucket[k] # None /\ Clock(i) < bucket[k].updatedAt
            THEN bucket[k].updatedAt - Clock(i) ELSE 0)]
  /\ promised' = [promised EXCEPT ![k] = Promise(k, i)]
  /\ UNCHANGED <<now, since>>

(* Redis is not ready: the request is allowed and counted nowhere.          *)
FailOpen == UNCHANGED bucket

Expire(k) ==
  /\ Expired(k)
  /\ bucket' = [bucket EXCEPT ![k] = None]
  /\ UNCHANGED <<now, counts>>

Tick == now' = now + 1 /\ UNCHANGED <<bucket, counts>>

(* History: counting begins anew. *)
Watch(k) ==
  /\ since' = [since EXCEPT ![k] = now]
  /\ spent' = [spent EXCEPT ![k] = 0]
  /\ regained' = [regained EXCEPT ![k] = 0]
  /\ UNCHANGED <<now, bucket, promised>>

Next ==
  \/ Tick
  \/ \E k \in Keys : Expire(k) \/ Watch(k) \/ \E i \in Instances : Consume(k, i)

Spec == Init /\ [][Next]_vars

-----------------------------------------------------------------------------
(* Properties. *)

(* Whatever the span, its requests are within a full bucket and what the    *)
(* span refills, and the amount by which instances disagree about the time: *)
(* once, and again whenever the bucket goes to an instance that is behind.  *)
WithinRate ==
  \A k \in Keys :
    spent[k] <= Window + (now - since[k]) + MaxSkew + regained[k]

(* Who is refused by one instance, and asks another once retryAfterMs has   *)
(* passed, and the time by which the clock of that other is behind, is not  *)
(* refused again, unless somebody was granted meanwhile.  Asking in between *)
(* does not put it off, whoever asks and whichever instance refuses: each   *)
(* refusal since the last grant is kept.                                    *)
Behind(i, j) == IF Skew[i] < Skew[j] THEN Skew[j] - Skew[i] ELSE 0
RefusalsEnd ==
  [][\A k \in Keys, i, j \in Instances :
       Consume(k, i) /\ ~Allows(k, i) /\ promised[k][j] # None
         => now < promised[k][j] + Behind(i, j)]_vars
=============================================================================
