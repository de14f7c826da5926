---------------------------- MODULE TypingProofs ----------------------------
(***************************************************************************)
(* Proofs about RateLimiter, for any keys, instances, windows, costs and   *)
(* clocks that differ by at most the grace period of a bucket, and about   *)
(* Typing, for any users, sockets, instances and durations.                *)
(*                                                                         *)
(*  1. WithinRate says nothing of the bucket, so it is not inductive.      *)
(*     IInv adds what a bucket owes: what it holds and what was taken from *)
(*     it together are a full bucket and the refill until its last update  *)
(*     (Balanced); and that Redis drops it only when it would be full      *)
(*     again (Lasting), so that a new, full bucket gives nothing away.     *)
(*  2. TypingInv follows a start from the key that was pressed to the      *)
(*     timers of the browsers that show it.                                *)
(***************************************************************************)
EXTENDS Typing, TLAPS

Lasting(k) ==
  bucket[k] # None =>
    /\ bucket[k].updatedAt <= now + MaxSkew
    /\ bucket[k].updatedAt + Window + Grace <= bucket[k].until + MaxSkew

Balanced(k) ==
  IF bucket[k] = None THEN spent[k] <= now - since[k] + regained[k]
  ELSE IF bucket[k].updatedAt < since[k] THEN spent[k] = 0
  ELSE spent[k] + bucket[k].tokens
         <= Window + bucket[k].updatedAt - since[k] + regained[k]

(* At the time of each promise, read off the clock of the instance that     *)
(* made it, the bucket pays for a request.                                  *)
Kept(k) ==
  bucket[k] # None => \A j \in Instances :
    promised[k][j] # None =>
      Cost + bucket[k].updatedAt <= bucket[k].tokens + promised[k][j] + Skew[j]

KeyInv(k) == since[k] <= now /\ Lasting(k) /\ Balanced(k) /\ Kept(k)

IInv == TypeOK /\ \A k \in Keys : KeyInv(k)

USE WindowAssumption, SkewAssumption

(* A bucket is not None. *)
LEMMA BucketIsSomething ==
  /\ None \notin Buckets
  /\ None \notin Nat
  BY NoBucketAssumption DEF Buckets

LEMMA ClockInRange ==
  ASSUME TypeOK, NEW i \in Instances
  PROVE  Clock(i) \in Nat /\ now <= Clock(i) /\ Clock(i) <= now + MaxSkew
<1>1. Skew[i] \in 0 .. MaxSkew
  OBVIOUS
<1> QED
  BY <1>1 DEF Clock, TypeOK

(* What the script finds is between nothing and a full bucket, and at most  *)
(* what was there and the time since.                                       *)
LEMMA TokensAtBound ==
  ASSUME TypeOK, NEW k \in Keys, NEW t \in Nat
  PROVE  /\ TokensAt(k, t) \in 0 .. Window
         /\ bucket[k] = None => TokensAt(k, t) = Window
         /\ bucket[k] # None /\ t <= bucket[k].updatedAt =>
              TokensAt(k, t) = bucket[k].tokens
         /\ bucket[k] # None /\ bucket[k].updatedAt < t =>
              /\ TokensAt(k, t) <= bucket[k].tokens + t - bucket[k].updatedAt
              /\ TokensAt(k, t) < Window =>
                   TokensAt(k, t) = bucket[k].tokens + t - bucket[k].updatedAt
<1>1. bucket[k] # None => bucket[k].tokens \in 0 .. Window /\ bucket[k].updatedAt \in Nat
  BY DEF TypeOK, Buckets
<1> QED
  BY <1>1 DEF TokensAt

LEMMA InitIInv == Init => IInv
  BY BucketIsSomething DEF Init, IInv, TypeOK, KeyInv, Lasting, Balanced, Kept

LEMMA ConsumeIInv ==
  ASSUME IInv, NEW k \in Keys, NEW i \in Instances, Consume(k, i)
  PROVE  IInv'
<1> DEFINE t == Clock(i)
           found == TokensAt(k, t)
           cost == IF Allows(k, i) THEN Cost ELSE 0
           back == IF bucket[k] # None /\ t < bucket[k].updatedAt
                   THEN bucket[k].updatedAt - t ELSE 0
           b == [tokens |-> found - cost, updatedAt |-> t, until |-> now + Window + Grace]
           told == Earlier(promised[k][i], now + (Cost - found))
           promise == IF Allows(k, i) THEN [j \in Instances |-> None]
                      ELSE [promised[k] EXCEPT ![i] = told]
<1>1. t \in Nat /\ now <= t /\ t <= now + MaxSkew /\ now \in Nat
  BY ClockInRange DEF IInv, TypeOK
<1>2. found \in 0 .. Window
  BY <1>1, TokensAtBound DEF IInv
<1>3. cost \in 0 .. found /\ (Allows(k, i) <=> found >= Cost)
  BY <1>2 DEF Allows
<1>4. b \in Buckets /\ b # None
  BY <1>1, <1>2, <1>3, BucketIsSomething DEF Buckets
<1>5. back \in Nat
  BY <1>1 DEF IInv, TypeOK, Buckets
<1>6. promise \in [Instances -> Nat \cup {None}]
  <2>1. promised[k] \in [Instances -> Nat \cup {None}]
    BY DEF IInv, TypeOK
  <2>2. ~Allows(k, i) => told \in Nat
    BY <1>1, <1>2, <1>3, <2>1 DEF Earlier
  <2> HIDE DEF told
  <2> QED
    BY <2>1, <2>2
<1>7. /\ bucket' = [bucket EXCEPT ![k] = b]
      /\ spent' = [spent EXCEPT ![k] = @ + cost]
      /\ regained' = [regained EXCEPT ![k] = @ + back]
      /\ promised' = [promised EXCEPT ![k] = promise]
      /\ UNCHANGED <<now, since>>
  <2>1. promised' = [promised EXCEPT ![k] = promise]
    <3>1. promised' = [promised EXCEPT ![k] = Promise(k, i)]
      BY DEF Consume
    <3>2. Promise(k, i) = promise
      BY Zenon DEF Promise, RetryAfter
    <3> QED
      BY Zenon, <3>1, <3>2
  <2>2. /\ spent' = [spent EXCEPT ![k] = @ + cost]
        /\ regained' = [regained EXCEPT ![k] = @ + back]
        /\ UNCHANGED <<now, since>>
    BY Zenon DEF Consume
  <2>3. bucket' = [bucket EXCEPT ![k] = b]
    BY Zenon DEF Consume, Take
  <2> QED
    BY <2>1, <2>2, <2>3
<1>8. TypeOK'
  <2> HIDE DEF t, found, cost, back, b, promise
  <2> QED
    BY <1>3, <1>2, <1>4, <1>5, <1>6, <1>7 DEF IInv, TypeOK
<1>9. ASSUME NEW j \in Keys, j # k
      PROVE  KeyInv(j)'
  <2>1. /\ bucket'[j] = bucket[j] /\ spent'[j] = spent[j]
        /\ regained'[j] = regained[j] /\ promised'[j] = promised[j]
        /\ since'[j] = since[j] /\ now' = now
    BY <1>7, <1>9 DEF IInv, TypeOK
  <2> QED
    BY <2>1 DEF IInv, KeyInv, Lasting, Balanced, Kept
<1>10. KeyInv(k)'
  <2>1. /\ bucket'[k] = b /\ spent'[k] = spent[k] + cost
        /\ regained'[k] = regained[k] + back /\ promised'[k] = promise
        /\ since'[k] = since[k] /\ now' = now
    BY <1>7 DEF IInv, TypeOK
  <2>2. /\ spent[k] \in Nat /\ regained[k] \in Nat /\ since[k] \in Nat
        /\ since[k] <= now
        /\ Balanced(k) /\ Lasting(k)
    BY DEF IInv, TypeOK, KeyInv
  <2>3. Lasting(k)'
    BY <1>1, <1>4, <2>1 DEF Lasting
  <2>4. spent[k] + found <= Window + t - since[k] + regained[k] + back
    <3>1. CASE bucket[k] = None
      BY <1>1, <1>2, <1>5, <2>2, <3>1 DEF Balanced
    <3>2. CASE bucket[k] # None
      <4>1. bucket[k].updatedAt \in Nat /\ bucket[k].tokens \in 0 .. Window
        BY <3>2 DEF IInv, TypeOK, Buckets
      <4>2. /\ t <= bucket[k].updatedAt => found = bucket[k].tokens
            /\ bucket[k].updatedAt < t =>
                 found <= bucket[k].tokens + t - bucket[k].updatedAt
        BY <1>1, <3>2, TokensAtBound DEF IInv
      <4>3. t < bucket[k].updatedAt => back = bucket[k].updatedAt - t
        BY <3>2
      <4> HIDE DEF t, found, back
      <4> QED
        BY <1>1, <1>2, <1>5, <2>2, <3>2, <4>1, <4>2, <4>3 DEF Balanced
    <3> QED
      BY <3>1, <3>2
  <2>5. Balanced(k)'
    <3>1. b.tokens = found - cost /\ b.updatedAt = t
      OBVIOUS
    <3> HIDE DEF t, found, cost, back, b
    <3> QED
      BY <1>1, <1>2, <1>3, <1>4, <1>5, <2>1, <2>2, <2>4, <3>1 DEF Balanced
  <2>6. Kept(k)'
    <3> SUFFICES ASSUME NEW j \in Instances, promise[j] # None
                 PROVE  Cost + t <= found + promise[j] + Skew[j]
      <4>1. b.tokens = found - cost /\ b.updatedAt = t
        OBVIOUS
      <4>2. \A j \in Instances : promise[j] # None => cost = 0
        OBVIOUS
      <4> HIDE DEF t, found, cost, b, promise
      <4>3. SUFFICES ASSUME NEW j \in Instances, promise[j] # None
                     PROVE  Cost + b.updatedAt <= b.tokens + promise[j] + Skew[j]
        BY <2>1 DEF Kept
      <4>4. b.tokens = found
        BY <1>2, <4>1, <4>2, <4>3
      <4> QED
        BY <4>1, <4>3, <4>4
    <3>1. ~Allows(k, i) /\ found < Cost /\ promised[k] \in [Instances -> Nat \cup {None}]
      BY <1>2, <1>3 DEF IInv, TypeOK
    <3>2. promise = [promised[k] EXCEPT ![i] = told]
      BY <3>1
    <3>3. ASSUME promised[k][j] # None
          PROVE  Cost + t <= found + promised[k][j] + Skew[j]
      <4>1. bucket[k] # None /\ Kept(k)
        BY <1>1, <3>1, TokensAtBound DEF IInv, KeyInv
      <4>2. /\ bucket[k].updatedAt \in Nat /\ bucket[k].tokens \in 0 .. Window
            /\ Skew[j] \in Nat /\ promised[k][j] \in Nat
        BY <3>1, <3>3, <4>1 DEF IInv, TypeOK, Buckets
      <4>3. Cost + bucket[k].updatedAt <= bucket[k].tokens + promised[k][j] + Skew[j]
        BY <3>3, <4>1 DEF Kept
      <4>4. /\ t <= bucket[k].updatedAt => found = bucket[k].tokens
            /\ bucket[k].updatedAt < t =>
                 found = bucket[k].tokens + t - bucket[k].updatedAt
        BY <1>1, <3>1, <4>1, TokensAtBound DEF IInv
      <4> HIDE DEF t, found
      <4> QED
        BY <1>1, <1>2, <4>2, <4>3, <4>4
    <3>4. Cost + t <= found + (now + (Cost - found)) + Skew[i]
      <4>1. t = now + Skew[i] /\ Skew[i] \in Nat
        BY DEF Clock
      <4> HIDE DEF t, found
      <4> QED
        BY <1>1, <1>2, <4>1
    <3>5. CASE j # i
      <4>1. promise[j] = promised[k][j]
        BY <3>1, <3>2, <3>5
      <4> QED
        BY <3>3, <4>1
    <3>6. CASE j = i
      <4>1. promise[j] = told
        BY <3>1, <3>2, <3>6
      <4>2. (told = promised[k][j] /\ promised[k][j] # None) \/ told = now + (Cost - found)
        BY <3>6 DEF Earlier
      <4> HIDE DEF t, found, told, promise
      <4> QED
        BY <3>3, <3>4, <3>6, <4>1, <4>2
    <3> QED
      BY <3>5, <3>6
  <2> QED
    BY <2>1, <2>2, <2>3, <2>5, <2>6 DEF KeyInv
<1> QED
  BY <1>8, <1>9, <1>10 DEF IInv

LEMMA StepIInv == IInv /\ [Next]_vars => IInv'
<1> SUFFICES ASSUME IInv, [Next]_vars
             PROVE  IInv'
  OBVIOUS
<1>1. ASSUME Tick
      PROVE  IInv'
  <2>1. TypeOK'
    BY <1>1 DEF Tick, IInv, TypeOK, counts
  <2>2. ASSUME NEW k \in Keys
        PROVE  KeyInv(k)'
    BY <1>1, BucketIsSomething
       DEF Tick, IInv, TypeOK, Buckets, counts, KeyInv, Lasting, Balanced, Kept
  <2> QED
    BY <2>1, <2>2 DEF IInv
<1>2. ASSUME NEW k \in Keys, Expire(k)
      PROVE  IInv'
  <2>1. TypeOK'
    BY <1>2 DEF Expire, IInv, TypeOK, counts
  <2>2. KeyInv(k)'
    <3>1. /\ bucket[k] # None /\ bucket[k].until <= now
          /\ bucket[k].updatedAt \in Nat /\ bucket[k].until \in Nat
          /\ bucket[k].tokens \in 0 .. Window
          /\ bucket'[k] = None /\ UNCHANGED <<now, counts>>
      BY <1>2 DEF Expire, Expired, IInv, TypeOK, Buckets
    <3>2. /\ now \in Nat /\ since[k] \in Nat /\ spent[k] \in Nat /\ regained[k] \in Nat
          /\ KeyInv(k)
      BY DEF IInv, TypeOK
    <3> QED
      BY <3>1, <3>2 DEF KeyInv, Lasting, Balanced, Kept, counts
  <2>3. ASSUME NEW j \in Keys, j # k
        PROVE  KeyInv(j)'
    BY <1>2, <2>3 DEF Expire, IInv, TypeOK, KeyInv, Lasting, Balanced, Kept, counts
  <2> QED
    BY <2>1, <2>2, <2>3 DEF IInv
<1>3. ASSUME NEW k \in Keys, Watch(k)
      PROVE  IInv'
  <2>1. TypeOK'
    BY <1>3 DEF Watch, IInv, TypeOK
  <2>2. KeyInv(k)'
    <3>1. /\ since'[k] = now /\ spent'[k] = 0 /\ regained'[k] = 0
          /\ UNCHANGED <<now, bucket, promised>> /\ now \in Nat
      BY <1>3 DEF Watch, IInv, TypeOK
    <3>2. bucket[k] # None =>
            bucket[k].tokens \in 0 .. Window /\ bucket[k].updatedAt \in Nat
      BY DEF IInv, TypeOK, Buckets
    <3> QED
      BY <3>1, <3>2 DEF IInv, KeyInv, Lasting, Balanced, Kept
  <2>3. ASSUME NEW j \in Keys, j # k
        PROVE  KeyInv(j)'
    BY <1>3, <2>3 DEF Watch, IInv, TypeOK, KeyInv, Lasting, Balanced, Kept
  <2> QED
    BY <2>1, <2>2, <2>3 DEF IInv
<1>4. CASE UNCHANGED vars
  BY <1>4 DEF vars, counts, IInv, TypeOK, KeyInv, Lasting, Balanced, Kept
<1> QED
  BY <1>1, <1>2, <1>3, <1>4, ConsumeIInv DEF Next

LEMMA IInvAlways == Spec => []IInv
  BY InitIInv, StepIInv, PTL DEF Spec

(* Every variable keeps its type: a bucket never holds more than a window   *)
(* refills, nor less than nothing.                                          *)
THEOREM TypeCorrect == Spec => []TypeOK
  BY IInvAlways, PTL DEF IInv

(* consume() keeps to its rule over every span of time, across instances    *)
(* whose clocks disagree and across the expiry of the bucket.               *)
THEOREM RateIsKept == Spec => []WithinRate
<1>1. IInv => WithinRate
  <2> SUFFICES ASSUME IInv, NEW k \in Keys
               PROVE  spent[k] <= Window + (now - since[k]) + MaxSkew + regained[k]
    BY DEF WithinRate
  <2>1. /\ now \in Nat /\ since[k] \in Nat /\ spent[k] \in Nat /\ regained[k] \in Nat
        /\ bucket[k] # None =>
             bucket[k].tokens \in 0 .. Window /\ bucket[k].updatedAt \in Nat
        /\ since[k] <= now /\ Lasting(k) /\ Balanced(k)
    BY DEF IInv, TypeOK, Buckets, KeyInv
  <2> QED
    BY <2>1 DEF Lasting, Balanced
<1> QED
  BY <1>1, IInvAlways, PTL

(* retryAfterMs is enough: who waits that long, and as much longer as the   *)
(* instance asked is behind the one that refused, is let through, whatever  *)
(* was refused meanwhile.                                                   *)
THEOREM RetryAfterIsEnough == Spec => RefusalsEnd
<1>1. ASSUME IInv, NEW k \in Keys, NEW i \in Instances, NEW j \in Instances,
             ~Allows(k, i), promised[k][j] # None
      PROVE  now < promised[k][j] + Behind(i, j)
  <2>1. Clock(i) \in Nat
    BY <1>1, ClockInRange DEF IInv
  <2>2. TokensAt(k, Clock(i)) < Cost /\ TokensAt(k, Clock(i)) \in 0 .. Window
    BY <1>1, <2>1, TokensAtBound DEF Allows, IInv
  <2>3. bucket[k] # None
    BY <1>1, <2>1, <2>2, TokensAtBound DEF IInv
  <2>4. /\ bucket[k].tokens \in 0 .. Window /\ bucket[k].updatedAt \in Nat
        /\ promised[k][j] \in Nat /\ now \in Nat
        /\ Skew[i] \in Nat /\ Skew[j] \in Nat
        /\ Cost + bucket[k].updatedAt <= bucket[k].tokens + promised[k][j] + Skew[j]
    BY <1>1, <2>3 DEF IInv, TypeOK, Buckets, KeyInv, Kept
  <2>5. /\ Clock(i) <= bucket[k].updatedAt =>
             TokensAt(k, Clock(i)) = bucket[k].tokens
        /\ bucket[k].updatedAt < Clock(i) =>
             TokensAt(k, Clock(i)) = bucket[k].tokens + Clock(i) - bucket[k].updatedAt
    BY <1>1, <2>1, <2>2, <2>3, TokensAtBound DEF IInv
  <2>6. Clock(i) < promised[k][j] + Skew[j]
    BY <2>1, <2>2, <2>4, <2>5
  <2> QED
    BY <2>4, <2>6 DEF Clock, Behind
<1>2. IInv => [\A k \in Keys, i, j \in Instances :
                 Consume(k, i) /\ ~Allows(k, i) /\ promised[k][j] # None =>
                   now < promised[k][j] + Behind(i, j)]_vars
  BY <1>1
<1> QED
  BY <1>2, IInvAlways, PTL DEF RefusalsEnd
-----------------------------------------------------------------------------
(***************************************************************************)
(* Typing.  Nothing outlives the start it comes from: not the score in the *)
(* sorted set, not an update on its way, not the timer of a user shown.    *)
(***************************************************************************)
ScoresAreStarts ==
  \A u \in Users :
    /\ started[u] # None => started[u] <= now
    /\ typing[u] # None => started[u] # None /\ typing[u] = started[u] + Ttl

Fresh(e) ==
  /\ e.at <= now /\ now <= e.at + Delay
  /\ \A u \in e.users : started[u] # None /\ e.at < started[u] + Ttl

UpdatesAreFresh == \A i \in Instances : \A n \in DOMAIN out[i] : Fresh(out[i][n])

TimersAreFresh ==
  \A s \in Sockets, u \in Users :
    shown[s][u] # None =>
      /\ started[u] # None
      /\ shown[s][u] < started[u] + Ttl + Delay + Ttl
      /\ now <= shown[s][u]

(* A browser that has emitted a start waits for the next key, and the start *)
(* it emitted lasts longer than its wait.                                   *)
TypistsWait ==
  \A s \in Sockets :
    /\ idle[s] # None => idle[s] <= now + Idle
    /\ debounce[s] # None => idle[s] # None
    /\ emittedAt[s] # None =>
         /\ emittedAt[s] <= now
         /\ idle[s] # None /\ idle[s] <= emittedAt[s] + Throttle + Idle

(* Who was let through and is not in doubt is in the set, and shown, or     *)
(* about to be, for as long as the start lasts.                             *)
Announced(u) == \E i \in Instances : \E n \in DOMAIN out[i] : u \in out[i][n].users

StartsAreShown ==
  \A s \in Sockets, u \in Users :
    u \notin doubt[s] /\ started[u] # None /\ now < started[u] + Ttl =>
      /\ typing[u] # None
      /\ Announced(u) \/ (shown[s][u] # None /\ shown[s][u] >= started[u] + Ttl)

TypingInv ==
  /\ TypingTypeOK
  /\ ScoresAreStarts
  /\ UpdatesAreFresh
  /\ TimersAreFresh
  /\ TypistsWait
  /\ StartsAreShown

USE PlaceAssumption, TimingAssumption

LEMMA NoneIsNoTime == None \notin Nat
BY NoBucketAssumption

LEMMA Durations ==
  /\ Ttl \in Nat /\ Throttle \in Nat /\ Debounce \in Nat /\ Idle \in Nat /\ Delay \in Nat
  /\ Throttle + Idle <= Ttl
OBVIOUS

LEMMA Places ==
  \A s \in Sockets : UserOf[s] \in Users /\ InstanceOf[s] \in Instances
OBVIOUS

LEMMA AppendedSequence ==
  ASSUME NEW S, NEW q \in Seq(S), NEW e \in S
  PROVE  /\ Append(q, e) \in Seq(S) /\ Len(q) \in Nat
         /\ DOMAIN q = 1 .. Len(q) /\ DOMAIN Append(q, e) = 1 .. Len(q) + 1
         /\ Append(q, e)[Len(q) + 1] = e
         /\ \A n \in DOMAIN q : Append(q, e)[n] = q[n]
OBVIOUS

LEMMA RestOfSequence ==
  ASSUME NEW S, NEW q \in Seq(S), q # <<>>
  PROVE  /\ Tail(q) \in Seq(S) /\ Len(q) \in Nat \ {0} /\ Head(q) = q[1]
         /\ DOMAIN q = 1 .. Len(q) /\ DOMAIN Tail(q) = 1 .. Len(q) - 1
         /\ \A n \in DOMAIN Tail(q) : Tail(q)[n] = q[n + 1]
OBVIOUS

(* What an update of the sorted set writes and announces. *)
LEMMA Updated ==
  ASSUME TypingTypeOK, NEW i \in Instances,
         NEW set \in [Users -> Nat \cup {None}], Update(i, set)
  PROVE  /\ typing' \in [Users -> Nat \cup {None}]
         /\ out' \in [Instances -> Seq(Updates)]
         /\ \A u \in Users : typing'[u] # None => typing'[u] = set[u]
         /\ \A u \in Users : Listed(u, set) => typing'[u] = set[u] /\ Announced(u)'
         /\ \A u \in Users : Announced(u) => Announced(u)'
         /\ \A j \in Instances : \A n \in DOMAIN out'[j] :
              \/ n \in DOMAIN out[j] /\ out'[j][n] = out[j][n]
              \/ /\ out'[j][n].at = now
                 /\ \A u \in out'[j][n].users : u \in Users /\ Listed(u, set)
<1> DEFINE listed == {u \in Users : Listed(u, set)}
           e == [users |-> listed, at |-> now]
<1>1. /\ now \in Nat
      /\ out \in [Instances -> Seq(Updates)]
  BY DEF TypingTypeOK
<1>2. e \in Updates
  BY <1>1 DEF Updates
<1>3. /\ typing' = [u \in Users |-> IF Listed(u, set) THEN set[u] ELSE None]
      /\ out' = [out EXCEPT ![i] = Append(@, e)]
  BY DEF Update
<1>4. e.at = now /\ \A u \in Users : u \in e.users <=> Listed(u, set)
  OBVIOUS
<1>5. e.users \subseteq Users
  OBVIOUS
<1> HIDE DEF e
<1>6. /\ out'[i] = Append(out[i], e)
      /\ \A j \in Instances : j # i => out'[j] = out[j]
      /\ out[i] \in Seq(Updates)
  BY <1>1, <1>3
<1>7. /\ DOMAIN out'[i] = 1 .. Len(out[i]) + 1 /\ DOMAIN out[i] = 1 .. Len(out[i])
      /\ Len(out[i]) \in Nat
      /\ out'[i][Len(out[i]) + 1] = e
      /\ \A n \in DOMAIN out[i] : out'[i][n] = out[i][n]
  BY <1>2, <1>6, AppendedSequence
<1>8. typing' \in [Users -> Nat \cup {None}]
  BY <1>3
<1>9. out' \in [Instances -> Seq(Updates)]
  BY <1>1, <1>2, <1>3
<1>10. \A u \in Users : typing'[u] # None => typing'[u] = set[u]
  BY <1>3
<1>11. ASSUME NEW u \in Users, Listed(u, set)
       PROVE  typing'[u] = set[u] /\ Announced(u)'
  <2>1. Len(out[i]) + 1 \in DOMAIN out'[i]
    BY <1>7
  <2>2. u \in out'[i][Len(out[i]) + 1].users
    BY <1>4, <1>7, <1>11
  <2> QED
    BY <1>3, <1>11, <2>1, <2>2 DEF Announced
<1>12. ASSUME NEW u \in Users, Announced(u)
       PROVE  Announced(u)'
  <2>1. PICK j \in Instances : \E n \in DOMAIN out[j] : u \in out[j][n].users
    BY <1>12 DEF Announced
  <2>2. PICK n \in DOMAIN out[j] : u \in out[j][n].users
    BY <2>1
  <2>3. n \in DOMAIN out'[j] /\ out'[j][n] = out[j][n]
    <3>1. CASE j = i
      <4>1. n \in DOMAIN out[i] /\ n \in 1 .. Len(out[i])
        BY <1>7, <2>2, <3>1
      <4>2. n \in 1 .. Len(out[i]) + 1
        BY <1>7, <4>1
      <4> QED
        BY <1>7, <3>1, <4>1, <4>2
    <3>2. CASE j # i
      <4>1. out'[j] = out[j]
        BY <1>6, <3>2
      <4> QED
        BY <2>2, <4>1
    <3> QED
      BY <3>1, <3>2
  <2> QED
    BY <2>2, <2>3 DEF Announced
<1>13. ASSUME NEW j \in Instances, NEW n \in DOMAIN out'[j]
       PROVE  \/ n \in DOMAIN out[j] /\ out'[j][n] = out[j][n]
              \/ /\ out'[j][n].at = now
                 /\ \A u \in out'[j][n].users : u \in Users /\ Listed(u, set)
  <2>1. CASE j # i
    BY <1>6, <2>1
  <2>2. CASE j = i /\ n # Len(out[i]) + 1
    <3>1. n \in DOMAIN out[i]
      BY <1>7, <2>2, SMTT(30)
    <3> QED
      BY <1>7, <2>2, <3>1
  <2>3. CASE j = i /\ n = Len(out[i]) + 1
    BY <1>4, <1>5, <1>7, <2>3
  <2> QED
    BY <2>1, <2>2, <2>3
<1> QED
  BY <1>8, <1>9, <1>10, <1>11, <1>12, <1>13

(* What remains to be emitted after the first update. *)
LEMMA Delivered ==
  ASSUME TypingTypeOK, NEW i \in Instances, out[i] # <<>>,
         out' = [out EXCEPT ![i] = Tail(@)]
  PROVE  /\ out' \in [Instances -> Seq(Updates)]
         /\ 1 \in DOMAIN out[i] /\ Head(out[i]) = out[i][1]
         /\ out[i][1] \in Updates
         /\ \A u \in Users : Announced(u) => Announced(u)' \/ u \in out[i][1].users
         /\ \A j \in Instances : \A n \in DOMAIN out'[j] :
              \E m \in DOMAIN out[j] : out'[j][n] = out[j][m]
<1>1. out \in [Instances -> Seq(Updates)]
  BY DEF TypingTypeOK
<1>2. /\ out'[i] = Tail(out[i])
      /\ \A j \in Instances : j # i => out'[j] = out[j]
      /\ out[i] \in Seq(Updates)
  BY <1>1
<1>3. /\ DOMAIN out[i] = 1 .. Len(out[i]) /\ Len(out[i]) \in Nat \ {0}
      /\ DOMAIN out'[i] = 1 .. Len(out[i]) - 1
      /\ \A n \in DOMAIN out'[i] : out'[i][n] = out[i][n + 1]
      /\ Head(out[i]) = out[i][1]
  <2>1. /\ DOMAIN out[i] = 1 .. Len(out[i]) /\ Len(out[i]) \in Nat \ {0}
        /\ DOMAIN Tail(out[i]) = 1 .. Len(out[i]) - 1
        /\ \A n \in DOMAIN Tail(out[i]) : Tail(out[i])[n] = out[i][n + 1]
        /\ Head(out[i]) = out[i][1]
    BY <1>2, RestOfSequence
  <2> QED
    BY <1>2, <2>1
<1>4. out' \in [Instances -> Seq(Updates)]
  <2>1. Tail(out[i]) \in Seq(Updates)
    BY <1>2
  <2> QED
    BY <1>1, <2>1
<1>5. 1 \in DOMAIN out[i] /\ out[i][1] \in Updates
  BY <1>2, <1>3
<1>6. ASSUME NEW u \in Users, Announced(u), ~Announced(u)'
      PROVE  u \in out[i][1].users
  <2>1. PICK j \in Instances : \E n \in DOMAIN out[j] : u \in out[j][n].users
    BY <1>6 DEF Announced
  <2>2. PICK n \in DOMAIN out[j] : u \in out[j][n].users
    BY <2>1
  <2>3. j = i
    BY <1>2, <1>6, <2>2 DEF Announced
  <2>4. CASE n = 1
    BY <2>2, <2>3, <2>4
  <2>5. CASE n # 1
    <3>1. n - 1 \in DOMAIN out'[i] /\ (n - 1) + 1 = n
      BY <1>3, <2>3, <2>5
    <3>2. out'[i][n - 1] = out[i][n]
      BY <1>3, <3>1
    <3> QED
      BY <1>6, <2>2, <2>3, <3>1, <3>2 DEF Announced
  <2> QED
    BY <2>4, <2>5
<1>7. ASSUME NEW j \in Instances, NEW n \in DOMAIN out'[j]
      PROVE  \E m \in DOMAIN out[j] : out'[j][n] = out[j][m]
  <2>1. CASE j # i
    BY <1>2, <2>1
  <2>2. CASE j = i
    <3>1. n + 1 \in DOMAIN out[i] /\ out'[i][n] = out[i][n + 1]
      BY <1>3, <2>2
    <3> QED
      BY <2>2, <3>1
  <2> QED
    BY <2>1, <2>2
<1> QED
  BY <1>3, <1>4, <1>5, <1>6, <1>7

LEMMA TypingInitOK == TypingInit => TypingInv
<1> SUFFICES ASSUME TypingInit PROVE TypingInv
  OBVIOUS
<1>1. TypingTypeOK
  BY DEF TypingInit, TypingTypeOK
<1>2. \A i \in Instances : DOMAIN out[i] = {}
  BY DEF TypingInit
<1> QED
  BY <1>1, <1>2 DEF TypingInit, TypingInv, ScoresAreStarts, UpdatesAreFresh,
     TimersAreFresh, TypistsWait, StartsAreShown

LEMMA Signalled ==
  ASSUME TypingTypeOK, NEW s \in Sockets, NEW kind \in {"start", "stop"}, Signal(s, kind)
  PROVE  wire' \in [Sockets -> Seq({"start", "stop"})]
<1>1. wire \in [Sockets -> Seq({"start", "stop"})]
  BY DEF TypingTypeOK
<1>2. Append(wire[s], kind) \in Seq({"start", "stop"})
  BY <1>1, AppendedSequence
<1> QED
  BY <1>1, <1>2 DEF Signal

(* The browsers that type and the connections leave what the instances know. *)
LEMMA ServerUntouched ==
  ASSUME TypingInv,
         UNCHANGED <<now, typing, out, shown, started, doubt>>
  PROVE  (ScoresAreStarts /\ UpdatesAreFresh /\ TimersAreFresh /\ StartsAreShown)'
BY DEF TypingInv, ScoresAreStarts, UpdatesAreFresh, Fresh, TimersAreFresh, StartsAreShown,
   Announced

LEMMA InputOK ==
  ASSUME TypingInv, NEW s \in Sockets, Input(s)
  PROVE  TypingInv'
<1>1. TypingTypeOK /\ TypistsWait
  BY DEF TypingInv
<1>2. UNCHANGED <<now, bucket, typing, out, storing, link, shown, started, doubt>>
  BY DEF Input, server
<1>3. (ScoresAreStarts /\ UpdatesAreFresh /\ TimersAreFresh /\ StartsAreShown)'
  BY <1>2, ServerUntouched
<1>4. now \in Nat /\ emittedAt[s] \in Nat \cup {None} /\ idle[s] \in Nat \cup {None}
  BY <1>1 DEF TypingTypeOK
<1>5. idle' = [idle EXCEPT ![s] = now + Idle] /\ now + Idle \in Nat
  BY <1>4 DEF Input
<1>6. \/ emittedAt[s] = None /\ UNCHANGED <<emittedAt, wire>>
      \/ /\ emittedAt[s] # None /\ now - emittedAt[s] < Throttle
         /\ UNCHANGED <<emittedAt, wire>>
      \/ Emit(s)
  BY <1>4, NoneIsNoTime DEF Input
<1>7. \/ UNCHANGED debounce
      \/ debounce' = [debounce EXCEPT ![s] = now + Debounce]
  BY <1>1 DEF Input, TypingTypeOK
<1>8. TypingTypeOK'
  <2>1. now + Debounce \in Nat
    BY <1>4
  <2>2. emittedAt' \in [Sockets -> Nat \cup {None}]
    BY <1>1, <1>6 DEF Emit, TypingTypeOK
  <2>3. wire' \in [Sockets -> Seq({"start", "stop"})]
    BY <1>1, <1>6, Signalled DEF Emit, TypingTypeOK
  <2>4. /\ idle' \in [Sockets -> Nat \cup {None}]
        /\ debounce' \in [Sockets -> Nat \cup {None}]
    BY <1>1, <1>5, <1>7, <2>1 DEF TypingTypeOK
  <2> QED
    BY <1>1, <1>2, <2>2, <2>3, <2>4 DEF TypingTypeOK
<1>9. TypistsWait'
  <2> SUFFICES ASSUME NEW p \in Sockets
               PROVE  /\ idle'[p] # None => idle'[p] <= now + Idle
                      /\ debounce'[p] # None => idle'[p] # None
                      /\ emittedAt'[p] # None =>
                           /\ emittedAt'[p] <= now
                           /\ idle'[p] # None /\ idle'[p] <= emittedAt'[p] + Throttle + Idle
    BY <1>2 DEF TypistsWait
  <2>1. CASE p # s
    <3>1. UNCHANGED <<idle[p], debounce[p], emittedAt[p]>>
      BY <1>1, <1>5, <1>6, <1>7, <2>1 DEF TypingTypeOK, Emit
    <3> QED
      BY <1>1, <3>1 DEF TypistsWait
  <2>2. CASE p = s
    <3>1. idle'[s] = now + Idle /\ idle'[s] # None
      BY <1>1, <1>5, NoneIsNoTime DEF TypingTypeOK
    <3>2. CASE Emit(s)
      <4>1. emittedAt'[s] = now
        BY <1>1, <3>2 DEF Emit, TypingTypeOK
      <4> QED
        BY <1>4, <2>2, <3>1, <4>1
    <3>3. CASE emittedAt[s] = None /\ UNCHANGED emittedAt
      BY <1>4, <2>2, <3>1, <3>3
    <3>4. CASE /\ emittedAt[s] # None /\ now - emittedAt[s] < Throttle
               /\ UNCHANGED emittedAt
      <4>1. emittedAt[s] \in Nat /\ emittedAt[s] <= now
        BY <1>1, <1>4, <3>4 DEF TypistsWait
      <4> QED
        BY <1>4, <2>2, <3>1, <3>4, <4>1
    <3> QED
      BY <1>6, <3>2, <3>3, <3>4
  <2> QED
    BY <2>1, <2>2
<1> QED
  BY <1>3, <1>8, <1>9 DEF TypingInv

LEMMA DebouncedOK ==
  ASSUME TypingInv, NEW s \in Sockets, Debounced(s)
  PROVE  TypingInv'
<1>1. TypingTypeOK /\ TypistsWait
  BY DEF TypingInv
<1>2. UNCHANGED <<now, bucket, idle, typing, out, storing, link, shown, started, doubt>>
  BY DEF Debounced, server
<1>3. (ScoresAreStarts /\ UpdatesAreFresh /\ TimersAreFresh /\ StartsAreShown)'
  BY <1>2, ServerUntouched
<1>4. /\ debounce[s] # None
      /\ debounce' = [debounce EXCEPT ![s] = None]
      /\ emittedAt' = [emittedAt EXCEPT ![s] = now]
      /\ Signal(s, "start")
  BY DEF Debounced, Due, Emit
<1>5. TypingTypeOK'
  <2>1. wire' \in [Sockets -> Seq({"start", "stop"})]
    BY <1>1, <1>4, Signalled
  <2> QED
    BY <1>1, <1>2, <1>4, <2>1 DEF TypingTypeOK
<1>6. TypistsWait'
  <2>1. now \in Nat /\ idle[s] \in Nat \cup {None}
    BY <1>1 DEF TypingTypeOK
  <2>2. idle[s] # None /\ idle[s] <= now + Throttle + Idle
    BY <1>1, <1>4, <2>1, Durations DEF TypistsWait
  <2>3. ASSUME NEW p \in Sockets, p # s
        PROVE  UNCHANGED <<debounce[p], emittedAt[p]>>
    BY <1>1, <1>4, <2>3 DEF TypingTypeOK
  <2>4. debounce'[s] = None /\ emittedAt'[s] = now
    BY <1>1, <1>4 DEF TypingTypeOK
  <2> QED
    BY <1>1, <1>2, <2>1, <2>2, <2>3, <2>4 DEF TypistsWait
<1> QED
  BY <1>3, <1>5, <1>6 DEF TypingInv

LEMMA StopOK ==
  ASSUME TypingInv, NEW s \in Sockets, Stop(s), storing' \subseteq Sockets
  PROVE  TypingInv'
<1>1. TypingTypeOK /\ TypistsWait
  BY DEF TypingInv
<1>2. UNCHANGED <<now, bucket, typing, out, link, shown, started, doubt>>
  BY DEF Stop
<1>3. (ScoresAreStarts /\ UpdatesAreFresh /\ TimersAreFresh /\ StartsAreShown)'
  BY <1>2, ServerUntouched
<1>4. /\ debounce' = [debounce EXCEPT ![s] = None]
      /\ idle' = [idle EXCEPT ![s] = None]
      /\ emittedAt' = [emittedAt EXCEPT ![s] = None]
      /\ \/ UNCHANGED wire
         \/ Signal(s, "stop")
  BY <1>1 DEF Stop, TypingTypeOK
<1>5. TypingTypeOK'
  <2>1. wire' \in [Sockets -> Seq({"start", "stop"})]
    BY <1>1, <1>4, Signalled DEF TypingTypeOK
  <2> QED
    BY <1>1, <1>2, <1>4, <2>1 DEF TypingTypeOK
<1>6. TypistsWait'
  <2>1. ASSUME NEW p \in Sockets, p # s
        PROVE  UNCHANGED <<debounce[p], idle[p], emittedAt[p]>>
    BY <1>1, <1>4, <2>1 DEF TypingTypeOK
  <2>2. debounce'[s] = None /\ idle'[s] = None /\ emittedAt'[s] = None
    BY <1>1, <1>4 DEF TypingTypeOK
  <2> QED
    BY <1>1, <1>2, <2>1, <2>2 DEF TypistsWait
<1> QED
  BY <1>3, <1>5, <1>6 DEF TypingInv

SharedOK ==
  /\ typing \in [Users -> Nat \cup {None}]
  /\ out \in [Instances -> Seq(Updates)]
  /\ started \in [Users -> Nat \cup {None}]
  /\ ScoresAreStarts /\ UpdatesAreFresh /\ TimersAreFresh /\ StartsAreShown

(* A start that was let through. *)
LEMMA StartOK ==
  ASSUME TypingInv, NEW u \in Users, NEW i \in Instances,
         Update(i, [typing EXCEPT ![u] = now + Ttl]),
         started' = [started EXCEPT ![u] = now],
         UNCHANGED <<now, shown, doubt>>
  PROVE  SharedOK'
<1> DEFINE set == [typing EXCEPT ![u] = now + Ttl]
<1>1. /\ TypingTypeOK /\ ScoresAreStarts /\ UpdatesAreFresh /\ TimersAreFresh
      /\ StartsAreShown
  BY DEF TypingInv
<1>2. /\ now \in Nat /\ typing \in [Users -> Nat \cup {None}]
      /\ started \in [Users -> Nat \cup {None}]
      /\ shown \in [Sockets -> [Users -> Nat \cup {None}]]
      /\ out \in [Instances -> Seq(Updates)]
  BY <1>1 DEF TypingTypeOK
<1>3. set \in [Users -> Nat \cup {None}]
  BY <1>2, Durations
<1>4. set[u] = now + Ttl /\ \A v \in Users : v # u => set[v] = typing[v]
  BY <1>2
<1> HIDE DEF set
<1>5. Update(i, set)
  BY DEF set
<1>6. started'[u] = now /\ \A v \in Users : v # u => started'[v] = started[v]
  BY <1>2
<1>7. started' \in [Users -> Nat \cup {None}]
  BY <1>2
<1>8. \A v \in Users : started[v] # None => started'[v] # None /\ started[v] <= started'[v]
  BY <1>1, <1>2, <1>6, NoneIsNoTime DEF ScoresAreStarts
<1>9. ScoresAreStarts'
  <2>1. \A v \in Users : typing'[v] # None => typing'[v] = set[v]
    BY <1>1, <1>3, <1>5, Updated
  <2>2. ASSUME NEW v \in Users
        PROVE  /\ started'[v] # None => started'[v] <= now
               /\ typing'[v] # None => started'[v] # None /\ typing'[v] = started'[v] + Ttl
    <3>1. CASE v = u
      BY <1>2, <1>4, <1>6, <2>1, <3>1, NoneIsNoTime
    <3>2. CASE v # u
      BY <1>1, <1>4, <1>6, <2>1, <3>2 DEF ScoresAreStarts
    <3> QED
      BY <3>1, <3>2
  <2> QED
    BY <2>2 DEF ScoresAreStarts
<1>10. UpdatesAreFresh'
  <2> SUFFICES ASSUME NEW j \in Instances, NEW n \in DOMAIN out'[j]
               PROVE  Fresh(out[j][n])'
    BY DEF UpdatesAreFresh
  <2>1. CASE n \in DOMAIN out[j] /\ out'[j][n] = out[j][n]
    <3>1. Fresh(out[j][n])
      BY <1>1, <2>1 DEF UpdatesAreFresh
    <3>2. out[j][n] \in Updates
      BY <1>2, <2>1
    <3> QED
      BY <1>2, <1>7, <1>8, <2>1, <3>1, <3>2, Durations, NoneIsNoTime DEF Fresh, Updates
  <2>2. CASE /\ out'[j][n].at = now
             /\ \A v \in out'[j][n].users : v \in Users /\ Listed(v, set)
    <3>1. ASSUME NEW v \in out'[j][n].users
          PROVE  started'[v] # None /\ now < started'[v] + Ttl
      <4>1. v \in Users /\ set[v] # None /\ set[v] > now
        BY <2>2, <3>1 DEF Listed
      <4>2. CASE v = u
        BY <1>2, <1>4, <1>6, <4>1, <4>2, NoneIsNoTime
      <4>3. CASE v # u
        BY <1>1, <1>2, <1>4, <1>6, <4>1, <4>3 DEF ScoresAreStarts
      <4> QED
        BY <4>2, <4>3
    <3> QED
      BY <1>2, <2>2, <3>1, Durations DEF Fresh
  <2> QED
    BY <1>1, <1>3, <1>5, <2>1, <2>2, Updated
<1>11. TimersAreFresh'
  BY <1>1, <1>2, <1>7, <1>8, Durations, NoneIsNoTime DEF TimersAreFresh
<1>12. StartsAreShown'
  <2> SUFFICES ASSUME NEW s \in Sockets, NEW v \in Users,
                      v \notin doubt'[s], started'[v] # None, now' < started'[v] + Ttl
               PROVE  /\ typing'[v] # None
                      /\ Announced(v)' \/ (shown'[s][v] # None /\ shown'[s][v] >= started'[v] + Ttl)
    BY DEF StartsAreShown
  <2>1. CASE v = u
    <3>1. Listed(u, set)
      BY <1>2, <1>4, <1>6, <2>1, Durations, NoneIsNoTime DEF Listed
    <3>2. typing'[u] = set[u] /\ Announced(u)'
      BY <1>1, <1>3, <1>5, <3>1, Updated
    <3> QED
      BY <2>1, <3>1, <3>2 DEF Listed
  <2>2. CASE v # u
    <3>1. /\ typing[v] # None
          /\ Announced(v) \/ (shown[s][v] # None /\ shown[s][v] >= started[v] + Ttl)
      BY <1>1, <1>6, <2>2 DEF StartsAreShown
    <3>2. typing[v] = started[v] + Ttl
      BY <1>1, <3>1 DEF ScoresAreStarts
    <3>3. Listed(v, set)
      BY <1>4, <1>6, <2>2, <3>1, <3>2 DEF Listed
    <3>4. typing'[v] = set[v] /\ (Announced(v) => Announced(v)')
      BY <1>1, <1>3, <1>5, <3>3, Updated
    <3> QED
      BY <1>4, <1>6, <2>2, <3>1, <3>4
  <2> QED
    BY <2>1, <2>2
<1>13. typing' \in [Users -> Nat \cup {None}] /\ out' \in [Instances -> Seq(Updates)]
  BY <1>1, <1>3, <1>5, Updated
<1> QED
  BY <1>7, <1>9, <1>10, <1>11, <1>12, <1>13 DEF SharedOK

(* A stop, or a message: u is not shown any longer, or in doubt. *)
LEMMA ForgetOK ==
  ASSUME TypingInv, NEW u \in Users, NEW i \in Instances,
         \/ Update(i, [typing EXCEPT ![u] = None])
         \/ typing[u] = None /\ UNCHANGED <<typing, out>>,
         MayMiss(Sockets, {u}),
         UNCHANGED <<now, started>>,
         \A s \in Sockets, v \in Users :
           shown'[s][v] = shown[s][v] \/ (v = u /\ shown'[s][v] = None)
  PROVE  SharedOK'
<1> DEFINE set == [typing EXCEPT ![u] = None]
<1>1. /\ TypingTypeOK /\ ScoresAreStarts /\ UpdatesAreFresh /\ TimersAreFresh
      /\ StartsAreShown
  BY DEF TypingInv
<1>2. /\ now \in Nat /\ typing \in [Users -> Nat \cup {None}]
      /\ started \in [Users -> Nat \cup {None}]
      /\ shown \in [Sockets -> [Users -> Nat \cup {None}]]
      /\ out \in [Instances -> Seq(Updates)]
  BY <1>1 DEF TypingTypeOK
<1>3. set \in [Users -> Nat \cup {None}]
  BY <1>2
<1>4. set[u] = None /\ \A v \in Users : v # u => set[v] = typing[v]
  BY <1>2
<1> HIDE DEF set
<1>5. Update(i, set) \/ (typing[u] = None /\ UNCHANGED <<typing, out>>)
  BY DEF set
<1>6. \A s \in Sockets : doubt'[s] = doubt[s] \cup {u}
  BY DEF MayMiss
<1>7. typing' \in [Users -> Nat \cup {None}] /\ out' \in [Instances -> Seq(Updates)]
  BY <1>1, <1>2, <1>3, <1>5, Updated
<1>8. \A v \in Users : typing'[v] # None => typing'[v] = typing[v]
  BY <1>1, <1>3, <1>4, <1>5, Updated
<1>9. ScoresAreStarts'
  BY <1>1, <1>8 DEF ScoresAreStarts
<1>10. UpdatesAreFresh'
  <2> SUFFICES ASSUME NEW j \in Instances, NEW n \in DOMAIN out'[j]
               PROVE  Fresh(out[j][n])'
    BY DEF UpdatesAreFresh
  <2>1. CASE n \in DOMAIN out[j] /\ out'[j][n] = out[j][n]
    BY <1>1, <2>1 DEF UpdatesAreFresh, Fresh
  <2>2. CASE /\ out'[j][n].at = now
             /\ \A v \in out'[j][n].users : v \in Users /\ Listed(v, set)
    <3>1. ASSUME NEW v \in out'[j][n].users
          PROVE  started[v] # None /\ now < started[v] + Ttl
      <4>1. v \in Users /\ set[v] # None /\ set[v] > now
        BY <2>2, <3>1 DEF Listed
      <4> QED
        BY <1>1, <1>4, <4>1 DEF ScoresAreStarts
    <3> QED
      BY <1>2, <2>2, <3>1, Durations DEF Fresh
  <2> QED
    BY <1>1, <1>3, <1>5, <2>1, <2>2, Updated
<1>11. TimersAreFresh'
  BY <1>1 DEF TimersAreFresh
<1>12. StartsAreShown'
  <2> SUFFICES ASSUME NEW s \in Sockets, NEW v \in Users,
                      v \notin doubt'[s], started[v] # None, now < started[v] + Ttl
               PROVE  /\ typing'[v] # None
                      /\ Announced(v)' \/ (shown'[s][v] # None /\ shown'[s][v] >= started[v] + Ttl)
    BY DEF StartsAreShown
  <2>1. v # u /\ v \notin doubt[s]
    BY <1>6
  <2>2. /\ typing[v] # None
        /\ Announced(v) \/ (shown[s][v] # None /\ shown[s][v] >= started[v] + Ttl)
    BY <1>1, <2>1 DEF StartsAreShown
  <2>3. typing[v] = started[v] + Ttl
    BY <1>1, <2>2 DEF ScoresAreStarts
  <2>4. Listed(v, set)
    BY <1>4, <2>1, <2>2, <2>3 DEF Listed
  <2>5. typing'[v] = typing[v] /\ (Announced(v) => Announced(v)')
    <3>1. CASE Update(i, set)
      BY <1>1, <1>3, <1>4, <2>1, <2>4, <3>1, Updated
    <3>2. CASE UNCHANGED <<typing, out>>
      BY <3>2 DEF Announced
    <3> QED
      BY <1>5, <3>1, <3>2
  <2> QED
    BY <2>1, <2>2, <2>5
<1> QED
  BY <1>2, <1>7, <1>9, <1>10, <1>11, <1>12 DEF SharedOK

LEMMA HandleOK ==
  ASSUME TypingInv, NEW s \in Sockets, Handle(s)
  PROVE  TypingInv'
<1>1. TypingTypeOK /\ TypistsWait
  BY DEF TypingInv
<1>2. UserOf[s] \in Users /\ InstanceOf[s] \in Instances
  BY Places
<1>3. UNCHANGED <<now, emittedAt, debounce, idle, storing, link, shown>>
  BY DEF Handle, browser
<1>4. wire' \in [Sockets -> Seq({"start", "stop"})]
  <2>1. wire \in [Sockets -> Seq({"start", "stop"})] /\ wire[s] # <<>>
    BY <1>1 DEF Handle, TypingTypeOK
  <2>2. Tail(wire[s]) \in Seq({"start", "stop"})
    BY <2>1, RestOfSequence
  <2>3. wire' = [wire EXCEPT ![s] = Tail(@)]
    BY DEF Handle
  <2> QED
    BY <2>1, <2>2, <2>3
<1>5. SharedOK' /\ doubt' \in [Sockets -> SUBSET Users]
  <2>1. CASE UNCHANGED <<typing, out, started, doubt>>
    BY <1>1, <1>3, <2>1, ServerUntouched DEF SharedOK, TypingTypeOK
  <2>2. CASE Start(s) /\ started' = [started EXCEPT ![UserOf[s]] = now] /\ UNCHANGED doubt
    BY <1>1, <1>2, <1>3, <2>2, StartOK DEF Start, TypingTypeOK
  <2>3. CASE Forget(s) /\ MayMiss(Sockets, {UserOf[s]}) /\ UNCHANGED started
    <3>1. doubt' \in [Sockets -> SUBSET Users]
      BY <1>1, <1>2, <2>3 DEF MayMiss, TypingTypeOK
    <3>2. SharedOK'
      BY <1>2, <1>3, <2>3, ForgetOK DEF Forget
    <3> QED
      BY <3>1, <3>2
  <2> QED
    BY <2>1, <2>2, <2>3 DEF Handle
<1>6. TypingTypeOK'
  BY <1>1, <1>3, <1>4, <1>5 DEF TypingTypeOK, SharedOK
<1>7. TypistsWait'
  BY <1>1, <1>3 DEF TypistsWait
<1> QED
  BY <1>5, <1>6, <1>7 DEF TypingInv, SharedOK

LEMMA StoredOK ==
  ASSUME TypingInv, NEW s \in Sockets, Stored(s)
  PROVE  TypingInv'
<1> DEFINE u == UserOf[s]
<1>1. TypingTypeOK /\ TypistsWait
  BY DEF TypingInv
<1>2. u \in Users /\ InstanceOf[s] \in Instances
  BY Places
<1>3. UNCHANGED <<now, bucket, emittedAt, debounce, idle, wire, link, started>>
  BY DEF Stored, browser
<1>4. Hide(link, u) /\ MayMiss(Sockets, {u}) /\ storing' = storing \ {s}
  BY DEF Stored
<1>5. \/ Update(InstanceOf[s], [typing EXCEPT ![u] = None])
      \/ typing[u] = None /\ UNCHANGED <<typing, out>>
  BY DEF Stored, Forget
<1> HIDE DEF u
<1>6. shown \in [Sockets -> [Users -> Nat \cup {None}]]
  BY <1>1 DEF TypingTypeOK
<1>7. shown' \in [Sockets -> [Users -> Nat \cup {None}]]
  BY <1>2, <1>4, <1>6 DEF Hide
<1>8. \A p \in Sockets, v \in Users :
        shown'[p][v] = shown[p][v] \/ (v = u /\ shown'[p][v] = None)
  BY <1>2, <1>4, <1>6 DEF Hide
<1>9. doubt' \in [Sockets -> SUBSET Users]
  BY <1>1, <1>2, <1>4 DEF MayMiss, TypingTypeOK
<1>10. SharedOK'
  BY <1>2, <1>3, <1>4, <1>5, <1>8, ForgetOK
<1>11. TypingTypeOK'
  BY <1>1, <1>3, <1>4, <1>7, <1>9, <1>10 DEF TypingTypeOK, SharedOK
<1>12. TypistsWait'
  BY <1>1, <1>3 DEF TypistsWait
<1> QED
  BY <1>10, <1>11, <1>12 DEF TypingInv, SharedOK

LEMMA DeliverOK ==
  ASSUME TypingInv, NEW i \in Instances, Deliver(i)
  PROVE  TypingInv'
<1> DEFINE users == out[i][1].users
<1>1. /\ TypingTypeOK /\ ScoresAreStarts /\ UpdatesAreFresh /\ TimersAreFresh
      /\ TypistsWait /\ StartsAreShown
  BY DEF TypingInv
<1>2. /\ now \in Nat
      /\ started \in [Users -> Nat \cup {None}]
      /\ shown \in [Sockets -> [Users -> Nat \cup {None}]]
      /\ doubt \in [Sockets -> SUBSET Users]
  BY <1>1 DEF TypingTypeOK
<1>3. UNCHANGED <<now, bucket, emittedAt, debounce, idle, wire, typing, storing, link, started>>
  BY DEF Deliver, browser
<1>4. out[i] # <<>> /\ out' = [out EXCEPT ![i] = Tail(@)]
  BY DEF Deliver
<1>5. /\ out' \in [Instances -> Seq(Updates)]
      /\ 1 \in DOMAIN out[i] /\ Head(out[i]) = out[i][1] /\ out[i][1] \in Updates
      /\ \A u \in Users : Announced(u) => Announced(u)' \/ u \in users
      /\ \A j \in Instances : \A n \in DOMAIN out'[j] :
           \E m \in DOMAIN out[j] : out'[j][n] = out[j][m]
  BY <1>1, <1>4, Delivered
<1>6. /\ users \subseteq Users
      /\ \A u \in users : started[u] # None /\ now < started[u] + Delay + Ttl
  <2>1. Fresh(out[i][1])
    BY <1>1, <1>5 DEF UpdatesAreFresh
  <2> QED
    BY <1>2, <1>5, <2>1, Durations DEF Fresh, Updates
<1>7. /\ shown' = [s \in Sockets |-> IF s \in link THEN Apply(s, users) ELSE shown[s]]
      /\ doubt' = [s \in Sockets |->
           IF s \notin link THEN doubt[s] \cup users
           ELSE {u \in Users : u \notin users /\ (u \in doubt[s] \/ Live(u))}
                  \cup {u \in doubt[s] : ~Live(u)}]
  BY <1>5 DEF Deliver
<1> HIDE DEF users
<1>8. \A s \in Sockets, u \in Users :
        /\ s \in link => shown'[s][u] = IF u \in users THEN now + Ttl ELSE None
        /\ s \notin link => shown'[s][u] = shown[s][u]
  BY <1>7 DEF Apply
<1>9. /\ shown' \in [Sockets -> [Users -> Nat \cup {None}]]
      /\ doubt' \in [Sockets -> SUBSET Users]
  <2>1. now + Ttl \in Nat
    BY <1>2, Durations
  <2>2. \A s \in Sockets : Apply(s, users) \in [Users -> Nat \cup {None}]
    BY <2>1 DEF Apply
  <2>3. shown' \in [Sockets -> [Users -> Nat \cup {None}]]
    BY <1>2, <1>7, <2>2
  <2>4. doubt' \in [Sockets -> SUBSET Users]
    BY <1>2, <1>6, <1>7
  <2> QED
    BY <2>3, <2>4
<1>10. TypingTypeOK'
  BY <1>1, <1>3, <1>5, <1>9 DEF TypingTypeOK
<1>11. ScoresAreStarts' /\ TypistsWait'
  BY <1>1, <1>3 DEF ScoresAreStarts, TypistsWait
<1>12. UpdatesAreFresh'
  <2> SUFFICES ASSUME NEW j \in Instances, NEW n \in DOMAIN out'[j]
               PROVE  Fresh(out[j][n])'
    BY DEF UpdatesAreFresh
  <2>1. PICK m \in DOMAIN out[j] : out'[j][n] = out[j][m]
    BY <1>5
  <2>2. Fresh(out[j][m])
    BY <1>1 DEF UpdatesAreFresh
  <2> QED
    BY <1>3, <2>1, <2>2 DEF Fresh
<1>13. TimersAreFresh'
  <2> SUFFICES ASSUME NEW s \in Sockets, NEW u \in Users, shown'[s][u] # None
               PROVE  /\ started[u] # None
                      /\ shown'[s][u] < started[u] + Ttl + Delay + Ttl
                      /\ now <= shown'[s][u]
    BY <1>3 DEF TimersAreFresh
  <2>1. CASE s \in link
    BY <1>2, <1>6, <1>8, <2>1, Durations
  <2>2. CASE s \notin link
    BY <1>1, <1>8, <2>2 DEF TimersAreFresh
  <2> QED
    BY <2>1, <2>2
<1>14. StartsAreShown'
  <2> SUFFICES ASSUME NEW s \in Sockets, NEW u \in Users,
                      u \notin doubt'[s], started[u] # None, now < started[u] + Ttl
               PROVE  /\ typing[u] # None
                      /\ \/ Announced(u)'
                         \/ shown'[s][u] # None /\ shown'[s][u] >= started[u] + Ttl
    BY <1>3 DEF StartsAreShown
  <2>1. started[u] \in Nat /\ started[u] <= now
    BY <1>1, <1>2 DEF ScoresAreStarts
  <2>2. CASE s \notin link
    <3>1. u \notin doubt[s] /\ u \notin users
      BY <1>7, <2>2
    <3>2. shown'[s][u] = shown[s][u]
      BY <1>8, <2>2
    <3>3. /\ typing[u] # None
          /\ Announced(u) \/ (shown[s][u] # None /\ shown[s][u] >= started[u] + Ttl)
      BY <1>1, <3>1 DEF StartsAreShown
    <3>4. Announced(u) => Announced(u)'
      BY <1>5, <3>1
    <3> QED
      BY <3>2, <3>3, <3>4
  <2>3. CASE s \in link
    <3>1. u \notin doubt[s] \/ Live(u)
      BY <1>2, <1>7, <2>3
    <3>2. typing[u] # None
      BY <1>1, <3>1 DEF StartsAreShown, Live
    <3>3. Live(u)
      BY <1>1, <3>2 DEF ScoresAreStarts, Live
    <3>4. u \in users
      BY <1>7, <2>3, <3>3
    <3>5. shown'[s][u] = now + Ttl /\ now + Ttl \in Nat /\ now + Ttl >= started[u] + Ttl
      BY <1>2, <1>8, <2>1, <2>3, <3>4, Durations
    <3> QED
      BY <3>2, <3>5, NoneIsNoTime
  <2> QED
    BY <2>2, <2>3
<1> QED
  BY <1>10, <1>11, <1>12, <1>13, <1>14 DEF TypingInv

LEMMA FadeOK ==
  ASSUME TypingInv, NEW s \in Sockets, NEW u \in Users, Fade(s, u)
  PROVE  TypingInv'
<1>1. /\ TypingTypeOK /\ ScoresAreStarts /\ UpdatesAreFresh /\ TimersAreFresh
      /\ TypistsWait /\ StartsAreShown
  BY DEF TypingInv
<1>2. /\ now \in Nat
      /\ started \in [Users -> Nat \cup {None}]
      /\ shown \in [Sockets -> [Users -> Nat \cup {None}]]
  BY <1>1 DEF TypingTypeOK
<1>3. UNCHANGED <<now, bucket, emittedAt, debounce, idle, wire, typing, out, storing,
                  link, started, doubt>>
  BY DEF Fade, browser, server
<1>4. /\ shown[s][u] # None /\ shown[s][u] <= now
      /\ shown' = [p \in Sockets |->
           IF p \in {s} THEN [shown[p] EXCEPT ![u] = None] ELSE shown[p]]
  BY DEF Fade, Due, Hide
<1>5. /\ shown' \in [Sockets -> [Users -> Nat \cup {None}]]
      /\ \A p \in Sockets, v \in Users :
           \/ shown'[p][v] = shown[p][v]
           \/ p = s /\ v = u /\ shown'[p][v] = None
  BY <1>2, <1>4
<1>6. TypingTypeOK'
  BY <1>1, <1>3, <1>5 DEF TypingTypeOK
<1>7. ScoresAreStarts' /\ UpdatesAreFresh' /\ TypistsWait'
  BY <1>1, <1>3 DEF ScoresAreStarts, UpdatesAreFresh, Fresh, TypistsWait
<1>8. TimersAreFresh'
  BY <1>1, <1>3, <1>5 DEF TimersAreFresh
<1>9. StartsAreShown'
  <2> SUFFICES ASSUME NEW p \in Sockets, NEW v \in Users,
                      v \notin doubt[p], started[v] # None, now < started[v] + Ttl
               PROVE  /\ typing[v] # None
                      /\ \/ Announced(v)
                         \/ shown'[p][v] # None /\ shown'[p][v] >= started[v] + Ttl
    BY <1>3 DEF StartsAreShown, Announced
  <2>1. /\ typing[v] # None
        /\ Announced(v) \/ (shown[p][v] # None /\ shown[p][v] >= started[v] + Ttl)
    BY <1>1 DEF StartsAreShown
  <2>2. CASE shown'[p][v] = shown[p][v]
    BY <2>1, <2>2
  <2>3. CASE p = s /\ v = u
    BY <1>2, <1>4, <2>1, <2>3, Durations
  <2> QED
    BY <1>5, <2>2, <2>3
<1> QED
  BY <1>6, <1>7, <1>8, <1>9 DEF TypingInv

LEMMA LinkOK ==
  ASSUME TypingInv, link' \subseteq Sockets,
         UNCHANGED <<now, bucket, browser, wire, server, shown, started, doubt>>
  PROVE  TypingInv'
<1>1. TypingTypeOK' /\ TypistsWait'
  BY DEF TypingInv, TypingTypeOK, TypistsWait, browser, server
<1>2. (ScoresAreStarts /\ UpdatesAreFresh /\ TimersAreFresh /\ StartsAreShown)'
  BY ServerUntouched DEF server
<1> QED
  BY <1>1, <1>2 DEF TypingInv

LEMMA PassOK ==
  ASSUME TypingInv, Pass
  PROVE  TypingInv'
<1>1. /\ TypingTypeOK /\ ScoresAreStarts /\ UpdatesAreFresh /\ TimersAreFresh
      /\ TypistsWait /\ StartsAreShown
  BY DEF TypingInv
<1>2. /\ now \in Nat
      /\ started \in [Users -> Nat \cup {None}]
      /\ shown \in [Sockets -> [Users -> Nat \cup {None}]]
      /\ out \in [Instances -> Seq(Updates)]
      /\ emittedAt \in [Sockets -> Nat \cup {None}]
      /\ idle \in [Sockets -> Nat \cup {None}]
  BY <1>1 DEF TypingTypeOK
<1>3. /\ UNCHANGED <<emittedAt, debounce, idle, wire, typing, out, storing, link, shown,
                     started, doubt>>
      /\ now' = now + 1
  BY DEF Pass, browser, server
<1>4. /\ \A s \in Sockets, u \in Users : ~Due(shown[s][u])
      /\ \A i \in Instances : \A n \in DOMAIN out[i] : now < out[i][n].at + Delay
  BY DEF Pass, OnTime
<1>5. TypingTypeOK'
  BY <1>1, <1>3 DEF TypingTypeOK
<1>6. ScoresAreStarts'
  BY <1>1, <1>2, <1>3, NoneIsNoTime DEF ScoresAreStarts
<1>7. UpdatesAreFresh'
  <2> SUFFICES ASSUME NEW i \in Instances, NEW n \in DOMAIN out[i]
               PROVE  Fresh(out[i][n])'
    BY <1>3 DEF UpdatesAreFresh
  <2>1. Fresh(out[i][n]) /\ now < out[i][n].at + Delay
    BY <1>1, <1>4 DEF UpdatesAreFresh
  <2>2. out[i][n] \in Updates
    BY <1>2
  <2> QED
    BY <1>2, <1>3, <2>1, <2>2, Durations DEF Fresh, Updates
<1>8. TimersAreFresh'
  BY <1>1, <1>2, <1>3, <1>4 DEF TimersAreFresh, Due
<1>9. TypistsWait'
  BY <1>1, <1>2, <1>3, Durations, NoneIsNoTime DEF TypistsWait
<1>10. StartsAreShown'
  <2> SUFFICES ASSUME NEW s \in Sockets, NEW u \in Users,
                      u \notin doubt[s], started[u] # None, now + 1 < started[u] + Ttl
               PROVE  /\ typing[u] # None
                      /\ Announced(u) \/ (shown[s][u] # None /\ shown[s][u] >= started[u] + Ttl)
    BY <1>3 DEF StartsAreShown, Announced
  <2>1. now < started[u] + Ttl
    BY <1>2, Durations
  <2> QED
    BY <1>1, <2>1 DEF StartsAreShown
<1> QED
  BY <1>5, <1>6, <1>7, <1>8, <1>9, <1>10 DEF TypingInv

LEMMA TypingStepOK ==
  ASSUME TypingInv, [TypingNext]_typingVars
  PROVE  TypingInv'
<1>1. storing \subseteq Sockets /\ link \subseteq Sockets
  BY DEF TypingInv, TypingTypeOK
<1>2. ASSUME NEW s \in Sockets, Act(s)
      PROVE  TypingInv'
  <2>1. CASE Input(s)
    BY <2>1, InputOK
  <2>2. CASE Pause(s)
    BY <1>1, <2>2, StopOK DEF Pause
  <2>3. CASE Submit(s)
    BY <1>1, <2>3, StopOK DEF Submit
  <2>4. CASE Drop(s)
    BY <1>1, <2>4, LinkOK DEF Drop
  <2>5. CASE Connect(s)
    BY <1>1, <2>5, LinkOK DEF Connect
  <2> QED
    BY <1>2, <2>1, <2>2, <2>3, <2>4, <2>5 DEF Act
<1>3. ASSUME NEW s \in Sockets, React(s)
      PROVE  TypingInv'
  BY <1>3, DebouncedOK, HandleOK, StoredOK, FadeOK DEF React
<1>4. ASSUME NEW i \in Instances, Deliver(i)
      PROVE  TypingInv'
  BY <1>4, DeliverOK
<1>5. CASE Pass
  BY <1>5, PassOK
<1>6. CASE UNCHANGED typingVars
  BY <1>1, <1>6, LinkOK DEF typingVars
<1> QED
  BY <1>2, <1>3, <1>4, <1>5, <1>6 DEF TypingNext

LEMMA TypingInvAlways == TypingSpec => []TypingInv
<1> QED
  BY TypingInitOK, TypingStepOK, PTL DEF TypingSpec

(* Timers, signals, scores and updates keep their types. *)
THEOREM TypingTypeCorrect == TypingSpec => []TypingTypeOK
<1>1. TypingInv => TypingTypeOK
  BY DEF TypingInv
<1> QED
  BY <1>1, TypingInvAlways, PTL

(* An indicator goes out: whatever is lost, refused by the limiter or        *)
(* crosses between instances, nobody is shown as typing longer than twice    *)
(* the time to live after their last start.                                  *)
THEOREM IndicatorsGoOut == TypingSpec => []TypingEnds
<1>1. TypingInv => TypingEnds
  <2> SUFFICES ASSUME TypingInv, NEW s \in Sockets, NEW u \in Users, shown[s][u] # None
               PROVE  started[u] # None /\ now < started[u] + Ttl + Delay + Ttl
    BY DEF TypingEnds
  <2>1. /\ now \in Nat /\ started[u] \in Nat \cup {None} /\ shown[s][u] \in Nat \cup {None}
        /\ TimersAreFresh
    BY DEF TypingInv, TypingTypeOK
  <2> QED
    BY <2>1, Durations DEF TimersAreFresh
<1> QED
  BY <1>1, TypingInvAlways, PTL

(* The repetition of the browser leaves no gap: a start lasts at least until *)
(* the idle timer of the browser that emitted it is due.                     *)
THEOREM TypistsAreShown == TypingSpec => []TypistIsShown
<1>1. TypingInv => TypistIsShown
  <2> SUFFICES ASSUME TypingInv, NEW s \in link, NEW t \in Sockets,
                      emittedAt[t] # None,
                      started[UserOf[t]] # None, started[UserOf[t]] >= emittedAt[t],
                      \A i \in Instances : out[i] = <<>>,
                      ~Due(idle[t]),
                      UserOf[t] \notin doubt[s]
               PROVE  shown[s][UserOf[t]] # None
    BY DEF TypistIsShown
  <2>1. PICK u \in Users : u = UserOf[t]
    BY Places
  <2>2. /\ now \in Nat /\ started[u] \in Nat \cup {None} /\ s \in Sockets
        /\ emittedAt[t] \in Nat \cup {None} /\ idle[t] \in Nat \cup {None}
    BY DEF TypingInv, TypingTypeOK
  <2>3. idle[t] # None /\ idle[t] <= emittedAt[t] + Throttle + Idle
    BY DEF TypingInv, TypistsWait
  <2>4. now < idle[t]
    BY <2>2, <2>3 DEF Due
  <2>5. now < started[u] + Ttl
    BY <2>1, <2>2, <2>3, <2>4, Durations
  <2>6. ~Announced(u)
    BY DEF Announced
  <2> QED
    BY <2>1, <2>2, <2>5, <2>6 DEF TypingInv, StartsAreShown
<1> QED
  BY <1>1, TypingInvAlways, PTL
=============================================================================
