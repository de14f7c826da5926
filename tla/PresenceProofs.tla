--------------------------- MODULE PresenceProofs ---------------------------
(***************************************************************************)
(* Proofs about Presence, for any number of connections and instances and  *)
(* with every fault: connections lost half way through their setup, Redis  *)
(* failing or losing its data, instances dying.                            *)
(*                                                                         *)
(* An entry of a live connection can lapse only when the key was not       *)
(* renewed for TTL periods.  What rules it out is SweptIsFresh: once the   *)
(* instance of a counted live connection has swept in this period, the key *)
(* was renewed in it; and time only passes when all instances have.        *)
(***************************************************************************)
EXTENDS Presence, TLAPS

NewIsUnknown == \A s \in Sockets : At(s, "new") => s \notin present \cup conn

SweptIsFresh ==
  "redis" \notin mishaps =>
    \A s \in conn \cap present : InstanceOf[s] \in swept => age = 0

IInv == TypeOK /\ NewIsUnknown /\ SweptIsFresh

LEMMA InitIInv == Init => IInv
<1> SUFFICES ASSUME Init PROVE IInv
  OBVIOUS
<1>1. 0 \in 0 .. TTL - 1
  BY TTLAssumption
<1>2. TypeOK
  BY <1>1 DEF Init, TypeOK, Setup, Leaving, Mishaps
<1>3. NewIsUnknown /\ SweptIsFresh
  BY DEF Init, NewIsUnknown, SweptIsFresh
<1> QED
  BY <1>2, <1>3 DEF IInv

LEMMA StepIInv == IInv /\ [Next]_vars => IInv'
<1> SUFFICES ASSUME IInv, [Next]_vars
             PROVE  IInv'
  OBVIOUS
<1> USE InstanceAssumption, TTLAssumption
    DEF IInv, TypeOK, NewIsUnknown, SweptIsFresh, Setup, Leaving, Mishaps,
            At, Goto, Stay, Lose, Tell, Blame, redisVars, watchVars, roomVars, vars
<1>1. ASSUME NEW s \in Sockets, Connect(s) PROVE IInv'
  BY <1>1 DEF Connect
<1>2. ASSUME NEW s \in Sockets, Online(s) PROVE IInv'
  <2>1. TypeOK'
    BY <1>2 DEF Online
  <2>2. NewIsUnknown' /\ SweptIsFresh'
    BY <1>2 DEF Online
  <2> QED
    BY <2>1, <2>2
<1>13. ASSUME NEW s \in Sockets, OnlineFails(s) PROVE IInv'
  BY <1>13 DEF OnlineFails
<1>3. ASSUME NEW s \in Sockets, Settle(s) PROVE IInv'
  <2>1. UNCHANGED <<present, conn, swept, age, mishaps>>
    BY <1>3 DEF Settle
  <2>2. TypeOK'
    BY <1>3 DEF Settle
  <2>3. NewIsUnknown' /\ SweptIsFresh'
    BY <1>3, <2>1 DEF Settle
  <2> QED
    BY <2>2, <2>3
<1>16. ASSUME NEW s \in Sockets, Ready(s) PROVE IInv'
  BY <1>16 DEF Ready
<1>17. ASSUME NEW s \in Sockets, SetupFails(s) PROVE IInv'
  BY <1>17 DEF SetupFails
<1>4. ASSUME NEW s \in Sockets, Drop(s) PROVE IInv'
  BY <1>4 DEF Drop
<1>5. ASSUME NEW s \in Sockets, Offline(s) \/ OfflineFails(s) \/ Clear(s) PROVE IInv'
  BY <1>5, ZenonT(40) DEF Offline, OfflineFails, Clear
<1>6. ASSUME NEW s \in Sockets, Part(s) PROVE IInv'
  BY <1>6 DEF Part
<1>7. ASSUME NEW i \in Instances, Sweep(i) PROVE IInv'
  BY <1>7 DEF Sweep, Restored, Local
<1>14. ASSUME NEW i \in Instances, SweepFails(i) PROVE IInv'
  BY <1>14 DEF SweepFails
<1>8. CASE Tick
  BY <1>8 DEF Tick
<1>9. ASSUME NEW i \in Instances, Crash(i) PROVE IInv'
  BY <1>9 DEF Crash
<1>10. CASE Flush
  BY <1>10 DEF Flush
<1>11. CASE Watch \/ WatchReadFails
  BY <1>11 DEF Watch, WatchJoin, WatchRead, WatchReadFails, WatchShow, WatchDrop
<1>15. CASE Acquaint \/ LookUpFails \/ Unannounced
  BY <1>15 DEF Acquaint, Meet, Introduce, LookUp, LookUpFails, AnnounceOnline,
               Unannounced
<1>12. CASE UNCHANGED vars
  BY <1>12
<1> QED
  BY <1>1, <1>2, <1>3, <1>4, <1>5, <1>6, <1>7, <1>8, <1>9, <1>10, <1>11, <1>12,
     <1>13, <1>14, <1>15, <1>16, <1>17
  DEF Next, Handler, Fault

LEMMA IInvAlways == Spec => []IInv
  BY InitIInv, StepIInv, PTL DEF Spec

(* The presence state stays well typed: the key never outlives its TTL, and *)
(* only a connection in setup or set up is counted as alive.                *)
THEOREM TypeCorrect == Spec => []TypeOK
  BY IInvAlways, PTL DEF IInv

(* For any number of connections and instances, and any TTL of two sweep    *)
(* periods or more, the key never expires under a live connection while Redis       *)
(* answers.                                                                 *)
THEOREM LiveEntriesAreRenewed == Spec => ExpirySparesConnected
<1>1. ASSUME IInv, Tick, present # {}, present' = {}, "redis" \notin mishaps
      PROVE  present \cap conn = {}
  <2>1. \A s \in present \cap conn : age = 0
    BY <1>1, InstanceAssumption DEF IInv, TypeOK, SweptIsFresh, Tick
  <2>2. age + 1 # TTL => present' = present
    BY <1>1 DEF Tick
  <2>3. age + 1 = TTL
    BY <1>1, <2>2
  <2>4. age # 0
    BY <2>3, TTLAssumption
  <2> QED
    BY <2>1, <2>4
<1>2. IInv /\ [Next]_vars =>
        [Tick /\ present # {} /\ present' = {} /\ "redis" \notin mishaps
           => present \cap conn = {}]_vars
  BY <1>1
<1> QED
  BY <1>2, IInvAlways, PTL DEF Spec, ExpirySparesConnected
-----------------------------------------------------------------------------
(* Why somebody shown offline is offline.  Without the named mishaps every   *)
(* live connection that is past its greeting is counted, a leaver that saw   *)
(* an empty set still sees one when it announces, and as long as the set is  *)
(* not empty the watcher knows or is about to.                               *)

Told == \/ view = "online"
        \/ watcher = "off" \/ met \in {"apart", "stored", "joined"}
        \/ watcher \in {"joined", "seen"} /\ sighted
        \/ met = "looked" /\ found
        \/ \E f \in first : At(f, "settle")

CountedAndTold ==
  /\ met \in {"joined", "looked", "together"} /\ watcher # "off" => hears
  /\ \A s \in conn : At(s, "greet") \/ s \in present
  /\ \A s \in Sockets : pc[s] \in {"clear", "part"} => present = {}
  /\ present # {} => Told

OfflineInv == mishaps \cap {"crossing", "earlySweep", "crash", "redis"} = {} =>
                CountedAndTold

LEMMA InitOffline == Init => OfflineInv
  BY DEF Init, OfflineInv, CountedAndTold

LEMMA StepOffline == IInv /\ OfflineInv /\ [Next]_vars => OfflineInv'
<1> SUFFICES ASSUME IInv, OfflineInv, [Next]_vars,
                    (mishaps \cap {"crossing", "earlySweep", "crash", "redis"} = {})'
             PROVE  CountedAndTold'
  BY DEF OfflineInv
<1>m. mishaps \subseteq mishaps'
  BY DEF Next, Handler, Watch, Fault, Connect, Online, OnlineFails, Settle, Ready,
         SetupFails, Drop, Offline, OfflineFails, Clear, Part, Sweep, SweepFails, Tick,
         Crash, Flush, WatchJoin, WatchRead, WatchReadFails, WatchShow, WatchDrop,
         Acquaint, Meet, Introduce, LookUp, LookUpFails, AnnounceOnline, Unannounced,
         Blame, vars
<1>a. CountedAndTold
  BY <1>m DEF OfflineInv
<1> USE <1>a, InstanceAssumption, TTLAssumption
    DEF IInv, TypeOK, Setup, Leaving, CountedAndTold, Told,
        At, Goto, Stay, Lose, Tell, Blame, redisVars, watchVars, roomVars, vars
<1>1. ASSUME NEW s \in Sockets, Connect(s) PROVE CountedAndTold'
  BY <1>1 DEF Connect
<1>2. ASSUME NEW s \in Sockets, Online(s) PROVE CountedAndTold'
  <2>1. ~ \E q \in Sockets : pc[q] \in {"clear", "part"}
    BY <1>2 DEF Online
  <2>2. CASE present \subseteq {s}
    BY <1>2, <2>1, <2>2 DEF Online
  <2>3. CASE ~(present \subseteq {s})
    BY <1>2, <2>1, <2>3 DEF Online
  <2> QED
    BY <2>2, <2>3
<1>3. ASSUME NEW s \in Sockets, Settle(s) PROVE CountedAndTold'
  BY <1>3 DEF Settle
<1>4. ASSUME NEW s \in Sockets, Ready(s) PROVE CountedAndTold'
  BY <1>4 DEF Ready
<1>5. ASSUME NEW s \in Sockets, Drop(s) PROVE CountedAndTold'
  BY <1>5 DEF Drop
<1>6. ASSUME NEW s \in Sockets, Offline(s) PROVE CountedAndTold'
  BY <1>6 DEF Offline
<1>7. ASSUME NEW s \in Sockets, Clear(s) PROVE CountedAndTold'
  BY <1>7 DEF Clear
<1>8. ASSUME NEW s \in Sockets, Part(s) PROVE CountedAndTold'
  BY <1>8 DEF Part
<1>9. ASSUME NEW i \in Instances, Sweep(i) PROVE CountedAndTold'
  <2>1. Local(i) \subseteq present
    BY <1>9 DEF Sweep, Restored, Local
  <2>2. present' = present /\ UNCHANGED <<conn, pc, first, watchVars, roomVars>>
    BY <1>9, <2>1 DEF Sweep, Restored
  <2> QED
    BY <2>2
<1>10. CASE Tick
  <2>1. present' = {} => present \cap conn = {}
    BY <1>10 DEF Tick, SweptIsFresh
  <2> QED
    BY <1>10, <2>1 DEF Tick
<1>11. CASE Watch
  BY <1>11 DEF Watch, WatchJoin, WatchRead, WatchShow, WatchDrop
<1>16. CASE Acquaint
  BY <1>16 DEF Acquaint, Meet, Introduce, LookUp, AnnounceOnline
<1>17. CASE WatchReadFails \/ LookUpFails \/ Unannounced
  BY <1>17 DEF WatchReadFails, LookUpFails, Unannounced
<1>18. ASSUME NEW i \in Instances, SweepFails(i)
       PROVE  FALSE
  BY <1>18 DEF SweepFails
<1>12. ASSUME NEW s \in Sockets, OnlineFails(s) \/ SetupFails(s) \/ OfflineFails(s)
       PROVE  FALSE
  BY <1>12 DEF OnlineFails, SetupFails, OfflineFails
<1>13. CASE Flush
  BY <1>13 DEF Flush
<1>14. ASSUME NEW i \in Instances, Crash(i) PROVE CountedAndTold'
  <2>1. \A s \in Sockets : InstanceOf[s] = i => pc[s] \in {"new", "gone"}
    BY <1>14 DEF Crash
  <2>2. UNCHANGED <<pc, conn>>
    BY <1>14, <2>1 DEF Crash
  <2> QED
    BY <1>14, <2>2 DEF Crash
<1>15. CASE UNCHANGED vars
  BY <1>15
<1> QED
  BY <1>1, <1>2, <1>3, <1>4, <1>5, <1>6, <1>7, <1>8, <1>9, <1>10, <1>11, <1>12,
     <1>13, <1>14, <1>15, <1>16, <1>17, <1>18
  DEF Next, Handler, Fault

(* For any number of connections and instances, an unexcused "offline" is    *)
(* true: nobody who is connected is shown offline once all is quiet.         *)
THEOREM OfflineIsNeverWrong == Spec => []OfflineIsTrue
<1>1. IInv /\ OfflineInv => OfflineIsTrue
  BY DEF IInv, TypeOK, OfflineInv, CountedAndTold, Told, OfflineIsTrue, Quiet, At,
         Setup
<1> QED
  BY <1>1, InitOffline, StepOffline, IInvAlways, PTL DEF Spec
-----------------------------------------------------------------------------
(* Why somebody shown online is online.  Without the named mishaps the set   *)
(* names live connections and leavers only, so the last leaver finds it      *)
(* empty and announces it.                                                   *)

Going == {s \in Sockets : pc[s] \in Leaving}

CountedAreThere ==
  /\ present \subseteq conn \cup {s \in Sockets : At(s, "leave")}
  /\ \A s \in Sockets : pc[s] \in Setup \cup {"up"} => s \in conn
  /\ \/ view = "online"
     \/ watcher = "seen" /\ sighted
     \/ met = "looked" /\ found
     => conn \cup Going # {}
  /\ met = "apart" => view = "offline" /\ ~sighted /\ inRoom = {}

OnlineInv ==
  mishaps \cap {"ghost", "crash", "redis", "away", "staleSighting", "stranger"} = {} =>
    CountedAreThere

LEMMA InitOnline == Init => OnlineInv
  BY DEF Init, OnlineInv, CountedAreThere, Setup

LEMMA StepOnline == IInv /\ OnlineInv /\ [Next]_vars => OnlineInv'
<1> SUFFICES ASSUME IInv, OnlineInv, [Next]_vars,
                    (mishaps \cap {"ghost", "crash", "redis", "away",
                                   "staleSighting", "stranger"} = {})'
             PROVE  CountedAreThere'
  BY DEF OnlineInv
<1>m. mishaps \subseteq mishaps'
  BY DEF Next, Handler, Watch, Fault, Connect, Online, OnlineFails, Settle, Ready,
         SetupFails, Drop, Offline, OfflineFails, Clear, Part, Sweep, SweepFails, Tick,
         Crash, Flush, WatchJoin, WatchRead, WatchReadFails, WatchShow, WatchDrop,
         Acquaint, Meet, Introduce, LookUp, LookUpFails, AnnounceOnline, Unannounced,
         Blame, vars
<1>a. CountedAreThere
  BY <1>m DEF OnlineInv
<1> USE <1>a, InstanceAssumption, TTLAssumption
    DEF IInv, TypeOK, Setup, Leaving, CountedAreThere, Going,
        At, Goto, Stay, Lose, Tell, Blame, redisVars, watchVars, roomVars, vars
<1>1. ASSUME NEW s \in Sockets, Connect(s) PROVE CountedAreThere'
  BY <1>1 DEF Connect
<1>2. ASSUME NEW s \in Sockets, Online(s) PROVE CountedAreThere'
  BY <1>2 DEF Online
<1>3. ASSUME NEW s \in Sockets, Settle(s) PROVE CountedAreThere'
  BY <1>3 DEF Settle
<1>4. ASSUME NEW s \in Sockets, Ready(s) PROVE CountedAreThere'
  BY <1>4 DEF Ready
<1>5. ASSUME NEW s \in Sockets, Drop(s) PROVE CountedAreThere'
  BY <1>5 DEF Drop
<1>6. ASSUME NEW s \in Sockets, Offline(s) PROVE CountedAreThere'
  <2>1. CASE present \subseteq {s}
    BY <1>6, <2>1 DEF Offline
  <2>2. CASE ~(present \subseteq {s})
    <3>1. PICK t \in present : t # s
      BY <2>2
    <3>2. t \in conn' \cup Going'
      BY <1>6, <2>2, <3>1 DEF Offline
    <3> QED
      BY <1>6, <2>2, <3>2 DEF Offline
  <2> QED
    BY <2>1, <2>2
<1>7. ASSUME NEW s \in Sockets, Clear(s) PROVE CountedAreThere'
  BY <1>7 DEF Clear
<1>8. ASSUME NEW s \in Sockets, Part(s) PROVE CountedAreThere'
  BY <1>8 DEF Part
<1>9. ASSUME NEW i \in Instances, Sweep(i) PROVE CountedAreThere'
  <2>1. /\ UNCHANGED <<pc, conn, watcher, sighted, met, found, inRoom>>
        /\ present' = present \cup Local(i)
    BY <1>9 DEF Sweep
  <2>4. inRoom = {} => view' = view
    BY <1>9 DEF Sweep
  <2>2. view' # view => Local(i) # {}
    BY <1>9 DEF Sweep, Restored
  <2>3. Local(i) \subseteq conn
    BY DEF Local
  <2> QED
    BY <2>1, <2>2, <2>3, <2>4
<1>10. CASE Tick
  BY <1>10 DEF Tick
<1>p. present # {} => conn \cup Going # {}
  OBVIOUS
<1>11. CASE Watch
  <2>1. UNCHANGED <<present, conn, pc, met, found, inRoom>>
    BY <1>11 DEF Watch, WatchJoin, WatchRead, WatchShow, WatchDrop
  <2>2. /\ view' = view \/ (watcher = "seen" /\ sighted)
        /\ watcher' = "seen" /\ sighted' =>
             present # {} \/ (watcher = "seen" /\ sighted)
        /\ met = "apart" /\ ~sighted => ~sighted'
    BY <1>11 DEF Watch, WatchJoin, WatchRead, WatchShow, WatchDrop
  <2>3. Going' = Going
    BY <2>1
  <2>4. conn' \cup Going' # {} \/ ~(\/ view' = "online"
                                    \/ watcher' = "seen" /\ sighted'
                                    \/ met' = "looked" /\ found')
    BY <1>p, <2>1, <2>2, <2>3
  <2> QED
    BY <2>1, <2>2, <2>4
<1>16. CASE Acquaint
  <2>1. UNCHANGED <<present, conn, pc, watcher, sighted>>
    BY <1>16 DEF Acquaint, Meet, Introduce, LookUp, AnnounceOnline
  <2>2. /\ view' = view \/ (met = "looked" /\ found)
        /\ met' = "looked" /\ found' => present # {}
        /\ met' # "apart"
    BY <1>16 DEF Acquaint, Meet, Introduce, LookUp, AnnounceOnline
  <2>3. Going' = Going
    BY <2>1
  <2>4. conn' \cup Going' # {} \/ ~(\/ view' = "online"
                                    \/ watcher' = "seen" /\ sighted'
                                    \/ met' = "looked" /\ found')
    BY <1>p, <2>1, <2>2, <2>3
  <2> QED
    BY <2>1, <2>2, <2>4
<1>17. CASE WatchReadFails \/ LookUpFails \/ Unannounced
  BY <1>17 DEF WatchReadFails, LookUpFails, Unannounced
<1>18. ASSUME NEW i \in Instances, SweepFails(i)
       PROVE  FALSE
  BY <1>18 DEF SweepFails
<1>12. ASSUME NEW s \in Sockets, OnlineFails(s) \/ SetupFails(s) \/ OfflineFails(s)
       PROVE  FALSE
  BY <1>12 DEF OnlineFails, SetupFails, OfflineFails
<1>13. CASE Flush
  BY <1>13 DEF Flush
<1>14. ASSUME NEW i \in Instances, Crash(i) PROVE CountedAreThere'
  <2>1. \A s \in Sockets : InstanceOf[s] = i => pc[s] \in {"new", "gone"}
    BY <1>14 DEF Crash
  <2>2. UNCHANGED <<pc, conn>>
    BY <1>14, <2>1 DEF Crash
  <2> QED
    BY <1>14, <2>2 DEF Crash
<1>15. CASE UNCHANGED vars
  BY <1>15
<1> QED
  BY <1>1, <1>2, <1>3, <1>4, <1>5, <1>6, <1>7, <1>8, <1>9, <1>10, <1>11, <1>12,
     <1>13, <1>14, <1>15, <1>16, <1>17, <1>18
  DEF Next, Handler, Fault

(* For any number of connections and instances, an unexcused "online" is     *)
(* true: whoever has left is shown offline once all is quiet.                *)
THEOREM OnlineIsNeverWrong == Spec => []OnlineIsTrue
<1>1. IInv /\ OnlineInv => OnlineIsTrue
  BY DEF IInv, TypeOK, OnlineInv, CountedAreThere, Going, Leaving, Setup,
         OnlineIsTrue, Quiet
<1> QED
  BY <1>1, InitOnline, StepOnline, IInvAlways, PTL DEF Spec
=============================================================================
