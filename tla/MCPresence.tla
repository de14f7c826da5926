----------------------------- MODULE MCPresence -----------------------------
(***************************************************************************)
(* Presence on a small instance.  MaxFaults bounds faults of every kind,   *)
(* MaxWatches how often the watcher connects.  When the conversation is    *)
(* made late, the watcher connects once less often and only what makes it  *)
(* known fails, and no sweep falls between it and its announcement.        *)
(***************************************************************************)
EXTENDS Presence

CONSTANTS MaxFaults, MaxWatches, s1, s2, s3, i1, i2

VARIABLES faults, watches, late

bounds == <<faults, watches, late>>
mcVars == <<vars, bounds>>

Placed == [s \in Sockets |-> IF s = s2 THEN i2 ELSE i1]

MCInit ==
  /\ Init /\ faults = 0
  /\ late = (met = "apart")
  /\ watches = IF late THEN 1 ELSE 0

MCHandler(s) == Handler(s) /\ UNCHANGED bounds
MCSweep(i) == met \in {"apart", "together"} /\ Sweep(i) /\ UNCHANGED bounds
MCTick == Tick /\ UNCHANGED bounds
MCAnnounce == (Introduce \/ LookUp \/ AnnounceOnline) /\ UNCHANGED bounds

MCNext ==
  \/ \E s \in Sockets :
       \/ (Connect(s) \/ Drop(s)) /\ UNCHANGED bounds
       \/ MCHandler(s)
  \/ \E i \in Instances : MCSweep(i)
  \/ MCTick
  \/ watches < MaxWatches /\ WatchJoin /\ watches' = watches + 1 /\ UNCHANGED <<faults, late>>
  \/ (WatchRead \/ WatchShow \/ WatchDrop) /\ UNCHANGED bounds
  \/ swept = {} /\ Meet /\ UNCHANGED bounds
  \/ MCAnnounce
  \/ /\ faults < MaxFaults /\ faults' = faults + 1 /\ UNCHANGED <<watches, late>>
     /\ IF late THEN WatchReadFails \/ LookUpFails \/ Unannounced ELSE Fault

MCFairSpec ==
  /\ MCInit /\ [][MCNext]_mcVars
  /\ \A s \in Sockets : WF_mcVars(MCHandler(s))
  /\ \A i \in Instances : WF_mcVars(MCSweep(i))
  /\ WF_mcVars(MCTick)
  /\ WF_mcVars(MCAnnounce)
=============================================================================
