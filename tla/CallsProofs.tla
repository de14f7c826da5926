---------------------------- MODULE CallsProofs ----------------------------
(***************************************************************************)
(* Proofs about Calls, for any number of users, calls and handlers, with   *)
(* handlers dying and Redis refusing or repeating commands (FaultySpec).   *)
(*                                                                         *)
(* ExclusiveCalls is not inductive: the claim is two commands and the      *)
(* release four, so what protects a call in progress is where every other  *)
(* handler of the same call can be.  IInv says it: an inviting handler is  *)
(* the only one that can have its call's slots, an answer or a release in  *)
(* flight means the record was there, and a handler that frees slots       *)
(* belongs to a call already released.                                     *)
(***************************************************************************)
EXTENDS Calls, TLAPS

Known(c) == caller[c] \in Users /\ callee[c] \in Users /\ caller[c] # callee[c]

(* What a handler in phase pc[p] may rely on about its own call. *)
HandlersKnow ==
  \A p \in Procs :
    /\ pc[p] \notin {"idle", "dropLookup"} =>
         task[p].call \in Calls /\ Known(task[p].call)
    /\ pc[p] = "dropLookup" => task[p].user \in Users

StoreKnows ==
  /\ \A c \in Calls : record[c] # "none" \/ c \in released => Known(c)
  /\ \A u \in Users :
       slot[u] # None => Known(slot[u]) /\ u \in Participants(slot[u])

(* Until its record is written, a call has one handler that matters. *)
InviterAlone ==
  \A p \in Procs :
    pc[p] \in Inviting =>
      /\ record[task[p].call] = "none"
      /\ task[p].call \notin released
      /\ \A q \in Procs :
           q # p /\ pc[q] \in Inviting => task[q].call # task[p].call

InviterHolds ==
  \A p \in Procs :
    /\ pc[p] \in {"claimCallee", "writeRecord"} =>
         slot[caller[task[p].call]] = task[p].call
    /\ pc[p] = "writeRecord" => slot[callee[task[p].call]] = task[p].call

RecordWasThere ==
  \A p \in Procs :
    /\ pc[p] \in {"answerWrite", "delete"} =>
         record[task[p].call] # "none" \/ task[p].call \in released
    /\ pc[p] \in {"freeCaller", "freeCallee"} => task[p].call \in released

IInv ==
  /\ TypeOK
  /\ HandlersKnow
  /\ StoreKnows
  /\ InviterAlone
  /\ InviterHolds
  /\ RecordWasThere
  /\ LiveHoldsSlots

USE DEF redisVars, callVars, historyVars, vars, Statuses, Events, Inviting,
        Releasing, Closing, Answering, Phases, At, Goto, Become, Return,
        Tasks, Doing, NoTask, Serving, OnCall, Refusing

LEMMA InitIInv == Init => IInv
  BY NoneAssumption
  DEF Init, IInv, TypeOK, HandlersKnow, StoreKnows, InviterAlone, InviterHolds,
      RecordWasThere, LiveHoldsSlots, Live

LEMMA StepIInv == IInv /\ [FaultyNext]_vars => IInv'
<1> SUFFICES ASSUME IInv, [FaultyNext]_vars
             PROVE  IInv'
  OBVIOUS
<1> USE NoneAssumption
    DEF IInv, TypeOK, HandlersKnow, StoreKnows, InviterAlone, InviterHolds,
        RecordWasThere, LiveHoldsSlots, Live, Known, Participants
<1>1. ASSUME NEW p \in Procs, NEW c \in Calls, NEW a \in Users, NEW b \in Users,
             Invite(p, c, a, b)
      PROVE  IInv'
  <2>1. TypeOK'
    BY <1>1 DEF Invite
  <2>2. HandlersKnow'
    BY <1>1 DEF Invite
  <2>3. StoreKnows'
    BY <1>1 DEF Invite
  <2>4. InviterAlone'
    BY <1>1 DEF Invite
  <2>5. InviterHolds'
    BY <1>1 DEF Invite
  <2>6. RecordWasThere'
    BY <1>1 DEF Invite
  <2>7. LiveHoldsSlots'
    BY <1>1 DEF Invite
  <2> QED
    BY <2>1, <2>2, <2>3, <2>4, <2>5, <2>6, <2>7
<1>2. ASSUME NEW p \in Procs, NEW c \in Calls,
             Accept(p, c)
      PROVE  IInv'
  BY <1>2 DEF Accept
<1>3. ASSUME NEW p \in Procs, NEW c \in Calls,
             Decline(p, c)
      PROVE  IInv'
  BY <1>3 DEF Decline, BeginRelease, Settled
<1>4. ASSUME NEW p \in Procs, NEW c \in Calls,
             HangUp(p, c)
      PROVE  IInv'
  BY <1>4 DEF HangUp, BeginRelease, Settled
<1>5. ASSUME NEW p \in Procs, NEW u \in Users,
             Disconnect(p, u)
      PROVE  IInv'
  BY <1>5 DEF Disconnect
<1>6. ASSUME NEW p \in Procs, CheckOnline(p)
      PROVE  IInv'
  BY <1>6 DEF CheckOnline
<1>7. ASSUME NEW p \in Procs, ClaimCaller(p)
      PROVE  IInv'
  BY <1>7 DEF ClaimCaller, TakeSlot
<1>8. ASSUME NEW p \in Procs, CallerBusy(p)
      PROVE  IInv'
  BY <1>8 DEF CallerBusy
<1>9. ASSUME NEW p \in Procs, ClaimCallee(p)
      PROVE  IInv'
  BY <1>9 DEF ClaimCallee, TakeSlot
<1>10. ASSUME NEW p \in Procs, CalleeBusy(p)
      PROVE  IInv'
  BY <1>10 DEF CalleeBusy
<1>11. ASSUME NEW p \in Procs, Unclaim(p)
      PROVE  IInv'
  BY <1>11 DEF Unclaim, FreeSlot
<1>12. ASSUME NEW p \in Procs, WriteRecord(p)
      PROVE  IInv'
  BY <1>12 DEF WriteRecord
<1>13. ASSUME NEW p \in Procs, Ring(p)
      PROVE  IInv'
  BY <1>13 DEF Ring
<1>14. ASSUME NEW p \in Procs, AnswerWrite(p)
      PROVE  IInv'
  BY <1>14 DEF AnswerWrite
<1>15. ASSUME NEW p \in Procs, TellAccepted(p)
      PROVE  IInv'
  BY <1>15 DEF TellAccepted
<1>16. ASSUME NEW p \in Procs, DropLookup(p)
      PROVE  IInv'
  <2>1. TypeOK'
    BY <1>16 DEF DropLookup
  <2>2. HandlersKnow'
    BY <1>16 DEF DropLookup
  <2>3. StoreKnows'
    BY <1>16 DEF DropLookup
  <2>4. InviterAlone'
    BY <1>16 DEF DropLookup
  <2>5. InviterHolds'
    <3>1. /\ \A q \in Procs : q # p => pc'[q] = pc[q] /\ task'[q] = task[q]
          /\ pc'[p] = "dropRead"
          /\ slot' = slot /\ caller' = caller /\ callee' = callee
      BY <1>16 DEF DropLookup
    <3> QED
      BY <3>1
  <2>6. RecordWasThere'
    BY <1>16 DEF DropLookup
  <2>7. LiveHoldsSlots'
    BY <1>16 DEF DropLookup
  <2> QED
    BY <2>1, <2>2, <2>3, <2>4, <2>5, <2>6, <2>7
<1>17. ASSUME NEW p \in Procs, DropRead(p)
      PROVE  IInv'
  BY <1>17 DEF DropRead, BeginRelease, Settled
<1>18. ASSUME NEW p \in Procs, DropNothing(p)
      PROVE  IInv'
  BY <1>18 DEF DropNothing
<1>19. ASSUME NEW p \in Procs, DeleteRecord(p)
      PROVE  IInv'
  BY <1>19 DEF DeleteRecord
<1>20. ASSUME NEW p \in Procs, FreeCaller(p)
      PROVE  IInv'
  BY <1>20 DEF FreeCaller, FreeSlot
<1>21. ASSUME NEW p \in Procs, FreeCallee(p)
      PROVE  IInv'
  BY <1>21 DEF FreeCallee, FreeSlot
<1>22. ASSUME NEW p \in Procs, Finish(p)
      PROVE  IInv'
  BY <1>22 DEF Finish
<1>23. ASSUME NEW p \in Procs, Post(p)
      PROVE  IInv'
  BY <1>23 DEF Post
<1>24. ASSUME NEW p \in Procs, Announce(p)
      PROVE  IInv'
  BY <1>24 DEF Announce
<1>25. ASSUME NEW p \in Procs, ClaimError(p)
      PROVE  IInv'
  BY <1>25 DEF ClaimError
<1>26. ASSUME NEW p \in Procs, UndoCaller(p)
      PROVE  IInv'
  BY <1>26 DEF UndoCaller, FreeSlot
<1>27. ASSUME NEW p \in Procs, UndoCallee(p)
      PROVE  IInv'
  BY <1>27 DEF UndoCallee, FreeSlot
<1>28. ASSUME NEW p \in Procs, ClaimResent(p)
      PROVE  IInv'
  <2>1. TypeOK'
    BY <1>28 DEF ClaimResent, TakeSlot
  <2>2. HandlersKnow'
    BY <1>28 DEF ClaimResent, TakeSlot
  <2>3. StoreKnows'
    BY <1>28 DEF ClaimResent, TakeSlot
  <2>4. InviterAlone'
    BY <1>28 DEF ClaimResent, TakeSlot
  <2>5. InviterHolds'
    BY <1>28 DEF ClaimResent, TakeSlot
  <2>6. RecordWasThere'
    BY <1>28 DEF ClaimResent, TakeSlot
  <2>7. LiveHoldsSlots'
    BY <1>28 DEF ClaimResent, TakeSlot
  <2> QED
    BY <2>1, <2>2, <2>3, <2>4, <2>5, <2>6, <2>7
<1>29. ASSUME NEW p \in Procs, HandlerDies(p)
      PROVE  IInv'
  BY <1>29 DEF HandlerDies
<1>30. ASSUME NEW u \in Users, Connect(u)
      PROVE  IInv'
  BY <1>30 DEF Connect
<1>31. CASE UNCHANGED vars
  BY <1>31
<1> QED
  BY <1>1, <1>2, <1>3, <1>4, <1>5, <1>6, <1>7, <1>8, <1>9, <1>10, <1>11,
     <1>12, <1>13, <1>14, <1>15, <1>16, <1>17, <1>18, <1>19, <1>20, <1>21,
     <1>22, <1>23, <1>24, <1>25, <1>26, <1>27, <1>28, <1>29, <1>30, <1>31
     DEF FaultyNext, Next, Start, Step, Fault

LEMMA IInvAlways == FaultySpec => []IInv
  BY InitIInv, StepIInv, PTL DEF FaultySpec

(* The fault-free behaviours are behaviours of FaultySpec, so every theorem *)
(* below holds of Spec as well.                                             *)
THEOREM SpecIsFaultySpec == Spec => FaultySpec
<1>1. [Next]_vars => [FaultyNext]_vars
  BY DEF FaultyNext
<1> QED
  BY <1>1, PTL DEF Spec, FaultySpec

(* Every variable keeps its type. *)
THEOREM TypeCorrect == FaultySpec => []TypeOK
  BY IInvAlways, PTL DEF IInv

(* A call in progress holds the slots of both participants, whatever other  *)
(* claims, answers and releases are in flight and wherever handlers die.    *)
THEOREM LiveCallsHoldSlots == FaultySpec => []LiveHoldsSlots
  BY IInvAlways, PTL DEF IInv

(* No user is in two calls in progress: two such calls would both be the    *)
(* value of the shared participant's slot.                                  *)
THEOREM CallsAreExclusive == FaultySpec => []ExclusiveCalls
<1>1. IInv => ExclusiveCalls
  BY DEF IInv, LiveHoldsSlots, ExclusiveCalls, Participants
<1> QED
  BY <1>1, IInvAlways, PTL

(* RELEASE_IF_MINE at work: a slot is only ever freed by a handler of the   *)
(* very call that holds it, after its release or while its invite backs out. *)
THEOREM SlotsAreFreedByTheirCall == FaultySpec => SlotFreedOnlyByItsCall
<1>1. ASSUME IInv, [FaultyNext]_vars, NEW u \in Users, NEW c \in Calls,
             slot[u] = c, slot'[u] # c
      PROVE  c \in released \/ BackingOut(c)
  <2> USE <1>1 DEF IInv, TypeOK
  <2>1. PICK p \in Procs :
          \/ ClaimCaller(p) \/ ClaimCallee(p) \/ ClaimResent(p)
          \/ FreeCaller(p) \/ FreeCallee(p)
          \/ Unclaim(p) \/ UndoCaller(p) \/ UndoCallee(p)
    BY DEF FaultyNext, Next, Start, Step, Fault, Invite, Accept, Decline,
           HangUp, Disconnect, Connect, CheckOnline, CallerBusy, CalleeBusy,
           WriteRecord, Ring, AnswerWrite, TellAccepted, DropLookup, DropRead,
           DropNothing, DeleteRecord, Finish, Post, Announce, ClaimError,
           HandlerDies
  <2>2. CASE ClaimCaller(p) \/ ClaimCallee(p) \/ ClaimResent(p)
    BY <2>2, NoneAssumption DEF ClaimCaller, ClaimCallee, ClaimResent, TakeSlot
  <2>3. CASE FreeCaller(p) \/ FreeCallee(p)
    BY <2>3 DEF FreeCaller, FreeCallee, FreeSlot, RecordWasThere
  <2>4. CASE Unclaim(p) \/ UndoCaller(p) \/ UndoCallee(p)
    BY <2>4 DEF Unclaim, UndoCaller, UndoCallee, FreeSlot, BackingOut
  <2> QED
    BY <2>1, <2>2, <2>3, <2>4
<1>2. IInv /\ [FaultyNext]_vars =>
        [\A u \in Users, c \in Calls :
           slot[u] = c /\ slot'[u] # c => c \in released \/ BackingOut(c)]_vars
  BY <1>1
<1> QED
  BY <1>2, IInvAlways, PTL DEF FaultySpec, SlotFreedOnlyByItsCall

-----------------------------------------------------------------------------
(* The refinement: every step is a step of Telephony or leaves it alone.    *)

PhaseBar == [c \in Calls |-> PhaseOf(c)]
LineBar == [c \in Calls |-> IF Rang(c) THEN Participants(c) ELSE {}]

(* Steps that change neither records nor released only touch participants   *)
(* of a call that has not rung.                                             *)
LEMMA QuietSteps ==
  ASSUME TypeOK, UNCHANGED <<record, released>>,
         \A c \in Calls : Rang(c) => caller'[c] = caller[c] /\ callee'[c] = callee[c]
  PROVE  PhaseBar' = PhaseBar /\ LineBar' = LineBar
  BY DEF PhaseBar, LineBar, PhaseOf, Rang, Participants

LEMMA InitRefines == Init => Abstract!Init
  BY DEF Init, Abstract!Init, PhaseOf, Rang

LEMMA StepRefines == IInv /\ [FaultyNext]_vars => [Abstract!Next]_(Abstract!vars)
<1> SUFFICES ASSUME IInv, [FaultyNext]_vars
             PROVE  Abstract!Next \/ (PhaseBar' = PhaseBar /\ LineBar' = LineBar)
  BY DEF Abstract!vars, PhaseBar, LineBar
<1> USE DEF IInv, TypeOK
<1>1. ASSUME NEW p \in Procs, WriteRecord(p)
      PROVE  Abstract!Next
  <2> DEFINE c == task[p].call
  <2>1. c \in Calls /\ Known(c) /\ record[c] = "none" /\ c \notin released
    BY <1>1 DEF WriteRecord, HandlersKnow, InviterAlone
  <2>2. slot[caller[c]] = c /\ slot[callee[c]] = c
    BY <1>1 DEF WriteRecord, InviterHolds
  <2>3. \A d \in Calls : Live(d) => Participants(c) \cap Participants(d) = {}
    BY <2>1, <2>2 DEF LiveHoldsSlots, Live, Participants
  <2>4. PhaseBar' = [PhaseBar EXCEPT ![c] = "ringing"]
    BY <1>1, <2>1 DEF WriteRecord, PhaseBar, PhaseOf
  <2>5. LineBar' = [LineBar EXCEPT ![c] = {caller[c], callee[c]}]
    BY <1>1, <2>1 DEF WriteRecord, LineBar, Rang, Participants
  <2>6. \A d \in Calls :
          PhaseBar[d] \in {"ringing", "active"} =>
            {caller[c], callee[c]} \cap LineBar[d] = {}
    BY <2>3 DEF PhaseBar, LineBar, PhaseOf, Rang, Live, Participants
  <2>7. Abstract!Ring(c, caller[c], callee[c])
    BY <2>1, <2>4, <2>5, <2>6
    DEF Abstract!Ring, Abstract!Engaged, PhaseBar, LineBar, PhaseOf, Known
  <2> QED
    BY <2>1, <2>7 DEF Abstract!Next, Known
<1>2. ASSUME NEW p \in Procs, AnswerWrite(p)
      PROVE  Abstract!Next \/ (PhaseBar' = PhaseBar /\ LineBar' = LineBar)
  <2> DEFINE c == task[p].call
  <2>1. c \in Calls /\ (record[c] # "none" \/ c \in released)
    BY <1>2 DEF AnswerWrite, HandlersKnow, RecordWasThere
  <2>2. LineBar' = LineBar
    BY <1>2, <2>1 DEF AnswerWrite, LineBar, Rang, Participants
  <2>3. CASE record[c] = "ringing" /\ c \notin released
    <3>1. PhaseBar' = [PhaseBar EXCEPT ![c] = "active"] /\ PhaseBar[c] = "ringing"
      BY <1>2, <2>1, <2>3 DEF AnswerWrite, PhaseBar, PhaseOf
    <3> QED
      BY <2>1, <2>2, <3>1 DEF Abstract!Next, Abstract!Answer, PhaseBar, LineBar
  <2>4. CASE ~(record[c] = "ringing" /\ c \notin released)
    BY <1>2, <2>1, <2>2, <2>4 DEF AnswerWrite, PhaseBar, PhaseOf
  <2> QED
    BY <2>3, <2>4
<1>3. ASSUME NEW p \in Procs, DeleteRecord(p)
      PROVE  Abstract!Next \/ (PhaseBar' = PhaseBar /\ LineBar' = LineBar)
  <2> DEFINE c == task[p].call
  <2>1. c \in Calls /\ (record[c] # "none" \/ c \in released)
    BY <1>3 DEF DeleteRecord, HandlersKnow, RecordWasThere
  <2>2. LineBar' = LineBar
    BY <1>3, <2>1 DEF DeleteRecord, LineBar, Rang, Participants
  <2>3. CASE c \notin released
    <3>1. /\ PhaseBar' = [PhaseBar EXCEPT ![c] = "over"]
          /\ PhaseBar[c] \in {"ringing", "active"}
      BY <1>3, <2>1, <2>3 DEF DeleteRecord, PhaseBar, PhaseOf
    <3> QED
      BY <2>1, <2>2, <3>1
      DEF Abstract!Next, Abstract!End, Abstract!Engaged, PhaseBar, LineBar
  <2>4. CASE c \in released
    BY <1>3, <2>1, <2>2, <2>4 DEF DeleteRecord, PhaseBar, PhaseOf
  <2> QED
    BY <2>3, <2>4
<1>4. ASSUME NEW p \in Procs, NEW c \in Calls, NEW a \in Users, NEW b \in Users,
             Invite(p, c, a, b)
      PROVE  PhaseBar' = PhaseBar /\ LineBar' = LineBar
  <2>1. ~Rang(c)
    BY <1>4, NoneAssumption DEF Invite, StoreKnows, Known, Rang
  <2> QED
    BY <1>4, <2>1, QuietSteps DEF Invite
<1>5. CASE UNCHANGED <<record, released, caller, callee>>
  BY <1>5, QuietSteps
<1> QED
  BY <1>1, <1>2, <1>3, <1>4, <1>5
  DEF FaultyNext, Next, Start, Step, Fault, Accept, Decline,
      HangUp, Disconnect, Connect, CheckOnline, ClaimCaller, CallerBusy,
      ClaimCallee, CalleeBusy, Unclaim, Ring, TellAccepted, DropLookup,
      DropRead, DropNothing, FreeCaller, FreeCallee, Finish, Post, Announce,
      ClaimError, UndoCaller, UndoCallee, ClaimResent, HandlerDies

(* The call store implements Telephony: however the commands of its claims, *)
(* answers and releases interleave, repeat or are cut short, calls ring,    *)
(* are answered and end as if each of the three happened in one step.       *)
THEOREM CallStoreRefinesTelephony == FaultySpec => ImplementsTelephony
  BY InitRefines, StepRefines, IInvAlways, PTL
  DEF FaultySpec, ImplementsTelephony, Abstract!Spec
-----------------------------------------------------------------------------
(* Without faults more can be said: nothing is left behind.  Somebody still *)
(* keeps every slot of a call that is not in progress (SlotsKept); an       *)
(* invite that will be refused, or was, has only handlers that change       *)
(* nothing any more (InviteUnheard, RefusedIsGone); an answered record was  *)
(* told of (AnswersTold); and the last status written is posted or about    *)
(* to be (StatusPosted).                                                    *)

Keeps(p, u) ==
  \/ pc[p] \in {"claimCallee", "unclaim"} /\ u = caller[task[p].call]
  \/ pc[p] \in {"writeRecord", "delete", "freeCaller"}
  \/ pc[p] = "freeCallee" /\ u = callee[task[p].call]

SlotsKept ==
  \A u \in Users, c \in Calls :
    slot[u] = c => Live(c) \/ \E p \in Procs : task[p].call = c /\ Keeps(p, u)

TasksFit ==
  \A p \in Procs :
    /\ pc[p] \in {"idle", "dropLookup"} => task[p].call = None
    /\ pc[p] \in Inviting => task[p].refusing
    /\ pc[p] \in Releasing => ~task[p].refusing

InviteUnheard ==
  /\ \A c \in Calls : caller[c] = None => told[c] = {}
  /\ \A p \in Procs :
       pc[p] \in Inviting =>
         /\ told[task[p].call] = {}
         /\ \A q \in Procs :
              q # p /\ task[q].call = task[p].call => pc[q] = "dropRead"

Gone(c) ==
  /\ record[c] = "none" /\ c \notin released
  /\ told[c] \cap {"incoming", "accepted"} = {}
  /\ \A q \in Procs :
       task[q].call = c =>
         pc[q] = "dropRead" \/ (pc[q] \in Closing /\ task[q].refusing)

RefusedIsGone ==
  /\ \A c \in Calls : "refused" \in told[c] => Gone(c)
  /\ \A p \in Procs : pc[p] \in Closing /\ task[p].refusing => Gone(task[p].call)

Answered(c) ==
  \/ "accepted" \in told[c]
  \/ \E p \in Procs : pc[p] = "tellAccepted" /\ task[p].call = c

AnswersTold ==
  /\ \A c \in Calls : record[c] = "active" \/ log[c] = "ended" => Answered(c)
  /\ \A p \in Procs :
       pc[p] \in Inviting \cup Releasing \cup Closing /\ task[p].status = "ended" =>
         Answered(task[p].call)

StatusPosted ==
  \A c \in Calls :
    log[c] \in Statuses =>
      \/ log[c] \in posted[c]
      \/ \E p \in Procs : pc[p] = "post" /\ task[p].call = c /\ task[p].status = log[c]

RInv ==
  /\ IInv
  /\ TasksFit /\ SlotsKept
  /\ InviteUnheard /\ RefusedIsGone
  /\ AnswersTold /\ StatusPosted

LEMMA InitRInv == Init => RInv
  BY InitIInv, NoneAssumption
  DEF Init, RInv, TasksFit, SlotsKept, InviteUnheard, RefusedIsGone, AnswersTold,
      StatusPosted

(* Each part of RInv survives a step; IInv does by StepIInv.                *)
LEMMA TasksFitStep == RInv /\ [Next]_vars => TasksFit'
<1> SUFFICES ASSUME RInv, [Next]_vars
             PROVE  TasksFit'
  OBVIOUS
<1> USE NoneAssumption
    DEF RInv, IInv, TypeOK, HandlersKnow, Known, Live, Participants, TasksFit
<1>1. ASSUME NEW p \in Procs, NEW c \in Calls, NEW a \in Users, NEW b \in Users, Invite(p, c, a, b)
      PROVE  TasksFit'
  BY <1>1 DEF Invite
<1>2. ASSUME NEW p \in Procs, NEW c \in Calls, Accept(p, c)
      PROVE  TasksFit'
  BY <1>2 DEF Accept
<1>3. ASSUME NEW p \in Procs, NEW c \in Calls, Decline(p, c)
      PROVE  TasksFit'
  BY <1>3 DEF Decline, BeginRelease, Settled
<1>4. ASSUME NEW p \in Procs, NEW c \in Calls, HangUp(p, c)
      PROVE  TasksFit'
  BY <1>4 DEF HangUp, BeginRelease, Settled
<1>5. ASSUME NEW p \in Procs, NEW u \in Users, Disconnect(p, u)
      PROVE  TasksFit'
  BY <1>5 DEF Disconnect
<1>6. ASSUME NEW p \in Procs, CheckOnline(p)
      PROVE  TasksFit'
  BY <1>6 DEF CheckOnline
<1>7. ASSUME NEW p \in Procs, ClaimCaller(p)
      PROVE  TasksFit'
  BY <1>7 DEF ClaimCaller, TakeSlot
<1>8. ASSUME NEW p \in Procs, CallerBusy(p)
      PROVE  TasksFit'
  BY <1>8 DEF CallerBusy
<1>9. ASSUME NEW p \in Procs, ClaimCallee(p)
      PROVE  TasksFit'
  BY <1>9 DEF ClaimCallee, TakeSlot
<1>10. ASSUME NEW p \in Procs, CalleeBusy(p)
      PROVE  TasksFit'
  BY <1>10 DEF CalleeBusy
<1>11. ASSUME NEW p \in Procs, Unclaim(p)
      PROVE  TasksFit'
  BY <1>11 DEF Unclaim, FreeSlot
<1>12. ASSUME NEW p \in Procs, WriteRecord(p)
      PROVE  TasksFit'
  BY <1>12 DEF WriteRecord
<1>13. ASSUME NEW p \in Procs, Ring(p)
      PROVE  TasksFit'
  BY <1>13 DEF Ring
<1>14. ASSUME NEW p \in Procs, AnswerWrite(p)
      PROVE  TasksFit'
  BY <1>14 DEF AnswerWrite
<1>15. ASSUME NEW p \in Procs, TellAccepted(p)
      PROVE  TasksFit'
  BY <1>15 DEF TellAccepted
<1>16. ASSUME NEW p \in Procs, DropLookup(p)
      PROVE  TasksFit'
  BY <1>16 DEF DropLookup
<1>17. ASSUME NEW p \in Procs, DropRead(p)
      PROVE  TasksFit'
  BY <1>17 DEF DropRead, BeginRelease, Settled
<1>18. ASSUME NEW p \in Procs, DropNothing(p)
      PROVE  TasksFit'
  BY <1>18 DEF DropNothing
<1>19. ASSUME NEW p \in Procs, DeleteRecord(p)
      PROVE  TasksFit'
  BY <1>19 DEF DeleteRecord
<1>20. ASSUME NEW p \in Procs, FreeCaller(p)
      PROVE  TasksFit'
  BY <1>20 DEF FreeCaller, FreeSlot
<1>21. ASSUME NEW p \in Procs, FreeCallee(p)
      PROVE  TasksFit'
  BY <1>21 DEF FreeCallee, FreeSlot
<1>22. ASSUME NEW p \in Procs, Finish(p)
      PROVE  TasksFit'
  BY <1>22 DEF Finish
<1>23. ASSUME NEW p \in Procs, Post(p)
      PROVE  TasksFit'
  BY <1>23 DEF Post
<1>24. ASSUME NEW p \in Procs, Announce(p)
      PROVE  TasksFit'
  BY <1>24 DEF Announce
<1>25. ASSUME NEW u \in Users, Connect(u)
      PROVE  TasksFit'
  BY <1>25 DEF Connect
<1>26. CASE UNCHANGED vars
  BY <1>26
<1> QED
  BY <1>1, <1>2, <1>3, <1>4, <1>5, <1>6, <1>7, <1>8, <1>9, <1>10, <1>11, <1>12, <1>13, <1>14, <1>15, <1>16, <1>17, <1>18, <1>19, <1>20, <1>21, <1>22, <1>23, <1>24, <1>25, <1>26
     DEF Next, Start, Step

LEMMA SlotsKeptStep == RInv /\ [Next]_vars => SlotsKept'
<1> SUFFICES ASSUME RInv, [Next]_vars
             PROVE  SlotsKept'
  OBVIOUS
<1> USE NoneAssumption
    DEF RInv, IInv, TypeOK, HandlersKnow, Known, Live, Participants, StoreKnows, InviterAlone,
        SlotsKept, Keeps
<1>1. ASSUME NEW p \in Procs, NEW c \in Calls, NEW a \in Users, NEW b \in Users, Invite(p, c, a, b)
      PROVE  SlotsKept'
  BY <1>1 DEF Invite
<1>2. ASSUME NEW p \in Procs, NEW c \in Calls, Accept(p, c)
      PROVE  SlotsKept'
  BY <1>2 DEF Accept
<1>3. ASSUME NEW p \in Procs, NEW c \in Calls, Decline(p, c)
      PROVE  SlotsKept'
  BY <1>3 DEF Decline, BeginRelease, Settled
<1>4. ASSUME NEW p \in Procs, NEW c \in Calls, HangUp(p, c)
      PROVE  SlotsKept'
  BY <1>4 DEF HangUp, BeginRelease, Settled
<1>5. ASSUME NEW p \in Procs, NEW u \in Users, Disconnect(p, u)
      PROVE  SlotsKept'
  BY <1>5 DEF Disconnect
<1>6. ASSUME NEW p \in Procs, CheckOnline(p)
      PROVE  SlotsKept'
  BY <1>6 DEF CheckOnline
<1>7. ASSUME NEW p \in Procs, ClaimCaller(p)
      PROVE  SlotsKept'
  BY <1>7 DEF ClaimCaller, TakeSlot
<1>8. ASSUME NEW p \in Procs, CallerBusy(p)
      PROVE  SlotsKept'
  BY <1>8 DEF CallerBusy
<1>9. ASSUME NEW p \in Procs, ClaimCallee(p)
      PROVE  SlotsKept'
  BY <1>9 DEF ClaimCallee, TakeSlot
<1>10. ASSUME NEW p \in Procs, CalleeBusy(p)
      PROVE  SlotsKept'
  BY <1>10 DEF CalleeBusy
<1>11. ASSUME NEW p \in Procs, Unclaim(p)
      PROVE  SlotsKept'
  BY <1>11 DEF Unclaim, FreeSlot
<1>12. ASSUME NEW p \in Procs, WriteRecord(p)
      PROVE  SlotsKept'
  BY <1>12 DEF WriteRecord
<1>13. ASSUME NEW p \in Procs, Ring(p)
      PROVE  SlotsKept'
  <2>1. ASSUME NEW u \in Users, NEW q \in Procs, Keeps(q, u)
        PROVE  Keeps(q, u)' /\ task'[q] = task[q]
    BY <1>13, <2>1 DEF Ring
  <2>2. UNCHANGED <<slot, record>> /\ \A c \in Calls : Live(c) => Live(c)'
    BY <1>13 DEF Ring
  <2>3. SlotsKept
    OBVIOUS
  <2> HIDE DEF RInv, IInv, TypeOK, HandlersKnow, Known, Live, Participants, StoreKnows,
               InviterAlone, Keeps
  <2> QED
    BY <2>1, <2>2, <2>3
<1>14. ASSUME NEW p \in Procs, AnswerWrite(p)
      PROVE  SlotsKept'
  BY <1>14 DEF AnswerWrite
<1>15. ASSUME NEW p \in Procs, TellAccepted(p)
      PROVE  SlotsKept'
  <2>1. ASSUME NEW u \in Users, NEW q \in Procs, Keeps(q, u)
        PROVE  Keeps(q, u)' /\ task'[q] = task[q]
    BY <1>15, <2>1 DEF TellAccepted
  <2> QED
    BY <1>15, <2>1 DEF TellAccepted
<1>16. ASSUME NEW p \in Procs, DropLookup(p)
      PROVE  SlotsKept'
  BY <1>16 DEF DropLookup
<1>17. ASSUME NEW p \in Procs, DropRead(p)
      PROVE  SlotsKept'
  BY <1>17 DEF DropRead, BeginRelease, Settled
<1>18. ASSUME NEW p \in Procs, DropNothing(p)
      PROVE  SlotsKept'
  BY <1>18 DEF DropNothing
<1>19. ASSUME NEW p \in Procs, DeleteRecord(p)
      PROVE  SlotsKept'
  BY <1>19 DEF DeleteRecord
<1>20. ASSUME NEW p \in Procs, FreeCaller(p)
      PROVE  SlotsKept'
  BY <1>20 DEF FreeCaller, FreeSlot
<1>21. ASSUME NEW p \in Procs, FreeCallee(p)
      PROVE  SlotsKept'
  BY <1>21 DEF FreeCallee, FreeSlot
<1>22. ASSUME NEW p \in Procs, Finish(p)
      PROVE  SlotsKept'
  BY <1>22 DEF Finish
<1>23. ASSUME NEW p \in Procs, Post(p)
      PROVE  SlotsKept'
  BY <1>23 DEF Post
<1>24. ASSUME NEW p \in Procs, Announce(p)
      PROVE  SlotsKept'
  <2>1. ASSUME NEW u \in Users, NEW q \in Procs, Keeps(q, u)
        PROVE  Keeps(q, u)' /\ task'[q] = task[q]
    BY <1>24, <2>1 DEF Announce
  <2>2. UNCHANGED <<slot, record>> /\ \A c \in Calls : Live(c) => Live(c)'
    BY <1>24 DEF Announce
  <2>3. SlotsKept
    OBVIOUS
  <2> HIDE DEF RInv, IInv, TypeOK, HandlersKnow, Known, Live, Participants, StoreKnows,
               InviterAlone, Keeps
  <2> QED
    BY <2>1, <2>2, <2>3
<1>25. ASSUME NEW u \in Users, Connect(u)
      PROVE  SlotsKept'
  BY <1>25 DEF Connect
<1>26. CASE UNCHANGED vars
  BY <1>26
<1> QED
  BY <1>1, <1>2, <1>3, <1>4, <1>5, <1>6, <1>7, <1>8, <1>9, <1>10, <1>11, <1>12, <1>13, <1>14, <1>15, <1>16, <1>17, <1>18, <1>19, <1>20, <1>21, <1>22, <1>23, <1>24, <1>25, <1>26
     DEF Next, Start, Step

LEMMA UnheardStep == RInv /\ [Next]_vars => InviteUnheard'
<1> SUFFICES ASSUME RInv, [Next]_vars
             PROVE  InviteUnheard'
  OBVIOUS
<1> USE NoneAssumption
    DEF RInv, IInv, TypeOK, HandlersKnow, Known, Live, Participants, InviterAlone, TasksFit,
        InviteUnheard
<1>1. ASSUME NEW p \in Procs, NEW c \in Calls, NEW a \in Users, NEW b \in Users, Invite(p, c, a, b)
      PROVE  InviteUnheard'
  BY <1>1 DEF Invite
<1>2. ASSUME NEW p \in Procs, NEW c \in Calls, Accept(p, c)
      PROVE  InviteUnheard'
  BY <1>2 DEF Accept
<1>3. ASSUME NEW p \in Procs, NEW c \in Calls, Decline(p, c)
      PROVE  InviteUnheard'
  BY <1>3 DEF Decline, BeginRelease, Settled
<1>4. ASSUME NEW p \in Procs, NEW c \in Calls, HangUp(p, c)
      PROVE  InviteUnheard'
  BY <1>4 DEF HangUp, BeginRelease, Settled
<1>5. ASSUME NEW p \in Procs, NEW u \in Users, Disconnect(p, u)
      PROVE  InviteUnheard'
  BY <1>5 DEF Disconnect
<1>6. ASSUME NEW p \in Procs, CheckOnline(p)
      PROVE  InviteUnheard'
  BY <1>6 DEF CheckOnline
<1>7. ASSUME NEW p \in Procs, ClaimCaller(p)
      PROVE  InviteUnheard'
  BY <1>7 DEF ClaimCaller, TakeSlot
<1>8. ASSUME NEW p \in Procs, CallerBusy(p)
      PROVE  InviteUnheard'
  BY <1>8 DEF CallerBusy
<1>9. ASSUME NEW p \in Procs, ClaimCallee(p)
      PROVE  InviteUnheard'
  BY <1>9 DEF ClaimCallee, TakeSlot
<1>10. ASSUME NEW p \in Procs, CalleeBusy(p)
      PROVE  InviteUnheard'
  BY <1>10 DEF CalleeBusy
<1>11. ASSUME NEW p \in Procs, Unclaim(p)
      PROVE  InviteUnheard'
  BY <1>11 DEF Unclaim, FreeSlot
<1>12. ASSUME NEW p \in Procs, WriteRecord(p)
      PROVE  InviteUnheard'
  BY <1>12 DEF WriteRecord
<1>13. ASSUME NEW p \in Procs, Ring(p)
      PROVE  InviteUnheard'
  BY <1>13 DEF Ring
<1>14. ASSUME NEW p \in Procs, AnswerWrite(p)
      PROVE  InviteUnheard'
  BY <1>14 DEF AnswerWrite
<1>15. ASSUME NEW p \in Procs, TellAccepted(p)
      PROVE  InviteUnheard'
  BY <1>15 DEF TellAccepted
<1>16. ASSUME NEW p \in Procs, DropLookup(p)
      PROVE  InviteUnheard'
  BY <1>16 DEF DropLookup
<1>17. ASSUME NEW p \in Procs, DropRead(p)
      PROVE  InviteUnheard'
  BY <1>17 DEF DropRead, BeginRelease, Settled
<1>18. ASSUME NEW p \in Procs, DropNothing(p)
      PROVE  InviteUnheard'
  BY <1>18 DEF DropNothing
<1>19. ASSUME NEW p \in Procs, DeleteRecord(p)
      PROVE  InviteUnheard'
  BY <1>19 DEF DeleteRecord
<1>20. ASSUME NEW p \in Procs, FreeCaller(p)
      PROVE  InviteUnheard'
  BY <1>20 DEF FreeCaller, FreeSlot
<1>21. ASSUME NEW p \in Procs, FreeCallee(p)
      PROVE  InviteUnheard'
  BY <1>21 DEF FreeCallee, FreeSlot
<1>22. ASSUME NEW p \in Procs, Finish(p)
      PROVE  InviteUnheard'
  BY <1>22 DEF Finish
<1>23. ASSUME NEW p \in Procs, Post(p)
      PROVE  InviteUnheard'
  BY <1>23 DEF Post
<1>24. ASSUME NEW p \in Procs, Announce(p)
      PROVE  InviteUnheard'
  BY <1>24 DEF Announce
<1>25. ASSUME NEW u \in Users, Connect(u)
      PROVE  InviteUnheard'
  BY <1>25 DEF Connect
<1>26. CASE UNCHANGED vars
  BY <1>26
<1> QED
  BY <1>1, <1>2, <1>3, <1>4, <1>5, <1>6, <1>7, <1>8, <1>9, <1>10, <1>11, <1>12, <1>13, <1>14, <1>15, <1>16, <1>17, <1>18, <1>19, <1>20, <1>21, <1>22, <1>23, <1>24, <1>25, <1>26
     DEF Next, Start, Step

LEMMA GoneStep == RInv /\ [Next]_vars => RefusedIsGone'
<1> SUFFICES ASSUME RInv, [Next]_vars
             PROVE  RefusedIsGone'
  OBVIOUS
<1> USE NoneAssumption
    DEF RInv, IInv, TypeOK, HandlersKnow, Known, Live, Participants, InviterAlone, TasksFit,
        InviteUnheard, RefusedIsGone, Gone
<1>1. ASSUME NEW p \in Procs, NEW c \in Calls, NEW a \in Users, NEW b \in Users, Invite(p, c, a, b)
      PROVE  RefusedIsGone'
  BY <1>1 DEF Invite
<1>2. ASSUME NEW p \in Procs, NEW c \in Calls, Accept(p, c)
      PROVE  RefusedIsGone'
  BY <1>2 DEF Accept
<1>3. ASSUME NEW p \in Procs, NEW c \in Calls, Decline(p, c)
      PROVE  RefusedIsGone'
  BY <1>3 DEF Decline, BeginRelease, Settled
<1>4. ASSUME NEW p \in Procs, NEW c \in Calls, HangUp(p, c)
      PROVE  RefusedIsGone'
  BY <1>4 DEF HangUp, BeginRelease, Settled
<1>5. ASSUME NEW p \in Procs, NEW u \in Users, Disconnect(p, u)
      PROVE  RefusedIsGone'
  BY <1>5 DEF Disconnect
<1>6. ASSUME NEW p \in Procs, CheckOnline(p)
      PROVE  RefusedIsGone'
  BY <1>6 DEF CheckOnline
<1>7. ASSUME NEW p \in Procs, ClaimCaller(p)
      PROVE  RefusedIsGone'
  BY <1>7 DEF ClaimCaller, TakeSlot
<1>8. ASSUME NEW p \in Procs, CallerBusy(p)
      PROVE  RefusedIsGone'
  BY <1>8 DEF CallerBusy
<1>9. ASSUME NEW p \in Procs, ClaimCallee(p)
      PROVE  RefusedIsGone'
  BY <1>9 DEF ClaimCallee, TakeSlot
<1>10. ASSUME NEW p \in Procs, CalleeBusy(p)
      PROVE  RefusedIsGone'
  BY <1>10 DEF CalleeBusy
<1>11. ASSUME NEW p \in Procs, Unclaim(p)
      PROVE  RefusedIsGone'
  BY <1>11 DEF Unclaim, FreeSlot
<1>12. ASSUME NEW p \in Procs, WriteRecord(p)
      PROVE  RefusedIsGone'
  BY <1>12 DEF WriteRecord
<1>13. ASSUME NEW p \in Procs, Ring(p)
      PROVE  RefusedIsGone'
  BY <1>13 DEF Ring
<1>14. ASSUME NEW p \in Procs, AnswerWrite(p)
      PROVE  RefusedIsGone'
  BY <1>14 DEF AnswerWrite
<1>15. ASSUME NEW p \in Procs, TellAccepted(p)
      PROVE  RefusedIsGone'
  BY <1>15 DEF TellAccepted
<1>16. ASSUME NEW p \in Procs, DropLookup(p)
      PROVE  RefusedIsGone'
  BY <1>16 DEF DropLookup
<1>17. ASSUME NEW p \in Procs, DropRead(p)
      PROVE  RefusedIsGone'
  BY <1>17 DEF DropRead, BeginRelease, Settled
<1>18. ASSUME NEW p \in Procs, DropNothing(p)
      PROVE  RefusedIsGone'
  BY <1>18 DEF DropNothing
<1>19. ASSUME NEW p \in Procs, DeleteRecord(p)
      PROVE  RefusedIsGone'
  BY <1>19 DEF DeleteRecord
<1>20. ASSUME NEW p \in Procs, FreeCaller(p)
      PROVE  RefusedIsGone'
  BY <1>20 DEF FreeCaller, FreeSlot
<1>21. ASSUME NEW p \in Procs, FreeCallee(p)
      PROVE  RefusedIsGone'
  BY <1>21 DEF FreeCallee, FreeSlot
<1>22. ASSUME NEW p \in Procs, Finish(p)
      PROVE  RefusedIsGone'
  BY <1>22 DEF Finish
<1>23. ASSUME NEW p \in Procs, Post(p)
      PROVE  RefusedIsGone'
  BY <1>23 DEF Post
<1>24. ASSUME NEW p \in Procs, Announce(p)
      PROVE  RefusedIsGone'
  BY <1>24 DEF Announce
<1>25. ASSUME NEW u \in Users, Connect(u)
      PROVE  RefusedIsGone'
  BY <1>25 DEF Connect
<1>26. CASE UNCHANGED vars
  BY <1>26
<1> QED
  BY <1>1, <1>2, <1>3, <1>4, <1>5, <1>6, <1>7, <1>8, <1>9, <1>10, <1>11, <1>12, <1>13, <1>14, <1>15, <1>16, <1>17, <1>18, <1>19, <1>20, <1>21, <1>22, <1>23, <1>24, <1>25, <1>26
     DEF Next, Start, Step

LEMMA AnswersStep == RInv /\ [Next]_vars => AnswersTold'
<1> SUFFICES ASSUME RInv, [Next]_vars
             PROVE  AnswersTold'
  OBVIOUS
<1> USE NoneAssumption
    DEF RInv, IInv, TypeOK, HandlersKnow, Known, Live, Participants, AnswersTold
<1>1. ASSUME NEW p \in Procs, NEW c \in Calls, NEW a \in Users, NEW b \in Users, Invite(p, c, a, b)
      PROVE  AnswersTold'
  <2>1. ASSUME NEW d \in Calls, Answered(d)
        PROVE  Answered(d)'
    BY <1>1, <2>1 DEF Invite, Answered
  <2> QED
    BY <1>1, <2>1 DEF Invite
<1>2. ASSUME NEW p \in Procs, NEW c \in Calls, Accept(p, c)
      PROVE  AnswersTold'
  <2>1. ASSUME NEW d \in Calls, Answered(d)
        PROVE  Answered(d)'
    BY <1>2, <2>1 DEF Accept, Answered
  <2> QED
    BY <1>2, <2>1 DEF Accept
<1>3. ASSUME NEW p \in Procs, NEW c \in Calls, Decline(p, c)
      PROVE  AnswersTold'
  <2>1. ASSUME NEW d \in Calls, Answered(d)
        PROVE  Answered(d)'
    BY <1>3, <2>1 DEF Decline, BeginRelease, Settled, Answered
  <2> QED
    BY <1>3, <2>1 DEF Decline, BeginRelease, Settled
<1>4. ASSUME NEW p \in Procs, NEW c \in Calls, HangUp(p, c)
      PROVE  AnswersTold'
  <2>1. ASSUME NEW d \in Calls, Answered(d)
        PROVE  Answered(d)'
    BY <1>4, <2>1 DEF HangUp, BeginRelease, Settled, Answered
  <2> QED
    BY <1>4, <2>1 DEF HangUp, BeginRelease, Settled
<1>5. ASSUME NEW p \in Procs, NEW u \in Users, Disconnect(p, u)
      PROVE  AnswersTold'
  <2>1. ASSUME NEW c \in Calls, Answered(c)
        PROVE  Answered(c)'
    BY <1>5, <2>1 DEF Disconnect, Answered
  <2> QED
    BY <1>5, <2>1 DEF Disconnect
<1>6. ASSUME NEW p \in Procs, CheckOnline(p)
      PROVE  AnswersTold'
  <2>1. ASSUME NEW c \in Calls, Answered(c)
        PROVE  Answered(c)'
    BY <1>6, <2>1 DEF CheckOnline, Answered
  <2> QED
    BY <1>6, <2>1 DEF CheckOnline
<1>7. ASSUME NEW p \in Procs, ClaimCaller(p)
      PROVE  AnswersTold'
  <2>1. ASSUME NEW c \in Calls, Answered(c)
        PROVE  Answered(c)'
    BY <1>7, <2>1 DEF ClaimCaller, TakeSlot, Answered
  <2> QED
    BY <1>7, <2>1 DEF ClaimCaller, TakeSlot
<1>8. ASSUME NEW p \in Procs, CallerBusy(p)
      PROVE  AnswersTold'
  <2>1. ASSUME NEW c \in Calls, Answered(c)
        PROVE  Answered(c)'
    BY <1>8, <2>1 DEF CallerBusy, Answered
  <2> QED
    BY <1>8, <2>1 DEF CallerBusy
<1>9. ASSUME NEW p \in Procs, ClaimCallee(p)
      PROVE  AnswersTold'
  <2>1. ASSUME NEW c \in Calls, Answered(c)
        PROVE  Answered(c)'
    BY <1>9, <2>1 DEF ClaimCallee, TakeSlot, Answered
  <2> QED
    BY <1>9, <2>1 DEF ClaimCallee, TakeSlot
<1>10. ASSUME NEW p \in Procs, CalleeBusy(p)
      PROVE  AnswersTold'
  <2>1. ASSUME NEW c \in Calls, Answered(c)
        PROVE  Answered(c)'
    BY <1>10, <2>1 DEF CalleeBusy, Answered
  <2> QED
    BY <1>10, <2>1 DEF CalleeBusy
<1>11. ASSUME NEW p \in Procs, Unclaim(p)
      PROVE  AnswersTold'
  <2>1. ASSUME NEW c \in Calls, Answered(c)
        PROVE  Answered(c)'
    BY <1>11, <2>1 DEF Unclaim, FreeSlot, Answered
  <2> QED
    BY <1>11, <2>1 DEF Unclaim, FreeSlot
<1>12. ASSUME NEW p \in Procs, WriteRecord(p)
      PROVE  AnswersTold'
  <2>1. ASSUME NEW c \in Calls, Answered(c)
        PROVE  Answered(c)'
    BY <1>12, <2>1 DEF WriteRecord, Answered
  <2> QED
    BY <1>12, <2>1 DEF WriteRecord
<1>13. ASSUME NEW p \in Procs, Ring(p)
      PROVE  AnswersTold'
  <2>1. ASSUME NEW c \in Calls, Answered(c)
        PROVE  Answered(c)'
    BY <1>13, <2>1 DEF Ring, Answered
  <2> QED
    BY <1>13, <2>1 DEF Ring
<1>14. ASSUME NEW p \in Procs, AnswerWrite(p)
      PROVE  AnswersTold'
  <2>1. ASSUME NEW c \in Calls, Answered(c)
        PROVE  Answered(c)'
    BY <1>14, <2>1 DEF AnswerWrite, Answered
  <2>2. Answered(task[p].call)'
    BY <1>14 DEF AnswerWrite, Answered
  <2> QED
    BY <1>14, <2>1, <2>2 DEF AnswerWrite
<1>15. ASSUME NEW p \in Procs, TellAccepted(p)
      PROVE  AnswersTold'
  <2>1. ASSUME NEW c \in Calls, Answered(c)
        PROVE  Answered(c)'
    BY <1>15, <2>1 DEF TellAccepted, Answered
  <2> QED
    BY <1>15, <2>1 DEF TellAccepted
<1>16. ASSUME NEW p \in Procs, DropLookup(p)
      PROVE  AnswersTold'
  <2>1. ASSUME NEW c \in Calls, Answered(c)
        PROVE  Answered(c)'
    BY <1>16, <2>1 DEF DropLookup, Answered
  <2> QED
    BY <1>16, <2>1 DEF DropLookup
<1>17. ASSUME NEW p \in Procs, DropRead(p)
      PROVE  AnswersTold'
  <2>1. ASSUME NEW c \in Calls, Answered(c)
        PROVE  Answered(c)'
    BY <1>17, <2>1 DEF DropRead, BeginRelease, Settled, Answered
  <2> QED
    BY <1>17, <2>1 DEF DropRead, BeginRelease, Settled
<1>18. ASSUME NEW p \in Procs, DropNothing(p)
      PROVE  AnswersTold'
  <2>1. ASSUME NEW c \in Calls, Answered(c)
        PROVE  Answered(c)'
    BY <1>18, <2>1 DEF DropNothing, Answered
  <2> QED
    BY <1>18, <2>1 DEF DropNothing
<1>19. ASSUME NEW p \in Procs, DeleteRecord(p)
      PROVE  AnswersTold'
  <2>1. ASSUME NEW c \in Calls, Answered(c)
        PROVE  Answered(c)'
    BY <1>19, <2>1 DEF DeleteRecord, Answered
  <2> QED
    BY <1>19, <2>1 DEF DeleteRecord
<1>20. ASSUME NEW p \in Procs, FreeCaller(p)
      PROVE  AnswersTold'
  <2>1. ASSUME NEW c \in Calls, Answered(c)
        PROVE  Answered(c)'
    BY <1>20, <2>1 DEF FreeCaller, FreeSlot, Answered
  <2> QED
    BY <1>20, <2>1 DEF FreeCaller, FreeSlot
<1>21. ASSUME NEW p \in Procs, FreeCallee(p)
      PROVE  AnswersTold'
  <2>1. ASSUME NEW c \in Calls, Answered(c)
        PROVE  Answered(c)'
    BY <1>21, <2>1 DEF FreeCallee, FreeSlot, Answered
  <2> QED
    BY <1>21, <2>1 DEF FreeCallee, FreeSlot
<1>22. ASSUME NEW p \in Procs, Finish(p)
      PROVE  AnswersTold'
  <2>1. ASSUME NEW c \in Calls, Answered(c)
        PROVE  Answered(c)'
    BY <1>22, <2>1 DEF Finish, Answered
  <2> QED
    BY <1>22, <2>1 DEF Finish
<1>23. ASSUME NEW p \in Procs, Post(p)
      PROVE  AnswersTold'
  <2>1. ASSUME NEW c \in Calls, Answered(c)
        PROVE  Answered(c)'
    BY <1>23, <2>1 DEF Post, Answered
  <2> QED
    BY <1>23, <2>1 DEF Post
<1>24. ASSUME NEW p \in Procs, Announce(p)
      PROVE  AnswersTold'
  <2>1. ASSUME NEW c \in Calls, Answered(c)
        PROVE  Answered(c)'
    BY <1>24, <2>1 DEF Announce, Answered
  <2> QED
    BY <1>24, <2>1 DEF Announce
<1>25. ASSUME NEW u \in Users, Connect(u)
      PROVE  AnswersTold'
  <2>1. ASSUME NEW c \in Calls, Answered(c)
        PROVE  Answered(c)'
    BY <1>25, <2>1 DEF Connect, Answered
  <2> QED
    BY <1>25, <2>1 DEF Connect
<1>26. CASE UNCHANGED vars
  BY <1>26 DEF Answered
<1> QED
  BY <1>1, <1>2, <1>3, <1>4, <1>5, <1>6, <1>7, <1>8, <1>9, <1>10, <1>11, <1>12, <1>13, <1>14, <1>15, <1>16, <1>17, <1>18, <1>19, <1>20, <1>21, <1>22, <1>23, <1>24, <1>25, <1>26
     DEF Next, Start, Step

LEMMA PostedStep == RInv /\ [Next]_vars => StatusPosted'
<1> SUFFICES ASSUME RInv, [Next]_vars
             PROVE  StatusPosted'
  OBVIOUS
<1> USE NoneAssumption
    DEF RInv, IInv, TypeOK, HandlersKnow, Known, Live, Participants, StatusPosted
<1>1. ASSUME NEW p \in Procs, NEW c \in Calls, NEW a \in Users, NEW b \in Users, Invite(p, c, a, b)
      PROVE  StatusPosted'
  BY <1>1 DEF Invite
<1>2. ASSUME NEW p \in Procs, NEW c \in Calls, Accept(p, c)
      PROVE  StatusPosted'
  BY <1>2 DEF Accept
<1>3. ASSUME NEW p \in Procs, NEW c \in Calls, Decline(p, c)
      PROVE  StatusPosted'
  BY <1>3 DEF Decline, BeginRelease, Settled
<1>4. ASSUME NEW p \in Procs, NEW c \in Calls, HangUp(p, c)
      PROVE  StatusPosted'
  BY <1>4 DEF HangUp, BeginRelease, Settled
<1>5. ASSUME NEW p \in Procs, NEW u \in Users, Disconnect(p, u)
      PROVE  StatusPosted'
  BY <1>5 DEF Disconnect
<1>6. ASSUME NEW p \in Procs, CheckOnline(p)
      PROVE  StatusPosted'
  BY <1>6 DEF CheckOnline
<1>7. ASSUME NEW p \in Procs, ClaimCaller(p)
      PROVE  StatusPosted'
  BY <1>7 DEF ClaimCaller, TakeSlot
<1>8. ASSUME NEW p \in Procs, CallerBusy(p)
      PROVE  StatusPosted'
  BY <1>8 DEF CallerBusy
<1>9. ASSUME NEW p \in Procs, ClaimCallee(p)
      PROVE  StatusPosted'
  BY <1>9 DEF ClaimCallee, TakeSlot
<1>10. ASSUME NEW p \in Procs, CalleeBusy(p)
      PROVE  StatusPosted'
  BY <1>10 DEF CalleeBusy
<1>11. ASSUME NEW p \in Procs, Unclaim(p)
      PROVE  StatusPosted'
  BY <1>11 DEF Unclaim, FreeSlot
<1>12. ASSUME NEW p \in Procs, WriteRecord(p)
      PROVE  StatusPosted'
  BY <1>12 DEF WriteRecord
<1>13. ASSUME NEW p \in Procs, Ring(p)
      PROVE  StatusPosted'
  BY <1>13 DEF Ring
<1>14. ASSUME NEW p \in Procs, AnswerWrite(p)
      PROVE  StatusPosted'
  BY <1>14 DEF AnswerWrite
<1>15. ASSUME NEW p \in Procs, TellAccepted(p)
      PROVE  StatusPosted'
  BY <1>15 DEF TellAccepted
<1>16. ASSUME NEW p \in Procs, DropLookup(p)
      PROVE  StatusPosted'
  BY <1>16 DEF DropLookup
<1>17. ASSUME NEW p \in Procs, DropRead(p)
      PROVE  StatusPosted'
  BY <1>17 DEF DropRead, BeginRelease, Settled
<1>18. ASSUME NEW p \in Procs, DropNothing(p)
      PROVE  StatusPosted'
  BY <1>18 DEF DropNothing
<1>19. ASSUME NEW p \in Procs, DeleteRecord(p)
      PROVE  StatusPosted'
  BY <1>19 DEF DeleteRecord
<1>20. ASSUME NEW p \in Procs, FreeCaller(p)
      PROVE  StatusPosted'
  BY <1>20 DEF FreeCaller, FreeSlot
<1>21. ASSUME NEW p \in Procs, FreeCallee(p)
      PROVE  StatusPosted'
  BY <1>21 DEF FreeCallee, FreeSlot
<1>22. ASSUME NEW p \in Procs, Finish(p)
      PROVE  StatusPosted'
  BY <1>22 DEF Finish
<1>23. ASSUME NEW p \in Procs, Post(p)
      PROVE  StatusPosted'
  BY <1>23 DEF Post
<1>24. ASSUME NEW p \in Procs, Announce(p)
      PROVE  StatusPosted'
  BY <1>24 DEF Announce
<1>25. ASSUME NEW u \in Users, Connect(u)
      PROVE  StatusPosted'
  BY <1>25 DEF Connect
<1>26. CASE UNCHANGED vars
  BY <1>26
<1> QED
  BY <1>1, <1>2, <1>3, <1>4, <1>5, <1>6, <1>7, <1>8, <1>9, <1>10, <1>11, <1>12, <1>13, <1>14, <1>15, <1>16, <1>17, <1>18, <1>19, <1>20, <1>21, <1>22, <1>23, <1>24, <1>25, <1>26
     DEF Next, Start, Step

LEMMA RInvAlways == Spec => []RInv
<1>1. RInv /\ [Next]_vars => IInv'
  BY StepIInv DEF RInv, FaultyNext
<1>2. RInv /\ [Next]_vars => RInv'
  BY <1>1, TasksFitStep, SlotsKeptStep, UnheardStep, GoneStep, AnswersStep, PostedStep
     DEF RInv
<1> QED
  BY <1>2, InitRInv, PTL DEF Spec

(* While nothing fails, nobody stays marked as busy: however claims,        *)
(* refusals, hang-ups and disconnects interleave, a slot belongs to a call  *)
(* in progress or to one that a handler is still claiming or releasing.     *)
THEOREM NoSlotIsOrphaned == Spec => []NoOrphanSlot
<1>1. RInv => NoOrphanSlot
  BY DEF RInv, SlotsKept, Keeps, NoOrphanSlot
<1> QED
  BY <1>1, RInvAlways, PTL

(* While nothing fails, a refused invite rang nowhere and leaves neither a  *)
(* record nor a slot, also while its caller's other handlers go on.         *)
THEOREM RefusedInvitesLeaveNothing == Spec => []RefusedLeavesNothing
<1>1. RInv => RefusedLeavesNothing
  <2> SUFFICES ASSUME RInv, NEW c \in Calls, "refused" \in told[c]
               PROVE  /\ record[c] = "none"
                      /\ \A u \in Users : slot[u] # c
                      /\ told[c] \cap {"incoming", "accepted"} = {}
    BY DEF RefusedLeavesNothing
  <2>1. Gone(c)
    BY DEF RInv, RefusedIsGone
  <2>2. ASSUME NEW u \in Users, slot[u] = c
        PROVE  FALSE
    <3>1. PICK p \in Procs : task[p].call = c /\ Keeps(p, u)
      BY <2>1, <2>2 DEF RInv, SlotsKept, Gone, Live
    <3> QED
      BY <2>1, <3>1 DEF Gone, Keeps
  <2> QED
    BY <2>1, <2>2 DEF Gone
<1> QED
  BY <1>1, RInvAlways, PTL

(* While nothing fails, a log row says "ended" only of a call that somebody *)
(* answered, whichever of the closers wrote it last.                        *)
THEOREM EndedMeansAnswered == Spec => []EndedWasAnswered
<1>1. RInv => EndedWasAnswered
  BY DEF RInv, AnswersTold, Answered, EndedWasAnswered
<1> QED
  BY <1>1, RInvAlways, PTL

(* While nothing fails, the status a call's log row ends up with is one the *)
(* conversation shows.  Two closers may both have found the record, and     *)
(* both log and post: then the history shows the other's as well.           *)
THEOREM HistoryShowsTheStatus == Spec => []LogMatchesHistory
<1>1. RInv => LogMatchesHistory
  BY DEF RInv, StatusPosted, LogMatchesHistory
<1> QED
  BY <1>1, RInvAlways, PTL
=============================================================================
