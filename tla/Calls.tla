------------------------------- MODULE Calls -------------------------------
(***************************************************************************)
(* One-to-one calls: the Redis call store (realtime/calls.ts), the call    *)
(* service (services/call.service.ts), the call log repository and the     *)
(* socket handlers (realtime/handlers/call.ts, the disconnect handler of   *)
(* realtime/server.ts).                                                    *)
(*                                                                         *)
(* Every handler invocation is a process p.  A step of p is what it does   *)
(* between two awaits that reach Redis or MySQL: several API instances and *)
(* every handler of one instance interleave exactly there.  A lookup whose *)
(* answer only decides "return early" and that is repeated by the next     *)
(* lookup (find before answer or release) is merged with that next lookup: *)
(* the pair returns early exactly when the second one finds nothing.       *)
(* The two-hour TTL of the Redis keys is not modelled.                     *)
(***************************************************************************)
EXTENDS Naturals, FiniteSets

CONSTANTS
  Users,   \* the people who can call each other
  Calls,   \* call identifiers (a randomUUID per invite)
  Procs,   \* handler invocations that can be in flight at once
  None     \* the null value

ASSUME NoneAssumption == None \notin Users /\ None \notin Calls

VARIABLES
  online,    \* the users presence.onlineAmong reports
  slot,      \* slot[u]: Redis call:user:<u>, the call holding u, or None
  record,    \* record[c]: Redis call:<c>: "none", "ringing" or "active"
  caller,    \* caller[c], callee[c]: the participants written into the
  callee,    \*   record of c when it was invited; None before
  log,       \* log[c]: the call_logs row of c: "none", "open" (inserted, no
             \*   endedAt) or its final status
  posted,    \* posted[c]: the statuses system messages about c were written for
  told,      \* told[c]: what sockets were told about c
  released,  \* history: the calls whose record some release has deleted
  pc,        \* pc[p]: where handler p is
  task       \* task[p]: the local variables of handler p

redisVars == <<slot, record>>
callVars == <<caller, callee>>
historyVars == <<log, posted, told, released>>
vars == <<online, slot, record, caller, callee, log, posted, told, released,
          pc, task>>

Statuses == {"missed", "declined", "ended", "busy"}
Events == {"incoming", "accepted", "ended", "refused"}

(* Phases of the invite handler before the record is written or refused.   *)
Inviting == {"checkOnline", "claimCaller", "claimCallee", "writeRecord",
             "unclaim", "undoCaller", "undoCallee"}
Releasing == {"delete", "freeCaller", "freeCallee"}
Closing == {"finish", "post", "announce"}
Answering == {"answerWrite", "tellAccepted"}
Phases == {"idle", "ring", "dropLookup", "dropRead"}
            \cup Inviting \cup Releasing \cup Closing \cup Answering

(* call: the call handled; user: whom dropFor serves; status: the status   *)
(* close() will record; refusing: the handler is an invite still to be     *)
(* acknowledged.                                                           *)
Tasks == [call : Calls \cup {None}, user : Users \cup {None},
          status : Statuses, refusing : BOOLEAN]
Doing(c, u, s, r) == [call |-> c, user |-> u, status |-> s, refusing |-> r]
NoTask == Doing(None, None, "missed", FALSE)
Serving(u) == Doing(None, u, "missed", FALSE)
OnCall(c, s) == Doing(c, None, s, FALSE)
Refusing(c, s) == Doing(c, None, s, TRUE)

TypeOK ==
  /\ online \subseteq Users
  /\ slot \in [Users -> Calls \cup {None}]
  /\ record \in [Calls -> {"none", "ringing", "active"}]
  /\ caller \in [Calls -> Users \cup {None}]
  /\ callee \in [Calls -> Users \cup {None}]
  /\ log \in [Calls -> {"none", "open"} \cup Statuses]
  /\ posted \in [Calls -> SUBSET Statuses]
  /\ told \in [Calls -> SUBSET Events]
  /\ released \subseteq Calls
  /\ pc \in [Procs -> Phases]
  /\ task \in [Procs -> Tasks]

Init ==
  /\ online \in SUBSET Users
  /\ slot = [u \in Users |-> None]
  /\ record = [c \in Calls |-> "none"]
  /\ caller = [c \in Calls |-> None]
  /\ callee = [c \in Calls |-> None]
  /\ log = [c \in Calls |-> "none"]
  /\ posted = [c \in Calls |-> {}]
  /\ told = [c \in Calls |-> {}]
  /\ released = {}
  /\ pc = [p \in Procs |-> "idle"]
  /\ task = [p \in Procs |-> NoTask]

-----------------------------------------------------------------------------
(* Handlers and their control. *)

Goto(p, phase) == pc' = [pc EXCEPT ![p] = phase]

Become(p, phase, t) ==
  /\ pc' = [pc EXCEPT ![p] = phase]
  /\ task' = [task EXCEPT ![p] = t]

Return(p) == Become(p, "idle", NoTask)

At(p, phase) == pc[p] = phase

(* SET call:user:<u> <c> NX: only a free slot is taken. *)
MutTakeAnySlot(u, c) == slot' = [slot EXCEPT ![u] = c]
TakeSlot(u, c) ==
  /\ slot[u] = None
  /\ slot' = [slot EXCEPT ![u] = c]

(* The RELEASE_IF_MINE script: the slot is freed only while c holds it. *)
MutFreeAnySlot(u, c) == slot' = [slot EXCEPT ![u] = None]
FreeSlot(u, c) ==
  slot' = IF slot[u] = c THEN [slot EXCEPT ![u] = None] ELSE slot

(* A call that was never answered cannot have "ended": it was missed. *)
Settled(status, answered) ==
  IF status = "ended" /\ ~answered THEN "missed" ELSE status

-----------------------------------------------------------------------------
(* call:invite.  The membership check and the log row come first. *)

(* a, connected, invites the other member b of their direct conversation;  *)
(* c is the fresh call id, its log row is inserted as MISSED.              *)
Invite(p, c, a, b) ==
  /\ At(p, "idle")
  /\ a \in online
  /\ a # b
  /\ caller[c] = None
  /\ caller' = [caller EXCEPT ![c] = a]
  /\ callee' = [callee EXCEPT ![c] = b]
  /\ log' = [log EXCEPT ![c] = "open"]
  /\ Become(p, "checkOnline", Refusing(c, "missed"))
  /\ UNCHANGED <<online, redisVars, posted, told, released>>

CheckOnline(p) ==
  LET c == task[p].call IN
  /\ At(p, "checkOnline")
  /\ Goto(p, IF callee[c] \in online THEN "claimCaller" ELSE "finish")
  /\ UNCHANGED <<online, redisVars, callVars, historyVars, task>>

ClaimCaller(p) ==
  LET c == task[p].call IN
  /\ At(p, "claimCaller")
  /\ TakeSlot(caller[c], c)
  /\ Goto(p, "claimCallee")
  /\ UNCHANGED <<online, record, callVars, historyVars, task>>

MutCallerBusySilent(p) ==
  /\ At(p, "claimCaller")
  /\ slot[caller[task[p].call]] # None
  /\ Return(p)
  /\ UNCHANGED <<online, redisVars, callVars, historyVars>>

CallerBusy(p) ==
  LET c == task[p].call IN
  /\ At(p, "claimCaller")
  /\ slot[caller[c]] # None
  /\ Become(p, "finish", Refusing(c, "busy"))
  /\ UNCHANGED <<online, redisVars, callVars, historyVars>>

ClaimCallee(p) ==
  LET c == task[p].call IN
  /\ At(p, "claimCallee")
  /\ TakeSlot(callee[c], c)
  /\ Goto(p, "writeRecord")
  /\ UNCHANGED <<online, record, callVars, historyVars, task>>

MutCalleeBusyKeepsCaller(p) ==
  LET c == task[p].call IN
  /\ At(p, "claimCallee")
  /\ slot[callee[c]] # None
  /\ Become(p, "finish", Refusing(c, "busy"))
  /\ UNCHANGED <<online, redisVars, callVars, historyVars>>

CalleeBusy(p) ==
  LET c == task[p].call IN
  /\ At(p, "claimCallee")
  /\ slot[callee[c]] # None
  /\ Become(p, "unclaim", Refusing(c, "busy"))
  /\ UNCHANGED <<online, redisVars, callVars, historyVars>>

(* The callee is busy: the caller's slot is given back. *)
Unclaim(p) ==
  LET c == task[p].call IN
  /\ At(p, "unclaim")
  /\ FreeSlot(caller[c], c)
  /\ Goto(p, "finish")
  /\ UNCHANGED <<online, record, callVars, historyVars, task>>

WriteRecord(p) ==
  LET c == task[p].call IN
  /\ At(p, "writeRecord")
  /\ record' = [record EXCEPT ![c] = "ringing"]
  /\ Goto(p, "ring")
  /\ UNCHANGED <<online, slot, callVars, historyVars, task>>

(* call:incoming to the callee and the ack to the caller, in one turn. *)
Ring(p) ==
  LET c == task[p].call IN
  /\ At(p, "ring")
  /\ told' = [told EXCEPT ![c] = @ \cup {"incoming"}]
  /\ Return(p)
  /\ UNCHANGED <<online, redisVars, callVars, log, posted, released>>

-----------------------------------------------------------------------------
(* call:accept.  A client knows c once call:incoming (or the ack sent in   *)
(* the same turn) told it; its event may still be in flight when it goes   *)
(* offline.  The record is read by one command and written by another.     *)

Accept(p, c) ==
  /\ At(p, "idle")
  /\ "incoming" \in told[c]
  /\ record[c] # "none"
  /\ Become(p, IF record[c] = "active" THEN "tellAccepted" ELSE "answerWrite",
            OnCall(c, "missed"))
  /\ UNCHANGED <<online, redisVars, callVars, historyVars>>

AnswerWrite(p) ==
  LET c == task[p].call IN
  /\ At(p, "answerWrite")
  /\ record' = [record EXCEPT ![c] = "active"]
  /\ Goto(p, "tellAccepted")
  /\ UNCHANGED <<online, slot, callVars, historyVars, task>>

TellAccepted(p) ==
  LET c == task[p].call IN
  /\ At(p, "tellAccepted")
  /\ told' = [told EXCEPT ![c] = @ \cup {"accepted"}]
  /\ Return(p)
  /\ UNCHANGED <<online, redisVars, callVars, log, posted, released>>

-----------------------------------------------------------------------------
(* call:decline, call:hangup and a user's last socket going away all       *)
(* release the record they find and then close the call.                   *)

BeginRelease(p, c, status) ==
  /\ record[c] # "none"
  /\ Become(p, "delete", OnCall(c, Settled(status, record[c] = "active")))

Decline(p, c) ==
  /\ At(p, "idle")
  /\ "incoming" \in told[c]
  /\ BeginRelease(p, c, "declined")
  /\ UNCHANGED <<online, redisVars, callVars, historyVars>>

HangUp(p, c) ==
  /\ At(p, "idle")
  /\ "incoming" \in told[c]
  /\ BeginRelease(p, c, "ended")
  /\ UNCHANGED <<online, redisVars, callVars, historyVars>>

(* The last socket of u is gone: presence.offline, then dropFor(u). *)
Disconnect(p, u) ==
  /\ At(p, "idle")
  /\ u \in online
  /\ online' = online \ {u}
  /\ Become(p, "dropLookup", Serving(u))
  /\ UNCHANGED <<redisVars, callVars, historyVars>>

Connect(u) ==
  /\ u \notin online
  /\ online' = online \cup {u}
  /\ UNCHANGED <<redisVars, callVars, historyVars, pc, task>>

(* activeOf: the call holding u's slot. *)
DropLookup(p) ==
  LET c == slot[task[p].user] IN
  /\ At(p, "dropLookup")
  /\ c # None
  /\ Become(p, "dropRead", OnCall(c, "ended"))
  /\ UNCHANGED <<online, redisVars, callVars, historyVars>>

DropRead(p) ==
  /\ At(p, "dropRead")
  /\ BeginRelease(p, task[p].call, "ended")
  /\ UNCHANGED <<online, redisVars, callVars, historyVars>>

(* No slot, or a slot whose record is gone or not written yet. *)
DropNothing(p) ==
  /\ \/ At(p, "dropLookup") /\ slot[task[p].user] = None
     \/ At(p, "dropRead") /\ record[task[p].call] = "none"
  /\ Return(p)
  /\ UNCHANGED <<online, redisVars, callVars, historyVars>>

DeleteRecord(p) ==
  LET c == task[p].call IN
  /\ At(p, "delete")
  /\ record' = [record EXCEPT ![c] = "none"]
  /\ released' = released \cup {c}
  /\ Goto(p, "freeCaller")
  /\ UNCHANGED <<online, slot, callVars, log, posted, told, task>>

FreeCaller(p) ==
  LET c == task[p].call IN
  /\ At(p, "freeCaller")
  /\ FreeSlot(caller[c], c)
  /\ Goto(p, "freeCallee")
  /\ UNCHANGED <<online, record, callVars, historyVars, task>>

MutFreeCalleeForgets(p) ==
  /\ At(p, "freeCallee")
  /\ Goto(p, "finish")
  /\ UNCHANGED <<online, redisVars, callVars, historyVars, task>>

FreeCallee(p) ==
  LET c == task[p].call IN
  /\ At(p, "freeCallee")
  /\ FreeSlot(callee[c], c)
  /\ Goto(p, "finish")
  /\ UNCHANGED <<online, record, callVars, historyVars, task>>

-----------------------------------------------------------------------------
(* close(): finish the log row, append the system message, announce.       *)

Finish(p) ==
  LET c == task[p].call IN
  /\ At(p, "finish")
  /\ log' = [log EXCEPT ![c] = task[p].status]
  /\ Goto(p, "post")
  /\ UNCHANGED <<online, redisVars, callVars, posted, told, released, task>>

MutPostNothing(p) ==
  /\ At(p, "post")
  /\ Goto(p, "announce")
  /\ UNCHANGED <<online, redisVars, callVars, historyVars, task>>

Post(p) ==
  LET c == task[p].call IN
  /\ At(p, "post")
  /\ posted' = [posted EXCEPT ![c] = @ \cup {task[p].status}]
  /\ Goto(p, "announce")
  /\ UNCHANGED <<online, redisVars, callVars, log, told, released, task>>

(* call:ended to both sides; a refused invite also gets its negative ack.  *)
Announce(p) ==
  LET c == task[p].call IN
  /\ At(p, "announce")
  /\ told' = [told EXCEPT ![c] =
                @ \cup {"ended"} \cup (IF task[p].refusing THEN {"refused"} ELSE {})]
  /\ Return(p)
  /\ UNCHANGED <<online, redisVars, callVars, log, posted, released>>
-----------------------------------------------------------------------------
(* What the code meets when something else fails.                          *)

(* Redis refuses a write of claim() without executing it (out of memory):  *)
(* its catch gives back both slots if they are its own and reports busy.   *)
ClaimError(p) ==
  LET c == task[p].call IN
  /\ pc[p] \in {"claimCaller", "claimCallee", "unclaim", "writeRecord"}
  /\ Become(p, "undoCaller", Refusing(c, "busy"))
  /\ UNCHANGED <<online, redisVars, callVars, historyVars>>

UndoCaller(p) ==
  LET c == task[p].call IN
  /\ At(p, "undoCaller")
  /\ FreeSlot(caller[c], c)
  /\ Goto(p, "undoCallee")
  /\ UNCHANGED <<online, record, callVars, historyVars, task>>

UndoCallee(p) ==
  LET c == task[p].call IN
  /\ At(p, "undoCallee")
  /\ FreeSlot(callee[c], c)
  /\ Goto(p, "finish")
  /\ UNCHANGED <<online, record, callVars, historyVars, task>>

(* The connection drops after SET NX ran and before its reply: ioredis     *)
(* sends the command again and the handler sees its own slot as taken.     *)
ClaimResent(p) ==
  LET c == task[p].call
      caller1 == At(p, "claimCaller")
  IN
  /\ pc[p] \in {"claimCaller", "claimCallee"}
  /\ TakeSlot(IF caller1 THEN caller[c] ELSE callee[c], c)
  /\ Become(p, IF caller1 THEN "finish" ELSE "unclaim", Refusing(c, "busy"))
  /\ UNCHANGED <<online, record, callVars, historyVars>>

(* The API instance dies, or MySQL throws: the rest of the handler is lost. *)
HandlerDies(p) ==
  /\ pc[p] # "idle"
  /\ Return(p)
  /\ UNCHANGED <<online, redisVars, callVars, historyVars>>

-----------------------------------------------------------------------------
(* The specifications. *)

(* A handler in flight goes on. *)
Step(p) ==
  \/ CheckOnline(p) \/ ClaimCaller(p) \/ CallerBusy(p)
  \/ ClaimCallee(p) \/ CalleeBusy(p) \/ Unclaim(p) \/ WriteRecord(p) \/ Ring(p)
  \/ AnswerWrite(p) \/ TellAccepted(p)
  \/ DropLookup(p) \/ DropRead(p) \/ DropNothing(p)
  \/ DeleteRecord(p) \/ FreeCaller(p) \/ FreeCallee(p)
  \/ Finish(p) \/ Post(p) \/ Announce(p)

(* A client event or a lost socket starts a handler. *)
Start(p) ==
  \/ \E c \in Calls : \/ \E a, b \in Users : Invite(p, c, a, b)
                     \/ Accept(p, c)
                     \/ Decline(p, c)
                     \/ HangUp(p, c)
  \/ \E u \in Users : Disconnect(p, u)

Fault(p) ==
  \/ ClaimError(p) \/ UndoCaller(p) \/ UndoCallee(p)
  \/ ClaimResent(p)
  \/ HandlerDies(p)

Next ==
  \/ \E p \in Procs : Start(p) \/ Step(p)
  \/ \E u \in Users : Connect(u)

Spec == Init /\ [][Next]_vars

(* Redis and MySQL answer and the event loop resumes every handler; nobody *)
(* is obliged to call, to answer or to hang up.                            *)
FairSpec == Spec /\ \A p \in Procs : WF_vars(Step(p))

FaultyNext == Next \/ \E p \in Procs : Fault(p)

FaultySpec == Init /\ [][FaultyNext]_vars

-----------------------------------------------------------------------------
(* Properties. *)

(* A call in progress: its record is there and no release has deleted it.  *)
(* (A record written by a late accept after the release does not count.)   *)
Live(c) == record[c] # "none" /\ c \notin released

Participants(c) == {caller[c], callee[c]}

(* Nobody is in two calls in progress: claim, answer and release run as     *)
(* separate Redis commands, from any number of handlers and instances.      *)
ExclusiveCalls ==
  \A c, d \in Calls :
    Live(c) /\ Live(d) /\ c # d => Participants(c) \cap Participants(d) = {}

(* A call in progress holds both of its slots, so either participant's      *)
(* disconnect finds it and any other invite to them is refused.             *)
LiveHoldsSlots ==
  \A c \in Calls : Live(c) => \A u \in Participants(c) : slot[u] = c

(* When no handler or component fails, no user stays marked as busy: a      *)
(* slot names a call that is in progress, being claimed or being released.  *)
NoOrphanSlot ==
  \A u \in Users, c \in Calls :
    slot[u] = c =>
      \/ Live(c)
      \/ \E p \in Procs : task[p].call = c /\ pc[p] \in Inviting \cup Releasing

(* An invite that was refused (offline or busy) rang nowhere and keeps      *)
(* neither a record nor anybody's slot.                                     *)
RefusedLeavesNothing ==
  \A c \in Calls :
    "refused" \in told[c] =>
      /\ record[c] = "none"
      /\ \A u \in Users : slot[u] # c
      /\ told[c] \cap {"incoming", "accepted"} = {}

(* The log says "ended" (with a duration) only of a call somebody answered; *)
(* everybody was told so, or the answering handler is about to tell.        *)
EndedWasAnswered ==
  \A c \in Calls :
    log[c] = "ended" =>
      \/ "accepted" \in told[c]
      \/ \E p \in Procs : pc[p] = "tellAccepted" /\ task[p].call = c

(* Once its handlers are done, the status in a call's log row is one the    *)
(* conversation shows a system message for, however many closers raced.     *)
LogMatchesHistory ==
  \A c \in Calls :
    /\ log[c] \in Statuses
    /\ \A p \in Procs : task[p].call # c
    => log[c] \in posted[c]

(* A slot is taken from a call only by that call: after its release deleted *)
(* the record, or while its own invite backs out.  A late or repeated       *)
(* release never frees the slot of a newer call.                            *)
BackingOut(c) ==
  \E p \in Procs :
    task[p].call = c /\ pc[p] \in {"unclaim", "undoCaller", "undoCallee"}

SlotFreedOnlyByItsCall ==
  [][\A u \in Users, c \in Calls :
       slot[u] = c /\ slot'[u] # c => c \in released \/ BackingOut(c)]_vars

(* Every invite is answered: with the id of a ringing call or a refusal.    *)
InviteAnswered ==
  \A c \in Calls :
    log[c] = "open" ~> told[c] \cap {"incoming", "refused"} # {}

(* A released call is settled: its row gets a final status, the             *)
(* conversation a system message, both participants call:ended.             *)
ReleasedSettles ==
  \A c \in Calls :
    c \in released ~> /\ log[c] \in Statuses
                      /\ posted[c] # {}
                      /\ "ended" \in told[c]

(* The refinement: calls whose record exists are the engaged ones of        *)
(* Telephony, calls once released are over.                                 *)
PhaseOf(c) ==
  IF c \in released THEN "over"
  ELSE IF record[c] = "none" THEN "idle" ELSE record[c]
Rang(c) == c \in released \/ record[c] # "none"

Abstract == INSTANCE Telephony
  WITH phase <- [c \in Calls |-> PhaseOf(c)],
       line <- [c \in Calls |-> IF Rang(c) THEN Participants(c) ELSE {}]

ImplementsTelephony == Abstract!Spec
=============================================================================
