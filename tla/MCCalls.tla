------------------------------ MODULE MCCalls ------------------------------
(***************************************************************************)
(* Calls on small instances.  The bound is on the environment: at most     *)
(* MaxStarts handlers are started in all (invites, answers, closers and    *)
(* lost sockets); up to Procs of them are in flight at once.               *)
(***************************************************************************)
EXTENDS Calls, TLC

CONSTANT MaxStarts

VARIABLE starts   \* how many handlers were started

mcVars == <<vars, starts>>

Symmetry == Permutations(Users) \cup Permutations(Calls) \cup Permutations(Procs)

MCInit == Init /\ starts = 0

MCStart ==
  /\ starts < MaxStarts
  /\ \E p \in Procs : Start(p)
  /\ starts' = starts + 1

MCStep(p) == Step(p) /\ UNCHANGED starts

MCFault(p) == Fault(p) /\ UNCHANGED starts

MCConnect == UNCHANGED starts /\ \E u \in Users : Connect(u)

(* The bound is reached and every handler has finished: no deadlock. *)
MCExhausted ==
  starts = MaxStarts /\ (\A p \in Procs : At(p, "idle")) /\ UNCHANGED mcVars

MCNext == MCStart \/ MCConnect \/ MCExhausted \/ \E p \in Procs : MCStep(p)

MCFaultySpec == MCInit /\ [][MCNext \/ \E p \in Procs : MCFault(p)]_mcVars

(* Liveness is not checked under SYMMETRY.  Instead handlers, calls and     *)
(* users get their names in order: whoever invites first is the first user. *)
First(set) == CHOOSE x \in set : TRUE

MCStartInOrder ==
  /\ starts < MaxStarts
  /\ LET idle == {p \in Procs : At(p, "idle")} IN idle # {} /\ Start(First(idle))
  /\ LET free == {c \in Calls : caller[c] = None} IN
     \A c \in free : caller'[c] # None =>
       /\ c = First(free)
       /\ free = Calls => /\ caller'[c] = First(Users)
                         /\ callee'[c] = First(Users \ {caller'[c]})
  /\ starts' = starts + 1

MCFairSpec ==
  /\ MCInit
  /\ [][MCStartInOrder \/ MCConnect \/ MCExhausted \/ \E p \in Procs : MCStep(p)]_mcVars
  /\ \A p \in Procs : WF_mcVars(MCStep(p))
=============================================================================
