---------------------------- MODULE MCApiClient ----------------------------
(***************************************************************************)
(* ApiClient on a small instance: tabs in browsers of their own, whose     *)
(* responses arrive.  At most MaxStarts requests are sent; at most MaxAge  *)
(* tokens expire, connections drop and statements fail.                    *)
(***************************************************************************)
EXTENDS ApiClient, TLC

CONSTANTS MaxStarts, MaxAge, tab1, jar1, f3, ann, bob

VARIABLES starts, ages

mcVars == <<apiVars, starts, ages>>

MCJar == [b \in Tabs |-> jar1]
MCOwner == [f \in Families |-> IF f = f3 THEN bob ELSE ann]

Symmetry ==
  UNION {Permutations(S) : S \in {Requests, Tokens, Fetches, Families \ {f3}}}

MCInit == ApiInit /\ starts = 0 /\ ages = 0

MCStart == starts < MaxStarts /\ ApiStart /\ starts' = starts + 1 /\ UNCHANGED ages
MCAge == ages < MaxAge /\ ApiAge /\ ages' = ages + 1 /\ UNCHANGED starts
MCServe ==
  /\ UNCHANGED <<starts, ages>>
  /\ \/ \E p \in Requests : Handle(p)
     \/ \E k \in Fetches : Serve(k)
     \/ \E b \in Tabs : Handshake(b) \/ StrayHandshake(b)

MCSpec == MCInit /\ [][MCStart \/ MCAge \/ MCServe]_mcVars
=============================================================================
