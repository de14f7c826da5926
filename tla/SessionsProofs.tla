--------------------------- MODULE SessionsProofs ---------------------------
(***************************************************************************)
(* Proofs about Sessions and about the client composed with it, ApiClient, *)
(* for any number of tabs, browsers, requests, tokens and families.        *)
(*                                                                         *)
(*  1. With responses lost and instances dying (Spec).  OneActivePerFamily *)
(*     is not inductive: between the statement that claims a token and the *)
(*     one that inserts its successor, the family has no active token and  *)
(*     the right to mint one sits in a request.  OneRight counts both.     *)
(*  2. With every request answered and one tab per browser (ReliableSpec   *)
(*     and OneTabPerBrowser): HonestInv follows who holds a token.         *)
(*  3. The client (ApiSpec): ApiInv, and for the user of a tab TabInv.     *)
(***************************************************************************)
EXTENDS ApiClient, TLAPS

TokensKnow ==
  /\ \A t \in Tokens :
       /\ row[t] # "unused" => family[t] \in Families
       /\ row[t] = "unused" => family[t] = None /\ parent[t] = None
  /\ \A j \in Browsers : cookie[j] # None => row[cookie[j]] # "unused"

(* What a request may rely on about the token it carries, by phase.         *)
RequestsKnow ==
  \A p \in Requests :
    /\ req[p].token # None => row[req[p].token] # "unused"
    /\ req[p].minted # None => row[req[p].minted] # "unused"
    /\ pc[p] \in {"find", "logoutFind"} => req[p].token # None
    /\ pc[p] \in {"claim", "revokeExpired", "revokeFamily", "logoutDelete"} =>
         req[p].token # None /\ req[p].family = family[req[p].token]
    /\ pc[p] = "persist" =>
         /\ req[p].family \in Families
         /\ req[p].token # None => req[p].family = family[req[p].token]

(* The right to mint in a family: an active token or a request at persist.  *)
OneRight ==
  /\ OneActivePerFamily
  /\ \A p \in Requests :
       pc[p] = "persist" =>
         /\ \A t \in Tokens : row[t] = "active" => family[t] # req[p].family
         /\ \A q \in Requests :
              q # p /\ pc[q] = "persist" => req[q].family # req[p].family

(* Only a token that was claimed has a successor, and not before its        *)
(* claimer has minted it.                                                   *)
ParentsAreSpent ==
  /\ RotatedOnce
  /\ \A t \in Tokens : parent[t] # None => row[parent[t]] \in {"revoked", "deleted"}
  /\ \A p \in Requests :
       pc[p] = "persist" /\ req[p].token # None =>
         /\ row[req[p].token] \in {"revoked", "deleted"}
         /\ \A t \in Tokens : parent[t] # req[p].token

IInv ==
  /\ TypeOK
  /\ TokensKnow
  /\ RequestsKnow
  /\ OneRight
  /\ ParentsAreSpent

USE DEF tokenVars, histVars, vars, Phases, Reqs, Req, NoReq, At, Goto, Become, Idle

LEMMA InitIInv == Init => IInv
  BY NoneAssumption
  DEF Init, IInv, TypeOK, TokensKnow, RequestsKnow, OneRight, ParentsAreSpent,
      OneActivePerFamily, RotatedOnce

LEMMA StepIInv == IInv /\ [Next]_vars => IInv'
<1> SUFFICES ASSUME IInv, [Next]_vars
             PROVE  IInv'
  OBVIOUS
<1> USE NoneAssumption, JarAssumption
    DEF IInv, TypeOK, TokensKnow, RequestsKnow, OneRight, ParentsAreSpent,
        OneActivePerFamily, RotatedOnce
<1>1. ASSUME NEW p \in Requests, NEW b \in Tabs, NEW f \in Families, Login(p, b, f)
      PROVE  IInv'
  <2>1. TypeOK'
    BY <1>1 DEF Login
  <2>2. TokensKnow'
    BY <1>1 DEF Login
  <2>3. RequestsKnow'
    BY <1>1 DEF Login
  <2>4. OneRight'
    BY <1>1 DEF Login
  <2>5. ParentsAreSpent'
    BY <1>1 DEF Login
  <2> QED
    BY <2>1, <2>2, <2>3, <2>4, <2>5
<1>2. ASSUME NEW p \in Requests, NEW b \in Tabs, Refresh(p, b)
      PROVE  IInv'
  BY <1>2 DEF Refresh
<1>3. ASSUME NEW p \in Requests, NEW b \in Tabs, Logout(p, b)
      PROVE  IInv'
  BY <1>3 DEF Logout
<1>4. ASSUME NEW p \in Requests, FindAbsent(p)
      PROVE  IInv'
  BY <1>4 DEF FindAbsent
<1>5. ASSUME NEW p \in Requests, Find(p)
      PROVE  IInv'
  <2>1. TypeOK'
    <3>1. req[p].token \in Tokens
      BY <1>5 DEF Find
    <3>2. [req[p] EXCEPT !.family = family[req[p].token]] \in Reqs
      BY <3>1
    <3>3. req' \in [Requests -> Reqs]
      BY <1>5, <3>2 DEF Find
    <3>4. pc' \in [Requests -> Phases]
      BY <1>5 DEF Find
    <3> QED
      BY <1>5, <3>3, <3>4 DEF Find
  <2>2. TokensKnow'
    BY <1>5 DEF Find
  <2>3. RequestsKnow'
    BY <1>5 DEF Find
  <2>4. OneRight'
    BY <1>5 DEF Find
  <2>5. ParentsAreSpent'
    BY <1>5 DEF Find
  <2> QED
    BY <2>1, <2>2, <2>3, <2>4, <2>5
<1>6. ASSUME NEW p \in Requests, RevokeExpired(p)
      PROVE  IInv'
  BY <1>6 DEF RevokeExpired
<1>7. ASSUME NEW p \in Requests, Claim(p)
      PROVE  IInv'
  <2>1. TypeOK'
    BY <1>7 DEF Claim
  <2>2. TokensKnow'
    BY <1>7 DEF Claim
  <2>3. RequestsKnow'
    BY <1>7 DEF Claim
  <2>4. OneRight'
    BY <1>7 DEF Claim
  <2>5. ParentsAreSpent'
    BY <1>7 DEF Claim
  <2> QED
    BY <2>1, <2>2, <2>3, <2>4, <2>5
<1>8. ASSUME NEW p \in Requests, ClaimMissed(p)
      PROVE  IInv'
  BY <1>8 DEF ClaimMissed
<1>9. ASSUME NEW p \in Requests, RevokeFamily(p)
      PROVE  IInv'
  BY <1>9 DEF RevokeFamily
<1>10. ASSUME NEW p \in Requests, NEW t \in Tokens, Persist(p, t)
      PROVE  IInv'
  <2>1. TypeOK'
    <3>1. [req[p] EXCEPT !.minted = t] \in Reqs
      OBVIOUS
    <3>2. req' \in [Requests -> Reqs]
      BY <1>10, <3>1 DEF Persist
    <3>3. parent' \in [Tokens -> Tokens \cup {None}]
      BY <1>10 DEF Persist
    <3> QED
      BY <1>10, <3>2, <3>3 DEF Persist
  <2>2. TokensKnow'
    BY <1>10 DEF Persist
  <2>3. RequestsKnow'
    BY <1>10 DEF Persist
  <2>4. OneRight'
    BY <1>10 DEF Persist
  <2>5. ParentsAreSpent'
    BY <1>10 DEF Persist
  <2> QED
    BY <2>1, <2>2, <2>3, <2>4, <2>5
<1>11. ASSUME NEW p \in Requests, LogoutFind(p)
      PROVE  IInv'
  <2>1. TypeOK'
    <3>1. req[p].token \in Tokens
      BY <1>11 DEF LogoutFind
    <3>2. [req[p] EXCEPT !.family = family[req[p].token]] \in Reqs
      BY <3>1
    <3> QED
      BY <1>11, <3>2 DEF LogoutFind
  <2>2. TokensKnow'
    BY <1>11 DEF LogoutFind
  <2>3. RequestsKnow'
    BY <1>11 DEF LogoutFind
  <2>4. OneRight'
    BY <1>11 DEF LogoutFind
  <2>5. ParentsAreSpent'
    BY <1>11 DEF LogoutFind
  <2> QED
    BY <2>1, <2>2, <2>3, <2>4, <2>5
<1>12. ASSUME NEW p \in Requests, LogoutAbsent(p)
      PROVE  IInv'
  BY <1>12 DEF LogoutAbsent
<1>13. ASSUME NEW p \in Requests, LogoutDelete(p)
      PROVE  IInv'
  BY <1>13 DEF LogoutDelete
<1>14. ASSUME NEW p \in Requests, Respond(p)
      PROVE  IInv'
  <2>1. TypeOK'
    BY <1>14 DEF Respond, SetCookie
  <2>2. TokensKnow'
    BY <1>14 DEF Respond, SetCookie
  <2>3. RequestsKnow'
    BY <1>14 DEF Respond, SetCookie
  <2>4. OneRight'
    BY <1>14 DEF Respond, SetCookie
  <2>5. ParentsAreSpent'
    BY <1>14 DEF Respond, SetCookie
  <2> QED
    BY <2>1, <2>2, <2>3, <2>4, <2>5
<1>15. ASSUME NEW p \in Requests, LoseResponse(p)
      PROVE  IInv'
  BY <1>15 DEF LoseResponse
<1>16. ASSUME NEW p \in Requests, HandlerDies(p)
      PROVE  IInv'
  BY <1>16 DEF HandlerDies
<1>17. ASSUME NEW t \in Tokens, Expire(t)
      PROVE  IInv'
  BY <1>17 DEF Expire
<1>18. ASSUME NEW p \in Requests, StatementFails(p)
      PROVE  IInv'
  <2>1. \E r \in Reqs, c \in {"error", "idle"} :
          Become(p, c, r) /\ r.token \in {req[p].token, None} /\ r.minted = None
    <3>1. [req[p] EXCEPT !.minted = None] \in Reqs
      OBVIOUS
    <3>2. NoReq \in Reqs
      OBVIOUS
    <3> QED
      BY <1>18, <3>1, <3>2 DEF StatementFails
  <2>2. PICK r \in Reqs, c \in {"error", "idle"} :
          Become(p, c, r) /\ r.token \in {req[p].token, None} /\ r.minted = None
    BY <2>1
  <2>3. UNCHANGED <<row, family, parent, expired, cookie, reused, loggedOut>>
    BY <1>18 DEF StatementFails
  <2>4. TypeOK'
    <3>1. req' \in [Requests -> Reqs]
      BY <2>2
    <3>2. pc' \in [Requests -> Phases]
      BY <2>2
    <3> QED
      BY <2>3, <3>1, <3>2
  <2>5. /\ pc'[p] \in {"error", "idle"} /\ req'[p] = r
        /\ \A q \in Requests : q # p => pc'[q] = pc[q] /\ req'[q] = req[q]
    BY <2>2
  <2>6. TokensKnow'
    BY <2>3
  <2>7. RequestsKnow'
    BY <2>2, <2>3, <2>5
  <2>8. OneRight'
    BY <2>3, <2>5
  <2>9. ParentsAreSpent'
    BY <2>3, <2>5
  <2> QED
    BY <2>4, <2>6, <2>7, <2>8, <2>9
<1>19. ASSUME NEW p \in Requests, TurnedAway(p)
      PROVE  IInv'
  BY <1>19 DEF TurnedAway
<1>20. CASE UNCHANGED vars
  BY <1>20
<1> QED
  BY <1>1, <1>2, <1>3, <1>4, <1>5, <1>6, <1>7, <1>8, <1>9, <1>10, <1>11,
     <1>12, <1>13, <1>14, <1>15, <1>16, <1>17, <1>18, <1>19, <1>20
  DEF Next, ReliableNext, Start, Step

LEMMA IInvAlways == Spec => []IInv
  BY InitIInv, StepIInv, PTL DEF Spec

(* Requests that are all answered are a special case of Spec.               *)
THEOREM ReliableSpecIsSpec == ReliableSpec => Spec
<1>1. [ReliableNext]_vars => [Next]_vars
  BY DEF Next
<1> QED
  BY <1>1, PTL DEF Spec, ReliableSpec

(* Every variable keeps its type. *)
THEOREM TypeCorrect == Spec => []TypeOK
  BY IInvAlways, PTL DEF IInv

(* However many requests rotate a session at once, it never has two usable  *)
(* refresh tokens.                                                          *)
THEOREM AtMostOneActive == Spec => []OneActivePerFamily
<1>1. IInv => OneActivePerFamily
  BY DEF IInv, OneRight
<1> QED
  BY <1>1, IInvAlways, PTL

(* No refresh token is ever exchanged for two successors.                   *)
THEOREM TokensRotateOnce == Spec => []RotatedOnce
<1>1. IInv => RotatedOnce
  BY DEF IInv, ParentsAreSpent
<1> QED
  BY <1>1, IInvAlways, PTL

(* A session without an active token and without a rotation past its claim  *)
(* never has one again: minting needs a fresh family, an active token or    *)
(* such a rotation.                                                         *)
THEOREM DeadFamiliesStayDead == Spec => DeadFamilyStaysDead
<1>1. ASSUME IInv, [Next]_vars, NEW f \in Families, Dead(f)
      PROVE  Dead(f)'
  <2> USE <1>1, NoneAssumption DEF IInv, TypeOK, Dead
  <2>1. ASSUME NEW p \in Requests, NEW b \in Tabs, NEW g \in Families,
               Login(p, b, g)
        PROVE  Dead(f)'
    BY <2>1 DEF Login
  <2>2. ASSUME NEW p \in Requests, Claim(p)
        PROVE  Dead(f)'
    BY <2>2 DEF Claim, RequestsKnow
  <2>3. ASSUME NEW p \in Requests, NEW t \in Tokens, Persist(p, t)
        PROVE  Dead(f)'
    BY <2>3 DEF Persist, TokensKnow
  <2>4. ASSUME NEW p \in Requests,
               \/ \E b \in Tabs : Refresh(p, b) \/ Logout(p, b)
               \/ FindAbsent(p) \/ Find(p) \/ ClaimMissed(p)
               \/ LogoutFind(p) \/ LogoutAbsent(p) \/ Respond(p)
               \/ LoseResponse(p) \/ HandlerDies(p)
               \/ StatementFails(p) \/ TurnedAway(p)
        PROVE  Dead(f)'
    BY <2>4
    DEF Refresh, Logout, FindAbsent, Find, ClaimMissed, LogoutFind,
        LogoutAbsent, Respond, LoseResponse, HandlerDies, StatementFails, TurnedAway
  <2>5. ASSUME NEW p \in Requests,
               RevokeExpired(p) \/ RevokeFamily(p) \/ LogoutDelete(p)
        PROVE  Dead(f)'
    BY <2>5 DEF RevokeExpired, RevokeFamily, LogoutDelete
  <2>6. CASE UNCHANGED <<row, family, pc, req>>
    BY <2>6
  <2> QED
    BY <2>1, <2>2, <2>3, <2>4, <2>5, <2>6
    DEF Next, ReliableNext, Start, Step, Expire
<1>2. IInv /\ [Next]_vars => [\A f \in Families : Dead(f) => Dead(f)']_vars
  BY <1>1
<1> QED
  BY <1>2, IInvAlways, PTL DEF Spec, DeadFamilyStaysDead

-----------------------------------------------------------------------------
(***************************************************************************)
(* The honest client: every request is answered and no two tabs share a    *)
(* cookie jar.  What must be known is who holds a token: the cookie of one *)
(* tab and the requests of that tab, so that nobody else can claim it.     *)
(***************************************************************************)
OneTabPerBrowser == \A b, c \in Tabs : Jar[b] = Jar[c] => b = c

RequestsBelong ==
  \A p \in Requests : IF Idle(p) THEN req[p] = NoReq ELSE req[p].tab \in Tabs

OneRefresh ==
  \A p, q \in Requests :
    Refreshing(p) /\ Refreshing(q) /\ req[p].tab = req[q].tab => p = q

(* A token that is in a cookie or was sent with a request is one tab's.     *)
TokensHaveOneHolder ==
  /\ \A b, c \in Tabs : cookie[Jar[b]] # None /\ cookie[Jar[b]] = cookie[Jar[c]] => b = c
  /\ \A b \in Tabs, p \in Requests :
       cookie[Jar[b]] # None /\ cookie[Jar[b]] = req[p].token => req[p].tab = b
  /\ \A p, q \in Requests :
       req[p].token # None /\ req[p].token = req[q].token => req[p].tab = req[q].tab

(* A minted token is known to nobody before its response arrives.           *)
MintedIsFresh ==
  \A p \in Requests : LET m == req[p].minted IN
    m # None =>
      /\ At(p, "grant")
      /\ \A j \in Browsers : cookie[j] # m
      /\ \A q \in Requests : req[q].token # m /\ (q # p => req[q].minted # m)

Sound(t) == row[t] = "active" \/ family[t] \in loggedOut

DeletedIsSignedOut == \A t \in Tokens : row[t] = "deleted" => family[t] \in loggedOut

(* A cookie is as good as new, or the refresh that spent it is in flight.   *)
Spending(p, b) ==
  req[p].tab = b /\ req[p].token = cookie[Jar[b]] /\ Refreshing(p) /\ pc[p] # "find"
CookieIsSound ==
  \A b \in Tabs : LET t == cookie[Jar[b]] IN
    t # None => Sound(t) \/ \E p \in Requests : Spending(p, b)

RequestsAreSound ==
  \A p \in Requests : LET t == req[p].token IN
    /\ pc[p] \in {"find", "claim"} => Sound(t)
    /\ pc[p] = "revokeFamily" => req[p].family \in loggedOut
    /\ pc[p] = "revokeExpired" => t \in expired
    /\ pc[p] = "deny" => t = None \/ family[t] \in loggedOut \/ t \in expired
    /\ pc[p] = "grant" => req[p].minted # None /\ Sound(req[p].minted)

HonestInv ==
  /\ RequestsBelong
  /\ OneRefresh
  /\ TokensHaveOneHolder
  /\ MintedIsFresh
  /\ DeletedIsSignedOut
  /\ CookieIsSound
  /\ RequestsAreSound

LEMMA HonestStep ==
  ASSUME OneTabPerBrowser, IInv, HonestInv, [ReliableNext]_vars
  PROVE  HonestInv'
<1> USE NoneAssumption, JarAssumption
    DEF IInv, TypeOK, TokensKnow, RequestsKnow, HonestInv, RequestsBelong, OneRefresh,
        TokensHaveOneHolder, MintedIsFresh, DeletedIsSignedOut, CookieIsSound,
        RequestsAreSound, Sound, Spending, Refreshing
<1>1. ASSUME NEW p \in Requests, NEW b \in Tabs, NEW f \in Families, Login(p, b, f)
      PROVE  HonestInv'
  BY <1>1, HonestInv DEF Login
<1>2. ASSUME NEW p \in Requests, NEW b \in Tabs, Refresh(p, b)
      PROVE  HonestInv'
  BY <1>2, HonestInv DEF Refresh
<1>3. ASSUME NEW p \in Requests, NEW b \in Tabs, Logout(p, b)
      PROVE  HonestInv'
  BY <1>3, HonestInv DEF Logout
<1>4. ASSUME NEW p \in Requests, FindAbsent(p)
      PROVE  HonestInv'
  BY <1>4, HonestInv DEF FindAbsent
<1>5. ASSUME NEW p \in Requests, Find(p)
      PROVE  HonestInv'
  BY <1>5, HonestInv DEF Find
<1>6. ASSUME NEW p \in Requests, RevokeExpired(p)
      PROVE  HonestInv'
  BY <1>6, HonestInv DEF RevokeExpired
<1>7. ASSUME NEW p \in Requests, Claim(p)
      PROVE  HonestInv'
  BY <1>7, HonestInv DEF Claim
<1>8. ASSUME NEW p \in Requests, ClaimMissed(p)
      PROVE  HonestInv'
  BY <1>8, HonestInv DEF ClaimMissed
<1>9. ASSUME NEW p \in Requests, RevokeFamily(p)
      PROVE  HonestInv'
  BY <1>9, HonestInv DEF RevokeFamily
<1>10. ASSUME NEW p \in Requests, NEW t \in Tokens, Persist(p, t)
      PROVE  HonestInv'
  BY <1>10, HonestInv DEF Persist
<1>11. ASSUME NEW p \in Requests, LogoutFind(p)
      PROVE  HonestInv'
  BY <1>11, HonestInv DEF LogoutFind
<1>12. ASSUME NEW p \in Requests, LogoutAbsent(p)
      PROVE  HonestInv'
  BY <1>12, HonestInv DEF LogoutAbsent
<1>13. ASSUME NEW p \in Requests, LogoutDelete(p)
      PROVE  HonestInv'
  BY <1>13, HonestInv DEF LogoutDelete
<1>14. ASSUME NEW p \in Requests, Respond(p)
      PROVE  HonestInv'
  BY <1>14, HonestInv DEF Respond, SetCookie, OneTabPerBrowser
<1>15. ASSUME NEW t \in Tokens, Expire(t)
      PROVE  HonestInv'
  BY <1>15, HonestInv DEF Expire
<1>16. ASSUME NEW p \in Requests, StatementFails(p)
      PROVE  HonestInv'
  <2>1. CASE ~Refreshing(p)
    <3>1. /\ pc' = [pc EXCEPT ![p] = "idle"] /\ req' = [req EXCEPT ![p] = NoReq]
          /\ UNCHANGED <<row, family, parent, expired, cookie, reused, loggedOut>>
      BY <1>16, <2>1 DEF StatementFails
    <3>2. /\ req'[p] = NoReq /\ pc'[p] = "idle"
          /\ \A q \in Requests : q # p => req'[q] = req[q] /\ pc'[q] = pc[q]
      BY <3>1
    <3>3. RequestsBelong' /\ OneRefresh' /\ DeletedIsSignedOut'
      BY <3>1, <3>2, HonestInv
    <3>4. TokensHaveOneHolder' /\ MintedIsFresh'
      BY <3>1, <3>2, HonestInv
    <3>5. CookieIsSound'
      BY <2>1, <3>1, <3>2, HonestInv
    <3>6. RequestsAreSound'
      BY <3>1, <3>2, HonestInv
    <3> QED
      BY <3>3, <3>4, <3>5, <3>6
  <2>2. CASE Refreshing(p)
    <3>9. /\ pc' = [pc EXCEPT ![p] = "error"]
          /\ req' = [req EXCEPT ![p] = [req[p] EXCEPT !.minted = None]]
          /\ UNCHANGED <<row, family, parent, expired, cookie, reused, loggedOut>>
      BY <1>16, <2>2 DEF StatementFails
    <3>1. /\ pc' = [pc EXCEPT ![p] = "error"]
          /\ req'[p] = [req[p] EXCEPT !.minted = None]
          /\ \A q \in Requests : q # p => req'[q] = req[q]
          /\ UNCHANGED <<row, family, parent, expired, cookie, reused, loggedOut>>
      BY <3>9
    <3>2. /\ \A q \in Requests : req'[q].tab = req[q].tab /\ req'[q].token = req[q].token
          /\ \A q \in Requests : req'[q].minted \in {req[q].minted, None}
          /\ req'[p].minted = None
      <4>1. req[p] \in Reqs
        OBVIOUS
      <4>2. /\ req'[p].tab = req[p].tab /\ req'[p].token = req[p].token
            /\ req'[p].family = req[p].family /\ req'[p].minted = None
        BY <3>1, <4>1
      <4> QED
        BY <3>1, <4>2
    <3>3. \A q \in Requests : Refreshing(q)' <=> Refreshing(q)
      BY <2>2, <3>1, <3>2
    <3>4. RequestsBelong'
      BY <2>2, <3>1, <3>2, HonestInv
    <3>5. OneRefresh' /\ TokensHaveOneHolder' /\ DeletedIsSignedOut'
      BY <3>1, <3>2, <3>3, HonestInv
    <3>6. MintedIsFresh'
      BY <3>1, <3>2, HonestInv
    <3>7. CookieIsSound'
      BY <2>2, <3>1, <3>2, HonestInv
    <3>8. RequestsAreSound'
      BY <3>1, <3>2, HonestInv
    <3> QED
      BY <3>4, <3>5, <3>6, <3>7, <3>8
  <2> QED
    BY <2>1, <2>2
<1>17. ASSUME NEW p \in Requests, TurnedAway(p)
      PROVE  HonestInv'
  <2>1. /\ pc' = [pc EXCEPT ![p] = "idle"] /\ req' = [req EXCEPT ![p] = NoReq]
        /\ pc[p] = "find" \/ req[p].token = None
        /\ UNCHANGED <<row, family, parent, expired, cookie, reused, loggedOut>>
    BY <1>17 DEF TurnedAway
  <2>2. /\ req'[p] = NoReq /\ pc'[p] = "idle"
        /\ \A q \in Requests : q # p => req'[q] = req[q] /\ pc'[q] = pc[q]
    BY <2>1
  <2>3. RequestsBelong' /\ OneRefresh' /\ DeletedIsSignedOut'
    BY <2>1, <2>2, HonestInv
  <2>4. TokensHaveOneHolder' /\ MintedIsFresh'
    BY <2>1, <2>2, HonestInv
  <2>5. CookieIsSound'
    BY <2>1, <2>2, HonestInv
  <2>6. RequestsAreSound'
    BY <2>1, <2>2, HonestInv
  <2> QED
    BY <2>3, <2>4, <2>5, <2>6
<1>18. CASE UNCHANGED vars
  BY <1>18, HonestInv
<1> QED
  BY <1>1, <1>2, <1>3, <1>4, <1>5, <1>6, <1>7, <1>8, <1>9, <1>10, <1>11, <1>12, <1>13,
     <1>14, <1>15, <1>16, <1>17, <1>18, HonestInv DEF ReliableNext, Start, Step

LEMMA HonestInit == Init => HonestInv
  BY JarAssumption, NoneAssumption
  DEF Init, HonestInv, RequestsBelong, OneRefresh, TokensHaveOneHolder, MintedIsFresh,
      DeletedIsSignedOut, CookieIsSound, RequestsAreSound, Refreshing

LEMMA HonestAlways ==
  ASSUME OneTabPerBrowser
  PROVE  ReliableSpec => [](IInv /\ HonestInv)
<1>1. ReliableSpec => []IInv
  BY ReliableSpecIsSpec, IInvAlways, PTL
<1>2. IInv /\ HonestInv /\ [ReliableNext]_vars => HonestInv'
  BY HonestStep
<1> QED
  BY <1>1, <1>2, HonestInit, PTL DEF ReliableSpec

(* However sign-ins, sign-outs and refreshes of a browser overlap, the      *)
(* cookie it is left with can be refreshed, unless its session was signed   *)
(* out: a browser with one tab whose responses arrive never keeps a token   *)
(* that its own requests have spent.                                        *)
THEOREM CookieStaysUsable ==
  ASSUME OneTabPerBrowser
  PROVE  ReliableSpec => []CookieIsUsable
<1>1. IInv /\ HonestInv => CookieIsUsable
  BY DEF HonestInv, CookieIsSound, CookieIsUsable, Sound, Spending
<1> QED
  BY <1>1, HonestAlways, PTL

(* Such a browser is never signed out for a reused token: the answer that   *)
(* takes its cookie away is to a sign-out, to a request that had none, to a *)
(* refresh of a session that was signed out or expired, or to one that met  *)
(* an error, for which the controller clears any cookie.                    *)
THEOREM HonestStaysSignedIn ==
  ASSUME OneTabPerBrowser
  PROVE  ReliableSpec => StaysSignedIn
<1> DEFINE Excused(b) ==
      \E p \in Requests :
        /\ req[p].tab = b /\ req'[p].tab = None
        /\ \/ At(p, "bye")
           \/ At(p, "error")
           \/ req[p].token = None
           \/ family[req[p].token] \in loggedOut
           \/ req[p].token \in expired
<1>1. ASSUME IInv, HonestInv, ReliableNext, NEW b \in Tabs,
             cookie[Jar[b]] # None, cookie'[Jar[b]] = None
      PROVE  Excused(b)
  <2> USE JarAssumption DEF IInv, TypeOK, HonestInv
  <2>1. PICK p \in Requests : Respond(p)
    BY <1>1
    DEF ReliableNext, Start, Step, Login, Refresh, Logout, FindAbsent, Find,
        RevokeExpired, Claim, ClaimMissed, RevokeFamily, Persist, LogoutFind,
        LogoutAbsent, LogoutDelete, Expire, StatementFails, TurnedAway
  <2>2. req[p].tab \in Tabs /\ Jar[req[p].tab] = Jar[b] /\ ~At(p, "grant")
    BY <1>1, <2>1 DEF Respond, SetCookie, RequestsBelong, RequestsAreSound
  <2>3. req[p].tab = b /\ req'[p].tab = None
    BY <1>1, <2>1, <2>2 DEF OneTabPerBrowser, Respond
  <2> QED
    BY <1>1, <2>1, <2>2, <2>3 DEF Respond, RequestsAreSound
<1>2. IInv /\ HonestInv /\ [ReliableNext]_vars =>
        [\A b \in Tabs :
           cookie[Jar[b]] # None /\ cookie'[Jar[b]] = None => Excused(b)]_vars
  BY <1>1
<1> QED
  BY <1>2, HonestAlways, PTL DEF ReliableSpec, StaysSignedIn

-----------------------------------------------------------------------------
(***************************************************************************)
(* ApiClient.  Its steps are steps of ReliableSpec, so that what was shown *)
(* of sessions holds of it; what it adds is in ApiInv.                     *)
(***************************************************************************)

USE DEF sockets, histories, clientVars, apiVars

(* What a request of the browser carries: a refresh keeps to the family of  *)
(* the cookie it was sent with.                                             *)
GrantsKnow ==
  \A p \in Requests : LET r == req[p] IN
    At(p, "grant") =>
      /\ r.minted # None
      /\ r.token # None => family[r.minted] = family[r.token]

HeldTokensAreMinted ==
  /\ \A b \in Tabs : access[b] # None => row[access[b]] # "unused"
  /\ \A k \in Fetches : fetch[k].as # None => row[fetch[k].as] # "unused"

FetchesBelong == \A k \in Fetches : fetch[k].at # "free" => fetch[k].tab \in Tabs

ApplicationHasSocket == \A b \in Tabs : me[b] \in Users <=> socket[b].state # "off"

ApiInv ==
  /\ IInv
  /\ ApiTypeOK
  /\ RequestsBelong
  /\ GrantsKnow
  /\ HeldTokensAreMinted
  /\ FetchesBelong
  /\ ApplicationHasSocket
  /\ NobodyWaitsInVain


SessionStep ==
  /\ \A t \in Tokens :
       row[t] # "unused" => row'[t] # "unused" /\ family'[t] = family[t]
  /\ loggedOut \subseteq loggedOut'

LEMMA SessionFacts ==
  ASSUME IInv, RequestsBelong, GrantsKnow, [ReliableNext]_vars
  PROVE  RequestsBelong' /\ GrantsKnow' /\ SessionStep
<1> USE NoneAssumption, JarAssumption
    DEF IInv, TypeOK, TokensKnow, RequestsKnow, RequestsBelong, GrantsKnow, SessionStep,
        Refreshing
<1>1. ASSUME NEW p \in Requests, Start(p)
      PROVE  RequestsBelong' /\ GrantsKnow' /\ SessionStep
  BY <1>1 DEF Start, Login, Refresh, Logout
<1>2. ASSUME NEW p \in Requests, FindAbsent(p) \/ Find(p) \/ RevokeExpired(p) \/ Claim(p)
      PROVE  RequestsBelong' /\ GrantsKnow' /\ SessionStep
  BY <1>2 DEF FindAbsent, Find, RevokeExpired, Claim
<1>3. ASSUME NEW p \in Requests, ClaimMissed(p) \/ RevokeFamily(p)
      PROVE  RequestsBelong' /\ GrantsKnow' /\ SessionStep
  BY <1>3 DEF ClaimMissed, RevokeFamily
<1>4. ASSUME NEW p \in Requests, NEW t \in Tokens, Persist(p, t)
      PROVE  RequestsBelong' /\ GrantsKnow' /\ SessionStep
  BY <1>4 DEF Persist
<1>5. ASSUME NEW p \in Requests, LogoutFind(p) \/ LogoutAbsent(p) \/ LogoutDelete(p)
      PROVE  RequestsBelong' /\ GrantsKnow' /\ SessionStep
  BY <1>5 DEF LogoutFind, LogoutAbsent, LogoutDelete
<1>6. ASSUME NEW p \in Requests, Respond(p)
      PROVE  RequestsBelong' /\ GrantsKnow' /\ SessionStep
  BY <1>6 DEF Respond
<1>7. ASSUME NEW t \in Tokens, Expire(t)
      PROVE  RequestsBelong' /\ GrantsKnow' /\ SessionStep
  BY <1>7 DEF Expire
<1>8. ASSUME NEW p \in Requests, StatementFails(p) \/ TurnedAway(p)
      PROVE  RequestsBelong' /\ GrantsKnow' /\ SessionStep
  BY <1>8 DEF StatementFails, TurnedAway
<1>9. CASE UNCHANGED vars
  BY <1>9
<1> QED
  BY <1>1, <1>2, <1>3, <1>4, <1>5, <1>6, <1>7, <1>8, <1>9 DEF ReliableNext, Step

LEMMA ApiStepsAreSessionSteps ==
  ASSUME ApiTypeOK, FetchesBelong, [ApiNext]_apiVars
  PROVE  [ReliableNext]_vars
<1>1. ASSUME NEW b \in Tabs, JoinRefresh(b)
      PROVE  [ReliableNext]_vars
  BY <1>1 DEF JoinRefresh, ReliableNext, Start
<1>2. ASSUME NEW p \in Requests, Handle(p)
      PROVE  ReliableNext
  BY <1>2 DEF Handle, Revoke, Hear, ReliableNext, Step
<1>3. CASE ApiStart
  BY <1>3 DEF ApiStart, Ask, SignIn, SignOut, ReliableNext, Start
<1>4. CASE ApiAge
  BY <1>4 DEF ApiAge, WearOut, Cut, LoseFetch, ReliableNext
<1>5. ASSUME NEW k \in Fetches, Serve(k)
      PROVE  UNCHANGED vars \/ (fetch[k].tab \in Tabs /\ JoinRefresh(fetch[k].tab))
  BY <1>5 DEF Serve, Unauthorized, Succeed, Reject, Done, FetchesBelong, Silent
<1>6. ASSUME NEW b \in Tabs, Handshake(b) \/ StrayHandshake(b)
      PROVE  UNCHANGED vars \/ JoinRefresh(b)
  BY <1>6 DEF Handshake, StrayHandshake, Greet
<1> QED
  BY <1>1, <1>2, <1>3, <1>4, <1>5, <1>6 DEF ApiNext

(* The statements an auth handler runs between its request and its answer.  *)
Quiet(p) ==
  /\ FindAbsent(p) \/ Find(p) \/ RevokeExpired(p) \/ Claim(p) \/ ClaimMissed(p)
     \/ RevokeFamily(p) \/ LogoutFind(p) \/ LogoutAbsent(p)
     \/ StatementFails(p) \/ \E t \in Tokens : Persist(p, t)
  /\ UNCHANGED clientVars

RefreshesStay == \A b \in Tabs : RefreshInFlight(b) => RefreshInFlight(b)'

LEMMA RefreshesGoOn ==
  ASSUME IInv, RequestsBelong, NEW p \in Requests,
         \/ Quiet(p) \/ LogoutDelete(p)
         \/ \E b \in Tabs : Refresh(p, b) \/ Logout(p, b) \/ \E f \in Families : Login(p, b, f)
  PROVE  RefreshesStay
<1> USE DEF RefreshesStay, RefreshInFlight, Refreshing, IInv, TypeOK, RequestsKnow
<1>1. CASE \E b \in Tabs : Refresh(p, b) \/ Logout(p, b) \/ \E f \in Families : Login(p, b, f)
  BY <1>1 DEF Refresh, Logout, Login
<1>2. CASE FindAbsent(p) \/ Find(p) \/ RevokeExpired(p) \/ Claim(p) \/ ClaimMissed(p)
  BY <1>2 DEF FindAbsent, Find, RevokeExpired, Claim, ClaimMissed
<1>3. CASE RevokeFamily(p) \/ LogoutFind(p) \/ LogoutAbsent(p) \/ LogoutDelete(p)
  BY <1>3 DEF RevokeFamily, LogoutFind, LogoutAbsent, LogoutDelete
<1>4. ASSUME NEW t \in Tokens, Persist(p, t)
      PROVE  RefreshesStay
  BY <1>4 DEF Persist
<1>5. CASE StatementFails(p)
  BY <1>5 DEF StatementFails
<1> QED
  BY <1>1, <1>2, <1>3, <1>4, <1>5 DEF Quiet

LEMMA RefreshesRest ==
  ASSUME UNCHANGED <<pc, req>>
  PROVE  RefreshesStay
BY DEF RefreshesStay, RefreshInFlight, Refreshing

LEMMA RefreshJoined ==
  ASSUME IInv, RequestsBelong, NEW b \in Tabs, JoinRefresh(b)
  PROVE  RefreshesStay /\ RefreshInFlight(b)'
<1>1. CASE RefreshInFlight(b) /\ UNCHANGED vars
  BY <1>1, RefreshesRest DEF RefreshesStay
<1>2. ASSUME NEW p \in Requests, Refresh(p, b)
      PROVE  RefreshesStay /\ RefreshInFlight(b)'
  <2>1. pc'[p] \in {"find", "deny"} /\ req'[p].tab = b
    BY <1>2 DEF IInv, TypeOK, Refresh
  <2> QED
    BY <1>2, <2>1, RefreshesGoOn DEF RefreshInFlight, Refreshing
<1> QED
  BY <1>1, <1>2 DEF JoinRefresh

Sockets ==
  [state : {"off", "dialing", "refreshing", "on", "dead", "closed"}, as : Users \cup {None}]

Strays == SUBSET ({Waiting, Dialing} \cup {Socket("on", u) : u \in Users})

LEMMA ShowFacts ==
  ASSUME ApiTypeOK, ApplicationHasSocket, NEW b \in Tabs, NEW s \in Sockets, NEW x \in Strays,
         NEW u \in Users \cup {None, Unknown}, Show(b, u, s, x),
         u \in Users /\ me[b] \in Users => s.state # "off"
  PROVE  /\ me' \in [Tabs -> Users \cup {None, Unknown}]
         /\ socket' \in [Tabs -> Sockets]
         /\ stray' \in [Tabs -> Strays]
         /\ crossed' \subseteq Tabs
         /\ ApplicationHasSocket'
         /\ \A c \in Tabs : SocketWaits(c)' =>
              IF c = b THEN s = Waiting \/ Waiting \in x ELSE SocketWaits(c)
<1> USE DEF ApiTypeOK, Sockets
<1>1. Mounted(s, me[b], u) \in Sockets
  BY DEF Mounted, Socket, Dialing
<1>2. /\ Mounted(s, me[b], u).state # "off" <=> u \in Users
      /\ Mounted(s, me[b], u) = Waiting => s = Waiting
  BY DEF Mounted, Socket, Dialing, Waiting
<1> DEFINE y == IF u \notin Users /\ s = Waiting THEN x \cup {s} ELSE x
<1>3. /\ me' = [me EXCEPT ![b] = u]
      /\ socket' = [socket EXCEPT ![b] = Mounted(s, me[b], u)]
      /\ stray' = [stray EXCEPT ![b] = y]
      /\ crossed' \subseteq Tabs
  BY DEF Show, Cross
<1>4. y \in Strays /\ (Waiting \in y => s = Waiting \/ Waiting \in x)
  BY DEF Strays
<1>5. stray \in [Tabs -> Strays]
  BY DEF Strays
<1> HIDE DEF y
<1>6. /\ me' \in [Tabs -> Users \cup {None, Unknown}] /\ socket' \in [Tabs -> Sockets]
      /\ stray' \in [Tabs -> Strays]
  BY <1>1, <1>3, <1>4, <1>5
<1>7. \A c \in Tabs : SocketWaits(c)' =>
        IF c = b THEN s = Waiting \/ Waiting \in x ELSE SocketWaits(c)
  BY <1>2, <1>3, <1>4, <1>5 DEF SocketWaits
<1> QED
  BY <1>2, <1>3, <1>6, <1>7 DEF ApplicationHasSocket

(* An answer changes no tab but the one that asked, wakes who waits there    *)
(* when it ends a refresh, and leaves the tab with the token it carries.    *)
Answered(b, t, woken) ==
  /\ access' = [access EXCEPT ![b] = t]
  /\ fetch' \in [Fetches -> Fetch]
  /\ me' \in [Tabs -> Users \cup {None, Unknown}]
  /\ socket' \in [Tabs -> Sockets]
  /\ stray' \in [Tabs -> Strays]
  /\ crossed' \subseteq Tabs
  /\ FetchesBelong'
  /\ ApplicationHasSocket'
  /\ \A k \in Fetches :
       /\ fetch'[k].as \in {fetch[k].as, t, None}
       /\ fetch'[k].at = "waiting" => fetch'[k] = fetch[k] /\ fetch[k].tab \notin woken
  /\ \A c \in Tabs : SocketWaits(c)' => SocketWaits(c) /\ c \notin woken

LEMMA RecoveredFacts ==
  ASSUME ApiTypeOK, FetchesBelong, ApplicationHasSocket,
         NEW b \in Tabs, NEW t \in Tokens \cup {None}, Recovered(b, t)
  PROVE  Answered(b, t, {b})
<1> DEFINE s == IF socket[b] # Waiting THEN socket[b]
                ELSE IF t = None THEN Socket("dead", None) ELSE Dialing
           left == stray[b] \ {Waiting}
           x == IF Waiting \in stray[b] /\ t # None THEN left \cup {Dialing} ELSE left
           over == t = None /\ \E k \in Fetches :
                     (fetch[k].at = "waiting" /\ fetch[k].tab = b) /\ Asks(k, b)
           u == IF over THEN None ELSE me[b]
<1>1. /\ s \in Sockets /\ s # Waiting
      /\ me[b] \in Users => s.state # "off"
  BY DEF Sockets, Socket, Waiting, Dialing, ApiTypeOK, ApplicationHasSocket
<1>2. u \in Users \cup {None, Unknown}
  BY DEF ApiTypeOK
<1>7. x \in Strays /\ Waiting \notin x
  <2>1. stray[b] \in Strays /\ Waiting # Dialing
    BY DEF ApiTypeOK, Strays, Waiting, Dialing, Socket
  <2> QED
    BY <2>1 DEF Strays
<1>3. Show(b, u, s, x) /\ access' = [access EXCEPT ![b] = t]
  BY DEF Recovered
<1>4. /\ me' \in [Tabs -> Users \cup {None, Unknown}]
      /\ socket' \in [Tabs -> Sockets]
      /\ stray' \in [Tabs -> Strays]
      /\ crossed' \subseteq Tabs
      /\ ApplicationHasSocket'
      /\ \A c \in Tabs : SocketWaits(c)' =>
           IF c = b THEN s = Waiting \/ Waiting \in x ELSE SocketWaits(c)
  <2> HIDE DEF s, u, x
  <2> QED
    BY <1>1, <1>2, <1>3, <1>7, ShowFacts
<1>5. ASSUME NEW k \in Fetches
      PROVE  /\ fetch'[k] \in Fetch
             /\ fetch'[k].at # "free" => fetch'[k].tab \in Tabs
             /\ fetch'[k].as \in {fetch[k].as, t, None}
             /\ fetch'[k].at = "waiting" => fetch'[k] = fetch[k] /\ fetch[k].tab # b
  <2>1. fetch'[k] = IF fetch[k].at = "waiting" /\ fetch[k].tab = b
                    THEN Repeated(fetch[k], t) ELSE fetch[k]
    BY DEF Recovered
  <2>2. CASE fetch[k].at = "waiting" /\ fetch[k].tab = b /\ t # None
    <3>1. fetch'[k] = [at |-> "again", tab |-> b, as |-> t, of |-> fetch[k].of]
      BY <2>1, <2>2 DEF ApiTypeOK, Fetch, Repeated
    <3> QED
      BY <3>1 DEF ApiTypeOK, Fetch
  <2>3. CASE fetch[k].at = "waiting" /\ fetch[k].tab = b /\ t = None
    BY <2>1, <2>3 DEF Fetch, Silent, Repeated
  <2>4. CASE ~(fetch[k].at = "waiting" /\ fetch[k].tab = b)
    BY <2>1, <2>4 DEF ApiTypeOK, FetchesBelong
  <2> QED
    BY <2>2, <2>3, <2>4
<1>6. fetch' \in [Fetches -> Fetch]
  <2>1. fetch' = [k \in Fetches |-> fetch'[k]]
    BY DEF Recovered
  <2> QED
    BY <1>5, <2>1
<1> QED
  <2> HIDE DEF s, u, x
  <2> QED
    BY <1>1, <1>3, <1>4, <1>5, <1>6, <1>7 DEF Answered, FetchesBelong

LEMMA SignedOutFacts ==
  ASSUME ApiTypeOK, FetchesBelong, ApplicationHasSocket, NEW b \in Tabs, SignedOut(b)
  PROVE  Answered(b, None, {})
<1>1. /\ socket[b] \in Sockets /\ (me[b] \in Users => socket[b].state # "off")
      /\ stray[b] \in Strays
  BY DEF ApiTypeOK, Sockets, Strays, ApplicationHasSocket
<1>2. Show(b, None, socket[b], stray[b]) /\ access' = [access EXCEPT ![b] = None] /\ fetch' = fetch
  BY DEF SignedOut
<1>3. /\ me' \in [Tabs -> Users \cup {None, Unknown}]
      /\ socket' \in [Tabs -> Sockets]
      /\ stray' \in [Tabs -> Strays]
      /\ crossed' \subseteq Tabs
      /\ ApplicationHasSocket'
      /\ \A c \in Tabs : SocketWaits(c)' => SocketWaits(c)
  BY <1>1, <1>2, ShowFacts, UnknownAssumption DEF SocketWaits
<1> QED
  BY <1>2, <1>3 DEF Answered, ApiTypeOK, Fetch, FetchesBelong

LEMMA SignedInFacts ==
  ASSUME ApiTypeOK, FetchesBelong, ApplicationHasSocket,
         NEW b \in Tabs, NEW t \in Tokens \cup {None}, SignedIn(b, t)
  PROVE  Answered(b, t, {})
<1>1. PICK k \in Fetches : fetch' = [fetch EXCEPT ![k] = Sent(b, t, "login")]
  BY DEF SignedIn
<1>2. /\ access' = [access EXCEPT ![b] = t] /\ UNCHANGED <<me, socket, stray>>
      /\ crossed' \subseteq Tabs
  BY DEF SignedIn, Cross, ApiTypeOK
<1>3. Sent(b, t, "login") \in Fetch
  BY DEF Sent, Fetch
<1> QED
  BY <1>1, <1>2, <1>3
  DEF Answered, ApiTypeOK, Fetch, FetchesBelong, ApplicationHasSocket, Sent, Sockets, Strays,
      SocketWaits

LEMMA GreetedFacts ==
  ASSUME ApiInv, NEW b \in Tabs
  PROVE  /\ Greeted(access[b]) \in Sockets
         /\ Greeted(access[b]).state \notin {"off", "closed", "dialing"}
         /\ Greeted(access[b]).state = "dead" => access[b] = None
         /\ Greeted(access[b]).state = "on" =>
              access[b] \in Tokens /\ Greeted(access[b]).as = UserOf(access[b])
         /\ access[b] # None =>
              Greeted(access[b]) \in {Waiting} \cup {Socket("on", u) : u \in Users}
<1> USE NoneAssumption
<1>1. access[b] # None => access[b] \in Tokens /\ UserOf(access[b]) \in Users
  BY OwnerAssumption
  DEF ApiInv, HeldTokensAreMinted, ApiTypeOK, UserOf, IInv, TokensKnow
<1>2. CASE access[b] = None
  BY <1>2 DEF Greeted, Sockets, Socket, Good
<1>3. CASE Good(access[b])
  BY <1>1, <1>3 DEF Greeted, Sockets, Socket, Good
<1>4. CASE access[b] # None /\ ~Good(access[b])
  BY <1>1, <1>4 DEF Greeted, Sockets, Socket, Waiting
<1> QED
  BY <1>2, <1>3, <1>4 DEF Good

LEMMA ApiStep == ApiInv /\ [ApiNext]_apiVars => ApiInv'
<1> SUFFICES ASSUME ApiInv, [ApiNext]_apiVars
             PROVE  ApiInv'
  OBVIOUS
<1>1. [ReliableNext]_vars
  BY ApiStepsAreSessionSteps DEF ApiInv
<1>2. IInv'
  BY <1>1, StepIInv DEF ApiInv, Next
<1>3. RequestsBelong' /\ GrantsKnow' /\ SessionStep
  BY <1>1, SessionFacts DEF ApiInv
<1>4. TypeOK /\ TypeOK'
  BY <1>2 DEF IInv, ApiInv
<1> DEFINE Client == /\ ApiTypeOK /\ HeldTokensAreMinted /\ FetchesBelong
                     /\ ApplicationHasSocket /\ NobodyWaitsInVain
<1> USE <1>4, NoneAssumption, UnknownAssumption, OwnerAssumption
    DEF ApiInv, Socket, Waiting, Dialing, SocketWaits
<1>5. ASSUME NEW k \in Fetches, NEW b \in Tabs, NEW of \in {"app", "profile", "session"}, Ask(k, b, of)
      PROVE  Client'
  <2>1. ApiTypeOK'
    BY <1>5, <1>3 DEF Ask, ApiTypeOK, Fetch, Silent, Sent, Cross, FetchesBelong
  <2>2. HeldTokensAreMinted'
    BY <1>5, <1>3 DEF Ask, HeldTokensAreMinted, ApiTypeOK, Silent, Sent, SessionStep, Fetch
  <2>5. FetchesBelong'
    BY <1>5, <1>3 DEF Ask, FetchesBelong, ApiTypeOK, Silent, Sent, Fetch
  <2>6. ApplicationHasSocket'
    BY <1>5, <1>3 DEF Ask, ApplicationHasSocket, ApiTypeOK, HeldTokensAreMinted, IInv, TokensKnow, FetchesBelong, Fetch, Silent, Sent
  <2>3. RefreshesStay
    BY <1>5, RefreshesRest DEF Ask, Done, ApiTypeOK, Fetch, FetchesBelong
  <2>4. NobodyWaitsInVain'
    BY <1>5, <2>3 DEF Ask, NobodyWaitsInVain, RefreshesStay, ApiTypeOK, Fetch, Silent, Sent
  <2> QED
    BY <2>1, <2>2, <2>4, <2>5, <2>6
<1>6. ASSUME NEW p \in Requests, NEW b \in Tabs, SignIn(p, b) \/ SignOut(p, b)
      PROVE  Client'
  <2>1. ApiTypeOK'
    BY <1>6, <1>3 DEF SignIn, SignOut, ApiTypeOK, Fetch, Silent, Sent, Cross, FetchesBelong
  <2>2. HeldTokensAreMinted'
    BY <1>6, <1>3 DEF SignIn, SignOut, HeldTokensAreMinted, ApiTypeOK, Silent, Sent, SessionStep, Fetch
  <2>5. FetchesBelong'
    BY <1>6, <1>3 DEF SignIn, SignOut, FetchesBelong, ApiTypeOK, Silent, Sent, Fetch
  <2>6. ApplicationHasSocket'
    BY <1>6, <1>3 DEF SignIn, SignOut, ApplicationHasSocket, ApiTypeOK, HeldTokensAreMinted, IInv, TokensKnow, FetchesBelong, Fetch, Silent, Sent
  <2>3. RefreshesStay
    BY <1>6, RefreshesGoOn DEF SignIn, SignOut, Done, ApiTypeOK, Fetch, FetchesBelong
  <2>4. NobodyWaitsInVain'
    BY <1>6, <2>3 DEF SignIn, SignOut, NobodyWaitsInVain, RefreshesStay, ApiTypeOK, Fetch, Silent, Sent
  <2> QED
    BY <2>1, <2>2, <2>4, <2>5, <2>6
<1>7. ASSUME NEW t \in Tokens, Expire(t), UNCHANGED clientVars
      PROVE  Client'
  <2>1. ApiTypeOK'
    BY <1>7, <1>3 DEF Expire, ApiTypeOK, Fetch, Silent, Sent, Cross, FetchesBelong
  <2>2. HeldTokensAreMinted'
    BY <1>7, <1>3 DEF Expire, HeldTokensAreMinted, ApiTypeOK, Silent, Sent, SessionStep, Fetch
  <2>5. FetchesBelong'
    BY <1>7, <1>3 DEF Expire, FetchesBelong, ApiTypeOK, Silent, Sent, Fetch
  <2>6. ApplicationHasSocket'
    BY <1>7, <1>3 DEF Expire, ApplicationHasSocket, ApiTypeOK, HeldTokensAreMinted, IInv, TokensKnow, FetchesBelong, Fetch, Silent, Sent
  <2>3. RefreshesStay
    BY <1>7, RefreshesRest DEF Expire, Done, ApiTypeOK, Fetch, FetchesBelong
  <2>4. NobodyWaitsInVain'
    BY <1>7, <2>3 DEF Expire, NobodyWaitsInVain, RefreshesStay, ApiTypeOK, Fetch, Silent, Sent
  <2> QED
    BY <2>1, <2>2, <2>4, <2>5, <2>6
<1>8. ASSUME NEW t \in Tokens, WearOut(t)
      PROVE  Client'
  <2>1. ApiTypeOK'
    BY <1>8, <1>3 DEF WearOut, ApiTypeOK, Fetch, Silent, Sent, Cross, FetchesBelong
  <2>2. HeldTokensAreMinted'
    BY <1>8, <1>3 DEF WearOut, HeldTokensAreMinted, ApiTypeOK, Silent, Sent, SessionStep, Fetch
  <2>5. FetchesBelong'
    BY <1>8, <1>3 DEF WearOut, FetchesBelong, ApiTypeOK, Silent, Sent, Fetch
  <2>6. ApplicationHasSocket'
    BY <1>8, <1>3 DEF WearOut, ApplicationHasSocket, ApiTypeOK, HeldTokensAreMinted, IInv, TokensKnow, FetchesBelong, Fetch, Silent, Sent
  <2>3. RefreshesStay
    BY <1>8, RefreshesRest DEF WearOut, Done, ApiTypeOK, Fetch, FetchesBelong
  <2>4. NobodyWaitsInVain'
    BY <1>8, <2>3 DEF WearOut, NobodyWaitsInVain, RefreshesStay, ApiTypeOK, Fetch, Silent, Sent
  <2> QED
    BY <2>1, <2>2, <2>4, <2>5, <2>6
<1>9. ASSUME NEW b \in Tabs, Cut(b)
      PROVE  Client'
  <2>1. UNCHANGED <<vars, access, worn, me, fetch, crossed, limited>>
    BY <1>9 DEF Cut
  <2>2. /\ socket' \in [Tabs -> Sockets] /\ stray' \in [Tabs -> Strays]
        /\ ApplicationHasSocket'
        /\ \A c \in Tabs : SocketWaits(c)' => SocketWaits(c)
    <3>1. socket \in [Tabs -> Sockets] /\ stray \in [Tabs -> Strays]
      BY DEF ApiTypeOK, Sockets, Strays
    <3>2. CASE socket[b].state = "on" /\ socket' = [socket EXCEPT ![b] = Dialing] /\ stray' = stray
      BY <2>1, <3>1, <3>2 DEF ApplicationHasSocket, Sockets
    <3>3. ASSUME NEW s \in stray[b], socket' = socket,
                 stray' = [stray EXCEPT ![b] = (@ \ {s}) \cup {Dialing}]
          PROVE  /\ socket' \in [Tabs -> Sockets] /\ stray' \in [Tabs -> Strays]
                 /\ ApplicationHasSocket'
                 /\ \A c \in Tabs : SocketWaits(c)' => SocketWaits(c)
      <4> DEFINE y == (stray[b] \ {s}) \cup {Dialing}
      <4>1. y \in Strays /\ (Waiting \in y => Waiting \in stray[b])
        BY <3>1 DEF Strays
      <4>2. stray' = [stray EXCEPT ![b] = y]
        BY <3>3
      <4> HIDE DEF y
      <4> QED
        BY <2>1, <3>1, <3>3, <4>1, <4>2 DEF ApplicationHasSocket
    <3> QED
      BY <1>9, <3>2, <3>3 DEF Cut
  <2>3. RefreshesStay
    BY <2>1, RefreshesRest
  <2>4. ApiTypeOK' /\ HeldTokensAreMinted' /\ FetchesBelong'
    BY <2>1, <2>2 DEF ApiTypeOK, Sockets, Strays, HeldTokensAreMinted, FetchesBelong
  <2>5. NobodyWaitsInVain'
    BY <2>1, <2>2, <2>3 DEF NobodyWaitsInVain, RefreshesStay
  <2> QED
    BY <2>2, <2>4, <2>5
<1>10. ASSUME NEW k \in Fetches, LoseFetch(k)
      PROVE  Client'
  <2>1. ApiTypeOK'
    BY <1>10, <1>3 DEF LoseFetch, ApiTypeOK, Fetch, Silent, Sent, Cross, FetchesBelong
  <2>2. HeldTokensAreMinted'
    BY <1>10, <1>3 DEF LoseFetch, HeldTokensAreMinted, ApiTypeOK, Silent, Sent, SessionStep, Fetch
  <2>5. FetchesBelong'
    BY <1>10, <1>3 DEF LoseFetch, FetchesBelong, ApiTypeOK, Silent, Sent, Fetch
  <2>6. ApplicationHasSocket'
    BY <1>10, <1>3 DEF LoseFetch, ApplicationHasSocket, ApiTypeOK, HeldTokensAreMinted, IInv, TokensKnow, FetchesBelong, Fetch, Silent, Sent
  <2>3. RefreshesStay
    BY <1>10, RefreshesRest DEF LoseFetch, Done, ApiTypeOK, Fetch, FetchesBelong
  <2>4. NobodyWaitsInVain'
    BY <1>10, <2>3 DEF LoseFetch, NobodyWaitsInVain, RefreshesStay, ApiTypeOK, Fetch, Silent, Sent
  <2> QED
    BY <2>1, <2>2, <2>4, <2>5, <2>6
<1>11. ASSUME NEW p \in Requests, Quiet(p)
      PROVE  Client'
  <2>1. ApiTypeOK'
    BY <1>11, <1>3 DEF Quiet, ApiTypeOK, Fetch, Silent, Sent, Cross, FetchesBelong
  <2>2. HeldTokensAreMinted'
    BY <1>11, <1>3 DEF Quiet, HeldTokensAreMinted, ApiTypeOK, Silent, Sent, SessionStep, Fetch
  <2>5. FetchesBelong'
    BY <1>11, <1>3 DEF Quiet, FetchesBelong, ApiTypeOK, Silent, Sent, Fetch
  <2>6. ApplicationHasSocket'
    BY <1>11, <1>3 DEF Quiet, ApplicationHasSocket, ApiTypeOK, HeldTokensAreMinted, IInv, TokensKnow, FetchesBelong, Fetch, Silent, Sent
  <2>3. RefreshesStay
    BY <1>11, RefreshesGoOn DEF Quiet, Done, ApiTypeOK, Fetch, FetchesBelong
  <2>4. NobodyWaitsInVain'
    BY <1>11, <2>3 DEF Quiet, NobodyWaitsInVain, RefreshesStay, ApiTypeOK, Fetch, Silent, Sent
  <2> QED
    BY <2>1, <2>2, <2>4, <2>5, <2>6
<1>12. ASSUME NEW p \in Requests, Revoke(p)
      PROVE  Client'
  <2>1. ApiTypeOK'
    BY <1>12, <1>3 DEF Revoke, ApiTypeOK, Fetch, Silent, Sent, Cross, FetchesBelong
  <2>2. HeldTokensAreMinted'
    BY <1>12, <1>3 DEF Revoke, HeldTokensAreMinted, ApiTypeOK, Silent, Sent, SessionStep, Fetch
  <2>5. FetchesBelong'
    BY <1>12, <1>3 DEF Revoke, FetchesBelong, ApiTypeOK, Silent, Sent, Fetch
  <2>6. ApplicationHasSocket'
    BY <1>12, <1>3 DEF Revoke, ApplicationHasSocket, ApiTypeOK, HeldTokensAreMinted, IInv, TokensKnow, FetchesBelong, Fetch, Silent, Sent
  <2>3. RefreshesStay
    BY <1>12, RefreshesGoOn DEF Revoke, Done, ApiTypeOK, Fetch, FetchesBelong
  <2>4. NobodyWaitsInVain'
    BY <1>12, <2>3 DEF Revoke, NobodyWaitsInVain, RefreshesStay, ApiTypeOK, Fetch, Silent, Sent
  <2> QED
    BY <2>1, <2>2, <2>4, <2>5, <2>6
<1>13. ASSUME NEW p \in Requests, Hear(p)
      PROVE  Client'
  <2>0. /\ ~Idle(p)
        /\ pc' = [pc EXCEPT ![p] = "idle"] /\ req' = [req EXCEPT ![p] = NoReq]
        /\ row' = row
    BY <1>13 DEF Hear, Respond, TurnedAway
  <2>10. PICK b \in Tabs, t \in Tokens \cup {None} : b = req[p].tab /\ t = req[p].minted
    BY <2>0 DEF RequestsBelong, TypeOK, Reqs
  <2>1. /\ worn' = worn
        /\ t # None => row[t] # "unused"
        /\ limited' \subseteq Tabs
        /\ row' = row
    BY <1>13, <2>0, <2>10 DEF Hear, IInv, RequestsKnow, ApiTypeOK
  <2>2. ASSUME NEW c \in Tabs, RefreshInFlight(c), Refreshing(p) => c # b
        PROVE  RefreshInFlight(c)'
    <3>1. PICK q \in Requests : Refreshing(q) /\ req[q].tab = c
      BY <2>2 DEF RefreshInFlight
    <3>2. q # p /\ pc'[q] = pc[q] /\ req'[q] = req[q]
      BY <2>0, <2>10, <2>2, <3>1 DEF TypeOK
    <3> QED
      BY <3>1, <3>2 DEF RefreshInFlight, Refreshing
  <2>3. /\ Refreshing(p) => Answered(b, t, {b})
        /\ Refreshing(p) \/ Answered(b, None, {}) \/ Answered(b, t, {})
    <3>1. CASE Refreshing(p)
      <4>1. Recovered(b, t)
        BY <1>13, <2>10, <3>1 DEF Hear, Refreshing
      <4> QED
        BY <3>1, <4>1, RecoveredFacts
    <3>2. CASE ~Refreshing(p) /\ At(p, "bye")
      <4>1. SignedOut(b)
        BY <1>13, <2>10, <3>2 DEF Hear
      <4> QED
        BY <3>2, <4>1, SignedOutFacts
    <3>3. CASE ~Refreshing(p) /\ ~At(p, "bye")
      <4>1. SignedIn(b, t)
        BY <1>13, <2>10, <3>3 DEF Hear
      <4> QED
        BY <3>3, <4>1, SignedInFacts
    <3> QED
      BY <3>1, <3>2, <3>3
  <2>4. PICK u \in Tokens \cup {None}, woken \in {{b}, {}} :
          /\ Answered(b, u, woken)
          /\ u # None => row'[u] # "unused"
          /\ Refreshing(p) => woken = {b}
    BY <2>1, <2>3
  <2>5. ApiTypeOK' /\ FetchesBelong' /\ ApplicationHasSocket'
    BY <2>1, <2>4 DEF Answered, ApiTypeOK, Sockets, Strays
  <2>6. HeldTokensAreMinted'
    BY <2>0, <2>1, <2>4 DEF Answered, HeldTokensAreMinted, ApiTypeOK
  <2>7. NobodyWaitsInVain'
    BY <2>2, <2>4 DEF Answered, NobodyWaitsInVain
  <2> QED
    BY <2>5, <2>6, <2>7
<1>14. ASSUME NEW k \in Fetches, Unauthorized(k)
      PROVE  Client'
  <2>1. ApiTypeOK'
    BY <1>14, <1>3 DEF Unauthorized, ApiTypeOK, Fetch, Silent, Sent, Cross, FetchesBelong
  <2>2. HeldTokensAreMinted'
    BY <1>14, <1>3 DEF Unauthorized, HeldTokensAreMinted, ApiTypeOK, Silent, Sent, SessionStep, Fetch
  <2>5. FetchesBelong'
    BY <1>14, <1>3 DEF Unauthorized, FetchesBelong, ApiTypeOK, Silent, Sent, Fetch
  <2>6. ApplicationHasSocket'
    BY <1>14, <1>3 DEF Unauthorized, ApplicationHasSocket, ApiTypeOK, HeldTokensAreMinted, IInv, TokensKnow, FetchesBelong, Fetch, Silent, Sent
  <2>3. RefreshesStay
    BY <1>14, RefreshJoined DEF Unauthorized, Done, ApiTypeOK, Fetch, FetchesBelong
  <2>4. NobodyWaitsInVain'
    BY <1>14, <2>3, RefreshJoined DEF Unauthorized, NobodyWaitsInVain, RefreshesStay, ApiTypeOK, Fetch, Silent, Sent, FetchesBelong
  <2> QED
    BY <2>1, <2>2, <2>4, <2>5, <2>6
<1>15. ASSUME NEW k \in Fetches, Succeed(k) \/ Reject(k)
      PROVE  Client'
  <2> DEFINE b == fetch[k].tab
  <2>1. b \in Tabs /\ fetch[k].at # "free"
    BY <1>15 DEF Succeed, Reject, FetchesBelong
  <2>2. PICK u \in Users \cup {None, Unknown} :
          /\ Show(b, u, socket[b], stray[b])
          /\ fetch' = [fetch EXCEPT ![k] = Silent]
          /\ UNCHANGED <<vars, access, worn, limited>>
    <3>1. me[b] \in Users \cup {None, Unknown}
      BY <2>1 DEF ApiTypeOK
    <3>2. Succeed(k) => UserOf(fetch[k].as) \in Users
      BY DEF Succeed, Good, UserOf, ApiTypeOK, Fetch, HeldTokensAreMinted, IInv, TokensKnow
    <3> QED
      BY <1>15, <3>1, <3>2 DEF Succeed, Reject, Done
  <2>4. /\ socket[b] \in Sockets /\ (me[b] \in Users => socket[b].state # "off")
        /\ stray[b] \in Strays
    BY <2>1 DEF ApiTypeOK, Sockets, Strays, ApplicationHasSocket
  <2>6. /\ me' \in [Tabs -> Users \cup {None, Unknown}]
        /\ socket' \in [Tabs -> Sockets]
        /\ stray' \in [Tabs -> Strays]
        /\ crossed' \subseteq Tabs
        /\ ApplicationHasSocket'
        /\ \A c \in Tabs : SocketWaits(c)' => SocketWaits(c)
    BY <2>1, <2>2, <2>4, ShowFacts DEF SocketWaits
  <2>7. ApiTypeOK' /\ HeldTokensAreMinted' /\ FetchesBelong'
    BY <2>2, <2>6 DEF ApiTypeOK, Fetch, Silent, HeldTokensAreMinted, FetchesBelong, Sockets, Strays
  <2>8. NobodyWaitsInVain'
    BY <2>2, <2>6, RefreshesRest DEF NobodyWaitsInVain, ApiTypeOK, Fetch, Silent, RefreshesStay
  <2> QED
    BY <2>6, <2>7, <2>8
<1>16. ASSUME NEW b \in Tabs, Handshake(b) \/ StrayHandshake(b)
      PROVE  Client'
  <2>1. /\ UNCHANGED <<access, worn, me, fetch, crossed, limited>>
        /\ \/ Greeted(access[b]) = Waiting /\ JoinRefresh(b)
           \/ UNCHANGED vars /\ Greeted(access[b]) # Waiting
    BY <1>16 DEF Handshake, StrayHandshake, Greet
  <2>2. /\ socket' \in [Tabs -> Sockets] /\ stray' \in [Tabs -> Strays]
        /\ ApplicationHasSocket'
        /\ \A c \in Tabs : SocketWaits(c)' =>
             SocketWaits(c) \/ (c = b /\ Greeted(access[b]) = Waiting)
    <3>1. /\ Greeted(access[b]) \in Sockets /\ Greeted(access[b]).state # "off"
          /\ access[b] # None => {Greeted(access[b])} \in Strays
      BY GreetedFacts DEF Strays
    <3>2. socket \in [Tabs -> Sockets] /\ stray \in [Tabs -> Strays]
      BY DEF ApiTypeOK, Sockets, Strays
    <3>3. CASE Handshake(b)
      <4>1. socket' = [socket EXCEPT ![b] = Greeted(access[b])] /\ stray' = stray
            /\ socket[b].state = "dialing"
        BY <3>3 DEF Handshake
      <4> QED
        BY <2>1, <3>1, <3>2, <4>1 DEF ApplicationHasSocket, SocketWaits
    <3>4. CASE StrayHandshake(b)
      <4> DEFINE y == (stray[b] \ {Dialing}) \cup (IF access[b] = None THEN {} ELSE {Greeted(access[b])})
      <4>1. stray' = [stray EXCEPT ![b] = y] /\ socket' = socket
        BY <3>4 DEF StrayHandshake
      <4>2. y \in Strays
        BY <3>1, <3>2 DEF Strays
      <4>3. Waiting \in y => Waiting \in stray[b] \/ Greeted(access[b]) = Waiting
        OBVIOUS
      <4> HIDE DEF y
      <4> QED
        BY <2>1, <3>2, <4>1, <4>2, <4>3 DEF ApplicationHasSocket, SocketWaits
    <3> QED
      BY <1>16, <3>3, <3>4
  <2>3. RefreshesStay /\ (Greeted(access[b]) = Waiting => RefreshInFlight(b)')
    BY <2>1, RefreshJoined, RefreshesRest
  <2>4. ApiTypeOK'
    BY <1>3, <2>1, <2>2 DEF ApiTypeOK, Sockets, Strays
  <2>6. HeldTokensAreMinted' /\ FetchesBelong'
    BY <1>3, <2>1 DEF ApiTypeOK, Fetch, HeldTokensAreMinted, FetchesBelong, SessionStep
  <2>5. NobodyWaitsInVain'
    BY <2>1, <2>2, <2>3 DEF NobodyWaitsInVain, RefreshesStay
  <2> QED
    BY <2>2, <2>4, <2>5, <2>6
<1>17. ASSUME UNCHANGED apiVars
      PROVE  Client'
  <2>1. RefreshesStay
    BY <1>17, RefreshesRest
  <2>2. ApiTypeOK' /\ HeldTokensAreMinted' /\ FetchesBelong'
    BY <1>17 DEF ApiTypeOK, HeldTokensAreMinted, FetchesBelong
  <2>3. ApplicationHasSocket' /\ NobodyWaitsInVain'
    BY <1>17, <2>1 DEF ApplicationHasSocket, NobodyWaitsInVain, RefreshesStay
  <2> QED
    BY <2>2, <2>3
<1>18. Client'
  BY <1>3, <1>5, <1>6, <1>7, <1>8, <1>9, <1>10, <1>11, <1>12, <1>13, <1>14, <1>15, <1>16, <1>17 DEF ApiNext, ApiStart, ApiAge, Handle, Serve, Quiet
<1> QED
  BY <1>2, <1>3, <1>18

LEMMA ApiInitInv == ApiInit => ApiInv
<1> SUFFICES ASSUME ApiInit
             PROVE  ApiInv
  OBVIOUS
<1>1. IInv /\ RequestsBelong /\ GrantsKnow
  BY InitIInv DEF ApiInit, Init, RequestsBelong, GrantsKnow
<1>2. ApiTypeOK /\ HeldTokensAreMinted /\ FetchesBelong
  BY <1>1, NoneAssumption
  DEF ApiInit, ApiTypeOK, HeldTokensAreMinted, FetchesBelong, Silent, Fetch, Socket, IInv
<1>3. ApplicationHasSocket /\ NobodyWaitsInVain
  BY UnknownAssumption
  DEF ApiInit, ApplicationHasSocket, NobodyWaitsInVain, SocketWaits, Waiting, Socket, Silent
<1> QED
  BY <1>1, <1>2, <1>3 DEF ApiInv

LEMMA ApiInvAlways == ApiSpec => []ApiInv
  BY ApiInitInv, ApiStep, PTL DEF ApiSpec

(* Every variable of the composed client keeps its type.                    *)
THEOREM ApiTypeCorrect == ApiSpec => []ApiTypeOK
<1>1. ApiInv => ApiTypeOK
  BY DEF ApiInv
<1> QED
  BY <1>1, ApiInvAlways, PTL

(* Whatever the client does, the session behind it takes a step of          *)
(* ReliableSpec or none: the client adds no way to use a session, and what  *)
(* holds of sessions holds of it.                                           *)
THEOREM ApiImplementsSessions == ApiSpec => ReliableSpec
<1>1. ApiInit => Init
  BY DEF ApiInit
<1>2. ApiInv /\ [ApiNext]_apiVars => [ReliableNext]_vars
  BY ApiStepsAreSessionSteps DEF ApiInv
<1> QED
  BY <1>1, <1>2, ApiInvAlways, PTL DEF ApiSpec, ReliableSpec

(* Requests and sockets that joined a refresh are all woken by its answer:  *)
(* none is left waiting with no refresh of its tab in flight.               *)
THEOREM WaitersAreWoken == ApiSpec => []NobodyWaitsInVain
<1>1. ApiInv => NobodyWaitsInVain
  BY DEF ApiInv
<1> QED
  BY <1>1, ApiInvAlways, PTL

-----------------------------------------------------------------------------
(* One tab, one user.  While no sign-in crossed another session, all the    *)
(* tokens a tab works with are of one sign-in, Line, whose owner is who     *)
(* the screen and the socket show.                                          *)
Shows(k, b) == Asks(k, b) \/ Updates(k, b)
Line(b, t) ==
  \/ t = access[b] \/ t = cookie[Jar[b]]
  \/ \E p \in Requests : req[p].tab = b /\ t = req[p].token
  \/ \E k \in Fetches : Shows(k, b) /\ t = fetch[k].as

(* A refresh turned away takes the access token and leaves the cookie.      *)
CookieIsAccess == \A b \in Tabs \ limited : access[b] = cookie[Jar[b]]

OneAsker == \A b \in Tabs, k, l \in Fetches : Asks(k, b) /\ Asks(l, b) => k = l

ByesAreSignedOut ==
  \A p \in Requests :
    At(p, "bye") /\ req[p].token # None => family[req[p].token] \in loggedOut

OneLine(b) ==
  \A t, u \in Tokens : Line(b, t) /\ Line(b, u) => family[t] = family[u]

ScreenIsTheLine(b) ==
  /\ me[b] \in Users => \A t \in Tokens : Line(b, t) => UserOf(t) = me[b]
  /\ socket[b].state = "on" => socket[b].as = me[b]
  /\ socket[b].state = "closed" => socket[b].as = None
  /\ \A s \in stray[b], t \in Tokens :
       s.state = "on" /\ Line(b, t) => s.as = UserOf(t)

(* A tab that lost its token, gave its socket up for want of one, or is     *)
(* signing out without a cookie: what is left of its session was signed out.*)
Stranded(b) ==
  \/ access[b] = None
  \/ socket[b].state = "dead"
  \/ \E p \in Requests : req[p].tab = b /\ At(p, "bye") /\ req[p].token = None

StrandedIsSignedOut(b) ==
  Stranded(b) =>
    /\ access[b] # None => family[access[b]] \in loggedOut
    /\ \A p \in Requests :
         Refreshing(p) /\ req[p].tab = b /\ req[p].token # None =>
           family[req[p].token] \in loggedOut

TabInv ==
  /\ CookieIsAccess
  /\ OneAsker
  /\ ByesAreSignedOut
  /\ \A b \in Tabs \ crossed : OneLine(b) /\ ScreenIsTheLine(b)
  /\ \A b \in Tabs \ (crossed \cup limited) : StrandedIsSignedOut(b)

(* A step that answers no request: a request goes on with its token, or     *)
(* starts with the cookie.                                                  *)
RequestsGoOn ==
  /\ cookie' = cookie
  /\ \A q \in Requests :
       \/ /\ req'[q].tab = req[q].tab
          /\ req'[q].token = req[q].token
          /\ Refreshing(q)' /\ req[q].token # None => Refreshing(q)
          /\ At(q, "bye")' /\ req[q].token = None => At(q, "bye")
       \/ req'[q].tab = None /\ pc'[q] = "idle"
       \/ /\ req'[q].tab \in Tabs
          /\ req'[q].token \in {None, cookie[Jar[req'[q].tab]]}
          /\ At(q, "bye")' => cookie[Jar[req'[q].tab]] = None

LEMMA RequestsGoOnFacts ==
  ASSUME IInv, HonestInv, ByesAreSignedOut,
         \/ UNCHANGED vars
         \/ \E t \in Tokens : Expire(t)
         \/ \E p \in Requests : Start(p) \/ Quiet(p) \/ LogoutDelete(p)
  PROVE  RequestsGoOn /\ ByesAreSignedOut'
<1> USE NoneAssumption
    DEF IInv, TypeOK, TokensKnow, RequestsKnow, HonestInv, DeletedIsSignedOut,
        ByesAreSignedOut, RequestsGoOn, Refreshing
<1>1. CASE UNCHANGED vars \/ \E t \in Tokens : Expire(t)
  BY <1>1 DEF Expire
<1>2. ASSUME NEW p \in Requests, Start(p)
      PROVE  RequestsGoOn /\ ByesAreSignedOut'
  BY <1>2 DEF Start, Login, Refresh, Logout
<1>3. ASSUME NEW p \in Requests, FindAbsent(p) \/ Find(p) \/ RevokeExpired(p) \/ Claim(p)
      PROVE  RequestsGoOn /\ ByesAreSignedOut'
  BY <1>3 DEF FindAbsent, Find, RevokeExpired, Claim
<1>4. ASSUME NEW p \in Requests, ClaimMissed(p) \/ RevokeFamily(p)
      PROVE  RequestsGoOn /\ ByesAreSignedOut'
  BY <1>4 DEF ClaimMissed, RevokeFamily
<1>5. ASSUME NEW p \in Requests, NEW t \in Tokens, Persist(p, t)
      PROVE  RequestsGoOn /\ ByesAreSignedOut'
  BY <1>5 DEF Persist
<1>6. ASSUME NEW p \in Requests, LogoutFind(p) \/ LogoutAbsent(p) \/ LogoutDelete(p)
      PROVE  RequestsGoOn /\ ByesAreSignedOut'
  BY <1>6 DEF LogoutFind, LogoutAbsent, LogoutDelete
<1>7. ASSUME NEW p \in Requests, StatementFails(p)
      PROVE  RequestsGoOn /\ ByesAreSignedOut'
  BY <1>7 DEF StatementFails
<1> QED
  BY <1>1, <1>2, <1>3, <1>4, <1>5, <1>6, <1>7 DEF Quiet

LEMMA LineIsMinted ==
  ASSUME ApiInv, NEW b \in Tabs, NEW t \in Tokens, Line(b, t)
  PROVE  row[t] # "unused" /\ family[t] \in Families /\ UserOf(t) \in Users
<1>1. row[t] # "unused"
  BY NoneAssumption, JarAssumption
  DEF Line, ApiInv, HeldTokensAreMinted, IInv, RequestsKnow, TokensKnow
<1> QED
  BY <1>1, OwnerAssumption DEF UserOf, ApiInv, IInv, TokensKnow

(* What keeps a tab of one user: the tokens it works with stem from those   *)
(* it worked with, and screen and socket show nobody else.                  *)
LineInherited(b) ==
  \A t \in Tokens : Line(b, t)' => \E u \in Tokens : Line(b, u) /\ family'[t] = family[u]

ScreenGoesOn(b) ==
  /\ me'[b] \in Users =>
       me'[b] = me[b] \/ \E u \in Tokens : Line(b, u) /\ me'[b] = UserOf(u)
  /\ socket'[b].state = "on" =>
       /\ me'[b] = me[b]
       /\ \/ socket'[b] = socket[b]
          \/ me[b] \in Users /\ access[b] \in Tokens /\ socket'[b].as = UserOf(access[b])
  /\ socket'[b].state = "closed" => socket'[b] = socket[b] \/ socket'[b].as = None
  /\ \A s \in stray'[b] : s.state = "on" =>
       s \in stray[b] \/ (access[b] \in Tokens /\ s.as = UserOf(access[b]))

LEMMA LineStep ==
  ASSUME NEW b \in Tabs, OneLine(b), ScreenIsTheLine(b), LineInherited(b), ScreenGoesOn(b)
  PROVE  OneLine(b)' /\ ScreenIsTheLine(b)'
<1>1. OneLine(b)'
  BY DEF OneLine, LineInherited
<1>2. ASSUME me'[b] \in Users, NEW t \in Tokens, Line(b, t)'
      PROVE  UserOf(t)' = me'[b]
  <2>1. PICK v \in Tokens : Line(b, v) /\ family'[t] = family[v]
    BY <1>2 DEF LineInherited
  <2>2. UserOf(t)' = UserOf(v)
    BY <2>1 DEF UserOf
  <2>3. CASE me'[b] = me[b]
    BY <1>2, <2>1, <2>2, <2>3 DEF ScreenIsTheLine
  <2>4. CASE \E u \in Tokens : Line(b, u) /\ me'[b] = UserOf(u)
    BY <2>1, <2>2, <2>4 DEF OneLine, UserOf
  <2> QED
    BY <1>2, <2>3, <2>4 DEF ScreenGoesOn
<1>3. /\ socket'[b].state = "on" => socket'[b].as = me'[b]
      /\ socket'[b].state = "closed" => socket'[b].as = None
  <2>1. access[b] \in Tokens => Line(b, access[b])
    BY DEF Line
  <2> QED
    BY <2>1 DEF ScreenGoesOn, ScreenIsTheLine
<1>4. ASSUME NEW s \in stray'[b], NEW t \in Tokens, s.state = "on", Line(b, t)'
      PROVE  s.as = UserOf(t)'
  <2>1. PICK v \in Tokens : Line(b, v) /\ family'[t] = family[v]
    BY <1>4 DEF LineInherited
  <2>2. UserOf(t)' = UserOf(v)
    BY <2>1 DEF UserOf
  <2>3. CASE s \in stray[b]
    BY <1>4, <2>1, <2>2, <2>3 DEF ScreenIsTheLine
  <2>4. CASE access[b] \in Tokens /\ s.as = UserOf(access[b])
    <3>1. Line(b, access[b])
      BY DEF Line
    <3> QED
      BY <2>1, <2>2, <2>4, <3>1 DEF OneLine, UserOf
  <2> QED
    BY <1>4, <2>3, <2>4 DEF ScreenGoesOn
<1> QED
  BY <1>1, <1>2, <1>3, <1>4 DEF ScreenIsTheLine

(* A step of the client that answers no request to the auth endpoints.      *)
ClientGoesOn ==
  /\ access' = access
  /\ OneAsker'
  /\ \A k \in Fetches, b \in Tabs :
       Shows(k, b)' =>
         \/ fetch'[k].as = access[b]
         \/ Shows(k, b) /\ fetch'[k].as = fetch[k].as
  /\ \A b \in Tabs :
       socket'[b].state = "dead" => socket[b].state = "dead" \/ access[b] = None
  /\ crossed \subseteq crossed' /\ limited' = limited
  /\ \A b \in Tabs \ crossed' : ScreenGoesOn(b)

LEMMA TabGoesOn ==
  ASSUME ApiInv, TabInv, SessionStep, RequestsGoOn, ClientGoesOn, ByesAreSignedOut'
  PROVE  TabInv'
<1> USE NoneAssumption
<1>1. CookieIsAccess'
  BY DEF TabInv, CookieIsAccess, RequestsGoOn, ClientGoesOn
<1>2. ASSUME NEW b \in Tabs, NEW t \in Tokens, Line(b, t)'
      PROVE  Line(b, t) /\ family'[t] = family[t]
  <2>1. ASSUME t = access'[b] \/ t = cookie'[Jar[b]]
        PROVE  Line(b, t)
    BY <2>1 DEF Line, ClientGoesOn, RequestsGoOn
  <2>2. ASSUME NEW p \in Requests, req'[p].tab = b /\ t = req'[p].token
        PROVE  Line(b, t)
    BY <2>2 DEF Line, RequestsGoOn
  <2>3. ASSUME NEW k \in Fetches, Shows(k, b)' /\ t = fetch'[k].as
        PROVE  Line(b, t)
    BY <2>3 DEF Line, ClientGoesOn
  <2>4. Line(b, t)
    BY <1>2, <2>1, <2>2, <2>3 DEF Line
  <2> QED
    BY <2>4, LineIsMinted DEF SessionStep
<1>3. ASSUME NEW b \in Tabs, b \notin crossed'
      PROVE  OneLine(b)' /\ ScreenIsTheLine(b)'
  <2>1. LineInherited(b)
    BY <1>2 DEF LineInherited
  <2>2. b \notin crossed
    BY <1>3 DEF ClientGoesOn
  <2> QED
    BY <1>3, <2>1, <2>2, LineStep DEF TabInv, ClientGoesOn
<1>4. ASSUME NEW b \in Tabs, b \notin crossed', b \notin limited', Stranded(b)'
      PROVE  /\ access'[b] # None => family'[access'[b]] \in loggedOut'
             /\ \A p \in Requests :
                  Refreshing(p)' /\ req'[p].tab = b /\ req'[p].token # None =>
                    family'[req'[p].token] \in loggedOut'
  <2>1. access'[b] = access[b] /\ access[b] = cookie[Jar[b]] /\ b \notin crossed
    BY <1>4 DEF ClientGoesOn, TabInv, CookieIsAccess
  <2>2. ASSUME NEW p \in Requests, req'[p].tab = b, At(p, "bye")', req'[p].token = None
        PROVE  Stranded(b)
    BY <2>1, <2>2 DEF Stranded, RequestsGoOn
  <2>3. Stranded(b) /\ StrandedIsSignedOut(b)
    BY <1>4, <2>1, <2>2 DEF Stranded, ClientGoesOn, TabInv
  <2>4. access'[b] # None => family'[access'[b]] \in loggedOut'
    <3>1. access[b] # None => row[access[b]] # "unused" /\ access[b] \in Tokens
      BY DEF ApiInv, ApiTypeOK, HeldTokensAreMinted
    <3> QED
      BY <2>1, <2>3, <3>1 DEF StrandedIsSignedOut, SessionStep
  <2>5. ASSUME NEW p \in Requests, Refreshing(p)', req'[p].tab = b, req'[p].token # None
        PROVE  family'[req'[p].token] \in loggedOut'
    <3>1. CASE req'[p].token = access[b]
      BY <2>1, <2>4, <2>5, <3>1
    <3>2. CASE Refreshing(p) /\ req[p].tab = b /\ req'[p].token = req[p].token
      <4>1. req[p].token \in Tokens /\ row[req[p].token] # "unused"
        BY <2>5, <3>2 DEF ApiInv, ApiTypeOK, TypeOK, Reqs, IInv, RequestsKnow
      <4> QED
        BY <2>3, <2>5, <3>2, <4>1 DEF StrandedIsSignedOut, SessionStep
    <3> QED
      BY <2>1, <2>5, <3>1, <3>2 DEF RequestsGoOn
  <2> QED
    BY <2>4, <2>5
<1> QED
  BY <1>1, <1>3, <1>4 DEF TabInv, StrandedIsSignedOut, ClientGoesOn

-----------------------------------------------------------------------------
(* The answer to p: its tab takes the token, the others are not touched.    *)
Heard(p) ==
  LET b == req[p].tab
      t == req[p].minted IN
  /\ b \in Tabs /\ t \in Tokens \cup {None}
  /\ (At(p, "grant") => t # None) /\ (~At(p, "grant") => t = None)
  /\ \/ cookie' = [cookie EXCEPT ![Jar[b]] = t]
     \/ cookie' = cookie /\ t = None /\ b \in limited'
  /\ \A q \in Requests : q # p => req'[q] = req[q] /\ pc'[q] = pc[q]
  /\ req'[p] = NoReq /\ pc'[p] = "idle"
  /\ family' = family /\ loggedOut' = loggedOut

LEMMA HearFacts ==
  ASSUME ApiInv, HonestInv, NEW p \in Requests, Hear(p)
  PROVE  Heard(p) /\ limited \subseteq limited' /\ (Refreshing(p) \/ pc[p] \in {"grant", "bye"})
<1> USE NoneAssumption, JarAssumption
    DEF ApiInv, ApiTypeOK, TypeOK, Reqs, RequestsBelong, GrantsKnow, HonestInv, MintedIsFresh
<1>1. CASE Respond(p) /\ limited' = limited
  BY <1>1 DEF Heard, Respond, SetCookie, Refreshing
<1>2. CASE TurnedAway(p) /\ limited' = limited \cup {req[p].tab}
  BY <1>2 DEF Heard, TurnedAway, Refreshing
<1> QED
  BY <1>1, <1>2 DEF Hear

(* What an answer does in the tab b it is for, and what it leaves alone.    *)
HeardIn(b, t) ==
  /\ access' = [access EXCEPT ![b] = t]
  /\ crossed \subseteq crossed'
  /\ \A c \in Tabs : c # b => /\ me'[c] = me[c] /\ socket'[c] = socket[c]
                             /\ stray'[c] = stray[c]
  /\ \A c \in Tabs, k \in Fetches :
       c # b /\ Shows(k, c)' => Shows(k, c) /\ fetch'[k].as = fetch[k].as
  /\ OneAsker'

(* The tab itself, after the answer t.                                      *)
SoundAfter(b) == b \notin crossed' =>
  /\ OneLine(b)' /\ ScreenIsTheLine(b)'
  /\ b \notin limited' => StrandedIsSignedOut(b)'

LEMMA TabHears ==
  ASSUME OneTabPerBrowser, ApiInv, TabInv, NEW p \in Requests,
         NEW b \in Tabs, NEW m \in Tokens \cup {None},
         b = req[p].tab, m = req[p].minted, Heard(p), limited \subseteq limited',
         HeardIn(b, m), SoundAfter(b)
  PROVE  TabInv'
<1> USE NoneAssumption, JarAssumption
<1>1. CookieIsAccess'
  <2> SUFFICES ASSUME NEW c \in Tabs, c \notin limited'
               PROVE  access'[c] = cookie'[Jar[c]]
    BY DEF CookieIsAccess
  <2>1. CASE c = b
    BY <2>1 DEF Heard, HeardIn, ApiInv, ApiTypeOK, TypeOK
  <2>2. CASE c # b
    <3>1. access'[c] = access[c] /\ access[c] = cookie[Jar[c]]
      BY <2>2 DEF HeardIn, TabInv, CookieIsAccess, ApiInv, ApiTypeOK
    <3> QED
      BY <2>2, <3>1 DEF Heard, OneTabPerBrowser, ApiInv, ApiTypeOK, TypeOK
  <2> QED
    BY <2>1, <2>2
<1>2. ByesAreSignedOut'
  BY DEF Heard, TabInv, ByesAreSignedOut
<1>3. ASSUME NEW c \in Tabs, c # b, c \notin crossed'
      PROVE  SoundAfter(c)
  <2>1. /\ access'[c] = access[c] /\ me'[c] = me[c] /\ socket'[c] = socket[c]
        /\ stray'[c] = stray[c]
        /\ family' = family /\ loggedOut' = loggedOut /\ c \notin crossed
    BY <1>3 DEF HeardIn, Heard, ApiInv, ApiTypeOK
  <2>6. cookie'[Jar[c]] = cookie[Jar[c]]
    BY <1>3 DEF Heard, OneTabPerBrowser, ApiInv, ApiTypeOK, TypeOK
  <2>2. ASSUME NEW q \in Requests, req'[q].tab = c
        PROVE  req'[q] = req[q] /\ pc'[q] = pc[q]
    BY <2>2 DEF Heard
  <2>3. ASSUME NEW u \in Tokens, Line(c, u)'
        PROVE  Line(c, u)
    BY <1>3, <2>1, <2>2, <2>3, <2>6 DEF Line, HeardIn
  <2>4. OneLine(c)' /\ ScreenIsTheLine(c)'
    BY <2>1, <2>3 DEF TabInv, OneLine, ScreenIsTheLine, UserOf
  <2>5. c \notin limited' => StrandedIsSignedOut(c)'
    BY <2>1, <2>2 DEF TabInv, StrandedIsSignedOut, Stranded, Refreshing
  <2> QED
    BY <2>4, <2>5 DEF SoundAfter
<1>4. ASSUME NEW c \in Tabs, c \notin crossed'
      PROVE  OneLine(c)' /\ ScreenIsTheLine(c)' /\ (c \notin limited' => StrandedIsSignedOut(c)')
  BY <1>3, <1>4 DEF SoundAfter
<1>5. OneAsker'
  BY DEF HeardIn
<1> QED
  BY <1>1, <1>2, <1>4, <1>5 DEF TabInv

(* An answer that keeps to the line of its tab: a refresh or a sign-out.    *)
LEMMA InheritedAfter ==
  ASSUME ApiInv, TabInv, NEW p \in Requests, NEW b \in Tabs, NEW m \in Tokens \cup {None},
         b = req[p].tab, m = req[p].minted, Heard(p),
         HeardIn(b, m), ScreenGoesOn(b), b \notin crossed',
         m # None => \E u \in Tokens : Line(b, u) /\ family[m] = family[u],
         \A k \in Fetches :
           Shows(k, b)' => Shows(k, b) /\ fetch'[k].as \in {fetch[k].as, m}
  PROVE  OneLine(b)' /\ ScreenIsTheLine(b)'
<1> USE NoneAssumption
<1>1. ASSUME NEW t \in Tokens, Line(b, t)'
      PROVE  Line(b, t) \/ t = m
  <2>1. ASSUME NEW q \in Requests, req'[q].tab = b, t = req'[q].token
        PROVE  Line(b, t)
    BY <2>1 DEF Heard, Line
  <2>2. ASSUME NEW k \in Fetches, Shows(k, b)', t = fetch'[k].as
        PROVE  Line(b, t) \/ t = m
    BY <2>2 DEF Line
  <2>3. CASE t = access'[b] \/ t = cookie'[Jar[b]]
    BY <2>3 DEF Line, Heard, HeardIn, ApiInv, ApiTypeOK, TypeOK
  <2> QED
    BY <1>1, <2>1, <2>2, <2>3 DEF Line
<1>2. LineInherited(b)
  BY <1>1 DEF LineInherited, Heard
<1> QED
  BY <1>2, LineStep DEF TabInv, HeardIn

LEMMA RecoveredIsSound ==
  ASSUME ApiInv, HonestInv, TabInv, NEW p \in Requests, NEW b \in Tabs, NEW m \in Tokens \cup {None},
         b = req[p].tab, m = req[p].minted, Heard(p),
         limited \subseteq limited', Refreshing(p), Recovered(b, m)
  PROVE  HeardIn(b, m) /\ SoundAfter(b)
<1> USE NoneAssumption
<1> DEFINE s == IF socket[b] # Waiting THEN socket[b]
                ELSE IF m = None THEN Socket("dead", None) ELSE Dialing
           left == stray[b] \ {Waiting}
           x == IF Waiting \in stray[b] /\ m # None THEN left \cup {Dialing} ELSE left
           over == m = None /\ \E k \in Fetches :
                     (fetch[k].at = "waiting" /\ fetch[k].tab = b) /\ Asks(k, b)
           u == IF over THEN None ELSE me[b]
<1>1. /\ u = me[b] \/ u = None
      /\ s.state = "dead" => s = socket[b] \/ m = None
      /\ s.state \in {"on", "closed"} => s = socket[b]
      /\ s # Waiting
      /\ \A r \in x : r.state = "on" => r \in stray[b]
  BY DEF Socket, Waiting, Dialing
<1>2. Show(b, u, s, x) /\ access' = [access EXCEPT ![b] = m]
  BY DEF Recovered
<1> HIDE DEF u, s, x
<1>3. ASSUME NEW k \in Fetches, NEW c \in Tabs, Shows(k, c)'
      PROVE  /\ Shows(k, c) /\ (Asks(k, c)' => Asks(k, c))
             /\ fetch'[k].as = fetch[k].as \/ (c = b /\ fetch'[k].as = m)
  <2>1. fetch'[k] = IF fetch[k].at = "waiting" /\ fetch[k].tab = b
                    THEN Repeated(fetch[k], m) ELSE fetch[k]
    BY DEF Recovered
  <2>2. CASE ~(fetch[k].at = "waiting" /\ fetch[k].tab = b)
    BY <1>3, <2>1, <2>2 DEF Shows, Asks, Updates
  <2>3. CASE fetch[k].at = "waiting" /\ fetch[k].tab = b /\ m = None
    BY <1>3, <2>1, <2>3 DEF Shows, Asks, Updates, Repeated, Silent
  <2>4. CASE fetch[k].at = "waiting" /\ fetch[k].tab = b /\ m # None
    <3>1. fetch'[k] = [at |-> "again", tab |-> fetch[k].tab, as |-> m, of |-> fetch[k].of]
      BY <2>1, <2>4 DEF Repeated, ApiInv, ApiTypeOK, Fetch
    <3> QED
      BY <1>3, <2>4, <3>1 DEF Shows, Asks, Updates
  <2> QED
    BY <2>2, <2>3, <2>4
<1>4. /\ \A c \in Tabs : c # b => /\ me'[c] = me[c] /\ socket'[c] = socket[c]
                                /\ stray'[c] = stray[c]
      /\ me'[b] = u /\ socket'[b] = Mounted(s, me[b], u) /\ stray'[b] = x
      /\ crossed \subseteq crossed'
  BY <1>1, <1>2 DEF Show, Cross, ApiInv, ApiTypeOK
<1>5. HeardIn(b, m)
  BY <1>2, <1>3, <1>4 DEF HeardIn, OneAsker, TabInv, Shows
<1>6. m # None => req[p].token \in Tokens /\ Line(b, req[p].token) /\ family[m] = family[req[p].token]
  BY DEF Heard, Refreshing, GrantsKnow, Line, ApiInv, ApiTypeOK, TypeOK, Reqs
<1>7. ScreenGoesOn(b)
  BY <1>1, <1>4, UnknownAssumption DEF ScreenGoesOn, Mounted, Socket, Dialing
<1>8. ASSUME b \notin crossed'
      PROVE  OneLine(b)' /\ ScreenIsTheLine(b)'
  BY <1>3, <1>5, <1>6, <1>7, <1>8, InheritedAfter
<1>9. ASSUME b \notin crossed', b \notin limited', limited \subseteq limited'
      PROVE  StrandedIsSignedOut(b)'
  <2>1. /\ access'[b] = m /\ family' = family /\ loggedOut' = loggedOut
        /\ b \notin crossed \cup limited
    BY <1>2, <1>4, <1>9 DEF Heard, ApiInv, ApiTypeOK
  <2>2. ASSUME NEW q \in Requests, Refreshing(q)', req'[q].tab = b
        PROVE  FALSE
    <3>1. q # p /\ req'[q] = req[q] /\ Refreshing(q)
      BY <2>2 DEF Heard, Refreshing
    <3> QED
      BY <2>2, <3>1 DEF HonestInv, OneRefresh
  <2>3. ASSUME Stranded(b)', m # None
        PROVE  Stranded(b)
    <3>1. CASE socket'[b].state = "dead"
      BY <1>1, <1>4, <2>3, <3>1 DEF Stranded, Mounted, Socket, Dialing
    <3>2. ASSUME NEW q \in Requests, req'[q].tab = b, At(q, "bye")', req'[q].token = None
          PROVE  Stranded(b)
      BY <3>2 DEF Stranded, Heard
    <3> QED
      BY <2>1, <2>3, <3>1, <3>2 DEF Stranded
  <2>4. ASSUME Stranded(b), m # None
        PROVE  family[m] \in loggedOut
    BY <1>6, <2>1, <2>4 DEF TabInv, StrandedIsSignedOut
  <2> QED
    BY <2>1, <2>2, <2>3, <2>4 DEF StrandedIsSignedOut
<1> QED
  BY <1>5, <1>8, <1>9 DEF SoundAfter

LEMMA SignedOutIsSound ==
  ASSUME ApiInv, HonestInv, TabInv, NEW p \in Requests, NEW b \in Tabs, NEW m \in Tokens \cup {None},
         b = req[p].tab, m = req[p].minted, Heard(p),
         limited \subseteq limited', At(p, "bye"), SignedOut(b)
  PROVE  HeardIn(b, m) /\ SoundAfter(b)
<1> USE NoneAssumption, UnknownAssumption
<1>1. m = None
  BY DEF Heard
<1>2. /\ access' = [access EXCEPT ![b] = None] /\ fetch' = fetch
      /\ \A c \in Tabs : c # b => /\ me'[c] = me[c] /\ socket'[c] = socket[c]
                                /\ stray'[c] = stray[c]
      /\ me'[b] = None /\ socket'[b] = Socket("off", None)
      /\ stray'[b] \subseteq stray[b] \cup {Waiting}
      /\ crossed \subseteq crossed'
  BY <1>1 DEF SignedOut, Show, Mounted, Cross, ApiInv, ApiTypeOK
<1>3. HeardIn(b, m)
  BY <1>1, <1>2 DEF HeardIn, Shows, Asks, Updates, OneAsker, TabInv
<1>4. ScreenGoesOn(b)
  BY <1>2 DEF ScreenGoesOn, Socket, Waiting
<1>5. ASSUME b \notin crossed'
      PROVE  OneLine(b)' /\ ScreenIsTheLine(b)'
  <2>1. \A k \in Fetches :
          Shows(k, b)' => Shows(k, b) /\ fetch'[k].as \in {fetch[k].as, m}
    BY <1>2 DEF Shows, Asks, Updates
  <2> QED
    BY <1>1, <1>3, <1>4, <1>5, <2>1, InheritedAfter
<1>6. ASSUME b \notin crossed', b \notin limited'
      PROVE  StrandedIsSignedOut(b)'
  <2>1. /\ access'[b] = None /\ family' = family /\ loggedOut' = loggedOut
        /\ b \notin crossed \cup limited
    BY <1>2, <1>6 DEF Heard, ApiInv, ApiTypeOK
  <2>2. ASSUME NEW q \in Requests, Refreshing(q)', req'[q].tab = b, req'[q].token # None
        PROVE  family[req'[q].token] \in loggedOut
    <3>1. q # p /\ req'[q] = req[q] /\ Refreshing(q)
      BY <2>2 DEF Heard, Refreshing
    <3>2. CASE req[p].token = None
      BY <1>1, <2>1, <2>2, <3>1, <3>2 DEF TabInv, StrandedIsSignedOut, Stranded
    <3>3. CASE req[p].token # None
      <4>1. /\ req[p].token \in Tokens /\ req[q].token \in Tokens
            /\ Line(b, req[p].token) /\ Line(b, req[q].token)
        BY <1>1, <2>2, <3>1, <3>3 DEF Line, ApiInv, ApiTypeOK, TypeOK, Reqs
      <4> QED
        BY <2>1, <3>1, <3>3, <4>1 DEF TabInv, OneLine, ByesAreSignedOut
    <3> QED
      BY <3>2, <3>3
  <2> QED
    BY <2>1, <2>2 DEF StrandedIsSignedOut
<1> QED
  BY <1>3, <1>5, <1>6 DEF SoundAfter

LEMMA SignedInIsSound ==
  ASSUME ApiInv, HonestInv, TabInv, NEW p \in Requests, NEW b \in Tabs, NEW m \in Tokens \cup {None},
         b = req[p].tab, m = req[p].minted, Heard(p),
         limited \subseteq limited', At(p, "grant"), SignedIn(b, m)
  PROVE  HeardIn(b, m) /\ SoundAfter(b)
<1> USE NoneAssumption, UnknownAssumption
<1>1. m \in Tokens
  BY DEF Heard
<1>2. PICK k \in Fetches :
        /\ \A l \in Fetches : Asks(l, b) => l = k
        /\ \A c \in Tabs : Asks(k, c) => c = b
        /\ fetch' = [fetch EXCEPT ![k] = Sent(b, m, "login")]
  <2>1. PICK k \in Fetches :
          /\ IF \E l \in Fetches : Asks(l, b) THEN Asks(k, b) ELSE fetch[k] = Silent
          /\ fetch' = [fetch EXCEPT ![k] = Sent(b, m, "login")]
    BY DEF SignedIn
  <2>2. \A l \in Fetches : Asks(l, b) => l = k
    BY <2>1 DEF TabInv, OneAsker
  <2>3. \A c \in Tabs : Asks(k, c) => c = b
    BY <2>1 DEF Asks, Silent
  <2> QED
    BY <2>1, <2>2, <2>3
<1>3. /\ access' = [access EXCEPT ![b] = m] /\ me' = me /\ socket' = socket /\ stray' = stray
      /\ crossed \subseteq crossed'
      /\ LateSignIn(b) => b \in crossed'
  BY DEF SignedIn, Cross
<1>4. /\ \A l \in Fetches : l # k => fetch'[l] = fetch[l]
      /\ fetch'[k].tab = b /\ fetch'[k].as = m /\ fetch'[k].of = "login"
  BY <1>2 DEF ApiInv, ApiTypeOK, Sent
<1>5. HeardIn(b, m)
  BY <1>2, <1>3, <1>4 DEF HeardIn, OneAsker, Shows, Asks, Updates, TabInv
<1>6. ASSUME b \notin crossed'
      PROVE  /\ \A t \in Tokens : Line(b, t)' => t = m
             /\ me'[b] \notin Users /\ socket'[b].state = "off" /\ stray'[b] = {}
             /\ ~Stranded(b)'
  <2>1. /\ me[b] \notin Users /\ \A q \in Requests : q # p => req[q].tab # b
        /\ stray[b] = {} /\ \A l \in Fetches : ~Updates(l, b)
    BY <1>3, <1>6 DEF LateSignIn
  <2>2. \A q \in Requests : req'[q].tab # b
    BY <2>1 DEF Heard, NoReq
  <2>3. access'[b] = m /\ socket'[b].state = "off" /\ cookie'[Jar[b]] = m
    BY <1>1, <1>3, <2>1, JarAssumption
    DEF Heard, ApiInv, ApiTypeOK, TypeOK, ApplicationHasSocket
  <2>4. ASSUME NEW l \in Fetches, Shows(l, b)'
        PROVE  fetch'[l].as = m
    BY <1>2, <1>4, <2>1, <2>4 DEF Shows, Asks, Updates
  <2>5. \A t \in Tokens : Line(b, t)' => t = m
    BY <2>2, <2>3, <2>4 DEF Line
  <2>6. ~Stranded(b)'
    BY <1>1, <2>2, <2>3 DEF Stranded
  <2> QED
    BY <1>3, <2>1, <2>3, <2>5, <2>6
<1>7. b \notin crossed' => OneLine(b)' /\ ScreenIsTheLine(b)' /\ StrandedIsSignedOut(b)'
  <2>1. socket'[b].state = "off" /\ stray'[b] = {} => ScreenIsTheLine(b)' \/ me'[b] \in Users
    BY DEF ScreenIsTheLine
  <2> QED
    BY <1>6, <2>1 DEF OneLine, StrandedIsSignedOut
<1> QED
  BY <1>5, <1>7 DEF SoundAfter

LEMMA AnswerIsSound ==
  ASSUME OneTabPerBrowser, ApiInv, HonestInv, TabInv, NEW p \in Requests, Hear(p)
  PROVE  TabInv'
<1>1. Heard(p) /\ limited \subseteq limited' /\ (Refreshing(p) \/ pc[p] \in {"grant", "bye"})
  BY HearFacts
<1>2. PICK b \in Tabs, m \in Tokens \cup {None} : b = req[p].tab /\ m = req[p].minted
  BY <1>1 DEF Heard
<1>3. HeardIn(b, m) /\ SoundAfter(b)
  <2>1. CASE Refreshing(p)
    <3>1. Recovered(b, m)
      BY <1>2, <2>1 DEF Hear, Refreshing
    <3> QED
      BY <1>1, <1>2, <2>1, <3>1, RecoveredIsSound
  <2>2. CASE At(p, "bye")
    <3>1. SignedOut(b)
      BY <1>2, <2>2 DEF Hear, Refreshing
    <3> QED
      BY <1>1, <1>2, <2>2, <3>1, SignedOutIsSound
  <2>3. CASE At(p, "grant") /\ ~Refreshing(p)
    <3>1. SignedIn(b, m)
      BY <1>2, <2>3 DEF Hear
    <3> QED
      BY <1>1, <1>2, <2>3, <3>1, SignedInIsSound
  <2> QED
    BY <1>1, <2>1, <2>2, <2>3 DEF Refreshing
<1> QED
  BY <1>1, <1>2, <1>3, TabHears

-----------------------------------------------------------------------------
LEMMA TabStep ==
  ASSUME OneTabPerBrowser, ApiInv, HonestInv, TabInv, [ApiNext]_apiVars
  PROVE  TabInv'
<1> USE NoneAssumption, UnknownAssumption
<1>1. ApiInv' /\ SessionStep
  BY ApiStep, ApiStepsAreSessionSteps, SessionFacts DEF ApiInv
<1>2. ASSUME \/ UNCHANGED vars
             \/ \E t \in Tokens : Expire(t)
             \/ \E p \in Requests : Start(p) \/ Quiet(p) \/ LogoutDelete(p),
             ClientGoesOn
      PROVE  TabInv'
  BY <1>1, <1>2, RequestsGoOnFacts, TabGoesOn DEF ApiInv, TabInv
<1>3. ASSUME UNCHANGED clientVars
      PROVE  ClientGoesOn
  BY <1>3 DEF ClientGoesOn, TabInv, OneAsker, Shows, Asks, Updates, ScreenGoesOn
<1>4. ASSUME NEW k \in Fetches, NEW b \in Tabs, NEW of \in {"app", "profile", "session"}, Ask(k, b, of)
      PROVE  ClientGoesOn
  <2>1. /\ fetch' = [fetch EXCEPT ![k] = Sent(b, access[b], of)]
        /\ UNCHANGED <<access, me, socket, stray, crossed, limited>>
    BY <1>4 DEF Ask
  <2>2. fetch'[k] = Sent(b, access[b], of) /\ \A l \in Fetches : l # k => fetch'[l] = fetch[l]
    BY <2>1 DEF ApiInv, ApiTypeOK
  <2>3. of = "session" => \A l \in Fetches : ~Asks(l, b)
    BY <1>4 DEF Ask
  <2>4. fetch'[k].tab = b /\ fetch'[k].of = of /\ fetch'[k].as = access[b]
    BY <2>2 DEF Sent
  <2>5. OneAsker'
    BY <2>2, <2>3, <2>4 DEF OneAsker, Asks, TabInv
  <2>6. \A l \in Fetches, c \in Tabs :
          Shows(l, c)' => fetch'[l].as = access[c] \/ (Shows(l, c) /\ fetch'[l].as = fetch[l].as)
    BY <2>2, <2>4 DEF Shows, Asks, Updates
  <2> QED
    BY <2>1, <2>5, <2>6 DEF ClientGoesOn, ScreenGoesOn
<1>5. ASSUME NEW k \in Fetches, NEW f \in Fetch, fetch' = [fetch EXCEPT ![k] = f],
             f = Silent \/ (f.tab = fetch[k].tab /\ f.of = fetch[k].of /\ f.as = fetch[k].as),
             access' = access, crossed \subseteq crossed', limited' = limited,
             \A b \in Tabs :
               socket'[b].state = "dead" => socket[b].state = "dead" \/ access[b] = None,
             \A b \in Tabs \ crossed' : ScreenGoesOn(b)
      PROVE  ClientGoesOn
  <2>1. \A l \in Fetches, c \in Tabs :
          /\ Shows(l, c)' => Shows(l, c) /\ fetch'[l].as = fetch[l].as
          /\ Asks(l, c)' => Asks(l, c)
    BY <1>5 DEF Shows, Asks, Updates, Silent, ApiInv, ApiTypeOK
  <2>2. OneAsker'
    BY <2>1 DEF OneAsker, TabInv
  <2> QED
    BY <1>5, <2>1, <2>2 DEF ClientGoesOn
<1>6. ASSUME NEW k \in Fetches, LoseFetch(k)
      PROVE  ClientGoesOn
  BY <1>5, <1>6 DEF LoseFetch, ScreenGoesOn, Silent, Fetch
<1>7. ASSUME NEW k \in Fetches, Unauthorized(k)
      PROVE  ClientGoesOn
  <2>1. PICK f \in Fetch : /\ fetch' = [fetch EXCEPT ![k] = f]
                           /\ f.tab = fetch[k].tab /\ f.of = fetch[k].of /\ f.as = fetch[k].as
    <3>1. [fetch[k] EXCEPT !.at = "waiting"] \in Fetch
      BY DEF ApiInv, ApiTypeOK, Fetch
    <3>2. fetch[k] \in Fetch
      BY DEF ApiInv, ApiTypeOK
    <3> QED
      BY <1>7, <3>1, <3>2 DEF Unauthorized, Fetch
  <2> QED
    BY <1>5, <1>7, <2>1 DEF Unauthorized, ScreenGoesOn
<1>8. ASSUME NEW k \in Fetches, Succeed(k) \/ Reject(k)
      PROVE  ClientGoesOn
  <2>1. PICK b \in Tabs : b = fetch[k].tab
    BY <1>8 DEF Succeed, Reject, ApiInv, FetchesBelong
  <2>2. PICK u \in Users \cup {None, Unknown} :
          /\ Show(b, u, socket[b], stray[b])
          /\ fetch' = [fetch EXCEPT ![k] = Silent]
          /\ UNCHANGED <<vars, access, worn, limited>>
          /\ \/ u = me[b] \/ u = None
             \/ \E v \in Tokens : Line(b, v) /\ u = UserOf(v)
    <3>1. me[b] \in Users \cup {None, Unknown}
      BY DEF ApiInv, ApiTypeOK
    <3>2. CASE Reject(k)
      BY <2>1, <3>1, <3>2 DEF Reject, Done
    <3>3. CASE Succeed(k) /\ ~Shows(k, b)
      BY <2>1, <3>1, <3>3 DEF Succeed, Done, Shows
    <3>4. CASE Succeed(k) /\ Shows(k, b)
      <4>1. fetch[k].as \in Tokens /\ Line(b, fetch[k].as)
        BY <3>4 DEF Succeed, Good, Line, ApiInv, ApiTypeOK, Fetch
      <4>2. UserOf(fetch[k].as) \in Users
        BY <4>1, LineIsMinted
      <4>3. UserOf(fetch[k].as) # None
        BY <4>2
      <4> QED
        BY <2>1, <3>4, <4>1, <4>2, <4>3 DEF Succeed, Done, Shows
    <3> QED
      BY <1>8, <3>2, <3>3, <3>4
  <2>3. /\ \A c \in Tabs : c # b => /\ me'[c] = me[c] /\ socket'[c] = socket[c]
                                  /\ stray'[c] = stray[c]
        /\ me'[b] = u /\ socket'[b] = Mounted(socket[b], me[b], u)
        /\ stray'[b] \subseteq stray[b] \cup {Waiting}
        /\ crossed \subseteq crossed'
        /\ u \in Users /\ me[b] \in Users /\ u # me[b] => b \in crossed'
    BY <2>2 DEF Show, Cross, ApiInv, ApiTypeOK
  <2>4. \A c \in Tabs : socket'[c].state = "dead" => socket[c].state = "dead"
    BY <2>3 DEF Mounted, Socket, Dialing
  <2>5. b \notin crossed' => ScreenGoesOn(b)
    BY <2>2, <2>3 DEF ScreenGoesOn, Mounted, Socket, Waiting, Dialing
  <2>6. \A c \in Tabs \ crossed' : ScreenGoesOn(c)
    BY <2>3, <2>5 DEF ScreenGoesOn
  <2>7. Silent \in Fetch
    BY DEF Silent, Fetch
  <2> QED
    BY <1>5, <2>2, <2>3, <2>4, <2>6, <2>7
<1>9. ASSUME NEW b \in Tabs, NEW s, NEW x,
             socket' = [socket EXCEPT ![b] = s], stray' = [stray EXCEPT ![b] = x],
             UNCHANGED <<access, me, fetch, crossed, limited>>,
             s.state = "dead" => socket[b].state = "dead" \/ access[b] = None,
             s.state = "on" =>
               \/ s = socket[b]
               \/ me[b] \in Users /\ access[b] \in Tokens /\ s.as = UserOf(access[b]),
             s.state = "closed" => s = socket[b],
             \A r \in x : r.state = "on" =>
               r \in stray[b] \/ (access[b] \in Tokens /\ r.as = UserOf(access[b]))
      PROVE  ClientGoesOn
  <2>1. /\ socket'[b] = s /\ \A c \in Tabs : c # b => socket'[c] = socket[c]
        /\ stray'[b] = x /\ \A c \in Tabs : c # b => stray'[c] = stray[c]
    BY <1>9 DEF ApiInv, ApiTypeOK
  <2> QED
    BY <1>9, <2>1 DEF ClientGoesOn, ScreenGoesOn, TabInv, OneAsker, Shows, Asks, Updates
<1>10. ASSUME NEW b \in Tabs, Handshake(b) \/ StrayHandshake(b)
       PROVE  ClientGoesOn
  <2> DEFINE g == Greeted(access[b])
             y == (stray[b] \ {Dialing}) \cup (IF access[b] = None THEN {} ELSE {g})
  <2>1. /\ g.state # "closed"
        /\ g.state = "dead" => access[b] = None
        /\ g.state = "on" => access[b] \in Tokens /\ g.as = UserOf(access[b])
    BY GreetedFacts
  <2>2. UNCHANGED <<access, me, fetch, crossed, limited>>
    BY <1>10 DEF Handshake, StrayHandshake, Greet
  <2> HIDE DEF g
  <2>3. CASE Handshake(b)
    <3>1. /\ socket' = [socket EXCEPT ![b] = g] /\ stray' = [stray EXCEPT ![b] = stray[b]]
          /\ me[b] \in Users
      BY <2>3 DEF g, Handshake, ApiInv, ApiTypeOK, ApplicationHasSocket
    <3> QED
      BY <1>9, <2>1, <2>2, <3>1
  <2>4. CASE StrayHandshake(b)
    <3>1. stray' = [stray EXCEPT ![b] = y] /\ socket' = [socket EXCEPT ![b] = socket[b]]
      BY <2>4 DEF g, StrayHandshake, ApiInv, ApiTypeOK
    <3>2. \A r \in y : r \in stray[b] \/ r = g
      OBVIOUS
    <3> HIDE DEF y
    <3> QED
      BY <1>9, <2>1, <2>2, <3>1, <3>2
  <2> QED
    BY <1>10, <2>3, <2>4
<1>11. ASSUME NEW b \in Tabs, Cut(b)
       PROVE  ClientGoesOn
  <2>1. Dialing.state = "dialing"
    BY DEF Dialing, Socket
  <2>2. UNCHANGED <<access, me, fetch, crossed, limited>>
    BY <1>11 DEF Cut
  <2>3. CASE socket' = [socket EXCEPT ![b] = Dialing] /\ stray' = stray
    <3>1. stray' = [stray EXCEPT ![b] = stray[b]]
      BY <2>3 DEF ApiInv, ApiTypeOK
    <3> QED
      BY <1>9, <2>1, <2>2, <2>3, <3>1
  <2>4. ASSUME NEW s \in stray[b], socket' = socket,
               stray' = [stray EXCEPT ![b] = (@ \ {s}) \cup {Dialing}]
        PROVE  ClientGoesOn
    <3> DEFINE y == (stray[b] \ {s}) \cup {Dialing}
    <3>1. stray' = [stray EXCEPT ![b] = y] /\ socket' = [socket EXCEPT ![b] = socket[b]]
      BY <2>4 DEF ApiInv, ApiTypeOK
    <3>2. \A r \in y : r \in stray[b] \/ r = Dialing
      OBVIOUS
    <3> HIDE DEF y
    <3> QED
      BY <1>9, <2>1, <2>2, <3>1, <3>2
  <2> QED
    BY <1>11, <2>3, <2>4 DEF Cut
<1>12. ASSUME NEW p \in Requests, Revoke(p)
       PROVE  ClientGoesOn
  <2>1. \A b \in Tabs : /\ socket'[b] = socket[b] \/ socket'[b] = Socket("closed", None)
                        /\ stray'[b] \subseteq stray[b]
    BY <1>12 DEF Revoke
  <2>2. UNCHANGED <<access, me, fetch, crossed, limited>>
    BY <1>12 DEF Revoke
  <2> QED
    BY <2>1, <2>2 DEF ClientGoesOn, ScreenGoesOn, Socket, TabInv, OneAsker, Shows, Asks, Updates
<1>13. ASSUME NEW p \in Requests, Handle(p)
       PROVE  TabInv'
  <2>1. CASE Quiet(p)
    BY <1>2, <1>3, <2>1 DEF Quiet
  <2>2. CASE Revoke(p)
    BY <1>2, <1>12, <2>2 DEF Revoke
  <2>3. CASE Hear(p)
    BY <2>3, AnswerIsSound
  <2> QED
    BY <1>13, <2>1, <2>2, <2>3 DEF Handle, Quiet
<1>14. CASE ApiStart
  BY <1>2, <1>3, <1>4, <1>14 DEF ApiStart, Ask, SignIn, SignOut, Start
<1>15. CASE ApiAge
  <2>1. ASSUME NEW t \in Tokens, WearOut(t)
        PROVE  ClientGoesOn
    BY <2>1 DEF WearOut, ClientGoesOn, ScreenGoesOn, TabInv, OneAsker, Shows, Asks, Updates
  <2>2. ASSUME NEW p \in Requests, StatementFails(p), UNCHANGED clientVars
        PROVE  TabInv'
    BY <1>2, <1>3, <2>2 DEF Quiet
  <2> QED
    BY <1>2, <1>3, <1>6, <1>11, <1>15, <2>1, <2>2 DEF ApiAge, WearOut, LoseFetch, Cut
<1>16. ASSUME NEW b \in Tabs, JoinRefresh(b) \/ UNCHANGED vars, ClientGoesOn
       PROVE  TabInv'
  BY <1>2, <1>16 DEF JoinRefresh, Start
<1>17. ASSUME NEW k \in Fetches, Serve(k)
       PROVE  TabInv'
  <2>1. fetch[k].tab \in Tabs
    BY <1>17 DEF Serve, Unauthorized, Succeed, Reject, ApiInv, FetchesBelong
  <2> QED
    BY <1>7, <1>8, <1>16, <1>17, <2>1 DEF Serve, Unauthorized, Succeed, Reject, Done
<1>18. ASSUME NEW b \in Tabs, Handshake(b) \/ StrayHandshake(b)
       PROVE  TabInv'
  BY <1>10, <1>16, <1>18 DEF Handshake, StrayHandshake, Greet
<1>19. CASE UNCHANGED apiVars
  BY <1>2, <1>3, <1>19
<1> QED
  BY <1>13, <1>14, <1>15, <1>17, <1>18, <1>19 DEF ApiNext

LEMMA TabInit == ApiInit => TabInv
<1> SUFFICES ASSUME ApiInit
             PROVE  TabInv
  OBVIOUS
<1> USE NoneAssumption, UnknownAssumption, JarAssumption DEF ApiInit, Init
<1>1. CookieIsAccess /\ OneAsker /\ ByesAreSignedOut
  BY DEF CookieIsAccess, OneAsker, Asks, Silent, ByesAreSignedOut
<1>2. ASSUME NEW b \in Tabs, NEW t \in Tokens
      PROVE  ~Line(b, t)
  BY DEF Line, Shows, Asks, Updates, Silent
<1>3. ASSUME NEW b \in Tabs
      PROVE  OneLine(b) /\ ScreenIsTheLine(b) /\ StrandedIsSignedOut(b)
  BY <1>2 DEF OneLine, ScreenIsTheLine, StrandedIsSignedOut, Socket, Refreshing
<1> QED
  BY <1>1, <1>3 DEF TabInv

(* Cookie, screen, access token and socket of a settled tab are of one      *)
(* user, however sign-ins, sign-outs, refreshes and repeated requests of    *)
(* the tab overlapped: late answers bring back nobody.                      *)
THEOREM TabsAreOfOneUser ==
  ASSUME OneTabPerBrowser
  PROVE  ApiSpec => []TabIsOneUser
<1>1. ApiSpec => [](ApiInv /\ IInv /\ HonestInv)
  BY ApiImplementsSessions, HonestAlways, ApiInvAlways, PTL
<1>2. ApiInv /\ HonestInv /\ TabInv /\ [ApiNext]_apiVars => TabInv'
  BY TabStep
<1>3. ApiInv /\ TabInv => TabIsOneUser
  <2> SUFFICES ASSUME ApiInv, TabInv, NEW b \in Tabs, b \notin crossed,
                      Settled(b), Healthy(b), me[b] \in Users
               PROVE  LET u == UserOf(cookie[Jar[b]]) IN
                        /\ me[b] = u
                        /\ access[b] # None => UserOf(access[b]) = u
                        /\ \/ socket[b] \in {Socket("on", u), Socket("closed", None)}
                           \/ b \in limited /\ socket[b].state = "dead"
                        /\ \A s \in stray[b] : s.state = "on" => s.as = u
    BY DEF TabIsOneUser
  <2> DEFINE c == cookie[Jar[b]]
  <2>1. /\ c \in Tokens /\ Line(b, c) /\ family[c] \notin loggedOut
        /\ access[b] # None => access[b] \in Tokens /\ Line(b, access[b])
    BY JarAssumption DEF Line, Healthy, ApiInv, ApiTypeOK, TypeOK
  <2>2. OneLine(b) /\ ScreenIsTheLine(b) /\ (b \notin limited => StrandedIsSignedOut(b))
    BY DEF TabInv
  <2>3. /\ me[b] = UserOf(c)
        /\ access[b] # None => UserOf(access[b]) = UserOf(c)
        /\ \A s \in stray[b] : s.state = "on" => s.as = UserOf(c)
    BY <2>1, <2>2 DEF ScreenIsTheLine, OneLine, UserOf
  <2>4. socket[b].state \in {"on", "closed"} \/ (b \in limited /\ socket[b].state = "dead")
    <3>1. b \notin limited => ~Stranded(b)
      <4>1. b \notin limited => access[b] = c
        BY DEF TabInv, CookieIsAccess
      <4> QED
        BY <2>1, <2>2, <4>1, NoneAssumption DEF StrandedIsSignedOut
    <3> QED
      BY <3>1 DEF Stranded, Settled, ApiInv, ApiTypeOK, ApplicationHasSocket
  <2>5. socket[b] = Socket(socket[b].state, socket[b].as)
    BY DEF Socket, ApiInv, ApiTypeOK
  <2> QED
    BY <2>2, <2>3, <2>4, <2>5 DEF ScreenIsTheLine
<1> QED
  BY <1>1, <1>2, <1>3, TabInit, PTL DEF ApiSpec

(* The same for the composed client: see HonestStaysSignedIn.               *)
THEOREM ClientKeepsItsCookie ==
  ASSUME OneTabPerBrowser
  PROVE  ApiSpec => []CookieIsUsable /\ StaysSignedIn
BY ApiImplementsSessions, CookieStaysUsable, HonestStaysSignedIn, PTL
=============================================================================
