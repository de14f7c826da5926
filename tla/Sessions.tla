------------------------------ MODULE Sessions ------------------------------
(***************************************************************************)
(* Refresh-token sessions: services/token.service.ts and its repository,   *)
(* the auth controller that keeps the refresh cookie, and the browser side *)
(* that calls it (lib/api.ts: one refresh at a time per tab; the cookie    *)
(* jar is shared by all tabs of a browser).                                *)
(*                                                                         *)
(* A request p is a handler invocation; its steps are its MySQL statements *)
(* and its response.  A token stands for its hash and its row, a family    *)
(* for one sign-in.  Password checks and access tokens are left out: they  *)
(* change no session state.                                                *)
(***************************************************************************)
EXTENDS Naturals, FiniteSets

CONSTANTS
  Tabs,      \* pages that have the application open
  Browsers,  \* cookie jars
  Jar,       \* Jar[b]: the cookie jar of tab b
  Requests,  \* requests that can be in flight at once
  Tokens,    \* refresh tokens (random, never minted twice)
  Families,  \* sign-ins (a randomUUID each)
  None       \* the null value

ASSUME JarAssumption == Jar \in [Tabs -> Browsers]
ASSUME NoneAssumption == None \notin Tabs \cup Tokens \cup Families

VARIABLES
  row,        \* row[t]: "unused", "active", "revoked" or "deleted"
  family,     \* family[t]: the family t was minted in, kept after deletion
  parent,     \* history: the token t was rotated from, None after a sign-in
  expired,    \* the tokens past their expiresAt
  cookie,     \* cookie[j]: the refresh cookie of jar j, None when cleared
  pc,         \* pc[p]: the next step of request p
  req,        \* req[p]: its local variables
  reused,     \* history: the families for which TOKEN_REUSED was raised
  loggedOut   \* history: the families some sign-out deleted

tokenVars == <<row, family, parent, expired>>
histVars == <<reused, loggedOut>>
vars == <<tokenVars, cookie, pc, req, histVars>>

Phases == {"idle", "find", "claim", "revokeExpired", "revokeFamily", "persist",
           "grant", "deny", "error", "logoutFind", "logoutDelete", "bye"}

(* tab: who waits for the answer; token: the cookie sent; family: its       *)
(* family once looked up; minted: the token the response carries.           *)
Reqs == [tab : Tabs \cup {None}, token : Tokens \cup {None},
         family : Families \cup {None}, minted : Tokens \cup {None}]
Req(b, t, f, m) == [tab |-> b, token |-> t, family |-> f, minted |-> m]
NoReq == Req(None, None, None, None)

TypeOK ==
  /\ row \in [Tokens -> {"unused", "active", "revoked", "deleted"}]
  /\ family \in [Tokens -> Families \cup {None}]
  /\ parent \in [Tokens -> Tokens \cup {None}]
  /\ expired \subseteq Tokens
  /\ cookie \in [Browsers -> Tokens \cup {None}]
  /\ pc \in [Requests -> Phases]
  /\ req \in [Requests -> Reqs]
  /\ reused \subseteq Families
  /\ loggedOut \subseteq Families

Init ==
  /\ row = [t \in Tokens |-> "unused"]
  /\ family = [t \in Tokens |-> None]
  /\ parent = [t \in Tokens |-> None]
  /\ expired = {}
  /\ cookie = [j \in Browsers |-> None]
  /\ pc = [p \in Requests |-> "idle"]
  /\ req = [p \in Requests |-> NoReq]
  /\ reused = {}
  /\ loggedOut = {}

At(p, phase) == pc[p] = phase
Goto(p, phase) == pc' = [pc EXCEPT ![p] = phase]
Become(p, phase, r) ==
  /\ pc' = [pc EXCEPT ![p] = phase]
  /\ req' = [req EXCEPT ![p] = r]

Idle(p) == At(p, "idle")
Refreshing(p) ==
  \/ pc[p] \in {"find", "claim", "revokeExpired", "revokeFamily", "deny", "error"}
  \/ pc[p] \in {"persist", "grant"} /\ req[p].token # None

-----------------------------------------------------------------------------
(* Requests a tab sends. *)

(* Sign-in (register or login, credentials accepted): a fresh family.       *)
Login(p, b, f) ==
  /\ Idle(p)
  /\ \A t \in Tokens : family[t] # f
  /\ \A q \in Requests : req[q].family # f
  /\ Become(p, "persist", Req(b, None, f, None))
  /\ UNCHANGED <<tokenVars, cookie, histVars>>

(* refreshSession(): a tab whose refresh is in flight starts no other.  The *)
(* tab cannot see the cookie: without one the answer is a refusal at once.  *)
MutRefreshTwice(p, b) ==
  LET t == cookie[Jar[b]] IN
  /\ Idle(p)
  /\ Become(p, IF t = None THEN "deny" ELSE "find", Req(b, t, None, None))
  /\ UNCHANGED <<tokenVars, cookie, histVars>>
Refresh(p, b) ==
  LET t == cookie[Jar[b]] IN
  /\ Idle(p)
  /\ \A q \in Requests : ~(Refreshing(q) /\ req[q].tab = b)
  /\ Become(p, IF t = None THEN "deny" ELSE "find", Req(b, t, None, None))
  /\ UNCHANGED <<tokenVars, cookie, histVars>>

Logout(p, b) ==
  LET t == cookie[Jar[b]] IN
  /\ Idle(p)
  /\ Become(p, IF t = None THEN "bye" ELSE "logoutFind", Req(b, t, None, None))
  /\ UNCHANGED <<tokenVars, cookie, histVars>>

-----------------------------------------------------------------------------
(* rotateRefresh. *)

FindAbsent(p) ==
  /\ At(p, "find")
  /\ row[req[p].token] = "deleted"
  /\ Goto(p, "deny")
  /\ UNCHANGED <<tokenVars, cookie, req, histVars>>

(* The row is there: its revokedAt is looked at before its expiresAt.       *)
Find(p) ==
  LET t == req[p].token IN
  /\ At(p, "find")
  /\ row[t] # "deleted"
  /\ Become(p, CASE row[t] = "revoked" -> "revokeFamily"
                 [] row[t] # "revoked" /\ t \in expired -> "revokeExpired"
                 [] OTHER -> "claim",
            [req[p] EXCEPT !.family = family[t]])
  /\ UNCHANGED <<tokenVars, cookie, histVars>>

RevokeExpired(p) ==
  LET t == req[p].token IN
  /\ At(p, "revokeExpired")
  /\ row' = IF row[t] = "active" THEN [row EXCEPT ![t] = "revoked"] ELSE row
  /\ Goto(p, "deny")
  /\ UNCHANGED <<family, parent, expired, cookie, req, histVars>>

(* revokeIfActive hit its row: this request alone may mint the successor.   *)
MutClaimUnchecked(p) ==
  LET t == req[p].token IN
  /\ At(p, "claim")
  /\ row' = IF row[t] = "active" THEN [row EXCEPT ![t] = "revoked"] ELSE row
  /\ Goto(p, "persist")
  /\ UNCHANGED <<family, parent, expired, cookie, req, histVars>>
Claim(p) ==
  LET t == req[p].token IN
  /\ At(p, "claim")
  /\ row[t] = "active"
  /\ row' = [row EXCEPT ![t] = "revoked"]
  /\ Goto(p, "persist")
  /\ UNCHANGED <<family, parent, expired, cookie, req, histVars>>

ClaimMissed(p) ==
  /\ At(p, "claim")
  /\ row[req[p].token] # "active"
  /\ Goto(p, "revokeFamily")
  /\ UNCHANGED <<tokenVars, cookie, req, histVars>>

(* TOKEN_REUSED: every active token of the family goes.                     *)
RevokeFamily(p) ==
  LET f == req[p].family IN
  /\ At(p, "revokeFamily")
  /\ row' = [t \in Tokens |->
               IF family[t] = f /\ row[t] = "active" THEN "revoked" ELSE row[t]]
  /\ reused' = reused \cup {f}
  /\ Goto(p, "deny")
  /\ UNCHANGED <<family, parent, expired, cookie, req, loggedOut>>

(* persist(): a fresh token in the family of the sign-in or rotation.       *)
Persist(p, t) ==
  /\ At(p, "persist")
  /\ row[t] = "unused"
  /\ row' = [row EXCEPT ![t] = "active"]
  /\ family' = [family EXCEPT ![t] = req[p].family]
  /\ parent' = [parent EXCEPT ![t] = req[p].token]
  /\ Become(p, "grant", [req[p] EXCEPT !.minted = t])
  /\ UNCHANGED <<expired, cookie, histVars>>

-----------------------------------------------------------------------------
(* revokeSession. *)

LogoutFind(p) ==
  LET t == req[p].token IN
  /\ At(p, "logoutFind")
  /\ row[t] # "deleted"
  /\ Become(p, "logoutDelete", [req[p] EXCEPT !.family = family[t]])
  /\ UNCHANGED <<tokenVars, cookie, histVars>>

LogoutAbsent(p) ==
  /\ At(p, "logoutFind")
  /\ row[req[p].token] = "deleted"
  /\ Goto(p, "bye")
  /\ UNCHANGED <<tokenVars, cookie, req, histVars>>

LogoutDelete(p) ==
  LET f == req[p].family IN
  /\ At(p, "logoutDelete")
  /\ row' = [t \in Tokens |-> IF family[t] = f THEN "deleted" ELSE row[t]]
  /\ loggedOut' = loggedOut \cup {f}
  /\ Goto(p, "bye")
  /\ UNCHANGED <<family, parent, expired, cookie, req, reused>>

-----------------------------------------------------------------------------
(* Failures that say nothing about the token.                               *)

(* A MySQL statement fails, without effect: the next one of the phase, after *)
(* "grant" the lookup of the user.  A refresh is answered with the error; an *)
(* error of a sign-in or a sign-out changes nothing in the browser.          *)
StatementFails(p) ==
  /\ pc[p] \notin {"idle", "deny", "error", "bye"}
  /\ At(p, "grant") => Refreshing(p)
  /\ IF Refreshing(p) THEN Become(p, "error", [req[p] EXCEPT !.minted = None])
                      ELSE Become(p, "idle", NoReq)
  /\ UNCHANGED <<tokenVars, cookie, histVars>>

(* refreshRateLimit answers a refresh with 429 (or fails itself) before the  *)
(* controller sees it: the cookie stays.                                     *)
TurnedAway(p) ==
  /\ At(p, "find") \/ (At(p, "deny") /\ req[p].token = None)
  /\ Become(p, "idle", NoReq)
  /\ UNCHANGED <<tokenVars, cookie, histVars>>

-----------------------------------------------------------------------------
(* Responses: a success sets the cookie; a sign-out and a refresh that fails *)
(* in the controller, whatever the error, clear whatever it holds by then.   *)

MutSetCookieKeeps(p, t) ==
  cookie' = IF req[p].tab = None \/ t = None \/ cookie[Jar[req[p].tab]] # None
            THEN cookie
            ELSE [cookie EXCEPT ![Jar[req[p].tab]] = t]
SetCookie(p, t) ==
  cookie' = IF req[p].tab = None THEN cookie
            ELSE [cookie EXCEPT ![Jar[req[p].tab]] = t]

Respond(p) ==
  /\ pc[p] \in {"grant", "deny", "error", "bye"}
  /\ SetCookie(p, IF At(p, "grant") THEN req[p].minted ELSE None)
  /\ Become(p, "idle", NoReq)
  /\ UNCHANGED <<tokenVars, histVars>>

(* The network drops the request's connection; the handler goes on.         *)
LoseResponse(p) ==
  /\ ~Idle(p)
  /\ req[p].tab # None
  /\ req' = [req EXCEPT ![p].tab = None]
  /\ UNCHANGED <<tokenVars, cookie, pc, histVars>>

(* The API instance dies: the handler stops where it is.                    *)
HandlerDies(p) ==
  /\ ~Idle(p)
  /\ Become(p, "idle", NoReq)
  /\ UNCHANGED <<tokenVars, cookie, histVars>>

(* An active token passes its expiresAt (of any other it is not looked at).  *)
Expire(t) ==
  /\ row[t] = "active"
  /\ t \notin expired
  /\ expired' = expired \cup {t}
  /\ UNCHANGED <<row, family, parent, cookie, pc, req, histVars>>

-----------------------------------------------------------------------------
Step(p) ==
  \/ FindAbsent(p) \/ Find(p) \/ RevokeExpired(p)
  \/ Claim(p) \/ ClaimMissed(p) \/ RevokeFamily(p)
  \/ \E t \in Tokens : Persist(p, t)
  \/ LogoutFind(p) \/ LogoutAbsent(p) \/ LogoutDelete(p)
  \/ Respond(p)

Start(p) ==
  \E b \in Tabs :
    \/ \E f \in Families : Login(p, b, f)
    \/ Refresh(p, b)
    \/ Logout(p, b)

(* Every request is answered by the instance that got it. *)
ReliableNext ==
  \/ \E p \in Requests : Start(p) \/ Step(p) \/ StatementFails(p) \/ TurnedAway(p)
  \/ \E t \in Tokens : Expire(t)

Next == ReliableNext \/ \E p \in Requests : LoseResponse(p) \/ HandlerDies(p)

Spec == Init /\ [][Next]_vars
ReliableSpec == Init /\ [][ReliableNext]_vars

-----------------------------------------------------------------------------
(* Properties. *)

(* A sign-in has at most one usable refresh token, however many tabs and    *)
(* lost or repeated requests rotate it: a copy of an older token is dead.   *)
OneActivePerFamily ==
  \A t, u \in Tokens :
    row[t] = "active" /\ row[u] = "active" /\ family[t] = family[u] => t = u

(* A token is exchanged at most once: no two tokens come from the same one. *)
RotatedOnce ==
  \A t, u \in Tokens : parent[t] # None /\ parent[t] = parent[u] => t = u

(* A family without a usable token and without a rotation that has claimed  *)
(* one is over for good: no request, late or repeated, revives it.          *)
Dead(f) ==
  /\ \E t \in Tokens : family[t] = f
  /\ \A t \in Tokens : family[t] = f => row[t] # "active"
  /\ \A p \in Requests : At(p, "persist") => req[p].family # f

DeadFamilyStaysDead == [][\A f \in Families : Dead(f) => Dead(f)']_vars

(* What TOKEN_REUSED says, "This session was already used from somewhere    *)
(* else. Sign in again.": once it was raised and no request is in flight,   *)
(* the session has no usable token left.                                    *)
ReuseEndsSession ==
  \A f \in reused :
    (\A p \in Requests : Idle(p)) =>
      \A t \in Tokens : family[t] = f => row[t] # "active"

(* The cookie of a browser with nothing in flight can be refreshed, unless  *)
(* its session was signed out.  Needs one tab per browser and responses     *)
(* that arrive.                                                             *)
CookieIsUsable ==
  \A b \in Tabs :
    LET t == cookie[Jar[b]] IN
    /\ t # None
    /\ family[t] \notin loggedOut
    /\ \A p \in Requests : req[p].tab # b
    => row[t] = "active"

(* A browser loses its cookie only to the answer of a sign-out, of a        *)
(* refresh whose session had expired or been signed out, of a request sent  *)
(* before it had a cookie, or of a refresh that met an error: the           *)
(* controller clears the cookie on any, a live session's too.  Under the    *)
(* same conditions, rotation never takes an honest client for a reused      *)
(* token.                                                                   *)
StaysSignedIn ==
  [][\A b \in Tabs :
       cookie[Jar[b]] # None /\ cookie'[Jar[b]] = None =>
         \E p \in Requests :
           /\ req[p].tab = b /\ req'[p].tab = None
           /\ \/ At(p, "bye")
              \/ At(p, "error")
              \/ req[p].token = None
              \/ family[req[p].token] \in loggedOut
              \/ req[p].token \in expired]_vars
=============================================================================
