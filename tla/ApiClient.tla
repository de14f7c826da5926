----------------------------- MODULE ApiClient -----------------------------
(***************************************************************************)
(* The browser's side of a session, composed with Sessions: the access     *)
(* token of a tab, the requests that carry it and are repeated once after  *)
(* a refresh (lib/api.ts), the session query that decides between login    *)
(* page and application (features/auth), and the socket (realtime/         *)
(* socket.ts), with the checks of the API (middleware/auth.ts) and of the  *)
(* handshake (realtime/auth.ts).                                           *)
(*                                                                         *)
(* An access token is issued with a refresh token and is named after it.   *)
(* It is not stored: it is good until it wears out, sign-out or not.       *)
(***************************************************************************)
EXTENDS Sessions

CONSTANTS
  Users,    \* the accounts
  Owner,    \* Owner[f]: whose sign-in f is
  Fetches,  \* API requests that can be in flight at once
  Unknown   \* the session query has no answer yet

ASSUME OwnerAssumption == Owner \in [Families -> Users]
ASSUME UnknownAssumption == None \notin Users /\ Unknown \notin Users \cup {None}

VARIABLES
  access,   \* access[b]: the access token tab b holds, or None
  worn,     \* the access tokens past their expiry
  me,       \* me[b]: the answer of the session query: a user, None, Unknown
  fetch,    \* fetch[k]: a request in flight
  socket,   \* socket[b]: the socket of the application in tab b
  stray,    \* stray[b]: sockets the application left behind while they waited
            \* for a refresh (two in the same state go on as one)
  crossed,  \* history: the tabs in which two sessions met (see Cross)
  limited   \* history: the tabs that had a refresh turned away

sockets == <<socket, stray>>
histories == <<crossed, limited>>
clientVars == <<access, worn, me, fetch, sockets, histories>>
apiVars == <<vars, clientVars>>

Silent == [at |-> "free", tab |-> None, as |-> None, of |-> "app"]
Fetch == [at : {"free", "sent", "waiting", "again"}, tab : Tabs \cup {None},
          as : Tokens \cup {None}, of : {"app", "profile", "session", "login"}]
Socket(state, u) == [state |-> state, as |-> u]
Waiting == Socket("refreshing", None)
Dialing == Socket("dialing", None)

ApiTypeOK ==
  /\ TypeOK
  /\ access \in [Tabs -> Tokens \cup {None}]
  /\ worn \subseteq Tokens
  /\ me \in [Tabs -> Users \cup {None, Unknown}]
  /\ fetch \in [Fetches -> Fetch]
  /\ socket \in [Tabs -> [as : Users \cup {None},
                  state : {"off", "dialing", "refreshing", "on", "dead", "closed"}]]
  /\ stray \in [Tabs ->
       SUBSET ({Waiting, Dialing} \cup {Socket("on", u) : u \in Users})]
  /\ crossed \subseteq Tabs
  /\ limited \subseteq Tabs

ApiInit ==
  /\ Init
  /\ access = [b \in Tabs |-> None]
  /\ worn = {}
  /\ me = [b \in Tabs |-> Unknown]
  /\ fetch = [k \in Fetches |-> Silent]
  /\ socket = [b \in Tabs |-> Socket("off", None)]
  /\ stray = [b \in Tabs |-> {}]
  /\ crossed = {}
  /\ limited = {}

-----------------------------------------------------------------------------
(* requireAuth and the handshake: the user a token is accepted for. *)

Good(t) == t # None /\ t \notin worn
UserOf(t) == Owner[family[t]]

(* What the code does not guard against: the screen goes from one user to  *)
(* another without the login page, or a sign-in is answered while another  *)
(* auth request, a profile update or a socket of an older session is left  *)
(* in the tab, or after a late answer to that session's query or profile   *)
(* update has brought the application back.                                *)
Cross(tabs) == crossed' = crossed \cup tabs

SocketWaits(b) == socket[b] = Waiting \/ Waiting \in stray[b]

RefreshInFlight(b) == \E p \in Requests : Refreshing(p) /\ req[p].tab = b

(* The session query answers u: the application, and with it the socket,   *)
(* is there exactly while it answers with a user.                          *)
Mounted(s, old, new) ==
  CASE new \notin Users -> Socket("off", None)
    [] new \in Users /\ old \notin Users -> Dialing
    [] OTHER -> s

(* s and x: the socket of the application and those left behind.  Unmounted *)
(* it is disconnected, but one that waits for a refresh still has its       *)
(* then() to come.                                                          *)
Show(b, u, s, x) ==
  /\ me' = [me EXCEPT ![b] = u]
  /\ socket' = [socket EXCEPT ![b] = Mounted(s, me[b], u)]
  /\ stray' = [stray EXCEPT ![b] =
                 IF u \notin Users /\ s = Waiting THEN x \cup {s} ELSE x]
  /\ Cross(IF {u, me[b]} \subseteq Users /\ u # me[b] THEN {b} ELSE {})

-----------------------------------------------------------------------------
(* apiFetch. *)

(* The session query asks once at a time; everything else is asked by the  *)
(* application, the profile update among it (useUpdateProfile).            *)
Asks(k, b) == fetch[k].tab = b /\ fetch[k].of \in {"session", "login"}
Updates(k, b) == fetch[k].tab = b /\ fetch[k].of = "profile"
Sent(b, t, of) == [at |-> "sent", tab |-> b, as |-> t, of |-> of]

Ask(k, b, of) ==
  /\ fetch[k] = Silent
  /\ \/ of \in {"app", "profile"} /\ me[b] \in Users
     \/ of = "session" /\ \A l \in Fetches : ~Asks(l, b)
  /\ fetch' = [fetch EXCEPT ![k] = Sent(b, access[b], of)]
  /\ UNCHANGED <<vars, access, worn, me, sockets, histories>>

(* refreshSession: the refresh in flight is joined, or one is started. *)
JoinRefresh(b) ==
  \/ RefreshInFlight(b) /\ UNCHANGED vars
  \/ \E p \in Requests : Refresh(p, b)

(* An answer, or the second 401, is handed to whoever asked: the session   *)
(* query becomes it, and also becomes the answer to a profile update.      *)
Done(k, u) ==
  LET b == fetch[k].tab
      written == Asks(k, b) \/ (Updates(k, b) /\ u # None) IN
  /\ fetch' = [fetch EXCEPT ![k] = Silent]
  /\ Show(b, IF written THEN u ELSE me[b], socket[b], stray[b])
  /\ UNCHANGED <<vars, access, worn, limited>>

(* 401: wait for the session to be refreshed. *)
Unauthorized(k) ==
  /\ fetch[k].at = "sent" /\ ~Good(fetch[k].as)
  /\ fetch' = [fetch EXCEPT ![k].at = "waiting"]
  /\ JoinRefresh(fetch[k].tab)
  /\ UNCHANGED <<access, worn, me, sockets, histories>>

Succeed(k) ==
  fetch[k].at \in {"sent", "again"} /\ Good(fetch[k].as) /\ Done(k, UserOf(fetch[k].as))
Reject(k) == fetch[k].at = "again" /\ ~Good(fetch[k].as) /\ Done(k, None)

(* The network fails: an error that is no 401 leaves the answer there was. *)
LoseFetch(k) ==
  /\ fetch[k].at \in {"sent", "again"}
  /\ fetch' = [fetch EXCEPT ![k] = Silent]
  /\ UNCHANGED <<vars, access, worn, me, sockets, histories>>

-----------------------------------------------------------------------------
(* The answers of the auth endpoints in the tab that asked. *)

(* refreshSession resolves: with a token the waiting requests are sent     *)
(* again and the sockets connect, one the application left behind too;     *)
(* without, their 401 stands and the sockets stay as they are.             *)
Repeated(f, t) == IF t = None THEN Silent ELSE [f EXCEPT !.at = "again", !.as = t]
MutRecovered(b, t) ==
  /\ access' = [access EXCEPT ![b] = t]
  /\ fetch' = [k \in Fetches |->
       IF fetch[k].at = "waiting" /\ fetch[k].tab = b /\ t # None
         THEN Repeated(fetch[k], t) ELSE fetch[k]]
  /\ UNCHANGED <<me, sockets, crossed>>
Recovered(b, t) ==
  LET waits(k) == fetch[k].at = "waiting" /\ fetch[k].tab = b
      over == t = None /\ \E k \in Fetches : waits(k) /\ Asks(k, b)
      left == stray[b] \ {Waiting} IN
  /\ access' = [access EXCEPT ![b] = t]
  /\ fetch' = [k \in Fetches |-> IF waits(k) THEN Repeated(fetch[k], t) ELSE fetch[k]]
  /\ Show(b, IF over THEN None ELSE me[b],
          IF socket[b] # Waiting THEN socket[b]
          ELSE IF t = None THEN Socket("dead", None) ELSE Dialing,
          IF Waiting \in stray[b] /\ t # None THEN left \cup {Dialing} ELSE left)

(* useLogin, useRegister: the session query is asked anew; an answer it    *)
(* still waits for is ignored.                                             *)
LateSignIn(b) ==
  \/ me[b] \in Users
  \/ \E p, q \in Requests : p # q /\ req[p].tab = b /\ req[q].tab = b
  \/ \E k \in Fetches : Updates(k, b)
  \/ stray[b] # {}
MutSignedIn(b, t) ==
  /\ access' = [access EXCEPT ![b] = t]
  /\ \E k \in Fetches :
       /\ fetch[k] = Silent
       /\ fetch' = IF \E l \in Fetches : Asks(l, b) THEN fetch
                   ELSE [fetch EXCEPT ![k] = Sent(b, t, "login")]
  /\ Cross(IF LateSignIn(b) THEN {b} ELSE {})
  /\ UNCHANGED <<me, sockets>>
SignedIn(b, t) ==
  /\ access' = [access EXCEPT ![b] = t]
  /\ \E k \in Fetches :
       /\ IF \E l \in Fetches : Asks(l, b) THEN Asks(k, b) ELSE fetch[k] = Silent
       /\ fetch' = [fetch EXCEPT ![k] = Sent(b, t, "login")]
  /\ Cross(IF LateSignIn(b) THEN {b} ELSE {})
  /\ UNCHANGED <<me, sockets>>

(* useLogout. *)
SignedOut(b) ==
  /\ access' = [access EXCEPT ![b] = None]
  /\ Show(b, None, socket[b], stray[b])
  /\ UNCHANGED fetch

Hear(p) ==
  LET b == req[p].tab IN
  /\ \/ Respond(p) /\ UNCHANGED limited
     \/ TurnedAway(p) /\ limited' = limited \cup {b}
  /\ CASE Refreshing(p) -> Recovered(b, req[p].minted)
       [] At(p, "bye") -> SignedOut(b)
       [] OTHER -> SignedIn(b, req[p].minted)
  /\ UNCHANGED worn

(* sessionsRevoked: the server closes every socket of the user, and a      *)
(* socket the server closed does not reconnect by itself.                  *)
Revoke(p) ==
  LET theirs == Socket("on", Owner[req[p].family]) IN
  /\ LogoutDelete(p)
  /\ socket' = [b \in Tabs |->
       IF socket[b] = theirs THEN Socket("closed", None) ELSE socket[b]]
  /\ stray' = [b \in Tabs |-> stray[b] \ {theirs}]
  /\ UNCHANGED <<access, worn, me, fetch, histories>>

-----------------------------------------------------------------------------
(* The socket. *)

(* What the server makes of the token the tab holds by then.                *)
Greeted(t) == CASE t = None -> Socket("dead", None)
                [] Good(t)  -> Socket("on", UserOf(t))
                [] OTHER    -> Waiting
Greet(b) ==
  /\ IF Greeted(access[b]) = Waiting THEN JoinRefresh(b) ELSE UNCHANGED vars
  /\ UNCHANGED <<access, worn, me, fetch, histories>>

Handshake(b) ==
  /\ socket[b].state = "dialing"
  /\ socket' = [socket EXCEPT ![b] = Greeted(access[b])]
  /\ Greet(b)
  /\ UNCHANGED stray

(* The same for a socket left behind; a refused one is of no interest.      *)
StrayHandshake(b) ==
  /\ Dialing \in stray[b]
  /\ stray' = [stray EXCEPT ![b] =
       (@ \ {Dialing}) \cup (IF access[b] = None THEN {} ELSE {Greeted(access[b])})]
  /\ Greet(b)
  /\ UNCHANGED socket

(* A lost connection is dialled again. *)
Cut(b) ==
  /\ \/ /\ socket[b].state = "on"
        /\ socket' = [socket EXCEPT ![b] = Dialing]
        /\ UNCHANGED stray
     \/ \E s \in stray[b] :
          /\ s.state = "on"
          /\ stray' = [stray EXCEPT ![b] = (@ \ {s}) \cup {Dialing}]
          /\ UNCHANGED socket
  /\ UNCHANGED <<vars, access, worn, me, fetch, histories>>

WearOut(t) ==
  /\ row[t] # "unused" /\ t \notin worn
  /\ worn' = worn \cup {t}
  /\ UNCHANGED <<vars, access, me, fetch, sockets, histories>>

-----------------------------------------------------------------------------
(* Signing in is offered on the login page, whose button waits for the     *)
(* whole of useLogin; signing out in the application.                      *)
SigningIn(b) ==
  \/ \E q \in Requests :
       pc[q] \in {"persist", "grant"} /\ req[q].token = None /\ req[q].tab = b
  \/ \E k \in Fetches : fetch[k].of = "login" /\ fetch[k].tab = b
SignIn(p, b) ==
  /\ me[b] = None /\ ~SigningIn(b)
  /\ \E f \in Families : Login(p, b, f)
  /\ UNCHANGED clientVars
SignOut(p, b) == me[b] \in Users /\ Logout(p, b) /\ UNCHANGED clientVars

(* What an auth handler does between the request and its response.         *)
Handle(p) ==
  \/ /\ FindAbsent(p) \/ Find(p) \/ RevokeExpired(p) \/ Claim(p) \/ ClaimMissed(p)
        \/ RevokeFamily(p) \/ LogoutFind(p) \/ LogoutAbsent(p)
        \/ \E t \in Tokens : Persist(p, t)
     /\ UNCHANGED clientVars
  \/ Revoke(p)
  \/ Hear(p)

Serve(k) == Unauthorized(k) \/ Succeed(k) \/ Reject(k)

ApiStart ==
  \E b \in Tabs : \/ \E k \in Fetches, of \in {"app", "profile", "session"} : Ask(k, b, of)
                  \/ \E p \in Requests : SignIn(p, b) \/ SignOut(p, b)

ApiAge ==
  \/ \E t \in Tokens : (Expire(t) /\ UNCHANGED clientVars) \/ WearOut(t)
  \/ \E p \in Requests : StatementFails(p) /\ UNCHANGED clientVars
  \/ \E b \in Tabs : Cut(b)
  \/ \E k \in Fetches : LoseFetch(k)

ApiNext ==
  \/ ApiStart \/ ApiAge
  \/ \E p \in Requests : Handle(p)
  \/ \E k \in Fetches : Serve(k)
  \/ \E b \in Tabs : Handshake(b) \/ StrayHandshake(b)

ApiSpec == ApiInit /\ [][ApiNext]_apiVars

-----------------------------------------------------------------------------
(* Properties. *)

Healthy(b) ==
  LET t == cookie[Jar[b]] IN
  t # None /\ row[t] = "active" /\ t \notin expired /\ family[t] \notin loggedOut

Settled(b) ==
  /\ \A k \in Fetches : fetch[k].tab # b
  /\ \A p \in Requests : req[p].tab # b
  /\ socket[b].state \notin {"dialing", "refreshing"}

(* A tab with nothing in flight is of one user: whose session the cookie   *)
(* is, is shown as signed in, is who the access token speaks for, and has  *)
(* every socket that is connected, whatever was in flight when somebody    *)
(* signed out or in.  The application's socket is connected, or was closed *)
(* by a sign-out elsewhere; only after a refresh turned away it may have   *)
(* given up.                                                               *)
TabIsOneUser ==
  \A b \in Tabs \ crossed : LET u == UserOf(cookie[Jar[b]]) IN
    Settled(b) /\ Healthy(b) /\ me[b] \in Users =>
      /\ me[b] = u
      /\ access[b] # None => UserOf(access[b]) = u
      /\ \/ socket[b] \in {Socket("on", u), Socket("closed", None)}
         \/ b \in limited /\ socket[b].state = "dead"
      /\ \A s \in stray[b] : s.state = "on" => s.as = u

(* Whoever waits for the session to be refreshed is woken: a request or    *)
(* a socket of a tab waits only while a refresh of the tab is in flight.   *)
NobodyWaitsInVain ==
  \A b \in Tabs :
    (SocketWaits(b) \/ \E k \in Fetches : fetch[k].at = "waiting" /\ fetch[k].tab = b)
      => RefreshInFlight(b)
=============================================================================
