# A TLA+ verification project for duplex

duplex is a chat application with one-to-one calls: an Express and Socket.IO API
in TypeScript (`src/apps/backend`), MySQL behind Prisma, Redis for everything the
API instances share, and a React client (`src/apps/frontend`). Any number of API
instances can run side by side. None of them holds a lock: what keeps two requests
apart is single Redis commands, small Lua scripts, unique keys and conditional
updates in MySQL. Between two `await`s anything else can happen. That is what this
project is about.

Each module is translated from the code and names the functions it stands for;
`PROJECT.json` (`map`) gives the lines. Module-level conventions:

- A *process* (`p` in `Procs` or `Requests`) is one invocation of a handler. Its
  action runs from one `await` on Redis or MySQL to the next, since exactly there
  other handlers, of this or another instance, run.
- `pc[p]` is where the invocation stands, `task[p]` or `req[p]` its local variables.
- A variable whose comment begins with "history" is not in the program; it records
  the past for a property and no guard reads it.
- An operator whose name begins with `Mut` is a plausible bug in the definition
  that follows it. Nothing uses it; substituting it must break a property.

## 1. Inventory

| Component | State | Operations | Modelled in |
|---|---|---|---|
| Call store, service, handlers (`realtime/calls.ts`, `services/call.service.ts`, `realtime/handlers/call.ts`) | Redis: a record per call, a slot per user; MySQL: a log row per call | invite, accept, decline, hang up, drop on disconnect, relay of SDP and ICE | `Telephony`, `Calls`; the relay in `CallClient` |
| Call client (`features/call/call-provider.tsx`) | refs and state of a tab: call, peer connection, streams, queued ICE, ring timer | start, accept, decline, hang up, mute, every event | `CallClient` |
| Refresh-token sessions (`services/token.service.ts`, `controllers/auth.controller.ts`) | MySQL: a row per token, families; browser: the cookie | sign in, refresh (rotation, reuse detection), sign out | `Sessions` |
| API client (`lib/api.ts`, `features/auth/session.ts`), socket (`realtime/socket.ts`) | access token, the refresh in flight, the session query, the socket | request, refresh once for all callers, repeat; sign in and out; handshake | `ApiClient` |
| Group membership (`services/conversation.service.ts`, its repository) | MySQL: member rows with roles, `owner_id` | create, add, remove, leave, hand over | `Membership` |
| Rooms and the bridge (`realtime/bridge.ts`, `welcome` in `realtime/server.ts`) | Socket.IO rooms | connect, look up, join; announce additions and removals | `Rooms`; events in `Groups`, `Inbox`, `Presence`, `ApiClient` |
| Group panel and caches (`features/conversation/queries.ts`, `conversation-panel.tsx`) | list and detail of a tab | every button, answer, event and query | `Groups` |
| Presence (`realtime/presence.ts`, `realtime/server.ts`) | Redis: a set of socket ids per user, with a TTL | online, offline, sweep, who is online, announce online | `Presence` |
| Messages (`services/message.service.ts`, its repository) | MySQL: messages, reactions, read cursors | send (deduplicated), edit, delete, react, mark read, page | `Messages`, `Chat`; not search |
| Chat caches (`features/message/queries.ts`), acknowledgements (`realtime/ack.ts`) | pages of history, outbox | optimistic changes, events, refetches, older pages, time-outs, retries | `Chat` |
| Direct conversations, lists, unread counts (`services/conversation.service.ts`, `features/conversation/queries.ts`, `use-realtime-sync.ts`) | `direct_key`, cursors; list, badges and receipts of a tab | open, list, detail, mark read, every event | `Inbox` |
| Rate limiter (`middleware/rate-limit.ts`) | Redis: a token bucket per key | consume | `RateLimiter` |
| Typing indicators (`realtime/typing.ts`, `features/typing`) | Redis: a sorted set per conversation; timers in the browsers | start, stop, expire, show | `Typing` |
| Link previews; accounts and profiles; HTTP surface; schemas; UI | single rows, or none | | not modelled, see 12 |

How they interact. HTTP requests and socket events reach the services; services
call repositories (MySQL) and stores (Redis); the conversation service tells the
bridge what it committed, and the bridge moves sockets between rooms and emits
events through the Redis adapter. The disconnect handler of the last socket of a
user closes that user's call, so presence drives calls. The browser sends its
refresh cookie, shared by all tabs of one browser, with every refresh; requests and
the socket of a tab wait for one refresh.

What is hard in it:

- **check, then act** in separate commands: `claim` takes two slots and writes a
  record; `release` reads, deletes, frees twice; a rotation finds, claims, inserts;
  group requests check on a copy and then run a transaction;
- **racing closers**: hang-up, decline and two disconnects of one call;
- **lost and repeated work**: a response that never reaches the browser, a Redis
  command sent again after its reply was lost, a handler that dies half way;
- **events out of order**: commits in one order, announcements in another; a socket
  that is still being set up when its user is added or removed;
- **caches written by three hands**: answers, events and optimistic changes, each of
  which may be older than what it replaces;
- **awaits in the browser**: a microphone granted after the call has ended, a refresh
  answered after a sign-out;
- **clocks**: instances that disagree about the time, timers that race a late event.

What makes each component correct:

- calls: nobody is in two calls; nobody is marked as busy without a call; an invite
  is answered; every call is settled once and the log tells the truth;
- call client: the microphone is live in a call only (a sign-out in a call breaks this, see §3); who is called hears it; an
  answered call connects two tabs, each with the other's description and candidates;
- sessions: a sign-in has one usable refresh token; a token is exchanged once; a
  session that is over stays over; an honest client is never signed out by rotation;
- API client: screen, access token and socket of a tab are of the session its cookie
  is of; nobody waits for a refresh that is not coming;
- groups: one owner, within the cap, whatever requests overlap; exactly the members
  hear the group's events; lists and panels follow;
- presence: who is connected is shown online, who is gone is eventually offline;
- messages: a message sent is stored once and shown once, in every client, in one order;
- inbox: two people have one conversation, both list it, the badge counts what is
  unread, "Seen" is shown of what was seen;
- typing: who types is shown, who stopped is not, for longer than the time-outs;
- rate limiter: the rate is kept, and whoever waits as told is let through, up to the skew of the clocks.

The hazards, each at its line with the property that covers it, are in
`PROJECT.json` (`hazards`).

## 2. Plan

| | Modules | Composes | Status |
|---|---|---|---|
| 1 | `Telephony` (abstract), `Calls` (refines it), `CallsProofs` | | done |
| 2 | `Sessions`, `SessionsProofs` | | done |
| 3 | `Membership`, `Rooms`, `RoomsProofs` | `Rooms` = `Membership` + sockets | done |
| 4 | `Presence`, `PresenceProofs` | | done |
| 5 | `Messages`, `Chat`, `ChatProofs` | `Chat` = `Messages` + browsers | done |
| 6 | `CallClient`, `CallClientProofs` | browsers + the server `Telephony` promises | done |
| 7 | `ApiClient`, proved in `SessionsProofs` | `Sessions` + access tokens, requests, socket | done |
| 8 | `Groups`, proved in `RoomsProofs` | `Rooms` + panel and caches | done |
| 9 | `Inbox`, `InboxProofs` | direct conversations, cursors + browsers | done |
| 10 | `RateLimiter`, `Typing`, `TypingProofs` | `Typing` = `RateLimiter` + set + browsers | done |
| 11 | the proof of `BothSidesTalk` in `CallClientProofs` | | done |

Theorems come with each module: type correctness, its main safety invariant, and
the refinement where an abstract specification exists.

Every property with an exception names it in a history variable (`mishaps`, `doubt`,
`stale`, `trouble`, `crossed`, `off`, `limited`). Each of those marks something the code really
does not guard against; the tables below say what, at which line. Without the
exception TLC finds a counterexample that is the program's, so the tables are results as much
as the properties are.

## 3. Calls

### The server

`Telephony` is what the feature promises: a call rings between two people neither
of whom is engaged, may be answered, ends once and for good.

`Calls` is how the code does it. `slot[u]` is the Redis key `call:user:<u>`,
`record[c]` the key `call:<c>`, `log[c]` the row of `call_logs`; `posted[c]` and
`told[c]` collect system messages and socket events. The actions:

| Code | Actions |
|---|---|
| `invite` of the service and `claim` of the store | `Invite`, `CheckOnline`, `ClaimCaller`/`CallerBusy`, `ClaimCallee`/`CalleeBusy`, `Unclaim`, `WriteRecord`, `Ring` |
| `accept` | `Accept`, `AnswerWrite`, `TellAccepted` |
| `decline`, `hangUp`, `release` | `Decline`, `HangUp`, `DeleteRecord`, `FreeCaller`, `FreeCallee`, `Finish`, `Post`, `Announce` |
| the disconnect handler, `dropFor` | `Disconnect`, `DropLookup`, `DropRead`, `DropNothing` |
| `connect` of `lib/redis.ts` (`maxRetriesPerRequest: null`) | `ClaimResent`: a `SET NX` took effect, its reply was lost, and the repetition finds the slot taken |
| the `catch` of `claim` | `ClaimError`, `UndoCaller`, `UndoCallee` |
| a crash, or MySQL throwing | `HandlerDies` |

`release` reads the record and deletes it without looking at how many keys the
`DEL` removed, so two closers may both close one call; the model keeps that.

Runs. `calls` (three people, two calls, two handlers at once, five started in all; no
faults; `FairSpec`): `NoOrphanSlot`, `RefusedLeavesNothing`, `LogMatchesHistory`, and the
liveness properties `InviteAnswered` and `ReleasedSettles`. `calls_faults` (two people,
two calls, three handlers at once, with the faults): `SlotFreedOnlyByItsCall`, and that
`Calls` implements `Telephony`.

Bounds. Two calls and three people are the least in which calls can share one
person; two handlers are an answer racing a closer, or two invites, and the third of
`calls_faults` is a second closer. Five started handlers let a call be invited,
answered, closed twice, and its participants taken by a second call meanwhile. `calls`
checks liveness and so uses no symmetry; instead handlers, calls and the first invite's
people are named in order (`MCStartInOrder`), which leaves out renamings only.

Fairness. `FairSpec` demands only that a handler in flight is resumed when it can
go on: Redis and MySQL answer, and the event loop runs every continuation. Nobody
is obliged to answer or to hang up; the server has no ring time-out, so nothing
more can be promised.

Faults leave something behind: a handler that dies between `claim` and `release`
leaves slots taken until the two-hour TTL (not modelled). So `NoOrphanSlot`,
`RefusedLeavesNothing` and the log properties are properties of `Spec`, and
exclusiveness and the refinement hold with faults.

### The browsers

`CallClient` is two people's tabs in a call. A tab is a record of the refs and the React
state of `call-provider.tsx`; its handlers (`OnAck`, `OnIncoming`, `OnAccepted`, `OnSdp`,
`OnIce`, `OnEnded`) are functions from tabs to tabs. A *job* is one invocation of `start`,
`accept` or `onSdp` that stands at an `await` (`startMedia`, `ack`, `acceptMedia`,
`describe`): whatever the tab hears meanwhile comes in between. `sees` is the value of
`state.outgoing` that the registered socket handlers closed over, renewed by `Rerender`.
The server is `Telephony`, with the guards and the addressees of `handlers/call.ts`
(`HandleInvite`, `HandleAccept`, `HandleClose`, `Relay`, `Drop`). Requests of a tab are
handled in any order; a description is passed on when every tab has a job free to work on it
(`Jobs` bounds them). `Disconnect` loses what is on its way, `Leave` is a closed or reloaded
page, `StartFails`/`AcceptFails` a refused microphone or an acknowledgement later than ten
seconds, `TimerFires` the ring time-out.

A tab is `mounted` while it shows the application. When the session query says that nobody is
signed in, `RequireSession` unmounts the providers (`Unmount`): the socket is closed for good and no
event is heard, but the cleanup of `CallProvider` only takes its listeners off
(`call-provider.tsx:433-439`), so streams, connections and jobs go on. `Mount` is the next
sign-in, with new refs; a tab in which the old refs left anything live is then in `left`. `TellEnded` may find
that the call could not be settled (`settled`): `close` throws after the release, and nobody
is told, although the call is over. Not modelled: a request that the server drops because a
Redis command throws before anything changed (`quietly` only logs it). A hang-up or a ring
time-out dropped so leaves the call ringing; in the model only a lost connection loses
requests.

Run `call_client` (the caller with one tab, the callee with two, two calls, three clicks or
failures): `MicrophoneFollowsTheCall`, `ShownCallIsReal`, `RingingIsHeard`, `BothSidesTalk`.
Two tabs of the callee let one answer as the other rings; three events are a call placed,
answered and disturbed once, or placed twice. Calls and streams are interchangeable (`Symmetry`): about
597 000 states. The properties are about a quiet moment:
nothing on its way to or from the server, no job in flight. Each has the exceptions `trouble` records:

| Trouble | What the code does |
|---|---|
| `tangled` | two clicks on "Call" or "Answer" before the first has its microphone start two jobs, and the first stream is never stopped; an `accept` that resumes after its call ended takes the microphone for a call that is gone (`call-provider.tsx:224-238`); the refusal of an own invite tears down a ring that came in meanwhile |
| `twice` | two tabs of one person both accept; both stay in the call |
| `gaveUp` | the acknowledgement comes after the ten seconds, or the page was left: the call rings, and no tab has the timer that would end it |
| `stale` | the call is answered before React has registered the handlers that know it is outgoing (`call-provider.tsx:343-349`) |
| `cut` | events missed while disconnected are never asked for again |
| `untold` | a call is released before it is logged and its summary posted (`call.service.ts:73-83`); an error there is swallowed (`handlers/call.ts:51-59`) or ends the disconnect handler (`server.ts:231-232`), and the tabs go on showing a call that is over |
| `stranded` | the tab is signed out in a call, or while it is answering one: `RequireSession` unmounts `CallProvider` (`auth-gate.tsx:32`), and microphone and connection stay live (`call-provider.tsx:433-439`) |

`MicrophoneFollowsTheCall` exempts `tangled` and `stranded`, `ShownCallIsReal` exempts `cut` and
`untold`, the other two exempt any trouble of a tab of the call's people. None of the exceptions is
idle: without any one of `tangled`, `stranded`, `cut`, `untold` TLC finds the counterexample. So the first
does not cover every end of a call: it says that the end of a call, a refused microphone, a
late acknowledgement, a lost connection, or a sign-out while nothing is in hand or a start is in flight,
leaves nothing live behind.

## 4. Sessions and the API client

### The server

`row[t]` is a row of `refresh_tokens` (unused, active, revoked, deleted),
`family[t]` its family, `cookie[j]` what cookie jar `j` holds, `expired` the tokens
past `expiresAt`. A refresh is `Find`, then `Claim` (`revokeIfActive`, one
conditional update) or `ClaimMissed`, then `Persist` and the answer; reuse leads to
`RevokeFamily`, an expired token to `RevokeExpired`; a sign-out is `LogoutFind`,
`LogoutDelete`. `Respond` changes the cookie (`setRefreshCookie`,
`clearRefreshCookie`), `LoseResponse` is an answer that never arrives. `StatementFails` is a
statement of MySQL that throws: the answer to a refresh then clears the cookie all the
same (`auth.controller.ts:87-90`). `TurnedAway` is the rate limiter in front of the
controller, which leaves the cookie. A tab runs one
refresh at a time (`refreshSession`), the tabs of a browser do not know of each other.

Run `sessions` (two tabs, one cookie jar, lost answers, dying handlers, expiry, four
tokens, three requests at once, five in all): `OneActivePerFamily`,
`DeadFamilyStaysDead`. `sessions_reuse` is a finding (section 10).

Bounds. Four tokens are a sign-in and three rotations, enough for a lost rotation, a
reuse and a rotation still in flight; three requests allow a winner, a loser and a
sign-out. `CHECK_DEADLOCK FALSE`: when the bounded requests are spent, nothing is left
to do.

### The browser

`ApiClient` adds what a tab does with its session: `access[b]`, the access token, named
after the refresh token it was issued with; `fetch[k]`, requests in flight; `me[b]`, the
session query, whose answer decides between the login page and the application;
`socket[b]`. A request refused with 401 waits (`Unauthorized`) for the refresh that is
in flight or starts one (`JoinRefresh`), is repeated once (`Recovered`) and then stands
(`Reject`); so it does when the refresh is refused, for whatever reason. The answer to a
profile update is written to the session query too (`Updates`). `Handshake` is the socket's
`connect` with the token the tab has then: none and it gives up, a worn one and it waits
for the same refresh. A socket that waits when the application is unmounted is in `stray[b]`
from then on: it is connected when the refresh is answered, whatever the tab shows by then
(`socket.ts:23-25`, `StrayHandshake`), and nobody closes it. `SignedIn`, `SignedOut` are
`useLogin` and `useLogout`, `Revoke` the closing of a signed-out user's sockets.

Run `api_client` (one tab whose answers arrive, two accounts, three sign-ins, two auth
requests and two API requests at once, four tokens; five requests in all and two tokens
that wear out, connections or answers that are lost, or statements that fail): `CookieIsUsable` and
`StaysSignedIn` (rotation never signs out an honest client; only an error does),
`TabIsOneUser`, `NobodyWaitsInVain`. The first two are stated for a tab with a cookie jar of its own
whose answers arrive: with a shared jar or lost answers they do not hold, by design of reuse detection.
`crossed` names the tabs in which two sessions met: a sign-in answered while another auth
request, a profile update or a socket left behind of the older session is still there; a session query or
profile update answered for the old user after the sign-out, which restores the old user's screen
(`session.ts:79-95`, `112-114`); and, which the proof of `TabIsOneUser` brought up, a sign-in
after such a late answer, also of the same user: the screen does not change, so the socket,
which has given up for want of a token, is not dialled again. `limited` names the tabs in which a refresh
was turned away with the cookie kept: the socket that waited for it has given up in a live session.
Each of these was taken away in turn, and TLC found the counterexample.

What the code does and the properties leave room for: a socket the server closed at
sign-out does not reconnect by itself, also not on the user's other devices
(`bridge.ts:145-150`; `closed`); a socket that dials while the tab has no token gives up
until the next sign-in (`socket.ts:20-26`; `dead`); an access token stays good after
the sign-out until it expires; a refresh refused with 429, failing or lost in the network counts as
"not signed in" and shows the login page (`api.ts:42-50`), so that the login page means a session is
over is not a property of this code.

## 5. Groups

`Membership` is one group: `role[u]`, `ownerId`, and requests in three steps. `Begin`
(by `AddMembers`, `RemoveMember`, `TransferOwner`) reads the conversation once and makes
every check; `CommitAdd`, `CommitRemove`, `CommitTransfer` are the transactions, with
what MySQL itself enforces (a row that must exist or must not) and no second look at
roles, cap or owner; `Abort` is a transaction that failed; `Announce` hands the outcome
to the bridge. A transaction is one action: all of them write the conversation's row, so
InnoDB orders them or rolls one back.

`Rooms` adds the connections: `Connect` joins the user room, `LookUp` reads the
memberships, `JoinRooms` joins their rooms, `Disconnect`; and `AnnounceToRoom` moves the
sockets of the people concerned (`SocketsOf`, that is everybody in their user rooms).

`Groups` adds what a request reads back and the browsers. The conversation a request answers
with and announces is read inside its transaction (`detailInTransaction`), at REPEATABLE READ. Prisma
looks for the rows of a removal or a hand-over before it writes them
(`conversation.repository.ts:397`, `422`): that SELECT fixes the snapshot (`Open`), and what others commit
from then on is missing from the copy (`KeepCopy`), only the transaction's own changes are in
it. An addition is different: its first statement is the INSERT of `createMany` (line 373), which locks the
conversation's row shared for the foreign key, while every other request must write that row before it
commits (`writeSystemMessage`). So nothing commits between an addition's snapshot and its own
commit, and its copy is the group as it leaves it.

`Press` is a button of the panel, offered by what the
detail shows (`IAmOwner`), `Write` and `Tell` the request's transaction and its
announcement, which changes the caches of everybody concerned and answers whoever
asked; `Query` and `Take` are the list and the detail read and arriving,
`Keep` and `WalkAway` the mutations' `onSuccess`, `Lose` a lost answer.

Because requests overlap, promises are stated with their condition. Alone,
a request keeps one owner (`OneOwnerWhenSerial`) and the cap (`WithinCapWhenSerial`);
with overlap, two additions can exceed the cap and two hand-overs can leave two rows that
say OWNER. Until the first hand-over even overlapping requests cannot dislodge the
creator (`CreatorOwnsUntilTransfer`, proved). `NoMemberMissesRoom`: an admitted member's
connection is in the room however its setup and the admission interleave.
`RemovedHearNothing`: a removed member's connection is out, except one that was
between lookup and join at the announcement (`stale`), which stays in the room until it
disconnects. `ListIsTrue`: the list of everybody concerned follows the group, except
(`doubt`) that

- they were not connected when it was announced: nothing tells them until the list is read
  again;
- an answer was overtaken by an announcement: the late answer overwrites the newer event;
- two requests were announced in another order than they committed in: an upsert
  announced after a later removal puts the group back on the removed member's list;
- a removal or a hand-over committed after another request that its snapshot missed: its upsert
  still goes to a member who was removed meanwhile, and its answer shows the old roles
  (`passed`, a history variable, also holds these requests);
- an owner was deposed and removed while adding somebody: the answer is a group they
  are no longer in (`conversation.serialize.ts:84`).

`PanelIsTrue`: the detail is right for whoever changed the group last, unless their copy missed a
commit, or has just read it. For
the others it is `dated`: `conversation:upsert` renews the list entry and not the detail
(`queries.ts:224`, `use-realtime-sync.ts:90`), so a new owner's panel offers no
owner's buttons, and others' panels show the old members, until they are read again.

Run `groups`, in two scenes. "rooms": four users, cap three, two requests at once and
three in all after the creation (itself still to be announced), two sockets connecting
twice in all, no browser looking. "tabs": bob's and cid's browsers, either as one of
them creates the group or later, with everybody connected: two requests (the
first may come from a third client), one list or detail read, one page opened or left,
one reconnection, one loss. Two requests of two tabs are what it takes for
answers, events and queries to overtake each other. The creator needs no socket in the
first scene: sockets only matter for people who come and go. `rooms_owner` is a finding (section
10). `CHECK_DEADLOCK FALSE` for the same reason as above.

## 6. Presence

One person, seen by one watcher. `present` is the Redis set `presence:<user>`, `age` the
time since its last `EXPIRE`, counted in sweep periods; a connection `s` of the person goes
through `Connect`, `Online` (SADD, EXPIRE, SCARD), `Settle` (memberships, joins, the
announcement of a first connection) and `Ready` (`welcome`), and through `Drop`, `Offline`
(SREM, SCARD), `Clear` (DEL) and `Part` (the disconnect handler). `Sweep` is
`refreshPresence` of one instance, `Tick` the passing of one period. The watcher's own
setup is `WatchJoin`, `WatchRead` (`onlineAmong`), `WatchShow`; `view` is what its client
shows. Their conversation exists from the start or is made late: `Meet` stores it,
`Introduce` puts both people's sockets in its room, `LookUp` and `AnnounceOnline` are
`announceOnline`. `rooms` are the connections whose disconnect handler will announce to
the conversation (it uses the memberships looked up at connection, `server.ts:240`),
`inRoom` those in its Socket.IO room (which the sweep uses).

Faults: `OnlineFails`, `OfflineFails`, `SweepFails`, `WatchReadFails`, `LookUpFails` (the
`catch` of the store: nobody is first, last, restored or online), `SetupFails` (MySQL), `Crash` (an
instance), `Unannounced` (an instance that dies between storing the conversation and
announcing it), `Flush` (Redis restarts empty).

What the code promises about the set: unless Redis failed, a live connection's entry
never lapses (`ExpirySparesConnected`, proved); one that stays is counted in the end
(`StayingIsCounted`), and the entries of dead connections do not survive
(`GhostsExpire`). What is *shown* can be wrong for good, and `mishaps` names every way
that happens:

| Mishap | What the code does |
|---|---|
| `crossing` | the last connection's handler announces offline after a new connection counted itself: offline is shown while somebody is connected |
| `earlySweep` | a sweep counts a connection whose `online()` has not run; it then is not the first, and nobody is told |
| `ghost` | a connection lost before `welcome` registers the disconnect handler stays in the set, so the next last one is not recognised as such |
| `away`, `staleSighting` | a new connection reports only who is online, from a list read earlier, and the client's map survives a reconnection |
| `stranger` | the conversation is newer than the connection, which announces offline to the rooms it looked up before |
| `redis`, `crash` | a failed command is reported as "not first" or "not last"; a handler that dies announces nothing |

Apart from these, once nothing is on its way, `OfflineIsTrue` and `OnlineIsTrue` hold.

Run `presence`: two connections on two instances, TTL of two sweeps (30 s and 15 s in
`limits.ts`), one fault, two setups of the watcher (one if the conversation is made
late; then only what makes it known fails, and no sweep falls between its storage and its
announcement). Two connections are the least in which
one leaves as another comes; two instances let a sweep of one see what the other does.
Fairness (`FairSpec`): handlers go on, the announcement of a conversation goes on, every
instance's interval timer fires, time passes. It is not assumed that a connection is ever
made, kept or lost. `CHECK_DEADLOCK` stays on: time never stops.

## 7. Messages and Chat

`Messages` is the server for one conversation: `log` the messages in id order, `row[m]`
a message's row with its reactions, `cursor[u]` the read cursor as a position in the log.

| Code | Actions |
|---|---|
| `message:send`: `send`, `create`, `findByClientMsgId` | `Send`, `Create`/`Duplicate`, `Announce`, `Reply` |
| `message:edit`, `reaction:toggle` | `Edit`/`React` (the checks), `Open` (the snapshot of the transaction), `Change`/`Collide`, `Announce` |
| `message:delete` | `Delete`, `Change`, `Announce`, or `Reply` at once if it is deleted already |
| `read:ack`: `markRead` | `Read`, `MarkRead`/`AlreadyRead`, `Announce` |
| an error of the limiter or of MySQL; a crash | `Refuse`, `ReplyError`; `Die` |

MySQL runs at REPEATABLE READ (Prisma's default is the server's), so a transaction that
toggles a reaction reads the reactions back from the snapshot of its first SELECT
(`ReadBack`): it announces a list that lacks whatever another member's transaction
committed since.

`Chat` adds the browser tabs: `cache[c]` is the cached history (its items, how many pages it
has, whether there are older ones) with the rows' contents, `outbox[m]` the pending list,
`link` who is connected. `Compose` is `useSendMessage` (a retry sends the same
`clientMsgId`), `SendTimesOut` the ten seconds of `ackPromise`, `Hear` what an event or an
acknowledgement does to the caches (`appendMessage`, `patchMessage`, `dropPending`). `Ask` reads the
history, or all its pages again, `AskOlder` the page after the last (`fetchNextPage`, which
gives up a refetch in flight); each page is an `Answer` of its own, counted back from the last
message the request holds, and `Load` puts the result in the cache's place. An event
reaches all connected tabs in the step that emits it; a tab that gets it later behaves like
one for which the handler made that step later. Of one page's queries the first decides, since
the later ones (reactions) only see newer rows.

Promises without condition: `StoredOnce`, `CursorsAdvance` (proved), `OutboxIsHonest` (what
left an outbox is stored, whichever attempt's event or acknowledgement dropped it). What a
tab shows is right (`HistoryIsTheLog`: nothing missing, twice or out of order;
`ShownAsStored`: text, deletion and reactions) except for the messages in `cache[c].doubt`,
where the code really goes wrong until the next history request. Again every exception is
necessary:

- the tab was not connected as the message was announced: nothing is fetched again on
  reconnection;
- a page had been read and its request not loaded: the result, which for an older page
  includes the pages held when it began, overwrites the event;
- two changes of the message crossed: the second was committed before the first was
  announced, or on an older snapshot;
- the message was announced after a later one was stored: histories take messages in the
  order they arrive, and an older page may then bring it a second time;
- the handler died between its commit and its announcement.

Run `chat`: two members with a tab each, a message of each, pages of one message, two
handlers at once and three in all, two history requests, one lost connection, one fault (a
refusal, a death or a time-out). Three handlers let a message be sent and two reactions or
edits overlap, or a send be retried while its first attempt runs and a second message
overtake it; with two messages, pages of one are the largest that let an event fall
between two pages. `CHECK_DEADLOCK FALSE`: the bounded requests can be spent.

## 8. Inbox

`Inbox` is direct conversations, their lists and their receipts. `key[c]` is the
`direct_key`, `cursor[c][u]` the `last_read_message_id` as a position in `log[c]`; in a tab,
`badge[t][c]` is the list's unread count, `at[t]` the page shown, `hist[t][c]` the history,
`seen[t][c]` the cursors held with the detail.

| Code | Actions |
|---|---|
| `openDirect`, `createDirect` with its unique key, `conversationCreated` | `OpenDirect`, `Find`, `Insert`/`Raced`, `FindAgain`, `Count`, `AnnounceMade`, `Opened` |
| `list` (rows and counts, two queries of no common snapshot) | `AskList`, `ReadList`, `ListLoads` |
| history and detail of a page | `AskPage`, `ReadPage`, `PageLoads` |
| messages: `message:send`, a call summary, `message:delete` | `Send`, `Note`, `Delete`, `Store`, `AnnounceMessage` |
| `useMarkRead`, `read:ack`, `read:update` | `Acknowledge`, `Mark`, `AnnounceRead` |

`OneConversation`: two people have one conversation, and whoever loses the race for the unique key
finds it. `EveryoneListsIt` and `BadgeIsHonest`: lists and unread counts are what the server
would say, once nothing about the conversation is on its way, except for the conversations in
`off[t]`; `risk[p]` is the same for an answer in preparation. The code goes wrong when

- a tab was not connected or not in the room as an event came: missed events are never
  asked for again;
- an answer was overtaken by an event, or counts a message that is announced afterwards;
- another tab of the same user read, or wrote: neither moves this tab's badge;
- an unread message was deleted: it stays counted;
- the page was left, for another or by opening a conversation, before its latest messages were
  loaded and acknowledged: the badge set to 0 for opening it stays;
- a message was read before it was announced, an acknowledgement was lost (it is not
  repeated) or its handler died;
- `conversationCreated` announces an unread count of 0 whatever was written before.

`SeenIsTrue`: "Seen" is shown only of what the reader's cursor covers, with one exception
that the property spells out: a call summary is posted as the caller, browsers take
`message:new` as a sign that its author has read everything before it
(`use-realtime-sync.ts:54-59`), and the server, for a system message, does not.

Run `inbox`: ann with two tabs, bob with one, two conversation ids, two requests at once,
starting with nothing or after bob wrote; two visits, two messages, and either three requests
with one loss among the two people, or two without loss where a third, cara, can be written to.
Two tabs of one user let one read what the other counts; two ids let a duplicate conversation
exist; cara gives ann a second conversation to leave the first one's page for.
`CHECK_DEADLOCK FALSE`: the bounded requests can be spent.

## 9. Rate limiter and typing

`RateLimiter` is the token-bucket script, with tokens measured by the time that refills
them. `Clock(i)` is the time on instance `i`; the script writes the caller's own time back,
also when that is earlier, so the span between two clocks is refilled again whenever a
bucket goes to an instance that is behind (`regained`). `WithinRate`: over any span the
requests allowed are within a full bucket, what the span refills, and that error.
`RefusalsEnd` is about the time that passes, not about clocks: whoever waits as long as `retryAfterMs`
says is not refused by the same instance, nor by another after the time by which its clock is behind that
of the one that refused; without that addition it is false, since a bucket written by the one ahead refills
late for the one behind. It holds for the earliest promise since the last grant, so asking in between
puts nothing off. `FailOpen`: without Redis everything is allowed.

`Typing` composes it with the indicators: the sender's debounce, throttle and idle timers
(`Input`, `Debounced`, `Pause`, `Submit`), the signal through the limiter to the sorted set
and to an update (`Handle`, `Stored`, `Deliver`), and the timers of the browsers that show it
(`Apply`, `Fade`). Time is discrete; a timer that is due fires, and an update is delivered
within `Delay`, before time goes on (`OnTime`), as timers and the network do, roughly.
`TypingEnds`: nobody is shown for longer than twice the TTL (and the delay) after the last
start that was let through, whatever is lost or refused: a stop may be limited, buffered or dropped.
`TypistIsShown`: whoever types is shown without a gap, except (`doubt`) that updates of
two instances crossed, a message or another tab of theirs stopped it, or the watcher was
away.

What the code does there: a `start` that Redis fails returns an empty list and wipes the display;
a disconnected typist is not cleared but times out; `typing:stop` counts against the limit
too; a stop in one tab hides a user still typing in another.

Run `typing`, in three scenes: "limiter", two instances whose clocks differ by one count
one key (window of four, cost of two, ten ticks); "tabs", one user types in two tabs at two
instances; "people", two users type at one (TTL two, throttle and idle time one; five ticks,
three keys, one connection or Redis lost or message sent). Window, cost and time-outs are the smallest with their
order: a throttle and an idle time fit in the TTL (`TimingAssumption`, as in `limits.ts`).
`CHECK_DEADLOCK FALSE`: time is bounded.

## 10. Findings

- `sessions_reuse` / `ReuseEndsSession` (`services/token.service.ts:115`): when reuse is
  detected while the rotation that won is between its claim and its insert, the family is
  revoked first and the new token inserted after. The answer says the session must sign
  in again; the session goes on.
- `rooms_owner` / `LeaverLeavesAnOwner` (`services/conversation.service.ts:348`): the
  check "Hand the group to someone else before you leave." is made on a copy read before
  the transaction. A hand-over that commits in between makes the leaver the owner, the
  leave then deletes the owner's row, and nobody can manage the group any more.

## 11. What is proved

TLAPS proves the following for all values of the constants. Assumptions: `None` is not a
user, call, token and so on (`NoneAssumption`, `NullAssumption`, `NoBucketAssumption`,
`UnknownAssumption`), `Jar`, `Owner`, `UserOf`, `AuthorOf`, `InstanceOf` are functions, `Users` is finite and `Cap` a number in
`Membership` (for `Cardinality`), `TTL` is two sweeps or more in `Presence`, and in
`RateLimiter` clocks are ahead by at most `MaxSkew`, which is no more than the `Grace` a key
outlives its window (`WindowAssumption`, `SkewAssumption`), and in `Typing` the throttle and the
idle time fit in the TTL (`TimingAssumption`). TLC evaluates all of them.

`CallsProofs`. With every fault (`FaultySpec`; `SpecIsFaultySpec` carries it to `Spec`):
`TypeOK`, `LiveHoldsSlots`, `ExclusiveCalls`, `SlotFreedOnlyByItsCall` and the refinement of
`Telephony`. Exclusiveness is not inductive, because the claim is two commands and the
release four. `IInv` says where the other handlers of a call can be: before the record is
written, the inviting handler is the only one of its call that can hold the slots
(`InviterAlone`, `InviterHolds`); a handler that answers or deletes has seen the
record (`RecordWasThere`); one that frees slots belongs to a call already released. Then
a live call holds both slots, and since a slot names one call, two live calls share nobody.
Without faults (`Spec`): `NoOrphanSlot`, `RefusedLeavesNothing`, `EndedWasAnswered`,
`LogMatchesHistory`. Their invariant `RInv` adds, for every slot taken, which handler will
free it or which record stands for it (`SlotsKept`, `TasksFit`); that of an invite
that has not rung nobody has heard (`InviteUnheard`) and of a refused one nothing is left
(`RefusedIsGone`); and that the log's status is what was told and posted, up to what the
handlers on their way have yet to tell and post (`AnswersTold`, `StatusPosted`).

`CallClientProofs`, for any number of people, tabs, calls and jobs, with every failure. The first
half is one tab: a lemma for each handler says which fields it changes and to what, and that it
keeps a tab `Neat` (one stream at most is live, the peer connection is built on it, the ring time-out
is that of the call shown, a stream without a call belongs to a job that is placing one). From
`TabsAreNeat`, with `NothingLeftBehind` for a tab that is signed out (at an `Unmount` with no call and no
`accept` in hand, a start still on its way lets go of its stream by itself, `Relinquished`), follows
`MicrophoneFollowsTheCall`. The second half is all tabs and the server.
`CallsAreReal` is stronger than `ShownCallIsReal`: the call a connected tab holds is one the server has with
its user in it at *every* moment, because the event that ends a call reaches every connected tab of
both people (or none, and then they are `untold`), and no other step makes a tab hold a call but the invitation and its acknowledgement.
`TabsUseTelephony` is the refinement of `Telephony`: the guards of the handlers are its guards.
The third part is `RingingIsHeard`, again from something true at every moment (`RingsAreHeard`): a call that
rings is timed by a tab of its caller and shown in a tab of its callee (`Ringing`), or a request of somebody to
end it is on its way (`Ending`). Every change of a tab is first named for what it is (`Begins`, `Clears`, `Acks`,
`Rings`, ...: the ...Moves lemmas), since a call cannot go unheard in a tab that only `Stays`. A tab that
shows the call goes on to show it, with its time-out, or sends the request to end it (`Kept`); it cannot
let go of it in silence, for the event that would tell it so is sent only when the call ends on the server, and what a tab's own jobs drop was not this call unless the tab was `tangled`. That a
call begins to ring with its caller's time-out running needs `InvitesAreAwaited`: for each invitation on its way,
a job of the tab waits for the answer, unless that start `gaveUp`. And that it is `calling` in the caller's tabs and
`ringing` in the callee's is `RingsFit`, which starts from tabs that know nothing of a call before it is placed
(`Unheard`).

The last part is `BothSidesTalk`. `CallsConnect` says at every moment of an answered call that it is being
ended (`Ending`) or that two tabs, one of each person, are in it (`Talk`), and of these two (`Pair`) how far
they have come: the offer on its way or at work (`Offering`), the answer on its way or at work (`Answering`), or
both set (`Connected`); and of each candidate that it is on its way, waits for the description, or is
added (`Candidate`), the callee's following its answer. All other tabs of the two people are `Aloof`: they
have left the call and never signal in it. Three more facts make that inductive. A description that arrives
is worked on by exactly one job, which belongs to the connection in use and to the call shown (`TabsFit`), so a
job left over from an earlier call does not disturb this one. While the call rings nobody has signalled, no
connection knows of the other side, and only a tab that is answering has accepted (`CallsAreReady`). And a call is
between two people (`LinesAreOfTwo`), shown by one tab of the caller (`CallsAreKnown`): at the answer, that tab
offers, because its handlers have seen that the call is its own (else it is `stale`); the callee's tab that
answered waits, because no other of the callee answered too (else `twice`); the callee's remaining tabs let go.
A step is one of seven kinds for a call (`StepKinds`), and any but an invitation, an answer, a signal, or the
end leaves what a tab has to do with the call as it is (`SameCall`), or is a tab that asks to end it, enters
it, or works on a description (`Turn`).

`SessionsProofs` (for `Spec`, with lost answers and dying handlers): `TypeOK`,
`OneActivePerFamily`, `RotatedOnce`, `DeadFamilyStaysDead`. The heart of `IInv` is
`OneRight`: the active token of a family and the requests about to insert one (`persist`)
are together at most one. `Claim` trades the token for the right to insert, `Persist`
trades it back, everything else only destroys. For `ReliableSpec` and one tab per browser
(`OneTabPerBrowser`, a hypothesis of the theorem and not of the module): `CookieIsUsable` and
`StaysSignedIn`. There `HonestInv` follows every copy of a token: it has one holder
(`TokensHaveOneHolder`), a minted one is known to nobody yet (`MintedIsFresh`), and each is good, signed
out, or being exchanged (`Sound`, `CookieIsSound`, `RequestsAreSound`).

For `ApiClient`: it implements `Sessions` (`ApiImplementsSessions`, from which the theorems above carry
over: `ClientKeepsItsCookie`), `NobodyWaitsInVain`, and, for one tab per
browser, `TabIsOneUser`. The last needs that all tokens a tab works with, its cookie, its access token, those of its
requests and of its auth requests, are of one sign-in (`OneLine`), whose owner is on the screen and on the
sockets (`ScreenIsTheLine`), unless what is left of that session was signed out (`StrandedIsSignedOut`).

`RoomsProofs`, of `Membership`: `TypeOK`, `CreatorOwnsUntilTransfer`, `OneOwnerWhenSerial`,
`WithinCapWhenSerial`. `CreatorIsSafe` says what requests in flight can hold before
the first hand-over (none removes the creator, only the creator hands over);
`SerialKnows` and `SerialFits` say that what a lone request checked is still true when it
commits. Of `Rooms`: `RoomsSpec => Spec` of Membership, `RoomsTypeOK`,
`NoMemberMissesRoom`, `RemovedHearNothing`; the invariant relates the announcements on their
way, what a socket has looked up, and the room. Of `Groups`: `GroupsSpec => RoomsSpec`,
`GroupsTypeOK`, `ListIsTrue`, `PanelIsTrue`. `GInv` says of every copy of the group (what a request
read back, `CopiesKnow`, by `ReadsBack`; what an answer carries, `AnswersKnow`; what a tab lists and shows, `ListsKnow`,
`PanelsKnow`) that it is the group as it is or that an announcement contradicting it is still to come;
when none is, the copies are right.

`PresenceProofs`, for every number of connections and instances and every fault:
`TypeOK`, `ExpirySparesConnected`, `OfflineIsTrue`, `OnlineIsTrue`. The
first rests on `SweptIsFresh`: once the instance of a counted live connection has swept in
this period, the key was renewed in it. The others need to know what the
handlers still on their way will make of the view: as long as anybody is counted, the watcher
shows online or is about to (`CountedAndTold`), and as long as it does, somebody is
connected or on the way out and will announce it (`CountedAreThere`), unless a mishap says
otherwise.

`ChatProofs`: every behaviour of `Chat` is one of `Messages` (`ClientsUseTheServer`), and
`ChatTypeOK`, `StoredOnce`, `CursorsAdvance`, `OutboxIsHonest`. `Fit` says what a handler
knows at each step: the message it changes, announces or acknowledges is stored, and the
position it marks is one of the log; a send's position is beyond every cursor. `Held` and
`CachesTyped` say that whatever a cache, an answer or an outbox names exists.

`ShownAsStored` and `HistoryIsTheLog` need what is still to come (`TruthInv`). `ContentTrue`: a message
shown without a doubt is its row, or the one handler that has yet to tell of it patches
what is shown into its row, by the event as by the acknowledgement (`ToldRight`); and
a message neither shown nor doubted is older than one shown, or its first event is to come
and nothing has changed it yet (`Fresh`). A step disturbs one message at most (`Undisturbed`), so the
others need one argument. `InOrder`: a copy lies as the events that were not late, newest first,
and then its pages, a run of the log from where the first page was read (`Laid`); from the run's far end
to the end of the log nothing is missing but sends still to be told (`SendTold`). A page
extends the run (`OrderAnswered`), an event that is not late goes before everything (`OrderPrepended`).
Both are invariants of the requests under way as well as of the caches, since one replaces the other.

`InboxProofs`: `OneConversation` and `SeenIsTrue`. The first is the unique key (`Unique`) and
that no conversation loses its key, so that what a request has found stays what it asked for
(`Finds`). The second follows every copy of a cursor: in a detail a tab holds (`Held`), in an
answer on its way (`Behind`), in an announcement not made yet (`Carries`), it is covered by the
server's cursor or is the place of a system message (`Vouched`). Since cursors never move back,
what is vouched for stays so (`Later`, `StillVouched`); they do not because none is past the end of
its log, nor is any position in a history or an acknowledgement (`Tables`, `Listed`).

`EveryoneListsIt`: a conversation that a tab does not list, or that an answer on its way leaves out, is
still being announced (`Lists`, `Rows`). `BadgeIsHonest`: a badge, and the count of every answer, is what
the server would count but for what is on its way (`BadgeRight`, `AnswerRight`): a message that is not
announced yet (`Unheard`), a read that is not stored yet (`Marking`). The counts are cardinalities of
sets of positions, so no induction is needed: a message adds one element, a cursor that moves to the end
leaves none.

`TypingProofs`, of `RateLimiter`, for any capacity, cost, keys, instances and skew: `TypeOK`, `WithinRate`,
`RefusalsEnd`. `Balanced` is the conservation law: what was granted in a span, and
what the bucket still holds, are within a full bucket, what has passed since, and what
clocks that differ refilled twice; `Lasting` says that a key outlives the time its bucket takes to
fill, so that a new, full bucket gives nothing away. For `RefusalsEnd`, `Kept` says that the
bucket pays for a request at the time of each promise, read off the clock of the instance that made it. Of `Typing`: `TypingTypeOK`, `TypingEnds`,
`TypistIsShown`. Nothing outlives the start it comes from: not the score in the sorted set
(`ScoresAreStarts`), not an update on its way (`UpdatesAreFresh`), not a timer of a watcher
(`TimersAreFresh`). The other way round, a browser that waits to emit again waits less than its last start
lasts (`TypistsWait`), and a start is shown or in an update on its way as long as it lasts (`StartsAreShown`).

Proved, and therefore left out of the runs: the type invariants, `ExclusiveCalls`, `LiveHoldsSlots`, `EndedWasAnswered`,
`CreatorOwnsUntilTransfer`, `RotatedOnce`, `ExpirySparesConnected`, `CursorsAdvance`.

Only model-checked: liveness (`InviteAnswered`, `ReleasedSettles`, `StayingIsCounted`,
`GhostsExpire`), which is out of the prover's reach, and the two findings.

## 12. What is not modelled, and why

- In the call client: the tones of `ring.ts` (lines 56-105) and the race between `stop()` and a
  `resume()` still pending, since the audio context is the browser's; switching of devices, which
  no control of the interface reaches; requests the server drops on an error of Redis (§3).
- In calls: the TTL of two hours of the keys in Redis, which matters only after a crash or in a
  call longer than that. `NoOrphanSlot` is therefore stated without crashes.
- Everywhere: the wording and validation of payloads, credential checks (they decide
  only whether a sign-in starts), the delay of the Redis adapter's `socketsJoin` between instances,
  MySQL failing between a group's transaction and its announcement. Sending
  a message and joining or leaving the group are not composed (`Membership` and
  `Messages` share no state but the member rows, which `send` reads once).
- In messages: search, replies, attachments: reads, or columns nothing depends on.
- Link previews: the bounded fetch is parsing of addresses and pages, which a state machine would
  only repeat.
- Accounts and profiles (single-row reads and writes with a unique index), the HTTP surface and
  configuration (wiring), the shared schemas (their limits appear as constants), and the user
  interface components (rendering).
