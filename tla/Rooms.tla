------------------------------- MODULE Rooms -------------------------------
(***************************************************************************)
(* The Socket.IO room of a group conversation: who receives its events.    *)
(* A socket enters the room when it connects (welcome in realtime/server,  *)
(* which looks the memberships up once) or when the bridge                 *)
(* (realtime/bridge.ts) announces a request of Membership.                 *)
(*                                                                         *)
(* socketsJoin and socketsLeave reach every instance through the Redis     *)
(* adapter; they take effect in one step here.                             *)
(***************************************************************************)
EXTENDS Membership

CONSTANTS
  Sockets,  \* connections (a reconnection is the same socket again)
  UserOf    \* UserOf[s]: who connects with s

ASSUME UserOfAssumption == UserOf \in [Sockets -> Users]

VARIABLES
  sock,    \* sock[s]: "off", "connected" (its user room joined),
           \*   "looked" (memberships read) or "up" (setup done)
  found,   \* the sockets whose lookup found their user in the group
  inRoom,  \* the sockets in the conversation's room
  left,    \* history: the users some request has removed from the group
  stale    \* history: the sockets that were between lookup and join when
           \*   their user's removal was announced

socketVars == <<sock, found, inRoom, stale>>
roomVars == <<vars, sock, found, inRoom, left, stale>>

RoomsTypeOK ==
  /\ TypeOK
  /\ sock \in [Sockets -> {"off", "connected", "looked", "up"}]
  /\ found \subseteq Sockets
  /\ inRoom \subseteq Sockets
  /\ left \subseteq Users
  /\ stale \subseteq Sockets

RoomsInit ==
  /\ Init
  /\ sock = [s \in Sockets |-> "off"]
  /\ found = {}
  /\ inRoom = {}
  /\ left = {}
  /\ stale = {}

SocketsOf(who) == {s \in Sockets : UserOf[s] \in who /\ sock[s] # "off"}

-----------------------------------------------------------------------------
(* welcome: join the user room, read the memberships, join their rooms.    *)

Connect(s) ==
  /\ sock[s] = "off"
  /\ sock' = [sock EXCEPT ![s] = "connected"]
  /\ UNCHANGED <<vars, found, inRoom, left, stale>>

LookUp(s) ==
  /\ sock[s] = "connected"
  /\ sock' = [sock EXCEPT ![s] = "looked"]
  /\ found' = IF UserOf[s] \in Members THEN found \cup {s} ELSE found
  /\ UNCHANGED <<vars, inRoom, left, stale>>

JoinRooms(s) ==
  /\ sock[s] = "looked"
  /\ sock' = [sock EXCEPT ![s] = "up"]
  /\ inRoom' = inRoom \cup (found \cap {s})
  /\ UNCHANGED <<vars, found, left, stale>>

(* The connection is lost: Socket.IO takes the socket out of every room.   *)
Disconnect(s) ==
  /\ sock[s] # "off"
  /\ sock' = [sock EXCEPT ![s] = "off"]
  /\ found' = found \ {s}
  /\ inRoom' = inRoom \ {s}
  /\ stale' = stale \ {s}
  /\ UNCHANGED <<vars, left>>

-----------------------------------------------------------------------------
(* The bridge: each announcement moves the sockets of the people concerned. *)

MutMoveSockets(kind, who) ==
  /\ inRoom' = IF kind \in {"create", "add"}
               THEN inRoom \cup {s \in SocketsOf(who) : sock[s] = "up"}
               ELSE IF kind = "remove" THEN inRoom \ SocketsOf(who) ELSE inRoom
  /\ stale' = IF kind = "remove"
              THEN stale \cup {s \in SocketsOf(who) : sock[s] = "looked"} ELSE stale
MutMoveSocketsStay(kind, who) ==
  /\ inRoom' = IF kind \in {"create", "add"} THEN inRoom \cup SocketsOf(who)
               ELSE inRoom
  /\ stale' = IF kind = "remove"
              THEN stale \cup {s \in SocketsOf(who) : sock[s] = "looked"} ELSE stale
MoveSockets(kind, who) ==
  /\ inRoom' = CASE kind \in {"create", "add"} -> inRoom \cup SocketsOf(who)
                 [] kind = "remove" -> inRoom \ SocketsOf(who)
                 [] OTHER -> inRoom
  /\ stale' = IF kind = "remove"
              THEN stale \cup {s \in SocketsOf(who) : sock[s] = "looked"} ELSE stale

AnnounceToRoom(p) ==
  /\ Announce(p)
  /\ MoveSockets(req[p].kind, req[p].who)
  /\ UNCHANGED <<sock, found, left>>

Request(p) ==
  /\ Start(p) \/ Commit(p)
  /\ left' = left \cup (Members \ Members')
  /\ UNCHANGED socketVars

RoomsNext ==
  \/ \E p \in Requests : Request(p) \/ AnnounceToRoom(p)
  \/ \E s \in Sockets : Connect(s) \/ LookUp(s) \/ JoinRooms(s) \/ Disconnect(s)

RoomsSpec == RoomsInit /\ [][RoomsNext]_roomVars

-----------------------------------------------------------------------------
(* Properties. *)

(* Somebody's admission is on its way to the bridge. *)
Joining(u) ==
  \E p \in Requests :
    pc[p] = "announce" /\ req[p].kind \in {"create", "add"} /\ u \in req[p].who

Leaving(u) ==
  \E p \in Requests :
    pc[p] = "announce" /\ req[p].kind = "remove" /\ u \in req[p].who

(* Nobody admitted to the group misses its events: once the admission was   *)
(* announced, every connection of theirs that is set up is in the room,     *)
(* however its setup and the admission interleaved.  (Overlapping requests  *)
(* that remove and re-admit somebody may be announced in the other order.)  *)
NoMemberMissesRoom ==
  \A s \in Sockets :
    /\ sock[s] = "up"
    /\ UserOf[s] \in Members
    /\ overlapped => UserOf[s] \notin left
    /\ ~Joining(UserOf[s])
    => s \in inRoom

(* Whoever was removed receives nothing more once the removal is announced, *)
(* unless requests overlapped or a connection of theirs was being set up    *)
(* with what it had looked up before.                                       *)
RemovedHearNothing ==
  \A s \in inRoom :
    UserOf[s] \notin Members /\ ~Leaving(UserOf[s]) => overlapped \/ s \in stale
=============================================================================
