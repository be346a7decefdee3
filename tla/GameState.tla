----------------------------- MODULE GameState -----------------------------
(***************************************************************************)
(* The shared state of the battle server of backend/internal/game: one Hub *)
(* goroutine, one Run goroutine per room, and a readPump and a writePump   *)
(* goroutine per websocket connection.  The modules Room, Client and Hub   *)
(* give the steps of each of them; this module declares what they share,   *)
(* the messages, and the one operation every room uses on the connections' *)
(* queues, broadcastToClients.                                             *)
(***************************************************************************)
EXTENDS Integers, Sequences, FiniteSets

CONSTANTS
  Clients,      \* connections (values of type *Client); a reconnection is a new one
  Rooms,        \* rooms that may be created (values of type *Room)
  Users,        \* user ids
  Codes,        \* room codes
  NoClient, NoRoom, NoUser,
  UserOf,       \* the user a connection is authenticated as
  CodeOf,       \* the code CreateRoom draws for a room: six characters of a uuid
  SendCap,      \* capacity of Client.Send
  MaxJoins,     \* bound: JOIN_ROOM / CREATE_ROOM messages one connection sends
  Submitted,    \* bound: the scores the connections try to submit
  MaxScore      \* the largest score handleRoomMessage accepts

ASSUME NoneAssumption ==
  NoClient \notin Clients /\ NoRoom \notin Rooms /\ NoUser \notin Users
ASSUME UserAssumption == UserOf \in [Clients -> Users]
ASSUME CodeAssumption == CodeOf \in [Rooms -> Codes]
ASSUME BoundAssumption ==
  /\ SendCap \in Nat \ {0}
  /\ MaxJoins \in Nat
  /\ MaxScore \in Nat
  /\ Submitted \subseteq Int

VARIABLES
  \* one entry per room
  loop,         \* where Room.Run is, and the event it has received
  state,        \* Room.State
  clients,      \* Room.Clients
  players,      \* Room.Players: user -> score, Absent when there is no entry
  host,         \* Room.HostID
  timer,        \* shutdownTimer is armed
  ending,       \* the goroutine of startGame that ends the game
  \* one entry per connection
  pump,         \* where readPump is, and what it is handing over
  roomOf,       \* Client.Room
  buf,          \* contents of the channel Client.Send
  closed,       \* Client.Send is closed
  writer,       \* writePump
  conn,         \* the websocket is up
  joins,        \* JOIN_ROOM / CREATE_ROOM messages read so far
  \* the hub
  hub,          \* where Hub.Run is
  hubClients,   \* Hub.clients
  rooms,        \* Hub.rooms
  \* the process
  panic         \* "none", or the operation on a closed channel that killed it

roomVars   == <<loop, state, clients, players, host, timer, ending>>
clientVars == <<pump, roomOf, buf, closed, writer, conn, joins>>
hubVars    == <<hub, hubClients, rooms>>
vars       == <<roomVars, clientVars, hubVars, panic>>

Absent == -1
Scores == {Absent} \cup 0..MaxScore
NoPlayers == [u \in Users |-> Absent]

States == {"WAITING", "PLAYING", "FINISHED"}

(* What a connection asks its room to do (the closure of handleRoomMessage). *)
NoReq == [type |-> "NONE", score |-> 0]
Requests == {[type |-> "START_GAME", score |-> 0]}
            \cup {[type |-> "SUBMIT_SCORE", score |-> s] : s \in Submitted}

(* A message of the server: the room it speaks of, the state the page shows *)
(* after it, and the players it lists.  GAME_STARTED lists no player.       *)
MsgTypes == {"ROOM_STATE", "GAME_STARTED", "SCORE_UPDATE", "GAME_OVER", "ERROR"}
Messages == [type : MsgTypes, room : Rooms \cup {NoRoom},
             state : States, players : [Users -> Scores]]

RoomState(r, P)   == [type |-> "ROOM_STATE",   room |-> r, state |-> state[r],   players |-> P]
GameStarted(r)    == [type |-> "GAME_STARTED", room |-> r, state |-> "PLAYING",  players |-> NoPlayers]
\* Mutant: the list is marshalled before the score is stored.
ScoreUpdateBefore(r, P) == [type |-> "SCORE_UPDATE", room |-> r, state |-> "PLAYING", players |-> players[r]]
ScoreUpdate(r, P) == [type |-> "SCORE_UPDATE", room |-> r, state |-> "PLAYING",  players |-> P]
GameOver(r)       == [type |-> "GAME_OVER",    room |-> r, state |-> "FINISHED", players |-> players[r]]
ErrorMsg          == [type |-> "ERROR",        room |-> NoRoom, state |-> "WAITING", players |-> NoPlayers]

(* Where each goroutine can be. *)
LoopAt == {"unborn", "select", "register", "unregister", "action", "finish", "closing", "closed"}
PumpAt == {"off", "dial", "idle", "created", "join", "act", "error", "quit", "gone"}

Loop(at, c, q) == [at |-> at, client |-> c, req |-> q]
AtSelect       == Loop("select", NoClient, NoReq)
Pump(at, r, q) == [at |-> at, room |-> r, req |-> q]
Idle           == Pump("idle", NoRoom, NoReq)
Hub(at, c, r)  == [at |-> at, client |-> c, room |-> r]
HubAtSelect    == Hub("select", NoClient, NoRoom)

\* The guard of every action: a panic in any goroutine ends the process.
Running == panic = "none"

\* Mutant: the queue takes one message more than its capacity.
FullTooLate(c) == Len(buf[c]) > SendCap

Full(c) == Len(buf[c]) >= SendCap

(* broadcastToClients of room r, when its client set is K: a full queue is *)
(* closed and its client dropped from the room, and from the room only;    *)
(* a closed one panics, whether or not it is full.                         *)
Broadcast(r, K, m) ==
  /\ clients' = [clients EXCEPT ![r] = {c \in K : ~Full(c)}]
  /\ closed' = [c \in Clients |-> closed[c] \/ (c \in K /\ Full(c))]
  /\ buf' = [c \in Clients |-> IF c \in K /\ ~closed[c] /\ ~Full(c)
                               THEN Append(buf[c], m) ELSE buf[c]]
  /\ panic' = IF \E c \in K : closed[c] THEN "send" ELSE panic

Init ==
  /\ loop = [r \in Rooms |-> Loop("unborn", NoClient, NoReq)]
  /\ state = [r \in Rooms |-> "WAITING"]
  /\ clients = [r \in Rooms |-> {}]
  /\ players = [r \in Rooms |-> NoPlayers]
  /\ host = [r \in Rooms |-> NoUser]
  /\ timer = [r \in Rooms |-> FALSE]
  /\ ending = [r \in Rooms |-> "none"]
  /\ pump = [c \in Clients |-> Pump("off", NoRoom, NoReq)]
  /\ roomOf = [c \in Clients |-> NoRoom]
  /\ buf = [c \in Clients |-> <<>>]
  /\ closed = [c \in Clients |-> FALSE]
  /\ writer = [c \in Clients |-> "off"]
  /\ conn = [c \in Clients |-> FALSE]
  /\ joins = [c \in Clients |-> 0]
  /\ hub = HubAtSelect
  /\ hubClients = {}
  /\ rooms = [k \in Codes |-> NoRoom]
  /\ panic = "none"

(* Every variable has its type, and a Send queue never outgrows its channel. *)
TypeOK ==
  /\ loop \in [Rooms -> [at : LoopAt, client : Clients \cup {NoClient}, req : Requests \cup {NoReq}]]
  /\ state \in [Rooms -> States]
  /\ clients \in [Rooms -> SUBSET Clients]
  /\ players \in [Rooms -> [Users -> Scores]]
  /\ host \in [Rooms -> Users \cup {NoUser}]
  /\ timer \in [Rooms -> BOOLEAN]
  /\ ending \in [Rooms -> {"none", "sleeping", "over"}]
  /\ pump \in [Clients -> [at : PumpAt, room : Rooms \cup {NoRoom}, req : Requests \cup {NoReq}]]
  /\ roomOf \in [Clients -> Rooms \cup {NoRoom}]
  /\ buf \in [Clients -> Seq(Messages)]
  /\ \A c \in Clients : Len(buf[c]) <= SendCap
  /\ closed \in [Clients -> BOOLEAN]
  /\ writer \in [Clients -> {"off", "run", "done"}]
  /\ conn \in [Clients -> BOOLEAN]
  /\ joins \in [Clients -> 0..MaxJoins]
  /\ hub \in [at : {"select", "leave"}, client : Clients \cup {NoClient}, room : Rooms \cup {NoRoom}]
  /\ hubClients \subseteq Clients
  /\ rooms \in [Codes -> Rooms \cup {NoRoom}]
  /\ panic \in {"none", "send", "close"}
============================================================================
