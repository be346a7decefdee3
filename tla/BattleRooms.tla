---------------------------- MODULE BattleRooms ----------------------------
(***************************************************************************)
(* The battle server as the pages of one user, "me", meet it: a room is a  *)
(* record, a broadcast and the event behind it are one step, and a friend  *)
(* plays in the same rooms without a page of his own.  The races inside    *)
(* the server are in Room, Client and Hub; here the sockets between page   *)
(* and server are in the open: what the page sent and the server has not   *)
(* read (inbox), what the server queued and the page has not got (out).    *)
(***************************************************************************)
EXTENDS Landing

CONSTANTS
  Sockets,      \* bound: the sockets the page opens, in this order
  MaxQueue,     \* bound: messages queued for a socket (256 in the code)
  MaxPending,   \* bound: requests of a page the server has not read
  MaxPoints,    \* bound: the score of a player
  FriendRooms,  \* bound: the rooms the friend may create; the others are mine
  FriendGroups  \* bound: the groups of a room the friend creates

ASSUME SocketAssumption == Sockets \subseteq Nat \ {0}
ASSUME QueueAssumption == {MaxQueue, MaxPending} \subseteq Nat \ {0} /\ MaxPoints \in Nat
ASSUME FriendAssumption == \A groups \in FriendGroups : groups \subseteq Groups /\ groups # {}

VARIABLES
  room,         \* the rooms of the server
  sock          \* the sockets of the page, and the server's end of each

serverVars == <<room, sock>>

People == {"me", "friend"}
Absent == -1
Nobody == [p \in People |-> Absent]

NewRoom(creator, groups) ==
  [phase |-> "WAITING", players |-> Nobody, host |-> creator, groups |-> groups, friendIn |-> FALSE]
Unborn == [phase |-> "none", players |-> Nobody, host |-> "none", groups |-> {}, friendIn |-> FALSE]

\* joining: the room readPump waits to register at; in: the room it is registered in
NoSocket == [at |-> "idle", code |-> NoRoom, mine |-> FALSE, joining |-> NoRoom, in |-> NoRoom,
             inbox |-> <<>>, out |-> <<>>]

ServerInit ==
  /\ room = [r \in Rooms |-> Unborn]
  /\ sock = [s \in Sockets |-> NoSocket]

(* Messages.  ROOM_STATE also brings the host and the groups of its room,  *)
(* which never change.                                                     *)
Msg(type, r, phase, players) == [type |-> type, room |-> r, phase |-> phase, players |-> players]
RoomState(r, R) == Msg("ROOM_STATE", r, R.phase, R.players)
GameStarted(r)  == Msg("GAME_STARTED", r, "PLAYING", Nobody)
Scores(r, R)    == Msg("SCORE_UPDATE", r, "PLAYING", R.players)
GameOver(r, R)  == Msg("GAME_OVER", r, "FINISHED", R.players)
ErrorMsg        == Msg("ERROR", NoRoom, "none", Nobody)

(* What is queued for a page that is gone reaches no state and is dropped. *)
Put(S, m) == IF S.mine /\ S.at = "open" THEN [S EXCEPT !.out = Append(@, m)] ELSE S

\* Mutant: the broadcast goes to those who were in the room before.
BroadcastOld(socks, r, m) ==
  [s \in Sockets |-> IF sock[s].in = r THEN Put(socks[s], m) ELSE socks[s]]
Broadcast(socks, r, m) ==
  [s \in Sockets |-> IF socks[s].in = r THEN Put(socks[s], m) ELSE socks[s]]

\* bound: room for one more message in every queue the broadcast reaches
Fits(socks, r) ==
  \A s \in Sockets : socks[s].in = r => Len(socks[s].out) < MaxQueue

Change(r, R, m) ==
  /\ Fits(sock, r)
  /\ room' = [room EXCEPT ![r] = R]
  /\ sock' = Broadcast(sock, r, m)

Enter(R, p) == [R EXCEPT !.players[p] = IF @ = Absent THEN 0 ELSE @]
\* Mutant: a player who leaves is always removed.
LeaveAlways(R, p) == [R EXCEPT !.players[p] = Absent]
Leave(R, p) == IF R.phase = "WAITING" THEN [R EXCEPT !.players[p] = Absent] ELSE R

---------------------------------------------------------------------------
(* The server reads a socket, unless it waits for a room on its behalf.    *)
Read(s) == [sock[s] EXCEPT !.inbox = Tail(@)]
Receives(s, type) ==
  /\ sock[s].at \in {"open", "closed"} /\ sock[s].joining = NoRoom
  /\ sock[s].inbox # <<>> /\ Head(sock[s].inbox).type = type

Waiting == {r \in Rooms : room[r].phase = "WAITING"}

ServerRefuses(s) ==
  /\ Receives(s, "JOIN_ROOM") /\ sock[s].code \notin Waiting
  /\ Len(sock[s].out) < MaxQueue
  /\ sock' = [sock EXCEPT ![s] = Put(Read(s), ErrorMsg)]
  /\ UNCHANGED room

(* The phase is checked here; the room receives the registration later, in *)
(* whatever phase it is then, or never, if it is gone.                     *)
ServerChecks(s) ==
  /\ Receives(s, "JOIN_ROOM") /\ sock[s].code \in Waiting
  /\ sock' = [sock EXCEPT ![s] = [Read(s) EXCEPT !.joining = sock[s].code]]
  /\ UNCHANGED room

ServerRegisters(s) ==
  LET r == sock[s].joining
      R == Enter(room[r], "me")
      joined == [sock EXCEPT ![s].in = r, ![s].joining = NoRoom]
  IN  /\ r # NoRoom /\ room[r].phase # "gone"
      /\ Fits(joined, r)
      /\ room' = [room EXCEPT ![r] = R]
      /\ sock' = Broadcast(joined, r, RoomState(r, R))

(* A request that has no effect: not in a room, not allowed, or dropped    *)
(* because the room was busy for 100 ms.                                   *)
ServerIgnores(s) ==
  /\ Receives(s, "START_GAME") \/ Receives(s, "SUBMIT_SCORE")
  /\ sock' = [sock EXCEPT ![s] = Read(s)]
  /\ UNCHANGED room

ServerStarts(s) ==
  LET r == sock[s].in IN
  /\ Receives(s, "START_GAME")
  /\ r # NoRoom
  /\ room[r].host = "me" /\ room[r].phase = "WAITING"
  /\ Fits(sock, r)
  /\ room' = [room EXCEPT ![r].phase = "PLAYING"]
  /\ sock' = Broadcast([sock EXCEPT ![s] = Read(s)], r, GameStarted(r))

ServerScores(s) ==
  LET r == sock[s].in
      R == [room[r] EXCEPT !.players["me"] = Head(sock[s].inbox).score]
  IN  /\ Receives(s, "SUBMIT_SCORE")
      /\ r # NoRoom
      /\ room[r].phase = "PLAYING" /\ room[r].players["me"] # Absent
      /\ Fits(sock, r)
      /\ room' = [room EXCEPT ![r] = R]
      /\ sock' = Broadcast([sock EXCEPT ![s] = Read(s)], r, Scores(r, R))

(* The server sees that a socket is gone: hub and room release it.         *)
ServerReleases(s) ==
  LET r == sock[s].in
      gone == [sock EXCEPT ![s] = [NoSocket EXCEPT !.at = "gone"]]
  IN  /\ sock[s].at = "closed" /\ sock[s].inbox = <<>> /\ sock[s].joining = NoRoom
      /\ IF r = NoRoom
         THEN sock' = gone /\ UNCHANGED room
         ELSE LET R == Leave(room[r], "me")
              IN  /\ Fits(gone, r)
                  /\ room' = [room EXCEPT ![r] = R]
                  /\ sock' = Broadcast(gone, r, RoomState(r, R))

ServerReads(s) ==
  \/ ServerRefuses(s) \/ ServerChecks(s) \/ ServerRegisters(s)
  \/ ServerIgnores(s) \/ ServerStarts(s) \/ ServerScores(s) \/ ServerReleases(s)

---------------------------------------------------------------------------
(* The end of the game, the end of an empty room, and the friend.          *)
GameEnds(r) ==
  LET R == [room[r] EXCEPT !.phase = "FINISHED"] IN
  room[r].phase = "PLAYING" /\ Change(r, R, GameOver(r, R))

RoomExpires(r) ==
  /\ room[r].phase \in {"WAITING", "PLAYING", "FINISHED"}
  /\ ~room[r].friendIn /\ \A s \in Sockets : sock[s].in # r
  /\ room' = [room EXCEPT ![r].phase = "gone"]
  /\ UNCHANGED sock

FriendCreates(r) ==
  /\ room[r].phase = "none" /\ r \in FriendRooms
  /\ \E groups \in FriendGroups : room' = [room EXCEPT ![r] = NewRoom("friend", groups)]
  /\ UNCHANGED sock

FriendJoins(r) ==
  LET R == [Enter(room[r], "friend") EXCEPT !.friendIn = TRUE] IN
  room[r].phase = "WAITING" /\ ~room[r].friendIn /\ Change(r, R, RoomState(r, R))

FriendLeaves(r) ==
  LET R == [Leave(room[r], "friend") EXCEPT !.friendIn = FALSE] IN
  room[r].friendIn /\ Change(r, R, RoomState(r, R))

FriendStarts(r) ==
  /\ room[r].friendIn /\ room[r].host = "friend" /\ room[r].phase = "WAITING"
  /\ Change(r, [room[r] EXCEPT !.phase = "PLAYING"], GameStarted(r))

\* bound: the friend scores in the rooms that I create
FriendScores(r) ==
  LET R == [room[r] EXCEPT !.players["friend"] = @ + 1] IN
  /\ room[r].friendIn /\ room[r].phase = "PLAYING" /\ r \notin FriendRooms
  /\ room[r].players["friend"] \in 0..(MaxPoints - 1)
  /\ Change(r, R, Scores(r, R))

RoomStep(r) ==
  \/ GameEnds(r) \/ RoomExpires(r)
  \/ FriendCreates(r) \/ FriendJoins(r) \/ FriendLeaves(r) \/ FriendStarts(r) \/ FriendScores(r)

(* CreateRoom over HTTP.  What the server accepts: dto.CreateRoomRequest.  *)
Accepted(d, groups) == d \in 30..600 /\ groups # {}

CreateRoom(r, groups) ==
  /\ room[r].phase = "none" /\ r \notin FriendRooms
  /\ room' = [room EXCEPT ![r] = NewRoom("me", groups)]
=============================================================================
