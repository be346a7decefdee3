------------------------------ MODULE KanaProofs ------------------------------
(***************************************************************************)
(* What the page a player has open can rely on, for every number of rooms, *)
(* sockets, points and queued messages: proofs of the safety properties of *)
(* KanaProperties.                                                         *)
(*                                                                         *)
(* The invariant is KanaInv.  Its heart is FollowInv: what the page shows  *)
(* now, read together with what its socket still has in inbox and out,     *)
(* ends at what the room is (Follows, of which a quiet page is the case of *)
(* two empty queues).  QueueInv bounds what may be queued, SocketInv says  *)
(* where a socket may be in its life, CurrentInv which socket the page     *)
(* holds, PendingInv and ScoreInv account for every point that is still on *)
(* its way to the hub, and FormTypes and ComplaintInv are the practice     *)
(* page and the landing page.                                              *)
(*                                                                         *)
(* The module goes from the types, through what each message does to a     *)
(* page that follows its room, and the pool of kana, to one lemma for each *)
(* step of the page, of its socket and of the server, and the theorems.    *)
(***************************************************************************)
EXTENDS KanaProperties, SequenceTheorems, FiniteSetTheorems, WellFoundedInduction, TLAPS

---------------------------------------------------------------------------
(* The types of the records and of the queues.                             *)
Running == {"WAITING", "PLAYING", "FINISHED"}
Codes   == Rooms \cup {NoRoom}
Orders  == [type : {"JOIN_ROOM", "START_GAME", "SUBMIT_SCORE"}, score : 0..MaxPoints]
RoomRecs ==
  [phase : Phases, players : PlayerLists, host : People \cup {"none"},
   groups : SUBSET Groups, friendIn : BOOLEAN]
SocketRecs ==
  [at : {"idle", "connecting", "open", "closed", "gone"}, code : Codes, mine : BOOLEAN,
   joining : Codes, in : Codes, inbox : Seq(Orders), out : Seq(Messages)]

ServerTypes == room \in [Rooms -> RoomRecs] /\ sock \in [Sockets -> SocketRecs]

LEMMA NobodyType == Nobody \in PlayerLists /\ Nobody["me"] = -1
BY QueueAssumption DEF Nobody, PlayerLists, Absent, People

LEMMA MessageTypes ==
  ASSUME NEW r \in Rooms, NEW R \in RoomRecs
  PROVE  /\ RoomState(r, R) \in Messages /\ GameStarted(r) \in Messages
         /\ Scores(r, R) \in Messages /\ GameOver(r, R) \in Messages
         /\ ErrorMsg \in Messages
BY NobodyType DEF RoomState, GameStarted, Scores, GameOver, ErrorMsg, Msg, Messages, RoomRecs, Phases

LEMMA NoSocketType ==
  /\ NoSocket \in SocketRecs
  /\ NoSocket.joining = NoRoom /\ NoSocket.in = NoRoom
  /\ NoSocket.inbox = <<>> /\ NoSocket.out = <<>> /\ NoSocket.mine = FALSE
BY DEF NoSocket, SocketRecs, Codes

(* A broadcast adds one message to the queue of each open socket of the    *)
(* page in that room, and touches nothing else.                            *)
LEMMA BroadcastReaches ==
  ASSUME NEW socks \in [Sockets -> SocketRecs], NEW r \in Rooms, NEW m \in Messages,
         NEW s \in Sockets
  PROVE  LET S == socks[s]
             T == Broadcast(socks, r, m)[s]
         IN  /\ T \in SocketRecs
             /\ T.at = S.at /\ T.code = S.code /\ T.mine = S.mine
             /\ T.joining = S.joining /\ T.in = S.in /\ T.inbox = S.inbox
             /\ IF S.in = r /\ S.mine /\ S.at = "open" THEN T.out = Append(S.out, m) ELSE T = S
<1> DEFINE S == socks[s]
           T == Broadcast(socks, r, m)[s]
<1>1. S \in SocketRecs
  OBVIOUS
<1>2. T = IF S.in = r /\ S.mine /\ S.at = "open" THEN [S EXCEPT !.out = Append(@, m)] ELSE S
  BY DEF Broadcast, Put
<1>3. S.out \in Seq(Messages) /\ Append(S.out, m) \in Seq(Messages)
  BY <1>1 DEF SocketRecs
<1> SUFFICES /\ T \in SocketRecs
             /\ T.at = S.at /\ T.code = S.code /\ T.mine = S.mine
             /\ T.joining = S.joining /\ T.in = S.in /\ T.inbox = S.inbox
             /\ IF S.in = r /\ S.mine /\ S.at = "open" THEN T.out = Append(S.out, m) ELSE T = S
  OBVIOUS
<1> HIDE DEF S, T
<1>4. CASE S.in = r /\ S.mine /\ S.at = "open"
  BY <1>1, <1>2, <1>3, <1>4 DEF SocketRecs
<1>5. CASE ~(S.in = r /\ S.mine /\ S.at = "open")
  BY <1>1, <1>2, <1>5
<1> QED BY <1>4, <1>5

LEMMA BroadcastType ==
  ASSUME NEW socks \in [Sockets -> SocketRecs], NEW r \in Rooms, NEW m \in Messages
  PROVE  Broadcast(socks, r, m) \in [Sockets -> SocketRecs]
<1>1. Broadcast(socks, r, m) = [s \in Sockets |-> Broadcast(socks, r, m)[s]]
  BY DEF Broadcast
<1> QED BY <1>1, BroadcastReaches

(* What the server has read.                                               *)
LEMMA ReadTakesOne ==
  ASSUME ServerTypes, NEW s \in Sockets, sock[s].inbox # <<>>
  PROVE  /\ Read(s) \in SocketRecs
         /\ Read(s).at = sock[s].at /\ Read(s).code = sock[s].code /\ Read(s).mine = sock[s].mine
         /\ Read(s).in = sock[s].in /\ Read(s).out = sock[s].out /\ Read(s).inbox = Tail(sock[s].inbox)
         /\ Read(s).joining = sock[s].joining
         /\ Head(sock[s].inbox) \in Orders
<1>1. sock[s] \in SocketRecs /\ sock[s].inbox \in Seq(Orders)
  BY DEF ServerTypes, SocketRecs
<1>2. Tail(sock[s].inbox) \in Seq(Orders) /\ Head(sock[s].inbox) \in Orders
  BY <1>1, HeadTailProperties
<1> QED BY <1>1, <1>2 DEF Read, SocketRecs

LEMMA RoomTypes ==
  ASSUME ServerTypes, NEW r \in Rooms, NEW p \in People
  PROVE  /\ room[r] \in RoomRecs /\ Enter(room[r], p) \in RoomRecs /\ Leave(room[r], p) \in RoomRecs
         /\ [Enter(room[r], p) EXCEPT !.friendIn = TRUE] \in RoomRecs
         /\ [Leave(room[r], p) EXCEPT !.friendIn = FALSE] \in RoomRecs
         /\ \A phase \in Phases : [room[r] EXCEPT !.phase = phase] \in RoomRecs
         /\ \A n \in 0..MaxPoints : [room[r] EXCEPT !.players[p] = n] \in RoomRecs
<1>1. room[r] \in RoomRecs /\ room[r].players \in PlayerLists
  BY DEF ServerTypes, RoomRecs
<1>2. \A n \in -1..MaxPoints : [room[r].players EXCEPT ![p] = n] \in PlayerLists
  BY <1>1 DEF PlayerLists
<1>3. \A n \in -1..MaxPoints : [room[r] EXCEPT !.players[p] = n] \in RoomRecs
  BY <1>1, <1>2 DEF RoomRecs
<1>4. 0 \in -1..MaxPoints /\ -1 \in -1..MaxPoints /\ room[r].players[p] \in -1..MaxPoints
  BY <1>1, QueueAssumption DEF PlayerLists
<1>5. Enter(room[r], p) \in RoomRecs
  BY <1>3, <1>4 DEF Enter
<1>6. Leave(room[r], p) \in RoomRecs
  BY <1>1, <1>3, <1>4 DEF Leave, Absent
<1>7. \A R \in RoomRecs : \A b \in BOOLEAN : [R EXCEPT !.friendIn = b] \in RoomRecs
  BY DEF RoomRecs
<1>8. \A phase \in Phases : [room[r] EXCEPT !.phase = phase] \in RoomRecs
  BY <1>1 DEF RoomRecs
<1>9. \A n \in 0..MaxPoints : n \in -1..MaxPoints
  BY QueueAssumption
<1> QED BY <1>1, <1>3, <1>5, <1>6, <1>7, <1>8, <1>9

---------------------------------------------------------------------------
(* What a step of the server may do to a room.                             *)
Onward(p, n) ==
  \/ n = p
  \/ p = "none" /\ n = "WAITING"
  \/ p = "WAITING" /\ n = "PLAYING"
  \/ p = "PLAYING" /\ n = "FINISHED"
  \/ p \in Running /\ n = "gone"

RoomMoves(r) ==
  LET R == room[r]
      N == room'[r]
  IN  /\ Onward(R.phase, N.phase)
      /\ R.phase # "none" => N.host = R.host /\ N.groups = R.groups
      /\ R.phase = "none" /\ N.phase # "none" => N.groups # {}
      /\ R.phase # "gone" /\ N.phase = "gone" => \A s \in Sockets : sock'[s].in # r
      /\ \/ N.players["me"] = R.players["me"]
         \/ N.players["me"] <= 0
         \/ /\ R.phase = "PLAYING"
            /\ \E s \in Sockets :
                 /\ sock[s].in = r /\ sock[s].inbox # <<>>
                 /\ Head(sock[s].inbox).type = "SUBMIT_SCORE"
                 /\ N.players["me"] = Head(sock[s].inbox).score

(* The message about a room that changes from R to N.                      *)
Announces(m, r, R, N) ==
  \/ m = RoomState(r, N) /\ N.phase = R.phase
  \/ m = GameStarted(r) /\ R.phase = "WAITING" /\ N.phase = "PLAYING" /\ N.players = R.players
  \/ m = Scores(r, N) /\ R.phase = "PLAYING" /\ N.phase = "PLAYING"
  \/ m = GameOver(r, N) /\ R.phase = "PLAYING" /\ N.phase = "FINISHED"

(* What a step of the server may do to a socket S, which becomes T: take   *)
(* one request, add one message, find the room of its code, put it into    *)
(* the room it waits for, or see that it is gone.                          *)
Takes(S, T) == S.inbox # <<>> /\ T.inbox = Tail(S.inbox)
Joins(S)    == S.inbox # <<>> /\ Head(S.inbox).type = "JOIN_ROOM"
Keeps(S, T) == T.in = S.in /\ T.joining = S.joining

Checks(S, T) ==
  /\ Takes(S, T) /\ Joins(S) /\ S.joining = NoRoom
  /\ S.code \in Rooms /\ room[S.code].phase = "WAITING" /\ room'[S.code].phase = "WAITING"
  /\ T.joining = S.code /\ T.in = S.in /\ T.out = S.out

Registers(S, T) ==
  /\ S.joining # NoRoom /\ T.inbox = S.inbox
  /\ T.joining = NoRoom /\ T.in = S.joining
  /\ room[S.joining].phase \in Running /\ room'[S.joining].phase = room[S.joining].phase

SocketMoves(S, T) ==
  \/ /\ S.at = "closed" /\ S.inbox = <<>> /\ S.joining = NoRoom
     /\ T.at = "gone" /\ T.joining = NoRoom /\ T.in = NoRoom /\ T.inbox = <<>> /\ T.out = <<>>
  \/ /\ T.at = S.at /\ T.code = S.code /\ T.mine = S.mine
     /\ \/ T.inbox = S.inbox /\ Keeps(S, T) /\ (S.in = NoRoom => T.out = S.out)
        \/ Takes(S, T) /\ Keeps(S, T) /\ S.joining = NoRoom
        \/ Checks(S, T)
        \/ Registers(S, T)
     /\ T.out = S.out \/ (S.at = "open" /\ S.mine /\ Len(T.out) <= MaxQueue)

(* The same, as an open page hears of it.                                  *)
Hears(S, T) ==
  S.at = "open" /\ S.mine =>
    \/ T = S /\ (S.in # NoRoom => room'[S.in] = room[S.in])
    \/ /\ Takes(S, T) /\ ~Joins(S)
       /\ Keeps(S, T) /\ T.out = S.out /\ (S.in # NoRoom => room'[S.in] = room[S.in])
    \/ /\ S.in # NoRoom /\ Keeps(S, T)
       /\ T.inbox = S.inbox \/ (Takes(S, T) /\ ~Joins(S))
       /\ \E m \in Messages : T.out = Append(S.out, m) /\ Announces(m, S.in, room[S.in], room'[S.in])
    \/ Checks(S, T)
    \/ Registers(S, T) /\ T.out = Append(S.out, RoomState(S.joining, room'[S.joining]))
    \/ /\ Takes(S, T) /\ Joins(S) /\ S.joining = NoRoom
       /\ Keeps(S, T) /\ T.out = Append(S.out, ErrorMsg)

ServerMoves ==
  /\ ServerTypes'
  /\ \A r \in Rooms : RoomMoves(r)
  /\ \A s \in Sockets : SocketMoves(sock[s], sock'[s]) /\ Hears(sock[s], sock'[s])

(* Every socket: what is empty, and which room it is in.                   *)
SocketInv ==
  \A s \in Sockets :
    LET S == sock[s] IN
    /\ S.at \in {"idle", "connecting", "gone"} =>
         S.joining = NoRoom /\ S.in = NoRoom /\ S.inbox = <<>> /\ S.out = <<>>
    /\ S.at # "open" => S.out = <<>>
    /\ S.in # NoRoom => S.in = S.code /\ room[S.in].phase \in Running
    /\ S.joining # NoRoom =>
         /\ S.joining = S.code /\ S.in = NoRoom /\ ~Joins(S) /\ S.out = <<>>
         /\ S.joining \in Rooms /\ room[S.joining].phase # "none"
    /\ \A i \in 2..Len(S.inbox) : S.inbox[i].type # "JOIN_ROOM"
    /\ Joins(S) => S.in = NoRoom /\ S.out = <<>>
    /\ Len(S.inbox) <= MaxPending /\ Len(S.out) <= MaxQueue

RoomInv ==
  \A r \in Rooms :
    /\ room[r].phase # "none" => room[r].groups # {}
    /\ room[r].phase \in {"none", "WAITING"} => room[r].players["me"] <= 0

(* A socket before the broadcast of a step that changes room r to R.       *)
Ready(S, X, r) ==
  \/ X = S
  \/ /\ Takes(S, X) /\ ~Joins(S) /\ S.joining = NoRoom
     /\ X.at = S.at /\ X.code = S.code /\ X.mine = S.mine /\ Keeps(S, X) /\ X.out = S.out
  \/ /\ S.at = "closed" /\ S.inbox = <<>> /\ S.joining = NoRoom
     /\ X = [NoSocket EXCEPT !.at = "gone"]

(* A step that tells a room's sockets what became of it moves them as it   *)
(* should: the form of most steps of the server (hub.go and room.go).      *)
LEMMA AnnouncingMoves ==
  ASSUME ServerTypes, SocketInv,
         NEW r \in Rooms, NEW R \in RoomRecs, NEW m \in Messages,
         NEW socks \in [Sockets -> SocketRecs],
         Announces(m, r, room[r], R),
         Fits(socks, r), room' = [room EXCEPT ![r] = R], sock' = Broadcast(socks, r, m),
         NEW s \in Sockets, Ready(sock[s], socks[s], r)
  PROVE  SocketMoves(sock[s], sock'[s]) /\ Hears(sock[s], sock'[s])
<1> DEFINE S == sock[s]
           X == socks[s]
           T == sock'[s]
<1>1. /\ T \in SocketRecs /\ X \in SocketRecs /\ S \in SocketRecs
      /\ T.at = X.at /\ T.code = X.code /\ T.mine = X.mine /\ Keeps(X, T) /\ T.inbox = X.inbox
      /\ IF X.in = r /\ X.mine /\ X.at = "open" THEN T.out = Append(X.out, m) ELSE T = X
  <2>1. X \in SocketRecs /\ S \in SocketRecs
    BY DEF ServerTypes
  <2> QED BY <2>1, BroadcastReaches DEF Keeps
<1>2. /\ room'[r] = R /\ \A o \in Rooms \ {r} : room'[o] = room[o]
      /\ r # NoRoom /\ S.in \in Rooms \cup {NoRoom}
  BY <1>1, RoomAssumption DEF ServerTypes, SocketRecs, Codes
<1>3. X.in = r => Len(X.out) < MaxQueue
  BY DEF Fits
<1>4. X.out \in Seq(Messages) /\ MaxQueue \in Nat
  BY <1>1, QueueAssumption DEF SocketRecs
<1>5. T.out = X.out \/ (X.at = "open" /\ X.mine /\ Len(T.out) <= MaxQueue)
  BY <1>1, <1>3, <1>4
<1>6. Ready(S, X, r)
  OBVIOUS
<1> SUFFICES SocketMoves(S, T) /\ Hears(S, T)
  OBVIOUS
<1> HIDE DEF S, X, T
<1>7. CASE X = S
  <2>1. T.out = S.out \/ (S.at = "open" /\ S.mine /\ Len(T.out) <= MaxQueue)
    BY <1>5, <1>7
  <2>2. T.at = S.at /\ T.code = S.code /\ T.mine = S.mine /\ Keeps(S, T) /\ T.inbox = S.inbox
    BY <1>1, <1>7 DEF Keeps
  <2>3. S.in = NoRoom => T.out = S.out
    BY <1>1, <1>2, <1>7
  <2>4. SocketMoves(S, T)
    BY <2>1, <2>2, <2>3 DEF SocketMoves
  <2>5. Hears(S, T)
    BY <1>1, <1>2, <1>7, <2>2 DEF Hears, Keeps
  <2> QED BY <2>4, <2>5
<1>8. CASE /\ Takes(S, X) /\ ~Joins(S) /\ S.joining = NoRoom
           /\ X.at = S.at /\ X.code = S.code /\ X.mine = S.mine /\ Keeps(S, X) /\ X.out = S.out
  <2>1. T.at = S.at /\ T.code = S.code /\ T.mine = S.mine /\ Keeps(S, T) /\ Takes(S, T)
    BY <1>1, <1>8 DEF Takes, Keeps
  <2>2. T.out = S.out \/ (S.at = "open" /\ S.mine /\ Len(T.out) <= MaxQueue)
    BY <1>5, <1>8
  <2>3. SocketMoves(S, T)
    BY <1>8, <2>1, <2>2 DEF SocketMoves
  <2>4. Hears(S, T)
    BY <1>1, <1>2, <1>8, <2>1 DEF Hears, Keeps
  <2> QED BY <2>3, <2>4
<1>9. CASE /\ S.at = "closed" /\ S.inbox = <<>> /\ S.joining = NoRoom
           /\ X = [NoSocket EXCEPT !.at = "gone"]
  <2>1. X.at = "gone" /\ X.joining = NoRoom /\ X.in = NoRoom /\ X.inbox = <<>> /\ X.out = <<>>
    BY <1>9 DEF NoSocket
  <2>2. T = X
    BY <1>1, <2>1
  <2> QED BY <1>9, <2>1, <2>2 DEF SocketMoves, Hears
<1> QED BY <1>6, <1>7, <1>8, <1>9 DEF Ready

LEMMA OtherRoomsRest ==
  ASSUME ServerTypes, NEW r \in Rooms, NEW R, room' = [room EXCEPT ![r] = R], NEW o \in Rooms \ {r}
  PROVE  RoomMoves(o) /\ room'[o] = room[o]
<1>1. room'[o] = room[o]
  BY DEF ServerTypes
<1> QED BY <1>1 DEF RoomMoves, Onward

LEMMA AnnouncingStep ==
  ASSUME ServerTypes, SocketInv,
         NEW r \in Rooms, NEW R \in RoomRecs, NEW m \in Messages,
         NEW socks \in [Sockets -> SocketRecs],
         Announces(m, r, room[r], R),
         Fits(socks, r), room' = [room EXCEPT ![r] = R], sock' = Broadcast(socks, r, m),
         \A s \in Sockets : Ready(sock[s], socks[s], r),
         RoomMoves(r)
  PROVE  ServerMoves
<1>1. room' \in [Rooms -> RoomRecs] /\ sock' \in [Sockets -> SocketRecs]
  BY BroadcastType DEF ServerTypes
<1>2. \A o \in Rooms : RoomMoves(o)
  BY OtherRoomsRest
<1>3. \A s \in Sockets : SocketMoves(sock[s], sock'[s]) /\ Hears(sock[s], sock'[s])
  BY AnnouncingMoves
<1> QED BY <1>1, <1>2, <1>3 DEF ServerMoves, ServerTypes

(* Steps of a room that no request brings about.                           *)
LEMMA ChangeMoves ==
  ASSUME ServerTypes, SocketInv,
         NEW r \in Rooms, NEW R \in RoomRecs, NEW m \in Messages,
         Announces(m, r, room[r], R), Change(r, R, m), RoomMoves(r)
  PROVE  ServerMoves
<1>1. \A s \in Sockets : Ready(sock[s], sock[s], r)
  BY DEF Ready
<1> QED BY <1>1, AnnouncingStep DEF Change, ServerTypes

(* A request is read, and a room changes or not.                           *)
LEMMA ReadMoves ==
  ASSUME ServerTypes, SocketInv, NEW s \in Sockets, sock[s].inbox # <<>>, ~Joins(sock[s]),
         sock[s].joining = NoRoom,
         NEW socks, socks = [sock EXCEPT ![s] = Read(s)], NEW r
  PROVE  /\ socks \in [Sockets -> SocketRecs]
         /\ \A t \in Sockets : Ready(sock[t], socks[t], r)
<1>1. Read(s) \in SocketRecs /\ Ready(sock[s], Read(s), r)
  BY ReadTakesOne DEF Ready, Takes, Keeps
<1>2. \A t \in Sockets \ {s} : socks[t] = sock[t] /\ Ready(sock[t], sock[t], r)
  BY DEF ServerTypes, Ready
<1>3. socks[s] = Read(s)
  BY DEF ServerTypes
<1> QED BY <1>1, <1>2, <1>3 DEF ServerTypes

LEMMA StartMoves ==
  ASSUME ServerTypes, SocketInv, NEW s \in Sockets, ServerStarts(s)
  PROVE  ServerMoves
<1> DEFINE r == sock[s].in
           R == [room[r] EXCEPT !.phase = "PLAYING"]
           socks == [sock EXCEPT ![s] = Read(s)]
<1>1. /\ sock[s].inbox # <<>> /\ ~Joins(sock[s]) /\ sock[s].joining = NoRoom
      /\ r \in Rooms /\ room[r].phase = "WAITING"
  BY DEF ServerStarts, Receives, Joins, ServerTypes, SocketRecs, Codes
<1>2. R \in RoomRecs /\ GameStarted(r) \in Messages /\ "me" \in People /\ room[r] \in RoomRecs
  BY <1>1, RoomTypes, MessageTypes DEF Phases, People
<1>3. R.phase = "PLAYING" /\ R.players = room[r].players /\ R.host = room[r].host /\ R.groups = room[r].groups
  BY <1>2 DEF RoomRecs
<1>4. Fits(socks, r)
  <2>1. \A t \in Sockets : socks[t].in = sock[t].in /\ socks[t].out = sock[t].out
    BY <1>1, ReadTakesOne DEF ServerTypes
  <2> QED BY <2>1 DEF ServerStarts, Fits
<1>5. room' = [room EXCEPT ![r] = R] /\ sock' = Broadcast(socks, r, GameStarted(r))
  BY DEF ServerStarts
<1>6. socks \in [Sockets -> SocketRecs] /\ \A t \in Sockets : Ready(sock[t], socks[t], r)
  BY <1>1, ReadMoves
<1>7. Announces(GameStarted(r), r, room[r], R)
  BY <1>1, <1>3 DEF Announces
<1>8. RoomMoves(r)
  <2>1. room'[r] = R
    BY <1>1, <1>5 DEF ServerTypes
  <2> QED BY <1>1, <1>3, <2>1 DEF RoomMoves, Onward
<1> HIDE DEF socks, R, r
<1> QED BY <1>1, <1>2, <1>4, <1>5, <1>6, <1>7, <1>8, AnnouncingStep

LEMMA ScoreMoves ==
  ASSUME ServerTypes, SocketInv, NEW s \in Sockets, ServerScores(s)
  PROVE  ServerMoves
<1> DEFINE r == sock[s].in
           n == Head(sock[s].inbox).score
           R == [room[r] EXCEPT !.players["me"] = n]
           socks == [sock EXCEPT ![s] = Read(s)]
<1>1. /\ sock[s].inbox # <<>> /\ ~Joins(sock[s]) /\ sock[s].joining = NoRoom
      /\ r \in Rooms /\ room[r].phase = "PLAYING"
      /\ Head(sock[s].inbox).type = "SUBMIT_SCORE"
  BY DEF ServerScores, Receives, Joins, ServerTypes, SocketRecs, Codes
<1>2. /\ R \in RoomRecs /\ Scores(r, R) \in Messages /\ "me" \in People /\ room[r] \in RoomRecs
  <2>1. n \in 0..MaxPoints
    BY <1>1, ReadTakesOne DEF Orders
  <2> HIDE DEF n
  <2>2. R \in RoomRecs /\ room[r] \in RoomRecs
    BY <1>1, <2>1, RoomTypes DEF People
  <2> HIDE DEF R
  <2> QED BY <1>1, <2>2, MessageTypes DEF People
<1>3. R.phase = "PLAYING" /\ R.players["me"] = n /\ R.host = room[r].host /\ R.groups = room[r].groups
  BY <1>1, <1>2 DEF RoomRecs, PlayerLists
<1>4. Fits(socks, r)
  <2>1. \A t \in Sockets : socks[t].in = sock[t].in /\ socks[t].out = sock[t].out
    BY <1>1, ReadTakesOne DEF ServerTypes
  <2> QED BY <2>1 DEF ServerScores, Fits
<1>5. room' = [room EXCEPT ![r] = R] /\ sock' = Broadcast(socks, r, Scores(r, R))
  BY DEF ServerScores
<1>6. socks \in [Sockets -> SocketRecs] /\ \A t \in Sockets : Ready(sock[t], socks[t], r)
  BY <1>1, ReadMoves
<1>7. Announces(Scores(r, R), r, room[r], R)
  BY <1>1, <1>3 DEF Announces
<1>8. RoomMoves(r)
  <2>1. room'[r] = R
    BY <1>1, <1>5 DEF ServerTypes
  <2>2. \E t \in Sockets : /\ sock[t].in = r /\ sock[t].inbox # <<>>
                           /\ Head(sock[t].inbox).type = "SUBMIT_SCORE"
                           /\ R.players["me"] = Head(sock[t].inbox).score
    BY <1>1, <1>3
  <2> HIDE DEF R, r
  <2> QED BY <1>1, <1>3, <2>1, <2>2 DEF RoomMoves, Onward
<1> HIDE DEF socks, R, r
<1> QED BY <1>1, <1>2, <1>4, <1>5, <1>6, <1>7, <1>8, AnnouncingStep

LEMMA IgnoreMoves ==
  ASSUME ServerTypes, SocketInv, NEW s \in Sockets, ServerIgnores(s)
  PROVE  ServerMoves
<1>1. sock[s].inbox # <<>> /\ ~Joins(sock[s]) /\ sock[s].joining = NoRoom
  BY DEF ServerIgnores, Receives, Joins
<1>2. /\ Read(s) \in SocketRecs
      /\ Read(s).at = sock[s].at /\ Read(s).code = sock[s].code /\ Read(s).mine = sock[s].mine
      /\ Keeps(sock[s], Read(s)) /\ Read(s).out = sock[s].out /\ Takes(sock[s], Read(s))
  BY <1>1, ReadTakesOne DEF Takes, Keeps
<1>3. sock'[s] = Read(s) /\ (\A t \in Sockets \ {s} : sock'[t] = sock[t]) /\ room' = room
      /\ sock' \in [Sockets -> SocketRecs]
  BY <1>2 DEF ServerIgnores, ServerTypes
<1>4. SocketMoves(sock[s], sock'[s]) /\ Hears(sock[s], sock'[s])
  BY <1>1, <1>2, <1>3 DEF SocketMoves, Hears
<1>5. \A t \in Sockets \ {s} : SocketMoves(sock[t], sock'[t]) /\ Hears(sock[t], sock'[t])
  BY <1>3 DEF SocketMoves, Hears, Keeps
<1>6. \A r \in Rooms : RoomMoves(r)
  BY <1>3 DEF RoomMoves, Onward
<1> QED BY <1>3, <1>4, <1>5, <1>6 DEF ServerMoves, ServerTypes

LEMMA RefuseMoves ==
  ASSUME ServerTypes, SocketInv, NEW s \in Sockets, ServerRefuses(s)
  PROVE  ServerMoves
<1> DEFINE T == Put(Read(s), ErrorMsg)
<1>1. /\ sock[s].inbox # <<>> /\ Joins(sock[s]) /\ sock[s].joining = NoRoom
      /\ sock[s].at \in {"open", "closed"}
  BY DEF ServerRefuses, Receives, Joins
<1>2. /\ Read(s) \in SocketRecs
      /\ Read(s).at = sock[s].at /\ Read(s).code = sock[s].code /\ Read(s).mine = sock[s].mine
      /\ Keeps(sock[s], Read(s)) /\ Read(s).out = sock[s].out /\ Takes(sock[s], Read(s))
  BY <1>1, ReadTakesOne DEF Takes, Keeps
<1>3. ErrorMsg \in Messages
  BY NobodyType DEF ErrorMsg, Msg, Messages, Phases
<1>4. /\ T \in SocketRecs
      /\ T.at = sock[s].at /\ T.code = sock[s].code /\ T.mine = sock[s].mine
      /\ Keeps(sock[s], T) /\ Takes(sock[s], T)
      /\ T.out = IF sock[s].mine /\ sock[s].at = "open" THEN Append(sock[s].out, ErrorMsg) ELSE sock[s].out
  <2>1. Append(Read(s).out, ErrorMsg) \in Seq(Messages)
    BY <1>2, <1>3 DEF SocketRecs
  <2> QED BY <1>2, <2>1 DEF Put, SocketRecs, Takes, Keeps
<1>5. sock'[s] = T /\ (\A t \in Sockets \ {s} : sock'[t] = sock[t]) /\ room' = room
      /\ sock' \in [Sockets -> SocketRecs]
  BY <1>4 DEF ServerRefuses, ServerTypes
<1>6. SocketMoves(sock[s], sock'[s]) /\ Hears(sock[s], sock'[s])
  <2>1. T.out = sock[s].out \/ (sock[s].at = "open" /\ sock[s].mine /\ Len(T.out) <= MaxQueue)
    <3>1. Len(sock[s].out) < MaxQueue /\ sock[s].out \in Seq(Messages) /\ MaxQueue \in Nat
      BY QueueAssumption DEF ServerRefuses, ServerTypes, SocketRecs
    <3> QED BY <1>3, <1>4, <3>1
  <2> HIDE DEF T
  <2>2. SocketMoves(sock[s], sock'[s])
    BY <1>1, <1>4, <1>5, <2>1 DEF SocketMoves
  <2>3. Hears(sock[s], sock'[s])
    BY <1>1, <1>4, <1>5 DEF Hears
  <2> QED BY <2>2, <2>3
<1>7. \A t \in Sockets \ {s} : SocketMoves(sock[t], sock'[t]) /\ Hears(sock[t], sock'[t])
  BY <1>5 DEF SocketMoves, Hears, Keeps
<1>8. \A r \in Rooms : RoomMoves(r)
  BY <1>5 DEF RoomMoves, Onward
<1> QED BY <1>5, <1>6, <1>7, <1>8 DEF ServerMoves, ServerTypes

LEMMA CheckMoves ==
  ASSUME ServerTypes, SocketInv, NEW s \in Sockets, ServerChecks(s)
  PROVE  ServerMoves
<1> DEFINE X == [Read(s) EXCEPT !.joining = sock[s].code]
<1>1. /\ sock[s].inbox # <<>> /\ Joins(sock[s]) /\ sock[s].joining = NoRoom
      /\ sock[s].code \in Rooms /\ room[sock[s].code].phase = "WAITING"
  BY DEF ServerChecks, Receives, Joins, Waiting
<1>2. /\ X \in SocketRecs /\ Takes(sock[s], X)
      /\ X.at = sock[s].at /\ X.code = sock[s].code /\ X.mine = sock[s].mine
      /\ X.joining = sock[s].code /\ X.in = sock[s].in /\ X.out = sock[s].out
  BY <1>1, ReadTakesOne DEF Takes, SocketRecs
<1>3. sock'[s] = X /\ (\A t \in Sockets \ {s} : sock'[t] = sock[t]) /\ room' = room
      /\ sock' \in [Sockets -> SocketRecs]
  BY <1>2 DEF ServerChecks, ServerTypes
<1> HIDE DEF X
<1>4. SocketMoves(sock[s], sock'[s]) /\ Hears(sock[s], sock'[s])
  <2>1. Checks(sock[s], sock'[s])
    BY <1>1, <1>2, <1>3 DEF Checks
  <2> QED BY <1>2, <1>3, <2>1 DEF SocketMoves, Hears
<1>5. \A t \in Sockets \ {s} : SocketMoves(sock[t], sock'[t]) /\ Hears(sock[t], sock'[t])
  BY <1>3 DEF SocketMoves, Hears, Keeps
<1>6. \A r \in Rooms : RoomMoves(r)
  BY <1>3 DEF RoomMoves, Onward
<1> QED BY <1>3, <1>4, <1>5, <1>6 DEF ServerMoves, ServerTypes

LEMMA EnterIsQuiet ==
  ASSUME ServerTypes, NEW r \in Rooms
  PROVE  LET R == Enter(room[r], "me")
         IN  /\ R \in RoomRecs /\ room[r] \in RoomRecs /\ R.phase = room[r].phase
             /\ R.host = room[r].host /\ R.groups = room[r].groups
             /\ R.players["me"] = room[r].players["me"] \/ R.players["me"] = 0
<1>1. "me" \in People
  BY DEF People
<1>2. Enter(room[r], "me") \in RoomRecs /\ room[r] \in RoomRecs /\ room[r].players \in PlayerLists
  BY <1>1, RoomTypes DEF RoomRecs
<1> QED BY <1>1, <1>2 DEF Enter, RoomRecs, PlayerLists

LEMMA RegisterMoves ==
  ASSUME ServerTypes, SocketInv, NEW s \in Sockets, ServerRegisters(s)
  PROVE  ServerMoves
<1> DEFINE r == sock[s].joining
           R == Enter(room[r], "me")
           X == [sock[s] EXCEPT !.in = r, !.joining = NoRoom]
           joined == [sock EXCEPT ![s] = X]
           m == RoomState(r, R)
<1>1. /\ r # NoRoom /\ r \in Rooms /\ room[r].phase \in Running
      /\ sock[s] \in SocketRecs /\ sock[s].in = NoRoom
  <2>1. r # NoRoom /\ room[r].phase # "gone"
    BY DEF ServerRegisters
  <2>2. r \in Rooms /\ room[r].phase # "none" /\ sock[s].in = NoRoom
    BY <2>1 DEF SocketInv
  <2>3. room[r] \in RoomRecs /\ sock[s] \in SocketRecs
    BY <2>2 DEF ServerTypes
  <2> QED BY <2>1, <2>2, <2>3 DEF RoomRecs, Phases, Running
<1>2. /\ R \in RoomRecs /\ room[r] \in RoomRecs /\ R.phase = room[r].phase
      /\ R.host = room[r].host /\ R.groups = room[r].groups
      /\ R.players["me"] = room[r].players["me"] \/ R.players["me"] = 0
  BY <1>1, EnterIsQuiet
<1>3. m \in Messages
  BY <1>1, <1>2, MessageTypes
<1>4. /\ X \in SocketRecs /\ X.inbox = sock[s].inbox
      /\ X.at = sock[s].at /\ X.code = sock[s].code /\ X.mine = sock[s].mine
      /\ X.joining = NoRoom /\ X.in = r /\ X.out = sock[s].out
  BY <1>1 DEF SocketRecs, Codes
<1>5. /\ joined \in [Sockets -> SocketRecs]
      /\ joined[s] = X /\ \A t \in Sockets \ {s} : joined[t] = sock[t]
  BY <1>4 DEF ServerTypes
<1>6. Fits(joined, r) /\ room' = [room EXCEPT ![r] = R] /\ sock' = Broadcast(joined, r, m)
  <2>1. [sock EXCEPT ![s].in = r, ![s].joining = NoRoom] = joined
    BY <1>1 DEF ServerTypes, SocketRecs
  <2> QED BY <2>1 DEF ServerRegisters
<1>7. /\ sock' \in [Sockets -> SocketRecs] /\ room' \in [Rooms -> RoomRecs]
      /\ room'[r] = R /\ \A o \in Rooms \ {r} : room'[o] = room[o]
  BY <1>1, <1>2, <1>3, <1>5, <1>6, BroadcastType DEF ServerTypes
<1>8. \A t \in Sockets \ {s} : SocketMoves(sock[t], sock'[t]) /\ Hears(sock[t], sock'[t])
  <2>1. Announces(m, r, room[r], R)
    BY <1>1, <1>2 DEF Announces
  <2>2. \A t \in Sockets \ {s} : Ready(sock[t], joined[t], r)
    BY <1>5 DEF Ready
  <2> HIDE DEF joined, R, m, r
  <2> QED BY <1>1, <1>2, <1>3, <1>5, <1>6, <2>1, <2>2, AnnouncingMoves
<1>9. SocketMoves(sock[s], sock'[s]) /\ Hears(sock[s], sock'[s])
  <2> DEFINE T == sock'[s]
             S == sock[s]
  <2>1. /\ T.at = S.at /\ T.code = S.code /\ T.mine = S.mine
        /\ T.joining = NoRoom /\ T.in = r /\ T.inbox = S.inbox
        /\ IF S.mine /\ S.at = "open" THEN T.out = Append(S.out, m) ELSE T.out = S.out
    <3>1. LET Y == Broadcast(joined, r, m)[s]
          IN  /\ Y.at = X.at /\ Y.code = X.code /\ Y.mine = X.mine
              /\ Y.joining = X.joining /\ Y.in = X.in /\ Y.inbox = X.inbox
              /\ IF X.in = r /\ X.mine /\ X.at = "open" THEN Y.out = Append(X.out, m) ELSE Y = X
      <4> HIDE DEF joined, m, r, X
      <4> QED BY <1>1, <1>3, <1>5, BroadcastReaches
    <3> HIDE DEF joined, m, X
    <3> QED BY <1>4, <1>6, <3>1
  <2>2. T.out = S.out \/ (S.at = "open" /\ S.mine /\ Len(T.out) <= MaxQueue)
    <3>1. Len(S.out) < MaxQueue /\ S.out \in Seq(Messages) /\ MaxQueue \in Nat
      BY <1>4, <1>5, <1>6, QueueAssumption DEF ServerTypes, SocketRecs, Fits
    <3> QED BY <1>3, <2>1, <3>1
  <2>3. Registers(S, T)
    BY <1>1, <1>2, <1>7, <2>1 DEF Registers
  <2>4. SocketMoves(S, T)
    BY <2>1, <2>2, <2>3 DEF SocketMoves
  <2>5. Hears(S, T)
    BY <1>7, <2>1, <2>3 DEF Hears
  <2> QED BY <2>4, <2>5
<1>10. \A o \in Rooms : RoomMoves(o)
  <2>1. RoomMoves(r)
    BY <1>1, <1>2, <1>7 DEF RoomMoves, Onward
  <2> QED BY <1>1, <1>6, <2>1, OtherRoomsRest
<1> QED BY <1>7, <1>8, <1>9, <1>10 DEF ServerMoves, ServerTypes

LEMMA LeaveIsQuiet ==
  ASSUME ServerTypes, NEW r \in Rooms, NEW p \in People
  PROVE  LET R == Leave(room[r], p)
         IN  /\ R \in RoomRecs /\ R.phase = room[r].phase
             /\ R.host = room[r].host /\ R.groups = room[r].groups
             /\ \/ R.players["me"] = room[r].players["me"]
                \/ R.players["me"] <= 0 /\ room[r].phase = "WAITING"
<1> DEFINE R == Leave(room[r], p)
<1>1. R \in RoomRecs /\ room[r] \in RoomRecs /\ room[r].players \in PlayerLists
  BY RoomTypes DEF RoomRecs
<1>2. "me" \in People
  BY DEF People
<1> QED BY <1>1, <1>2 DEF Leave, Absent, RoomRecs, PlayerLists

LEMMA ReleaseMoves ==
  ASSUME ServerTypes, SocketInv, NEW s \in Sockets, ServerReleases(s)
  PROVE  ServerMoves
<1> DEFINE r == sock[s].in
           G == [NoSocket EXCEPT !.at = "gone"]
           gone == [sock EXCEPT ![s] = G]
           R == Leave(room[r], "me")
           m == RoomState(r, R)
<1>1. /\ G \in SocketRecs /\ G.at = "gone" /\ G.joining = NoRoom /\ G.in = NoRoom
      /\ G.inbox = <<>> /\ G.out = <<>> /\ G.mine = FALSE
      /\ sock[s].at = "closed" /\ sock[s].inbox = <<>> /\ sock[s].joining = NoRoom
  <2>1. /\ G \in SocketRecs /\ G.at = "gone" /\ G.joining = NoRoom /\ G.in = NoRoom
        /\ G.inbox = <<>> /\ G.out = <<>> /\ G.mine = FALSE
    BY NoSocketType DEF SocketRecs
  <2> QED BY <2>1 DEF ServerReleases
<1>2. /\ gone \in [Sockets -> SocketRecs] /\ gone[s] = G
      /\ \A t \in Sockets \ {s} : gone[t] = sock[t]
  BY <1>1 DEF ServerTypes
<1>3. CASE r = NoRoom
  <2>1. sock' = gone /\ room' = room
    BY <1>3 DEF ServerReleases
  <2>2. SocketMoves(sock[s], sock'[s]) /\ Hears(sock[s], sock'[s])
    BY <1>1, <1>2, <2>1 DEF SocketMoves, Hears
  <2>3. \A t \in Sockets \ {s} : SocketMoves(sock[t], sock'[t]) /\ Hears(sock[t], sock'[t])
    BY <1>2, <2>1 DEF SocketMoves, Hears, Keeps
  <2>4. \A o \in Rooms : RoomMoves(o)
    BY <2>1 DEF RoomMoves, Onward
  <2> HIDE DEF gone
  <2> QED BY <1>2, <2>1, <2>2, <2>3, <2>4 DEF ServerMoves, ServerTypes
<1>4. CASE r # NoRoom
  <2>1. r \in Rooms
    BY <1>4 DEF ServerTypes, SocketRecs, Codes
  <2>2. Fits(gone, r) /\ room' = [room EXCEPT ![r] = R] /\ sock' = Broadcast(gone, r, m)
    BY <1>4 DEF ServerReleases
  <2>3. /\ R \in RoomRecs /\ R.phase = room[r].phase /\ R.host = room[r].host /\ R.groups = room[r].groups
        /\ \/ R.players["me"] = room[r].players["me"]
           \/ R.players["me"] <= 0 /\ room[r].phase = "WAITING"
    BY <2>1, LeaveIsQuiet DEF People
  <2>4. m \in Messages
    BY <2>1, <2>3, MessageTypes
  <2>5. Announces(m, r, room[r], R)
    BY <2>3 DEF Announces
  <2>6. \A t \in Sockets : Ready(sock[t], gone[t], r)
    BY <1>1, <1>2 DEF Ready
  <2>7. RoomMoves(r)
    <3>1. room'[r] = R
      BY <2>1, <2>2 DEF ServerTypes
    <3>2. room[r].phase \in Running
      BY <2>1, <1>4 DEF SocketInv
    <3> HIDE DEF R, r
    <3> QED BY <2>3, <3>1, <3>2 DEF RoomMoves, Onward, Running
  <2> HIDE DEF gone, R, m, r
  <2> QED BY <1>2, <2>1, <2>2, <2>3, <2>4, <2>5, <2>6, <2>7, AnnouncingStep
<1> QED BY <1>3, <1>4

LEMMA EndMoves ==
  ASSUME ServerTypes, SocketInv, NEW r \in Rooms, GameEnds(r)
  PROVE  ServerMoves
<1> DEFINE R == [room[r] EXCEPT !.phase = "FINISHED"]
<1>1. R \in RoomRecs /\ room[r] \in RoomRecs /\ room[r].phase = "PLAYING"
  BY RoomTypes DEF GameEnds, Phases, People
<1>2. R.phase = "FINISHED" /\ R.players = room[r].players /\ R.host = room[r].host /\ R.groups = room[r].groups
  BY <1>1 DEF RoomRecs
<1>3. Change(r, R, GameOver(r, R))
  BY DEF GameEnds
<1>4. Announces(GameOver(r, R), r, room[r], R) /\ GameOver(r, R) \in Messages
  BY <1>1, <1>2, MessageTypes DEF Announces
<1>5. RoomMoves(r)
  <2>1. room'[r] = R
    BY <1>3 DEF Change, ServerTypes
  <2> QED BY <1>1, <1>2, <2>1 DEF RoomMoves, Onward
<1> HIDE DEF R
<1> QED BY <1>1, <1>3, <1>4, <1>5, ChangeMoves

LEMMA ExpiryMoves ==
  ASSUME ServerTypes, SocketInv, NEW r \in Rooms, RoomExpires(r)
  PROVE  ServerMoves
<1>1. /\ room[r].phase \in Running /\ sock' = sock
      /\ \A s \in Sockets : sock[s].in # r
      /\ room' = [room EXCEPT ![r] = [room[r] EXCEPT !.phase = "gone"]]
  BY DEF RoomExpires, Running
<1>2. room[r] \in RoomRecs /\ [room[r] EXCEPT !.phase = "gone"] \in RoomRecs
  BY RoomTypes DEF Phases, People
<1>3. /\ room' \in [Rooms -> RoomRecs] /\ \A o \in Rooms \ {r} : room'[o] = room[o]
      /\ room'[r].phase = "gone" /\ room'[r].players = room[r].players
      /\ room'[r].host = room[r].host /\ room'[r].groups = room[r].groups
  BY <1>1, <1>2 DEF ServerTypes, RoomRecs
<1>4. \A o \in Rooms : RoomMoves(o)
  BY <1>1, <1>3 DEF RoomMoves, Onward, Running
<1>5. \A s \in Sockets : SocketMoves(sock[s], sock'[s]) /\ Hears(sock[s], sock'[s])
  <2> TAKE s \in Sockets
  <2>1. sock[s].in # NoRoom => room'[sock[s].in] = room[sock[s].in]
    BY <1>1, <1>3 DEF ServerTypes, SocketRecs, Codes
  <2> QED BY <1>1, <2>1 DEF SocketMoves, Hears, Keeps
<1> QED BY <1>1, <1>3, <1>4, <1>5 DEF ServerMoves, ServerTypes

(* A room that is made while no socket can be in it.                       *)
LEMMA CreationMoves ==
  ASSUME ServerTypes, SocketInv, NEW r \in Rooms, NEW p \in People,
         NEW groups \in SUBSET Groups, groups # {}, room[r].phase = "none",
         room' = [room EXCEPT ![r] = NewRoom(p, groups)]
  PROVE  /\ room' \in [Rooms -> RoomRecs]
         /\ \A o \in Rooms : RoomMoves(o)
         /\ \A s \in Sockets : sock[s].in # r
         /\ \A o \in Rooms \ {r} : room'[o] = room[o]
<1>1. /\ NewRoom(p, groups) \in RoomRecs
      /\ NewRoom(p, groups).phase = "WAITING" /\ NewRoom(p, groups).groups = groups
      /\ NewRoom(p, groups).players["me"] = -1
  BY NobodyType DEF NewRoom, RoomRecs, Phases
<1>2. room' \in [Rooms -> RoomRecs] /\ room'[r] = NewRoom(p, groups)
  BY <1>1 DEF ServerTypes
<1>3. RoomMoves(r)
  BY <1>1, <1>2 DEF RoomMoves, Onward
<1>4. \A s \in Sockets : sock[s].in # r
  BY RoomAssumption DEF SocketInv, Running
<1> QED BY <1>2, <1>3, <1>4, OtherRoomsRest DEF ServerTypes

LEMMA FriendCreationMoves ==
  ASSUME ServerTypes, SocketInv, NEW r \in Rooms, FriendCreates(r)
  PROVE  ServerMoves
<1>1. PICK groups \in FriendGroups : room' = [room EXCEPT ![r] = NewRoom("friend", groups)]
  BY DEF FriendCreates
<1>2. /\ groups \in SUBSET Groups /\ groups # {} /\ "friend" \in People
      /\ room[r].phase = "none" /\ sock' = sock
  BY FriendAssumption DEF FriendCreates, People
<1>3. /\ room' \in [Rooms -> RoomRecs]
      /\ \A o \in Rooms : RoomMoves(o)
      /\ \A s \in Sockets : sock[s].in # r
      /\ \A o \in Rooms \ {r} : room'[o] = room[o]
  BY <1>1, <1>2, CreationMoves
<1>4. \A s \in Sockets : SocketMoves(sock[s], sock'[s]) /\ Hears(sock[s], sock'[s])
  <2> TAKE s \in Sockets
  <2>1. sock[s].in # NoRoom => room'[sock[s].in] = room[sock[s].in]
    BY <1>3 DEF ServerTypes, SocketRecs, Codes
  <2> QED BY <1>2, <2>1 DEF SocketMoves, Hears, Keeps
<1> QED BY <1>2, <1>3, <1>4 DEF ServerMoves, ServerTypes

LEMMA FriendJoinMoves ==
  ASSUME ServerTypes, SocketInv, NEW r \in Rooms, FriendJoins(r)
  PROVE  ServerMoves
<1> DEFINE E == Enter(room[r], "friend")
           R == [E EXCEPT !.friendIn = TRUE]
<1>1. /\ R \in RoomRecs /\ E \in RoomRecs /\ room[r] \in RoomRecs /\ room[r].players \in PlayerLists
      /\ room[r].phase = "WAITING" /\ "friend" \in People /\ "me" \in People
  BY RoomTypes DEF FriendJoins, People, RoomRecs
<1>2. /\ R.phase = "WAITING" /\ R.host = room[r].host /\ R.groups = room[r].groups
      /\ R.players["me"] = room[r].players["me"]
  BY <1>1 DEF RoomRecs, Enter, PlayerLists
<1>3. Change(r, R, RoomState(r, R))
  BY DEF FriendJoins
<1>4. Announces(RoomState(r, R), r, room[r], R) /\ RoomState(r, R) \in Messages
  BY <1>1, <1>2, MessageTypes DEF Announces
<1>5. RoomMoves(r)
  <2>1. room'[r] = R
    BY <1>3 DEF Change, ServerTypes
  <2> QED BY <1>1, <1>2, <2>1 DEF RoomMoves, Onward
<1> HIDE DEF R
<1> QED BY <1>1, <1>3, <1>4, <1>5, ChangeMoves

LEMMA FriendLeaveMoves ==
  ASSUME ServerTypes, SocketInv, NEW r \in Rooms, FriendLeaves(r)
  PROVE  ServerMoves
<1> DEFINE L == Leave(room[r], "friend")
           R == [L EXCEPT !.friendIn = FALSE]
<1>1. /\ R \in RoomRecs /\ L \in RoomRecs /\ room[r] \in RoomRecs /\ "friend" \in People
  BY RoomTypes DEF People
<1>2. /\ L.phase = room[r].phase /\ L.host = room[r].host /\ L.groups = room[r].groups
      /\ \/ L.players["me"] = room[r].players["me"]
         \/ L.players["me"] <= 0 /\ room[r].phase = "WAITING"
  BY <1>1, LeaveIsQuiet
<1> HIDE DEF L
<1>3. /\ R.phase = room[r].phase /\ R.host = room[r].host /\ R.groups = room[r].groups
      /\ \/ R.players["me"] = room[r].players["me"]
         \/ R.players["me"] <= 0 /\ room[r].phase = "WAITING"
  BY <1>1, <1>2 DEF RoomRecs
<1>4. Change(r, R, RoomState(r, R))
  BY DEF FriendLeaves, L
<1>5. Announces(RoomState(r, R), r, room[r], R) /\ RoomState(r, R) \in Messages
  BY <1>1, <1>3, MessageTypes DEF Announces
<1>6. RoomMoves(r)
  <2>1. room'[r] = R
    BY <1>4 DEF Change, ServerTypes
  <2> QED BY <1>1, <1>3, <2>1 DEF RoomMoves, Onward
<1> HIDE DEF R
<1> QED BY <1>1, <1>4, <1>5, <1>6, ChangeMoves

LEMMA FriendStartMoves ==
  ASSUME ServerTypes, SocketInv, NEW r \in Rooms, FriendStarts(r)
  PROVE  ServerMoves
<1> DEFINE R == [room[r] EXCEPT !.phase = "PLAYING"]
<1>1. R \in RoomRecs /\ room[r] \in RoomRecs /\ room[r].phase = "WAITING"
  BY RoomTypes DEF FriendStarts, Phases, People
<1>2. R.phase = "PLAYING" /\ R.players = room[r].players /\ R.host = room[r].host /\ R.groups = room[r].groups
  BY <1>1 DEF RoomRecs
<1>3. Change(r, R, GameStarted(r))
  BY DEF FriendStarts
<1>4. Announces(GameStarted(r), r, room[r], R) /\ GameStarted(r) \in Messages
  BY <1>1, <1>2, MessageTypes DEF Announces
<1>5. RoomMoves(r)
  <2>1. room'[r] = R
    BY <1>3 DEF Change, ServerTypes
  <2> QED BY <1>1, <1>2, <2>1 DEF RoomMoves, Onward
<1> HIDE DEF R
<1> QED BY <1>1, <1>3, <1>4, <1>5, ChangeMoves

LEMMA FriendScoreMoves ==
  ASSUME ServerTypes, SocketInv, NEW r \in Rooms, FriendScores(r)
  PROVE  ServerMoves
<1> DEFINE n == room[r].players["friend"] + 1
           R == [room[r] EXCEPT !.players["friend"] = n]
<1>1. /\ room[r].players["friend"] \in 0..(MaxPoints - 1) /\ MaxPoints \in Nat
      /\ room[r].phase = "PLAYING" /\ "friend" \in People /\ "me" \in People
      /\ room[r] \in RoomRecs /\ room[r].players \in PlayerLists
  BY RoomTypes, QueueAssumption DEF FriendScores, People, RoomRecs
<1>2. R \in RoomRecs
  <2>1. n \in 0..MaxPoints
    BY <1>1
  <2> HIDE DEF n
  <2> QED BY <1>1, <2>1, RoomTypes
<1>3. /\ R.phase = "PLAYING" /\ R.players["me"] = room[r].players["me"]
      /\ R.host = room[r].host /\ R.groups = room[r].groups
  BY <1>1 DEF RoomRecs, PlayerLists
<1>4. Change(r, R, Scores(r, R))
  BY DEF FriendScores
<1>5. Announces(Scores(r, R), r, room[r], R) /\ Scores(r, R) \in Messages
  BY <1>1, <1>2, <1>3, MessageTypes DEF Announces
<1>6. RoomMoves(r)
  <2>1. room'[r] = R
    BY <1>4 DEF Change, ServerTypes
  <2> QED BY <1>1, <1>3, <2>1 DEF RoomMoves, Onward
<1> HIDE DEF R
<1> QED BY <1>1, <1>2, <1>4, <1>5, <1>6, ChangeMoves

---------------------------------------------------------------------------
(* What is queued for a page that is in a room, q, leads it from what it   *)
(* shows (state gs, players pl, host h, groups d) to what the room is (R). *)
Shows(phase)  == IF phase = "WAITING" THEN "LOBBY" ELSE phase
Has(q, type)  == \E i \in 1..Len(q) : q[i].type = type
OnlyHas(q, type, from) == \A i \in from..Len(q) : q[i].type = type
Views == [gs : PageStates, pl : PlayerLists, h : People \cup {"none"}, d : SUBSET Groups]

\* Every message is of this room, with the phase its kind has.
OfRoom(q, c) ==
  \A i \in 1..Len(q) :
    /\ q[i].room = c /\ q[i].phase \in Running
    /\ q[i].type \in {"ROOM_STATE", "GAME_STARTED", "SCORE_UPDATE", "GAME_OVER"}
    /\ q[i].type \in {"GAME_STARTED", "SCORE_UPDATE"} => q[i].phase = "PLAYING"
    /\ q[i].type = "GAME_OVER" => q[i].phase = "FINISHED"

\* The last that sets the state sets it to the phase, and so for players.
PhaseArrives(q, R, v) ==
  /\ \A i \in 1..Len(q) : q[i].type # "SCORE_UPDATE" /\ OnlyHas(q, "SCORE_UPDATE", i + 1) => q[i].phase = R.phase
  /\ OnlyHas(q, "SCORE_UPDATE", 1) => v.gs = Shows(R.phase)
PlayersArrive(q, R, v) ==
  /\ \A i \in 1..Len(q) : q[i].type # "GAME_STARTED" /\ OnlyHas(q, "GAME_STARTED", i + 1) => q[i].players = R.players
  /\ OnlyHas(q, "GAME_STARTED", 1) => v.pl = R.players
FactsArrive(q, R, v) == Has(q, "ROOM_STATE") \/ (v.h = R.host /\ v.d = R.groups)

\* A page comes to a game by its start, or by entering the room after it;
\* the scores of a game follow.  A start comes to a lobby, once, after the
\* groups are known, and to a page that plays no game.
Game(m) == m.phase = "PLAYING" /\ m.type # "SCORE_UPDATE"
ScoresComeInGames(q, v) ==
  \A i \in 1..Len(q) : q[i].type = "SCORE_UPDATE" =>
    (\E j \in 1..i-1 : Game(q[j])) \/ v.gs = "PLAYING"
StartComesOnce(q, R, v) ==
  \A i \in 1..Len(q) : q[i].type = "GAME_STARTED" =>
    /\ (\E j \in 1..i-1 : q[j].type = "ROOM_STATE") \/ v.d = R.groups
    /\ R.phase # "WAITING" /\ v.gs # "PLAYING"
    /\ \A j \in 1..i-1 : q[j].phase = "WAITING"
GameIsKnown(q, R, v) == R.phase = "PLAYING" => (\E i \in 1..Len(q) : Game(q[i])) \/ v.gs = "PLAYING"
GroupsAreKnown(R, v) == v.gs = "PLAYING" => v.d = R.groups
LobbyComesBeforeStart(q, R) ==
  \A i \in 1..Len(q) : q[i].phase = "WAITING" /\ R.phase # "WAITING" =>
    \E j \in i+1..Len(q) : q[j].type = "GAME_STARTED"
OverIsOver(q, R) ==
  \A i \in 1..Len(q) : q[i].phase = "FINISHED" =>
    R.phase = "FINISHED" /\ \A j \in i+1..Len(q) : q[j].phase = "FINISHED"
LobbyIsQuiet(q, R, v) ==
  R.phase = "WAITING" => v.gs # "PLAYING" /\ \A i \in 1..Len(q) : q[i].phase = "WAITING"

Follows(q, c, R, v) ==
  /\ OfRoom(q, c)
  /\ PhaseArrives(q, R, v) /\ PlayersArrive(q, R, v) /\ FactsArrive(q, R, v)
  /\ ScoresComeInGames(q, v) /\ StartComesOnce(q, R, v)
  /\ GameIsKnown(q, R, v) /\ GroupsAreKnown(R, v)
  /\ LobbyComesBeforeStart(q, R) /\ OverIsOver(q, R) /\ LobbyIsQuiet(q, R, v)

(* One more message about the room, as the room moves from R to N.         *)
LEMMA OneMoreFollows ==
  ASSUME NEW q \in Seq(Messages), NEW m \in Messages, NEW c,
         NEW R \in RoomRecs, NEW N \in RoomRecs, NEW v \in Views,
         Follows(q, c, R, v), Announces(m, c, R, N), R.phase \in Running,
         N.host = R.host, N.groups = R.groups
  PROVE  Follows(Append(q, m), c, N, v)
<1> DEFINE T == Append(q, m)
           n == Len(q)
<1>1. /\ n \in Nat /\ Len(T) = n + 1 /\ T[n + 1] = m
      /\ \A i \in 1..n : T[i] = q[i]
  OBVIOUS
<1>2. /\ m.room = c /\ m.phase = N.phase
      /\ \/ m.type = "ROOM_STATE" /\ N.phase = R.phase /\ m.players = N.players
         \/ m.type = "GAME_STARTED" /\ R.phase = "WAITING" /\ N.phase = "PLAYING" /\ N.players = R.players
         \/ m.type = "SCORE_UPDATE" /\ R.phase = "PLAYING" /\ N.phase = "PLAYING" /\ m.players = N.players
         \/ m.type = "GAME_OVER" /\ R.phase = "PLAYING" /\ N.phase = "FINISHED" /\ m.players = N.players
  BY DEF Announces, RoomState, GameStarted, Scores, GameOver, Msg
<1> HIDE DEF T, n
<1>3. OfRoom(T, c)
  BY <1>1, <1>2 DEF Follows, OfRoom, n, Running
<1>4. PhaseArrives(T, N, v)
  <2>1. ASSUME NEW i \in 1..Len(T), T[i].type # "SCORE_UPDATE", OnlyHas(T, "SCORE_UPDATE", i + 1)
        PROVE  T[i].phase = N.phase
    <3>1. CASE i = n + 1
      BY <1>1, <1>2, <3>1
    <3>2. CASE i # n + 1
      <4>1. i \in 1..n /\ n + 1 \in i + 1..Len(T)
        BY <1>1, <3>2
      <4>2. m.type = "SCORE_UPDATE" /\ R.phase = N.phase
        BY <1>1, <1>2, <2>1, <4>1 DEF OnlyHas
      <4>3. OnlyHas(q, "SCORE_UPDATE", i + 1) /\ q[i].type # "SCORE_UPDATE"
        BY <1>1, <2>1, <4>1 DEF OnlyHas, n
      <4> QED BY <1>1, <4>1, <4>2, <4>3 DEF Follows, PhaseArrives, n
    <3> QED BY <3>1, <3>2
  <2>2. ASSUME OnlyHas(T, "SCORE_UPDATE", 1) PROVE v.gs = Shows(N.phase)
    <3>1. m.type = "SCORE_UPDATE" /\ R.phase = N.phase
      BY <1>1, <1>2, <2>2 DEF OnlyHas
    <3>2. OnlyHas(q, "SCORE_UPDATE", 1)
      BY <1>1, <2>2 DEF OnlyHas, n
    <3> QED BY <3>1, <3>2 DEF Follows, PhaseArrives
  <2> QED BY <2>1, <2>2 DEF PhaseArrives
<1>5. PlayersArrive(T, N, v)
  <2>1. ASSUME NEW i \in 1..Len(T), T[i].type # "GAME_STARTED", OnlyHas(T, "GAME_STARTED", i + 1)
        PROVE  T[i].players = N.players
    <3>1. CASE i = n + 1
      BY <1>1, <1>2, <2>1, <3>1
    <3>2. CASE i # n + 1
      <4>1. i \in 1..n /\ n + 1 \in i + 1..Len(T)
        BY <1>1, <3>2
      <4>2. m.type = "GAME_STARTED" /\ R.players = N.players
        BY <1>1, <1>2, <2>1, <4>1 DEF OnlyHas
      <4>3. OnlyHas(q, "GAME_STARTED", i + 1) /\ q[i].type # "GAME_STARTED"
        BY <1>1, <2>1, <4>1 DEF OnlyHas, n
      <4> QED BY <1>1, <4>1, <4>2, <4>3 DEF Follows, PlayersArrive, n
    <3> QED BY <3>1, <3>2
  <2>2. ASSUME OnlyHas(T, "GAME_STARTED", 1) PROVE v.pl = N.players
    <3>1. m.type = "GAME_STARTED" /\ R.players = N.players
      BY <1>1, <1>2, <2>2 DEF OnlyHas
    <3>2. OnlyHas(q, "GAME_STARTED", 1)
      BY <1>1, <2>2 DEF OnlyHas, n
    <3> QED BY <3>1, <3>2 DEF Follows, PlayersArrive
  <2> QED BY <2>1, <2>2 DEF PlayersArrive
<1>6. FactsArrive(T, N, v)
  <2>1. Has(q, "ROOM_STATE") => Has(T, "ROOM_STATE")
    BY <1>1 DEF Has, n
  <2> QED BY <2>1 DEF Follows, FactsArrive
<1>8. ScoresComeInGames(T, v)
  <2> SUFFICES ASSUME NEW i \in 1..Len(T), T[i].type = "SCORE_UPDATE"
               PROVE  (\E j \in 1..i-1 : Game(T[j])) \/ v.gs = "PLAYING"
    BY DEF ScoresComeInGames
  <2>1. CASE i = n + 1
    <3>1. R.phase = "PLAYING"
      BY <1>1, <1>2, <2>1
    <3>2. (\E j \in 1..n : Game(q[j])) \/ v.gs = "PLAYING"
      BY <3>1 DEF Follows, GameIsKnown, n
    <3> QED BY <1>1, <2>1, <3>2
  <2>2. CASE i # n + 1
    <3>1. i \in 1..n /\ T[i] = q[i] /\ \A j \in 1..i-1 : j \in 1..n
      BY <1>1, <2>2
    <3>2. (\E j \in 1..i-1 : Game(q[j])) \/ v.gs = "PLAYING"
      BY <3>1 DEF Follows, ScoresComeInGames, n
    <3> QED BY <1>1, <3>1, <3>2
  <2> QED BY <2>1, <2>2
<1>9. StartComesOnce(T, N, v)
  <2> SUFFICES ASSUME NEW i \in 1..Len(T), T[i].type = "GAME_STARTED"
               PROVE  /\ (\E j \in 1..i-1 : T[j].type = "ROOM_STATE") \/ v.d = N.groups
                      /\ N.phase # "WAITING" /\ v.gs # "PLAYING"
                      /\ \A j \in 1..i-1 : T[j].phase = "WAITING"
    BY DEF StartComesOnce
  <2>1. CASE i = n + 1
    <3>1. m.type = "GAME_STARTED" /\ R.phase = "WAITING" /\ N.phase = "PLAYING"
      BY <1>1, <1>2, <2>1
    <3>2. v.gs # "PLAYING" /\ \A j \in 1..n : q[j].phase = "WAITING"
      BY <3>1 DEF Follows, LobbyIsQuiet, n
    <3>3. Has(q, "ROOM_STATE") \/ v.d = R.groups
      BY DEF Follows, FactsArrive
    <3>4. (\E j \in 1..i-1 : T[j].type = "ROOM_STATE") \/ v.d = N.groups
      BY <1>1, <2>1, <3>3 DEF Has, n
    <3> QED BY <1>1, <2>1, <3>1, <3>2, <3>4
  <2>2. CASE i # n + 1
    <3>1. i \in 1..n /\ T[i] = q[i] /\ \A j \in 1..i-1 : j \in 1..n
      BY <1>1, <2>2
    <3>2. /\ (\E j \in 1..i-1 : q[j].type = "ROOM_STATE") \/ v.d = R.groups
          /\ R.phase # "WAITING" /\ v.gs # "PLAYING"
          /\ \A j \in 1..i-1 : q[j].phase = "WAITING"
      BY <3>1 DEF Follows, StartComesOnce, n
    <3> QED BY <1>1, <1>2, <3>1, <3>2
  <2> QED BY <2>1, <2>2
<1>10. GameIsKnown(T, N, v) /\ GroupsAreKnown(N, v)
  <2>1. GroupsAreKnown(N, v)
    BY DEF Follows, GroupsAreKnown
  <2>2. ASSUME N.phase = "PLAYING" PROVE (\E i \in 1..Len(T) : Game(T[i])) \/ v.gs = "PLAYING"
    <3>1. CASE m.type # "SCORE_UPDATE"
      <4>1. Game(T[n + 1])
        BY <1>1, <1>2, <2>2, <3>1 DEF Game
      <4> QED BY <1>1, <4>1
    <3>2. CASE m.type = "SCORE_UPDATE"
      <4>1. (\E i \in 1..n : Game(q[i])) \/ v.gs = "PLAYING"
        BY <1>2, <3>2 DEF Follows, GameIsKnown, n
      <4> QED BY <1>1, <4>1
    <3> QED BY <3>1, <3>2
  <2> QED BY <2>1, <2>2 DEF GameIsKnown
<1>11. LobbyComesBeforeStart(T, N)
  <2> SUFFICES ASSUME NEW i \in 1..Len(T), T[i].phase = "WAITING", N.phase # "WAITING"
               PROVE  \E j \in i+1..Len(T) : T[j].type = "GAME_STARTED"
    BY DEF LobbyComesBeforeStart
  <2>1. i \in 1..n
    BY <1>1, <1>2
  <2>2. CASE R.phase = "WAITING"
    BY <1>1, <1>2, <2>1, <2>2
  <2>3. CASE R.phase # "WAITING"
    <3>1. PICK j \in i+1..n : q[j].type = "GAME_STARTED"
      BY <1>1, <2>1, <2>3 DEF Follows, LobbyComesBeforeStart, n
    <3> QED BY <1>1, <2>1, <3>1
  <2> QED BY <2>2, <2>3
<1>12. OverIsOver(T, N)
  <2> SUFFICES ASSUME NEW i \in 1..Len(T), T[i].phase = "FINISHED"
               PROVE  N.phase = "FINISHED" /\ \A j \in i+1..Len(T) : T[j].phase = "FINISHED"
    BY DEF OverIsOver
  <2>1. CASE i = n + 1
    BY <1>1, <1>2, <2>1
  <2>2. CASE i # n + 1
    <3>1. i \in 1..n /\ q[i].phase = "FINISHED"
      BY <1>1, <2>2
    <3>2. R.phase = "FINISHED" /\ \A j \in i+1..n : q[j].phase = "FINISHED"
      BY <3>1 DEF Follows, OverIsOver, n
    <3>3. N.phase = "FINISHED"
      BY <1>2, <3>2
    <3> QED BY <1>1, <1>2, <3>1, <3>2, <3>3
  <2> QED BY <2>1, <2>2
<1>13. LobbyIsQuiet(T, N, v)
  <2>1. N.phase = "WAITING" => R.phase = "WAITING"
    BY <1>2
  <2>2. R.phase = "WAITING" => v.gs # "PLAYING" /\ \A i \in 1..n : q[i].phase = "WAITING"
    BY DEF Follows, LobbyIsQuiet, n
  <2> QED BY <1>1, <1>2, <2>1, <2>2 DEF LobbyIsQuiet
<1> QED BY <1>3, <1>4, <1>5, <1>6, <1>8, <1>9, <1>10, <1>11, <1>12, <1>13 DEF Follows, T

(* The room that a page has just come to: one message tells it all.        *)
LEMMA FirstFollows ==
  ASSUME NEW c, NEW R \in RoomRecs, NEW v \in Views, R.phase \in Running, v.gs # "PLAYING"
  PROVE  Follows(Append(<<>>, RoomState(c, R)), c, R, v)
<1> DEFINE q == Append(<<>>, RoomState(c, R))
<1>1. Len(q) = 1 /\ q[1] = RoomState(c, R)
  OBVIOUS
<1>2. q[1].type = "ROOM_STATE" /\ q[1].room = c /\ q[1].phase = R.phase /\ q[1].players = R.players
  BY <1>1 DEF RoomState, Msg
<1> HIDE DEF q
<1>3. OfRoom(q, c)
  BY <1>1, <1>2 DEF OfRoom, Running
<1>4. PhaseArrives(q, R, v) /\ PlayersArrive(q, R, v) /\ FactsArrive(q, R, v)
  BY <1>1, <1>2 DEF PhaseArrives, PlayersArrive, FactsArrive, OnlyHas, Has
<1>5. ScoresComeInGames(q, v) /\ StartComesOnce(q, R, v) /\ GameIsKnown(q, R, v) /\ GroupsAreKnown(R, v)
  BY <1>1, <1>2 DEF ScoresComeInGames, StartComesOnce, GameIsKnown, GroupsAreKnown, Game
<1>6. LobbyComesBeforeStart(q, R) /\ OverIsOver(q, R) /\ LobbyIsQuiet(q, R, v)
  BY <1>1, <1>2 DEF LobbyComesBeforeStart, OverIsOver, LobbyIsQuiet
<1> QED BY <1>3, <1>4, <1>5, <1>6 DEF Follows, q

(* What the page shows after the first message of its queue.               *)
After(m, R, v) ==
  [gs |-> IF m.type = "SCORE_UPDATE" THEN v.gs ELSE Shows(m.phase),
   pl |-> IF m.type = "GAME_STARTED" THEN v.pl ELSE m.players,
   h  |-> IF m.type = "ROOM_STATE" THEN R.host ELSE v.h,
   d  |-> IF m.type = "ROOM_STATE" THEN R.groups ELSE v.d]

LEMMA OneLessFollows ==
  ASSUME NEW q \in Seq(Messages), q # <<>>, NEW c, NEW R \in RoomRecs, NEW v \in Views,
         Follows(q, c, R, v)
  PROVE  /\ After(q[1], R, v) \in Views
         /\ Follows(Tail(q), c, R, After(q[1], R, v))
         /\ q[1].type = "GAME_STARTED" => v.d = R.groups /\ R.phase # "WAITING"
         /\ v.gs = "PLAYING" /\ After(q[1], R, v).gs # "PLAYING" =>
              \A i \in 1..Len(Tail(q)) : ~Game(Tail(q)[i])
<1> DEFINE T == Tail(q)
           n == Len(q)
           m == q[1]
           w == After(m, R, v)
<1>1. /\ n \in Nat \ {0} /\ Len(T) = n - 1 /\ m \in Messages /\ T \in Seq(Messages)
      /\ \A i \in 1..n-1 : T[i] = q[i + 1] /\ i + 1 \in 1..n
      /\ \A i \in 2..n : i - 1 \in 1..n-1 /\ T[i - 1] = q[i]
  OBVIOUS
<1>2. /\ m.room = c /\ m.phase \in Running
      /\ m.type \in {"ROOM_STATE", "GAME_STARTED", "SCORE_UPDATE", "GAME_OVER"}
      /\ m.type \in {"GAME_STARTED", "SCORE_UPDATE"} => m.phase = "PLAYING"
      /\ m.type = "GAME_OVER" => m.phase = "FINISHED"
  BY <1>1 DEF Follows, OfRoom
<1>3. /\ w.gs = IF m.type = "SCORE_UPDATE" THEN v.gs ELSE Shows(m.phase)
      /\ w.pl = IF m.type = "GAME_STARTED" THEN v.pl ELSE m.players
      /\ w.h  = IF m.type = "ROOM_STATE" THEN R.host ELSE v.h
      /\ w.d  = IF m.type = "ROOM_STATE" THEN R.groups ELSE v.d
      /\ w \in Views
  <2>1. /\ Shows(m.phase) \in PageStates /\ m.players \in PlayerLists
        /\ R.host \in People \cup {"none"} /\ R.groups \in SUBSET Groups
    BY <1>1, <1>2 DEF Messages, RoomRecs, Shows, PageStates, Running
  <2> QED BY <2>1 DEF After, Views
<1> HIDE DEF T, n, m, w
<1>4. OfRoom(T, c)
  BY <1>1 DEF Follows, OfRoom, n
<1>5. PhaseArrives(T, R, w)
  <2>1. ASSUME NEW i \in 1..Len(T), T[i].type # "SCORE_UPDATE", OnlyHas(T, "SCORE_UPDATE", i + 1)
        PROVE  T[i].phase = R.phase
    <3>1. i + 1 \in 1..n /\ T[i] = q[i + 1]
      BY <1>1
    <3>2. \A j \in (i + 1) + 1..n : j - 1 \in i + 1..Len(T) /\ q[j] = T[j - 1]
      BY <1>1
    <3>3. OnlyHas(q, "SCORE_UPDATE", (i + 1) + 1)
      BY <2>1, <3>2 DEF OnlyHas, n
    <3> QED BY <2>1, <3>1, <3>3 DEF Follows, PhaseArrives, n
  <2>2. ASSUME OnlyHas(T, "SCORE_UPDATE", 1) PROVE w.gs = Shows(R.phase)
    <3>1. OnlyHas(q, "SCORE_UPDATE", 1 + 1)
      BY <1>1, <2>2 DEF OnlyHas, n
    <3>2. CASE m.type = "SCORE_UPDATE"
      <4>1. OnlyHas(q, "SCORE_UPDATE", 1)
        BY <1>1, <3>1, <3>2 DEF OnlyHas, n, m
      <4> QED BY <1>3, <3>2, <4>1 DEF Follows, PhaseArrives
    <3>3. CASE m.type # "SCORE_UPDATE"
      BY <1>1, <1>3, <3>1, <3>3 DEF Follows, PhaseArrives, n, m
    <3> QED BY <3>2, <3>3
  <2> QED BY <2>1, <2>2 DEF PhaseArrives
<1>6. PlayersArrive(T, R, w)
  <2>1. ASSUME NEW i \in 1..Len(T), T[i].type # "GAME_STARTED", OnlyHas(T, "GAME_STARTED", i + 1)
        PROVE  T[i].players = R.players
    <3>1. i + 1 \in 1..n /\ T[i] = q[i + 1]
      BY <1>1
    <3>2. \A j \in (i + 1) + 1..n : j - 1 \in i + 1..Len(T) /\ q[j] = T[j - 1]
      BY <1>1
    <3>3. OnlyHas(q, "GAME_STARTED", (i + 1) + 1)
      BY <2>1, <3>2 DEF OnlyHas, n
    <3> QED BY <2>1, <3>1, <3>3 DEF Follows, PlayersArrive, n
  <2>2. ASSUME OnlyHas(T, "GAME_STARTED", 1) PROVE w.pl = R.players
    <3>1. OnlyHas(q, "GAME_STARTED", 1 + 1)
      BY <1>1, <2>2 DEF OnlyHas, n
    <3>2. CASE m.type = "GAME_STARTED"
      <4>1. OnlyHas(q, "GAME_STARTED", 1)
        BY <1>1, <3>1, <3>2 DEF OnlyHas, n, m
      <4> QED BY <1>3, <3>2, <4>1 DEF Follows, PlayersArrive
    <3>3. CASE m.type # "GAME_STARTED"
      BY <1>1, <1>3, <3>1, <3>3 DEF Follows, PlayersArrive, n, m
    <3> QED BY <3>2, <3>3
  <2> QED BY <2>1, <2>2 DEF PlayersArrive
<1>7. FactsArrive(T, R, w)
  <2>1. Has(q, "ROOM_STATE") => m.type = "ROOM_STATE" \/ Has(T, "ROOM_STATE")
    <3> SUFFICES ASSUME NEW i \in 1..n, q[i].type = "ROOM_STATE", m.type # "ROOM_STATE"
                 PROVE  Has(T, "ROOM_STATE")
      BY DEF Has, n
    <3>1. i \in 2..n
      BY <1>1 DEF m
    <3> QED BY <1>1, <3>1 DEF Has
  <2> QED BY <1>3, <2>1 DEF Follows, FactsArrive
<1>8. ASSUME v.gs = "PLAYING", m.phase = "WAITING" PROVE FALSE
  <2>1. R.phase # "WAITING"
    BY <1>8 DEF Follows, LobbyIsQuiet
  <2>2. \E j \in 2..n : q[j].type = "GAME_STARTED"
    BY <1>1, <1>8, <2>1 DEF Follows, LobbyComesBeforeStart, n, m
  <2> QED BY <1>1, <1>8, <2>2 DEF Follows, StartComesOnce, n
<1>9. v.gs = "PLAYING" /\ m.phase # "FINISHED" => w.gs = "PLAYING"
  BY <1>2, <1>3, <1>8 DEF Shows, Running
<1>10. m.type = "GAME_STARTED" => v.d = R.groups /\ R.phase # "WAITING"
  BY <1>1 DEF Follows, StartComesOnce, n, m
<1>11. ScoresComeInGames(T, w)
  <2> SUFFICES ASSUME NEW i \in 1..Len(T), T[i].type = "SCORE_UPDATE"
               PROVE  (\E j \in 1..i-1 : Game(T[j])) \/ w.gs = "PLAYING"
    BY DEF ScoresComeInGames
  <2>1. i + 1 \in 2..n /\ T[i] = q[i + 1] /\ q[i + 1].phase = "PLAYING"
    BY <1>1 DEF Follows, OfRoom, n
  <2>2. CASE \E j \in 1..i : Game(q[j])
    <3>1. PICK j \in 1..i : Game(q[j])
      BY <2>2
    <3>2. CASE j = 1
      BY <1>3, <3>1, <3>2 DEF m, Game, Shows
    <3>3. CASE j # 1
      <4>1. j \in 2..n /\ j - 1 \in 1..i-1
        BY <1>1, <2>1, <3>3
      <4> QED BY <1>1, <3>1, <4>1
    <3> QED BY <3>2, <3>3
  <2>3. CASE v.gs = "PLAYING"
    <3>1. m.phase = "FINISHED" => \A j \in 1 + 1..n : q[j].phase = "FINISHED"
      <4>1. 1 \in 1..n
        BY <1>1
      <4> QED BY <4>1 DEF Follows, OverIsOver, n, m
    <3> QED BY <1>9, <2>1, <2>3, <3>1
  <2>4. (\E j \in 1..(i+1)-1 : Game(q[j])) \/ v.gs = "PLAYING"
    BY <1>1, <2>1 DEF Follows, ScoresComeInGames, n
  <2> QED BY <2>2, <2>3, <2>4
<1>12. StartComesOnce(T, R, w)
  <2> SUFFICES ASSUME NEW i \in 1..Len(T), T[i].type = "GAME_STARTED"
               PROVE  /\ (\E j \in 1..i-1 : T[j].type = "ROOM_STATE") \/ w.d = R.groups
                      /\ R.phase # "WAITING" /\ w.gs # "PLAYING"
                      /\ \A j \in 1..i-1 : T[j].phase = "WAITING"
    BY DEF StartComesOnce
  <2>1. i + 1 \in 2..n /\ T[i] = q[i + 1] /\ (i + 1) - 1 = i /\ 1 \in 1..i
    BY <1>1
  <2>2. /\ (\E j \in 1..i : q[j].type = "ROOM_STATE") \/ v.d = R.groups
        /\ R.phase # "WAITING"
        /\ \A j \in 1..i : q[j].phase = "WAITING"
    BY <1>1, <2>1 DEF Follows, StartComesOnce, n
  <2>3. (\E j \in 1..i-1 : T[j].type = "ROOM_STATE") \/ w.d = R.groups
    <3>1. CASE \E j \in 1..i : q[j].type = "ROOM_STATE"
      <4>1. PICK j \in 1..i : q[j].type = "ROOM_STATE"
        BY <3>1
      <4>2. CASE j = 1
        BY <1>3, <4>1, <4>2 DEF m
      <4>3. CASE j # 1
        <5>1. j \in 2..n /\ j - 1 \in 1..i-1
          BY <1>1, <2>1, <4>3
        <5> QED BY <1>1, <4>1, <5>1
      <4> QED BY <4>2, <4>3
    <3>2. CASE v.d = R.groups
      BY <1>3, <3>2
    <3> QED BY <2>2, <3>1, <3>2
  <2>4. w.gs # "PLAYING"
    <3>1. m.phase = "WAITING"
      BY <2>1, <2>2 DEF m
    <3> QED BY <1>2, <1>3, <3>1 DEF Shows
  <2>5. \A j \in 1..i-1 : T[j].phase = "WAITING"
    <3> TAKE j \in 1..i-1
    <3>1. j + 1 \in 1..i /\ T[j] = q[j + 1]
      BY <1>1
    <3> QED BY <2>2, <3>1
  <2> QED BY <2>2, <2>3, <2>4, <2>5
<1>13. GameIsKnown(T, R, w) /\ GroupsAreKnown(R, w)
  <2>1. GroupsAreKnown(R, w)
    <3>1. v.gs = "PLAYING" => v.d = R.groups
      BY DEF Follows, GroupsAreKnown
    <3> QED BY <1>2, <1>3, <1>10, <3>1 DEF GroupsAreKnown, Shows
  <2>2. ASSUME R.phase = "PLAYING" PROVE (\E i \in 1..Len(T) : Game(T[i])) \/ w.gs = "PLAYING"
    <3>1. (\E i \in 1..n : Game(q[i])) \/ v.gs = "PLAYING"
      BY <2>2 DEF Follows, GameIsKnown, n
    <3>2. CASE \E i \in 1..n : Game(q[i])
      <4>1. PICK i \in 1..n : Game(q[i])
        BY <3>2
      <4>2. CASE i = 1
        BY <1>3, <4>1, <4>2 DEF m, Game, Shows
      <4>3. CASE i # 1
        <5>1. i \in 2..n
          BY <1>1, <4>3
        <5> QED BY <1>1, <4>1, <5>1
      <4> QED BY <4>2, <4>3
    <3>3. CASE v.gs = "PLAYING"
      <4>1. m.phase # "FINISHED"
        BY <1>1, <2>2 DEF Follows, OverIsOver, n, m
      <4> QED BY <1>9, <3>3, <4>1
    <3> QED BY <3>1, <3>2, <3>3
  <2> QED BY <2>1, <2>2 DEF GameIsKnown
<1>14. LobbyComesBeforeStart(T, R)
  <2> SUFFICES ASSUME NEW i \in 1..Len(T), T[i].phase = "WAITING", R.phase # "WAITING"
               PROVE  \E j \in i+1..Len(T) : T[j].type = "GAME_STARTED"
    BY DEF LobbyComesBeforeStart
  <2>1. i + 1 \in 2..n /\ T[i] = q[i + 1]
    BY <1>1
  <2>2. PICK j \in (i+1)+1..n : q[j].type = "GAME_STARTED"
    BY <1>1, <2>1 DEF Follows, LobbyComesBeforeStart, n
  <2>3. j \in 2..n /\ j - 1 \in i+1..Len(T)
    BY <1>1, <2>1
  <2> QED BY <1>1, <2>2, <2>3
<1>15. OverIsOver(T, R)
  <2> SUFFICES ASSUME NEW i \in 1..Len(T), T[i].phase = "FINISHED"
               PROVE  R.phase = "FINISHED" /\ \A j \in i+1..Len(T) : T[j].phase = "FINISHED"
    BY DEF OverIsOver
  <2>1. i + 1 \in 1..n /\ T[i] = q[i + 1]
    BY <1>1
  <2>2. R.phase = "FINISHED" /\ \A j \in (i+1)+1..n : q[j].phase = "FINISHED"
    BY <1>1, <2>1 DEF Follows, OverIsOver, n
  <2>3. ASSUME NEW j \in i+1..Len(T) PROVE T[j].phase = "FINISHED"
    <3>1. j + 1 \in (i+1)+1..n /\ T[j] = q[j + 1]
      BY <1>1, <2>1
    <3> QED BY <2>2, <3>1
  <2> QED BY <2>2, <2>3
<1>16. LobbyIsQuiet(T, R, w)
  <2> SUFFICES ASSUME R.phase = "WAITING"
               PROVE  w.gs # "PLAYING" /\ \A i \in 1..Len(T) : T[i].phase = "WAITING"
    BY DEF LobbyIsQuiet
  <2>1. v.gs # "PLAYING" /\ \A i \in 1..n : q[i].phase = "WAITING"
    BY DEF Follows, LobbyIsQuiet, n
  <2>2. m.phase = "WAITING"
    BY <1>1, <2>1 DEF m
  <2> QED BY <1>1, <1>2, <1>3, <2>1, <2>2 DEF Shows
<1>17. ASSUME v.gs = "PLAYING", w.gs # "PLAYING", NEW i \in 1..Len(T) PROVE ~Game(T[i])
  <2>1. m.phase = "FINISHED"
    BY <1>9, <1>17
  <2>2. 1 \in 1..n /\ i + 1 \in 1 + 1..n /\ T[i] = q[i + 1]
    BY <1>1
  <2>3. q[i + 1].phase = "FINISHED"
    BY <2>1, <2>2 DEF Follows, OverIsOver, n, m
  <2> QED BY <2>2, <2>3 DEF Game
<1> QED BY <1>3, <1>4, <1>5, <1>6, <1>7, <1>10, <1>11, <1>12, <1>13, <1>14, <1>15, <1>16, <1>17
        DEF Follows, T, m, w

view == [gs |-> gameState, pl |-> players, h |-> hostId, d |-> definitions]

PageTypes ==
  /\ route \in {"practice", "landing", "battle", "away"} /\ strayed \subseteq Codes
  /\ user \in BOOLEAN /\ muddled \in BOOLEAN /\ carried \in BOOLEAN
  /\ gameState \in PageStates /\ players \in PlayerLists /\ hostId \in People \cup {"none"}
  /\ definitions \subseteq Groups
  /\ index \in Nat /\ score \in 0..MaxPoints
  /\ code \in Codes /\ current \in Sockets \cup {0}

\* The socket the page has, and the page of each socket.
CurrentInv ==
  /\ route = "battle" <=> current # 0
  /\ current # 0 => user
  /\ current # 0 => sock[current].at # "idle"
  /\ current # 0 /\ sock[current].at # "gone" => sock[current].mine /\ sock[current].code = code
  /\ current = 0 => code = NoRoom /\ ~muddled /\ gameState = "CONNECTING"
  /\ current = 0 => \A s \in Sockets : sock[s].out = <<>> /\ (sock[s].mine => sock[s].at = "gone")

\* An open socket asks to join, or waits for the room to take it in, was
\* refused, or is in the room and the page follows it.
Joining(S, gs)     == S.in = NoRoom /\ S.out = <<>> /\
                      (Joins(S) \/ (S.joining # NoRoom /\ gs # "PLAYING"))
Refused(S, gs)     == S.in = NoRoom /\ S.joining = NoRoom /\ ~Joins(S) /\
                      (S.out = Append(<<>>, ErrorMsg) \/ (S.out = <<>> /\ gs = "ERROR"))
Member(S, c, R, v) == S.in = c /\ c \in Rooms /\ ~Joins(S) /\ Follows(S.out, c, R, v)

\* What is queued for a page, of whatever room, is of a room that has begun.
Meant(q) == \A i \in 1..Len(q) : q[i].type # "ERROR" => q[i].room \in Rooms /\ q[i].phase \in Running
QueueInv == \A s \in Sockets : Meant(sock[s].out)

Begun == {"PLAYING", "FINISHED", "gone"}

FollowInv ==
  current # 0 /\ ~muddled /\ sock[current].at = "open" =>
    \/ Joining(sock[current], gameState)
    \/ Refused(sock[current], gameState)
    \/ Member(sock[current], code, room[code], view)

PlayInv ==
  gameState = "PLAYING" /\ ~muddled =>
    /\ definitions # {} /\ (~carried => index < PoolSize(definitions))
    /\ code \in Rooms /\ room[code].phase \in Begun

\* Scores are sent in games, by the page that is in the game.
Pending(S) == Has(S.inbox, "SUBMIT_SCORE")
PendingInv ==
  /\ \A s \in Sockets : Pending(sock[s]) /\ sock[s].code \notin strayed =>
       sock[s].code \in Rooms /\ room[sock[s].code].phase \in Begun
  /\ \A s \in Sockets \ {current} : current # 0 /\ Pending(sock[s]) /\ sock[s].code \notin strayed =>
       sock[s].code \notin {sock[current].in, sock[current].joining}

\* No score of mine in room c, and none on its way.
Unscored(c) ==
  /\ room[c].players["me"] <= 0
  /\ \A s \in Sockets : sock[s].code = c => ~Pending(sock[s])

\* The page is about to play: a game is on its way, or the room may start
\* before it lets the page in.
Arrives(S) == S.joining # NoRoom \/ \E i \in 1..Len(S.out) : Game(S.out[i])

ScoreInv ==
  current # 0 /\ ~muddled /\ sock[current].at = "open"
  /\ code \in {sock[current].in, sock[current].joining} /\ code \in Rooms /\ code \notin strayed =>
       /\ gameState = "PLAYING" =>
            /\ room[code].players["me"] <= score
            /\ \A i \in 1..Len(sock[current].inbox) :
                 sock[current].inbox[i].type = "SUBMIT_SCORE" => sock[current].inbox[i].score <= score
       /\ gameState # "PLAYING" /\ Arrives(sock[current]) => Unscored(code)

BattleInv ==
  /\ ServerTypes /\ PageTypes /\ SocketInv /\ RoomInv /\ QueueInv
  /\ CurrentInv /\ FollowInv /\ PlayInv /\ PendingInv /\ ScoreInv

---------------------------------------------------------------------------
(* What the steps of the server preserve.                                  *)
LEMMA ServerSteps ==
  ASSUME ServerTypes, SocketInv, Server
  PROVE  ServerMoves /\ UNCHANGED <<practiceVars, landingVars, pageVars, route, strayed>>
<1>1. CASE \E s \in Sockets : ServerReads(s)
  <2>1. PICK s \in Sockets : ServerReads(s)
    BY <1>1
  <2> QED BY <2>1, RefuseMoves, CheckMoves, RegisterMoves, IgnoreMoves, StartMoves, ScoreMoves, ReleaseMoves DEF ServerReads, Server
<1>2. CASE \E r \in Rooms : RoomStep(r)
  <2>1. PICK r \in Rooms : RoomStep(r)
    BY <1>2
  <2> QED BY <2>1, EndMoves, ExpiryMoves, FriendCreationMoves, FriendJoinMoves, FriendLeaveMoves,
             FriendStartMoves, FriendScoreMoves DEF RoomStep, Server
<1> QED BY <1>1, <1>2 DEF Server

LEMMA TailOfOrders ==
  ASSUME NEW q \in Seq(Orders), q # <<>>
  PROVE  /\ Len(q) \in Nat \ {0} /\ Len(Tail(q)) = Len(q) - 1 /\ Head(q) = q[1]
         /\ \A i \in 1..Len(Tail(q)) : i + 1 \in 2..Len(q) /\ Tail(q)[i] = q[i + 1]
         /\ Tail(q) # <<>> => Head(Tail(q)) = q[2] /\ 2 \in 2..Len(q)
OBVIOUS

LEMMA ServerKeepsRooms ==
  ASSUME ServerTypes, RoomInv, \A r \in Rooms : RoomMoves(r)
  PROVE  RoomInv'
<1> SUFFICES ASSUME NEW r \in Rooms
             PROVE  /\ room'[r].phase # "none" => room'[r].groups # {}
                    /\ room'[r].phase \in {"none", "WAITING"} => room'[r].players["me"] <= 0
  BY DEF RoomInv
<1>1. RoomMoves(r) /\ (room[r].phase # "none" => room[r].groups # {})
      /\ (room[r].phase \in {"none", "WAITING"} => room[r].players["me"] <= 0)
  BY DEF RoomInv
<1>2. room'[r].phase # "none" => room'[r].groups # {}
  BY <1>1 DEF RoomMoves
<1>3. room'[r].phase \in {"none", "WAITING"} => room[r].phase \in {"none", "WAITING"}
  BY <1>1 DEF RoomMoves, Onward, Running
<1> QED BY <1>1, <1>2, <1>3 DEF RoomMoves

LEMMA ServerKeepsSockets ==
  ASSUME ServerTypes, SocketInv, ServerMoves
  PROVE  SocketInv'
<1> SUFFICES ASSUME NEW s \in Sockets
             PROVE  LET S == sock'[s] IN
                    /\ S.at \in {"idle", "connecting", "gone"} =>
                         S.joining = NoRoom /\ S.in = NoRoom /\ S.inbox = <<>> /\ S.out = <<>>
                    /\ S.at # "open" => S.out = <<>>
                    /\ S.in # NoRoom => S.in = S.code /\ room'[S.in].phase \in Running
                    /\ S.joining # NoRoom =>
                         /\ S.joining = S.code /\ S.in = NoRoom /\ ~Joins(S) /\ S.out = <<>>
                         /\ S.joining \in Rooms /\ room'[S.joining].phase # "none"
                    /\ \A i \in 2..Len(S.inbox) : S.inbox[i].type # "JOIN_ROOM"
                    /\ Joins(S) => S.in = NoRoom /\ S.out = <<>>
                    /\ Len(S.inbox) <= MaxPending /\ Len(S.out) <= MaxQueue
  BY DEF SocketInv, Joins
<1> DEFINE S == sock[s]
           T == sock'[s]
<1>1. /\ S \in SocketRecs /\ T \in SocketRecs /\ SocketMoves(S, T)
      /\ MaxQueue \in Nat /\ MaxPending \in Nat
  BY QueueAssumption DEF ServerMoves, ServerTypes
<1>2. /\ S.at \in {"idle", "connecting", "gone"} =>
           S.joining = NoRoom /\ S.in = NoRoom /\ S.inbox = <<>> /\ S.out = <<>>
      /\ S.at # "open" => S.out = <<>>
      /\ S.in # NoRoom => S.in = S.code /\ room[S.in].phase \in Running
      /\ S.joining # NoRoom =>
           /\ S.joining = S.code /\ S.in = NoRoom /\ ~Joins(S) /\ S.out = <<>>
           /\ S.joining \in Rooms /\ room[S.joining].phase # "none"
      /\ \A i \in 2..Len(S.inbox) : S.inbox[i].type # "JOIN_ROOM"
      /\ Joins(S) => S.in = NoRoom /\ S.out = <<>>
      /\ Len(S.inbox) <= MaxPending /\ Len(S.out) <= MaxQueue
  BY DEF SocketInv
<1>3. S.in \in Codes /\ T.in \in Codes /\ S.inbox \in Seq(Orders) /\ T.inbox \in Seq(Orders)
  BY <1>1 DEF SocketRecs
<1>4. ASSUME Takes(S, T)
      PROVE  /\ \A i \in 2..Len(T.inbox) : T.inbox[i].type # "JOIN_ROOM"
             /\ ~Joins(T) /\ Len(T.inbox) <= MaxPending
  BY <1>1, <1>2, <1>3, <1>4, TailOfOrders DEF Takes, Joins
<1>5. T.in # NoRoom => room'[T.in].phase \in Running
  <2> SUFFICES ASSUME T.in # NoRoom PROVE room'[T.in].phase \in Running
    OBVIOUS
  <2>1. T.in \in Rooms /\ RoomMoves(T.in)
    BY <1>3 DEF Codes, ServerMoves
  <2>2. CASE T.in = S.in
    <3>1. room[T.in].phase \in Running
      BY <1>2, <2>2
    <3>2. room'[T.in].phase # "gone"
      BY <2>1, <3>1 DEF RoomMoves, Running
    <3> QED BY <2>1, <3>1, <3>2 DEF RoomMoves, Onward, Running
  <2>3. CASE T.in # S.in
    <3>1. Registers(S, T)
      BY <1>1, <2>1, <2>3, RoomAssumption DEF SocketMoves, Keeps, Checks
    <3> QED BY <3>1 DEF Registers
  <2> QED BY <2>2, <2>3
<1>6. ASSUME NEW r \in Rooms, room[r].phase # "none" PROVE room'[r].phase # "none"
  BY <1>6 DEF ServerMoves, RoomMoves, Onward, Running
<1> SUFFICES /\ T.at \in {"idle", "connecting", "gone"} =>
                  T.joining = NoRoom /\ T.in = NoRoom /\ T.inbox = <<>> /\ T.out = <<>>
             /\ T.at # "open" => T.out = <<>>
             /\ T.in # NoRoom => T.in = T.code
             /\ T.joining # NoRoom =>
                  /\ T.joining = T.code /\ T.in = NoRoom /\ ~Joins(T) /\ T.out = <<>>
                  /\ T.joining \in Rooms /\ room'[T.joining].phase # "none"
             /\ \A i \in 2..Len(T.inbox) : T.inbox[i].type # "JOIN_ROOM"
             /\ Joins(T) => T.in = NoRoom /\ T.out = <<>>
             /\ Len(T.inbox) <= MaxPending /\ Len(T.out) <= MaxQueue
  BY <1>5
<1> HIDE DEF S, T
<1>7. CASE /\ S.at = "closed" /\ S.inbox = <<>> /\ S.joining = NoRoom
           /\ T.at = "gone" /\ T.joining = NoRoom /\ T.in = NoRoom /\ T.inbox = <<>> /\ T.out = <<>>
  BY <1>1, <1>7 DEF Joins
<1>8. CASE /\ T.at = S.at /\ T.code = S.code /\ T.mine = S.mine
           /\ \/ T.inbox = S.inbox /\ Keeps(S, T) /\ (S.in = NoRoom => T.out = S.out)
              \/ Takes(S, T) /\ Keeps(S, T) /\ S.joining = NoRoom
              \/ Checks(S, T)
              \/ Registers(S, T)
           /\ T.out = S.out \/ (S.at = "open" /\ S.mine /\ Len(T.out) <= MaxQueue)
  <2>1. T.at # "open" => T.out = <<>>
    BY <1>2, <1>8
  <2>2. S.at \in {"idle", "connecting", "gone"} => ~Takes(S, T) /\ ~Joins(S) /\ ~Registers(S, T)
    BY <1>2 DEF Takes, Joins, Registers
  <2>3. T.at \in {"idle", "connecting", "gone"} =>
          T.joining = NoRoom /\ T.in = NoRoom /\ T.inbox = <<>> /\ T.out = <<>>
    BY <1>2, <1>8, <2>1, <2>2 DEF Keeps, Checks
  <2>4. T.in # NoRoom => T.in = T.code
    BY <1>2, <1>8 DEF Keeps, Checks, Registers
  <2>5. (\A i \in 2..Len(T.inbox) : T.inbox[i].type # "JOIN_ROOM") /\ Len(T.inbox) <= MaxPending
    BY <1>2, <1>4, <1>8 DEF Checks, Registers
  <2>6. Joins(T) => T.in = NoRoom /\ T.out = <<>>
    BY <1>2, <1>4, <1>8 DEF Joins, Keeps, Checks, Registers
  <2>7. Len(T.out) <= MaxQueue
    BY <1>2, <1>8
  <2>8. ASSUME T.joining # NoRoom
        PROVE  /\ T.joining = T.code /\ T.in = NoRoom /\ ~Joins(T) /\ T.out = <<>>
               /\ T.joining \in Rooms /\ room'[T.joining].phase # "none"
    <3>1. CASE Checks(S, T)
      BY <1>2, <1>4, <1>8, <3>1 DEF Checks
    <3>2. CASE ~Checks(S, T)
      <4>1. T.inbox = S.inbox /\ Keeps(S, T) /\ T.out = S.out /\ S.joining # NoRoom
        BY <1>2, <1>8, <2>8, <3>2 DEF Keeps, Registers
      <4> QED BY <1>2, <1>6, <1>8, <4>1 DEF Keeps, Joins
    <3> QED BY <3>1, <3>2
  <2> QED BY <2>1, <2>3, <2>4, <2>5, <2>6, <2>7, <2>8
<1> QED BY <1>1, <1>7, <1>8 DEF SocketMoves

LEMMA ServerKeepsCurrent ==
  ASSUME ServerTypes, PageTypes, SocketInv, CurrentInv, ServerMoves, UNCHANGED <<pageVars, route>>
  PROVE  CurrentInv'
<1>1. ASSUME current # 0
      PROVE  /\ sock'[current].at # "idle"
             /\ sock'[current].at # "gone" => sock'[current].mine /\ sock'[current].code = code
  <2>1. current \in Sockets /\ SocketMoves(sock[current], sock'[current])
    BY <1>1 DEF PageTypes, ServerMoves
  <2>2. /\ sock[current].at # "idle"
        /\ sock[current].at # "gone" => sock[current].mine /\ sock[current].code = code
    BY <1>1 DEF CurrentInv
  <2> QED BY <2>1, <2>2 DEF SocketMoves
<1>2. ASSUME current = 0, NEW s \in Sockets
      PROVE  sock'[s].out = <<>> /\ (sock'[s].mine => sock'[s].at = "gone")
  <2>1. SocketMoves(sock[s], sock'[s]) /\ sock[s].out = <<>> /\ (sock[s].mine => sock[s].at = "gone")
    BY <1>2 DEF ServerMoves, CurrentInv
  <2> QED BY <2>1 DEF SocketMoves
<1> QED BY <1>1, <1>2 DEF CurrentInv, pageVars, viewVars, histories

LEMMA ViewTypes ==
  ASSUME PageTypes
  PROVE  view \in Views /\ view.gs = gameState /\ view.pl = players /\ view.h = hostId /\ view.d = definitions
BY DEF PageTypes, Views, view

LEMMA ServerKeepsFollowing ==
  ASSUME ServerTypes, PageTypes, SocketInv, CurrentInv, FollowInv, PlayInv,
         ServerMoves, UNCHANGED <<pageVars, route>>
  PROVE  FollowInv'
<1> DEFINE S == sock[current]
           T == sock'[current]
           v == view
<1>1. /\ current' = current /\ code' = code /\ gameState' = gameState /\ muddled' = muddled
      /\ view' = view
  BY DEF pageVars, viewVars, histories, view
<1> SUFFICES ASSUME current # 0, ~muddled, T.at = "open"
             PROVE  \/ Joining(T, gameState) \/ Refused(T, gameState)
                    \/ Member(T, code, room'[code], v)
  BY <1>1 DEF FollowInv, Joining, Joins, Refused, Member
<1>2. current \in Sockets /\ S \in SocketRecs /\ SocketMoves(S, T) /\ Hears(S, T)
  BY DEF PageTypes, ServerTypes, ServerMoves
<1>3. S.at = "open" /\ S.mine /\ S.code = code
  BY <1>2 DEF SocketMoves, CurrentInv
<1>4. Joining(S, gameState) \/ Refused(S, gameState) \/ Member(S, code, room[code], v)
  BY <1>3 DEF FollowInv
<1>5. S.inbox \in Seq(Orders) /\ S.out \in Seq(Messages) /\ S.in \in Codes
      /\ \A i \in 2..Len(S.inbox) : S.inbox[i].type # "JOIN_ROOM"
  BY <1>2 DEF SocketRecs, SocketInv
<1>6. Takes(S, T) => ~Joins(T)
  BY <1>5, TailOfOrders DEF Takes, Joins
<1>7. T.inbox = S.inbox => (Joins(T) <=> Joins(S))
  BY DEF Joins
<1>8. v \in Views /\ v.gs = gameState
  BY ViewTypes
<1>9. ASSUME code \in Rooms
      PROVE  /\ room[code] \in RoomRecs /\ room'[code] \in RoomRecs /\ RoomMoves(code) /\ code # NoRoom
  BY <1>9, RoomAssumption DEF ServerTypes, ServerMoves
<1>10. S.in # NoRoom => S.in = code /\ code \in Rooms /\ room[code].phase \in Running /\ ~Joins(S)
  BY <1>2, <1>3, <1>5 DEF SocketInv, Codes
<1>11. S.joining # NoRoom => S.joining = code /\ S.in = NoRoom /\ ~Joins(S) /\ code \in Rooms
  BY <1>2, <1>3 DEF SocketInv
<1> HIDE DEF S, T, v
<1>12. CASE T = S /\ (S.in # NoRoom => room'[S.in] = room[S.in])
  <2>1. Member(S, code, room[code], v) => room'[code] = room[code]
    BY <1>9, <1>12 DEF Member
  <2> QED BY <1>4, <1>12, <2>1
<1>13. CASE /\ Takes(S, T) /\ ~Joins(S)
            /\ Keeps(S, T) /\ T.out = S.out /\ (S.in # NoRoom => room'[S.in] = room[S.in])
  <2>1. Member(S, code, room[code], v) => room'[code] = room[code]
    BY <1>9, <1>13 DEF Member
  <2> QED BY <1>4, <1>6, <1>13, <2>1 DEF Joining, Refused, Member, Keeps
<1>14. CASE /\ S.in # NoRoom /\ Keeps(S, T)
            /\ T.inbox = S.inbox \/ (Takes(S, T) /\ ~Joins(S))
            /\ \E m \in Messages : T.out = Append(S.out, m) /\ Announces(m, S.in, room[S.in], room'[S.in])
  <2>1. PICK m \in Messages : T.out = Append(S.out, m) /\ Announces(m, code, room[code], room'[code])
    BY <1>10, <1>14
  <2>2. Member(S, code, room[code], v)
    BY <1>4, <1>14 DEF Joining, Refused
  <2>3. room'[code].host = room[code].host /\ room'[code].groups = room[code].groups
    BY <1>9, <1>10, <1>14 DEF RoomMoves, Running
  <2>4. Follows(T.out, code, room'[code], v)
    BY <1>5, <1>8, <1>9, <1>10, <1>14, <2>1, <2>2, <2>3, OneMoreFollows DEF Member
  <2> QED BY <1>6, <1>7, <1>10, <1>14, <2>4 DEF Member, Keeps
<1>15. CASE Checks(S, T)
  <2>1. S.in = NoRoom /\ S.out = <<>>
    BY <1>4, <1>15 DEF Joining, Refused, Member, Checks
  <2>2. gameState # "PLAYING"
    BY <1>3, <1>15 DEF PlayInv, Begun, Checks
  <2>3. T.joining # NoRoom
    BY <1>15, RoomAssumption DEF Checks
  <2> QED BY <1>15, <2>1, <2>2, <2>3 DEF Joining, Checks
<1>16. CASE Registers(S, T) /\ T.out = Append(S.out, RoomState(S.joining, room'[S.joining]))
  <2>1. S.joining = code /\ S.in = NoRoom /\ ~Joins(S) /\ code \in Rooms
    BY <1>11, <1>16 DEF Registers
  <2>2. S.out = <<>> /\ gameState # "PLAYING"
    BY <1>4, <1>9, <1>16, <2>1 DEF Joining, Refused, Member, Registers
  <2>3. room'[code].phase \in Running
    BY <1>16, <2>1 DEF Registers
  <2>4. Follows(T.out, code, room'[code], v)
    BY <1>8, <1>9, <1>16, <2>1, <2>2, <2>3, FirstFollows
  <2> QED BY <1>7, <1>16, <2>1, <2>4 DEF Member, Registers
<1>17. CASE Takes(S, T) /\ Joins(S) /\ S.joining = NoRoom /\ Keeps(S, T) /\ T.out = Append(S.out, ErrorMsg)
  <2>1. S.out = <<>> /\ S.in = NoRoom
    BY <1>4, <1>17 DEF Joining, Refused, Member
  <2> QED BY <1>6, <1>17, <2>1 DEF Refused, Keeps
<1> QED BY <1>2, <1>3, <1>12, <1>13, <1>14, <1>15, <1>16, <1>17 DEF Hears

LEMMA ServerKeepsPlay ==
  ASSUME ServerTypes, PageTypes, PlayInv, ServerMoves, UNCHANGED <<pageVars, route>>
  PROVE  PlayInv'
<1>1. /\ code' = code /\ gameState' = gameState /\ muddled' = muddled
      /\ carried' = carried /\ definitions' = definitions /\ index' = index
  BY DEF pageVars, viewVars, histories
<1>2. ASSUME code \in Rooms, room[code].phase \in Begun PROVE room'[code].phase \in Begun
  BY <1>2 DEF ServerMoves, RoomMoves, Onward, Begun, Running
<1> QED BY <1>1, <1>2 DEF PlayInv

(* A room that has begun stays so.                                         *)
LEMMA BegunStays ==
  ASSUME NEW r \in Rooms, RoomMoves(r), room[r].phase \in Begun
  PROVE  room'[r].phase \in Begun
BY DEF RoomMoves, Onward, Begun, Running

LEMMA ServerKeepsPending ==
  ASSUME ServerTypes, PageTypes, SocketInv, PendingInv, ServerMoves, UNCHANGED <<pageVars, strayed>>
  PROVE  PendingInv'
<1>1. /\ current' = current /\ strayed' = strayed
  BY DEF pageVars, histories
<1>2. ASSUME NEW s \in Sockets, Pending(sock'[s])
      PROVE  Pending(sock[s]) /\ sock'[s].code = sock[s].code
  <2> DEFINE S == sock[s]
             T == sock'[s]
  <2>1. S.inbox \in Seq(Orders) /\ SocketMoves(S, T)
    BY DEF ServerTypes, SocketRecs, ServerMoves
  <2>2. Pending(T)
    BY <1>2
  <2> HIDE DEF S, T
  <2>3. T.inbox # <<>>
    BY <2>2 DEF Pending, Has
  <2>4. T.code = S.code /\ (T.inbox = S.inbox \/ Takes(S, T))
    BY <2>1, <2>3 DEF SocketMoves, Checks, Registers
  <2>5. Takes(S, T) => Pending(S)
    BY <2>1, <2>2, TailOfOrders DEF Takes, Pending, Has
  <2> QED BY <2>2, <2>4, <2>5 DEF Pending, S, T
<1>3. ASSUME NEW s \in Sockets, Pending(sock'[s]), sock'[s].code \notin strayed
      PROVE  /\ sock[s].code \in Rooms /\ room[sock[s].code].phase \in Begun
             /\ room'[sock[s].code].phase \in Begun
  <2>1. sock[s].code \in Rooms /\ room[sock[s].code].phase \in Begun
    BY <1>2, <1>3 DEF PendingInv
  <2> QED BY <2>1, BegunStays DEF ServerMoves
<1>4. ASSUME NEW s \in Sockets \ {current}, current # 0, Pending(sock'[s]), sock'[s].code \notin strayed
      PROVE  sock'[s].code \notin {sock'[current].in, sock'[current].joining}
  <2>1. sock[s].code \notin {sock[current].in, sock[current].joining}
    BY <1>2, <1>4 DEF PendingInv
  <2>2. current \in Sockets /\ SocketMoves(sock[current], sock'[current])
    BY <1>4 DEF PageTypes, ServerMoves
  <2>3. /\ sock[s].code \in Rooms /\ sock[s].code # NoRoom /\ sock'[s].code = sock[s].code
        /\ room[sock[s].code].phase # "WAITING"
    BY <1>2, <1>3, <1>4, RoomAssumption DEF Begun
  <2>4. /\ sock'[current].in \in {NoRoom, sock[current].in, sock[current].joining}
        /\ \/ sock'[current].joining \in {NoRoom, sock[current].joining}
           \/ room[sock'[current].joining].phase = "WAITING"
    BY <2>2 DEF SocketMoves, Keeps, Checks, Registers
  <2> QED BY <2>1, <2>3, <2>4
<1> QED BY <1>1, <1>2, <1>3, <1>4 DEF PendingInv, Pending

LEMMA HeadIsPending ==
  ASSUME NEW S, S.inbox \in Seq(Orders), S.inbox # <<>>, Head(S.inbox).type = "SUBMIT_SCORE"
  PROVE  Pending(S)
BY TailOfOrders DEF Pending, Has

LEMMA ServerKeepsScores ==
  ASSUME ServerTypes, PageTypes, SocketInv, RoomInv, CurrentInv, FollowInv, PlayInv, PendingInv, ScoreInv,
         ServerMoves, UNCHANGED <<pageVars, strayed>>
  PROVE  ScoreInv'
<1> DEFINE S == sock[current]
           T == sock'[current]
           R == room[code]
           N == room'[code]
<1>1. /\ current' = current /\ strayed' = strayed /\ code' = code /\ muddled' = muddled
      /\ gameState' = gameState /\ score' = score
  BY DEF pageVars, viewVars, histories
<1> SUFFICES ASSUME current # 0, ~muddled, T.at = "open",
                    code \in {T.in, T.joining}, code \in Rooms, code \notin strayed
             PROVE  /\ gameState = "PLAYING" =>
                         /\ N.players["me"] <= score
                         /\ \A i \in 1..Len(T.inbox) : T.inbox[i].type = "SUBMIT_SCORE" => T.inbox[i].score <= score
                    /\ gameState # "PLAYING" /\ Arrives(T) =>
                         /\ N.players["me"] <= 0
                         /\ \A s \in Sockets : sock'[s].code = code => ~Pending(sock'[s])
  BY <1>1 DEF ScoreInv, Arrives, Unscored, Has, Pending
<1>2. /\ current \in Sockets /\ S \in SocketRecs /\ T \in SocketRecs /\ SocketMoves(S, T) /\ Hears(S, T)
      /\ RoomMoves(code) /\ R \in RoomRecs /\ N \in RoomRecs
  BY DEF PageTypes, ServerTypes, ServerMoves
<1>3. S.at = "open" /\ S.mine /\ S.code = code /\ S.in \in Codes /\ code # NoRoom
  BY <1>2, RoomAssumption DEF SocketMoves, CurrentInv, SocketRecs
<1>4. S.inbox \in Seq(Orders) /\ S.out \in Seq(Messages) /\ score \in Nat
      /\ R.players["me"] \in Int /\ N.players["me"] \in Int
  <2>1. R.players["me"] \in -1..MaxPoints /\ N.players["me"] \in -1..MaxPoints
    BY <1>2 DEF RoomRecs, PlayerLists, People
  <2> QED BY <1>2, <2>1, QueueAssumption DEF SocketRecs, PageTypes
<1>5. ASSUME NEW s \in Sockets
      PROVE  /\ sock'[s].code = code /\ Pending(sock'[s]) => sock[s].code = code /\ Pending(sock[s])
             /\ Pending(sock'[s]) /\ sock'[s].code = code => R.phase \in Begun
  <2>1. SocketMoves(sock[s], sock'[s]) /\ sock[s].inbox \in Seq(Orders)
    BY DEF ServerMoves, ServerTypes, SocketRecs
  <2>2. sock'[s].code = code /\ Pending(sock'[s]) => sock[s].code = code /\ Pending(sock[s])
    <3> DEFINE X == sock[s]
               Y == sock'[s]
    <3> SUFFICES Y.code = code /\ Pending(Y) => X.code = code /\ Pending(X)
      OBVIOUS
    <3>1. SocketMoves(X, Y) /\ X.inbox \in Seq(Orders)
      BY <2>1
    <3> HIDE DEF X, Y
    <3>2. Pending(Y) => Y.inbox # <<>>
      BY DEF Pending, Has
    <3>3. Pending(Y) => Y.code = X.code /\ (Y.inbox = X.inbox \/ Takes(X, Y))
      BY <3>1, <3>2 DEF SocketMoves, Checks, Registers
    <3>4. Pending(Y) /\ Takes(X, Y) => Pending(X)
      BY <3>1, TailOfOrders DEF Takes, Pending, Has
    <3> QED BY <3>3, <3>4 DEF Pending
  <2> QED BY <2>2 DEF PendingInv
<1>6. ASSUME Unscored(code)
      PROVE  /\ N.players["me"] <= 0
             /\ \A s \in Sockets : sock'[s].code = code => ~Pending(sock'[s])
  <2>1. ASSUME NEW s \in Sockets, sock[s].in = code, sock[s].inbox # <<>>,
               Head(sock[s].inbox).type = "SUBMIT_SCORE"
        PROVE  FALSE
    <3>1. sock[s].inbox \in Seq(Orders) /\ sock[s].code = code
      BY <1>3, <2>1 DEF ServerTypes, SocketRecs, SocketInv
    <3>2. Pending(sock[s])
      BY <2>1, <3>1, HeadIsPending
    <3> QED BY <1>6, <3>1, <3>2 DEF Unscored
  <2>2. N.players["me"] = R.players["me"] \/ N.players["me"] <= 0
    BY <1>2, <2>1 DEF RoomMoves
  <2> QED BY <1>5, <1>6, <2>2 DEF Unscored
<1>7. R.phase = "WAITING" => Unscored(code)
  BY DEF RoomInv, PendingInv, Unscored, Begun
<1>8. CASE Checks(S, T)
  <2>1. R.phase = "WAITING"
    BY <1>3, <1>8 DEF Checks
  <2>2. gameState # "PLAYING"
    BY <2>1 DEF PlayInv, Begun
  <2> QED BY <1>6, <1>7, <2>1, <2>2
<1>9. CASE ~Checks(S, T)
  <2>1. code \in {S.in, S.joining}
    BY <1>2, <1>3, <1>9 DEF SocketMoves, Keeps, Registers
  <2>2. /\ gameState = "PLAYING" =>
             /\ R.players["me"] <= score
             /\ \A i \in 1..Len(S.inbox) : S.inbox[i].type = "SUBMIT_SCORE" => S.inbox[i].score <= score
        /\ gameState # "PLAYING" /\ Arrives(S) => Unscored(code)
    BY <1>3, <2>1 DEF ScoreInv
  <2>3. ASSUME gameState = "PLAYING"
        PROVE  /\ N.players["me"] <= score
               /\ \A i \in 1..Len(T.inbox) : T.inbox[i].type = "SUBMIT_SCORE" => T.inbox[i].score <= score
    <3>1. S.inbox # <<>> /\ Head(S.inbox).type = "SUBMIT_SCORE" => Head(S.inbox).score <= score
      BY <1>4, <2>2, <2>3, TailOfOrders
    <3>2. ASSUME NEW s \in Sockets, sock[s].in = code, sock[s].inbox # <<>>,
                 Head(sock[s].inbox).type = "SUBMIT_SCORE"
          PROVE  s = current
      <4>1. sock[s].inbox \in Seq(Orders) /\ sock[s].code = code
        BY <1>3, <3>2 DEF ServerTypes, SocketRecs, SocketInv
      <4>2. Pending(sock[s])
        BY <3>2, <4>1, HeadIsPending
      <4> QED BY <2>1, <4>1, <4>2 DEF PendingInv
    <3>3. \/ N.players["me"] = R.players["me"]
          \/ N.players["me"] <= 0
          \/ /\ S.inbox # <<>> /\ Head(S.inbox).type = "SUBMIT_SCORE"
             /\ N.players["me"] = Head(S.inbox).score
      BY <1>2, <3>2 DEF RoomMoves
    <3>4. N.players["me"] <= score
      BY <1>4, <2>2, <2>3, <3>1, <3>3
    <3>5. T.inbox = <<>> \/ T.inbox = S.inbox \/ Takes(S, T)
      BY <1>2 DEF SocketMoves, Checks, Registers
    <3>6. \A i \in 1..Len(T.inbox) : T.inbox[i].type = "SUBMIT_SCORE" => T.inbox[i].score <= score
      <4>1. CASE T.inbox = <<>>
        BY <4>1
      <4>2. CASE T.inbox = S.inbox
        BY <2>2, <2>3, <4>2
      <4>3. CASE Takes(S, T)
        <5>1. S.inbox # <<>> /\ T.inbox = Tail(S.inbox)
          BY <4>3 DEF Takes
        <5>2. \A i \in 1..Len(T.inbox) : i + 1 \in 1..Len(S.inbox) /\ T.inbox[i] = S.inbox[i + 1]
          BY <1>4, <5>1, TailOfOrders
        <5> QED BY <2>2, <2>3, <5>2
      <4> QED BY <3>5, <4>1, <4>2, <4>3
    <3> QED BY <3>4, <3>6
  <2>4. ASSUME gameState # "PLAYING", Arrives(T)
        PROVE  Unscored(code)
    <3>1. CASE Arrives(S)
      BY <2>2, <2>4, <3>1
    <3>2. CASE ~Arrives(S)
      <4>1. S.joining = NoRoom /\ S.in = code /\ ~Joins(S) /\ \A i \in 1..Len(S.out) : ~Game(S.out[i])
        BY <1>2, <1>3, <2>1, <3>2 DEF Arrives, SocketInv
      <4>2. T.joining = NoRoom
        BY <1>2, <1>9, <4>1 DEF SocketMoves, Keeps, Registers
      <4>3. PICK i \in 1..Len(T.out) : Game(T.out[i])
        BY <2>4, <4>2 DEF Arrives
      <4>4. PICK m \in Messages : T.out = Append(S.out, m) /\ Announces(m, code, R, N)
        BY <1>2, <1>3, <1>9, <4>1, <4>3 DEF Hears, Registers
      <4>5. Game(m)
        BY <1>4, <4>1, <4>3, <4>4
      <4>6. R.phase = "WAITING" \/ R.phase = "PLAYING"
        BY <4>4, <4>5 DEF Announces, Game, RoomState, GameStarted, Scores, GameOver, Msg
      <4>7. R.phase # "PLAYING"
        <5>1. Member(S, code, R, view)
          BY <1>3, <4>1 DEF FollowInv, Joining, Refused
        <5>2. view.gs = gameState
          BY DEF view
        <5> HIDE DEF S, R
        <5> QED BY <2>4, <4>1, <5>1, <5>2 DEF Member, Follows, GameIsKnown
      <4> QED BY <1>7, <4>6, <4>7
    <3> QED BY <3>1, <3>2
  <2> QED BY <1>6, <2>3, <2>4
<1> QED BY <1>8, <1>9

LEMMA ServerKeepsQueues ==
  ASSUME ServerTypes, SocketInv, QueueInv, ServerMoves
  PROVE  QueueInv'
<1> SUFFICES ASSUME NEW s \in Sockets PROVE Meant(sock'[s].out)
  BY DEF QueueInv, Meant
<1> DEFINE S == sock[s]
           T == sock'[s]
<1>1. Meant(S.out) /\ SocketMoves(S, T) /\ Hears(S, T) /\ S.out \in Seq(Messages)
      /\ S.in \in Codes /\ S.joining \in Codes
  BY DEF QueueInv, ServerTypes, SocketRecs, ServerMoves
<1>2. S.in # NoRoom => S.in \in Rooms /\ room[S.in].phase \in Running
  BY <1>1 DEF SocketInv, Codes
<1> SUFFICES Meant(T.out)
  OBVIOUS
<1> HIDE DEF S, T
<1>3. ASSUME NEW m \in Messages, T.out = Append(S.out, m),
             m.type # "ERROR" => m.room \in Rooms /\ m.phase \in Running
      PROVE  Meant(T.out)
  BY <1>1, <1>3 DEF Meant
<1>4. ASSUME NEW m, S.in # NoRoom, Announces(m, S.in, room[S.in], room'[S.in])
      PROVE  m.room \in Rooms /\ m.phase \in Running
  BY <1>2, <1>4 DEF Announces, RoomState, GameStarted, Scores, GameOver, Msg, Running
<1>5. ASSUME Registers(S, T), ServerTypes'
      PROVE  LET m == RoomState(S.joining, room'[S.joining])
             IN  m \in Messages /\ m.room \in Rooms /\ m.phase \in Running
  <2>1. S.joining \in Rooms /\ room'[S.joining].phase \in Running
    BY <1>1, <1>5 DEF Registers, Codes
  <2>2. RoomState(S.joining, room'[S.joining]) \in Messages
    BY <1>5, <2>1, MessageTypes DEF ServerTypes
  <2> QED BY <2>1, <2>2 DEF RoomState, Msg
<1>6. ErrorMsg \in Messages /\ ErrorMsg.type = "ERROR"
  BY NobodyType DEF ErrorMsg, Msg, Messages, Phases
<1>8. CASE S.at = "open" /\ S.mine
  BY <1>1, <1>3, <1>4, <1>5, <1>6, <1>8 DEF Hears, ServerMoves, Checks
<1>9. CASE ~(S.at = "open" /\ S.mine)
  <2>1. T.out = S.out \/ T.out = <<>>
    BY <1>1, <1>9 DEF SocketMoves
  <2> QED BY <1>1, <2>1 DEF Meant
<1> QED BY <1>8, <1>9

LEMMA LeastNat ==
  ASSUME NEW T, T \subseteq Nat, T # {}
  PROVE  \E n \in T : \A m \in T : n <= m
<1>1. PICK n \in T : \A m \in T : <<m, n>> \notin OpToRel(<, Nat)
  BY WFMin, NatLessThanWellFounded, Zenon
<1>2. \A m \in T : ~(m < n)
  BY <1>1, Zenon DEF OpToRel
<1> QED BY <1>2, n \in Nat, \A m \in T : m \in Nat, SMT

LEMMA ByInduction ==
  ASSUME NEW S, 0 \in S, \A n \in Nat : n \in S => n + 1 \in S
  PROVE  Nat \subseteq S
<1> SUFFICES ASSUME Nat \ S # {} PROVE FALSE
  OBVIOUS
<1>1. PICK n \in Nat \ S : \A m \in Nat \ S : n <= m
  BY LeastNat
<1>2. n - 1 \in Nat /\ n - 1 \in S
  BY <1>1
<1> QED BY <1>2

---------------------------------------------------------------------------
(* The pool of kana: how large it is.                                      *)
LEMMA CharCountType == \A g : CharCount(g) \in Nat \ {0}
BY DEF CharCount

First(s) == CHOOSE x \in s : TRUE
Upto(S, n) == {s \in SUBSET S : Cardinality(s) <= n}
\* g sums the sizes of the groups, for the sets among "sets"
Sums(g, sets) ==
  g = [s \in sets |-> IF s = {} THEN 0 ELSE CharCount(First(s)) + g[s \ {First(s)}]]

LEMMA Smaller ==
  ASSUME NEW S, IsFiniteSet(S), NEW s \in SUBSET S
  PROVE  /\ IsFiniteSet(s) /\ Cardinality(s) \in Nat /\ (Cardinality(s) = 0 <=> s = {})
         /\ s # {} => First(s) \in s
         /\ \A x \in s : s \ {x} \in SUBSET S /\ Cardinality(s \ {x}) = Cardinality(s) - 1
<1>1. IsFiniteSet(s) /\ Cardinality(s) \in Nat /\ (Cardinality(s) = 0 <=> s = {})
  BY FS_Subset, FS_CardinalityType, FS_EmptySet
<1>2. s # {} => First(s) \in s
  BY DEF First
<1>3. \A x \in s : s \ {x} \in SUBSET S /\ Cardinality(s \ {x}) = Cardinality(s) - 1
  BY <1>1, FS_RemoveElement
<1> QED BY <1>1, <1>2, <1>3

LEMMA SumsExist ==
  ASSUME NEW S, IsFiniteSet(S)
  PROVE  \E g \in [SUBSET S -> Nat] : Sums(g, SUBSET S)
<1> DEFINE N == {n \in Nat : \E g \in [Upto(S, n) -> Nat] : Sums(g, Upto(S, n))}
<1>1. 0 \in N
  <2> DEFINE g == [s \in Upto(S, 0) |-> 0]
  <2>1. \A s \in Upto(S, 0) : s = {}
    BY Smaller DEF Upto
  <2>2. g \in [Upto(S, 0) -> Nat] /\ Sums(g, Upto(S, 0))
    BY <2>1 DEF Sums
  <2> QED BY <2>2
<1>2. ASSUME NEW n \in Nat, n \in N PROVE n + 1 \in N
  <2>1. PICK g \in [Upto(S, n) -> Nat] : Sums(g, Upto(S, n))
    BY <1>2
  <2> DEFINE h == [s \in Upto(S, n + 1) |-> IF s = {} THEN 0 ELSE CharCount(First(s)) + g[s \ {First(s)}]]
  <2>2. ASSUME NEW s \in Upto(S, n + 1), s # {}
        PROVE  s \ {First(s)} \in Upto(S, n) /\ s \ {First(s)} \in Upto(S, n + 1)
    BY <2>2, Smaller DEF Upto
  <2>3. h \in [Upto(S, n + 1) -> Nat]
    BY <2>1, <2>2, CharCountType
  <2>4. ASSUME NEW s \in Upto(S, n) PROVE s \in Upto(S, n + 1) /\ h[s] = g[s]
    <3>1. s \in Upto(S, n + 1)
      BY Smaller DEF Upto
    <3>2. g[s] = IF s = {} THEN 0 ELSE CharCount(First(s)) + g[s \ {First(s)}]
      BY <2>1 DEF Sums
    <3> QED BY <3>1, <3>2
  <2>5. ASSUME NEW s \in Upto(S, n + 1), s # {}
        PROVE  h[s \ {First(s)}] = g[s \ {First(s)}]
    BY <2>2, <2>4, <2>5
  <2>6. Sums(h, Upto(S, n + 1))
    BY <2>5 DEF Sums
  <2> HIDE DEF h
  <2> QED BY <2>3, <2>6
<1>3. Cardinality(S) \in N
  <2>1. Nat \subseteq N
    <3> HIDE DEF N
    <3> QED BY <1>1, <1>2, ByInduction
  <2> QED BY <2>1, FS_CardinalityType
<1>4. Upto(S, Cardinality(S)) = SUBSET S
  BY FS_Subset DEF Upto
<1> QED BY <1>3, <1>4

LEMMA SumsAgree ==
  ASSUME NEW S, IsFiniteSet(S), NEW T \in SUBSET S, NEW g, NEW h, Sums(g, SUBSET S), Sums(h, SUBSET T)
  PROVE  \A s \in SUBSET T : g[s] = h[s]
<1> DEFINE N == {n \in Nat : \A s \in Upto(T, n) : g[s] = h[s]}
<1>0. IsFiniteSet(T)
  BY FS_Subset
<1>1. ASSUME NEW s \in SUBSET T
      PROVE  /\ g[s] = IF s = {} THEN 0 ELSE CharCount(First(s)) + g[s \ {First(s)}]
             /\ h[s] = IF s = {} THEN 0 ELSE CharCount(First(s)) + h[s \ {First(s)}]
  BY DEF Sums
<1>2. 0 \in N
  BY <1>0, <1>1, Smaller DEF Upto
<1>3. ASSUME NEW n \in Nat, n \in N PROVE n + 1 \in N
  <2> SUFFICES ASSUME NEW s \in Upto(T, n + 1) PROVE g[s] = h[s]
    OBVIOUS
  <2>1. s \in SUBSET T
    BY DEF Upto
  <2>2. s # {} => s \ {First(s)} \in Upto(T, n)
    BY <1>0, Smaller DEF Upto
  <2>3. s # {} => g[s \ {First(s)}] = h[s \ {First(s)}]
    BY <1>3, <2>2
  <2> QED BY <1>1, <2>1, <2>3
<1>4. Nat \subseteq N
  <2> HIDE DEF N
  <2> QED BY <1>2, <1>3, ByInduction
<1>5. \A s \in SUBSET T : s \in Upto(T, Cardinality(s)) /\ Cardinality(s) \in N
  BY <1>0, <1>4, Smaller DEF Upto
<1> QED BY <1>5

LEMMA PoolSizeUnfolds ==
  ASSUME NEW S, IsFiniteSet(S)
  PROVE  /\ PoolSize(S) \in Nat
         /\ PoolSize(S) = IF S = {} THEN 0 ELSE CharCount(First(S)) + PoolSize(S \ {First(S)})
<1> DEFINE iter(s) == CHOOSE g : Sums(g, SUBSET s)
<1>1. \A s : PoolSize(s) = iter(s)[s]
  BY DEF PoolSize, MapThenSumSet, MapThenFoldSet, Sums, First
<1>2. ASSUME NEW s \in SUBSET S PROVE Sums(iter(s), SUBSET s) /\ IsFiniteSet(s)
  BY SumsExist, FS_Subset
<1>3. \A s \in SUBSET S : iter(S)[s] = iter(s)[s]
  <2> SUFFICES ASSUME NEW s \in SUBSET S PROVE iter(S)[s] = iter(s)[s]
    OBVIOUS
  <2>1. Sums(iter(S), SUBSET S) /\ Sums(iter(s), SUBSET s)
    BY <1>2
  <2> HIDE DEF iter
  <2> QED BY <2>1, SumsAgree
<1>4. iter(S)[S] = IF S = {} THEN 0 ELSE CharCount(First(S)) + iter(S)[S \ {First(S)}]
  <2>1. Sums(iter(S), SUBSET S)
    BY <1>2
  <2> HIDE DEF iter
  <2> QED BY <2>1 DEF Sums
<1>5. iter(S)[S] \in Nat
  <2>1. PICK g \in [SUBSET S -> Nat] : Sums(g, SUBSET S)
    BY SumsExist
  <2>2. Sums(iter(S), SUBSET S)
    BY <1>2
  <2> HIDE DEF iter
  <2> QED BY <2>1, <2>2, SumsAgree
<1> HIDE DEF iter
<1> QED BY <1>1, <1>3, <1>4, <1>5

(* The order in which the sizes are added does not matter.                 *)
LEMMA PoolSizeAdds ==
  ASSUME NEW S, IsFiniteSet(S), NEW x \in S
  PROVE  PoolSize(S) = CharCount(x) + PoolSize(S \ {x})
<1> DEFINE N == {n \in Nat : \A s \in SUBSET S : Cardinality(s) = n => \A y \in s : PoolSize(s) = CharCount(y) + PoolSize(s \ {y})}
<1>1. 0 \in N
  BY Smaller
<1>2. ASSUME NEW n \in Nat, n \in N PROVE n + 1 \in N
  <2> SUFFICES ASSUME NEW s \in SUBSET S, Cardinality(s) = n + 1, NEW y \in s
               PROVE  PoolSize(s) = CharCount(y) + PoolSize(s \ {y})
    OBVIOUS
  <2> DEFINE f == First(s)
  <2>1. f \in s /\ IsFiniteSet(s) /\ s # {}
    BY Smaller
  <2>2. PoolSize(s) = CharCount(f) + PoolSize(s \ {f})
    BY <2>1, PoolSizeUnfolds
  <2> HIDE DEF f
  <2>3. CASE y = f
    BY <2>2, <2>3
  <2>4. CASE y # f
    <3>1. /\ s \ {f} \in SUBSET S /\ Cardinality(s \ {f}) = n /\ y \in s \ {f}
          /\ s \ {y} \in SUBSET S /\ Cardinality(s \ {y}) = n /\ f \in s \ {y}
      BY <2>1, <2>4, Smaller
    <3>2. /\ PoolSize(s \ {f}) = CharCount(y) + PoolSize((s \ {f}) \ {y})
          /\ PoolSize(s \ {y}) = CharCount(f) + PoolSize((s \ {y}) \ {f})
      BY <1>2, <3>1
    <3>3. (s \ {f}) \ {y} = (s \ {y}) \ {f}
      OBVIOUS
    <3>4. PoolSize((s \ {f}) \ {y}) \in Nat /\ CharCount(y) \in Nat /\ CharCount(f) \in Nat
      <4>1. IsFiniteSet((s \ {f}) \ {y})
        BY <2>1, FS_RemoveElement
      <4> QED BY <4>1, PoolSizeUnfolds, CharCountType
    <3>5. PoolSize((s \ {f}) \ {y}) = PoolSize((s \ {y}) \ {f})
      BY <3>3
    <3> QED BY <2>2, <3>2, <3>4, <3>5
  <2> QED BY <2>3, <2>4
<1>3. Nat \subseteq N
  <2> HIDE DEF N
  <2> QED BY <1>1, <1>2, ByInduction
<1>4. Cardinality(S) \in N
  BY <1>3, FS_CardinalityType
<1> QED BY <1>4

LEMMA PoolSizeType ==
  ASSUME NEW S, IsFiniteSet(S)
  PROVE  PoolSize(S) \in Nat /\ (S # {} => PoolSize(S) > 0) /\ PoolSize({}) = 0
<1>1. S # {} => IsFiniteSet(S \ {First(S)})
  BY FS_RemoveElement
<1>2. S # {} => PoolSize(S \ {First(S)}) \in Nat
  BY <1>1, PoolSizeUnfolds
<1>3. PoolSize({}) = 0
  BY FS_EmptySet, PoolSizeUnfolds
<1>4. PoolSize(S) \in Nat
  BY PoolSizeUnfolds
<1>5. ASSUME S # {} PROVE PoolSize(S) > 0
  <2>1. PoolSize(S) = CharCount(First(S)) + PoolSize(S \ {First(S)})
    BY <1>5, PoolSizeUnfolds
  <2>2. CharCount(First(S)) \in Nat /\ CharCount(First(S)) > 0
    BY CharCountType
  <2> QED BY <1>2, <1>5, <2>1, <2>2
<1> QED BY <1>3, <1>4, <1>5

---------------------------------------------------------------------------
(* The groups are the names in the four lists.                             *)
Hiragana == {"hsingle", "hk", "hs", "ht", "hn", "hh", "hm", "hy", "hr", "hw", "hn1",
             "hg", "hz", "hd", "hb", "hp"}
Katakana == {"ksingle", "kk", "ks", "kt", "kn", "kh", "km", "ky", "kr", "kw", "kn1",
             "kg", "kz", "kd", "kb", "kp"}
HiraganaPairs == {"hkya", "hsha", "hcha", "hnya", "hhya", "hmya", "hrya", "hgya", "hja", "hbya", "hpya"}
KatakanaPairs == {"kkya", "ksha", "kcha", "knya", "khya", "kmya", "krya", "kgya", "kja", "kbya", "kpya"}
Names == Hiragana \cup Katakana \cup HiraganaPairs \cup KatakanaPairs

LEMMA ListRanges ==
  /\ Range(BasicHiragana) = Hiragana /\ Range(BasicKatakana) = Katakana
  /\ Range(HiraganaCombinations) = HiraganaPairs /\ Range(KatakanaCombinations) = KatakanaPairs
<1>1. DOMAIN BasicHiragana = {1, 2, 3, 4, 5, 6, 7, 8, 9, 10, 11, 12, 13, 14, 15, 16}
  BY DEF BasicHiragana
<1>2. Range(BasicHiragana) = Hiragana
  BY <1>1 DEF Range, BasicHiragana, Hiragana
<1>3. DOMAIN BasicKatakana = {1, 2, 3, 4, 5, 6, 7, 8, 9, 10, 11, 12, 13, 14, 15, 16}
  BY DEF BasicKatakana
<1>4. Range(BasicKatakana) = Katakana
  BY <1>3 DEF Range, BasicKatakana, Katakana
<1>5. DOMAIN HiraganaCombinations = {1, 2, 3, 4, 5, 6, 7, 8, 9, 10, 11}
  BY DEF HiraganaCombinations
<1>6. Range(HiraganaCombinations) = HiraganaPairs
  BY <1>5 DEF Range, HiraganaCombinations, HiraganaPairs
<1>7. DOMAIN KatakanaCombinations = {1, 2, 3, 4, 5, 6, 7, 8, 9, 10, 11}
  BY DEF KatakanaCombinations
<1>8. Range(KatakanaCombinations) = KatakanaPairs
  BY <1>7 DEF Range, KatakanaCombinations, KatakanaPairs
<1> QED BY <1>2, <1>4, <1>6, <1>8

LEMMA ListsTypes ==
  /\ BasicHiragana \in Seq(Names) /\ BasicKatakana \in Seq(Names)
  /\ HiraganaCombinations \in Seq(Names) /\ KatakanaCombinations \in Seq(Names)
<1>1. /\ BasicHiragana \in [1..16 -> Names] /\ BasicKatakana \in [1..16 -> Names]
      /\ HiraganaCombinations \in [1..11 -> Names] /\ KatakanaCombinations \in [1..11 -> Names]
  BY DEF BasicHiragana, BasicKatakana, HiraganaCombinations, KatakanaCombinations,
         Names, Hiragana, Katakana, HiraganaPairs, KatakanaPairs
<1>2. Seq(Names) = UNION {[1..n -> Names] : n \in Nat}
  BY SeqDef
<1>3. [1..16 -> Names] \subseteq Seq(Names) /\ [1..11 -> Names] \subseteq Seq(Names)
  <2>1. 16 \in Nat /\ 11 \in Nat
    OBVIOUS
  <2> QED BY <1>2, <2>1, Zenon
<1> QED BY <1>1, <1>3, Zenon

LEMMA GroupIdsType ==
  /\ GROUP_IDS \in Seq(Names) /\ Len(GROUP_IDS) > 0
  /\ Groups = Names /\ "hsingle" \in Groups /\ IsFiniteSet(Groups)
  /\ Groups = {GROUP_IDS[i] : i \in 1..Len(GROUP_IDS)}
<1>2. /\ BasicHiragana \in Seq(Names) /\ BasicKatakana \in Seq(Names)
      /\ HiraganaCombinations \in Seq(Names) /\ KatakanaCombinations \in Seq(Names)
  BY ListsTypes
<1> DEFINE AB == BasicHiragana \o BasicKatakana
           ABC == AB \o HiraganaCombinations
<1>3. AB \in Seq(Names) /\ Range(AB) = Hiragana \cup Katakana
  BY <1>2, ListRanges, RangeConcatenation, ConcatProperties
<1>4. ABC \in Seq(Names) /\ Range(ABC) = Hiragana \cup Katakana \cup HiraganaPairs
  <2> HIDE DEF AB
  <2> QED BY <1>2, <1>3, ListRanges, RangeConcatenation, ConcatProperties
<1>5. GROUP_IDS = ABC \o KatakanaCombinations
  BY DEF GROUP_IDS
<1>6. GROUP_IDS \in Seq(Names) /\ Range(GROUP_IDS) = Names
  <2> HIDE DEF ABC
  <2> QED BY <1>2, <1>4, <1>5, ListRanges, RangeConcatenation, ConcatProperties DEF Names
<1>7. Groups = {GROUP_IDS[i] : i \in 1..Len(GROUP_IDS)} /\ Groups = Names
  BY <1>6, RangeEquality DEF Groups
<1>8. "hsingle" \in Groups /\ Len(GROUP_IDS) > 0
  <2>1. "hsingle" \in Groups
    BY <1>7 DEF Names, Hiragana
  <2> QED BY <1>6, <1>7, <2>1
<1>9. IsFiniteSet(Groups)
  <2>1. Len(GROUP_IDS) \in Nat /\ GROUP_IDS \in Surjection(1..Len(GROUP_IDS), Groups)
    BY <1>6, <1>7 DEF Surjection
  <2> QED BY <2>1, FS_NatSurjection DEF ExistsSurjection
<1> QED BY <1>6, <1>7, <1>8, <1>9

(* No name is listed twice.                                                *)
Apart(s) == \A i, j \in 1..Len(s) : i # j => s[i] # s[j]

LEMMA ListsApart ==
  /\ Apart(BasicHiragana) /\ Apart(BasicKatakana)
  /\ Apart(HiraganaCombinations) /\ Apart(KatakanaCombinations)
<1>1. Apart(BasicHiragana)
  BY DEF Apart, BasicHiragana
<1>2. Apart(BasicKatakana)
  BY DEF Apart, BasicKatakana
<1>3. Apart(HiraganaCombinations)
  BY DEF Apart, HiraganaCombinations
<1>4. Apart(KatakanaCombinations)
  BY DEF Apart, KatakanaCombinations
<1> QED BY <1>1, <1>2, <1>3, <1>4

LEMMA ApartConcat ==
  ASSUME NEW K, NEW s \in Seq(K), NEW t \in Seq(K), Apart(s), Apart(t),
         \A i \in 1..Len(s) : \A j \in 1..Len(t) : s[i] # t[j]
  PROVE  Apart(s \o t)
<1> SUFFICES ASSUME NEW i \in 1..Len(s \o t), NEW j \in 1..Len(s \o t), i # j
             PROVE  (s \o t)[i] # (s \o t)[j]
  BY DEF Apart
<1>1. /\ Len(s) \in Nat /\ Len(t) \in Nat /\ Len(s \o t) = Len(s) + Len(t)
      /\ \A k \in 1..Len(s) + Len(t) : (s \o t)[k] = IF k <= Len(s) THEN s[k] ELSE t[k - Len(s)]
  BY ConcatProperties
<1>2. \A k \in 1..Len(s) + Len(t) : k \in 1..Len(s) \/ (k > Len(s) /\ k - Len(s) \in 1..Len(t))
  BY <1>1
<1>3. CASE i \in 1..Len(s) /\ j \in 1..Len(s)
  BY <1>1, <1>3 DEF Apart
<1>4. CASE i \in 1..Len(s) /\ j > Len(s) /\ j - Len(s) \in 1..Len(t)
  BY <1>1, <1>4
<1>5. CASE j \in 1..Len(s) /\ i > Len(s) /\ i - Len(s) \in 1..Len(t)
  BY <1>1, <1>5
<1>6. CASE i > Len(s) /\ i - Len(s) \in 1..Len(t) /\ j > Len(s) /\ j - Len(s) \in 1..Len(t)
  <2>1. i - Len(s) # j - Len(s)
    BY <1>1
  <2> QED BY <1>1, <1>6, <2>1 DEF Apart
<1> QED BY <1>1, <1>2, <1>3, <1>4, <1>5, <1>6

LEMMA GroupIdsApart == Apart(GROUP_IDS)
<1> DEFINE AB == BasicHiragana \o BasicKatakana
           ABC == AB \o HiraganaCombinations
           Parted(s, t) == \A i \in 1..Len(s) : \A j \in 1..Len(t) : s[i] # t[j]
<1>1. /\ BasicHiragana \in Seq(Names) /\ BasicKatakana \in Seq(Names)
      /\ HiraganaCombinations \in Seq(Names) /\ KatakanaCombinations \in Seq(Names)
  BY ListsTypes
<1>2. ASSUME NEW s \in Seq(Names), NEW t \in Seq(Names), Range(s) \cap Range(t) = {}
      PROVE  Parted(s, t)
  BY <1>2 DEF Range
<1>3. /\ Hiragana \cap Katakana = {} /\ (Hiragana \cup Katakana) \cap HiraganaPairs = {}
      /\ (Hiragana \cup Katakana \cup HiraganaPairs) \cap KatakanaPairs = {}
  BY DEF Hiragana, Katakana, HiraganaPairs, KatakanaPairs
<1>4. AB \in Seq(Names) /\ Range(AB) = Hiragana \cup Katakana /\ Apart(AB)
  <2>1. Parted(BasicHiragana, BasicKatakana)
    BY <1>1, <1>2, <1>3, ListRanges
  <2> QED BY <1>1, <2>1, ListRanges, ListsApart, ApartConcat, RangeConcatenation, ConcatProperties
<1> HIDE DEF AB
<1>5. ABC \in Seq(Names) /\ Range(ABC) = Hiragana \cup Katakana \cup HiraganaPairs /\ Apart(ABC)
  <2>1. Parted(AB, HiraganaCombinations)
    BY <1>1, <1>2, <1>3, <1>4, ListRanges
  <2> QED BY <1>1, <1>4, <2>1, ListRanges, ListsApart, ApartConcat, RangeConcatenation, ConcatProperties
<1> HIDE DEF ABC
<1>6. Parted(ABC, KatakanaCombinations)
  BY <1>1, <1>2, <1>3, <1>5, ListRanges
<1>7. Apart(ABC \o KatakanaCombinations)
  BY <1>1, <1>5, <1>6, ListsApart, ApartConcat
<1> QED BY <1>7 DEF GROUP_IDS, ABC, AB

(* The pool holds kana of the chosen groups only, all that count, and each *)
(* of them once.                                                           *)
FlatTo(f, seqs, n) == f = [i \in 1..n |-> IF i = 1 THEN seqs[i] ELSE f[i-1] \o seqs[i]]
Flat(f, seqs) == FlatTo(f, seqs, Len(seqs))

LEMMA FlatExists ==
  ASSUME NEW seqs
  PROVE  \A n \in Nat : \E f : FlatTo(f, seqs, n)
<1> DEFINE N == {n \in Nat : \E f : FlatTo(f, seqs, n)}
<1>1. 0 \in N
  <2> DEFINE f == [i \in 1..0 |-> seqs[i]]
  <2>1. FlatTo(f, seqs, 0)
    BY DEF FlatTo
  <2> HIDE DEF f
  <2> QED BY <2>1
<1>2. ASSUME NEW k \in Nat, k \in N PROVE k + 1 \in N
  <2>1. PICK f : FlatTo(f, seqs, k)
    BY <1>2
  <2> DEFINE h == [i \in 1..k+1 |-> IF i = 1 THEN seqs[i] ELSE f[i-1] \o seqs[i]]
  <2>2. ASSUME NEW i \in 1..k PROVE h[i] = f[i]
    <3>1. f[i] = IF i = 1 THEN seqs[i] ELSE f[i-1] \o seqs[i]
      BY <2>1, Zenon DEF FlatTo
    <3>2. i \in 1..k+1
      OBVIOUS
    <3> QED BY <3>1, <3>2
  <2>3. \A i \in 1..k+1 : h[i] = IF i = 1 THEN seqs[i] ELSE h[i-1] \o seqs[i]
    <3> TAKE i \in 1..k+1
    <3>1. h[i] = IF i = 1 THEN seqs[i] ELSE f[i-1] \o seqs[i]
      OBVIOUS
    <3> HIDE DEF h
    <3>2. i # 1 => i - 1 \in 1..k
      OBVIOUS
    <3>3. i # 1 => h[i-1] = f[i-1]
      BY <2>2, <3>2
    <3> QED BY <3>1, <3>3
  <2>4. h = [i \in 1..k+1 |-> h[i]]
    OBVIOUS
  <2> HIDE DEF h
  <2>5. FlatTo(h, seqs, k + 1)
    BY <2>3, <2>4 DEF FlatTo
  <2> QED BY <2>5
<1>3. Nat \subseteq N
  <2> HIDE DEF N
  <2> QED BY <1>1, <1>2, ByInduction
<1> QED BY <1>3

LEMMA FlattenIsFlat ==
  ASSUME NEW K, NEW seqs \in Seq(Seq(K)), Len(seqs) > 0
  PROVE  \E f : Flat(f, seqs) /\ FlattenSeq(seqs) = f[Len(seqs)]
<1> DEFINE f == CHOOSE f : Flat(f, seqs)
<1>1. Flat(f, seqs)
  <2>1. Len(seqs) \in Nat
    OBVIOUS
  <2>2. \E g : Flat(g, seqs)
    BY <2>1, FlatExists DEF Flat
  <2> QED BY <2>2
<1>2. FlattenSeq(seqs) = f[Len(seqs)]
  BY DEF FlattenSeq, Flat, FlatTo
<1> QED BY <1>1, <1>2

(* The pool that flatMap makes holds kana of the chosen groups, all of     *)
(* them and none twice: its length is the sum of the sizes of the groups,  *)
(* for every choice of groups (KanaPracticePage.js:44-53,                  *)
(* KanaBattlePage.js:101-103).                                             *)
THEOREM PoolIsExact ==
  ASSUME NEW chosen \in SUBSET Groups
  PROVE  /\ Pool(chosen) \in Seq(chosen \X Nat)
         /\ Len(Pool(chosen)) = PoolSize(chosen)
         /\ Apart(Pool(chosen))
<1> DEFINE K == chosen \X Nat
           n == Len(GROUP_IDS)
           seqs == [i \in 1..n |-> IF GROUP_IDS[i] \in chosen THEN kanaCharGroups(GROUP_IDS[i]) ELSE <<>>]
           Till(k) == {g \in chosen : \E i \in 1..k : GROUP_IDS[i] = g}
<1>1. n \in Nat \ {0} /\ Len(seqs) = n /\ seqs \in Seq(Seq(K))
  <2>1. \A g \in chosen : kanaCharGroups(g) \in Seq(K)
    BY CharCountType DEF kanaCharGroups
  <2> QED BY <2>1, GroupIdsType
<1>2. ASSUME NEW k \in 1..n
      PROVE  IF GROUP_IDS[k] \in chosen
             THEN /\ seqs[k] \in Seq({GROUP_IDS[k]} \X Nat) /\ Len(seqs[k]) = CharCount(GROUP_IDS[k])
                  /\ Apart(seqs[k])
             ELSE seqs[k] = <<>>
  <2> DEFINE g == GROUP_IDS[k]
             s == kanaCharGroups(g)
  <2>1. s \in Seq({g} \X Nat) /\ Len(s) = CharCount(g)
    BY CharCountType DEF kanaCharGroups
  <2>2. Apart(s)
    BY CharCountType DEF kanaCharGroups, Apart
  <2>3. seqs[k] = IF g \in chosen THEN s ELSE <<>>
    OBVIOUS
  <2> HIDE DEF s, seqs
  <2> QED BY <2>1, <2>2, <2>3
<1>3. Pool(chosen) = FlattenSeq(seqs)
  BY DEF Pool
<1> HIDE DEF seqs
<1>4. PICK f : FlatTo(f, seqs, n) /\ FlattenSeq(seqs) = f[n]
  <2> HIDE DEF K, n
  <2>1. \E f : Flat(f, seqs) /\ FlattenSeq(seqs) = f[Len(seqs)]
    BY <1>1, FlattenIsFlat
  <2> QED BY <1>1, <2>1 DEF Flat
<1>5. \A i \in 1..n : f[i] = IF i = 1 THEN seqs[i] ELSE f[i-1] \o seqs[i]
  BY <1>4, Zenon DEF FlatTo
<1>6. \A k \in 0..n : IsFiniteSet(Till(k)) /\ PoolSize(Till(k)) \in Nat
  BY GroupIdsType, FS_Subset, PoolSizeType
<1>7. ASSUME NEW k \in 1..n
      PROVE  /\ GROUP_IDS[k] \notin Till(k-1)
             /\ Till(k) = IF GROUP_IDS[k] \in chosen THEN Till(k-1) \cup {GROUP_IDS[k]} ELSE Till(k-1)
             /\ PoolSize(Till(k)) = PoolSize(Till(k-1)) + Len(seqs[k])
  <2> DEFINE g == GROUP_IDS[k]
             A == Till(k-1)
             B == Till(k)
  <2>1. k \in 1..k /\ k - 1 \in 0..n /\ k \in 0..n
    BY <1>1
  <2>2. \A i \in 1..k : i = k \/ i \in 1..k-1
    OBVIOUS
  <2>3. \A i \in 1..k-1 : i \in 1..k /\ i \in 1..n /\ i # k
    BY <1>1
  <2>4. B = IF g \in chosen THEN A \cup {g} ELSE A
    BY <2>1, <2>2, <2>3
  <2>5. g \notin A
    BY <2>3, GroupIdsApart DEF Apart
  <2>6. IsFiniteSet(A) /\ IsFiniteSet(B) /\ PoolSize(A) \in Nat
    BY <1>6, <2>1
  <2> HIDE DEF A, B, g
  <2>7. CASE g \in chosen
    <3>1. g \in B /\ B \ {g} = A
      BY <2>4, <2>5, <2>7
    <3>2. PoolSize(B) = CharCount(g) + PoolSize(A) /\ CharCount(g) \in Nat
      BY <2>6, <3>1, PoolSizeAdds, CharCountType
    <3>3. Len(seqs[k]) = CharCount(g)
      BY <1>2, <2>7 DEF g
    <3>4. PoolSize(B) = PoolSize(A) + Len(seqs[k])
      BY <2>6, <3>2, <3>3
    <3> QED BY <2>4, <2>5, <3>4 DEF A, B, g
  <2>8. CASE g \notin chosen
    <3>1. Len(seqs[k]) = 0 /\ B = A
      <4>1. seqs[k] = <<>>
        BY <1>2, <2>8 DEF g
      <4> QED BY <2>4, <2>8, <4>1
    <3>2. PoolSize(B) = PoolSize(A) + Len(seqs[k])
      BY <2>6, <3>1
    <3> QED BY <2>4, <2>5, <3>2 DEF A, B, g
  <2> QED BY <2>7, <2>8
<1>8. PoolSize(Till(0)) = 0 /\ Till(0) = {}
  <2>1. Till(0) = {}
    OBVIOUS
  <2> QED BY <2>1, FS_EmptySet, PoolSizeType
<1>9. Till(n) = chosen
  BY GroupIdsType DEF Till
<1> HIDE DEF Till
<1> DEFINE Good(k) == /\ f[k] \in Seq(Till(k) \X Nat)
                      /\ Len(f[k]) = PoolSize(Till(k))
                      /\ Apart(f[k])
           N == {k \in Nat : k \in 1..n => Good(k)}
<1>10. ASSUME NEW k \in Nat, k \in N PROVE k + 1 \in N
  <2> SUFFICES ASSUME k + 1 \in 1..n PROVE Good(k + 1)
    OBVIOUS
  <2> DEFINE g == GROUP_IDS[k+1]
             s == seqs[k+1]
             A == Till(k)
             B == Till(k+1)
             T == B \X Nat
  <2>1. (k + 1) - 1 = k /\ k \in 0..n
    BY <1>1
  <2>2. /\ g \notin A /\ B = IF g \in chosen THEN A \cup {g} ELSE A
        /\ PoolSize(B) = PoolSize(A) + Len(s) /\ PoolSize(A) \in Nat
    BY <1>6, <1>7, <2>1
  <2>3. /\ s \in Seq({g} \X Nat) /\ s \in Seq(T) /\ Apart(s) /\ Len(s) \in Nat
        /\ \A i \in 1..Len(s) : s[i][1] = g
    <3> HIDE DEF s, g, B
    <3>1. CASE g \in chosen
      <4>1. s \in Seq({g} \X Nat) /\ Apart(s) /\ {g} \X Nat \subseteq T
        BY <1>2, <2>2, <3>1 DEF s, g
      <4>2. Len(s) \in Nat /\ \A i \in 1..Len(s) : s[i] \in {g} \X Nat
        BY <4>1
      <4> HIDE DEF T
      <4> QED BY <4>1, <4>2
    <3>2. CASE g \notin chosen
      <4>1. s = <<>>
        BY <1>2, <3>2 DEF s, g
      <4> QED BY <4>1 DEF Apart
    <3> QED BY <3>1, <3>2
  <2>4. CASE k = 0
    <3>1. f[k+1] = s
      BY <1>5, <2>4
    <3>2. PoolSize(B) = Len(s)
      BY <1>8, <2>2, <2>3, <2>4
    <3> HIDE DEF s, B
    <3> QED BY <2>3, <3>1, <3>2 DEF B
  <2>5. CASE k # 0
    <3>1. f[k+1] = f[k] \o s
      <4>1. k + 1 # 1 /\ (k + 1) - 1 = k
        BY <2>5
      <4> QED BY <1>5, <4>1
    <3>2. f[k] \in Seq(A \X Nat) /\ Len(f[k]) = PoolSize(A) /\ Apart(f[k])
      BY <1>10, <1>1, <2>5
    <3> HIDE DEF s, A, B, g
    <3>3. A \X Nat \subseteq T /\ \A i \in 1..Len(f[k]) : f[k][i][1] # g
      BY <2>2, <3>2
    <3> HIDE DEF T
    <3>4. f[k] \in Seq(T) /\ Len(f[k]) \in Nat
      BY <3>2, <3>3
    <3>5. f[k+1] \in Seq(T) /\ Len(f[k+1]) = Len(f[k]) + Len(s)
      BY <2>3, <3>1, <3>4, ConcatProperties
    <3>6. Len(f[k+1]) = PoolSize(B)
      BY <2>2, <2>3, <3>2, <3>5
    <3>7. Apart(f[k+1])
      <4>1. \A i \in 1..Len(f[k]) : \A j \in 1..Len(s) : f[k][i] # s[j]
        BY <2>3, <3>3
      <4> QED BY <2>3, <3>1, <3>2, <3>4, <4>1, ApartConcat
    <3> QED BY <3>5, <3>6, <3>7 DEF B, T
  <2> QED BY <2>4, <2>5
<1>11. Nat \subseteq N
  <2>1. 0 \in N
    OBVIOUS
  <2> HIDE DEF N
  <2> QED BY <1>10, <2>1, ByInduction
<1>12. Good(n)
  <2> HIDE DEF Good
  <2>1. n \in N /\ n \in 1..n
    BY <1>1, <1>11
  <2> QED BY <2>1
<1> QED BY <1>3, <1>4, <1>9, <1>12

LEMMA PlayablePool ==
  ASSUME NEW d \in SUBSET Groups, d # {}
  PROVE  PoolSize(d) \in Nat /\ PoolSize(d) > 0
<1>1. IsFiniteSet(d)
  BY GroupIdsType, FS_Subset
<1> QED BY <1>1, PoolSizeType

---------------------------------------------------------------------------
(* What a step of the browser may do to a socket S, which becomes T: close *)
(* or clear it, make it or lose it, open it, deliver from it, send on it.  *)
Same(S, T) == T.at = S.at /\ T.code = S.code /\ Keeps(S, T)

PageMoves(S, T) ==
  \/ T = S
  \/ /\ T.at = S.at \/ (S.at = "open" /\ T.at = "closed")
     /\ T.code = S.code /\ Keeps(S, T) /\ T.out = <<>>
     /\ T.inbox = S.inbox \/ (T.inbox = <<>> /\ T.at = "closed")
  \/ /\ S.at \in {"idle", "connecting"} /\ T.at \in {"connecting", "gone"}
     /\ T.joining = NoRoom /\ T.in = NoRoom /\ T.inbox = <<>> /\ T.out = <<>>
  \/ /\ S.at = "connecting" /\ T.at = "open" /\ T.code = S.code
     /\ T.joining = NoRoom /\ T.in = NoRoom /\ T.inbox = Append(<<>>, JoinRoom) /\ T.out = <<>>
  \/ /\ S.at = "open" /\ Same(S, T) /\ T.inbox = S.inbox
     /\ \E n \in 1..Len(S.out) : T.out = SubSeq(S.out, n + 1, Len(S.out))
  \/ /\ S.at = "open" /\ Same(S, T) /\ T.out = S.out /\ Len(S.inbox) < MaxPending
     /\ \E m \in Orders : m.type # "JOIN_ROOM" /\ T.inbox = Append(S.inbox, m)

\* The rooms, too, may change: one may be made.
RoomsApart ==
  /\ room' \in [Rooms -> RoomRecs]
  /\ \A r \in Rooms : RoomMoves(r)
  /\ \A r \in Rooms : room[r].phase # "none" => room'[r] = room[r]

LEMMA PageKeepsSockets ==
  ASSUME ServerTypes, SocketInv, RoomsApart, sock' \in [Sockets -> SocketRecs],
         \A s \in Sockets : PageMoves(sock[s], sock'[s])
  PROVE  SocketInv'
<1> SUFFICES ASSUME NEW s \in Sockets
             PROVE  LET S == sock'[s] IN
                    /\ S.at \in {"idle", "connecting", "gone"} =>
                         S.joining = NoRoom /\ S.in = NoRoom /\ S.inbox = <<>> /\ S.out = <<>>
                    /\ S.at # "open" => S.out = <<>>
                    /\ S.in # NoRoom => S.in = S.code /\ room'[S.in].phase \in Running
                    /\ S.joining # NoRoom =>
                         /\ S.joining = S.code /\ S.in = NoRoom /\ ~Joins(S) /\ S.out = <<>>
                         /\ S.joining \in Rooms /\ room'[S.joining].phase # "none"
                    /\ \A i \in 2..Len(S.inbox) : S.inbox[i].type # "JOIN_ROOM"
                    /\ Joins(S) => S.in = NoRoom /\ S.out = <<>>
                    /\ Len(S.inbox) <= MaxPending /\ Len(S.out) <= MaxQueue
  BY DEF SocketInv, Joins
<1> DEFINE S == sock[s]
           T == sock'[s]
<1>1. /\ S \in SocketRecs /\ T \in SocketRecs /\ PageMoves(S, T)
      /\ MaxQueue \in Nat \ {0} /\ MaxPending \in Nat \ {0}
  BY QueueAssumption DEF ServerTypes
<1>2. /\ S.at \in {"idle", "connecting", "gone"} =>
           S.joining = NoRoom /\ S.in = NoRoom /\ S.inbox = <<>> /\ S.out = <<>>
      /\ S.at # "open" => S.out = <<>>
      /\ S.in # NoRoom => S.in = S.code /\ room'[S.in].phase \in Running
      /\ S.joining # NoRoom =>
           /\ S.joining = S.code /\ S.in = NoRoom /\ ~Joins(S) /\ S.out = <<>>
           /\ S.joining \in Rooms /\ room'[S.joining].phase # "none"
      /\ \A i \in 2..Len(S.inbox) : S.inbox[i].type # "JOIN_ROOM"
      /\ Joins(S) => S.in = NoRoom /\ S.out = <<>>
      /\ Len(S.inbox) <= MaxPending /\ Len(S.out) <= MaxQueue
  <2>1. S.in # NoRoom => S.in \in Rooms /\ room[S.in].phase # "none"
    BY <1>1 DEF SocketInv, SocketRecs, Codes, Running
  <2> QED BY <2>1 DEF SocketInv, RoomsApart
<1>3. S.inbox \in Seq(Orders) /\ S.out \in Seq(Messages) /\ T.out \in Seq(Messages)
  BY <1>1 DEF SocketRecs
<1>4. Len(<<>>) = 0
  OBVIOUS
<1> SUFFICES /\ T.at \in {"idle", "connecting", "gone"} =>
                  T.joining = NoRoom /\ T.in = NoRoom /\ T.inbox = <<>> /\ T.out = <<>>
             /\ T.at # "open" => T.out = <<>>
             /\ T.in # NoRoom => T.in = T.code /\ T.in = S.in
             /\ T.joining # NoRoom =>
                  T.joining = T.code /\ T.joining = S.joining /\ T.in = NoRoom /\ ~Joins(T) /\ T.out = <<>>
             /\ \A i \in 2..Len(T.inbox) : T.inbox[i].type # "JOIN_ROOM"
             /\ Joins(T) => T.in = NoRoom /\ T.out = <<>>
             /\ Len(T.inbox) <= MaxPending /\ Len(T.out) <= MaxQueue
  BY <1>2
<1> HIDE DEF S, T
<1>5. CASE T = S
  BY <1>2, <1>5
<1>6. CASE /\ T.at = S.at \/ (S.at = "open" /\ T.at = "closed")
           /\ T.code = S.code /\ Keeps(S, T) /\ T.out = <<>>
           /\ T.inbox = S.inbox \/ (T.inbox = <<>> /\ T.at = "closed")
  BY <1>1, <1>2, <1>4, <1>6 DEF Joins, Keeps
<1>7. CASE /\ S.at \in {"idle", "connecting"} /\ T.at \in {"connecting", "gone"}
           /\ T.joining = NoRoom /\ T.in = NoRoom /\ T.inbox = <<>> /\ T.out = <<>>
  BY <1>1, <1>4, <1>7 DEF Joins
<1>8. CASE /\ S.at = "connecting" /\ T.at = "open" /\ T.code = S.code
           /\ T.joining = NoRoom /\ T.in = NoRoom /\ T.inbox = Append(<<>>, JoinRoom) /\ T.out = <<>>
  <2>1. Len(T.inbox) = 1
    BY <1>8
  <2> QED BY <1>1, <1>4, <1>8, <2>1
<1>9. CASE /\ S.at = "open" /\ Same(S, T) /\ T.inbox = S.inbox
           /\ \E n \in 1..Len(S.out) : T.out = SubSeq(S.out, n + 1, Len(S.out))
  BY <1>1, <1>2, <1>3, <1>9 DEF Same, Joins, Keeps
<1>10. CASE /\ S.at = "open" /\ Same(S, T) /\ T.out = S.out /\ Len(S.inbox) < MaxPending
            /\ \E m \in Orders : m.type # "JOIN_ROOM" /\ T.inbox = Append(S.inbox, m)
  <2>1. PICK m \in Orders : m.type # "JOIN_ROOM" /\ T.inbox = Append(S.inbox, m)
    BY <1>10
  <2>2. \A i \in 2..Len(T.inbox) : T.inbox[i].type # "JOIN_ROOM"
    BY <1>2, <1>3, <2>1
  <2>3. Joins(T) => Joins(S)
    BY <1>3, <2>1 DEF Joins
  <2>4. Len(T.inbox) <= MaxPending
    BY <1>1, <1>3, <1>10, <2>1
  <2> QED BY <1>2, <1>10, <2>2, <2>3, <2>4 DEF Same, Keeps
<1> QED BY <1>1, <1>5, <1>6, <1>7, <1>8, <1>9, <1>10 DEF PageMoves

LEMMA PageKeepsQueues ==
  ASSUME ServerTypes, SocketInv, QueueInv, \A s \in Sockets : PageMoves(sock[s], sock'[s])
  PROVE  QueueInv'
<1> SUFFICES ASSUME NEW s \in Sockets PROVE Meant(sock'[s].out)
  BY DEF QueueInv, Meant
<1> DEFINE S == sock[s]
           T == sock'[s]
<1>1. Meant(S.out) /\ PageMoves(S, T) /\ S.out \in Seq(Messages)
  BY DEF QueueInv, ServerTypes, SocketRecs
<1> SUFFICES Meant(T.out)
  OBVIOUS
<1> HIDE DEF S, T
<1>2. T.out = <<>> => Meant(T.out)
  BY DEF Meant
<1>3. ASSUME NEW n \in 1..Len(S.out), T.out = SubSeq(S.out, n + 1, Len(S.out))
      PROVE  Meant(T.out)
  <2>1. \A i \in 1..Len(T.out) : n + i \in 1..Len(S.out) /\ T.out[i] = S.out[n + i]
    BY <1>1, <1>3
  <2> QED BY <1>1, <2>1 DEF Meant
<1> QED BY <1>1, <1>2, <1>3 DEF PageMoves

(* The queue of a socket that sends nothing but JOIN_ROOM.                 *)
Sends(S, T) == Pending(T) /\ ~(Pending(S) /\ T.code = S.code)

LEMMA PageKeepsPending ==
  ASSUME ServerTypes, PageTypes, PendingInv, RoomsApart, PageTypes',
         \A s \in Sockets : ~Sends(sock[s], sock'[s]),
         strayed' = strayed,
         current' # 0 => \/ sock'[current'].in = NoRoom /\ sock'[current'].joining = NoRoom
                         \/ current' = current /\ Keeps(sock[current], sock'[current])
  PROVE  PendingInv'
<1>1. ASSUME NEW s \in Sockets, Pending(sock'[s]), sock'[s].code \notin strayed
      PROVE  /\ Pending(sock[s]) /\ sock'[s].code = sock[s].code
             /\ sock[s].code \in Rooms /\ room'[sock[s].code].phase \in Begun
  <2>1. Pending(sock[s]) /\ sock'[s].code = sock[s].code
    BY <1>1 DEF Sends
  <2>2. sock[s].code \in Rooms /\ room[sock[s].code].phase \in Begun
    BY <1>1, <2>1 DEF PendingInv
  <2> QED BY <2>1, <2>2, BegunStays DEF RoomsApart
<1>2. ASSUME NEW s \in Sockets \ {current'}, current' # 0, Pending(sock'[s]), sock'[s].code \notin strayed
      PROVE  sock'[s].code \notin {sock'[current'].in, sock'[current'].joining}
  <2>1. CASE sock'[current'].in = NoRoom /\ sock'[current'].joining = NoRoom
    BY <1>1, <1>2, <2>1, RoomAssumption
  <2>2. CASE current' = current /\ Keeps(sock[current], sock'[current])
    BY <1>1, <1>2, <2>2 DEF PendingInv, Keeps
  <2> QED BY <1>2, <2>1, <2>2
<1> QED BY <1>1, <1>2 DEF PendingInv, Pending

LEMMA ClosedTypes ==
  ASSUME NEW S \in SocketRecs
  PROVE  /\ LET X == [S EXCEPT !.at = "closed", !.out = <<>>]
            IN  /\ X \in SocketRecs /\ X.at = "closed" /\ X.out = <<>> /\ X.code = S.code
                /\ Keeps(S, X) /\ X.inbox = S.inbox /\ X.mine = S.mine
         /\ LET X == [S EXCEPT !.mine = FALSE, !.out = <<>>]
            IN  /\ X \in SocketRecs /\ X.at = S.at /\ X.out = <<>> /\ X.code = S.code /\ X.mine = FALSE
                /\ Keeps(S, X) /\ X.inbox = S.inbox
         /\ LET X == [S EXCEPT !.at = "closed", !.inbox = <<>>, !.out = <<>>]
            IN  /\ X \in SocketRecs /\ X.at = "closed" /\ X.out = <<>> /\ X.code = S.code
                /\ Keeps(S, X) /\ X.inbox = <<>> /\ X.mine = S.mine
<1>1. <<>> \in Seq(Messages) /\ <<>> \in Seq(Orders)
  OBVIOUS
<1> QED BY <1>1 DEF SocketRecs, Keeps

LEMMA ResetTypes ==
  ASSUME ViewReset
  PROVE  /\ gameState' \in PageStates /\ players' \in PlayerLists /\ hostId' \in People \cup {"none"}
         /\ definitions' \subseteq Groups /\ index' \in Nat /\ score' \in 0..MaxPoints
BY NobodyType, QueueAssumption DEF ViewReset, PageStates

(* The sockets when the effect is cleaned up.                              *)
LEMMA CleanupCloses ==
  ASSUME ServerTypes, PageTypes
  PROVE  /\ Cleanup(sock) \in [Sockets -> SocketRecs]
         /\ \A s \in Sockets :
              LET S == sock[s]
                  T == Cleanup(sock)[s]
              IN  /\ T = S \/ (S.at = "open" /\ T.at = "closed" /\ T.out = <<>>)
                  /\ T.code = S.code /\ Keeps(S, T) /\ T.inbox = S.inbox /\ T.mine = S.mine
<1>1. CASE current # 0 /\ sock[current].at = "open"
  <2>1. current \in Sockets /\ sock[current] \in SocketRecs
    BY <1>1 DEF PageTypes, ServerTypes
  <2> DEFINE X == [sock[current] EXCEPT !.at = "closed", !.out = <<>>]
  <2>2. /\ X \in SocketRecs /\ X.at = "closed" /\ X.out = <<>> /\ X.code = sock[current].code
        /\ Keeps(sock[current], X) /\ X.inbox = sock[current].inbox /\ X.mine = sock[current].mine
    BY <2>1, ClosedTypes
  <2>3. Cleanup(sock) = [sock EXCEPT ![current] = X]
    BY <1>1, <2>1 DEF Cleanup, ServerTypes
  <2> HIDE DEF X
  <2> QED BY <1>1, <2>1, <2>2, <2>3 DEF ServerTypes, Keeps
<1>2. CASE ~(current # 0 /\ sock[current].at = "open")
  BY <1>2 DEF Cleanup, ServerTypes, Keeps
<1> QED BY <1>1, <1>2

LEMMA ConnectOpens ==
  ASSUME ServerTypes, PageTypes, NEW c \in Codes, Connect(c)
  PROVE  /\ current' \in Sockets /\ sock[current'].at = "idle"
         /\ sock' \in [Sockets -> SocketRecs]
         /\ LET T == sock'[current'] IN
              /\ T.at = "connecting" /\ T.code = c /\ T.mine
              /\ T.joining = NoRoom /\ T.in = NoRoom /\ T.inbox = <<>> /\ T.out = <<>>
         /\ \A s \in Sockets :
              PageMoves(sock[s], sock'[s]) /\ ~Sends(sock[s], sock'[s])
<1>1. NextSocket \in Sockets /\ sock[NextSocket].at = "idle"
  <2>1. Fresh \subseteq Nat /\ Fresh # {}
    BY SocketAssumption DEF Fresh, Connect
  <2>2. \E s \in Fresh : \A t \in Fresh : s <= t
    BY <2>1, LeastNat
  <2>3. NextSocket \in Fresh
    BY <2>2 DEF NextSocket
  <2> QED BY <2>3 DEF Fresh
<1> DEFINE n == NextSocket
           X == [NoSocket EXCEPT !.at = "connecting", !.code = c, !.mine = TRUE]
<1>2. /\ X \in SocketRecs /\ X.at = "connecting" /\ X.code = c /\ X.mine = TRUE
      /\ X.joining = NoRoom /\ X.in = NoRoom /\ X.inbox = <<>> /\ X.out = <<>>
  BY NoSocketType DEF SocketRecs
<1>3. current' = n /\ sock' = [Cleanup(sock) EXCEPT ![n] = X]
  BY DEF Connect
<1>4. /\ sock' \in [Sockets -> SocketRecs] /\ sock'[n] = X
      /\ \A s \in Sockets \ {n} : sock'[s] = Cleanup(sock)[s]
  BY <1>1, <1>2, <1>3, CleanupCloses
<1>5. PageMoves(sock[n], X) /\ ~Sends(sock[n], X)
  <2>1. ~Pending(X)
    BY <1>2 DEF Pending, Has
  <2> HIDE DEF X
  <2> QED BY <1>1, <1>2, <2>1 DEF PageMoves, Sends
<1> HIDE DEF n, X
<1>6. ASSUME NEW s \in Sockets \ {n} PROVE PageMoves(sock[s], sock'[s]) /\ ~Sends(sock[s], sock'[s])
  <2> DEFINE S == sock[s]
             T == Cleanup(sock)[s]
  <2>1. /\ T = S \/ (S.at = "open" /\ T.at = "closed" /\ T.out = <<>>)
        /\ T.code = S.code /\ Keeps(S, T) /\ T.inbox = S.inbox
    BY CleanupCloses
  <2>2. sock'[s] = T
    BY <1>4
  <2> HIDE DEF S, T
  <2>3. PageMoves(S, T) /\ ~Sends(S, T)
    BY <2>1 DEF PageMoves, Sends, Pending
  <2> QED BY <2>2, <2>3 DEF S
<1> QED BY <1>1, <1>2, <1>3, <1>4, <1>5, <1>6 DEF n

(* A battle page opens, turns to another room, or gets a new token.        *)
ViewRests ==
  \/ ViewReset /\ muddled' = FALSE /\ carried' = FALSE
  \/ /\ UNCHANGED viewVars /\ muddled' \in BOOLEAN /\ carried' = carried
     /\ ~muddled' => ~muddled /\ (code' = code \/ gameState # "PLAYING")

LEMMA ConnectKeeps ==
  ASSUME BattleInv, NEW c \in Codes, Connect(c), code' = c, route' = "battle", user, user' = user,
         RoomsApart, ViewRests, strayed' = strayed
  PROVE  BattleInv'
<1>1. /\ current' \in Sockets /\ sock[current'].at = "idle"
      /\ sock' \in [Sockets -> SocketRecs]
      /\ sock'[current'].at = "connecting" /\ sock'[current'].code = c /\ sock'[current'].mine
      /\ sock'[current'].in = NoRoom /\ sock'[current'].joining = NoRoom
      /\ \A s \in Sockets : PageMoves(sock[s], sock'[s]) /\ ~Sends(sock[s], sock'[s])
  BY ConnectOpens DEF BattleInv
<1>2. ServerTypes'
  BY <1>1 DEF ServerTypes, RoomsApart
<1>3. PageTypes'
  <2>1. /\ gameState' \in PageStates /\ players' \in PlayerLists /\ hostId' \in People \cup {"none"}
        /\ definitions' \subseteq Groups /\ index' \in Nat /\ score' \in 0..MaxPoints
        /\ muddled' \in BOOLEAN /\ carried' \in BOOLEAN
    BY ResetTypes DEF BattleInv, PageTypes, ViewRests, viewVars
  <2> QED BY <1>1, <2>1 DEF BattleInv, PageTypes
<1>4. SocketInv' /\ RoomInv'
  BY <1>1, PageKeepsSockets, ServerKeepsRooms DEF BattleInv, RoomsApart
<1>10. QueueInv'
  BY <1>1, PageKeepsQueues DEF BattleInv
<1>5. current' # 0
  BY <1>1, SocketAssumption
<1>6. CurrentInv'
  BY <1>1, <1>5 DEF CurrentInv
<1>7. FollowInv' /\ ScoreInv'
  BY <1>1 DEF FollowInv, ScoreInv
<1>8. PlayInv'
  <2>1. CASE ViewReset
    BY <2>1 DEF ViewReset, PlayInv
  <2>2. CASE UNCHANGED <<viewVars, carried>> /\ (~muddled' => ~muddled /\ (code' = code \/ gameState # "PLAYING"))
    <3> SUFFICES ASSUME gameState = "PLAYING", ~muddled, code' = code, UNCHANGED <<viewVars, carried>> PROVE PlayInv'
      BY <2>2 DEF PlayInv, viewVars
    <3>1. /\ definitions # {} /\ (~carried => index < PoolSize(definitions))
          /\ code \in Rooms /\ room[code].phase \in Begun
      BY DEF BattleInv, PlayInv
    <3>2. room'[code].phase \in Begun
      BY <3>1, BegunStays DEF RoomsApart
    <3> QED BY <3>1, <3>2 DEF PlayInv, viewVars
  <2> QED BY <2>1, <2>2 DEF ViewRests
<1>9. PendingInv'
  BY <1>1, <1>3, PageKeepsPending DEF BattleInv
<1> QED BY <1>2, <1>3, <1>4, <1>6, <1>7, <1>8, <1>9, <1>10 DEF BattleInv

(* The battle page goes.                                                   *)
LEMMA UnmountKeeps ==
  ASSUME BattleInv, Unmount, room' = room, strayed' = strayed, user' \in BOOLEAN,
         route' \in {"practice", "landing", "away"}
  PROVE  BattleInv'
<1>1. /\ sock' \in [Sockets -> SocketRecs]
      /\ \A s \in Sockets : PageMoves(sock[s], sock'[s]) /\ ~Sends(sock[s], sock'[s])
      /\ \A s \in Sockets : ~sock'[s].mine /\ sock'[s].out = <<>>
  <2> DEFINE C == Cleanup(sock)
  <2>1. /\ C \in [Sockets -> SocketRecs]
        /\ \A s \in Sockets :
             /\ C[s] = sock[s] \/ (sock[s].at = "open" /\ C[s].at = "closed" /\ C[s].out = <<>>)
             /\ C[s].code = sock[s].code /\ Keeps(sock[s], C[s]) /\ C[s].inbox = sock[s].inbox
    BY CleanupCloses DEF BattleInv
  <2>2. sock' = [s \in Sockets |-> [C[s] EXCEPT !.mine = FALSE, !.out = <<>>]]
    BY DEF Unmount
  <2> HIDE DEF C
  <2>3. ASSUME NEW s \in Sockets
        PROVE  /\ sock'[s] \in SocketRecs
               /\ sock'[s].at = C[s].at /\ sock'[s].code = C[s].code /\ Keeps(C[s], sock'[s])
               /\ sock'[s].inbox = C[s].inbox /\ sock'[s].out = <<>> /\ sock'[s].mine = FALSE
    <3>1. C[s] \in SocketRecs /\ sock'[s] = [C[s] EXCEPT !.mine = FALSE, !.out = <<>>]
      BY <2>1, <2>2
    <3> QED BY <3>1, ClosedTypes
  <2>4. ASSUME NEW s \in Sockets PROVE PageMoves(sock[s], sock'[s]) /\ ~Sends(sock[s], sock'[s])
    <3> DEFINE S == sock[s]
               T == sock'[s]
    <3>1. /\ T.at = S.at \/ (S.at = "open" /\ T.at = "closed")
          /\ T.code = S.code /\ Keeps(S, T) /\ T.out = <<>> /\ T.inbox = S.inbox
      BY <2>1, <2>3 DEF Keeps
    <3> HIDE DEF S, T
    <3>2. PageMoves(S, T) /\ ~Sends(S, T)
      BY <3>1 DEF PageMoves, Sends, Pending
    <3> QED BY <3>2 DEF S, T
  <2>5. sock' \in [Sockets -> SocketRecs]
    BY <2>2, <2>3
  <2> QED BY <2>3, <2>4, <2>5
<1>2. /\ current' = 0 /\ code' = NoRoom /\ muddled' = FALSE /\ carried' = FALSE /\ gameState' = "CONNECTING"
      /\ players' = Nobody /\ hostId' = "none" /\ definitions' = {} /\ index' = 0 /\ score' = 0
  BY DEF Unmount, ViewReset
<1>3. ServerTypes' /\ RoomsApart
  BY <1>1 DEF BattleInv, ServerTypes, RoomsApart, RoomMoves, Onward
<1>4. PageTypes'
  <2>1. ViewReset
    BY DEF Unmount
  <2> QED BY <1>2, <2>1, ResetTypes DEF BattleInv, PageTypes, Codes
<1>5. SocketInv' /\ RoomInv'
  BY <1>1, <1>3, PageKeepsSockets, ServerKeepsRooms DEF BattleInv, RoomsApart
<1>6. CurrentInv' /\ FollowInv' /\ PlayInv' /\ ScoreInv'
  BY <1>1, <1>2 DEF CurrentInv, FollowInv, PlayInv, ScoreInv
<1>7. PendingInv'
  BY <1>1, <1>2, <1>3, <1>4, PageKeepsPending DEF BattleInv
<1>8. QueueInv'
  BY <1>1, PageKeepsQueues DEF BattleInv
<1> QED BY <1>3, <1>4, <1>5, <1>6, <1>7, <1>8 DEF BattleInv

(* A step of one socket, s, that changes no room.                          *)
LEMMA OneSocketKeeps ==
  ASSUME BattleInv, NEW s \in Sockets, NEW X \in SocketRecs, sock' = [sock EXCEPT ![s] = X],
         PageMoves(sock[s], X), room' = room
  PROVE  /\ ServerTypes' /\ SocketInv' /\ RoomInv' /\ QueueInv' /\ RoomsApart
         /\ sock'[s] = X /\ \A t \in Sockets \ {s} : sock'[t] = sock[t]
<1>1. sock' \in [Sockets -> SocketRecs] /\ sock'[s] = X /\ \A t \in Sockets \ {s} : sock'[t] = sock[t]
  BY DEF BattleInv, ServerTypes
<1>2. \A t \in Sockets : PageMoves(sock[t], sock'[t])
  BY <1>1 DEF PageMoves
<1>3. RoomsApart /\ ServerTypes'
  BY <1>1 DEF BattleInv, ServerTypes, RoomsApart, RoomMoves, Onward
<1>4. SocketInv' /\ RoomInv' /\ QueueInv'
  BY <1>1, <1>2, <1>3, PageKeepsSockets, PageKeepsQueues, ServerKeepsRooms DEF BattleInv, RoomsApart
<1> QED BY <1>1, <1>3, <1>4

(* The same, when the socket sends no score.                               *)
LEMMA OneSocketPends ==
  ASSUME BattleInv, NEW s \in Sockets, NEW X \in SocketRecs, sock' = [sock EXCEPT ![s] = X],
         PageMoves(sock[s], X), ~Sends(sock[s], X), Keeps(sock[s], X), room' = room,
         PageTypes', strayed' = strayed, current' = current
  PROVE  PendingInv'
<1>1. /\ RoomsApart /\ sock'[s] = X /\ \A t \in Sockets \ {s} : sock'[t] = sock[t]
  BY OneSocketKeeps
<1>2. \A t \in Sockets : ~Sends(sock[t], sock'[t]) /\ Keeps(sock[t], sock'[t])
  BY <1>1 DEF Sends, Keeps
<1>3. current # 0 => Keeps(sock[current], sock'[current])
  BY <1>2 DEF BattleInv, PageTypes
<1> QED BY <1>1, <1>2, <1>3, PageKeepsPending DEF BattleInv

\* What stays when no answer is given.
StaysOn == UNCHANGED <<code, user, current, route, strayed>>

LEMMA OpenKeeps ==
  ASSUME BattleInv, NEW s \in Sockets, Open(s), room' = room, StaysOn, UNCHANGED <<viewVars, histories>>
  PROVE  BattleInv'
<1> DEFINE S == sock[s]
           X == [Send(s, JoinRoom) EXCEPT !.at = "open"]
<1>1. S \in SocketRecs /\ S.at = "connecting" /\ S.joining = NoRoom /\ S.in = NoRoom /\ S.inbox = <<>> /\ S.out = <<>>
  BY DEF BattleInv, ServerTypes, SocketInv, Open
<1>2. /\ X \in SocketRecs /\ X.at = "open" /\ X.inbox = Append(<<>>, JoinRoom)
      /\ X.code = S.code /\ X.joining = NoRoom /\ X.in = NoRoom /\ X.out = <<>> /\ X.mine = S.mine
  <2>1. Append(<<>>, JoinRoom) \in Seq(Orders)
    <3>1. JoinRoom \in Orders
      BY QueueAssumption DEF JoinRoom, Orders
    <3> QED BY <3>1
  <2> QED BY <1>1, <2>1 DEF Send, SocketRecs
<1>3. sock' = [sock EXCEPT ![s] = X]
  BY DEF Open
<1> HIDE DEF X, S
<1>4. Joins(X) /\ ~Pending(X)
  <2>1. X.inbox # <<>> /\ Len(X.inbox) = 1 /\ X.inbox[1] = JoinRoom /\ Head(X.inbox) = JoinRoom
    BY <1>2
  <2>2. JoinRoom.type = "JOIN_ROOM"
    BY DEF JoinRoom
  <2> QED BY <2>1, <2>2 DEF Joins, Pending, Has
<1>5. PageMoves(S, X) /\ ~Sends(S, X)
  BY <1>1, <1>2, <1>4 DEF PageMoves, Sends
<1>6. /\ ServerTypes' /\ SocketInv' /\ RoomInv' /\ QueueInv'
      /\ sock'[s] = X /\ \A t \in Sockets \ {s} : sock'[t] = sock[t]
  BY <1>2, <1>3, <1>5, OneSocketKeeps DEF S
<1>7. PageTypes'
  BY DEF BattleInv, PageTypes, StaysOn, viewVars, histories
<1>8. PendingInv'
  BY <1>1, <1>2, <1>3, <1>5, <1>7, OneSocketPends DEF S, StaysOn, Keeps
<1>9. current # 0 => current \in Sockets
  BY DEF BattleInv, PageTypes
<1>10. CurrentInv'
  BY <1>1, <1>2, <1>6, <1>9 DEF BattleInv, CurrentInv, StaysOn, viewVars, histories, S
<1>11. FollowInv'
  <2>1. CASE current = s
    BY <1>2, <1>4, <1>6, <2>1 DEF FollowInv, Joining, Joins, StaysOn
  <2>2. CASE current # s
    BY <1>6, <1>9, <2>2 DEF BattleInv, FollowInv, StaysOn, viewVars, histories, view, Joining, Refused, Member, Joins
  <2> QED BY <2>1, <2>2
<1>12. PlayInv'
  BY DEF BattleInv, PlayInv, StaysOn, viewVars, histories
<1>13. ScoreInv'
  <2>1. CASE current = s
    BY <1>2, <1>6, <2>1, RoomAssumption DEF ScoreInv, StaysOn
  <2>2. CASE current # s
    <3>1. \A t \in Sockets : sock'[t].code = code /\ Pending(sock'[t]) => sock[t].code = code /\ Pending(sock[t])
      BY <1>2, <1>4, <1>6
    <3> QED BY <1>6, <1>9, <2>2, <3>1 DEF BattleInv, ScoreInv, StaysOn, viewVars, histories, Arrives, Unscored, Pending, Has
  <2> QED BY <2>1, <2>2
<1> QED BY <1>6, <1>7, <1>8, <1>10, <1>11, <1>12, <1>13 DEF BattleInv

LEMMA BreakKeeps ==
  ASSUME BattleInv, NEW s \in Sockets, Break(s), room' = room, StaysOn, UNCHANGED <<viewVars, histories>>
  PROVE  BattleInv'
<1> DEFINE S == sock[s]
<1>1. /\ S \in SocketRecs
      /\ S.at = "connecting" => S.joining = NoRoom /\ S.in = NoRoom /\ S.inbox = <<>> /\ S.out = <<>>
  BY DEF BattleInv, ServerTypes, SocketInv
<1>2. PICK X \in SocketRecs :
        /\ sock' = [sock EXCEPT ![s] = X]
        /\ \/ /\ S.at = "connecting" /\ X.at = "gone"
              /\ X.joining = NoRoom /\ X.in = NoRoom /\ X.inbox = <<>> /\ X.out = <<>>
           \/ /\ S.at = "open" /\ X.at = "closed" /\ X.code = S.code /\ Keeps(S, X) /\ X.mine = S.mine
              /\ X.inbox = <<>> /\ X.out = <<>>
  <2>1. CASE S.at = "connecting" /\ sock' = [sock EXCEPT ![s] = [NoSocket EXCEPT !.at = "gone"]]
    <3>1. LET X == [NoSocket EXCEPT !.at = "gone"] IN
          X \in SocketRecs /\ X.at = "gone" /\ X.joining = NoRoom /\ X.in = NoRoom /\ X.inbox = <<>> /\ X.out = <<>>
      BY NoSocketType DEF SocketRecs
    <3> QED BY <2>1, <3>1
  <2>2. CASE S.at = "open" /\ sock' = [sock EXCEPT ![s].at = "closed", ![s].inbox = <<>>, ![s].out = <<>>]
    <3> DEFINE X == [S EXCEPT !.at = "closed", !.inbox = <<>>, !.out = <<>>]
    <3>1. sock' = [sock EXCEPT ![s] = X]
      BY <2>2 DEF BattleInv, ServerTypes
    <3>2. /\ X \in SocketRecs /\ X.at = "closed" /\ X.out = <<>> /\ X.code = S.code
          /\ Keeps(S, X) /\ X.inbox = <<>> /\ X.mine = S.mine
      BY <1>1, ClosedTypes
    <3> HIDE DEF X
    <3> QED BY <2>2, <3>1, <3>2
  <2> QED BY <2>1, <2>2 DEF Break
<1> HIDE DEF S
<1>3. ~Pending(X) /\ X.at # "open" /\ X.at # "idle" /\ Keeps(S, X)
  BY <1>1, <1>2 DEF Pending, Has, Keeps
<1>4. PageMoves(S, X) /\ ~Sends(S, X)
  BY <1>2, <1>3 DEF PageMoves, Sends
<1>5. /\ ServerTypes' /\ SocketInv' /\ RoomInv' /\ QueueInv'
      /\ sock'[s] = X /\ \A t \in Sockets \ {s} : sock'[t] = sock[t]
  BY <1>2, <1>4, OneSocketKeeps DEF S
<1>6. PageTypes'
  BY DEF BattleInv, PageTypes, StaysOn, viewVars, histories
<1>7. PendingInv'
  BY <1>2, <1>3, <1>4, <1>6, OneSocketPends DEF S, StaysOn
<1>8. current # 0 => current \in Sockets
  BY DEF BattleInv, PageTypes
<1>9. CurrentInv'
  BY <1>2, <1>3, <1>5, <1>8 DEF BattleInv, CurrentInv, StaysOn, viewVars, histories, S
<1>10. FollowInv'
  BY <1>3, <1>5, <1>8 DEF BattleInv, FollowInv, StaysOn, viewVars, histories, view, Joining, Refused, Member, Joins
<1>11. PlayInv'
  BY DEF BattleInv, PlayInv, StaysOn, viewVars, histories
<1>12. ScoreInv'
  <2>1. \A t \in Sockets : sock'[t].code = code /\ Pending(sock'[t]) => sock[t].code = code /\ Pending(sock[t])
    BY <1>3, <1>5
  <2> QED BY <1>3, <1>5, <1>8, <2>1 DEF BattleInv, ScoreInv, StaysOn, viewVars, histories, Arrives, Unscored, Pending, Has
<1> QED BY <1>5, <1>6, <1>7, <1>9, <1>10, <1>11, <1>12 DEF BattleInv

(* A message about a room leaves the page in a state of its type.          *)
LEMMA HandleTypes ==
  ASSUME ServerTypes, PageTypes, NEW m \in Messages, Handle(m),
         m.type # "ERROR" => m.room \in Rooms /\ m.phase \in Running
  PROVE  /\ gameState' \in PageStates /\ players' \in PlayerLists /\ hostId' \in People \cup {"none"}
         /\ definitions' \subseteq Groups /\ index' \in Nat /\ score' \in 0..MaxPoints
<1>1. m.players \in PlayerLists /\ 0 \in 0..MaxPoints /\ 0 \in Nat
  BY QueueAssumption DEF Messages
<1>2. m.type # "ERROR" => room[m.room].host \in People \cup {"none"} /\ room[m.room].groups \subseteq Groups
  BY DEF ServerTypes, RoomRecs
<1>3. m.type # "ERROR" => (IF m.phase = "WAITING" THEN "LOBBY" ELSE m.phase) \in PageStates
  BY DEF Running, PageStates
<1>4. {"ERROR", "PLAYING", "FINISHED"} \subseteq PageStates
  BY DEF PageStates
<1> QED BY <1>1, <1>2, <1>3, <1>4 DEF Handle, PageTypes, IndexAtStart

(* The step of handleMessage is the step of After.                         *)
LEMMA HandleShows ==
  ASSUME ServerTypes, PageTypes, NEW m \in Messages, Handle(m), m.type # "ERROR", m.room \in Rooms,
         m.type \in {"GAME_STARTED", "SCORE_UPDATE"} => m.phase = "PLAYING",
         m.type = "GAME_OVER" => m.phase = "FINISHED"
  PROVE  /\ view' = After(m, room[m.room], view)
         /\ m.type # "GAME_STARTED" => index' = index /\ score' = score
         /\ m.type = "GAME_STARTED" => index' = 0 /\ score' = 0
<1>1. view \in Views /\ view.gs = gameState /\ view.pl = players /\ view.h = hostId /\ view.d = definitions
  BY ViewTypes
<1>2. /\ gameState' = IF m.type = "SCORE_UPDATE" THEN gameState ELSE Shows(m.phase)
      /\ players' = IF m.type = "GAME_STARTED" THEN players ELSE m.players
      /\ hostId' = IF m.type = "ROOM_STATE" THEN room[m.room].host ELSE hostId
      /\ definitions' = IF m.type = "ROOM_STATE" THEN room[m.room].groups ELSE definitions
  BY DEF Handle, Shows
<1>3. /\ m.type # "GAME_STARTED" => index' = index /\ score' = score
      /\ m.type = "GAME_STARTED" => index' = 0 /\ score' = 0
  BY DEF Handle, IndexAtStart
<1> QED BY <1>1, <1>2, <1>3 DEF After, view

LEMMA DeliverKeeps ==
  ASSUME BattleInv, NEW s \in Sockets, NEW n \in Nat, Deliver(s, n), room' = room, StaysOn
  PROVE  BattleInv'
<1> DEFINE S == sock[s]
           X == [S EXCEPT !.out = SubSeq(S.out, n + 1, Len(S.out))]
<1>1. /\ S \in SocketRecs /\ S.at = "open" /\ S.out \in Seq(Messages) /\ Meant(S.out)
      /\ n \in 1..Len(S.out) /\ S.out[1] \in Messages /\ S.out # <<>> /\ Len(S.out) \in Nat \ {0}
  BY DEF BattleInv, ServerTypes, QueueInv, SocketRecs, Deliver
<1>2. /\ X \in SocketRecs /\ X.at = "open" /\ Same(S, X) /\ X.mine = S.mine /\ X.inbox = S.inbox
      /\ X.out = SubSeq(S.out, n + 1, Len(S.out))
  <2>1. SubSeq(S.out, n + 1, Len(S.out)) \in Seq(Messages)
    BY <1>1
  <2> QED BY <1>1, <2>1 DEF SocketRecs, Same, Keeps
<1>3. sock' = [sock EXCEPT ![s] = X]
  BY DEF Deliver, BattleInv, ServerTypes
<1>4. /\ IF n = 1 THEN Handle(S.out[1]) ELSE UNCHANGED viewVars
      /\ muddled' = (muddled \/ n > 1 \/ s # current)
      /\ carried' = IF n = 1 THEN (carried /\ S.out[1].type # "GAME_STARTED") \/ EntersLate(S.out[1]) ELSE carried
      /\ route' = route /\ current' = current /\ code' = code /\ strayed' = strayed /\ user' = user
  BY DEF Deliver, StaysOn
<1> HIDE DEF X, S
<1>5. PageMoves(S, X) /\ ~Sends(S, X) /\ Keeps(S, X)
  BY <1>1, <1>2 DEF PageMoves, Sends, Pending, Same
<1>6. /\ ServerTypes' /\ SocketInv' /\ RoomInv' /\ QueueInv'
      /\ sock'[s] = X /\ \A t \in Sockets \ {s} : sock'[t] = sock[t]
  BY <1>2, <1>3, <1>5, OneSocketKeeps DEF S
<1>7. PageTypes'
  <2>1. S.out[1].type # "ERROR" => S.out[1].room \in Rooms /\ S.out[1].phase \in Running
    BY <1>1 DEF Meant
  <2>2. /\ gameState' \in PageStates /\ players' \in PlayerLists /\ hostId' \in People \cup {"none"}
        /\ definitions' \subseteq Groups /\ index' \in Nat /\ score' \in 0..MaxPoints
    BY <1>1, <1>4, <2>1, HandleTypes DEF BattleInv, PageTypes, viewVars
  <2>3. carried' \in BOOLEAN
    BY <1>4 DEF BattleInv, PageTypes, EntersLate
  <2> QED BY <1>4, <2>2, <2>3 DEF BattleInv, PageTypes
<1>8. PendingInv'
  BY <1>2, <1>3, <1>4, <1>5, <1>7, OneSocketPends DEF S
<1>9. current # 0 /\ current \in Sockets
  <2>1. current # 0
    BY <1>1 DEF BattleInv, CurrentInv, S
  <2> QED BY <2>1 DEF BattleInv, PageTypes
<1>10. CurrentInv'
  BY <1>1, <1>2, <1>4, <1>6, <1>9 DEF BattleInv, CurrentInv, S, Same
<1>11. CASE muddled'
  <2>1. FollowInv' /\ PlayInv' /\ ScoreInv'
    BY <1>11 DEF FollowInv, PlayInv, ScoreInv
  <2> QED BY <1>6, <1>7, <1>8, <1>10, <2>1 DEF BattleInv
<1>12. CASE ~muddled'
  <2> DEFINE m == S.out[1]
             R == room[code]
  <2>1. ~muddled /\ n = 1 /\ s = current /\ S = sock[current] /\ Handle(m)
    <3>1. ~muddled /\ ~(n > 1) /\ s = current
      BY <1>4, <1>12, <1>7 DEF PageTypes, BattleInv
    <3> QED BY <1>1, <1>4, <3>1 DEF S
  <2>2. X.out = Tail(S.out) /\ (\A i \in 1..Len(X.out) : i + 1 \in 1..Len(S.out) /\ X.out[i] = S.out[i + 1])
    <3>1. X.out = Tail(S.out)
      BY <1>1, <1>2, <2>1
    <3> QED BY <1>1, <3>1
  <2>3. Joins(X) <=> Joins(S)
    BY <1>2 DEF Joins
  <2>4. \/ S.in = NoRoom /\ S.joining = NoRoom /\ ~Joins(S) /\ S.out = Append(<<>>, ErrorMsg)
        \/ Member(S, code, R, view)
    BY <1>1, <1>9, <2>1 DEF BattleInv, FollowInv, Joining, Refused
  <2>5. CASE S.in = NoRoom /\ S.joining = NoRoom /\ ~Joins(S) /\ S.out = Append(<<>>, ErrorMsg)
    <3>1. m.type = "ERROR" /\ X.out = <<>>
      BY <2>2, <2>5 DEF ErrorMsg, Msg
    <3>2. gameState' = "ERROR"
      BY <2>1, <3>1 DEF Handle
    <3>3. Refused(X, gameState')
      BY <1>5, <2>3, <2>5, <3>1, <3>2 DEF Refused, Keeps
    <3>4. FollowInv'
      BY <1>4, <1>6, <2>1, <3>3 DEF FollowInv, Refused, Joins
    <3>5. PlayInv'
      BY <3>2 DEF PlayInv
    <3>6. ScoreInv'
      <4>1. X.in = NoRoom /\ X.joining = NoRoom
        BY <1>5, <2>5 DEF Keeps
      <4> QED BY <1>4, <1>6, <2>1, <4>1, RoomAssumption DEF ScoreInv
    <3> QED BY <1>6, <1>7, <1>8, <1>10, <3>4, <3>5, <3>6 DEF BattleInv
  <2>6. CASE Member(S, code, R, view)
    <3>1. S.in = code /\ code \in Rooms /\ ~Joins(S) /\ Follows(S.out, code, R, view) /\ R \in RoomRecs
      BY <2>6 DEF Member, BattleInv, ServerTypes
    <3>2. /\ m.room = code /\ m.type # "ERROR"
          /\ m.type \in {"ROOM_STATE", "GAME_STARTED", "SCORE_UPDATE", "GAME_OVER"}
          /\ m.type \in {"GAME_STARTED", "SCORE_UPDATE"} => m.phase = "PLAYING"
          /\ m.type = "GAME_OVER" => m.phase = "FINISHED"
      <4>1. OfRoom(S.out, code) /\ 1 \in 1..Len(S.out)
        BY <1>1, <3>1 DEF Follows
      <4> QED BY <4>1 DEF OfRoom
    <3>3. /\ view' = After(m, R, view)
          /\ m.type # "GAME_STARTED" => index' = index /\ score' = score
          /\ m.type = "GAME_STARTED" => index' = 0 /\ score' = 0
      BY <1>1, <2>1, <3>1, <3>2, HandleShows DEF BattleInv
    <3>4. view \in Views /\ view.gs = gameState /\ view.d = definitions
      BY ViewTypes DEF BattleInv
    <3>5. view'.gs = gameState' /\ view'.d = definitions'
      BY DEF view
    <3>6. /\ Follows(X.out, code, R, view')
          /\ gameState = "PLAYING" /\ gameState' # "PLAYING" => \A i \in 1..Len(X.out) : ~Game(X.out[i])
      BY <1>1, <2>2, <3>1, <3>3, <3>4, <3>5, OneLessFollows
    <3>7. FollowInv'
      <4>1. Member(X, code, R, view')
        BY <1>5, <2>3, <3>1, <3>6 DEF Member, Keeps
      <4>2. Member(X, code, R, view')  => FollowInv'
        BY <1>4, <1>6, <2>1 DEF FollowInv, Member, Joins
      <4> QED BY <4>1, <4>2
    <3>8. R.phase \in Running /\ R.groups # {} /\ R.groups \subseteq Groups
      <4>1. R.phase \in Running
        BY <3>1, RoomAssumption DEF BattleInv, SocketInv, S
      <4> QED BY <3>1, <4>1 DEF BattleInv, RoomInv, RoomRecs, Running
    <3>9. gameState' = "PLAYING" /\ gameState # "PLAYING" => Game(m)
      BY <2>1, <3>2 DEF Handle, Game
    <3>10. PlayInv'
      <4> SUFFICES ASSUME gameState' = "PLAYING"
                   PROVE  /\ definitions' # {} /\ (~carried' => index' < PoolSize(definitions'))
                          /\ R.phase \in Begun
        BY <1>4, <3>1 DEF PlayInv
      <4>1. definitions' = R.groups /\ R.phase \in Begun
        BY <3>5, <3>6, <3>8 DEF Follows, GroupsAreKnown, LobbyIsQuiet, Running, Begun
      <4>2. PoolSize(R.groups) > 0
        BY <3>8, PlayablePool
      <4>3. ASSUME ~carried', index' # 0 PROVE index' < PoolSize(R.groups)
        <5>1. m.type # "GAME_STARTED" /\ index' = index
          BY <3>3, <4>3
        <5>2. ~carried /\ ~EntersLate(m)
          BY <1>4, <2>1, <4>3, <5>1
        <5>3. gameState = "PLAYING"
          <6>1. m.type \in {"SCORE_UPDATE", "GAME_OVER"} => gameState = "PLAYING"
            BY <2>1, <3>2 DEF Handle
          <6>2. m.type = "ROOM_STATE" => m.phase = "PLAYING"
            BY <2>1 DEF Handle
          <6> QED BY <3>2, <4>3, <5>1, <5>2, <6>1, <6>2 DEF EntersLate
        <5>4. definitions = R.groups
          BY <3>1, <3>4, <5>3 DEF Follows, GroupsAreKnown
        <5> QED BY <2>1, <5>1, <5>2, <5>3, <5>4 DEF BattleInv, PlayInv
      <4> QED BY <3>8, <4>1, <4>2, <4>3
    <3>11. ScoreInv'
      <4> SUFFICES ASSUME code \notin strayed
                   PROVE  /\ gameState' = "PLAYING" =>
                               /\ R.players["me"] <= score'
                               /\ \A i \in 1..Len(X.inbox) :
                                    X.inbox[i].type = "SUBMIT_SCORE" => X.inbox[i].score <= score'
                          /\ gameState' # "PLAYING" /\ Arrives(X) =>
                               /\ R.players["me"] <= 0
                               /\ \A t \in Sockets : sock'[t].code = code => ~Pending(sock'[t])
        BY <1>4, <1>6, <2>1 DEF ScoreInv, Arrives, Unscored
      <4>1. /\ gameState = "PLAYING" =>
                 /\ R.players["me"] <= score
                 /\ \A i \in 1..Len(S.inbox) : S.inbox[i].type = "SUBMIT_SCORE" => S.inbox[i].score <= score
            /\ gameState # "PLAYING" /\ Arrives(S) => Unscored(code)
        BY <1>1, <1>9, <2>1, <3>1 DEF BattleInv, ScoreInv
      <4>2. \A t \in Sockets : sock'[t].code = sock[t].code /\ sock'[t].inbox = sock[t].inbox
        BY <1>2, <1>6 DEF S, Same
      <4>3. S.joining = NoRoom /\ X.joining = NoRoom /\ S.code = code
        <5>1. S.joining = NoRoom
          BY <2>1, <1>9, <3>1, RoomAssumption DEF BattleInv, SocketInv
        <5> QED BY <1>1, <1>5, <1>9, <2>1, <5>1 DEF BattleInv, CurrentInv, Keeps
      <4>4. (Game(m) => Arrives(S)) /\ (Arrives(X) => Arrives(S))
        BY <1>1, <2>2, <4>3 DEF Arrives
      <4>5. Unscored(code) =>
              /\ R.players["me"] <= 0 /\ ~Pending(S)
              /\ \A t \in Sockets : sock'[t].code = code => ~Pending(sock'[t])
        BY <1>9, <2>1, <4>2, <4>3 DEF Unscored, Pending
      <4>6. ASSUME gameState' = "PLAYING"
            PROVE  /\ R.players["me"] <= score'
                   /\ \A i \in 1..Len(X.inbox) : X.inbox[i].type = "SUBMIT_SCORE" => X.inbox[i].score <= score'
        <5>1. CASE gameState = "PLAYING"
          <6>1. m.type # "GAME_STARTED"
            BY <1>1, <3>1, <3>4, <5>1 DEF Follows, StartComesOnce
          <6> QED BY <1>2, <3>3, <4>1, <5>1, <6>1
        <5>2. CASE gameState # "PLAYING"
          <6>1. R.players["me"] <= 0 /\ ~Pending(S)
            BY <3>9, <4>1, <4>4, <4>5, <4>6, <5>2
          <6>2. R.players["me"] \in Int /\ score' \in Nat
            BY <1>7, <3>1, QueueAssumption DEF PageTypes, RoomRecs, PlayerLists, People
          <6> QED BY <1>2, <6>1, <6>2 DEF Pending, Has
        <5> QED BY <5>1, <5>2
      <4>7. ASSUME gameState' # "PLAYING", Arrives(X)
            PROVE  /\ R.players["me"] <= 0
                   /\ \A t \in Sockets : sock'[t].code = code => ~Pending(sock'[t])
        <5>1. gameState # "PLAYING"
          BY <3>6, <4>3, <4>7 DEF Arrives
        <5> QED BY <4>1, <4>4, <4>5, <4>7, <5>1
      <4> QED BY <4>6, <4>7
    <3> QED BY <1>6, <1>7, <1>8, <1>10, <3>7, <3>10, <3>11 DEF BattleInv
  <2> QED BY <2>4, <2>5, <2>6
<1> QED BY <1>11, <1>12

(* What handleStartGame and handleInputChange send.                        *)
LEMMA SendKeeps ==
  ASSUME BattleInv, current # 0, sock[current].at = "open", NEW m \in Orders, m.type # "JOIN_ROOM",
         Len(sock[current].inbox) < MaxPending,
         sock' = [sock EXCEPT ![current] = Send(current, m)], room' = room,
         UNCHANGED <<code, user, current, route, muddled, gameState, players, hostId, definitions>>
  PROVE  /\ ServerTypes' /\ SocketInv' /\ RoomInv' /\ QueueInv' /\ CurrentInv' /\ FollowInv'
         /\ current \in Sockets /\ sock[current].inbox \in Seq(Orders)
         /\ sock'[current].inbox = Append(sock[current].inbox, m)
         /\ sock'[current].code = code /\ sock[current].code = code
         /\ Keeps(sock[current], sock'[current]) /\ sock'[current].out = sock[current].out
         /\ \A t \in Sockets \ {current} : sock'[t] = sock[t]
<1> DEFINE S == sock[current]
           X == Send(current, m)
<1>1. current \in Sockets /\ S \in SocketRecs /\ S.inbox \in Seq(Orders) /\ S.mine /\ S.code = code
  <2>1. current \in Sockets /\ S \in SocketRecs
    BY DEF BattleInv, PageTypes, ServerTypes
  <2> QED BY <2>1 DEF BattleInv, CurrentInv, SocketRecs
<1>2. /\ X \in SocketRecs /\ X.at = "open" /\ Same(S, X) /\ X.mine = S.mine /\ X.out = S.out
      /\ X.inbox = Append(S.inbox, m)
  <2>1. Append(S.inbox, m) \in Seq(Orders)
    BY <1>1
  <2> QED BY <1>1, <2>1 DEF SocketRecs, Send, Same, Keeps
<1>3. S.at = "open" /\ Len(S.inbox) < MaxPending /\ sock' = [sock EXCEPT ![current] = X]
  OBVIOUS
<1> HIDE DEF X, S
<1>4. PageMoves(S, X)
  BY <1>2, <1>3 DEF PageMoves
<1>5. /\ ServerTypes' /\ SocketInv' /\ RoomInv' /\ QueueInv'
      /\ sock'[current] = X /\ \A t \in Sockets \ {current} : sock'[t] = sock[t]
  BY <1>1, <1>2, <1>3, <1>4, OneSocketKeeps DEF S
<1>6. CurrentInv'
  BY <1>1, <1>2, <1>3, <1>5 DEF BattleInv, CurrentInv, S, Same
<1>7. Joins(X) <=> Joins(S)
  <2>1. S.inbox = <<>> => Head(X.inbox) = m
    BY <1>2
  <2>2. X.inbox # <<>> /\ (S.inbox # <<>> => Head(X.inbox) = Head(S.inbox))
    BY <1>1, <1>2
  <2> QED BY <2>1, <2>2 DEF Joins
<1>8. FollowInv'
  <2>1. view' = view
    BY DEF view
  <2> SUFFICES ASSUME ~muddled
               PROVE  Joining(X, gameState) \/ Refused(X, gameState) \/ Member(X, code, room[code], view)
    BY <1>5, <2>1 DEF FollowInv, Joining, Refused, Member, Joins
  <2>2. Joining(S, gameState) \/ Refused(S, gameState) \/ Member(S, code, room[code], view)
    BY <1>3 DEF BattleInv, FollowInv, S
  <2> QED BY <1>2, <1>7, <2>2 DEF Joining, Refused, Member, Same, Keeps
<1> QED BY <1>1, <1>2, <1>5, <1>6, <1>8 DEF S, Same

LEMMA StartKeeps ==
  ASSUME BattleInv, handleStartGame, room' = room, UNCHANGED <<code, user, current, route, histories, strayed>>
  PROVE  BattleInv'
<1>1. /\ current # 0 /\ sock[current].at = "open" /\ Len(sock[current].inbox) < MaxPending
      /\ sock' = [sock EXCEPT ![current] = Send(current, StartGame)] /\ gameState = "LOBBY"
      /\ gameState' = gameState /\ players' = players /\ hostId' = hostId /\ definitions' = definitions
      /\ index' = index /\ score' = score /\ muddled' = muddled /\ carried' = carried
  BY DEF handleStartGame, viewVars, histories
<1>2. StartGame \in Orders /\ StartGame.type = "START_GAME"
  BY QueueAssumption DEF StartGame, Orders
<1>3. /\ ServerTypes' /\ SocketInv' /\ RoomInv' /\ QueueInv' /\ CurrentInv' /\ FollowInv'
      /\ current \in Sockets /\ sock[current].inbox \in Seq(Orders)
      /\ sock'[current].inbox = Append(sock[current].inbox, StartGame)
      /\ sock'[current].code = sock[current].code
      /\ Keeps(sock[current], sock'[current]) /\ sock'[current].out = sock[current].out
      /\ \A t \in Sockets \ {current} : sock'[t] = sock[t]
  BY <1>1, <1>2, SendKeeps
<1>4. PageTypes' /\ PlayInv'
  BY <1>1 DEF BattleInv, PageTypes, PlayInv
<1>5. Pending(sock'[current]) => Pending(sock[current])
  BY <1>2, <1>3 DEF Pending, Has
<1>6. \A t \in Sockets : ~Sends(sock[t], sock'[t])
  BY <1>3, <1>5 DEF Sends
<1>7. RoomsApart
  BY DEF BattleInv, ServerTypes, RoomsApart, RoomMoves, Onward
<1>8. PendingInv'
  BY <1>3, <1>4, <1>6, <1>7, PageKeepsPending DEF BattleInv
<1>9. ScoreInv'
  <2>1. \A t \in Sockets : sock'[t].code = sock[t].code /\ (Pending(sock'[t]) => Pending(sock[t]))
    BY <1>3, <1>5
  <2>2. gameState' # "PLAYING"
    BY <1>1
  <2>3. /\ sock'[current].in = sock[current].in /\ sock'[current].joining = sock[current].joining
        /\ Arrives(sock'[current]) => Arrives(sock[current])
    BY <1>3 DEF Keeps, Arrives
  <2>4. Unscored(code) =>
          /\ room[code].players["me"] <= 0
          /\ \A s \in Sockets : sock'[s].code = code => ~Pending(sock'[s])
    BY <2>1 DEF Unscored
  <2> SUFFICES ASSUME ~muddled, code \in {sock[current].in, sock[current].joining},
                      code \in Rooms, code \notin strayed, Arrives(sock[current])
               PROVE  Unscored(code)
    BY <1>1, <2>2, <2>3, <2>4 DEF ScoreInv, Arrives, Unscored, Pending, Has
  <2> QED BY <1>1 DEF BattleInv, ScoreInv
<1> QED BY <1>3, <1>4, <1>8, <1>9 DEF BattleInv

LEMMA RandomIndexType ==
  ASSUME NEW i \in Nat, NEW n \in Nat, NEW j \in RandomIndex(i, n)
  PROVE  j \in Nat /\ (n > 0 => j < n)
BY DEF RandomIndex

LEMMA AnswerKeeps ==
  ASSUME BattleInv, handleInputChange, room' = room, UNCHANGED <<code, user, current, route, histories>>,
         strayed' = IF muddled /\ sock[current].at = "open" THEN strayed \cup {code} ELSE strayed
  PROVE  BattleInv'
<1>1. /\ current # 0 /\ gameState = "PLAYING" /\ score < MaxPoints /\ score' = score + 1
      /\ gameState' = gameState /\ players' = players /\ hostId' = hostId /\ definitions' = definitions
      /\ index' = index \/ index' \in RandomIndex(index, PoolSize(definitions))
      /\ muddled' = muddled /\ carried' = carried
  BY DEF handleInputChange, histories
<1>2. index \in Nat /\ score \in Nat /\ definitions \subseteq Groups /\ current \in Sockets /\ MaxPoints \in Nat
  BY <1>1, QueueAssumption DEF BattleInv, PageTypes
<1>3. PoolSize(definitions) \in Nat /\ (definitions # {} => PoolSize(definitions) > 0)
  BY <1>2, GroupIdsType, FS_Subset, PoolSizeType
<1>4. index' \in Nat /\ (index < PoolSize(definitions) => index' < PoolSize(definitions))
  BY <1>1, <1>2, <1>3, RandomIndexType
<1>5. PageTypes'
  BY <1>1, <1>2, <1>4 DEF BattleInv, PageTypes
<1>6. PlayInv'
  BY <1>1, <1>4 DEF BattleInv, PlayInv
<1>7. CASE sock[current].at = "open"
  <2> DEFINE m == SubmitScore(score + 1)
  <2>1. m \in Orders /\ m.type = "SUBMIT_SCORE" /\ m.score = score + 1
    BY <1>1, <1>2 DEF SubmitScore, Orders
  <2>2. Len(sock[current].inbox) < MaxPending /\ sock' = [sock EXCEPT ![current] = Send(current, m)]
    BY <1>7 DEF handleInputChange
  <2> HIDE DEF m
  <2>3. /\ ServerTypes' /\ SocketInv' /\ RoomInv' /\ QueueInv' /\ CurrentInv' /\ FollowInv'
        /\ sock[current].inbox \in Seq(Orders)
        /\ sock'[current].inbox = Append(sock[current].inbox, m)
        /\ sock'[current].code = code /\ sock[current].code = code
        /\ Keeps(sock[current], sock'[current]) /\ sock'[current].out = sock[current].out
        /\ \A t \in Sockets \ {current} : sock'[t] = sock[t]
    BY <1>1, <1>7, <2>1, <2>2, SendKeeps
  <2>4. PendingInv'
    <3>1. ~muddled => code \in Rooms /\ room[code].phase \in Begun
      BY <1>1 DEF BattleInv, PlayInv
    <3>2. strayed \subseteq strayed' /\ (muddled => code \in strayed')
      BY <1>7
    <3> QED BY <2>3, <3>1, <3>2 DEF BattleInv, PendingInv, Keeps
  <2>5. ScoreInv'
    <3> SUFFICES ASSUME ~muddled, code \in {sock[current].in, sock[current].joining},
                        code \in Rooms, code \notin strayed
                 PROVE  /\ room[code].players["me"] <= score + 1
                        /\ \A i \in 1..Len(sock'[current].inbox) :
                             sock'[current].inbox[i].type = "SUBMIT_SCORE" => sock'[current].inbox[i].score <= score + 1
      <4>1. strayed \subseteq strayed'
        BY <1>7
      <4> QED BY <1>1, <2>3, <4>1 DEF ScoreInv, Keeps
    <3>1. /\ room[code].players["me"] <= score
          /\ \A i \in 1..Len(sock[current].inbox) :
               sock[current].inbox[i].type = "SUBMIT_SCORE" => sock[current].inbox[i].score <= score
      BY <1>1, <1>7 DEF BattleInv, ScoreInv
    <3>2. room[code].players["me"] \in Int
      BY QueueAssumption DEF BattleInv, ServerTypes, RoomRecs, PlayerLists, People
    <3>3. \A i \in 1..Len(sock[current].inbox) : sock[current].inbox[i].score \in Nat
      <4>1. \A i \in 1..Len(sock[current].inbox) : sock[current].inbox[i] \in Orders
        BY <2>3
      <4>2. \A o \in Orders : o.score \in Nat
        BY <1>2 DEF Orders
      <4> QED BY <4>1, <4>2
    <3>4. \A i \in 1..Len(sock'[current].inbox) :
            sock'[current].inbox[i].type = "SUBMIT_SCORE" => sock'[current].inbox[i].score <= score + 1
      <4> SUFFICES ASSUME NEW i \in 1..Len(sock'[current].inbox), sock'[current].inbox[i].type = "SUBMIT_SCORE"
                   PROVE  sock'[current].inbox[i].score <= score + 1
        OBVIOUS
      <4> DEFINE q == sock[current].inbox
                 T == sock'[current].inbox
      <4>1. T = Append(q, m) /\ q \in Seq(Orders) /\ i \in 1..Len(T)
        BY <2>3
      <4> HIDE DEF q, T
      <4>2. (i \in 1..Len(q) /\ T[i] = q[i]) \/ T[i] = m
        BY <4>1
      <4> QED BY <1>2, <2>1, <3>1, <3>3, <4>2 DEF q, T
    <3> QED BY <1>2, <3>1, <3>2, <3>4
  <2> QED BY <1>5, <1>6, <2>3, <2>4, <2>5 DEF BattleInv
<1>8. CASE sock[current].at # "open"
  <2>1. sock' = sock /\ strayed' = strayed
    BY <1>8 DEF handleInputChange
  <2>2. ServerTypes' /\ SocketInv' /\ RoomInv' /\ QueueInv' /\ CurrentInv'
    BY <1>1, <2>1 DEF BattleInv, ServerTypes, SocketInv, RoomInv, QueueInv, CurrentInv, Joins
  <2>3. FollowInv' /\ ScoreInv'
    BY <1>8, <2>1 DEF FollowInv, ScoreInv
  <2>4. PendingInv'
    BY <2>1 DEF BattleInv, PendingInv, Pending, Has
  <2> QED BY <1>5, <1>6, <2>2, <2>3, <2>4 DEF BattleInv
<1> QED BY <1>7, <1>8

LEMMA PlayingKeeps ==
  ASSUME BattleInv, Playing
  PROVE  BattleInv'
<1>1. \/ handleStartGame /\ UNCHANGED strayed
      \/ handleInputChange /\ strayed' = IF muddled /\ sock[current].at = "open" THEN strayed \cup {code} ELSE strayed
  BY DEF Playing
<1>2. room' = room /\ UNCHANGED <<code, user, current, route, histories>>
  BY DEF Playing
<1> QED BY <1>1, <1>2, StartKeeps, AnswerKeeps

LEMMA SocketStepKeeps ==
  ASSUME BattleInv, NEW s \in Sockets, SocketStep(s)
  PROVE  BattleInv'
<1>1. room' = room /\ StaysOn
  BY DEF SocketStep, StaysOn
<1>2. MaxQueue \in Nat
  BY QueueAssumption
<1> QED BY <1>1, <1>2, OpenKeeps, BreakKeeps, DeliverKeeps DEF SocketStep

LEMMA ServerKeeps ==
  ASSUME BattleInv, Server
  PROVE  BattleInv'
<1>1. ServerMoves /\ UNCHANGED <<pageVars, route, strayed>>
  BY ServerSteps DEF BattleInv
<1>2. ServerTypes' /\ RoomInv'
  BY <1>1, ServerKeepsRooms DEF ServerMoves, BattleInv
<1>3. PageTypes'
  BY <1>1 DEF BattleInv, PageTypes, pageVars, viewVars, histories
<1>4. SocketInv' /\ QueueInv' /\ CurrentInv'
  BY <1>1, ServerKeepsSockets, ServerKeepsQueues, ServerKeepsCurrent DEF BattleInv
<1>5. FollowInv' /\ PlayInv'
  BY <1>1, ServerKeepsFollowing, ServerKeepsPlay DEF BattleInv
<1>6. PendingInv' /\ ScoreInv'
  BY <1>1, ServerKeepsPending, ServerKeepsScores DEF BattleInv
<1> QED BY <1>2, <1>3, <1>4, <1>5, <1>6 DEF BattleInv

(* A step that leaves the battle page and its sockets alone.               *)
LEMMA RestKeeps ==
  ASSUME BattleInv, RoomsApart, sock' = sock,
         UNCHANGED <<code, current, viewVars, histories, strayed>>,
         user' \in BOOLEAN, route' \in {"practice", "landing", "battle", "away"},
         route = "battle" => route' = route /\ user' = user,
         route' = "battle" => route = "battle"
  PROVE  BattleInv'
<1>1. /\ gameState' = gameState /\ players' = players /\ hostId' = hostId /\ definitions' = definitions
      /\ index' = index /\ score' = score /\ code' = code /\ current' = current
      /\ muddled' = muddled /\ carried' = carried /\ strayed' = strayed /\ view' = view
  BY DEF viewVars, histories, view
<1>2. ServerTypes'
  BY DEF BattleInv, ServerTypes, RoomsApart
<1>3. PageTypes'
  BY <1>1 DEF BattleInv, PageTypes
<1>4. \A s \in Sockets : PageMoves(sock[s], sock'[s]) /\ ~Sends(sock[s], sock'[s])
  BY DEF PageMoves, Sends
<1>5. SocketInv' /\ RoomInv' /\ QueueInv'
  BY <1>2, <1>4, PageKeepsSockets, PageKeepsQueues, ServerKeepsRooms DEF BattleInv, RoomsApart, ServerTypes
<1>6. CurrentInv'
  BY <1>1 DEF BattleInv, CurrentInv
<1>7. current # 0 => current \in Sockets
  BY DEF BattleInv, PageTypes
<1>8. current # 0 /\ code \in {sock[current].in, sock[current].joining} /\ code \in Rooms => room'[code] = room[code]
  BY <1>7, RoomAssumption DEF BattleInv, SocketInv, RoomsApart, Running
<1>9. FollowInv'
  BY <1>1, <1>7, <1>8 DEF BattleInv, FollowInv, Joining, Refused, Member, Joins
<1>10. PlayInv'
  <2> SUFFICES ASSUME gameState = "PLAYING", ~muddled PROVE PlayInv'
    BY <1>1 DEF PlayInv
  <2>1. definitions # {} /\ (~carried => index < PoolSize(definitions)) /\ code \in Rooms /\ room[code].phase \in Begun
    BY DEF BattleInv, PlayInv
  <2>2. room'[code].phase \in Begun
    BY <2>1, BegunStays DEF RoomsApart
  <2> QED BY <1>1, <2>1, <2>2 DEF PlayInv
<1>11. PendingInv'
  BY <1>1, <1>3, <1>4, PageKeepsPending DEF BattleInv, Keeps
<1>12. ScoreInv'
  BY <1>1, <1>7, <1>8 DEF BattleInv, ScoreInv, Arrives, Unscored, Pending, Has
<1> QED BY <1>2, <1>3, <1>5, <1>6, <1>9, <1>10, <1>11, <1>12 DEF BattleInv

LEMMA RoomsRest ==
  ASSUME BattleInv, room' = room
  PROVE  RoomsApart
BY DEF BattleInv, ServerTypes, RoomsApart, RoomMoves, Onward

(* The address of a battle is opened, and the room may just have been made. *)
LEMMA ShowKeeps ==
  ASSUME BattleInv, RoomsApart, NEW c \in Codes, Show(c), user' = user, strayed' = strayed
  PROVE  BattleInv'
<1>1. user \in BOOLEAN /\ code \in Codes /\ route \in {"practice", "landing", "battle", "away"}
  BY DEF BattleInv, PageTypes
<1>2. CASE /\ ~user /\ route' = "away"
           /\ UNCHANGED <<sock, code, current, viewVars, histories>>
  <2>1. route # "battle"
    BY <1>2 DEF BattleInv, CurrentInv
  <2> QED BY <1>1, <1>2, <2>1, RestKeeps
<1>3. CASE user /\ route # "battle" /\ route' = "battle" /\ Mount(c)
  <2>1. ViewRests /\ Connect(c) /\ code' = c
    BY <1>3 DEF ViewRests, Mount
  <2> QED BY <1>3, <2>1, ConnectKeeps
<1>4. CASE user /\ route = "battle" /\ route' = route /\ OtherRoom(c)
  <2>1. Connect(c) /\ code' = c /\ UNCHANGED <<viewVars, carried>> /\ muddled' = (muddled \/ gameState = "PLAYING")
    BY <1>4 DEF OtherRoom
  <2>2. ViewRests
    BY <2>1 DEF ViewRests
  <2> QED BY <1>4, <2>1, <2>2, ConnectKeeps
<1> QED BY <1>2, <1>3, <1>4 DEF Show

---------------------------------------------------------------------------
(* The forms: what is chosen is never empty, on either page.               *)
Chosen(groups) == groups \subseteq Groups /\ groups # {}

FormTypes ==
  /\ Chosen(checkedGroups) /\ currentIndex \in Nat /\ {count, incorrectCount} \subseteq 0..MaxCount
  /\ Chosen(selectedGroups) /\ calls \in [Calls -> SUBSET Groups]

ComplaintInv == message.kind = "incorrect" => message.kana = currentChar

LEMMA ToggledType ==
  ASSUME NEW chosen, Chosen(chosen), NEW g \in Groups
  PROVE  Chosen(Toggled(chosen, g))
BY GroupIdsType DEF Chosen, Toggled

LEMMA PresetsType ==
  \A p \in {"beginner", "standard", "all"} : p \in DOMAIN PresetGroups /\ Chosen(PresetGroups[p])
<1>1. STANDARD_GROUPS \subseteq Groups /\ BEGINNER_GROUPS \subseteq STANDARD_GROUPS /\ "hk" \in BEGINNER_GROUPS
  BY GroupIdsType DEF STANDARD_GROUPS, BEGINNER_GROUPS, Names, Hiragana, Katakana
<1>2. Chosen(STANDARD_GROUPS) /\ Chosen(BEGINNER_GROUPS) /\ Chosen(ALL_GROUPS)
  BY <1>1, GroupIdsType DEF Chosen, ALL_GROUPS
<1>3. /\ PresetGroups["beginner"] = BEGINNER_GROUPS /\ PresetGroups["standard"] = STANDARD_GROUPS
      /\ PresetGroups["all"] = ALL_GROUPS /\ DOMAIN PresetGroups = {"beginner", "standard", "all"}
  BY DEF PresetGroups
<1> QED BY <1>2, <1>3

LEMMA PracticeKeeps ==
  ASSUME FormTypes, ComplaintInv, PracticeStep \/ PracticeReset, UNCHANGED landingVars
  PROVE  FormTypes' /\ ComplaintInv'
<1>1. selectedGroups' = selectedGroups /\ calls' = calls
  BY DEF landingVars
<1>2. /\ Chosen(checkedGroups) /\ currentIndex \in Nat /\ count \in 0..MaxCount /\ incorrectCount \in 0..MaxCount
      /\ Chosen(selectedGroups) /\ calls \in [Calls -> SUBSET Groups]
      /\ MaxCount \in Nat
  BY MaxCountAssumption DEF FormTypes
<1> SUFFICES /\ Chosen(checkedGroups') /\ currentIndex' \in Nat
             /\ count' \in 0..MaxCount /\ incorrectCount' \in 0..MaxCount
             /\ message'.kind = "incorrect" => message'.kana = currentChar'
  BY <1>1, <1>2 DEF FormTypes, ComplaintInv
<1>3. \A kind : Say(kind).kind = kind
  BY DEF Say, Text
<1>4. CASE toggleCheckbox
  <2>1. /\ \E g \in Clicked : checkedGroups' = Toggled(checkedGroups, g)
        /\ count' = 0 /\ incorrectCount' = 0 /\ message' = Say("poolUpdated") /\ currentIndex' = currentIndex
    BY <1>4 DEF toggleCheckbox, PoolEffect
  <2> QED BY <1>2, <1>3, <2>1, ToggledType, ClickedAssumption
<1>5. CASE AnswerRight
  <2>1. /\ checkedGroups' = checkedGroups /\ count < MaxCount /\ count' = count + 1 /\ incorrectCount' = incorrectCount
        /\ message' = Say("correct") /\ currentIndex' \in RandomIndex(currentIndex, Len(pool))
    BY <1>5 DEF AnswerRight
  <2>2. Len(pool) \in Nat
    BY <1>2, PoolIsExact DEF Chosen, pool
  <2>3. currentIndex' \in Nat
    BY <1>2, <2>1, <2>2, RandomIndexType
  <2> QED BY <1>2, <1>3, <2>1, <2>3
<1>6. CASE AnswerWrong
  <2>1. /\ checkedGroups' = checkedGroups /\ incorrectCount < MaxCount /\ incorrectCount' = incorrectCount + 1
        /\ count' = count /\ currentIndex' = currentIndex /\ message' = Text("incorrect", currentChar)
    BY <1>6 DEF AnswerWrong
  <2>2. currentChar' = currentChar
    BY <2>1 DEF currentChar
  <2> QED BY <1>2, <2>1, <2>2 DEF Text
<1>7. CASE TypeOn
  BY <1>2, <1>3, <1>7 DEF TypeOn
<1>8. CASE Hover
  <2>1. UNCHANGED <<checkedGroups, currentIndex, message, count, incorrectCount>>
    BY <1>8 DEF Hover
  <2>2. currentChar' = currentChar
    BY <2>1 DEF currentChar
  <2> QED BY <1>2, <2>1, <2>2 DEF ComplaintInv
<1>9. CASE PracticeReset
  <2>1. /\ checkedGroups' = {"hsingle"} /\ currentIndex' = 0 /\ count' = 0 /\ incorrectCount' = 0
        /\ message' = Say("poolUpdated")
    BY <1>9 DEF PracticeReset
  <2>2. Chosen(checkedGroups')
    BY <2>1, GroupIdsType DEF Chosen
  <2> QED BY <1>2, <1>3, <2>1, <2>2
<1> QED BY <1>4, <1>5, <1>6, <1>7, <1>8, <1>9 DEF PracticeStep

(* The landing page, whose calls are never cut short by another page.      *)
LEMMA LandingKeeps ==
  ASSUME FormTypes, ComplaintInv, UNCHANGED practiceVars,
         \/ selectedGroups' = selectedGroups
         \/ selectedGroups' = {"hsingle"}
         \/ \E g \in Picked : selectedGroups' = Toggled(selectedGroups, g)
         \/ \E p \in Presets : selectedGroups' = PresetGroups[p],
         \/ calls' = calls
         \/ \E k \in Calls : \E groups \in {selectedGroups, NoCall} : calls' = [calls EXCEPT ![k] = groups]
  PROVE  FormTypes' /\ ComplaintInv'
<1>1. /\ checkedGroups' = checkedGroups /\ currentIndex' = currentIndex /\ message' = message
      /\ count' = count /\ incorrectCount' = incorrectCount
  BY DEF practiceVars
<1>2. Chosen(selectedGroups) /\ calls \in [Calls -> SUBSET Groups]
  BY DEF FormTypes
<1>3. Chosen(selectedGroups')
  BY <1>2, PresetsType, ToggledType, PickAssumption, GroupIdsType DEF Chosen
<1>4. calls' \in [Calls -> SUBSET Groups]
  BY <1>2 DEF Chosen, NoCall
<1>5. currentChar' = currentChar
  BY <1>1 DEF currentChar
<1> QED BY <1>1, <1>3, <1>4, <1>5 DEF FormTypes, ComplaintInv

KanaInv == BattleInv /\ FormTypes /\ ComplaintInv

LEMMA KanaInit ==
  ASSUME Init
  PROVE  KanaInv
<1>1. /\ \A s \in Sockets : sock[s] = NoSocket
      /\ sock \in [Sockets -> SocketRecs]
      /\ \A r \in Rooms : room[r] = Unborn
      /\ room \in [Rooms -> RoomRecs]
  <2>1. Unborn \in RoomRecs
    BY NobodyType DEF Unborn, RoomRecs, Phases
  <2> QED BY <2>1, NoSocketType DEF Init, ServerInit
<1>2. /\ NoSocket.in = NoRoom /\ NoSocket.inbox = <<>> /\ NoSocket.out = <<>>
      /\ NoSocket.mine = FALSE /\ NoSocket.at = "idle" /\ NoSocket.joining = NoRoom /\ Len(<<>>) = 0
  BY DEF NoSocket
<1>3. Unborn.phase = "none" /\ Unborn.players["me"] = -1
  BY NobodyType DEF Unborn
<1>4. /\ gameState = "CONNECTING" /\ players = Nobody /\ hostId = "none" /\ definitions = {}
      /\ index = 0 /\ score = 0 /\ code = NoRoom /\ user \in BOOLEAN /\ current = 0
      /\ muddled = FALSE /\ carried = FALSE
      /\ route \in {"practice", "away"} /\ strayed = {}
  BY DEF Init, ViewInit
<1>5. ServerTypes
  BY <1>1 DEF ServerTypes
<1>6. PageTypes
  <2>1. /\ score \in 0..MaxPoints /\ index \in Nat /\ players \in PlayerLists
        /\ gameState \in PageStates /\ definitions \subseteq Groups /\ strayed \subseteq Codes
    BY <1>4, NobodyType, QueueAssumption DEF PageStates
  <2>2. code \in Codes /\ muddled \in BOOLEAN /\ carried \in BOOLEAN
    BY <1>4 DEF Codes
  <2> QED BY <1>4, <2>1, <2>2 DEF PageTypes
<1>7. SocketInv
  BY <1>1, <1>2, QueueAssumption DEF SocketInv, Joins
<1>8. RoomInv
  BY <1>1, <1>3 DEF RoomInv
<1>9. QueueInv
  BY <1>1, <1>2 DEF QueueInv, Meant
<1>10. CurrentInv /\ FollowInv /\ PlayInv /\ ScoreInv
  BY <1>1, <1>2, <1>4 DEF CurrentInv, FollowInv, PlayInv, ScoreInv
<1>11. PendingInv
  BY <1>1, <1>2 DEF PendingInv, Pending, Has
<1>12. FormTypes
  <2>1. /\ checkedGroups = {"hsingle"} /\ selectedGroups = {"hsingle"} /\ currentIndex = 0
        /\ count = 0 /\ incorrectCount = 0 /\ calls = [k \in Calls |-> NoCall]
    BY DEF Init, PracticeInit, LandingInit
  <2>2. Chosen(checkedGroups) /\ Chosen(selectedGroups)
    BY <2>1, GroupIdsType DEF Chosen
  <2>3. calls \in [Calls -> SUBSET Groups]
    BY <2>1 DEF NoCall
  <2> QED BY <2>1, <2>2, <2>3, MaxCountAssumption DEF FormTypes
<1>13. ComplaintInv
  BY DEF Init, PracticeInit, ComplaintInv, Say, Text
<1> QED BY <1>5, <1>6, <1>7, <1>8, <1>9, <1>10, <1>11, <1>12, <1>13 DEF BattleInv, KanaInv

(* The steps that leave the battle page alone, or take it away.            *)
LEMMA LeaveKeeps ==
  ASSUME BattleInv, room' = room, strayed' = strayed,
         IF route = "battle" THEN Unmount ELSE UNCHANGED <<sock, code, current, viewVars, histories>>,
         user' \in BOOLEAN, route' \in {"practice", "landing", "away"}
  PROVE  BattleInv'
<1>1. CASE route = "battle"
  BY <1>1, UnmountKeeps
<1>2. CASE route # "battle"
  BY <1>2, RoomsRest, RestKeeps
<1> QED BY <1>1, <1>2

(* The answer to handleCreateRoom: a new room, which is shown, or nothing. *)
LEMMA CreateKeeps ==
  ASSUME KanaInv, NEW k \in Calls, CreateAnswered(k)
  PROVE  KanaInv'
<1>1. UNCHANGED practiceVars /\ user' = user /\ strayed' = strayed /\ calls' = [calls EXCEPT ![k] = NoCall]
  BY DEF CreateAnswered
<1>2. selectedGroups' = selectedGroups \/ selectedGroups' = {"hsingle"}
  BY DEF CreateAnswered
<1>3. FormTypes' /\ ComplaintInv'
  BY <1>1, <1>2, LandingKeeps DEF KanaInv
<1>4. CASE \E r \in Rooms : CreateRoom(r, calls[k]) /\ Show(r)
  <2>1. PICK r \in Rooms : CreateRoom(r, calls[k]) /\ Show(r)
    BY <1>4
  <2>2. /\ calls[k] \in SUBSET Groups /\ calls[k] # {}
        /\ room[r].phase = "none" /\ room' = [room EXCEPT ![r] = NewRoom("me", calls[k])]
    BY <2>1 DEF CreateAnswered, CreateRoom, NoCall, KanaInv, FormTypes
  <2>3. "me" \in People
    BY DEF People
  <2>4. /\ room' \in [Rooms -> RoomRecs]
        /\ \A o \in Rooms : RoomMoves(o)
        /\ \A s \in Sockets : sock[s].in # r
        /\ \A o \in Rooms \ {r} : room'[o] = room[o]
    BY <2>2, <2>3, CreationMoves DEF KanaInv, BattleInv
  <2>6. RoomsApart
    BY <2>2, <2>4 DEF RoomsApart
  <2>7. BattleInv'
    BY <1>1, <2>1, <2>6, ShowKeeps DEF KanaInv, Codes
  <2> QED BY <1>3, <2>7 DEF KanaInv
<1>5. CASE UNCHANGED <<selectedGroups, room, sock, code, current, viewVars, histories, route>>
  <2>1. user' \in BOOLEAN /\ route' \in {"practice", "landing", "battle", "away"}
    BY <1>1, <1>5 DEF KanaInv, BattleInv, PageTypes
  <2>2. BattleInv'
    BY <1>1, <1>5, <2>1, RoomsRest, RestKeeps DEF KanaInv
  <2> QED BY <1>3, <2>2 DEF KanaInv
<1> QED BY <1>4, <1>5 DEF CreateAnswered

LEMMA KanaStep ==
  ASSUME KanaInv, Next
  PROVE  KanaInv'
<1>0. /\ BattleInv /\ FormTypes /\ ComplaintInv
      /\ user \in BOOLEAN /\ route \in {"practice", "landing", "battle", "away"} /\ code \in Codes
  BY DEF KanaInv, BattleInv, PageTypes
<1>1. CASE Practicing
  <2>1. BattleInv'
    BY <1>0, <1>1, RoomsRest, RestKeeps DEF Practicing, serverVars, pageVars
  <2>2. FormTypes' /\ ComplaintInv'
    BY <1>0, <1>1, PracticeKeeps DEF Practicing
  <2> QED BY <2>1, <2>2 DEF KanaInv
<1>2. CASE LeavePractice
  <2>1. BattleInv'
    BY <1>0, <1>2, RoomsRest, RestKeeps DEF LeavePractice, serverVars, pageVars
  <2>2. FormTypes' /\ ComplaintInv'
    BY <1>0, <1>2, PracticeKeeps DEF LeavePractice
  <2> QED BY <2>1, <2>2 DEF KanaInv
<1>3. CASE FillLanding
  <2>1. BattleInv'
    BY <1>0, <1>3, RoomsRest, RestKeeps DEF FillLanding, serverVars, pageVars
  <2>2. FormTypes' /\ ComplaintInv'
    BY <1>0, <1>3, LandingKeeps DEF FillLanding, handleToggleGroup, applyPreset, handleCreateRoom
  <2> QED BY <2>1, <2>2 DEF KanaInv
<1>4. CASE CreateSignedOut
  <2>1. BattleInv'
    BY <1>0, <1>4, RoomsRest, RestKeeps DEF CreateSignedOut, serverVars, pageVars
  <2>2. FormTypes' /\ ComplaintInv'
    BY <1>0, <1>4, LandingKeeps DEF CreateSignedOut
  <2> QED BY <2>1, <2>2 DEF KanaInv
<1>5. CASE handleJoinRoom \/ OpenAddress
  <2>1. PICK c \in Rooms \cup {NoRoom} : Show(c)
    BY <1>5 DEF handleJoinRoom, OpenAddress
  <2>2. room' = room /\ user' = user /\ strayed' = strayed
    BY <1>5 DEF handleJoinRoom, OpenAddress
  <2>3. BattleInv'
    BY <1>0, <2>1, <2>2, RoomsRest, ShowKeeps DEF Codes
  <2>4. FormTypes' /\ ComplaintInv'
    BY <1>0, <1>5, LandingKeeps DEF handleJoinRoom, OpenAddress, landingVars
  <2> QED BY <2>3, <2>4 DEF KanaInv
<1>6. CASE \E k \in Calls : CreateAnswered(k)
  BY <1>6, CreateKeeps
<1>7. CASE \E page \in {"landing", "away"} : Visit(page)
  <2>1. BattleInv'
    BY <1>0, <1>7, LeaveKeeps DEF Visit
  <2>2. FormTypes' /\ ComplaintInv'
    BY <1>0, <1>7, LandingKeeps DEF Visit
  <2> QED BY <2>1, <2>2 DEF KanaInv
<1>8. CASE TokenRefreshed
  <2>1. Connect(code) /\ code' = code /\ UNCHANGED <<viewVars, histories>> /\ room' = room
        /\ user /\ user' = user /\ route = "battle" /\ route' = route /\ strayed' = strayed
    BY <1>8 DEF TokenRefreshed, NewToken
  <2>2. ViewRests
    BY <1>0, <2>1 DEF ViewRests, BattleInv, PageTypes, histories
  <2>3. BattleInv'
    BY <1>0, <2>1, <2>2, RoomsRest, ConnectKeeps
  <2>4. FormTypes' /\ ComplaintInv'
    BY <1>0, <1>8, LandingKeeps DEF TokenRefreshed, landingVars
  <2> QED BY <2>3, <2>4 DEF KanaInv
<1>9. CASE SignedOut
  <2>1. CASE route = "battle"
    <3>1. BattleInv'
      BY <1>0, <1>9, <2>1, LeaveKeeps DEF SignedOut
    <3> QED BY <1>0, <1>9, <3>1, LandingKeeps DEF SignedOut, landingVars, KanaInv
  <2>2. CASE route # "battle"
    <3>1. BattleInv'
      BY <1>0, <1>9, <2>2, RoomsRest, RestKeeps DEF SignedOut
    <3> QED BY <1>0, <1>9, <3>1, LandingKeeps DEF SignedOut, landingVars, KanaInv
  <2> QED BY <2>1, <2>2
<1>10. CASE SignedIn
  <2>1. BattleInv'
    BY <1>0, <1>10, RoomsRest, RestKeeps DEF SignedIn, serverVars
  <2>2. FormTypes' /\ ComplaintInv'
    BY <1>0, <1>10, LandingKeeps DEF SignedIn, landingVars
  <2> QED BY <2>1, <2>2 DEF KanaInv
<1>11. CASE \E s \in Sockets : SocketStep(s)
  <2>1. BattleInv'
    BY <1>0, <1>11, SocketStepKeeps
  <2>2. FormTypes' /\ ComplaintInv'
    BY <1>0, <1>11, LandingKeeps DEF SocketStep, landingVars
  <2> QED BY <2>1, <2>2 DEF KanaInv
<1>12. CASE Playing
  <2>1. BattleInv'
    BY <1>0, <1>12, PlayingKeeps
  <2>2. FormTypes' /\ ComplaintInv'
    BY <1>0, <1>12, LandingKeeps DEF Playing, landingVars
  <2> QED BY <2>1, <2>2 DEF KanaInv
<1>13. CASE Server
  <2>1. BattleInv'
    BY <1>0, <1>13, ServerKeeps
  <2>2. FormTypes' /\ ComplaintInv'
    BY <1>0, <1>13, LandingKeeps DEF Server, landingVars
  <2> QED BY <2>1, <2>2 DEF KanaInv
<1> QED BY <1>1, <1>2, <1>3, <1>4, <1>5, <1>6, <1>7, <1>8, <1>9, <1>10, <1>11, <1>12, <1>13 DEF Next

LEMMA KanaStutter ==
  ASSUME KanaInv, UNCHANGED pagesVars
  PROVE  KanaInv'
<1>1. UNCHANGED <<practiceVars, landingVars, room, sock, pageVars, route, strayed>>
  BY DEF pagesVars, serverVars
<1>2. BattleInv /\ user \in BOOLEAN /\ route \in {"practice", "landing", "battle", "away"}
  BY DEF KanaInv, BattleInv, PageTypes
<1>3. BattleInv'
  BY <1>1, <1>2, RoomsRest, RestKeeps DEF pageVars, histories
<1>4. FormTypes' /\ ComplaintInv'
  BY <1>1, LandingKeeps DEF KanaInv, landingVars
<1> QED BY <1>3, <1>4 DEF KanaInv

LEMMA KanaHolds == Spec => []KanaInv
<1>1. KanaInv /\ [Next]_pagesVars => KanaInv'
  BY KanaStep, KanaStutter
<1> QED BY KanaInit, <1>1, PTL DEF Spec

(* The state of the page, of its sockets and of the rooms keeps its shape, *)
(* and every queue its bound, however many rooms and sockets there are     *)
(* (KanaBattlePage.js:16-36, room.go:16-43).                               *)
THEOREM PagesAreTyped == Spec => []PagesTypeOK
<1>1. KanaInv => PagesTypeOK
  <2> SUFFICES ASSUME KanaInv PROVE PagesTypeOK
    OBVIOUS
  <2>1. PageTypes /\ FormTypes /\ ServerTypes /\ SocketInv
    BY DEF KanaInv, BattleInv
  <2>2. \A r \in Rooms : room[r].phase \in Phases /\ room[r].players \in PlayerLists
    BY <2>1 DEF ServerTypes, RoomRecs
  <2>3. \A s \in Sockets :
          /\ sock[s].at \in {"idle", "connecting", "open", "closed", "gone"}
          /\ {sock[s].in, sock[s].joining} \subseteq Rooms \cup {NoRoom}
          /\ Len(sock[s].inbox) <= MaxPending
          /\ sock[s].out \in Seq(Messages) /\ Len(sock[s].out) <= MaxQueue
    BY <2>1 DEF ServerTypes, SocketRecs, SocketInv, Codes
  <2> QED BY <2>1, <2>2, <2>3 DEF PagesTypeOK, PageTypes, FormTypes, Chosen, Codes
<1> QED BY <1>1, KanaHolds, PTL

(* The kana the practice page shows is always one of a checked group: an   *)
(* index that was drawn before the groups changed is brought back into the *)
(* pool (KanaPracticePage.js:44-53, 70-75).                                *)
THEOREM DisplayIsChecked == Spec => []ShownIsChecked
<1>1. KanaInv => ShownIsChecked
  <2> SUFFICES ASSUME KanaInv PROVE currentChar # NoKana /\ currentChar[1] \in checkedGroups
    BY DEF ShownIsChecked
  <2> DEFINE n == PoolSize(checkedGroups)
             at == SafeIndex(currentIndex, n) + 1
             P == Pool(checkedGroups)
  <2>1. /\ checkedGroups \subseteq Groups /\ checkedGroups # {} /\ currentIndex \in Nat
        /\ n \in Nat /\ n > 0
        /\ P \in Seq(checkedGroups \X Nat) /\ n <= Len(P)
    BY PlayablePool, PoolIsExact DEF KanaInv, FormTypes, Chosen
  <2>2. currentChar = IF at \in 1..n THEN P[at] ELSE NoKana
    BY DEF currentChar, Shown
  <2> HIDE DEF n, P
  <2>3. at \in 1..n /\ at \in 1..Len(P)
    BY <2>1 DEF SafeIndex
  <2> HIDE DEF at
  <2>4. currentChar \in checkedGroups \X Nat
    BY <2>1, <2>2, <2>3
  <2>5. currentChar[1] \in checkedGroups
    BY <2>4
  <2>6. "none" \notin Groups
    BY GroupIdsType DEF Names, Hiragana, Katakana, HiraganaPairs, KatakanaPairs
  <2> QED BY <2>1, <2>5, <2>6 DEF NoKana
<1> QED BY <1>1, KanaHolds, PTL

(* "Incorrect. Correct answer:" is about the kana on display               *)
(* (KanaPracticePage.js:55-68, 113-117).                                   *)
THEOREM ComplaintsAreCurrent == Spec => []ComplaintIsCurrent
<1>1. KanaInv => ComplaintIsCurrent
  BY DEF KanaInv, ComplaintInv, ComplaintIsCurrent
<1> QED BY <1>1, KanaHolds, PTL

(* The landing page offers only rooms that the server accepts, whatever    *)
(* was clicked and whichever preset was applied                            *)
(* (KanaBattleLandingPage.js:33-65, 137-145).                              *)
THEOREM RoomsOnOfferAreAccepted == Spec => []OffersAreAccepted
<1>1. KanaInv => OffersAreAccepted
  <2> SUFFICES ASSUME KanaInv PROVE OffersAreAccepted
    OBVIOUS
  <2>1. selectedGroups # {}
    BY DEF KanaInv, FormTypes, Chosen
  <2>2. \A d \in Durations : Accepted(d, selectedGroups)
    BY <2>1 DEF Durations, Accepted
  <2>3. DOMAIN PresetGroups = {"beginner", "standard", "all"}
    BY DEF PresetGroups
  <2> QED BY <2>2, <2>3, PresetsType DEF OffersAreAccepted, Chosen
<1> QED BY <1>1, KanaHolds, PTL

(* A page that shows a game has a kana to answer, unless it has entered    *)
(* the game after its start with an index that it drew in an earlier one:  *)
(* then nothing has reset the index, and the pool may be smaller           *)
(* (KanaBattlePage.js:92-110, 170-171, hub.go:142-148).                    *)
THEOREM KanaToAnswer == Spec => []AnswersHaveAKana
<1>1. KanaInv => AnswersHaveAKana
  BY DEF KanaInv, BattleInv, PlayInv, AnswersHaveAKana
<1> QED BY <1>1, KanaHolds, PTL

LEMMA SettledFollows ==
  ASSUME KanaInv, Settled
  PROVE  /\ sock[current].in = code /\ code \in Rooms
         /\ gameState = Shows(room[code].phase) /\ players = room[code].players
         /\ hostId = room[code].host /\ definitions = room[code].groups
<1>1. /\ current # 0 /\ ~muddled /\ gameState # "ERROR"
      /\ sock[current].at = "open" /\ sock[current].joining = NoRoom
      /\ sock[current].inbox = <<>> /\ sock[current].out = <<>>
  BY DEF Settled
<1>2. Member(sock[current], code, room[code], view)
  <2>1. ~Joining(sock[current], gameState)
    BY <1>1 DEF Joining, Joins
  <2>2. ~Refused(sock[current], gameState)
    <3>1. <<>> # Append(<<>>, ErrorMsg)
      OBVIOUS
    <3> QED BY <1>1, <3>1 DEF Refused
  <2> QED BY <1>1, <2>1, <2>2 DEF KanaInv, BattleInv, FollowInv
<1>3. view.gs = gameState /\ view.pl = players /\ view.h = hostId /\ view.d = definitions
  BY ViewTypes DEF KanaInv, BattleInv
<1>4. Follows(<<>>, code, room[code], view) /\ Len(<<>>) = 0
  BY <1>1, <1>2 DEF Member
<1>5. OnlyHas(<<>>, "SCORE_UPDATE", 1) /\ OnlyHas(<<>>, "GAME_STARTED", 1) /\ ~Has(<<>>, "ROOM_STATE")
  BY <1>4 DEF OnlyHas, Has
<1> QED BY <1>2, <1>3, <1>4, <1>5 DEF Member, Follows, PhaseArrives, PlayersArrive, FactsArrive

(* With nothing on its way, the page shows its room as it is, after any    *)
(* sequence of rooms, sockets, reconnections and lost answers: the case of *)
(* empty queues of FollowInv (KanaBattlePage.js:38-124).                   *)
THEOREM QuietPagesAreCurrent == Spec => []QuietPageIsCurrent
<1>1. KanaInv => QuietPageIsCurrent
  BY SettledFollows DEF QuietPageIsCurrent, Shows
<1> QED BY <1>1, KanaHolds, PTL

(* The ranking never credits me with more than my page has counted: no     *)
(* score that is still on its way from an earlier socket or an earlier     *)
(* game overtakes it (KanaBattlePage.js:151-177, room.go:239-248).         *)
THEOREM ScoresAreEarned == Spec => []NoUnearnedScore
<1>1. KanaInv => NoUnearnedScore
  <2> SUFFICES ASSUME KanaInv, Settled, gameState = "PLAYING", code \notin strayed
               PROVE  players["me"] <= score
    BY DEF NoUnearnedScore
  <2>1. sock[current].in = code /\ code \in Rooms /\ players = room[code].players
    BY SettledFollows
  <2>2. room[code].players["me"] <= score
    BY <2>1 DEF Settled, KanaInv, BattleInv, ScoreInv
  <2> QED BY <2>1, <2>2
<1> QED BY <1>1, KanaHolds, PTL

(* The rooms as Match sees them.                                           *)
MatchStep(r) == M(r)!MatchNext \/ UNCHANGED M(r)!matchVars

\* Of a room: the friend is in it only while it runs, and before it nobody is
\* on its list.
Kept(R) == /\ R.friendIn => R.phase \in Running
           /\ R.phase = "none" => R.players = Nobody
RoomsKept == \A r \in Rooms : Kept(room[r])
Does(r) == MatchStep(r) /\ Kept(room'[r])

\* Whose connection c is.
Who(c) == IF c = 0 THEN "friend" ELSE "me"

LEMMA Whose == Who(0) = "friend" /\ \A s \in Sockets : Who(s) = "me" /\ s # 0
BY SocketAssumption DEF Who

\* The sockets are in the rooms they were in.
Stay == \A s \in Sockets : sock'[s].in = sock[s].in

LEMMA RoomRests ==
  ASSUME RoomsKept, NEW q \in Rooms, room'[q] = room[q],
         \A s \in Sockets : sock'[s].in = q <=> sock[s].in = q
  PROVE  Does(q)
BY DEF Does, MatchStep, M!matchVars, RoomsKept

LEMMA OthersRest ==
  ASSUME ServerTypes, RoomsKept, NEW r \in Rooms, \A o \in Rooms \ {r} : room'[o] = room[o],
         \A s \in Sockets : \/ sock'[s].in = sock[s].in
                            \/ sock'[s].in \in {r, NoRoom} /\ sock[s].in \in {r, NoRoom},
         Does(r)
  PROVE  \A q \in Rooms : Does(q)
<1> SUFFICES ASSUME NEW q \in Rooms \ {r} PROVE Does(q)
  OBVIOUS
<1>1. room'[q] = room[q]
  OBVIOUS
<1>2. \A s \in Sockets : sock'[s].in = q <=> sock[s].in = q
  BY RoomAssumption
<1> QED BY <1>1, <1>2, RoomRests

LEMMA BroadcastStays ==
  ASSUME NEW socks \in [Sockets -> SocketRecs], NEW r \in Rooms, NEW m \in Messages,
         sock' = Broadcast(socks, r, m)
  PROVE  \A s \in Sockets : sock'[s].in = socks[s].in
BY BroadcastReaches

(* Match's steps, of a room whose sockets stay.                            *)
LEMMA StartIsMatch ==
  ASSUME ServerTypes, NEW r \in Rooms, Stay, NEW c \in Sockets \cup {0},
         room[r].phase = "WAITING", room[r].host = Who(c),
         room'[r].phase = "PLAYING", room'[r].players = room[r].players, room'[r].host = room[r].host,
         room'[r].friendIn = room[r].friendIn
  PROVE  Does(r)
<1>1. M(r)!Start(c)
  BY DEF M!Start, Stay, Who
<1> QED BY <1>1 DEF Does, MatchStep, Kept, M!MatchNext, Running

LEMMA FinishIsMatch ==
  ASSUME ServerTypes, NEW r \in Rooms, Stay, room[r].phase = "PLAYING",
         room'[r].phase = "FINISHED", room'[r].players = room[r].players, room'[r].host = room[r].host,
         room'[r].friendIn = room[r].friendIn
  PROVE  Does(r)
<1>1. M(r)!Finish
  BY DEF M!Finish, Stay
<1> QED BY <1>1 DEF Does, MatchStep, Kept, M!MatchNext, Running

LEMMA GoAwayIsMatch ==
  ASSUME ServerTypes, NEW r \in Rooms, RoomExpires(r)
  PROVE  Does(r)
<1>1. /\ room[r].phase \in Running /\ room'[r].phase = "gone"
      /\ room'[r].players = room[r].players /\ room'[r].host = room[r].host
      /\ ~room'[r].friendIn /\ ~room[r].friendIn /\ sock' = sock /\ \A s \in Sockets : sock[s].in # r
  BY DEF ServerTypes, RoomRecs, RoomExpires, Running
<1>2. M(r)!GoAway
  BY <1>1 DEF M!GoAway, M!Open, Running
<1> QED BY <1>1, <1>2 DEF Does, MatchStep, Kept, M!MatchNext

LEMMA CreateIsMatch ==
  ASSUME ServerTypes, SocketInv, RoomsKept, NEW r \in Rooms, Stay, NEW p \in People, NEW groups,
         room[r].phase = "none", room' = [room EXCEPT ![r] = NewRoom(p, groups)]
  PROVE  Does(r)
<1>1. /\ room'[r].phase = "WAITING" /\ room'[r].players = Nobody /\ room'[r].host = p
      /\ room'[r].friendIn = FALSE /\ ~room[r].friendIn /\ room[r].players = Nobody
  BY DEF ServerTypes, NewRoom, RoomsKept, Kept, Running
<1>2. M(r)!Create(p)
  BY <1>1 DEF M!Create, Stay
<1> QED BY <1>1, <1>2 DEF Does, MatchStep, Kept, M!MatchNext

LEMMA ScoreIsMatch ==
  ASSUME ServerTypes, RoomsKept, NEW r \in Rooms, Stay, NEW c \in Sockets \cup {0}, NEW n \in 0..MaxPoints,
         room[r].phase = "PLAYING", room[r].players[Who(c)] # Absent,
         room'[r].phase = "PLAYING", room'[r].players = [room[r].players EXCEPT ![Who(c)] = n],
         room'[r].host = room[r].host, room'[r].friendIn = room[r].friendIn
  PROVE  Does(r)
<1>1. M(r)!Score(c, n)
  BY DEF M!Score, Stay, Who
<1> QED BY <1>1 DEF Does, MatchStep, Kept, M!MatchNext, Running

LEMMA EnterIsMatch ==
  ASSUME ServerTypes, RoomsKept, NEW r \in Rooms, NEW c \in Sockets \cup {0},
         room[r].phase \in Running, room'[r].phase = room[r].phase, room'[r].host = room[r].host,
         room'[r].players = Enter(room[r], Who(c)).players,
         room'[r].friendIn = (room[r].friendIn \/ c = 0),
         \A s \in Sockets : sock'[s].in = r => s = c \/ sock[s].in = r
  PROVE  Does(r)
<1>1. room'[r].players = IF room[r].players[Who(c)] = Absent THEN [room[r].players EXCEPT ![Who(c)] = 0] ELSE room[r].players
  <2> DEFINE P == room[r].players
             n == IF P[Who(c)] = Absent THEN 0 ELSE P[Who(c)]
  <2>1. room[r] \in RoomRecs /\ P \in PlayerLists
    BY DEF ServerTypes, RoomRecs
  <2>2. room'[r].players = [P EXCEPT ![Who(c)] = n]
    BY <2>1 DEF Enter, RoomRecs
  <2> HIDE DEF P
  <2>3. [P EXCEPT ![Who(c)] = P[Who(c)]] = P
    BY <2>1 DEF PlayerLists
  <2>4. room'[r].players = IF P[Who(c)] = Absent THEN [P EXCEPT ![Who(c)] = 0] ELSE P
    BY <2>2, <2>3
  <2> QED BY <2>4 DEF P
<1>2. M(r)!Enter(c)
  BY <1>1 DEF M!Enter, M!Open, Who, Running
<1> QED BY <1>2 DEF Does, MatchStep, Kept, M!MatchNext, Running

LEMMA LeaveIsMatch ==
  ASSUME ServerTypes, RoomsKept, NEW r \in Rooms, NEW c \in Sockets \cup {0},
         room[r].phase \in Running,
         c = 0 => room[r].friendIn, c # 0 => sock[c].in = r,
         room'[r].phase = room[r].phase, room'[r].host = room[r].host,
         room'[r].players = Leave(room[r], Who(c)).players,
         room'[r].friendIn = (room[r].friendIn /\ c # 0),
         \A s \in Sockets : sock'[s].in = r => s # c /\ sock[s].in = r
  PROVE  Does(r)
<1>1. room'[r].players = IF room[r].phase = "WAITING" THEN [room[r].players EXCEPT ![Who(c)] = Absent] ELSE room[r].players
  BY DEF Leave, ServerTypes, RoomRecs
<1>2. 0 \notin Sockets
  BY SocketAssumption
<1>3. M(r)!Leave(c)
  BY <1>1, <1>2 DEF M!Leave, M!Open, Running, Who
<1> QED BY <1>3 DEF Does, MatchStep, Kept, M!MatchNext, Running

(* The server's steps.                                                     *)
LEMMA NothingMatches ==
  ASSUME RoomsKept, room' = room, Stay
  PROVE  \A q \in Rooms : Does(q)
BY RoomRests DEF Stay

LEMMA RequestMatches ==
  ASSUME ServerTypes, SocketInv, RoomsKept, NEW s \in Sockets, ServerIgnores(s) \/ ServerRefuses(s)
  PROVE  \A q \in Rooms : Does(q)
<1>1. sock[s].inbox # <<>>
  BY DEF ServerIgnores, ServerRefuses, Receives
<1>2. Read(s) \in SocketRecs /\ Read(s).in = sock[s].in
  BY <1>1, ReadTakesOne
<1>3. Put(Read(s), ErrorMsg).in = sock[s].in
  BY <1>2 DEF Put, SocketRecs
<1>4. Stay
  BY <1>2, <1>3 DEF ServerIgnores, ServerRefuses, Stay, ServerTypes
<1> QED BY <1>4, NothingMatches DEF ServerIgnores, ServerRefuses

LEMMA ReadStays ==
  ASSUME ServerTypes, NEW s \in Sockets, sock[s].inbox # <<>>, NEW r \in Rooms, NEW m \in Messages,
         sock' = Broadcast([sock EXCEPT ![s] = Read(s)], r, m)
  PROVE  Stay
<1> DEFINE socks == [sock EXCEPT ![s] = Read(s)]
<1>1. socks \in [Sockets -> SocketRecs] /\ \A t \in Sockets : socks[t].in = sock[t].in
  BY ReadTakesOne DEF ServerTypes
<1> HIDE DEF socks
<1> QED BY <1>1, BroadcastStays DEF Stay, socks

LEMMA StartsMatch ==
  ASSUME ServerTypes, SocketInv, RoomsKept, NEW s \in Sockets, ServerStarts(s)
  PROVE  \A q \in Rooms : Does(q)
<1>0. PICK r \in Rooms : r = sock[s].in
  BY DEF ServerStarts, ServerTypes, SocketRecs, Codes
<1>1. /\ sock[s].inbox # <<>> /\ r \in Rooms /\ room[r].phase = "WAITING" /\ room[r].host = "me"
      /\ room' = [room EXCEPT ![r].phase = "PLAYING"]
      /\ sock' = Broadcast([sock EXCEPT ![s] = Read(s)], r, GameStarted(r))
  BY <1>0 DEF ServerStarts, Receives
<1>2. GameStarted(r) \in Messages
  BY <1>1, MessageTypes DEF ServerTypes
<1>3. Stay
  BY <1>1, <1>2, ReadStays
<1>4. Does(r)
  <2>1. room[r] \in RoomRecs /\ room'[r] = [room[r] EXCEPT !.phase = "PLAYING"]
    BY <1>1 DEF ServerTypes
  <2>2. /\ room'[r].phase = "PLAYING" /\ room'[r].players = room[r].players
        /\ room'[r].host = room[r].host /\ room'[r].friendIn = room[r].friendIn
    BY <2>1 DEF RoomRecs
  <2>3. Who(s) = "me"
    BY Whose
  <2> QED BY <1>1, <1>3, <2>2, <2>3, StartIsMatch
<1>5. \A o \in Rooms \ {r} : room'[o] = room[o]
  BY <1>1 DEF ServerTypes
<1> QED BY <1>1, <1>3, <1>4, <1>5, OthersRest DEF Stay

LEMMA ScoresMatch ==
  ASSUME ServerTypes, SocketInv, RoomsKept, NEW s \in Sockets, ServerScores(s)
  PROVE  \A q \in Rooms : Does(q)
<1>0. PICK r \in Rooms : r = sock[s].in
  BY DEF ServerScores, ServerTypes, SocketRecs, Codes
<1>a. PICK n : n = Head(sock[s].inbox).score
  OBVIOUS
<1> DEFINE R == [room[r] EXCEPT !.players["me"] = n]
<1>1. /\ sock[s].inbox # <<>> /\ r \in Rooms /\ room[r].phase = "PLAYING"
      /\ room[r].players["me"] # Absent
      /\ room' = [room EXCEPT ![r] = R]
      /\ sock' = Broadcast([sock EXCEPT ![s] = Read(s)], r, Scores(r, R))
  BY <1>0, <1>a DEF ServerScores, Receives
<1>2. n \in 0..MaxPoints /\ "me" \in People
  BY <1>1, <1>a, ReadTakesOne DEF Orders, People
<1>3. R \in RoomRecs
  BY <1>1, <1>2, RoomTypes
<1>4. Scores(r, R) \in Messages
  BY <1>1, <1>3, MessageTypes
<1>5. Stay
  BY <1>1, <1>4, ReadStays
<1>6. Does(r)
  <2>1. room[r] \in RoomRecs /\ room'[r] = R
    BY <1>1 DEF ServerTypes
  <2>2. /\ room'[r].phase = "PLAYING" /\ room'[r].players = [room[r].players EXCEPT !["me"] = n]
        /\ room'[r].host = room[r].host /\ room'[r].friendIn = room[r].friendIn
    BY <1>1, <2>1 DEF RoomRecs
  <2>3. Who(s) = "me"
    BY Whose
  <2> QED BY <1>1, <1>2, <1>5, <2>2, <2>3, ScoreIsMatch
<1>7. \A o \in Rooms \ {r} : room'[o] = room[o]
  BY <1>1 DEF ServerTypes
<1> QED BY <1>1, <1>5, <1>6, <1>7, OthersRest DEF Stay

LEMMA CheckMatches ==
  ASSUME ServerTypes, RoomsKept, NEW s \in Sockets, ServerChecks(s)
  PROVE  \A q \in Rooms : Does(q)
<1> DEFINE X == [Read(s) EXCEPT !.joining = sock[s].code]
<1>1. room' = room /\ sock' = [sock EXCEPT ![s] = X] /\ sock[s].inbox # <<>>
  BY DEF ServerChecks, Receives
<1>2. X.in = sock[s].in
  BY <1>1, ReadTakesOne DEF SocketRecs
<1> HIDE DEF X
<1>3. Stay
  BY <1>1, <1>2 DEF Stay, ServerTypes
<1> QED BY <1>1, <1>3, NothingMatches

(* The room takes a socket in, in whatever phase it is by then.            *)
LEMMA RegisterMatches ==
  ASSUME ServerTypes, SocketInv, RoomsKept, NEW s \in Sockets, ServerRegisters(s)
  PROVE  \A q \in Rooms : Does(q)
<1>0. PICK r \in Rooms : r = sock[s].joining
  BY DEF ServerRegisters, SocketInv
<1> DEFINE R == Enter(room[r], "me")
           X == [sock[s] EXCEPT !.in = r, !.joining = NoRoom]
           joined == [sock EXCEPT ![s] = X]
<1>1. /\ room[r].phase \in Running /\ "me" \in People /\ sock[s].in = NoRoom
      /\ room' = [room EXCEPT ![r] = R] /\ sock' = Broadcast(joined, r, RoomState(r, R))
  <2>1. [sock EXCEPT ![s].in = r, ![s].joining = NoRoom] = joined
    BY DEF ServerTypes
  <2>2. room[r].phase \in Phases /\ room[r].phase # "none" /\ room[r].phase # "gone" /\ sock[s].in = NoRoom
    BY <1>0, RoomAssumption DEF ServerRegisters, SocketInv, ServerTypes, RoomRecs
  <2> QED BY <1>0, <2>1, <2>2 DEF ServerRegisters, Phases, Running, People
<1>2. R \in RoomRecs /\ room[r] \in RoomRecs
  BY <1>1, RoomTypes
<1>3. R.phase = room[r].phase /\ R.host = room[r].host /\ R.friendIn = room[r].friendIn
  BY <1>2 DEF Enter, RoomRecs
<1>4. X \in SocketRecs /\ X.in = r
  BY DEF ServerTypes, SocketRecs, Codes
<1>5. joined \in [Sockets -> SocketRecs] /\ joined[s] = X /\ \A t \in Sockets \ {s} : joined[t] = sock[t]
  BY <1>4 DEF ServerTypes
<1>6. RoomState(r, R) \in Messages
  BY <1>2, MessageTypes
<1> HIDE DEF joined, X
<1>7. \A t \in Sockets : sock'[t].in = joined[t].in
  BY <1>1, <1>5, <1>6, BroadcastStays
<1>8. sock'[s].in = r /\ \A t \in Sockets \ {s} : sock'[t].in = sock[t].in
  BY <1>4, <1>5, <1>7
<1>9. room'[r] = R
  BY <1>1 DEF ServerTypes
<1> HIDE DEF R
<1>10. Does(r)
  <2>1. s # 0 /\ s \in Sockets \cup {0} /\ Who(s) = "me"
    BY Whose
  <2>2. room'[r].players = Enter(room[r], "me").players /\ room'[r].friendIn = (room[r].friendIn \/ s = 0)
    BY <1>2, <1>3, <1>9, <2>1 DEF R, RoomRecs
  <2> QED BY <1>1, <1>3, <1>8, <1>9, <2>1, <2>2, EnterIsMatch
<1>11. \A o \in Rooms \ {r} : room'[o] = room[o]
  BY <1>1 DEF ServerTypes
<1>12. \A t \in Sockets : \/ sock'[t].in = sock[t].in
                          \/ sock'[t].in \in {r, NoRoom} /\ sock[t].in \in {r, NoRoom}
  BY <1>1, <1>8
<1> QED BY <1>10, <1>11, <1>12, OthersRest

LEMMA ReleaseMatches ==
  ASSUME ServerTypes, SocketInv, RoomsKept, NEW s \in Sockets, ServerReleases(s)
  PROVE  \A q \in Rooms : Does(q)
<1> DEFINE G == [NoSocket EXCEPT !.at = "gone"]
           gone == [sock EXCEPT ![s] = G]
<1>1. G \in SocketRecs /\ G.in = NoRoom
  BY NoSocketType DEF SocketRecs
<1>2. gone \in [Sockets -> SocketRecs] /\ gone[s] = G /\ \A t \in Sockets \ {s} : gone[t] = sock[t]
  BY <1>1 DEF ServerTypes
<1>3. CASE sock[s].in = NoRoom
  <2>1. room' = room /\ sock' = gone
    BY <1>3 DEF ServerReleases
  <2> HIDE DEF gone
  <2> QED BY <1>1, <1>2, <1>3, <2>1, NothingMatches DEF Stay
<1>4. CASE sock[s].in # NoRoom
  <2>0. PICK r \in Rooms : r = sock[s].in
    BY <1>4 DEF ServerTypes, SocketRecs, Codes
  <2> DEFINE R == Leave(room[r], "me")
  <2>1. r = sock[s].in /\ room' = [room EXCEPT ![r] = R] /\ sock' = Broadcast(gone, r, RoomState(r, R))
    BY <1>4, <2>0 DEF ServerReleases
  <2>2. "me" \in People /\ R \in RoomRecs /\ room[r] \in RoomRecs
    BY <2>1, RoomTypes DEF People
  <2>3. R.phase = room[r].phase /\ R.host = room[r].host /\ R.friendIn = room[r].friendIn
    BY <2>2 DEF Leave, RoomRecs
  <2>4. room[r].phase \in Running
    BY <1>4, <2>0 DEF SocketInv
  <2>5. RoomState(r, R) \in Messages
    BY <2>1, <2>2, MessageTypes
  <2> HIDE DEF gone, G
  <2>6. \A t \in Sockets : sock'[t].in = gone[t].in
    BY <1>2, <2>1, <2>5, BroadcastStays
  <2>7. sock'[s].in = NoRoom /\ \A t \in Sockets \ {s} : sock'[t].in = sock[t].in
    BY <1>1, <1>2, <2>6
  <2>8. room'[r] = R
    BY <2>1 DEF ServerTypes
  <2> HIDE DEF R
  <2>9. Does(r)
    <3>1. s # 0 /\ s \in Sockets \cup {0} /\ Who(s) = "me" /\ NoRoom \notin Rooms
      BY Whose, RoomAssumption
    <3>2. /\ room'[r].players = Leave(room[r], "me").players
          /\ room'[r].friendIn = (room[r].friendIn /\ s # 0)
      BY <2>2, <2>3, <2>8, <3>1 DEF R, RoomRecs
    <3>3. \A t \in Sockets : sock'[t].in = r => t # s /\ sock[t].in = r
      BY <2>1, <2>7, <3>1
    <3> QED BY <2>1, <2>3, <2>4, <2>8, <3>1, <3>2, <3>3, LeaveIsMatch
  <2>10. \A o \in Rooms \ {r} : room'[o] = room[o]
    BY <2>1 DEF ServerTypes
  <2>11. \A t \in Sockets : \/ sock'[t].in = sock[t].in
                            \/ sock'[t].in \in {r, NoRoom} /\ sock[t].in \in {r, NoRoom}
    BY <2>1, <2>7
  <2> QED BY <2>1, <2>9, <2>10, <2>11, OthersRest
<1> QED BY <1>3, <1>4

LEMMA ReadsMatch ==
  ASSUME ServerTypes, SocketInv, RoomsKept, NEW s \in Sockets, ServerReads(s)
  PROVE  \A q \in Rooms : Does(q)
BY RequestMatches, CheckMatches, RegisterMatches, StartsMatch, ScoresMatch, ReleaseMatches DEF ServerReads

LEMMA ChangeMatches ==
  ASSUME ServerTypes, RoomsKept, NEW r \in Rooms, NEW R, NEW m \in Messages, Change(r, R, m),
         Stay /\ room'[r] = R => Does(r)
  PROVE  \A q \in Rooms : Does(q)
<1>1. Stay
  BY BroadcastStays DEF Change, Stay, ServerTypes
<1>2. room'[r] = R /\ \A o \in Rooms \ {r} : room'[o] = room[o]
  BY DEF Change, ServerTypes
<1> QED BY <1>1, <1>2, OthersRest DEF Stay

LEMMA EndMatches ==
  ASSUME ServerTypes, RoomsKept, NEW r \in Rooms, GameEnds(r)
  PROVE  \A q \in Rooms : Does(q)
<1>1. PICK R : R = [room[r] EXCEPT !.phase = "FINISHED"]
  OBVIOUS
<1>2. room[r].phase = "PLAYING" /\ Change(r, R, GameOver(r, R)) /\ room[r] \in RoomRecs /\ R \in RoomRecs
  BY <1>1, RoomTypes DEF GameEnds, Phases, People
<1>3. /\ R.phase = "FINISHED" /\ R.players = room[r].players
      /\ R.host = room[r].host /\ R.friendIn = room[r].friendIn
  BY <1>1, <1>2 DEF RoomRecs
<1>4. PICK m \in Messages : m = GameOver(r, R)
  BY <1>2, MessageTypes
<1>5. Stay /\ room'[r] = R => Does(r)
  BY <1>2, <1>3, FinishIsMatch
<1> QED BY <1>2, <1>4, <1>5, ChangeMatches

LEMMA FriendStartMatches ==
  ASSUME ServerTypes, RoomsKept, NEW r \in Rooms, FriendStarts(r)
  PROVE  \A q \in Rooms : Does(q)
<1>1. PICK R : R = [room[r] EXCEPT !.phase = "PLAYING"]
  OBVIOUS
<1>2. /\ room[r].phase = "WAITING" /\ Change(r, R, GameStarted(r)) /\ room[r] \in RoomRecs
      /\ room[r].host = "friend"
  BY <1>1, RoomTypes DEF FriendStarts, People
<1>3. /\ R.phase = "PLAYING" /\ R.players = room[r].players
      /\ R.host = room[r].host /\ R.friendIn = room[r].friendIn
  BY <1>1, <1>2 DEF RoomRecs
<1>4. PICK m \in Messages : m = GameStarted(r)
  BY <1>2, MessageTypes
<1>5. Stay /\ room'[r] = R => Does(r)
  BY <1>2, <1>3, Whose, StartIsMatch
<1> QED BY <1>2, <1>4, <1>5, ChangeMatches

LEMMA FriendScoreMatches ==
  ASSUME ServerTypes, RoomsKept, NEW r \in Rooms, FriendScores(r)
  PROVE  \A q \in Rooms : Does(q)
<1>1. PICK n : n = room[r].players["friend"] + 1
  OBVIOUS
<1>2. PICK R : R = [room[r] EXCEPT !.players["friend"] = n]
  OBVIOUS
<1>3. /\ room[r].players["friend"] \in 0..(MaxPoints - 1) /\ MaxPoints \in Nat
      /\ room[r].phase = "PLAYING" /\ Change(r, R, Scores(r, R))
  BY <1>1, <1>2, QueueAssumption DEF FriendScores
<1>4. n \in 0..MaxPoints /\ room[r].players["friend"] # Absent
  BY <1>1, <1>3 DEF Absent
<1>5. room[r] \in RoomRecs /\ R \in RoomRecs
  BY <1>2, <1>4, RoomTypes DEF People
<1>6. /\ R.phase = "PLAYING" /\ R.players = [room[r].players EXCEPT !["friend"] = n]
      /\ R.host = room[r].host /\ R.friendIn = room[r].friendIn
  BY <1>2, <1>3, <1>5 DEF RoomRecs
<1>7. PICK m \in Messages : m = Scores(r, R)
  BY <1>5, MessageTypes
<1>8. Stay /\ room'[r] = R => Does(r)
  BY <1>3, <1>4, <1>6, Whose, ScoreIsMatch
<1> QED BY <1>3, <1>7, <1>8, ChangeMatches

LEMMA FriendJoinMatches ==
  ASSUME ServerTypes, RoomsKept, NEW r \in Rooms, FriendJoins(r)
  PROVE  \A q \in Rooms : Does(q)
<1>1. PICK E : E = Enter(room[r], "friend")
  OBVIOUS
<1>2. PICK R : R = [E EXCEPT !.friendIn = TRUE]
  OBVIOUS
<1>3. /\ room[r].phase = "WAITING" /\ Change(r, R, RoomState(r, R))
      /\ room[r] \in RoomRecs /\ E \in RoomRecs /\ R \in RoomRecs
  BY <1>1, <1>2, RoomTypes DEF FriendJoins, People
<1>4. E.phase = room[r].phase /\ E.host = room[r].host
  BY <1>1, <1>3 DEF Enter, RoomRecs
<1>5. R.phase = E.phase /\ R.players = E.players /\ R.host = E.host /\ R.friendIn
  BY <1>2, <1>3 DEF RoomRecs
<1>6. PICK m \in Messages : m = RoomState(r, R)
  BY <1>3, MessageTypes
<1>7. Stay /\ room'[r] = R => Does(r)
  BY <1>1, <1>3, <1>4, <1>5, Whose, EnterIsMatch DEF Stay, Running
<1> QED BY <1>3, <1>6, <1>7, ChangeMatches

LEMMA FriendLeaveMatches ==
  ASSUME ServerTypes, RoomsKept, NEW r \in Rooms, FriendLeaves(r)
  PROVE  \A q \in Rooms : Does(q)
<1>1. PICK E : E = Leave(room[r], "friend")
  OBVIOUS
<1>2. PICK R : R = [E EXCEPT !.friendIn = FALSE]
  OBVIOUS
<1>3. /\ room[r].friendIn /\ Change(r, R, RoomState(r, R))
      /\ room[r] \in RoomRecs /\ E \in RoomRecs /\ R \in RoomRecs /\ room[r].phase \in Running
  BY <1>1, <1>2, RoomTypes DEF FriendLeaves, People, RoomsKept, Kept
<1>4. E.phase = room[r].phase /\ E.host = room[r].host
  BY <1>1, <1>3 DEF Leave, RoomRecs
<1>5. R.phase = E.phase /\ R.players = E.players /\ R.host = E.host /\ R.friendIn = FALSE
  BY <1>2, <1>3 DEF RoomRecs
<1>6. PICK m \in Messages : m = RoomState(r, R)
  BY <1>3, MessageTypes
<1>7. Stay /\ room'[r] = R => Does(r)
  <2> SUFFICES ASSUME Stay, room'[r] = R PROVE Does(r)
    OBVIOUS
  <2>1. \A s \in Sockets : sock'[s].in = r => s # 0 /\ sock[s].in = r
    BY Whose DEF Stay
  <2>2. /\ room'[r].phase = room[r].phase /\ room'[r].host = room[r].host
        /\ room'[r].players = Leave(room[r], Who(0)).players
        /\ room'[r].friendIn = (room[r].friendIn /\ 0 # 0)
    BY <1>1, <1>4, <1>5, Whose
  <2> QED BY <1>3, <2>1, <2>2, LeaveIsMatch
<1> QED BY <1>3, <1>6, <1>7, ChangeMatches

LEMMA RoomStepMatches ==
  ASSUME ServerTypes, SocketInv, RoomsKept, NEW r \in Rooms, RoomStep(r)
  PROVE  \A q \in Rooms : Does(q)
<1>1. CASE RoomExpires(r)
  <2>1. /\ Does(r) /\ sock' = sock /\ \A o \in Rooms \ {r} : room'[o] = room[o]
    BY <1>1, GoAwayIsMatch DEF RoomExpires, ServerTypes
  <2> QED BY <2>1, OthersRest
<1>2. CASE FriendCreates(r)
  <2>1. PICK groups : room[r].phase = "none" /\ sock' = sock /\ room' = [room EXCEPT ![r] = NewRoom("friend", groups)]
    BY <1>2 DEF FriendCreates
  <2>2. Does(r)
    BY <2>1, CreateIsMatch DEF Stay, People
  <2>3. \A o \in Rooms \ {r} : room'[o] = room[o]
    BY <2>1 DEF ServerTypes
  <2> QED BY <2>1, <2>2, <2>3, OthersRest
<1> QED BY <1>1, <1>2, EndMatches, FriendStartMatches, FriendScoreMatches,
           FriendJoinMatches, FriendLeaveMatches DEF RoomStep

LEMMA CreationMatches ==
  ASSUME ServerTypes, SocketInv, RoomsKept, NEW r \in Rooms, NEW groups, CreateRoom(r, groups), Stay
  PROVE  \A q \in Rooms : Does(q)
<1>1. room[r].phase = "none" /\ room' = [room EXCEPT ![r] = NewRoom("me", groups)]
  BY DEF CreateRoom
<1>2. Does(r)
  BY <1>1, CreateIsMatch DEF People
<1>3. \A o \in Rooms \ {r} : room'[o] = room[o]
  BY <1>1 DEF ServerTypes
<1> QED BY <1>2, <1>3, OthersRest DEF Stay

(* The page's steps leave every socket in the room it is in.               *)
LEMMA ConnectStays ==
  ASSUME ServerTypes, PageTypes, SocketInv, NEW c \in Codes, Connect(c)
  PROVE  Stay
<1> SUFFICES ASSUME NEW s \in Sockets PROVE sock'[s].in = sock[s].in
  BY DEF Stay
<1>1. PageMoves(sock[s], sock'[s])
  BY ConnectOpens
<1> QED BY <1>1 DEF PageMoves, Same, Keeps, SocketInv

LEMMA UnmountStays ==
  ASSUME ServerTypes, PageTypes, Unmount
  PROVE  Stay
<1> SUFFICES ASSUME NEW s \in Sockets PROVE sock'[s].in = sock[s].in
  BY DEF Stay
<1> DEFINE C == Cleanup(sock)
<1>1. C[s] \in SocketRecs /\ C[s].in = sock[s].in
  BY CleanupCloses DEF Keeps
<1>2. sock'[s] = [C[s] EXCEPT !.mine = FALSE, !.out = <<>>]
  BY DEF Unmount
<1> HIDE DEF C
<1>3. sock'[s].in = C[s].in
  BY <1>1, <1>2 DEF SocketRecs
<1> QED BY <1>1, <1>3

LEMMA SocketStepStays ==
  ASSUME ServerTypes, SocketInv, NEW s \in Sockets, SocketStep(s)
  PROVE  Stay
<1>1. sock[s] \in SocketRecs
  BY DEF ServerTypes
<1>2. CASE Open(s)
  <2>1. [Send(s, JoinRoom) EXCEPT !.at = "open"].in = sock[s].in
    BY <1>1 DEF Send, SocketRecs
  <2> QED BY <1>2, <2>1 DEF Open, Stay, ServerTypes
<1>3. CASE Break(s)
  <2>1. /\ [sock[s] EXCEPT !.at = "closed", !.inbox = <<>>, !.out = <<>>].in = sock[s].in
        /\ [NoSocket EXCEPT !.at = "gone"].in = NoRoom
    BY <1>1, NoSocketType DEF SocketRecs
  <2> QED BY <1>3, <2>1 DEF Break, Stay, ServerTypes, SocketInv
<1>4. CASE \E n \in 1..MaxQueue : Deliver(s, n)
  BY <1>1, <1>4 DEF Deliver, Stay, ServerTypes, SocketRecs
<1> QED BY <1>2, <1>3, <1>4 DEF SocketStep

LEMMA PlayingStays ==
  ASSUME ServerTypes, PageTypes, Playing
  PROVE  Stay
<1>1. sock' = sock \/ (current # 0 /\ \E m : sock' = [sock EXCEPT ![current] = Send(current, m)])
  BY DEF Playing, handleStartGame, handleInputChange
<1>2. CASE sock' = sock
  BY <1>2 DEF Stay
<1>3. CASE current # 0 /\ \E m : sock' = [sock EXCEPT ![current] = Send(current, m)]
  <2>1. PICK m : sock' = [sock EXCEPT ![current] = Send(current, m)]
    BY <1>3
  <2>2. current \in Sockets /\ sock[current] \in SocketRecs
    BY <1>3 DEF PageTypes, ServerTypes
  <2>3. Send(current, m).in = sock[current].in
    BY <2>2 DEF Send, SocketRecs
  <2> QED BY <2>1, <2>2, <2>3 DEF Stay, ServerTypes
<1> QED BY <1>1, <1>2, <1>3

LEMMA ShowStays ==
  ASSUME ServerTypes, PageTypes, SocketInv, NEW c \in Codes, Show(c)
  PROVE  Stay
BY ConnectStays DEF Show, Mount, OtherRoom, Stay

\* A step of the pages, as PageRoomsKeepMatch allows it.
MatchesMove ==
  \/ UNCHANGED Matches
  \/ \A r \in Rooms : M(r)!MatchNext \/ UNCHANGED M(r)!matchVars

LEMMA MatchInitially ==
  ASSUME Init
  PROVE  RoomsKept /\ \A r \in Rooms : M(r)!MatchInit
<1>1. /\ \A s \in Sockets : sock[s] = NoSocket
      /\ \A r \in Rooms : room[r] = Unborn
  BY DEF Init, ServerInit
<1>2. /\ NoSocket.in = NoRoom
      /\ Unborn.phase = "none" /\ Unborn.players = Nobody /\ Unborn.host = "none" /\ Unborn.friendIn = FALSE
  BY DEF NoSocket, Unborn
<1>3. RoomsKept
  BY <1>1, <1>2 DEF RoomsKept, Kept
<1>4. ASSUME NEW r \in Rooms PROVE M(r)!MatchInit
  BY <1>1, <1>2, RoomAssumption DEF M!MatchInit, Nobody
<1> QED BY <1>3, <1>4

LEMMA MatchKept ==
  ASSUME KanaInv, RoomsKept, Next
  PROVE  \A q \in Rooms : Does(q)
<1>0. /\ ServerTypes /\ PageTypes /\ SocketInv /\ code \in Codes
  BY DEF KanaInv, BattleInv, PageTypes
<1>1. CASE Practicing \/ LeavePractice \/ FillLanding \/ CreateSignedOut \/ SignedIn
  <2>1. room' = room /\ sock' = sock
    BY <1>1 DEF Practicing, LeavePractice, FillLanding, CreateSignedOut, SignedIn, serverVars
  <2> QED BY <2>1, NothingMatches DEF Stay
<1>2. CASE handleJoinRoom \/ OpenAddress
  <2>1. room' = room /\ \E c \in Codes : Show(c)
    BY <1>2 DEF handleJoinRoom, OpenAddress, Codes
  <2> QED BY <1>0, <2>1, ShowStays, NothingMatches
<1>3. CASE \E k \in Calls : CreateAnswered(k)
  <2>1. PICK k \in Calls : CreateAnswered(k)
    BY <1>3
  <2>2. CASE \E r \in Rooms : CreateRoom(r, calls[k]) /\ Show(r)
    <3>1. PICK r \in Rooms : CreateRoom(r, calls[k]) /\ Show(r)
      BY <2>2
    <3>2. PICK groups : groups = calls[k]
      OBVIOUS
    <3>3. Stay
      BY <1>0, <3>1, ShowStays DEF Codes
    <3> QED BY <1>0, <3>1, <3>2, <3>3, CreationMatches
  <2>3. CASE room' = room /\ sock' = sock
    BY <2>3, NothingMatches DEF Stay
  <2> QED BY <2>1, <2>2, <2>3 DEF CreateAnswered
<1>4. CASE (\E page \in {"landing", "away"} : Visit(page)) \/ SignedOut
  <2>1. room' = room /\ (Unmount \/ sock' = sock)
    BY <1>4 DEF Visit, SignedOut
  <2> QED BY <1>0, <2>1, UnmountStays, NothingMatches DEF Stay
<1>5. CASE TokenRefreshed
  BY <1>0, <1>5, ConnectStays, NothingMatches DEF TokenRefreshed, NewToken
<1>6. CASE \E s \in Sockets : SocketStep(s)
  <2>1. room' = room
    BY <1>6 DEF SocketStep
  <2> QED BY <1>0, <1>6, <2>1, SocketStepStays, NothingMatches
<1>7. CASE Playing
  <2>1. room' = room
    BY <1>7 DEF Playing
  <2> QED BY <1>0, <1>7, <2>1, PlayingStays, NothingMatches
<1>8. CASE Server
  BY <1>0, <1>8, ReadsMatch, RoomStepMatches DEF Server
<1> QED BY <1>1, <1>2, <1>3, <1>4, <1>5, <1>6, <1>7, <1>8 DEF Next

(* The rooms, as the sockets of the page and the friend move them, keep    *)
(* the promise of Match: each step is a step of Match in every room, or    *)
(* leaves the room alone (room.go:74-157, 186-258).                        *)
THEOREM PageRoomsImplementMatch == Spec => PageRoomsKeepMatch
<1>1. Init => RoomsKept /\ \A r \in Rooms : M(r)!MatchInit
  BY MatchInitially
<1>2. KanaInv /\ RoomsKept /\ [Next]_pagesVars => RoomsKept' /\ [MatchesMove]_serverVars
  <2> SUFFICES ASSUME KanaInv, RoomsKept, [Next]_pagesVars
               PROVE  RoomsKept' /\ [MatchesMove]_serverVars
    OBVIOUS
  <2>1. CASE Next
    BY <2>1, MatchKept DEF Does, MatchStep, MatchesMove, RoomsKept
  <2>2. CASE UNCHANGED pagesVars
    BY <2>2 DEF pagesVars, serverVars, RoomsKept, Kept
  <2> QED BY <2>1, <2>2
<1> QED BY KanaHolds, <1>1, <1>2, PTL DEF Spec, PageRoomsKeepMatch, MatchesMove

LEMMA AnotherShown ==
  ASSUME NEW chosen \in SUBSET Groups, NEW i \in Nat, NEW n, n = Len(Pool(chosen)),
         i < n, n > 1, NEW j \in RandomIndex(i, n)
  PROVE  Shown(chosen, i) # Shown(chosen, j)
<1> DEFINE P == Pool(chosen)
<1>1. P \in Seq(chosen \X Nat) /\ n = PoolSize(chosen) /\ Apart(P)
  BY PoolIsExact
<1>2. n \in Nat /\ n = Len(P)
  <2> DEFINE K == chosen \X Nat
  <2>1. P \in Seq(K) /\ n = Len(P)
    BY <1>1
  <2> HIDE DEF K, P
  <2> QED BY <2>1
<1>3. j \in 0..n-1 /\ j # i
  BY <1>2 DEF RandomIndex
<1> HIDE DEF P
<1>4. \A k \in 0..n-1 : Shown(chosen, k) = P[k+1]
  <2> TAKE k \in 0..n-1
  <2>1. SafeIndex(k, n) + 1 = k + 1 /\ k + 1 \in 1..n
    BY <1>2 DEF SafeIndex
  <2> QED BY <1>1, <2>1 DEF Shown, P
<1>5. i + 1 \in 1..n /\ j + 1 \in 1..n /\ i + 1 # j + 1 /\ i \in 0..n-1
  BY <1>2, <1>3
<1>6. P[i+1] # P[j+1]
  BY <1>1, <1>2, <1>5 DEF Apart
<1> QED BY <1>3, <1>4, <1>5, <1>6

(* A right answer brings another kana while the index is in the pool:      *)
(* getRandomIndex draws another index, and no kana is in the pool twice    *)
(* (KanaPracticePage.js:112, mathUtils.js:1-8).                            *)
THEOREM AnswersMoveOn == Spec => AnswerMovesOn
<1> DEFINE A == count' = count + 1 /\ currentIndex < Len(pool) /\ Len(pool) > 1
                  => currentChar' # currentChar
<1>1. ASSUME KanaInv, [Next]_pagesVars, count' = count + 1, currentIndex < Len(pool), Len(pool) > 1
      PROVE  currentChar' # currentChar
  <2>1. count \in Nat /\ currentIndex \in Nat /\ checkedGroups \subseteq Groups
    BY <1>1, MaxCountAssumption DEF KanaInv, FormTypes, Chosen
  <2>2. AnswerRight
    <3>1. CASE practiceVars' = practiceVars
      BY <2>1, <1>1, <3>1 DEF practiceVars
    <3>2. CASE PracticeStep
      <4>1. CASE toggleCheckbox
        <5>1. count' = 0
          BY <4>1 DEF toggleCheckbox, PoolEffect
        <5> QED BY <1>1, <2>1, <5>1
      <4>2. CASE AnswerWrong \/ TypeOn \/ Hover
        <5>1. count' = count
          BY <4>2 DEF AnswerWrong, TypeOn, Hover
        <5> QED BY <1>1, <2>1, <5>1
      <4> QED BY <3>2, <4>1, <4>2 DEF PracticeStep
    <3>3. CASE PracticeReset
      <4>1. count' = 0
        BY <3>3 DEF PracticeReset
      <4> QED BY <1>1, <2>1, <4>1
    <3>4. PracticeStep \/ PracticeReset \/ practiceVars' = practiceVars
      <4>1. CASE UNCHANGED pagesVars
        BY <4>1 DEF pagesVars
      <4>2. CASE Next
        BY <4>2 DEF Next, Practicing, LeavePractice, FillLanding, handleJoinRoom, CreateSignedOut, CreateAnswered,
             Visit, OpenAddress, TokenRefreshed, SignedOut, SignedIn, SocketStep, Playing, Server
      <4> QED BY <1>1, <4>1, <4>2
    <3> QED BY <3>1, <3>2, <3>3, <3>4
  <2>3. checkedGroups' = checkedGroups /\ currentIndex' \in RandomIndex(currentIndex, Len(pool))
    BY <2>2 DEF AnswerRight
  <2>4. PICK i, j, chosen, n : i = currentIndex /\ j = currentIndex' /\ chosen = checkedGroups /\ n = Len(pool)
    OBVIOUS
  <2>5. n = Len(Pool(chosen)) /\ i \in Nat /\ i < n /\ n > 1 /\ j \in RandomIndex(i, n) /\ chosen \in SUBSET Groups
    BY <1>1, <2>1, <2>3, <2>4 DEF pool
  <2>6. Shown(chosen, i) # Shown(chosen, j)
    BY <2>5, AnotherShown
  <2> QED BY <2>3, <2>4, <2>6 DEF currentChar
<1>2. KanaInv /\ [Next]_pagesVars => [A]_pagesVars
  BY <1>1
<1> QED BY KanaHolds, <1>2, PTL DEF Spec, AnswerMovesOn

RankTo(f, s, n) == f = [i \in 1..n |-> IF i = 1 THEN 1 ELSE IF NewRank(s, i) THEN i ELSE f[i-1]]

LEMMA RankExists ==
  ASSUME NEW s
  PROVE  \A n \in Nat : \E f : RankTo(f, s, n)
<1> DEFINE N == {n \in Nat : \E f : RankTo(f, s, n)}
<1>1. 0 \in N
  <2> DEFINE f == [i \in 1..0 |-> 1]
  <2>1. RankTo(f, s, 0)
    BY DEF RankTo
  <2> HIDE DEF f
  <2> QED BY <2>1
<1>2. ASSUME NEW k \in Nat, k \in N PROVE k + 1 \in N
  <2>1. PICK f : RankTo(f, s, k)
    BY <1>2
  <2> DEFINE h == [i \in 1..k+1 |-> IF i = 1 THEN 1 ELSE IF NewRank(s, i) THEN i ELSE f[i-1]]
  <2>2. ASSUME NEW i \in 1..k PROVE h[i] = f[i]
    <3>1. f[i] = IF i = 1 THEN 1 ELSE IF NewRank(s, i) THEN i ELSE f[i-1]
      BY <2>1, Zenon DEF RankTo
    <3>2. i \in 1..k+1
      OBVIOUS
    <3> QED BY <3>1, <3>2
  <2>3. \A i \in 1..k+1 : h[i] = IF i = 1 THEN 1 ELSE IF NewRank(s, i) THEN i ELSE h[i-1]
    <3> TAKE i \in 1..k+1
    <3>1. h[i] = IF i = 1 THEN 1 ELSE IF NewRank(s, i) THEN i ELSE f[i-1]
      OBVIOUS
    <3> HIDE DEF h
    <3>2. i # 1 => i - 1 \in 1..k
      OBVIOUS
    <3>3. i # 1 => h[i-1] = f[i-1]
      BY <2>2, <3>2
    <3> QED BY <3>1, <3>3
  <2>4. h = [i \in 1..k+1 |-> h[i]]
    OBVIOUS
  <2> HIDE DEF h
  <2>5. RankTo(h, s, k + 1)
    BY <2>3, <2>4 DEF RankTo
  <2> QED BY <2>5
<1>3. Nat \subseteq N
  <2> HIDE DEF N
  <2> QED BY <1>1, <1>2, ByInduction
<1> QED BY <1>3

(* The ranks of rankedPlayers are the standard competition ranking for any *)
(* number of players: a rank is one more than the number of the better     *)
(* scores (KanaBattlePage.js:182-203).                                     *)
THEOREM RanksAreStandard ==
  ASSUME NEW sorted \in Seq(Int),
         \A i, j \in 1..Len(sorted) : i < j => sorted[i] >= sorted[j]
  PROVE  \A i \in 1..Len(sorted) :
           Ranks(sorted)[i] = 1 + Cardinality({j \in 1..Len(sorted) : sorted[j] > sorted[i]})
<1> DEFINE n == Len(sorted)
           rank == CHOOSE f : RankTo(f, sorted, n)
           First1(k, i) == /\ k \in 1..i /\ sorted[k] = sorted[i]
                           /\ \A j \in 1..k-1 : sorted[j] > sorted[i]
           N == {i \in Nat : i \in 1..n => First1(rank[i], i)}
<1>1. n \in Nat /\ \A i \in 1..n : sorted[i] \in Int
  OBVIOUS
<1>2. RankTo(rank, sorted, n)
  BY <1>1, RankExists
<1>3. Ranks(sorted) = [i \in 1..n |-> rank[i]]
  BY DEF Ranks, RankTo
<1> HIDE DEF rank
<1>4. \A i \in 1..n : rank[i] = IF i = 1 THEN 1 ELSE IF NewRank(sorted, i) THEN i ELSE rank[i-1]
  BY <1>2, Zenon DEF RankTo
<1>5. ASSUME NEW k \in Nat, k \in N PROVE k + 1 \in N
  <2> DEFINE i == k + 1
  <2> SUFFICES ASSUME i \in 1..n PROVE First1(rank[i], i)
    OBVIOUS
  <2>1. rank[i] = IF i = 1 THEN 1 ELSE IF NewRank(sorted, i) THEN i ELSE rank[i-1]
    BY <1>4
  <2>2. CASE i = 1
    BY <1>1, <2>1, <2>2
  <2>3. CASE i # 1 /\ sorted[i] < sorted[i-1]
    <3>1. rank[i] = i
      BY <2>1, <2>3 DEF NewRank
    <3>2. \A j \in 1..i-1 : sorted[j] > sorted[i]
      <4> TAKE j \in 1..i-1
      <4>1. i - 1 \in 1..n /\ j \in 1..n /\ (j = i - 1 \/ j < i - 1)
        BY <1>1
      <4>2. sorted[j] >= sorted[i-1]
        BY <1>1, <4>1
      <4> QED BY <1>1, <2>3, <4>1, <4>2
    <3> QED BY <3>1, <3>2
  <2>4. CASE i # 1 /\ ~(sorted[i] < sorted[i-1])
    <3>1. rank[i] = rank[k] /\ k \in 1..n /\ k < i /\ i - 1 = k
      BY <1>1, <2>1, <2>4 DEF NewRank
    <3>2. sorted[i] = sorted[k]
      BY <1>1, <2>4, <3>1
    <3>3. First1(rank[k], k)
      BY <1>5, <3>1
    <3> QED BY <3>1, <3>2, <3>3
  <2> QED BY <2>2, <2>3, <2>4
<1>6. Nat \subseteq N
  <2>1. 0 \in N
    OBVIOUS
  <2> HIDE DEF N
  <2> QED BY <1>5, <2>1, ByInduction
<1> SUFFICES ASSUME NEW i \in 1..n
             PROVE  rank[i] = 1 + Cardinality({j \in 1..n : sorted[j] > sorted[i]})
  BY <1>3
<1>7. First1(rank[i], i)
  BY <1>1, <1>6
<1>8. PICK k \in 1..i : k = rank[i] /\ sorted[k] = sorted[i] /\ \A j \in 1..k-1 : sorted[j] > sorted[i]
  BY <1>7
<1>9. {j \in 1..n : sorted[j] > sorted[i]} = 1..k-1
  <2>1. ASSUME NEW j \in 1..n, sorted[j] > sorted[i] PROVE j \in 1..k-1
    <3>1. k \in 1..n /\ sorted[j] > sorted[k]
      BY <1>1, <1>8, <2>1
    <3>2. ~(k < j) /\ k # j
      BY <1>1, <3>1
    <3> QED BY <1>1, <3>1, <3>2
  <2>2. 1..k-1 \subseteq 1..n
    BY <1>1
  <2> QED BY <1>8, <2>1, <2>2
<1>10. Cardinality(1..k-1) = k - 1
  <2>1. Cardinality(1..k-1) = IF 1 > k - 1 THEN 0 ELSE (k - 1) - 1 + 1
    BY FS_Interval
  <2> QED BY <2>1
<1>11. Cardinality({j \in 1..n : sorted[j] > sorted[i]}) = k - 1
  BY <1>9, <1>10
<1> QED BY <1>8, <1>11

(* Sorting: the places are the numbers from 1 on, each once, and a higher  *)
(* score has an earlier place.                                             *)
LEMMA PlacesAreDistinct ==
  ASSUME NEW n \in Nat, NEW scores \in [1..n -> Int]
  PROVE  LET place == [i \in 1..n |-> Place(scores, i)]
         IN  /\ place \in Bijection(1..n, 1..n)
             /\ \A i, j \in 1..n : scores[i] > scores[j] => place[i] < place[j]
<1> DEFINE Ahead(i) == {j \in 1..n : scores[j] > scores[i] \/ (scores[j] = scores[i] /\ j <= i)}
           place == [i \in 1..n |-> Place(scores, i)]
<1>0. IsFiniteSet(1..n) /\ Cardinality(1..n) = n
  BY FS_Interval
<1>1. \A i \in 1..n : place[i] = Cardinality(Ahead(i)) /\ IsFiniteSet(Ahead(i)) /\ place[i] \in 1..n
  <2> TAKE i \in 1..n
  <2>1. place[i] = Cardinality(Ahead(i))
    BY DEF Place
  <2>2. Ahead(i) \in SUBSET (1..n) /\ i \in Ahead(i)
    OBVIOUS
  <2> HIDE DEF Ahead, place
  <2>3. IsFiniteSet(Ahead(i)) /\ Cardinality(Ahead(i)) <= n
    BY <1>0, <2>2, FS_Subset
  <2>4. Cardinality(Ahead(i)) \in Nat /\ Cardinality(Ahead(i)) # 0
    BY <2>2, <2>3, FS_CardinalityType, FS_EmptySet
  <2> QED BY <2>1, <2>3, <2>4
<1>2. ASSUME NEW i \in 1..n, NEW j \in 1..n, i # j, i \in Ahead(j) PROVE place[i] < place[j]
  <2>1. Ahead(i) \in SUBSET Ahead(j) /\ j \in Ahead(j) /\ j \notin Ahead(i)
    BY <1>2
  <2> HIDE DEF Ahead, place
  <2>2. Cardinality(Ahead(i)) <= Cardinality(Ahead(j)) /\ Cardinality(Ahead(i)) # Cardinality(Ahead(j))
    BY <1>1, <2>1, FS_Subset
  <2> QED BY <1>1, <2>2
<1>3. ASSUME NEW i \in 1..n, NEW j \in 1..n, i # j PROVE i \in Ahead(j) \/ j \in Ahead(i)
  BY <1>3
<1>4. \A i, j \in 1..n : scores[i] > scores[j] => i # j /\ i \in Ahead(j)
  OBVIOUS
<1>5. place \in [1..n -> 1..n]
  BY <1>1
<1> HIDE DEF Ahead, place
<1>6. ASSUME NEW i \in 1..n, NEW j \in 1..n, place[i] = place[j] PROVE i = j
  BY <1>1, <1>2, <1>3, <1>6
<1>7. place \in Injection(1..n, 1..n)
  BY <1>5, <1>6 DEF Injection, IsInjective
<1>8. place \in Bijection(1..n, 1..n)
  BY <1>0, <1>7, FS_Injection DEF Bijection
<1>9. \A i, j \in 1..n : scores[i] > scores[j] => place[i] < place[j]
  BY <1>2, <1>4
<1> QED BY <1>8, <1>9 DEF place

(* The sorted list falls, and has as many scores above any bound as the    *)
(* list it was made of (KanaBattlePage.js:195).                            *)
LEMMA SortingIsRight ==
  ASSUME NEW scores \in Seq(Int)
  PROVE  LET n == Len(scores)
             sorted == InOrder(scores)
         IN  /\ sorted \in Seq(Int) /\ Len(sorted) = n
             /\ \A k, l \in 1..n : k < l => sorted[k] >= sorted[l]
             /\ \A v : Cardinality({k \in 1..n : sorted[k] > v}) = Cardinality({j \in 1..n : scores[j] > v})
<1> DEFINE n == Len(scores)
           sorted == InOrder(scores)
           place == [i \in 1..n |-> Place(scores, i)]
           at == [k \in DOMAIN scores |-> CHOOSE i \in DOMAIN scores : Place(scores, i) = k]
<1>1. n \in Nat /\ DOMAIN scores = 1..n /\ scores \in [1..n -> Int]
  OBVIOUS
<1>2. sorted = [k \in DOMAIN scores |-> scores[at[k]]] /\ \A i \in 1..n : place[i] = Place(scores, i)
  BY DEF InOrder
<1> HIDE DEF n
<1>3. /\ place \in Bijection(1..n, 1..n)
      /\ \A i, j \in 1..n : scores[i] > scores[j] => place[i] < place[j]
  BY <1>1, PlacesAreDistinct
<1> HIDE DEF sorted, place
<1>4. place \in [1..n -> 1..n] /\ (\A i, j \in 1..n : place[i] = place[j] => i = j)
      /\ \A k \in 1..n : \E i \in 1..n : place[i] = k
  BY <1>3 DEF Bijection, Injection, Surjection, IsInjective
<1>5. \A k \in 1..n : at[k] \in 1..n /\ place[at[k]] = k
  BY <1>1, <1>2, <1>4
<1> HIDE DEF at
<1>6. \A k \in 1..n : sorted[k] = scores[at[k]] /\ sorted[k] \in Int
  BY <1>1, <1>2, <1>5
<1>7. sorted \in Seq(Int) /\ Len(sorted) = n
  BY <1>1, <1>2, <1>6
<1>8. ASSUME NEW k \in 1..n, NEW l \in 1..n, k < l PROVE sorted[k] >= sorted[l]
  <2>1. ~(scores[at[l]] > scores[at[k]])
    BY <1>3, <1>5, <1>8
  <2> QED BY <1>6, <2>1
<1>9. ASSUME NEW v
      PROVE  Cardinality({k \in 1..n : sorted[k] > v}) = Cardinality({j \in 1..n : scores[j] > v})
  <2> DEFINE A == {k \in 1..n : sorted[k] > v}
             B == {j \in 1..n : scores[j] > v}
             f == [k \in A |-> at[k]]
  <2>1. f \in [A -> B]
    BY <1>5, <1>6
  <2>2. ASSUME NEW k \in A, NEW l \in A, f[k] = f[l] PROVE k = l
    BY <1>5, <2>2
  <2>3. ASSUME NEW j \in B PROVE \E k \in A : f[k] = j
    <3>1. place[j] \in 1..n /\ at[place[j]] = j
      BY <1>4, <1>5
    <3>2. place[j] \in A
      BY <1>6, <3>1
    <3> QED BY <3>1, <3>2
  <2>4. IsFiniteSet(A)
    <3>1. A \in SUBSET (1..n)
      OBVIOUS
    <3> QED BY <3>1, <1>1, FS_Interval, FS_Subset
  <2> HIDE DEF A, B, f
  <2>5. f \in Bijection(A, B)
    BY <2>1, <2>2, <2>3 DEF Bijection, Injection, Surjection, IsInjective
  <2>6. Cardinality(B) = Cardinality(A)
    BY <2>4, <2>5, FS_Bijection DEF ExistsBijection
  <2> QED BY <2>6 DEF A, B
<1> QED BY <1>7, <1>8, <1>9 DEF n, sorted

(* The ranks that the page shows at the end of a game are the standard     *)
(* competition ranking of its players, whatever two further players have   *)
(* scored (KanaBattlePage.js:182-203).                                     *)
THEOREM RankingIsRight == Spec => []RankingIsStandard
<1>1. ASSUME NEW me \in Absent..MaxPoints, NEW friend \in Absent..MaxPoints,
             NEW more \in [1..2 -> 0..MaxPoints + 1]
      PROVE  Standard(<<me, friend, more[1], more[2]>>)
  <2> DEFINE scores == <<me, friend, more[1], more[2]>>
             sorted == InOrder(scores)
  <2>1. scores \in Seq(Int) /\ Len(scores) = 4
    <3>1. me \in Int /\ friend \in Int /\ more[1] \in Int /\ more[2] \in Int
      BY QueueAssumption DEF Absent
    <3> QED BY <3>1
  <2> HIDE DEF scores
  <2>2. /\ sorted \in Seq(Int) /\ Len(sorted) = 4
        /\ \A k, l \in 1..4 : k < l => sorted[k] >= sorted[l]
        /\ \A v : Cardinality({k \in 1..4 : sorted[k] > v}) = Cardinality({j \in 1..4 : scores[j] > v})
    BY <2>1, SortingIsRight
  <2> HIDE DEF sorted
  <2>3. \A i \in 1..4 : Ranks(sorted)[i] = 1 + Cardinality({j \in 1..4 : sorted[j] > sorted[i]})
    BY <2>2, RanksAreStandard
  <2>4. \A i \in 1..4 : Ranks(sorted)[i] = 1 + Cardinality({j \in 1..4 : scores[j] > sorted[i]})
    BY <2>2, <2>3
  <2> QED BY <2>4 DEF Standard, scores, sorted
<1>2. PagesTypeOK => RankingIsStandard
  <2> SUFFICES ASSUME PagesTypeOK PROVE RankingIsStandard
    OBVIOUS
  <2>1. players["me"] \in Absent..MaxPoints /\ players["friend"] \in Absent..MaxPoints
    BY DEF PagesTypeOK, PlayerLists, People, Absent
  <2>2. ASSUME NEW me \in Absent..MaxPoints, NEW friend \in Absent..MaxPoints
        PROVE  WellRanked[me][friend]
    <3> DEFINE W(a, b) == \A more \in [1..2 -> 0..MaxPoints + 1] : Standard(<<a, b, more[1], more[2]>>)
    <3>1. WellRanked = [a \in Absent..MaxPoints |-> [b \in Absent..MaxPoints |-> W(a, b)]]
      BY DEF WellRanked
    <3>2. W(me, friend)
      BY <1>1
    <3> HIDE DEF W
    <3>3. WellRanked[me][friend] = W(me, friend)
      BY <3>1
    <3> QED BY <3>2, <3>3
  <2> QED BY <2>1, <2>2 DEF RankingIsStandard
<1> QED BY <1>2, PagesAreTyped, PTL

===============================================================================
