---------------------------- MODULE QueueProofs ----------------------------
(***************************************************************************)
(* Theorems about what is queued for a connection: the last message shows  *)
(* the room as it is, and the end of a game is the last word on it.  Both  *)
(* hold for every value of the constants.                                  *)
(***************************************************************************)
EXTENDS LobbyProofs

(* What m says of its room agrees with the state and the list of r.        *)
Shows(m, r) ==
  /\ m.state = state[r]
  /\ m.type # "GAME_STARTED" => m.players = players[r]

(* Whoever broadcasts tells its room as it is after the step, and a room   *)
(* whose game is over only ever sends ROOM_STATE.                          *)
Tells(r, m) ==
  /\ m \in Messages /\ m.room = r
  /\ m.state = state'[r]
  /\ m.type # "GAME_STARTED" => m.players = players'[r]
  /\ state[r] = "FINISHED" => m.type = "ROOM_STATE" /\ state'[r] = "FINISHED"
  /\ m.type = "GAME_OVER" => state'[r] = "FINISHED"

LEMMA HandlesTell ==
  ASSUME Typed, NEW r \in Rooms, Handles(r)
  PROVE  /\ \A q \in Rooms \ {r} : state'[q] = state[q] /\ players'[q] = players[q]
         /\ \/ \E K \in SUBSET Clients : \E m : Broadcast(r, K, m) /\ Tells(r, m)
            \/ UNCHANGED <<clients, closed, buf, panic, state, players>>
<1>a. TypeOK /\ Placed /\ TypeOK'
  BY HandleTyped DEF Typed, Handles
<1>b. state[r] \in States /\ players[r] \in [Users -> Scores] /\ clients[r] \in SUBSET Clients
      /\ state'[r] \in States /\ players'[r] \in [Users -> Scores]
  BY <1>a DEF TypeOK
<1>c. \A q \in Rooms \ {r} : state'[q] = state[q] /\ players'[q] = players[q]
  BY <1>a DEF Handles, HandleRegister, HandleUnregister, HandleStart, HandleScore, HandleFinish, TypeOK
<1> DEFINE Goal == \/ \E K \in SUBSET Clients : \E m : Broadcast(r, K, m) /\ Tells(r, m)
                   \/ UNCHANGED <<clients, closed, buf, panic, state, players>>
<1> SUFFICES Goal
  BY <1>c
<1>1. ASSUME NEW K \in SUBSET Clients, NEW P \in [Users -> Scores],
             Broadcast(r, K, RoomState(r, P)), players' = [players EXCEPT ![r] = P], UNCHANGED state
      PROVE  Goal
  <2>1. RoomState(r, P) \in Messages
    BY <1>a, MessageTypes
  <2>2. players'[r] = P
    BY <1>1, <1>a DEF TypeOK
  <2>3. Tells(r, RoomState(r, P))
    BY <1>1, <2>1, <2>2 DEF Tells, RoomState
  <2> QED
    BY <1>1, <2>3
<1>2. CASE HandleRegister(r)
  <2> DEFINE c == loop[r].client
             P == IF players[r][UserOf[c]] = Absent THEN [players[r] EXCEPT ![UserOf[c]] = 0] ELSE players[r]
  <2>1. clients[r] \cup {c} \in SUBSET Clients
    BY <1>2, <1>a, <1>b DEF HandleRegister, Placed
  <2>2. P \in [Users -> Scores]
    <3>1. 0 \in Scores
      BY BoundAssumption DEF Scores
    <3> QED
      BY <1>b, <3>1
  <2>3. /\ Broadcast(r, clients[r] \cup {c}, RoomState(r, P))
        /\ players' = [players EXCEPT ![r] = P] /\ UNCHANGED state
    BY <1>2 DEF HandleRegister
  <2> HIDE DEF P, Goal
  <2> QED
    BY <1>1, <2>1, <2>2, <2>3
<1>3. CASE HandleUnregister(r)
  <2> DEFINE c == loop[r].client
             P == ListWithout(r, c)
  <2>1. clients[r] \ {c} \in SUBSET Clients
    BY <1>b
  <2>2. P \in [Users -> Scores]
    BY <1>b DEF ListWithout, Scores
  <2>3. CASE c \in clients[r]
    <3>1. /\ Broadcast(r, clients[r] \ {c}, RoomState(r, P))
          /\ players' = [players EXCEPT ![r] = P] /\ UNCHANGED state
      BY <1>3, <2>3 DEF HandleUnregister
    <3> HIDE DEF P, Goal
    <3> QED
      BY <1>1, <2>1, <2>2, <3>1
  <2>4. CASE c \notin clients[r]
    BY <1>3, <2>4 DEF HandleUnregister
  <2> QED
    BY <2>3, <2>4
<1>4. CASE HandleStart(r)
  <2>1. CASE MayStart(r, loop[r].client)
    <3>1. GameStarted(r) \in Messages
      BY <1>a, <1>b, MessageTypes
    <3>2. Broadcast(r, clients[r], GameStarted(r)) /\ state'[r] = "PLAYING" /\ state[r] = "WAITING"
      BY <1>4, <1>a, <2>1 DEF HandleStart, MayStart, TypeOK
    <3>3. Tells(r, GameStarted(r))
      BY <3>1, <3>2 DEF Tells, GameStarted
    <3> QED
      BY <1>b, <3>2, <3>3
  <2>2. CASE ~MayStart(r, loop[r].client)
    BY <1>4, <2>2 DEF HandleStart
  <2> QED
    BY <2>1, <2>2
<1>5. CASE HandleScore(r)
  <2> DEFINE c == loop[r].client
             s == loop[r].req.score
             P == [players[r] EXCEPT ![UserOf[c]] = s]
  <2>1. CASE MayScore(r, c, s)
    <3>1. players'[r] = P /\ state'[r] = "PLAYING" /\ state[r] = "PLAYING"
          /\ Broadcast(r, clients[r], ScoreUpdate(r, P))
      BY <1>5, <1>a, <2>1 DEF HandleScore, MayScore, TypeOK
    <3>2. P \in [Users -> Scores]
      BY <1>b, <3>1
    <3> HIDE DEF P
    <3>3. ScoreUpdate(r, P) \in Messages
      BY <1>a, <3>2, MessageTypes
    <3>4. Tells(r, ScoreUpdate(r, P))
      BY <3>1, <3>3 DEF Tells, ScoreUpdate
    <3> QED
      BY <1>b, <3>1, <3>4
  <2>2. CASE ~MayScore(r, c, s)
    BY <1>5, <2>2 DEF HandleScore
  <2> QED
    BY <2>1, <2>2
<1>6. CASE HandleFinish(r)
  <2>1. CASE state[r] = "PLAYING"
    <3>1. GameOver(r) \in Messages
      BY <1>a, <1>b, MessageTypes
    <3>2. Broadcast(r, clients[r], GameOver(r)) /\ state'[r] = "FINISHED" /\ players'[r] = players[r]
      BY <1>6, <1>a, <2>1 DEF HandleFinish, TypeOK
    <3>3. Tells(r, GameOver(r))
      BY <2>1, <3>1, <3>2 DEF Tells, GameOver
    <3> QED
      BY <1>b, <3>2, <3>3
  <2>2. CASE state[r] # "PLAYING"
    BY <1>6, <2>2 DEF HandleFinish
  <2> QED
    BY <2>1, <2>2
<1> HIDE DEF Goal
<1> QED
  BY <1>2, <1>3, <1>4, <1>5, <1>6 DEF Handles

(* The queues after a broadcast: the message is the last of an open queue  *)
(* that it reaches, and the other queues are what they were.               *)
LEMMA BroadcastQueues ==
  ASSUME TypeOK, NEW r \in Rooms, NEW K \in SUBSET Clients, NEW m \in Messages, Broadcast(r, K, m),
         NEW c \in Clients
  PROVE  \/ buf'[c] = Append(buf[c], m)
         \/ buf'[c] = buf[c] /\ (c \in clients'[r] => closed'[c])
  BY DEF Broadcast, TypeOK

(* A step outside the handlers empties a queue, or puts an ERROR in it.    *)
LEMMA OutsideQueues ==
  ASSUME TypeOK, Outside, NEW c \in Clients
  PROVE  /\ closed[c] => closed'[c]
         /\ buf'[c] \in {buf[c], <<>>, Append(buf[c], ErrorMsg)}
<1>1. CASE \E d \in Clients : SendError(d) \/ WriteFrame(d) \/ HubUnregister(d)
  <2>1. ASSUME NEW d \in Clients, SendError(d)
        PROVE  closed' = closed /\ buf'[c] \in {buf[c], Append(buf[c], ErrorMsg)}
    BY <2>1 DEF SendError, TypeOK
  <2>2. ASSUME NEW d \in Clients, WriteFrame(d)
        PROVE  closed' = closed /\ buf'[c] \in {buf[c], <<>>}
    BY <2>2 DEF WriteFrame, TypeOK
  <2>3. ASSUME NEW d \in Clients, HubUnregister(d)
        PROVE  (closed[c] => closed'[c]) /\ buf' = buf
    BY <2>3 DEF HubUnregister, TypeOK
  <2> QED
    BY <1>1, <2>1, <2>2, <2>3
<1>2. CASE UNCHANGED <<buf, closed>>
  BY <1>2
<1>3. ASSUME NEW d \in Clients, Dial(d) \/ Disconnect(d) \/ ReadPump(d) \/ WritePump(d)
      PROVE  SendError(d) \/ WriteFrame(d) \/ UNCHANGED <<buf, closed>>
  BY <1>3 DEF Dial, Disconnect, ReadPump, ReadJoin, ReadCreate, AutoJoin, ReadAction, ActTimeout,
              ReadFail, WritePump, WriterExit
<1>4. HubRun => UNCHANGED <<buf, closed>> \/ \E d \in Clients : HubUnregister(d)
  BY DEF HubRun, HubRegister
<1>5. (\E r \in Rooms, u \in Users : CreateRoom(r, u)) => UNCHANGED <<buf, closed>>
  BY DEF CreateRoom, clientVars
<1>6. (\E r \in Rooms : RoomTakes(r) \/ FinishSignal(r) \/ ShutdownFires(r) \/ CloseRoom(r))
        => UNCHANGED <<buf, closed>>
  BY DEF RoomTakes, TakeRegister, TakeAction, TakeUnregister, FinishSignal, ShutdownFires, CloseRoom,
         clientVars
<1> QED
  BY <1>1, <1>2, <1>3, <1>4, <1>5, <1>6 DEF Outside

LEMMA ErrorTyped == ErrorMsg \in Messages /\ ErrorMsg.room = NoRoom /\ ErrorMsg.type = "ERROR"
  BY NoPlayersTyped DEF ErrorMsg, Messages, MsgTypes, States

(* The end of a queue to which a message is appended.                      *)
LEMMA LastAppended ==
  ASSUME NEW s \in Seq(Messages), NEW m \in Messages
  PROVE  /\ Append(s, m) # <<>> /\ Append(s, m)[Len(Append(s, m))] = m
         /\ DOMAIN Append(s, m) = 1..(Len(s) + 1) /\ Len(s) \in Nat /\ DOMAIN s = 1..Len(s)
         /\ \A i \in 1..Len(s) : Append(s, m)[i] = s[i]
         /\ Append(s, m)[Len(s) + 1] = m
<1>1. Append(s, m) \in Seq(Messages) /\ Len(Append(s, m)) = Len(s) + 1
  BY AppendProperties
<1> QED
  BY <1>1, AppendProperties, LenProperties

LEMMA CurrentKept == Typed /\ QueueIsCurrent /\ [Next]_vars => QueueIsCurrent'
<1> SUFFICES ASSUME Typed, QueueIsCurrent, [Next]_vars,
                    NEW r \in Rooms, NEW c \in clients'[r],
                    ~closed'[c], buf'[c] # <<>>, LastMsg(c)'.room = r
             PROVE  Shows(LastMsg(c), r)'
  BY DEF QueueIsCurrent, Shows
<1>a. TypeOK /\ c \in Clients /\ TypeOK'
  BY NextTyped DEF Typed, TypeOK
<1>b. c \in clients[r] /\ ~closed[c] /\ buf[c] # <<>> /\ LastMsg(c).room = r => Shows(LastMsg(c), r)
  BY DEF QueueIsCurrent, Shows
<1>c. LastMsg(c)' = buf'[c][Len(buf'[c])] /\ buf[c] \in Seq(Messages)
  BY <1>a DEF LastMsg, TypeOK
(* A queue that stays as it is, of a member, in a room that stays as it is. *)
<1>1. ASSUME c \in clients[r], ~closed[c], buf'[c] = buf[c], state'[r] = state[r], players'[r] = players[r]
      PROVE  Shows(LastMsg(c), r)'
  BY <1>1, <1>b, <1>c DEF Shows, LastMsg
<1>2. CASE Outside
  <2>1. UNCHANGED <<clients, players, state>> /\ ~closed[c]
    BY <1>2, <1>a, OutsideKeepsRooms, OutsideQueues
  <2>2. buf'[c] # Append(buf[c], ErrorMsg)
    <3>1. ASSUME buf'[c] = Append(buf[c], ErrorMsg) PROVE LastMsg(c)' = ErrorMsg
      BY <3>1, <1>c, LastAppended, ErrorTyped
    <3> QED
      BY <3>1, ErrorTyped, NoneAssumption
  <2>3. buf'[c] = buf[c]
    BY <1>2, <1>a, <2>2, OutsideQueues
  <2> QED
    BY <1>1, <2>1, <2>3
<1>3. ASSUME NEW q \in Rooms, Handles(q) PROVE Shows(LastMsg(c), r)'
  <2>1. CASE UNCHANGED <<clients, closed, buf, panic, state, players>>
    BY <1>1, <2>1
  <2>2. ASSUME NEW K \in SUBSET Clients, NEW m, Broadcast(q, K, m), Tells(q, m)
        PROVE  Shows(LastMsg(c), r)'
    <3>a. m \in Messages /\ m.room = q /\ Shows(m, q)'
      BY <2>2 DEF Tells, Shows
    <3>b. ~closed[c] /\ (r # q => c \in clients[r])
      BY <1>a, <2>2, BroadcastDrops
    <3>1. CASE buf'[c] = Append(buf[c], m)
      <4>1. LastMsg(c)' = m
        BY <1>c, <3>1, <3>a, LastAppended
      <4> QED
        BY <4>1, <3>a DEF Shows
    <3>2. CASE buf'[c] = buf[c] /\ (c \in clients'[q] => closed'[c])
      BY <1>1, <1>3, <3>2, <3>b, HandlesTell
    <3> QED
      BY <1>a, <2>2, <3>a, <3>1, <3>2, BroadcastQueues
  <2> QED
    BY <1>3, <2>1, <2>2, HandlesTell
<1>4. CASE UNCHANGED vars
  BY <1>1, <1>4 DEF vars, roomVars, clientVars
<1> QED
  BY <1>2, <1>3, <1>4, NextSplits

(* The last message in the open queue of a connection of a room shows the  *)
(* room as it is: every change of a room is broadcast, and in the order of *)
(* the changes (room.go:106, 118, 142, 200, 248, 296-301).                 *)
THEOREM QueuesAreCurrent == Spec => []QueueIsCurrent
<1>1. Init => QueueIsCurrent
  BY DEF Init, QueueIsCurrent
<1> QED
  BY <1>1, CurrentKept, AlwaysTyped, PTL DEF Spec

---------------------------------------------------------------------------
(* The end of a game.  GameOverIsLast is not inductive: what may be queued *)
(* behind a GAME_OVER depends on its room, which is FINISHED for good.     *)
OverIsFinished ==
  \A c \in Clients : \A i \in DOMAIN buf[c] :
    buf[c][i].type = "GAME_OVER" => buf[c][i].room \in Rooms /\ state[buf[c][i].room] = "FINISHED"

OverInv == Typed /\ OverIsFinished /\ GameOverIsLast

(* One queue: what it may hold after its GAME_OVERs, when the rooms in F   *)
(* are finished.                                                           *)
EndsWell(s, F) ==
  /\ \A i \in DOMAIN s : s[i].type = "GAME_OVER" => s[i].room \in F
  /\ \A i, j \in DOMAIN s :
       i < j /\ s[i].type = "GAME_OVER" /\ s[j].room = s[i].room
         => s[j].type = "ROOM_STATE" /\ s[j].state = "FINISHED"

Finished == {r \in Rooms : state[r] = "FINISHED"}

LEMMA OverByQueue == OverInv <=> Typed /\ \A c \in Clients : EndsWell(buf[c], Finished)
  BY DEF OverInv, OverIsFinished, GameOverIsLast, EndsWell, Finished

LEMMA EndsWellAppended ==
  ASSUME NEW F, NEW s \in Seq(Messages), EndsWell(s, F), NEW m \in Messages,
         m.type = "GAME_OVER" => m.room \in F,
         \A i \in DOMAIN s : s[i].type = "GAME_OVER" /\ m.room = s[i].room
           => m.type = "ROOM_STATE" /\ m.state = "FINISHED"
  PROVE  EndsWell(Append(s, m), F)
<1> DEFINE t == Append(s, m)
           n == Len(s) + 1
<1>1. /\ DOMAIN t = 1..n /\ t[n] = m /\ \A i \in 1..(n - 1) : t[i] = s[i]
      /\ n \in Nat /\ DOMAIN s = 1..(n - 1)
  BY LastAppended
<1> HIDE DEF t, n
<1>2. \A i \in DOMAIN t : i = n \/ i \in DOMAIN s
  BY <1>1
<1>3. \A i \in DOMAIN s : t[i] = s[i] /\ i < n
  BY <1>1
<1>4. \A i \in DOMAIN t : t[i].type = "GAME_OVER" => t[i].room \in F
  BY <1>1, <1>2, <1>3 DEF EndsWell
<1>5. ASSUME NEW i \in DOMAIN t, NEW j \in DOMAIN t, i < j, t[i].type = "GAME_OVER", t[j].room = t[i].room
      PROVE  t[j].type = "ROOM_STATE" /\ t[j].state = "FINISHED"
  <2>1. i \in DOMAIN s
    BY <1>1, <1>5
  <2>2. CASE j = n
    BY <1>1, <1>3, <1>5, <2>1, <2>2
  <2>3. CASE j \in DOMAIN s
    BY <1>3, <1>5, <2>1, <2>3 DEF EndsWell
  <2> QED
    BY <1>2, <1>5, <2>2, <2>3
<1> QED
  BY <1>4, <1>5 DEF EndsWell, t

LEMMA OverKept == OverInv /\ [Next]_vars => OverInv'
<1> SUFFICES ASSUME OverInv, [Next]_vars PROVE OverInv'
  OBVIOUS
<1>a. Typed /\ TypeOK /\ Typed' /\ \A c \in Clients : EndsWell(buf[c], Finished) /\ buf[c] \in Seq(Messages)
  BY OverByQueue, NextTyped DEF Typed, TypeOK
<1> SUFFICES ASSUME NEW c \in Clients PROVE EndsWell(buf'[c], Finished')
  BY <1>a DEF OverInv, OverIsFinished, GameOverIsLast, EndsWell, Finished
<1>1. ASSUME buf'[c] \in {buf[c], <<>>}, Finished \subseteq Finished'
      PROVE  EndsWell(buf'[c], Finished')
  BY <1>1, <1>a DEF EndsWell
<1>2. CASE Outside
  <2>1. Finished' = Finished
    BY <1>2, <1>a, OutsideKeepsRooms DEF Finished
  <2>2. \A i \in DOMAIN buf[c] : buf[c][i].type = "GAME_OVER" => buf[c][i].room # NoRoom
    BY <1>a, NoneAssumption DEF EndsWell, Finished
  <2>3. EndsWell(Append(buf[c], ErrorMsg), Finished)
    BY <1>a, <2>2, ErrorTyped, EndsWellAppended
  <2> QED
    BY <1>1, <1>2, <1>a, <2>1, <2>3, OutsideQueues
<1>3. ASSUME NEW r \in Rooms, Handles(r) PROVE EndsWell(buf'[c], Finished')
  <2>1. CASE UNCHANGED <<clients, closed, buf, panic, state, players>>
    BY <1>1, <2>1 DEF Finished
  <2>2. ASSUME NEW K \in SUBSET Clients, NEW m, Broadcast(r, K, m), Tells(r, m)
        PROVE  EndsWell(buf'[c], Finished')
    <3>1. m \in Messages /\ m.room = r /\ m.state = state'[r]
      BY <2>2 DEF Tells
    <3>2. /\ Finished \subseteq Finished' /\ (m.type = "GAME_OVER" => r \in Finished')
          /\ r \in Finished => m.type = "ROOM_STATE" /\ m.state = "FINISHED"
      BY <1>3, <1>a, <2>2, <3>1, HandlesTell DEF Tells, Finished
    <3>3. EndsWell(buf[c], Finished')
      BY <1>a, <3>2 DEF EndsWell
    <3>4. EndsWell(Append(buf[c], m), Finished')
      <4>1. \A i \in DOMAIN buf[c] : buf[c][i].type = "GAME_OVER" /\ m.room = buf[c][i].room
              => m.type = "ROOM_STATE" /\ m.state = "FINISHED"
        BY <1>a, <3>1, <3>2 DEF EndsWell
      <4> QED
        BY <1>a, <3>1, <3>2, <3>3, <4>1, EndsWellAppended
    <3> QED
      BY <1>a, <2>2, <3>1, <3>3, <3>4, BroadcastQueues
  <2> QED
    BY <1>3, <1>a, <2>1, <2>2, HandlesTell
<1>4. CASE UNCHANGED vars
  BY <1>1, <1>4 DEF vars, roomVars, clientVars, Finished
<1> QED
  BY <1>2, <1>3, <1>4, NextSplits

(* Nobody sees a game go on after its end: behind a GAME_OVER only         *)
(* ROOM_STATEs of the finished room are queued (room.go:111-118, 196-200,  *)
(* 221-248, 206-216).                                                      *)
THEOREM GameOverIsTheEnd == Spec => []GameOverIsLast
<1>1. Init => OverInv
  BY InitTyped DEF Init, OverInv, OverIsFinished, GameOverIsLast
<1>2. OverInv => GameOverIsLast
  BY DEF OverInv
<1> QED
  BY <1>1, <1>2, OverKept, PTL DEF Spec
==============================================================================
