------------------------------ MODULE HubProofs ------------------------------
(***************************************************************************)
(* Theorems about Hub, for every set of connections, rooms, users and      *)
(* codes and every bound.                                                  *)
(***************************************************************************)
EXTENDS HubProperties, SequenceTheorems, TLAPS

(* Whoever hands something over, and whoever has received it, names a real *)
(* connection and a real room.                                             *)
Placed ==
  /\ \A r \in Rooms : loop[r].at \in {"register", "unregister", "action"} => loop[r].client \in Clients
  /\ \A c \in Clients : pump[c].at \in {"created", "join", "act"} => pump[c].room \in Rooms
  /\ hub.at = "leave" => hub.client \in Clients /\ hub.room \in Rooms

LEMMA MessageTypes ==
  ASSUME TypeOK, NEW r \in Rooms, NEW P \in [Users -> Scores]
  PROVE  /\ RoomState(r, P) \in Messages
         /\ GameStarted(r) \in Messages
         /\ ScoreUpdate(r, P) \in Messages
         /\ GameOver(r) \in Messages
         /\ ErrorMsg \in Messages
<1>1. NoPlayers \in [Users -> Scores]
  BY DEF NoPlayers, Scores
<1>2. state[r] \in States /\ players[r] \in [Users -> Scores]
  BY DEF TypeOK
<1> QED
  BY <1>1, <1>2 DEF RoomState, GameStarted, ScoreUpdate, GameOver, ErrorMsg,
                    Messages, MsgTypes, States

LEMMA NoPlayersTyped == NoPlayers \in [Users -> Scores]
  BY DEF NoPlayers, Scores

(* What a broadcast leaves well typed. *)
BroadcastTypes ==
  /\ clients' \in [Rooms -> SUBSET Clients]
  /\ closed' \in [Clients -> BOOLEAN]
  /\ buf' \in [Clients -> Seq(Messages)]
  /\ \A c \in Clients : Len(buf'[c]) <= SendCap
  /\ panic' \in {"none", "send", "close"}

LEMMA BroadcastTyped ==
  ASSUME TypeOK, NEW r \in Rooms, NEW K \in SUBSET Clients, NEW m \in Messages,
         Broadcast(r, K, m)
  PROVE  BroadcastTypes
<1> USE DEF Broadcast
<1>1. clients' \in [Rooms -> SUBSET Clients]
  BY DEF TypeOK
<1>2. closed' \in [Clients -> BOOLEAN]
  BY Zenon DEF TypeOK
<1>3. \A c \in Clients : buf'[c] \in Seq(Messages) /\ Len(buf'[c]) <= SendCap
  <2> SUFFICES ASSUME NEW c \in Clients
               PROVE  buf'[c] \in Seq(Messages) /\ Len(buf'[c]) <= SendCap
    OBVIOUS
  <2>1. buf[c] \in Seq(Messages) /\ Len(buf[c]) <= SendCap
    BY DEF TypeOK
  <2>2. Append(buf[c], m) \in Seq(Messages) /\ Len(Append(buf[c], m)) = Len(buf[c]) + 1
    BY <2>1, AppendProperties
  <2>3. Len(buf[c]) \in Nat /\ SendCap \in Nat
    BY <2>1, BoundAssumption, LenProperties
  <2> QED
    BY <2>1, <2>2, <2>3 DEF Full
<1>4. buf' \in [Clients -> Seq(Messages)]
  <2>1. buf' = [c \in Clients |-> buf'[c]]
    OBVIOUS
  <2> QED
    BY <1>3, <2>1
<1>5. panic' \in {"none", "send", "close"}
  BY DEF TypeOK
<1> QED
  BY <1>1, <1>2, <1>3, <1>4, <1>5 DEF BroadcastTypes

Typed == TypeOK /\ Placed

LEMMA InitTyped == Init => Typed
<1> SUFFICES ASSUME Init PROVE Typed
  OBVIOUS
<1>1. NoPlayers \in [Users -> Scores]
  BY DEF NoPlayers, Scores
<1>2. TypeOK
  BY <1>1, BoundAssumption DEF Init, TypeOK, Loop, Pump, Hub, HubAtSelect, LoopAt, PumpAt, States
<1>3. Placed
  BY DEF Init, Placed, Loop, Pump, Hub, HubAtSelect
<1> QED
  BY <1>2, <1>3 DEF Typed

(* The events a room receives and those it does without receiving any. *)
LEMMA TakeTyped ==
  ASSUME Typed, NEW r \in Rooms, RoomTakes(r) \/ FinishSignal(r) \/ ShutdownFires(r) \/ CloseRoom(r)
  PROVE  Typed'
<1> USE DEF Typed, Placed, TypeOK, Loop, LoopAt, hubVars, clientVars, roomVars
<1>1. ASSUME NEW c \in Clients, TakeRegister(r, c) PROVE Typed'
  BY <1>1 DEF TakeRegister, Idle, Pump, PumpAt
<1>2. ASSUME NEW c \in Clients, TakeAction(r, c) PROVE Typed'
  BY <1>2 DEF TakeAction, Idle, Pump, PumpAt
<1>3. CASE TakeUnregister(r)
  BY <1>3 DEF TakeUnregister, HubAtSelect, Hub
<1>4. CASE FinishSignal(r)
  BY <1>4 DEF FinishSignal
<1>5. CASE ShutdownFires(r)
  BY <1>5 DEF ShutdownFires
<1>6. CASE CloseRoom(r)
  BY <1>6, CodeAssumption DEF CloseRoom
<1> QED
  BY <1>1, <1>2, <1>3, <1>4, <1>5, <1>6 DEF RoomTakes

LEMMA HandleTyped ==
  ASSUME Typed, NEW r \in Rooms,
         HandleRegister(r) \/ HandleUnregister(r) \/ HandleStart(r)
           \/ HandleScore(r) \/ HandleFinish(r)
  PROVE  Typed'
<1>1. loop' = [loop EXCEPT ![r] = AtSelect] /\ UNCHANGED <<pump, hub>> => Placed'
  BY DEF Typed, Placed, AtSelect, Loop
<1>2. AtSelect \in [at : LoopAt, client : Clients \cup {NoClient}, req : Requests \cup {NoReq}]
  BY DEF AtSelect, Loop, LoopAt
<1>3. Absent \in Scores /\ 0 \in Scores
  BY BoundAssumption DEF Scores
<1>4. CASE HandleRegister(r)
  <2> DEFINE c == loop[r].client
             u == UserOf[c]
             P == IF players[r][u] = Absent THEN [players[r] EXCEPT ![u] = 0] ELSE players[r]
  <2>1. c \in Clients
    BY <1>4 DEF HandleRegister, Typed, Placed
  <2>2. P \in [Users -> Scores]
    BY <1>3 DEF Typed, TypeOK
  <2>3. BroadcastTypes
    <3>1. clients[r] \cup {c} \in SUBSET Clients
      BY <2>1 DEF Typed, TypeOK
    <3>2. RoomState(r, P) \in Messages
      BY <2>2, MessageTypes DEF Typed
    <3>3. Broadcast(r, clients[r] \cup {c}, RoomState(r, P))
      BY <1>4 DEF HandleRegister
    <3> QED
      BY <3>1, <3>2, <3>3, BroadcastTyped DEF Typed
  <2>4. TypeOK'
    BY <1>2, <1>4, <2>1, <2>2, <2>3 DEF HandleRegister, Typed, TypeOK, BroadcastTypes, hubVars
  <2> QED
    BY <1>1, <1>4, <2>4 DEF HandleRegister, Typed, hubVars
<1>5. CASE HandleUnregister(r)
  <2> DEFINE c == loop[r].client
             P == ListWithout(r, c)
  <2>1. c \in Clients
    BY <1>5 DEF HandleUnregister, Typed, Placed
  <2>2. P \in [Users -> Scores]
    BY <1>3 DEF Typed, TypeOK, ListWithout
  <2>3. CASE c \in clients[r]
    <3>1. BroadcastTypes
      <4>1. clients[r] \ {c} \in SUBSET Clients
        BY DEF Typed, TypeOK
      <4>2. RoomState(r, P) \in Messages
        BY <2>2, MessageTypes DEF Typed
      <4>3. Broadcast(r, clients[r] \ {c}, RoomState(r, P))
        BY <1>5, <2>3 DEF HandleUnregister
      <4> QED
        BY <4>1, <4>2, <4>3, BroadcastTyped DEF Typed
    <3>2. timer' \in [Rooms -> BOOLEAN]
      <4>1. TimerAfterLeave(r, clients'[r]) \in BOOLEAN
        BY DEF Typed, TypeOK, TimerAfterLeave
      <4>2. timer' = [timer EXCEPT ![r] = TimerAfterLeave(r, clients'[r])]
        BY <1>5, <2>3 DEF HandleUnregister
      <4> QED
        BY <4>1, <4>2 DEF Typed, TypeOK
    <3> QED
      <4>1. players' \in [Rooms -> [Users -> Scores]]
        BY <1>5, <2>2, <2>3 DEF HandleUnregister, Typed, TypeOK
      <4>2. roomOf' \in [Clients -> Rooms \cup {NoRoom}]
        BY <1>5, <2>1, <2>3 DEF HandleUnregister, Typed, TypeOK
      <4>3. TypeOK'
        BY <1>2, <1>5, <3>1, <3>2, <4>1, <4>2
           DEF HandleUnregister, Typed, TypeOK, BroadcastTypes, hubVars
      <4> QED
        BY <1>1, <1>5, <4>3 DEF HandleUnregister, Typed, hubVars
  <2>4. CASE c \notin clients[r]
    BY <1>1, <1>2, <1>5, <2>4 DEF HandleUnregister, Typed, TypeOK, hubVars
  <2> QED
    BY <1>1, <1>5, <2>3, <2>4 DEF HandleUnregister, Typed, hubVars
<1>6. CASE HandleStart(r)
  <2>1. CASE MayStart(r, loop[r].client)
    <3>1. BroadcastTypes
      BY <1>6, <2>1, MessageTypes, BroadcastTyped, NoPlayersTyped DEF HandleStart, Typed, TypeOK
    <3> QED
      BY <1>1, <1>2, <1>6, <2>1, <3>1 DEF HandleStart, Typed, TypeOK, BroadcastTypes, hubVars, States
  <2>2. CASE ~MayStart(r, loop[r].client)
    BY <1>1, <1>2, <1>6, <2>2 DEF HandleStart, Typed, TypeOK, hubVars
  <2> QED
    BY <1>1, <1>6, <2>1, <2>2 DEF HandleStart, Typed, hubVars
<1>7. CASE HandleScore(r)
  <2> DEFINE c == loop[r].client
             s == loop[r].req.score
             P == [players[r] EXCEPT ![UserOf[c]] = s]
  <2>1. CASE MayScore(r, c, s)
    <3>1. P \in [Users -> Scores]
      BY <2>1 DEF Typed, TypeOK, MayScore, Scores
    <3>2. BroadcastTypes
      <4>1. clients[r] \in SUBSET Clients
        BY DEF Typed, TypeOK
      <4>2. ScoreUpdate(r, P) \in Messages
        BY <3>1, MessageTypes DEF Typed
      <4>3. Broadcast(r, clients[r], ScoreUpdate(r, P))
        BY <1>7, <2>1 DEF HandleScore
      <4> QED
        BY <4>1, <4>2, <4>3, BroadcastTyped DEF Typed
    <3> QED
      <4>1. players' \in [Rooms -> [Users -> Scores]]
        BY <1>7, <2>1, <3>1 DEF HandleScore, Typed, TypeOK
      <4>2. TypeOK'
        BY <1>2, <1>7, <3>2, <4>1 DEF HandleScore, Typed, TypeOK, BroadcastTypes, hubVars
      <4> QED
        BY <1>1, <1>7, <4>2 DEF HandleScore, Typed, hubVars
  <2>2. CASE ~MayScore(r, c, s)
    BY <1>1, <1>2, <1>7, <2>2 DEF HandleScore, Typed, TypeOK, hubVars
  <2> QED
    BY <1>1, <1>7, <2>1, <2>2 DEF HandleScore, Typed, hubVars
<1>8. CASE HandleFinish(r)
  <2>1. CASE state[r] = "PLAYING"
    <3>1. BroadcastTypes
      BY <1>8, <2>1, MessageTypes, BroadcastTyped, NoPlayersTyped DEF HandleFinish, Typed, TypeOK
    <3> QED
      BY <1>1, <1>2, <1>8, <2>1, <3>1 DEF HandleFinish, Typed, TypeOK, BroadcastTypes, hubVars, States
  <2>2. CASE state[r] # "PLAYING"
    BY <1>1, <1>2, <1>8, <2>2 DEF HandleFinish, Typed, TypeOK, hubVars
  <2> QED
    BY <1>1, <1>8, <2>1, <2>2 DEF HandleFinish, Typed, hubVars
<1> QED
  BY <1>4, <1>5, <1>6, <1>7, <1>8

LEMMA ClientTyped ==
  ASSUME Typed, NEW c \in Clients, Dial(c) \/ Disconnect(c) \/ ReadPump(c) \/ WritePump(c)
  PROVE  Typed'
<1> USE DEF Typed, Placed, TypeOK, Pump, PumpAt, hubVars, roomVars
<1>1. CASE Dial(c)
  BY <1>1 DEF Dial
<1>2. CASE Disconnect(c)
  BY <1>2 DEF Disconnect
<1>3. ASSUME NEW k \in Codes, ReadJoin(c, k) PROVE Typed'
  BY <1>3, BoundAssumption DEF ReadJoin
<1>4. ASSUME NEW r \in Rooms, ReadCreate(c, r) PROVE Typed'
  <2>1. joins' \in [Clients -> 0..MaxJoins]
    BY <1>4, BoundAssumption DEF ReadCreate
  <2>2. rooms' \in [Codes -> Rooms \cup {NoRoom}]
    BY <1>4, CodeAssumption DEF ReadCreate, NewRoom
  <2>3. host' \in [Rooms -> Users \cup {NoUser}] /\ timer' \in [Rooms -> BOOLEAN]
    BY <1>4, UserAssumption DEF ReadCreate, NewRoom
  <2>4. TypeOK'
    BY <1>4, <2>1, <2>2, <2>3 DEF ReadCreate, NewRoom, AtSelect, Loop, LoopAt
  <2>5. Placed'
    BY <1>4 DEF ReadCreate, NewRoom, AtSelect, Loop
  <2> QED
    BY <2>4, <2>5
<1>5. CASE AutoJoin(c)
  BY <1>5, CodeAssumption DEF AutoJoin, Idle
<1>6. ASSUME NEW q \in Requests, ReadAction(c, q) PROVE Typed'
  BY <1>6 DEF ReadAction
<1>7. CASE ActTimeout(c)
  BY <1>7 DEF ActTimeout, Idle
<1>8. CASE SendError(c)
  <2>1. \A d \in Clients : buf'[d] \in Seq(Messages) /\ Len(buf'[d]) <= SendCap
    <3> SUFFICES ASSUME NEW d \in Clients
                 PROVE  buf'[d] \in Seq(Messages) /\ Len(buf'[d]) <= SendCap
      OBVIOUS
    <3>1. buf[d] \in Seq(Messages) /\ Len(buf[d]) <= SendCap
      OBVIOUS
    <3>2. ErrorMsg \in Messages
      BY NoPlayersTyped DEF ErrorMsg, Messages, MsgTypes, States
    <3>3. Append(buf[d], ErrorMsg) \in Seq(Messages) /\ Len(Append(buf[d], ErrorMsg)) = Len(buf[d]) + 1
      BY <3>1, <3>2, AppendProperties
    <3>4. Len(buf[d]) \in Nat /\ SendCap \in Nat
      BY <3>1, BoundAssumption, LenProperties
    <3> QED
      BY <1>8, <3>1, <3>3, <3>4 DEF SendError, Full
  <2>2. buf' \in [Clients -> Seq(Messages)]
    <3>1. buf' = [d \in Clients |-> buf'[d]]
      BY <1>8 DEF SendError
    <3> QED
      BY <2>1, <3>1
  <2> QED
    BY <1>8, <2>1, <2>2 DEF SendError, Idle
<1>9. CASE ReadFail(c)
  BY <1>9 DEF ReadFail
<1>10. CASE WriteFrame(c)
  BY <1>10, BoundAssumption DEF WriteFrame
<1>11. CASE WriterExit(c)
  BY <1>11 DEF WriterExit
<1> QED
  BY <1>1, <1>2, <1>3, <1>4, <1>5, <1>6, <1>7, <1>8, <1>9, <1>10, <1>11 DEF ReadPump, WritePump

LEMMA HubTyped ==
  ASSUME Typed,
         HubRun \/ \E r \in Rooms, u \in Users : CreateRoom(r, u)
  PROVE  Typed'
<1> USE DEF Typed, Placed, TypeOK, Pump, PumpAt, clientVars, roomVars
<1>1. ASSUME NEW c \in Clients, HubRegister(c) PROVE Typed'
  BY <1>1 DEF HubRegister, Idle
<1>2. ASSUME NEW c \in Clients, HubUnregister(c) PROVE Typed'
  BY <1>2 DEF HubUnregister, HandOff, Hub, HubAtSelect
<1>3. ASSUME NEW r \in Rooms, NEW u \in Users, CreateRoom(r, u) PROVE Typed'
  BY <1>3, CodeAssumption DEF CreateRoom, NewRoom, AtSelect, Loop, LoopAt
<1> QED
  BY <1>1, <1>2, <1>3 DEF HubRun

LEMMA NextTyped == Typed /\ [Next]_vars => Typed'
<1> SUFFICES ASSUME Typed, [Next]_vars PROVE Typed'
  OBVIOUS
<1>1. CASE Next
  BY <1>1, TakeTyped, HandleTyped, ClientTyped, HubTyped DEF Next, RoomLoop
<1>2. CASE UNCHANGED vars
  BY <1>2 DEF vars, roomVars, clientVars, hubVars, Typed, TypeOK, Placed
<1> QED
  BY <1>1, <1>2

LEMMA AlwaysTyped == Spec => []Typed
  BY InitTyped, NextTyped, PTL DEF Spec

(* Every variable keeps its type and no Send queue outgrows its capacity,  *)
(* for any number of connections, rooms, users and codes (client.go:111,   *)
(* room.go:296-301).                                                       *)
THEOREM TypeCorrect == Spec => []TypeOK
<1>1. Typed => TypeOK
  BY DEF Typed
<1> QED
  BY AlwaysTyped, <1>1, PTL

---------------------------------------------------------------------------
(* The hand-over of a leaving connection.  HubNeverWedged is not inductive: *)
(* the hub's connection stays in the room because its queue is closed, so   *)
(* that a broadcast that would drop it panics instead, and because no       *)
(* second hand-over of the same connection is under way.                    *)
RoomOfMember ==
  \A c \in Clients : roomOf[c] # NoRoom /\ ~closed[c] => c \in clients[roomOf[c]]

HubHolds ==
  hub.at = "leave" =>
    hub.client \in clients[hub.room] /\ closed[hub.client] /\ pump[hub.client].at = "gone"

RoomHolds ==
  \A r \in Rooms : loop[r].at = "unregister" =>
    /\ pump[loop[r].client].at = "gone"
    /\ hub.at = "leave" => hub.client # loop[r].client

HandOver == Running => RoomOfMember /\ HubHolds /\ RoomHolds

IInv == Typed /\ RoomDiesEmpty /\ HandOver

LEMMA InitInv == Init => IInv
<1> SUFFICES ASSUME Init PROVE IInv
  OBVIOUS
<1>1. RoomDiesEmpty
  BY DEF Init, RoomDiesEmpty
<1>2. HandOver
  BY DEF Init, HandOver, RoomOfMember, HubHolds, RoomHolds, HubAtSelect, Hub, Loop
<1> QED
  BY InitTyped, <1>1, <1>2 DEF IInv

(* The steps of the hub, the requests and the connections: no room's       *)
(* clients change.                                                         *)
LEMMA OutsideInv ==
  ASSUME IInv, Running,
         \/ HubRun
         \/ \E r \in Rooms, u \in Users : CreateRoom(r, u)
         \/ \E c \in Clients : Dial(c) \/ Disconnect(c) \/ ReadPump(c) \/ WritePump(c)
         \/ \E r \in Rooms : RoomTakes(r) \/ FinishSignal(r) \/ ShutdownFires(r) \/ CloseRoom(r)
  PROVE  RoomDiesEmpty' /\ HandOver'
<1> DEFINE Goal == RoomDiesEmpty' /\ HandOver'
<1> USE DEF IInv, Typed, TypeOK, Placed, RoomDiesEmpty, HandOver, RoomOfMember, HubHolds,
            RoomHolds, Running, Alive, Loop, Pump, Hub, HubAtSelect, Idle, AtSelect,
            roomVars, clientVars, hubVars
<1>1. ASSUME NEW c \in Clients, HubRegister(c) PROVE Goal
  BY <1>1 DEF HubRegister
<1>2. ASSUME NEW c \in Clients, HubUnregister(c) PROVE Goal
  BY <1>2 DEF HubUnregister, HandOff
<1>3. ASSUME NEW r \in Rooms, NEW u \in Users, CreateRoom(r, u) PROVE Goal
  BY <1>3 DEF CreateRoom, NewRoom
<1>4. ASSUME NEW c \in Clients, Dial(c) PROVE Goal
  BY <1>4 DEF Dial
<1>5. ASSUME NEW c \in Clients, Disconnect(c) PROVE Goal
  BY <1>5 DEF Disconnect
<1>6. ASSUME NEW c \in Clients, NEW k \in Codes, ReadJoin(c, k) PROVE Goal
  BY <1>6 DEF ReadJoin, Reads
<1>7. ASSUME NEW c \in Clients, NEW r \in Rooms, ReadCreate(c, r) PROVE Goal
  BY <1>7 DEF ReadCreate, NewRoom, Reads
<1>8. ASSUME NEW c \in Clients, AutoJoin(c) PROVE Goal
  BY <1>8 DEF AutoJoin
<1>9. ASSUME NEW c \in Clients, NEW q \in Requests, ReadAction(c, q) PROVE Goal
  BY <1>9 DEF ReadAction, Reads
<1>10. ASSUME NEW c \in Clients, ActTimeout(c) PROVE Goal
  BY <1>10 DEF ActTimeout
<1>11. ASSUME NEW c \in Clients, SendError(c) PROVE Goal
  BY <1>11 DEF SendError
<1>12. ASSUME NEW c \in Clients, ReadFail(c) PROVE Goal
  BY <1>12 DEF ReadFail
<1>13. ASSUME NEW c \in Clients, WriteFrame(c) \/ WriterExit(c) PROVE Goal
  BY <1>13 DEF WriteFrame, WriterExit
<1>14. ASSUME NEW r \in Rooms, NEW c \in Clients, TakeRegister(r, c) PROVE Goal
  BY <1>14 DEF TakeRegister
<1>15. ASSUME NEW r \in Rooms, NEW c \in Clients, TakeAction(r, c) PROVE Goal
  BY <1>15 DEF TakeAction
<1>16. ASSUME NEW r \in Rooms, TakeUnregister(r) PROVE Goal
  BY <1>16 DEF TakeUnregister
<1>17. ASSUME NEW r \in Rooms, FinishSignal(r) PROVE Goal
  BY <1>17 DEF FinishSignal
<1>18. ASSUME NEW r \in Rooms, ShutdownFires(r) PROVE Goal
  BY <1>18 DEF ShutdownFires
<1>19. ASSUME NEW r \in Rooms, CloseRoom(r) PROVE Goal
  BY <1>19 DEF CloseRoom
<1> HIDE DEF IInv, RoomDiesEmpty, HandOver
<1> QED
  BY <1>1, <1>2, <1>3, <1>4, <1>5, <1>6, <1>7, <1>8, <1>9, <1>10, <1>11, <1>12, <1>13,
     <1>14, <1>15, <1>16, <1>17, <1>18, <1>19 DEF HubRun, ReadPump, WritePump, RoomTakes

(* A broadcast of r over K, when it does not panic, reaches no closed       *)
(* queue, drops only connections it closes, and touches no other room.      *)
LEMMA BroadcastEffect ==
  ASSUME Typed, Running, Running', NEW r \in Rooms, NEW K \in SUBSET Clients, NEW m,
         Broadcast(r, K, m)
  PROVE  /\ \A c \in K : ~closed[c]
         /\ \A c \in K : ~closed'[c] => c \in clients'[r]
         /\ \A c \in Clients : closed[c] => closed'[c]
         /\ clients'[r] \subseteq K
         /\ \A q \in Rooms \ {r} : clients'[q] = clients[q]
  BY DEF Broadcast, Running, Typed, TypeOK

(* The steps of a room that may broadcast.  A connection the hub holds has  *)
(* a closed queue, so that it is not among those the broadcast reaches.     *)
LEMMA HandleInv ==
  ASSUME IInv, Running, NEW r \in Rooms,
         HandleRegister(r) \/ HandleUnregister(r) \/ HandleStart(r)
           \/ HandleScore(r) \/ HandleFinish(r)
  PROVE  RoomDiesEmpty' /\ HandOver'
<1>1. loop' = [loop EXCEPT ![r] = AtSelect] /\ Alive(r) /\ UNCHANGED <<pump, hub>>
  BY DEF HandleRegister, HandleUnregister, HandleStart, HandleScore, HandleFinish, Alive, hubVars
<1>2. \A q \in Rooms : Alive(q)' <=> Alive(q)
  BY <1>1 DEF Alive, AtSelect, Loop, IInv, Typed, TypeOK
<1>3. Running' => RoomHolds'
  BY <1>1 DEF IInv, HandOver, RoomHolds, AtSelect, Loop, Typed, TypeOK
<1>a. TypeOK /\ Placed /\ RoomDiesEmpty /\ RoomOfMember /\ HubHolds /\ RoomHolds
  BY DEF IInv, HandOver, Typed
<1>4. ASSUME NEW K \in SUBSET Clients, NEW m, Broadcast(r, K, m),
             K = clients[r], UNCHANGED <<timer, roomOf>>
      PROVE  RoomDiesEmpty' /\ HandOver'
  <2>1. clients'[r] \subseteq clients[r] /\ \A q \in Rooms \ {r} : clients'[q] = clients[q]
    BY <1>4, <1>a DEF Broadcast, TypeOK
  <2>2. RoomDiesEmpty'
    BY <1>2, <1>4, <1>a, <2>1 DEF RoomDiesEmpty
  <2>3. ASSUME Running' PROVE RoomOfMember' /\ HubHolds'
    <3>1. /\ \A c \in K : ~closed[c]
          /\ \A c \in K : ~closed'[c] => c \in clients'[r]
          /\ \A c \in Clients : closed[c] => closed'[c]
      BY <1>4, <2>3, BroadcastEffect DEF IInv
    <3>2. RoomOfMember'
      BY <1>4, <1>a, <2>1, <3>1 DEF RoomOfMember, TypeOK
    <3>3. HubHolds'
      BY <1>1, <1>4, <1>a, <2>1, <3>1 DEF HubHolds, TypeOK, Placed
    <3> QED
      BY <3>2, <3>3
  <2> QED
    BY <1>3, <2>2, <2>3 DEF HandOver
<1>5. CASE HandleRegister(r)
  <2> DEFINE c == loop[r].client
             K == clients[r] \cup {c}
  <2>1. c \in Clients /\ K \in SUBSET Clients
    BY <1>5, <1>a DEF HandleRegister, Placed, TypeOK
  <2>2. PICK m : Broadcast(r, K, m)
    BY <1>5 DEF HandleRegister
  <2>3. timer' = [timer EXCEPT ![r] = FALSE] /\ roomOf' = [roomOf EXCEPT ![c] = r]
    BY <1>5 DEF HandleRegister
  <2>4. \A q \in Rooms \ {r} : clients'[q] = clients[q]
    BY <2>2, <1>a DEF Broadcast, TypeOK
  <2>5. RoomDiesEmpty'
    BY <1>1, <1>2, <1>a, <2>3, <2>4 DEF RoomDiesEmpty, TypeOK
  <2>6. ASSUME Running' PROVE RoomOfMember' /\ HubHolds'
    <3>1. /\ \A d \in K : ~closed[d]
          /\ \A d \in K : ~closed'[d] => d \in clients'[r]
          /\ \A d \in Clients : closed[d] => closed'[d]
      BY <2>1, <2>2, <2>6, BroadcastEffect DEF IInv
    <3>2. RoomOfMember'
      BY <1>a, <2>1, <2>3, <2>4, <3>1 DEF RoomOfMember, TypeOK
    <3>3. HubHolds'
      BY <1>1, <1>a, <2>4, <3>1 DEF HubHolds, TypeOK, Placed
    <3> QED
      BY <3>2, <3>3
  <2> QED
    BY <1>3, <2>5, <2>6 DEF HandOver
<1>6. CASE HandleUnregister(r)
  <2> DEFINE c == loop[r].client
             K == clients[r] \ {c}
  <2>1. c \in Clients /\ K \in SUBSET Clients
    BY <1>6, <1>a DEF HandleUnregister, Placed, TypeOK
  <2>2. CASE c \notin clients[r]
    BY <1>1, <1>2, <1>3, <1>6, <1>a, <2>2
       DEF HandleUnregister, RoomDiesEmpty, HandOver, RoomOfMember, HubHolds
  <2>3. CASE c \in clients[r]
    <3>1. PICK m : Broadcast(r, K, m)
      BY <1>6, <2>3 DEF HandleUnregister
    <3>2. /\ timer' = [timer EXCEPT ![r] = TimerAfterLeave(r, clients'[r])]
          /\ roomOf' = [roomOf EXCEPT ![c] = NoRoom]
      BY <1>6, <2>3 DEF HandleUnregister
    <3>3. clients'[r] \subseteq K /\ \A q \in Rooms \ {r} : clients'[q] = clients[q]
      BY <3>1, <1>a DEF Broadcast, TypeOK
    <3>4. ~timer[r]
      BY <1>a, <2>3 DEF RoomDiesEmpty
    <3>5. RoomDiesEmpty'
      BY <1>1, <1>2, <1>a, <3>2, <3>3, <3>4 DEF RoomDiesEmpty, TypeOK, TimerAfterLeave
    <3>6. ASSUME Running' PROVE RoomOfMember' /\ HubHolds'
      <4>1. /\ \A d \in K : ~closed[d]
            /\ \A d \in K : ~closed'[d] => d \in clients'[r]
            /\ \A d \in Clients : closed[d] => closed'[d]
        BY <2>1, <3>1, <3>6, BroadcastEffect DEF IInv
      <4>2. RoomOfMember'
        BY <1>a, <2>1, <3>2, <3>3, <4>1, NoneAssumption DEF RoomOfMember, TypeOK
      <4>3. hub.at = "leave" => hub.client # c
        BY <1>6, <1>a DEF HandleUnregister, RoomHolds
      <4>4. HubHolds'
        BY <1>1, <1>a, <3>3, <4>1, <4>3 DEF HubHolds, TypeOK, Placed
      <4> QED
        BY <4>2, <4>4
    <3> QED
      BY <1>3, <3>5, <3>6 DEF HandOver
  <2> QED
    BY <2>2, <2>3
<1>7. CASE HandleStart(r) \/ HandleScore(r) \/ HandleFinish(r)
  <2>1. UNCHANGED <<timer, roomOf>>
    BY <1>7 DEF HandleStart, HandleScore, HandleFinish
  <2>2. CASE \E m : Broadcast(r, clients[r], m)
    BY <1>4, <1>a, <2>1, <2>2 DEF TypeOK
  <2>3. CASE UNCHANGED <<clients, closed, panic>>
    BY <1>1, <1>2, <1>3, <1>a, <2>1, <2>3 DEF RoomDiesEmpty, HandOver, RoomOfMember, HubHolds
  <2> QED
    BY <1>7, <2>2, <2>3 DEF HandleStart, HandleScore, HandleFinish
<1> QED
  BY <1>5, <1>6, <1>7

LEMMA NextRuns == Next => Running
<1> USE DEF Next, HubRun, HubRegister, HubUnregister, CreateRoom, NewRoom
<1>1. \A c \in Clients : Dial(c) \/ Disconnect(c) \/ ReadPump(c) \/ WritePump(c) => Running
  BY DEF Dial, Disconnect, ReadPump, ReadJoin, ReadCreate, AutoJoin, ReadAction, ActTimeout,
         SendError, ReadFail, WritePump, WriteFrame, WriterExit
<1>2. \A r \in Rooms : RoomTakes(r) \/ RoomLoop(r) \/ FinishSignal(r) \/ ShutdownFires(r) => Running
  BY DEF RoomTakes, RoomLoop, TakeRegister, TakeUnregister, TakeAction, HandleRegister,
         HandleUnregister, HandleStart, HandleScore, HandleFinish, FinishSignal, ShutdownFires,
         CloseRoom
<1> QED
  BY <1>1, <1>2

LEMMA NextInv == IInv /\ [Next]_vars => IInv'
<1> SUFFICES ASSUME IInv, [Next]_vars PROVE IInv'
  OBVIOUS
<1>1. Typed'
  BY NextTyped DEF IInv
<1>2. CASE Next
  <2>1. RoomDiesEmpty' /\ HandOver'
    BY <1>2, NextRuns, OutsideInv, HandleInv DEF Next, RoomLoop
  <2> QED
    BY <1>1, <2>1 DEF IInv
<1>3. CASE UNCHANGED vars
  BY <1>1, <1>3 DEF vars, roomVars, clientVars, hubVars, IInv, RoomDiesEmpty, Alive,
                    HandOver, Running, RoomOfMember, HubHolds, RoomHolds
<1> QED
  BY <1>2, <1>3

LEMMA AlwaysInv == Spec => []IInv
  BY InitInv, NextInv, PTL DEF Spec

(* Nobody is left in a room that has ended, and the grace timer runs only  *)
(* over an empty room, with any number of rooms and connections, whatever  *)
(* codes they draw and however often a connection changes its room         *)
(* (room.go:87-93, 120-124, 145-147).                                      *)
THEOREM DeadRoomsAreEmpty == Spec => []RoomDiesEmpty
<1>1. IInv => RoomDiesEmpty
  BY DEF IInv
<1> QED
  BY AlwaysInv, <1>1, PTL

(* As long as the process lives, the room the hub waits for (hub.go:52)    *)
(* runs and holds the connection it hands over.                            *)
THEOREM HubHandsOverToLiveRoom == Spec => []HubNeverWedged
<1>1. IInv => HubNeverWedged
  BY DEF IInv, Typed, Placed, HandOver, HubHolds, RoomDiesEmpty, HubNeverWedged
<1> QED
  BY AlwaysInv, <1>1, PTL
==============================================================================
