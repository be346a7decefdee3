---------------------------- MODULE LobbyProofs ----------------------------
(***************************************************************************)
(* Theorems about who is in a room and which room has a code, whatever     *)
(* codes the rooms draw, whoever the connections belong to and however     *)
(* often they join: what does not hold of every connection or room is      *)
(* stated of those that it holds of.                                       *)
(***************************************************************************)
EXTENDS HubProofs

(* The steps outside the handlers of a room: none changes who is in a      *)
(* room, what a room is, or who is listed.                                 *)
Outside ==
  \/ HubRun
  \/ \E r \in Rooms, u \in Users : CreateRoom(r, u)
  \/ \E c \in Clients : Dial(c) \/ Disconnect(c) \/ ReadPump(c) \/ WritePump(c)
  \/ \E r \in Rooms : RoomTakes(r) \/ FinishSignal(r) \/ ShutdownFires(r) \/ CloseRoom(r)

Handles(r) ==
  \/ HandleRegister(r) \/ HandleUnregister(r)
  \/ HandleStart(r) \/ HandleScore(r) \/ HandleFinish(r)

LEMMA NextSplits == Next <=> Outside \/ \E r \in Rooms : Handles(r)
  BY DEF Next, RoomLoop, Outside, Handles

---------------------------------------------------------------------------
(* Codes.                                                                  *)
LEMMA CodesInit == Init => CodesLeadToRooms
  BY NoneAssumption, CodeAssumption DEF Init, CodesLeadToRooms, InMap, Loop

(* A new room takes its code, whoever has it.                              *)
LEMMA CodeTaken ==
  ASSUME Typed, CodesLeadToRooms, NEW r \in Rooms, NEW u, NewRoom(r, u)
  PROVE  CodesLeadToRooms'
<1>a. loop \in [Rooms -> [at : LoopAt, client : Clients \cup {NoClient}, req : Requests \cup {NoReq}]]
  BY DEF Typed, TypeOK
<1>b. rooms \in [Codes -> Rooms \cup {NoRoom}]
  BY DEF Typed, TypeOK
<1>1. /\ loop[r].at = "unborn" /\ InMap(r)'
      /\ \A q \in Rooms \ {r} : loop'[q] = loop[q]
      /\ rooms' = [rooms EXCEPT ![CodeOf[r]] = r]
  BY <1>a DEF NewRoom, InMap, AtSelect, Loop
<1>2. ASSUME NEW k \in Codes, rooms'[k] # NoRoom
      PROVE  CodeOf[rooms'[k]] = k /\ InMap(rooms[k])'
  <2>1. CASE k = CodeOf[r]
    BY <1>1, <1>b, <2>1, CodeAssumption
  <2>2. CASE k # CodeOf[r]
    BY <1>1, <1>2, <1>b, <2>2, CodeAssumption DEF CodesLeadToRooms, InMap
  <2> QED
    BY <2>1, <2>2
<1>3. ASSUME NEW q \in Rooms, InMap(q)',
             \A p \in Rooms \ {q} : CodeOf[p] = CodeOf[q] => (loop[p].at = "unborn")'
      PROVE  rooms'[CodeOf[q]] = q
  <2>1. CASE q = r
    BY <1>1, <1>b, <2>1, CodeAssumption
  <2>2. CASE q # r
    <3>1. CodeOf[q] # CodeOf[r]
      BY <1>1, <1>3, <2>2 DEF InMap
    <3>2. ASSUME NEW p \in Rooms \ {q}, CodeOf[p] = CodeOf[q] PROVE loop[p].at = "unborn"
      BY <1>1, <1>3, <3>1, <3>2
    <3>3. InMap(q)
      BY <1>1, <1>3, <2>2 DEF InMap
    <3>4. rooms[CodeOf[q]] = q
      BY <3>2, <3>3 DEF CodesLeadToRooms
    <3> QED
      BY <1>1, <1>b, <3>1, <3>4, CodeAssumption
  <2> QED
    BY <2>1, <2>2
<1> QED
  BY <1>2, <1>3 DEF CodesLeadToRooms

(* One that has ended deletes its code, whichever room has it.             *)
LEMMA CodeReturned ==
  ASSUME Typed, CodesLeadToRooms, NEW r \in Rooms, CloseRoom(r)
  PROVE  CodesLeadToRooms'
<1>a. loop \in [Rooms -> [at : LoopAt, client : Clients \cup {NoClient}, req : Requests \cup {NoReq}]]
  BY DEF Typed, TypeOK
<1>b. rooms \in [Codes -> Rooms \cup {NoRoom}]
  BY DEF Typed, TypeOK
<1>1. /\ loop[r].at = "closing" /\ loop'[r].at = "closed"
      /\ \A q \in Rooms \ {r} : loop'[q] = loop[q]
      /\ rooms' = [rooms EXCEPT ![CodeOf[r]] = NoRoom]
  BY <1>a DEF CloseRoom, Loop
<1>2. ASSUME NEW k \in Codes, rooms'[k] # NoRoom
      PROVE  CodeOf[rooms'[k]] = k /\ InMap(rooms[k])'
  <2>1. k # CodeOf[r] /\ rooms'[k] = rooms[k]
    BY <1>1, <1>2, <1>b, CodeAssumption
  <2>2. CodeOf[rooms[k]] = k /\ InMap(rooms[k]) /\ rooms[k] \in Rooms \ {r}
    BY <1>2, <1>b, <2>1 DEF CodesLeadToRooms
  <2> QED
    BY <1>1, <2>1, <2>2 DEF InMap
<1>3. ASSUME NEW q \in Rooms, InMap(q)',
             \A p \in Rooms \ {q} : CodeOf[p] = CodeOf[q] => (loop[p].at = "unborn")'
      PROVE  rooms'[CodeOf[q]] = q
  <2>1. q # r /\ CodeOf[q] # CodeOf[r]
    BY <1>1, <1>3 DEF InMap
  <2>2. ASSUME NEW p \in Rooms \ {q}, CodeOf[p] = CodeOf[q] PROVE loop[p].at = "unborn"
    BY <1>1, <1>3, <2>1, <2>2
  <2>3. InMap(q)
    BY <1>1, <1>3, <2>1 DEF InMap
  <2>4. rooms[CodeOf[q]] = q
    BY <2>2, <2>3 DEF CodesLeadToRooms
  <2> QED
    BY <1>1, <1>b, <2>1, <2>4, CodeAssumption
<1> QED
  BY <1>2, <1>3 DEF CodesLeadToRooms

(* No other step of a loop is a birth or an end.                           *)
LEMMA CodesKept ==
  ASSUME Typed, CodesLeadToRooms, [Next]_vars
  PROVE  CodesLeadToRooms'
<1> USE DEF Typed, TypeOK, CodesLeadToRooms, InMap, Loop, AtSelect, hubVars, clientVars, roomVars
<1> DEFINE Same(r) == /\ loop'[r].at = "unborn" <=> loop[r].at = "unborn"
                      /\ loop'[r].at = "closed" <=> loop[r].at = "closed"
<1>1. ASSUME UNCHANGED rooms, \A r \in Rooms : Same(r) PROVE CodesLeadToRooms'
  BY <1>1
<1>2. ASSUME NEW r \in Rooms, NEW u, NewRoom(r, u) PROVE CodesLeadToRooms'
  BY <1>2, CodeTaken
<1>3. ASSUME NEW r \in Rooms, CloseRoom(r) PROVE CodesLeadToRooms'
  BY <1>3, CodeReturned
<1>4. ASSUME NEW r \in Rooms, RoomTakes(r) \/ FinishSignal(r) \/ ShutdownFires(r)
      PROVE  CodesLeadToRooms'
  <2>1. UNCHANGED rooms
    BY <1>4 DEF RoomTakes, TakeRegister, TakeAction, TakeUnregister, FinishSignal, ShutdownFires
  <2>2. \A q \in Rooms : Same(q)
    BY <1>4 DEF RoomTakes, TakeRegister, TakeAction, TakeUnregister, FinishSignal, ShutdownFires
  <2> QED
    BY <1>1, <2>1, <2>2
<1>5. ASSUME NEW r \in Rooms, Handles(r) PROVE CodesLeadToRooms'
  <2>1. UNCHANGED rooms
    BY <1>5 DEF Handles, HandleRegister, HandleUnregister, HandleStart, HandleScore, HandleFinish
  <2>2. loop' = [loop EXCEPT ![r] = AtSelect] /\ InMap(r)
    BY <1>5 DEF Handles, HandleRegister, HandleUnregister, HandleStart, HandleScore, HandleFinish
  <2> QED
    BY <1>1, <2>1, <2>2
<1>6. CASE HubRun
  BY <1>1, <1>6 DEF HubRun, HubRegister, HubUnregister
<1>7. ASSUME NEW c \in Clients, Dial(c) \/ Disconnect(c) \/ ReadPump(c) \/ WritePump(c)
      PROVE  CodesLeadToRooms'
  <2>1. ASSUME NEW r \in Rooms, ReadCreate(c, r) PROVE CodesLeadToRooms'
    BY <1>2, <2>1 DEF ReadCreate
  <2>2. CASE Dial(c) \/ Disconnect(c) \/ WritePump(c)
    BY <1>1, <2>2 DEF Dial, Disconnect, WritePump, WriteFrame, WriterExit
  <2>3. CASE (\E k \in Codes : ReadJoin(c, k)) \/ AutoJoin(c) \/ (\E q \in Requests : ReadAction(c, q))
    BY <1>1, <2>3 DEF ReadJoin, AutoJoin, ReadAction
  <2>4. CASE ActTimeout(c) \/ SendError(c) \/ ReadFail(c)
    BY <1>1, <2>4 DEF ActTimeout, SendError, ReadFail
  <2> QED
    BY <1>7, <2>1, <2>2, <2>3, <2>4 DEF ReadPump
<1>8. ASSUME NEW r \in Rooms, NEW u \in Users, CreateRoom(r, u) PROVE CodesLeadToRooms'
  BY <1>2, <1>8 DEF CreateRoom
<1>9. CASE UNCHANGED vars
  BY <1>1, <1>9 DEF vars
<1> HIDE DEF CodesLeadToRooms
<1> QED
  BY <1>3, <1>4, <1>5, <1>6, <1>7, <1>8, <1>9, NextSplits DEF Outside

(* The map of the hub leads only to rooms that run or are about to be      *)
(* removed, under their own codes, and a room is found under its code      *)
(* until it is removed or another room draws that code (hub.go:94-98,      *)
(* 151-155, room.go:75-79).                                                *)
THEOREM CodesAreExact == Spec => []CodesLeadToRooms
<1>1. Typed /\ CodesLeadToRooms /\ [Next]_vars => CodesLeadToRooms'
  BY CodesKept
<1> QED
  BY <1>1, CodesInit, AlwaysTyped, PTL DEF Spec

---------------------------------------------------------------------------
(* A connection that joins at most once.  What it has asked for is in one  *)
(* place at a time: in readPump, at the loop of a room, or among its       *)
(* clients.                                                                *)
Once(c) == joins[c] <= 1
Asks(c) == pump[c].at \in {"created", "join"}
Enters(c, r) == c \in clients[r] \/ (loop[r].at = "register" /\ loop[r].client = c)

OnePlace ==
  \A c \in Clients :
    /\ Asks(c) => joins[c] # 0 /\ \A r \in Rooms : Once(c) => ~Enters(c, r)
    /\ \A r \in Rooms : Enters(c, r) => joins[c] # 0
    /\ \A q, r \in Rooms : Once(c) /\ Enters(c, q) /\ Enters(c, r) => q = r

MembersKnowTheirRoom == \A r \in Rooms : \A c \in clients[r] : Once(c) => roomOf[c] = r

OnceInv == Typed /\ OnePlace /\ MembersKnowTheirRoom /\ ClosedOnlyInHandOff

LEMMA OnceInit == Init => OnceInv
<1> SUFFICES ASSUME Init PROVE OnceInv
  OBVIOUS
<1>1. OnePlace /\ MembersKnowTheirRoom /\ ClosedOnlyInHandOff
  BY DEF Init, OnePlace, Once, Asks, Enters, MembersKnowTheirRoom, ClosedOnlyInHandOff, Loop, Pump
<1> QED
  BY <1>1, InitTyped DEF OnceInv

LEMMA OnceOutside ==
  ASSUME OnceInv, Outside
  PROVE  OnePlace' /\ MembersKnowTheirRoom' /\ ClosedOnlyInHandOff'
<1> DEFINE Goal == OnePlace' /\ MembersKnowTheirRoom' /\ ClosedOnlyInHandOff'
<1> USE DEF OnceInv, Typed, TypeOK, Placed, OnePlace, Once, Asks, Enters,
            MembersKnowTheirRoom, ClosedOnlyInHandOff, Running, Loop, Pump, Hub, HubAtSelect,
            Idle, AtSelect, roomVars, clientVars, hubVars
<1>1. ASSUME NEW c \in Clients, HubRegister(c) PROVE Goal
  BY <1>1 DEF HubRegister
<1>2. ASSUME NEW c \in Clients, HubUnregister(c) PROVE Goal
  BY <1>2, NoneAssumption DEF HubUnregister, HandOff
<1>3. ASSUME NEW r \in Rooms, NEW u \in Users, CreateRoom(r, u) PROVE Goal
  BY <1>3 DEF CreateRoom, NewRoom
<1>4. ASSUME NEW c \in Clients, Dial(c) PROVE Goal
  BY <1>4 DEF Dial
<1>5. ASSUME NEW c \in Clients, Disconnect(c) PROVE Goal
  BY <1>5 DEF Disconnect
<1>6. ASSUME NEW c \in Clients, NEW k \in Codes, ReadJoin(c, k) PROVE Goal
  BY <1>6, BoundAssumption DEF ReadJoin, Reads
<1>7. ASSUME NEW c \in Clients, NEW r \in Rooms, ReadCreate(c, r) PROVE Goal
  BY <1>7, BoundAssumption DEF ReadCreate, NewRoom, Reads
<1>8. ASSUME NEW c \in Clients, AutoJoin(c) PROVE Goal
  BY <1>8 DEF AutoJoin
<1>9. ASSUME NEW c \in Clients, NEW q \in Requests, ReadAction(c, q) PROVE Goal
  BY <1>9 DEF ReadAction, Reads
<1>10. ASSUME NEW c \in Clients, ActTimeout(c) PROVE Goal
  BY <1>10 DEF ActTimeout
<1>19. ASSUME NEW c \in Clients, ReadFail(c) PROVE Goal
  BY <1>19 DEF ReadFail
<1>16. ASSUME NEW c \in Clients, SendError(c) PROVE Goal
  BY <1>16 DEF SendError
<1>11. ASSUME NEW c \in Clients, WriteFrame(c) \/ WriterExit(c) PROVE Goal
  BY <1>11 DEF WriteFrame, WriterExit
<1>12. ASSUME NEW r \in Rooms, NEW c \in Clients, TakeRegister(r, c) PROVE Goal
  BY <1>12 DEF TakeRegister
<1>13. ASSUME NEW r \in Rooms, NEW c \in Clients, TakeAction(r, c) PROVE Goal
  BY <1>13 DEF TakeAction
<1>14. ASSUME NEW r \in Rooms, TakeUnregister(r) PROVE Goal
  BY <1>14 DEF TakeUnregister
<1>15. ASSUME NEW r \in Rooms, FinishSignal(r) PROVE Goal
  BY <1>15 DEF FinishSignal
<1>17. ASSUME NEW r \in Rooms, ShutdownFires(r) PROVE Goal
  BY <1>17 DEF ShutdownFires
<1>18. ASSUME NEW r \in Rooms, CloseRoom(r) PROVE Goal
  BY <1>18 DEF CloseRoom
<1> HIDE DEF OnceInv, OnePlace, MembersKnowTheirRoom, ClosedOnlyInHandOff
<1> QED
  BY <1>1, <1>2, <1>3, <1>4, <1>5, <1>6, <1>7, <1>8, <1>9, <1>10, <1>11, <1>12, <1>13,
     <1>14, <1>15, <1>16, <1>17, <1>18, <1>19 DEF Outside, HubRun, ReadPump, WritePump, RoomTakes

(* What every handler of r does: it broadcasts to some of those who have   *)
(* entered r, or changes nobody's membership.                              *)
LEMMA HandleMoves ==
  ASSUME Typed, NEW r \in Rooms, Handles(r)
  PROVE  /\ loop' = [loop EXCEPT ![r] = AtSelect]
         /\ loop[r].at \in {"register", "unregister", "action", "finish"}
         /\ UNCHANGED <<pump, hub, hubClients, joins>>
         /\ \/ \E K \in SUBSET {c \in Clients : Enters(c, r)} : \E m : Broadcast(r, K, m)
            \/ UNCHANGED <<clients, closed, panic>>
<1> USE DEF Typed, TypeOK, Placed, hubVars
<1> DEFINE Entered == {c \in Clients : Enters(c, r)}
           Moves == \/ \E K \in SUBSET Entered : \E m : Broadcast(r, K, m)
                    \/ UNCHANGED <<clients, closed, panic>>
<1>1. /\ loop' = [loop EXCEPT ![r] = AtSelect]
      /\ loop[r].at \in {"register", "unregister", "action", "finish"}
      /\ UNCHANGED <<pump, hub, hubClients, joins>>
  BY DEF Handles, HandleRegister, HandleUnregister, HandleStart, HandleScore, HandleFinish
<1>2. clients[r] \in SUBSET Entered
  BY DEF Enters
<1>3. CASE HandleRegister(r)
  <2>1. clients[r] \cup {loop[r].client} \in SUBSET Entered
    BY <1>3 DEF HandleRegister, Enters
  <2> QED
    BY <1>1, <1>3, <2>1 DEF HandleRegister
<1>4. CASE HandleUnregister(r)
  <2>1. clients[r] \ {loop[r].client} \in SUBSET Entered
    BY <1>2
  <2> QED
    BY <1>1, <1>4, <2>1 DEF HandleUnregister
<1>5. CASE HandleStart(r) \/ HandleScore(r) \/ HandleFinish(r)
  <2>1. (\E m : Broadcast(r, clients[r], m)) \/ UNCHANGED <<clients, closed, panic>>
    BY <1>5 DEF HandleStart, HandleScore, HandleFinish
  <2> QED
    BY <1>1, <1>2, <2>1
<1> QED
  BY <1>3, <1>4, <1>5 DEF Handles

LEMMA OnceHandle ==
  ASSUME OnceInv, NEW r \in Rooms, Handles(r)
  PROVE  OnePlace' /\ MembersKnowTheirRoom' /\ ClosedOnlyInHandOff'
<1> DEFINE Entered == {c \in Clients : Enters(c, r)}
<1>a. TypeOK /\ Placed /\ OnePlace /\ MembersKnowTheirRoom /\ ClosedOnlyInHandOff /\ Typed
  BY DEF OnceInv, Typed
<1>1. /\ loop' = [loop EXCEPT ![r] = AtSelect]
      /\ UNCHANGED <<pump, hub, joins>>
      /\ \/ \E K \in SUBSET Entered : \E m : Broadcast(r, K, m)
         \/ UNCHANGED <<clients, closed, panic>>
  BY <1>a, HandleMoves
<1>2. clients'[r] \in SUBSET Entered /\ \A q \in Rooms \ {r} : clients'[q] = clients[q]
  BY <1>1, <1>a DEF Broadcast, TypeOK, Enters
<1>3. \A c \in Clients, q \in Rooms : Enters(c, q)' => Enters(c, q)
  BY <1>1, <1>2, <1>a DEF Enters, AtSelect, Loop, TypeOK
<1>4. OnePlace'
  BY <1>1, <1>3, <1>a DEF OnePlace, Once, Asks
<1>5. MembersKnowTheirRoom'
  <2>1. CASE HandleRegister(r)
    <3>1. roomOf' = [roomOf EXCEPT ![loop[r].client] = r] /\ Enters(loop[r].client, r)
      BY <2>1 DEF HandleRegister, Enters
    <3> QED
      BY <1>1, <1>2, <1>a, <3>1 DEF MembersKnowTheirRoom, OnePlace, Once, Enters, TypeOK
  <2>2. CASE HandleUnregister(r) /\ loop[r].client \in clients[r]
    <3>1. /\ roomOf' = [roomOf EXCEPT ![loop[r].client] = NoRoom]
          /\ Enters(loop[r].client, r)
          /\ clients'[r] \subseteq clients[r] \ {loop[r].client}
      BY <1>a, <2>2 DEF HandleUnregister, Enters, Broadcast, TypeOK
    <3>2. ASSUME NEW q \in Rooms, NEW c \in clients'[q], Once(c)
          PROVE  c \in Clients /\ c \in clients[q] /\ c # loop[r].client
      <4>1. c \in clients[q] /\ (q = r => c # loop[r].client)
        BY <1>2, <3>1, <3>2
      <4>2. c \in Clients /\ Enters(c, q)
        BY <1>a, <4>1 DEF TypeOK, Enters
      <4> QED
        BY <1>a, <3>1, <3>2, <4>1, <4>2 DEF OnePlace
    <3> QED
      BY <1>1, <1>a, <3>1, <3>2 DEF MembersKnowTheirRoom, Once, TypeOK
  <2>3. CASE UNCHANGED roomOf /\ clients'[r] \subseteq clients[r]
    BY <1>1, <1>2, <1>a, <2>3 DEF MembersKnowTheirRoom, Once
  <2>4. HandleUnregister(r) /\ loop[r].client \notin clients[r] => UNCHANGED <<roomOf, clients>>
    BY DEF HandleUnregister
  <2>5. HandleStart(r) \/ HandleScore(r) \/ HandleFinish(r)
          => UNCHANGED roomOf /\ clients'[r] \subseteq clients[r]
    BY <1>a DEF HandleStart, HandleScore, HandleFinish, Broadcast, TypeOK
  <2> QED
    BY <2>1, <2>2, <2>3, <2>4, <2>5 DEF Handles
<1>6. ASSUME Running',
             NEW q \in Rooms, NEW c \in clients'[q], closed'[c], Once(c)
      PROVE  hub = Hub("leave", c, q) \/ (loop[q].at = "unregister" /\ loop[q].client = c /\ q # r)
  <2>1. c \in Clients /\ Running
    BY <1>2, <1>6, <1>a, NextSplits, NextRuns DEF TypeOK
  <2>2. CASE \E K \in SUBSET Entered : \E m : Broadcast(r, K, m)
    <3>a. PICK K \in SUBSET Entered : \E m : Broadcast(r, K, m)
      BY <2>2
    <3>1. PICK m : Broadcast(r, K, m)
      BY <3>a
    <3>2. \A d \in K : ~closed[d]
      BY <1>6, <2>1, <3>1 DEF Broadcast, Running
    <3>3. c \in clients'[r] => FALSE
      BY <1>6, <1>a, <2>1, <3>1, <3>2 DEF Broadcast, TypeOK
    <3>4. q # r /\ c \in clients[q]
      BY <1>2, <1>6, <3>3
    <3>5. c \notin K
      BY <1>6, <1>a, <2>1, <3>4 DEF OnePlace, Enters
    <3>6. closed[c]
      BY <1>6, <2>1, <3>1, <3>5 DEF Broadcast
    <3> QED
      BY <1>6, <1>a, <2>1, <3>4, <3>6 DEF ClosedOnlyInHandOff, Once
  <2>3. CASE UNCHANGED <<clients, closed, panic>>
    <3>1. hub = Hub("leave", c, q) \/ (loop[q].at = "unregister" /\ loop[q].client = c)
      BY <1>6, <1>a, <2>1, <2>3 DEF ClosedOnlyInHandOff, Once
    <3>2. loop[r].at = "unregister" /\ loop[r].client = c => c \notin clients'[r]
      BY <1>a DEF Handles, HandleRegister, HandleUnregister, HandleStart, HandleScore,
                  HandleFinish, Broadcast, TypeOK
    <3> QED
      BY <1>6, <3>1, <3>2
  <2> QED
    BY <1>1, <2>2, <2>3
<1>7. ClosedOnlyInHandOff'
  BY <1>1, <1>6, <1>a DEF ClosedOnlyInHandOff, Once, TypeOK
<1> QED
  BY <1>4, <1>5, <1>7

LEMMA OnceKept == OnceInv /\ [Next]_vars => OnceInv'
<1> SUFFICES ASSUME OnceInv, [Next]_vars PROVE OnceInv'
  OBVIOUS
<1>1. Typed'
  BY NextTyped DEF OnceInv
<1>2. CASE Next
  <2>1. OnePlace' /\ MembersKnowTheirRoom' /\ ClosedOnlyInHandOff'
    BY <1>2, NextSplits, OnceOutside, OnceHandle
  <2> QED
    BY <1>1, <2>1 DEF OnceInv
<1>3. CASE UNCHANGED vars
  BY <1>1, <1>3 DEF vars, roomVars, clientVars, hubVars, OnceInv, OnePlace, Once, Asks, Enters,
                    MembersKnowTheirRoom, ClosedOnlyInHandOff, Running
<1> QED
  BY <1>2, <1>3

(* A connection that has asked to join once, as the page does, stands with *)
(* a closed queue among the clients of a room only while the hub hands it  *)
(* over to that room (hub.go:50-52, room.go:108-110).                      *)
THEOREM ClosedQueuesAreHandedOver == Spec => []ClosedOnlyInHandOff
<1>1. OnceInv /\ [Next]_vars => OnceInv'
  BY OnceKept
<1>2. OnceInv => ClosedOnlyInHandOff
  BY DEF OnceInv
<1> QED
  BY <1>1, <1>2, OnceInit, PTL DEF Spec

(* What kills the process.  Outside the handlers it is the use of a closed *)
(* queue by its own readPump or by the hub.                                *)
LEMMA OutsidePanics ==
  ASSUME Typed, Outside, panic' # panic
  PROVE  \E c \in Clients : closed[c] /\ pump[c].at \in {"error", "quit"}
  BY DEF Outside, HubRun, HubRegister, HubUnregister, CreateRoom, NewRoom, Dial, Disconnect,
         ReadPump, ReadJoin, ReadCreate, AutoJoin, ReadAction, ActTimeout, SendError, ReadFail,
         WritePump, WriteFrame, WriterExit, RoomTakes, TakeRegister, TakeAction,
         TakeUnregister, FinishSignal, ShutdownFires, CloseRoom

(* In a handler it is a broadcast to a closed queue.                       *)
LEMMA HandlerPanics ==
  ASSUME Typed, NEW r \in Rooms, Handles(r), panic' # panic
  PROVE  /\ loop[r].at # "select"
         /\ \E c \in Clients : closed[c] /\
              \/ loop[r].at = "register" /\ loop[r].client = c
              \/ c \in clients[r] /\ ~(loop[r].at = "unregister" /\ loop[r].client = c)
<1>1. ASSUME NEW K, NEW m, Broadcast(r, K, m) PROVE \E c \in K : closed[c]
  BY <1>1 DEF Broadcast
<1>2. clients[r] \subseteq Clients /\ (loop[r].at = "register" => loop[r].client \in Clients)
  BY DEF Typed, TypeOK, Placed
<1>3. CASE HandleRegister(r)
  <2>1. loop[r].at = "register" /\ \E m : Broadcast(r, clients[r] \cup {loop[r].client}, m)
    BY <1>3 DEF HandleRegister
  <2> QED
    BY <1>1, <1>2, <2>1
<1>4. CASE HandleUnregister(r)
  <2>1. loop[r].at = "unregister" /\ \E m : Broadcast(r, clients[r] \ {loop[r].client}, m)
    BY <1>4 DEF HandleUnregister
  <2> QED
    BY <1>1, <1>2, <2>1
<1>5. CASE HandleStart(r) \/ HandleScore(r) \/ HandleFinish(r)
  <2>1. loop[r].at \in {"action", "finish"} /\ \E m : Broadcast(r, clients[r], m)
    BY <1>5 DEF HandleStart, HandleScore, HandleFinish
  <2> QED
    BY <1>1, <1>2, <2>1
<1> QED
  BY <1>3, <1>4, <1>5 DEF Handles

(* As long as a connection joins once, the process dies only of a          *)
(* broadcast to a connection whose hand-over is under way, of the          *)
(* admission of one already released, or of the second use of a full queue *)
(* that its room closed (hub.go:50-52, 138-143, room.go:105-106, 297-299). *)
THEOREM CrashesAreExplained == Spec => PanicIsExplained
<1> DEFINE Explained ==
       \E c \in Clients : closed[c] /\
         \/ joins[c] > 1
         \/ \E r \in Rooms : /\ loop[r].at # "select"
                             /\ \/ hub = Hub("leave", c, r)
                                \/ loop[r].at = "register" /\ loop[r].client = c
         \/ pump[c].at \in {"error", "quit"} /\ \A r \in Rooms : c \notin clients[r]
<1>1. ASSUME IInv, OnceInv, Next, Running, ~Running' PROVE Explained
  <2>a. Typed /\ HandOver /\ ClosedOnlyInHandOff /\ panic' # panic /\ \A c \in Clients : joins[c] \in Nat
    BY <1>1, BoundAssumption DEF IInv, OnceInv, Running, Typed, TypeOK
  <2>1. ASSUME NEW c \in Clients, closed[c], joins[c] <= 1, NEW r \in Rooms, c \in clients[r]
        PROVE  /\ hub = Hub("leave", c, r) \/ (loop[r].at = "unregister" /\ loop[r].client = c)
               /\ pump[c].at = "gone"
    <3>1. hub = Hub("leave", c, r) \/ (loop[r].at = "unregister" /\ loop[r].client = c)
      BY <1>1, <2>a, <2>1 DEF ClosedOnlyInHandOff
    <3> QED
      BY <1>1, <2>a, <3>1 DEF HandOver, HubHolds, RoomHolds, Hub
  <2>2. CASE Outside
    <3>1. PICK c \in Clients : closed[c] /\ pump[c].at \in {"error", "quit"}
      BY <2>a, <2>2, OutsidePanics
    <3>2. joins[c] > 1 \/ \A r \in Rooms : c \notin clients[r]
      BY <2>a, <2>1, <3>1
    <3> QED
      BY <3>1, <3>2
  <2>3. ASSUME NEW r \in Rooms, Handles(r) PROVE Explained
    <3>1. /\ loop[r].at # "select"
          /\ \E c \in Clients : closed[c] /\
               \/ loop[r].at = "register" /\ loop[r].client = c
               \/ c \in clients[r] /\ ~(loop[r].at = "unregister" /\ loop[r].client = c)
      BY <2>a, <2>3, HandlerPanics
    <3>2. PICK c \in Clients : closed[c] /\
               \/ loop[r].at = "register" /\ loop[r].client = c
               \/ c \in clients[r] /\ ~(loop[r].at = "unregister" /\ loop[r].client = c)
      BY <3>1
    <3>3. joins[c] > 1 \/ hub = Hub("leave", c, r) \/ (loop[r].at = "register" /\ loop[r].client = c)
      BY <2>a, <2>1, <3>2
    <3> QED
      BY <3>1, <3>2, <3>3
  <2> QED
    BY <1>1, <2>2, <2>3, NextSplits
<1>2. IInv /\ OnceInv /\ [Next]_vars => [Running /\ ~Running' => Explained]_vars
  BY <1>1
<1>3. Spec => []OnceInv
  BY OnceInit, OnceKept, PTL DEF Spec
<1> QED
  BY <1>2, <1>3, AlwaysInv, PTL DEF Spec, PanicIsExplained

---------------------------------------------------------------------------
(* The lobby.                                                              *)
(* A connection that has started its pumps is the hub's until its queue is *)
(* closed, and only such connections are in a room.                        *)
Started(c) == pump[c].at \notin {"off", "dial"}

HubKnows ==
  \A c \in Clients :
    /\ Started(c) => c \in hubClients \/ closed[c]
    /\ \A r \in Rooms : Enters(c, r) => Started(c)

LobbyInv == Typed /\ HubKnows /\ LobbyIsExact

LEMMA LobbyInit == Init => LobbyInv
<1> SUFFICES ASSUME Init PROVE LobbyInv
  OBVIOUS
<1>1. HubKnows /\ LobbyIsExact
  BY UserAssumption DEF Init, HubKnows, Started, Enters, LobbyIsExact, Listed, Loop, Pump, NoPlayers
<1> QED
  BY <1>1, InitTyped DEF LobbyInv

(* Outside the handlers the list, the state and the clients of a room stay *)
(* as they are.  A connection whose queue was closed by a broadcast leaves *)
(* the hub by a panic only.                                                *)
LEMMA OutsideKeepsRooms ==
  ASSUME Typed, Outside
  PROVE  UNCHANGED <<clients, players, state>>
  BY DEF Outside, HubRun, HubRegister, HubUnregister, CreateRoom, NewRoom, Dial, Disconnect,
         ReadPump, ReadJoin, ReadCreate, AutoJoin, ReadAction, ActTimeout, SendError, ReadFail,
         WritePump, WriteFrame, WriterExit, RoomTakes, TakeRegister, TakeAction,
         TakeUnregister, FinishSignal, ShutdownFires, CloseRoom, roomVars, clientVars, hubVars

LEMMA OutsideKnown ==
  ASSUME Typed, HubKnows, Outside
  PROVE  HubKnows'
<1> USE DEF Typed, TypeOK, Placed, HubKnows, Started, Enters, Loop, Pump, Idle, AtSelect,
            roomVars, clientVars, hubVars
<1>1. ASSUME NEW c \in Clients, HubRegister(c) \/ HubUnregister(c) PROVE HubKnows'
  BY <1>1 DEF HubRegister, HubUnregister
<1>2. ASSUME NEW r \in Rooms, NEW u \in Users, CreateRoom(r, u) PROVE HubKnows'
  BY <1>2 DEF CreateRoom, NewRoom
<1>3. ASSUME NEW c \in Clients, Dial(c) PROVE HubKnows'
  BY <1>3 DEF Dial
<1>4. ASSUME NEW c \in Clients, Disconnect(c) PROVE HubKnows'
  BY <1>4 DEF Disconnect
<1>5. ASSUME NEW c \in Clients, NEW k \in Codes, ReadJoin(c, k) PROVE HubKnows'
  BY <1>5 DEF ReadJoin, Reads
<1>6. ASSUME NEW c \in Clients, NEW r \in Rooms, ReadCreate(c, r) PROVE HubKnows'
  BY <1>6 DEF ReadCreate, NewRoom, Reads
<1>7. ASSUME NEW c \in Clients, AutoJoin(c) PROVE HubKnows'
  BY <1>7 DEF AutoJoin
<1>8. ASSUME NEW c \in Clients, NEW q \in Requests, ReadAction(c, q) PROVE HubKnows'
  BY <1>8 DEF ReadAction, Reads
<1>9. ASSUME NEW c \in Clients, ActTimeout(c) PROVE HubKnows'
  BY <1>9 DEF ActTimeout
<1>10. ASSUME NEW c \in Clients, SendError(c) PROVE HubKnows'
  BY <1>10 DEF SendError
<1>11. ASSUME NEW c \in Clients, ReadFail(c) PROVE HubKnows'
  BY <1>11 DEF ReadFail
<1>12. ASSUME NEW c \in Clients, WriteFrame(c) \/ WriterExit(c) PROVE HubKnows'
  BY <1>12 DEF WriteFrame, WriterExit
<1>13. ASSUME NEW r \in Rooms, NEW c \in Clients, TakeRegister(r, c) PROVE HubKnows'
  BY <1>13 DEF TakeRegister
<1>14. ASSUME NEW r \in Rooms, NEW c \in Clients, TakeAction(r, c) PROVE HubKnows'
  BY <1>14 DEF TakeAction
<1>15. ASSUME NEW r \in Rooms, TakeUnregister(r) PROVE HubKnows'
  BY <1>15 DEF TakeUnregister
<1>16. ASSUME NEW r \in Rooms, FinishSignal(r) PROVE HubKnows'
  BY <1>16 DEF FinishSignal
<1>17. ASSUME NEW r \in Rooms, ShutdownFires(r) PROVE HubKnows'
  BY <1>17 DEF ShutdownFires
<1>18. ASSUME NEW r \in Rooms, CloseRoom(r) PROVE HubKnows'
  BY <1>18 DEF CloseRoom
<1> HIDE DEF HubKnows
<1> QED
  BY <1>1, <1>2, <1>3, <1>4, <1>5, <1>6, <1>7, <1>8, <1>9, <1>10, <1>11, <1>12, <1>13,
     <1>14, <1>15, <1>16, <1>17, <1>18 DEF Outside, HubRun, ReadPump, WritePump, RoomTakes

(* The lobby after a step outside the handlers: a listed user whose        *)
(* connection the hub forgets is still a member, or the step panics.       *)
LEMMA OutsideLobby ==
  ASSUME LobbyInv, Outside
  PROVE  LobbyIsExact'
<1>a. TypeOK /\ Typed /\ LobbyIsExact /\ UNCHANGED <<clients, players, state>>
  BY OutsideKeepsRooms DEF LobbyInv, Typed
<1>1. \A r \in Rooms : \A c \in clients'[r] : Alone(c) => Listed(r, UserOf[c])'
  BY <1>a DEF LobbyIsExact, Listed
<1>2. ASSUME NEW c \in Clients, closed[c], c \in hubClients, Running'
      PROVE  closed'[c] /\ c \in hubClients'
  <2>1. CASE HubRun
    BY <1>2, <1>a, <2>1 DEF HubRun, HubRegister, HubUnregister, Running, TypeOK
  <2>2. ~HubRun => UNCHANGED <<closed, hubClients>>
    BY DEF Outside, CreateRoom, NewRoom, Dial, Disconnect, ReadPump, ReadJoin, ReadCreate,
         AutoJoin, ReadAction, ActTimeout, SendError, ReadFail, WritePump, WriteFrame,
         WriterExit, RoomTakes, TakeRegister, TakeAction, TakeUnregister, FinishSignal,
         ShutdownFires, CloseRoom, clientVars, hubVars
  <2> QED
    BY <1>2, <2>1, <2>2
<1>3. Running' => Running
  BY NextRuns, NextSplits
<1> QED
  BY <1>1, <1>2, <1>3, <1>a DEF LobbyIsExact, Listed

(* A broadcast over K: whoever of K it drops has its queue closed.         *)
LEMMA BroadcastDrops ==
  ASSUME TypeOK, NEW r \in Rooms, NEW K \in SUBSET Clients, NEW m, Broadcast(r, K, m)
  PROVE  /\ clients'[r] \subseteq K
         /\ \A q \in Rooms \ {r} : clients'[q] = clients[q]
         /\ \A c \in Clients : closed[c] => closed'[c]
         /\ \A c \in K : c \in clients'[r] \/ closed'[c]
         /\ Running' /\ Running => \A c \in K : ~closed[c]
  BY DEF Broadcast, TypeOK, Running

(* Other rooms are not touched by a handler of r.                          *)
LEMMA HandleLobby ==
  ASSUME LobbyInv, NEW r \in Rooms, Handles(r)
  PROVE  HubKnows' /\ LobbyIsExact'
<1>a. Typed /\ TypeOK /\ Placed /\ HubKnows /\ LobbyIsExact
  BY DEF LobbyInv, Typed
<1>b. /\ loop' = [loop EXCEPT ![r] = AtSelect]
      /\ UNCHANGED <<pump, hub, hubClients>>
      /\ \/ \E K \in SUBSET {c \in Clients : Enters(c, r)} : \E m : Broadcast(r, K, m)
         \/ UNCHANGED <<clients, closed, panic>>
  BY <1>a, HandleMoves
<1>c. Running /\ \A q \in Rooms \ {r} : players'[q] = players[q] /\ state'[q] = state[q]
  BY <1>a, NextSplits, NextRuns
     DEF Handles, HandleRegister, HandleUnregister, HandleStart, HandleScore, HandleFinish, TypeOK
<1>1. /\ \A q \in Rooms \ {r} : clients'[q] = clients[q]
      /\ clients'[r] \in SUBSET {c \in Clients : Enters(c, r)}
      /\ \A c \in Clients : closed[c] => closed'[c]
  BY <1>a, <1>b, BroadcastDrops DEF TypeOK, Enters
<1>2. HubKnows'
  <2>1. \A c \in Clients, q \in Rooms : Enters(c, q)' => Enters(c, q)
    BY <1>1, <1>a, <1>b DEF Enters, AtSelect, Loop, TypeOK
  <2> QED
    BY <1>1, <1>a, <1>b, <2>1 DEF HubKnows, Started
<1> SUFFICES LobbyIsExact'
  BY <1>2
<1> DEFINE Witness(u, q) == \E c \in Clients : UserOf[c] = u /\ (c \in clients[q] \/ (closed[c] /\ c \in hubClients))
           Here == /\ \A c \in clients'[r] : Alone(c) => Listed(r, UserOf[c])'
                   /\ Running' /\ state'[r] = "WAITING" =>
                        \A u \in Users : Listed(r, u)' => Witness(u, r)'
<1>3. ASSUME Here PROVE LobbyIsExact'
  <2>1. ASSUME NEW q \in Rooms \ {r}
        PROVE  /\ \A c \in clients'[q] : Alone(c) => Listed(q, UserOf[c])'
               /\ Running' /\ state'[q] = "WAITING" =>
                    \A u \in Users : Listed(q, u)' => Witness(u, q)'
    <3>1. clients'[q] = clients[q] /\ players'[q] = players[q] /\ state'[q] = state[q] /\ Running
      BY <1>1, <1>c, UserAssumption
    <3>2. \A u \in Users : Witness(u, q) => Witness(u, q)'
      BY <1>1, <1>b, <3>1
    <3> HIDE DEF Witness
    <3>3. Running /\ state[q] = "WAITING" => \A u \in Users : Listed(q, u) => Witness(u, q)
      BY <1>a, <2>1 DEF LobbyIsExact, Witness
    <3> QED
      BY <1>a, <3>1, <3>2, <3>3 DEF LobbyIsExact, Listed
  <2> QED
    BY <1>3, <2>1 DEF LobbyIsExact
<1>4. ASSUME NEW K \in SUBSET {c \in Clients : Enters(c, r)}, NEW m, Broadcast(r, K, m),
             Running', NEW c \in K
      PROVE  Witness(UserOf[c], r)'
  <2>1. c \in Clients /\ Started(c) /\ ~closed[c] /\ (c \in clients'[r] \/ closed'[c])
    BY <1>4, <1>a, <1>c, BroadcastDrops DEF HubKnows
  <2>2. c \in hubClients'
    BY <1>a, <1>b, <2>1 DEF HubKnows
  <2> QED
    BY <2>1, <2>2
(* Who had a witness and is not the user of a client outside K has one.    *)
<1>5. ASSUME NEW K \in SUBSET {c \in Clients : Enters(c, r)}, NEW m, Broadcast(r, K, m),
             Running', state[r] = "WAITING", NEW u \in Users, Listed(r, u),
             \A d \in clients[r] : UserOf[d] = u => d \in K
      PROVE  Witness(u, r)'
  <2>1. PICK d \in Clients : UserOf[d] = u /\ (d \in clients[r] \/ (closed[d] /\ d \in hubClients))
    BY <1>5, <1>a, <1>c DEF LobbyIsExact
  <2>2. CASE d \in clients[r]
    BY <1>4, <1>5, <2>1, <2>2
  <2>3. CASE closed[d] /\ d \in hubClients
    BY <1>1, <1>b, <2>1, <2>3
  <2> QED
    BY <2>1, <2>2, <2>3
<1> HIDE DEF Witness
<1>6. Absent \notin 0..MaxScore
  BY BoundAssumption DEF Absent
<1>7. CASE UNCHANGED <<clients, closed, panic, players, state>>
  <2>1. \A u \in Users : Witness(u, r) => Witness(u, r)'
    BY <1>7, <1>b DEF Witness
  <2>2. Running /\ state[r] = "WAITING" => \A u \in Users : Listed(r, u) => Witness(u, r)
    BY <1>a DEF LobbyIsExact, Witness
  <2>3. Here
    BY <1>7, <1>a, <1>c, <2>1, <2>2 DEF LobbyIsExact, Listed
  <2> QED
    BY <1>3, <2>3
<1>8. CASE HandleRegister(r)
  <2> DEFINE c == loop[r].client
             K == clients[r] \cup {c}
             P == IF players[r][UserOf[c]] = Absent THEN [players[r] EXCEPT ![UserOf[c]] = 0] ELSE players[r]
  <2>1. /\ c \in Clients /\ K \in SUBSET {d \in Clients : Enters(d, r)}
        /\ Broadcast(r, K, RoomState(r, P))
        /\ players' = [players EXCEPT ![r] = P] /\ UNCHANGED state
    BY <1>8, <1>a DEF HandleRegister, Enters, Placed, TypeOK
  <2>2. \A u \in Users : Listed(r, u)' <=> Listed(r, u) \/ u = UserOf[c]
    BY <1>a, <2>1 DEF Listed, TypeOK, Absent
  <2>3. \A d \in clients'[r] : Alone(d) => Listed(r, UserOf[d])'
    <3> HIDE DEF K, c, P
    <3>1. clients'[r] \subseteq K
      BY <1>a, <2>1, BroadcastDrops
    <3> USE DEF K
    <3> QED
      BY <1>a, <2>1, <2>2, <3>1, UserAssumption DEF LobbyIsExact, TypeOK
  <2>4. ASSUME Running', state'[r] = "WAITING", NEW u \in Users, Listed(r, u)'
        PROVE  Witness(u, r)'
    <3>1. CASE u = UserOf[c]
      BY <1>4, <2>1, <2>4, <3>1
    <3>2. CASE Listed(r, u)
      BY <1>5, <2>1, <2>4, <3>2
    <3> QED
      BY <2>2, <2>4, <3>1, <3>2
  <2> QED
    BY <1>3, <2>3, <2>4
<1>9. CASE HandleUnregister(r) /\ loop[r].client \in clients[r]
  <2>0. PICK c \in Clients : c = loop[r].client
    BY <1>9, <1>a DEF HandleUnregister, Placed
  <2> DEFINE K == clients[r] \ {c}
             P == ListWithout(r, c)
  <2>1. /\ c \in Clients /\ K \in SUBSET {d \in Clients : Enters(d, r)}
        /\ Broadcast(r, K, RoomState(r, P))
        /\ players' = [players EXCEPT ![r] = P] /\ UNCHANGED state
    BY <1>9, <1>a, <2>0 DEF HandleUnregister, Enters, TypeOK
  <2>2. /\ \A u \in Users \ {UserOf[c]} : Listed(r, u)' <=> Listed(r, u)
        /\ state[r] = "WAITING" => ~Listed(r, UserOf[c])'
    <3>1. players'[r] = P
      BY <1>a, <2>1 DEF TypeOK
    <3>2. CASE state[r] = "WAITING"
      <4>1. P = [players[r] EXCEPT ![UserOf[c]] = Absent] /\ players[r] \in [Users -> Scores]
        BY <1>a, <3>2 DEF ListWithout, TypeOK
      <4>2. UserOf[c] \in Users
        BY <2>1, UserAssumption
      <4> QED
        BY <3>1, <4>1, <4>2 DEF Listed, Absent
    <3>3. CASE state[r] # "WAITING"
      BY <3>1, <3>3 DEF Listed, ListWithout
    <3> QED
      BY <3>2, <3>3
  <2>3. \A d \in clients'[r] : d \in K /\ d \in Clients /\ (Alone(d) => UserOf[d] # UserOf[c])
    <3> HIDE DEF K, P
    <3>1. clients'[r] \subseteq K
      BY <1>a, <2>1, BroadcastDrops
    <3> USE DEF K
    <3> QED
      BY <1>a, <2>1, <3>1 DEF Alone, TypeOK
  <2>4. \A d \in clients'[r] : Alone(d) => Listed(r, UserOf[d])'
    BY <1>a, <2>2, <2>3, UserAssumption DEF LobbyIsExact
  <2>5. ASSUME Running', state'[r] = "WAITING", NEW u \in Users, Listed(r, u)'
        PROVE  Witness(u, r)'
    <3>1. state[r] = "WAITING"
      BY <2>1, <2>5
    <3>2. u # UserOf[c]
      BY <2>2, <2>5, <3>1
    <3>3. Listed(r, u)
      BY <2>2, <2>5, <3>2
    <3>4. \A d \in clients[r] : UserOf[d] = u => d \in K
      BY <3>2
    <3> HIDE DEF K, P
    <3> QED
      BY <1>5, <2>1, <2>5, <3>1, <3>3, <3>4
  <2> QED
    BY <1>3, <2>4, <2>5
<1>10. ASSUME NEW m, Broadcast(r, clients[r], m), state'[r] # "WAITING",
              \A u \in Users : Listed(r, u) => Listed(r, u)'
       PROVE  LobbyIsExact'
  <2>1. clients'[r] \subseteq clients[r] /\ clients[r] \subseteq Clients
    BY <1>10, <1>a, BroadcastDrops DEF TypeOK
  <2>2. Here
    BY <1>10, <1>a, <2>1, UserAssumption DEF LobbyIsExact
  <2> QED
    BY <1>3, <2>2
<1>11. CASE HandleStart(r) /\ MayStart(r, loop[r].client)
  BY <1>10, <1>11, <1>a DEF HandleStart, Listed, TypeOK
<1>12. CASE HandleScore(r) /\ MayScore(r, loop[r].client, loop[r].req.score)
  <2>1. state'[r] # "WAITING" /\ \A u \in Users : Listed(r, u) => Listed(r, u)'
    BY <1>6, <1>12, <1>a DEF HandleScore, MayScore, Listed, TypeOK
  <2> QED
    BY <1>10, <1>12, <2>1 DEF HandleScore
<1>13. CASE HandleFinish(r) /\ state[r] = "PLAYING"
  BY <1>10, <1>13, <1>a DEF HandleFinish, Listed, TypeOK
<1>14. LobbyIsExact'
  BY <1>7, <1>8, <1>9, <1>11, <1>12, <1>13
     DEF Handles, HandleUnregister, HandleStart, HandleScore, HandleFinish
<1> QED
  BY <1>14

LEMMA LobbyKept == LobbyInv /\ [Next]_vars => LobbyInv'
<1> SUFFICES ASSUME LobbyInv, [Next]_vars PROVE LobbyInv'
  OBVIOUS
<1>1. Typed'
  BY NextTyped DEF LobbyInv
<1>2. CASE Outside
  BY <1>1, <1>2, OutsideKnown, OutsideLobby DEF LobbyInv
<1>3. ASSUME NEW r \in Rooms, Handles(r) PROVE LobbyInv'
  BY <1>1, <1>3, HandleLobby DEF LobbyInv
<1>4. CASE UNCHANGED vars
  <2>1. HubKnows'
    BY <1>4 DEF vars, roomVars, clientVars, hubVars, LobbyInv, HubKnows, Started, Enters
  <2>2. LobbyIsExact'
    BY <1>4 DEF vars, roomVars, clientVars, hubVars, LobbyInv, LobbyIsExact, Listed, Running
  <2> QED
    BY <1>1, <2>1, <2>2 DEF LobbyInv
<1> QED
  BY <1>2, <1>3, <1>4, NextSplits

(* The list of a lobby is exact: each member whose user has no other       *)
(* connection is on it, and each user on it has a member, or a connection  *)
(* whose full queue was closed and that the hub has not released yet       *)
(* (room.go:97-104, 113-116, 299-300).                                     *)
THEOREM LobbyListsWhoIsThere == Spec => []LobbyIsExact
<1>1. LobbyInv /\ [Next]_vars => LobbyInv'
  BY LobbyKept
<1>2. LobbyInv => LobbyIsExact
  BY DEF LobbyInv
<1> QED
  BY <1>1, <1>2, LobbyInit, PTL DEF Spec
==============================================================================
