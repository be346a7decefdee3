--------------------------------- MODULE Hub ---------------------------------
(***************************************************************************)
(* The hub goroutine (backend/internal/game/hub.go), the HTTP request that *)
(* creates a room, and the whole battle server: hub, rooms and connections *)
(* together.                                                               *)
(***************************************************************************)
EXTENDS Client

(* case client := <-h.register; ServeWs then starts the two pumps. *)
HubRegister(c) ==
  /\ Running
  /\ hub.at = "select" /\ pump[c].at = "dial"
  /\ hubClients' = hubClients \cup {c}
  /\ pump' = [pump EXCEPT ![c] = Idle]
  /\ writer' = [writer EXCEPT ![c] = "run"]
  /\ UNCHANGED <<roomVars, roomOf, buf, closed, conn, joins, hub, rooms, panic>>

(* The hub once c is closed: it hands c over to its room, if it has one.   *)
\* Mutant: the room is never told.
NoHandOff(c) == HubAtSelect
HandOff(c) == IF roomOf[c] = NoRoom THEN HubAtSelect ELSE Hub("leave", c, roomOf[c])

(* case client := <-h.unregister: forget the connection, close its queue,  *)
(* and hand it over to the room it is in; a queue that is already closed   *)
(* panics.                                                                 *)
HubUnregister(c) ==
  /\ Running
  /\ hub.at = "select" /\ pump[c].at = "quit"
  /\ pump' = [pump EXCEPT ![c] = Pump("gone", NoRoom, NoReq)]
  /\ hubClients' = hubClients \ {c}
  /\ closed' = [closed EXCEPT ![c] = TRUE]
  /\ panic' = IF closed[c] THEN "close" ELSE panic
  /\ hub' = HandOff(c)
  /\ UNCHANGED <<roomVars, roomOf, buf, writer, conn, joins, rooms>>

(* GameHandler.CreateRoom: POST /api/game/create-room of user u. *)
CreateRoom(r, u) ==
  /\ NewRoom(r, u)
  /\ UNCHANGED <<state, clients, players, ending, clientVars, hub, hubClients, panic>>

HubRun == \E c \in Clients : HubRegister(c) \/ HubUnregister(c)

ReadPump(c) ==
  \/ \E k \in Codes : ReadJoin(c, k)
  \/ \E r \in Rooms : ReadCreate(c, r)
  \/ AutoJoin(c)
  \/ \E q \in Requests : ReadAction(c, q)
  \/ ActTimeout(c)
  \/ SendError(c)
  \/ ReadFail(c)

WritePump(c) == WriteFrame(c) \/ WriterExit(c)

RoomTakes(r) ==
  \/ \E c \in Clients : TakeRegister(r, c) \/ TakeAction(r, c)
  \/ TakeUnregister(r)

Next ==
  \/ HubRun
  \/ \E r \in Rooms, u \in Users : CreateRoom(r, u)
  \/ \E c \in Clients : Dial(c) \/ Disconnect(c) \/ ReadPump(c) \/ WritePump(c)
  \/ \E r \in Rooms : RoomTakes(r) \/ RoomLoop(r) \/ FinishSignal(r) \/ ShutdownFires(r)

Spec == Init /\ [][Next]_vars
==============================================================================
