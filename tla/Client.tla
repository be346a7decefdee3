------------------------------- MODULE Client -------------------------------
(***************************************************************************)
(* The two goroutines of a connection (backend/internal/game/client.go),   *)
(* with the part of Hub.handleMessage that runs in readPump: readPump      *)
(* itself blocks on the room, on its own full queue or on the hub.         *)
(***************************************************************************)
EXTENDS Room

(* ServeWs: upgraded, the handler goroutine blocks on hub.register. *)
Dial(c) ==
  /\ Running
  /\ pump[c].at = "off"
  /\ pump' = [pump EXCEPT ![c] = Pump("dial", NoRoom, NoReq)]
  /\ conn' = [conn EXCEPT ![c] = TRUE]
  /\ UNCHANGED <<roomVars, roomOf, buf, closed, writer, joins, hubVars, panic>>

(* The peer goes away, or its pings stop coming back. *)
Disconnect(c) ==
  /\ Running
  /\ conn[c] /\ pump[c].at # "off"
  /\ conn' = [conn EXCEPT ![c] = FALSE]
  /\ UNCHANGED <<roomVars, pump, roomOf, buf, closed, writer, joins, hubVars, panic>>

Reads(c) == pump[c].at = "idle" /\ conn[c]

(* handleJoinRoom: the lookup under the lock, and Room.State read without  *)
(* one, decide between an error and the blocking send to room.register.    *)
ReadJoin(c, k) ==
  /\ Running
  /\ Reads(c) /\ joins[c] < MaxJoins
  /\ joins' = [joins EXCEPT ![c] = joins[c] + 1]
  /\ pump' = [pump EXCEPT ![c] =
                IF rooms[k] # NoRoom /\ state[rooms[k]] = "WAITING"
                THEN Pump("join", rooms[k], NoReq)
                ELSE Pump("error", NoRoom, NoReq)]
  /\ UNCHANGED <<roomVars, roomOf, buf, closed, writer, conn, hubVars, panic>>

(* handleCreateRoom: create, then look the code up again ... *)
ReadCreate(c, r) ==
  /\ Reads(c) /\ joins[c] < MaxJoins
  /\ joins' = [joins EXCEPT ![c] = joins[c] + 1]
  /\ NewRoom(r, UserOf[c])
  /\ pump' = [pump EXCEPT ![c] = Pump("created", r, NoReq)]
  /\ UNCHANGED <<state, clients, players, ending, roomOf, buf, closed, writer, conn,
                 hub, hubClients, panic>>

(* ... and join what is found there. *)
AutoJoin(c) ==
  /\ Running
  /\ pump[c].at = "created"
  /\ pump' = [pump EXCEPT ![c] = LET r == rooms[CodeOf[pump[c].room]]
                                 IN IF r = NoRoom THEN Idle ELSE Pump("join", r, NoReq)]
  /\ UNCHANGED <<roomVars, roomOf, buf, closed, writer, conn, joins, hubVars, panic>>

(* The default case of handleMessage, and handleRoomMessage up to its send *)
(* on r.action.                                                            *)
ReadAction(c, q) ==
  /\ Running
  /\ Reads(c) /\ roomOf[c] # NoRoom
  /\ pump' = [pump EXCEPT ![c] = Pump("act", roomOf[c], q)]
  /\ UNCHANGED <<roomVars, roomOf, buf, closed, writer, conn, joins, hubVars, panic>>

(* The 100 ms of that send are over: the action is dropped. *)
ActTimeout(c) ==
  /\ Running
  /\ pump[c].at = "act"
  /\ pump' = [pump EXCEPT ![c] = Idle]
  /\ UNCHANGED <<roomVars, roomOf, buf, closed, writer, conn, joins, hubVars, panic>>

(* c.Send <- ERROR in readPump: it waits for room in the queue, and panics *)
(* if the channel is closed, even while it waits.                          *)
SendError(c) ==
  /\ Running
  /\ pump[c].at = "error" /\ (closed[c] \/ ~Full(c))
  /\ pump' = [pump EXCEPT ![c] = Idle]
  /\ buf' = [buf EXCEPT ![c] = IF closed[c] THEN buf[c] ELSE Append(buf[c], ErrorMsg)]
  /\ panic' = IF closed[c] THEN "send" ELSE panic
  /\ UNCHANGED <<roomVars, roomOf, closed, writer, conn, joins, hubVars>>

(* ReadMessage fails: the deferred send to hub.unregister. *)
\* Mutant: readPump returns without telling the hub.
ReadFailSilently(c) ==
  /\ Running
  /\ pump[c].at = "idle" /\ ~conn[c]
  /\ pump' = [pump EXCEPT ![c] = Pump("gone", NoRoom, NoReq)]
  /\ UNCHANGED <<roomVars, roomOf, buf, closed, writer, conn, joins, hubVars, panic>>

ReadFail(c) ==
  /\ Running
  /\ pump[c].at = "idle" /\ ~conn[c]
  /\ pump' = [pump EXCEPT ![c] = Pump("quit", NoRoom, NoReq)]
  /\ UNCHANGED <<roomVars, roomOf, buf, closed, writer, conn, joins, hubVars, panic>>

(* writePump writes every queued message into one text frame. *)
WriteFrame(c) ==
  /\ Running
  /\ writer[c] = "run" /\ conn[c] /\ buf[c] # <<>>
  /\ buf' = [buf EXCEPT ![c] = <<>>]
  /\ UNCHANGED <<roomVars, pump, roomOf, closed, writer, conn, joins, hubVars, panic>>

(* It returns, closing the connection, on a write error or when it finds   *)
(* Send closed and drained.                                                *)
WriterExit(c) ==
  /\ Running
  /\ writer[c] = "run" /\ (~conn[c] \/ (closed[c] /\ buf[c] = <<>>))
  /\ writer' = [writer EXCEPT ![c] = "done"]
  /\ conn' = [conn EXCEPT ![c] = FALSE]
  /\ UNCHANGED <<roomVars, pump, roomOf, buf, closed, joins, hubVars, panic>>
=============================================================================
