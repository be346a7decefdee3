-------------------------------- MODULE Room --------------------------------
(***************************************************************************)
(* The Run goroutine of a room (backend/internal/game/room.go).  Its       *)
(* channels are unbuffered: an event is received only while the loop is at *)
(* its select (the Take steps, ShutdownFires, FinishSignal) and is handled *)
(* to the end in a step of its own (the Handle steps), so that what other  *)
(* goroutines do while the loop is busy can be told from what they do      *)
(* while it waits.                                                         *)
(***************************************************************************)
EXTENDS GameState

(* Hub.CreateRoom: an unused *Room, its code drawn, stored over whatever   *)
(* room has the code, and its loop started with the grace timer running.   *)
NewRoom(r, u) ==
  /\ Running
  /\ loop[r].at = "unborn"
  /\ loop' = [loop EXCEPT ![r] = AtSelect]
  /\ host' = [host EXCEPT ![r] = u]
  /\ timer' = [timer EXCEPT ![r] = TRUE]
  /\ rooms' = [rooms EXCEPT ![CodeOf[r]] = r]

(* case client := <-r.register *)
\* Mutant: the case is disabled once the game has started.
TakeRegisterInLobby(r, c) ==
  /\ Running
  /\ loop[r].at = "select" /\ state[r] = "WAITING"
  /\ pump[c].at = "join" /\ pump[c].room = r
  /\ loop' = [loop EXCEPT ![r] = Loop("register", c, NoReq)]
  /\ pump' = [pump EXCEPT ![c] = Idle]
  /\ UNCHANGED <<state, clients, players, host, timer, ending,
                 roomOf, buf, closed, writer, conn, joins, hubVars, panic>>

TakeRegister(r, c) ==
  /\ Running
  /\ loop[r].at = "select"
  /\ pump[c].at = "join" /\ pump[c].room = r
  /\ loop' = [loop EXCEPT ![r] = Loop("register", c, NoReq)]
  /\ pump' = [pump EXCEPT ![c] = Idle]
  /\ UNCHANGED <<state, clients, players, host, timer, ending,
                 roomOf, buf, closed, writer, conn, joins, hubVars, panic>>

HandleRegister(r) ==
  LET c == loop[r].client
      u == UserOf[c]
      P == IF players[r][u] = Absent THEN [players[r] EXCEPT ![u] = 0] ELSE players[r]
  IN /\ Running
     /\ loop[r].at = "register"
     /\ timer' = [timer EXCEPT ![r] = FALSE]
     /\ players' = [players EXCEPT ![r] = P]
     /\ roomOf' = [roomOf EXCEPT ![c] = r]
     /\ Broadcast(r, clients[r] \cup {c}, RoomState(r, P))
     /\ loop' = [loop EXCEPT ![r] = AtSelect]
     /\ UNCHANGED <<state, host, ending, pump, writer, conn, joins, hubVars>>

(* case client := <-r.unregister; the sender is the hub, which may go on. *)
TakeUnregister(r) ==
  /\ Running
  /\ loop[r].at = "select"
  /\ hub.at = "leave" /\ hub.room = r
  /\ loop' = [loop EXCEPT ![r] = Loop("unregister", hub.client, NoReq)]
  /\ hub' = HubAtSelect
  /\ UNCHANGED <<state, clients, players, host, timer, ending,
                 clientVars, hubClients, rooms, panic>>

(* The players once c has left, and the timer of a room left with the      *)
(* clients K.                                                              *)
\* Mutants: the player stays listed; the timer is reset in any case, or never.
ListKept(r, c) == players[r]
ListWithout(r, c) == IF state[r] = "WAITING"
                     THEN [players[r] EXCEPT ![UserOf[c]] = Absent] ELSE players[r]

TimerAlways(r, K) == TRUE
TimerNever(r, K) == timer[r]
TimerAfterLeave(r, K) == timer[r] \/ K = {}

HandleUnregister(r) ==
  LET c == loop[r].client
      P == ListWithout(r, c)
  IN /\ Running
     /\ loop[r].at = "unregister"
     /\ loop' = [loop EXCEPT ![r] = AtSelect]
     /\ IF c \in clients[r]
        THEN /\ roomOf' = [roomOf EXCEPT ![c] = NoRoom]
             /\ players' = [players EXCEPT ![r] = P]
             /\ Broadcast(r, clients[r] \ {c}, RoomState(r, P))
             /\ timer' = [timer EXCEPT ![r] = TimerAfterLeave(r, clients'[r])]
        ELSE UNCHANGED <<roomOf, players, clients, closed, buf, panic, timer>>
     /\ UNCHANGED <<state, host, ending, pump, writer, conn, joins, hubVars>>

(* case action := <-r.action *)
TakeAction(r, c) ==
  /\ Running
  /\ loop[r].at = "select"
  /\ pump[c].at = "act" /\ pump[c].room = r
  /\ loop' = [loop EXCEPT ![r] = Loop("action", c, pump[c].req)]
  /\ pump' = [pump EXCEPT ![c] = Idle]
  /\ UNCHANGED <<state, clients, players, host, timer, ending,
                 roomOf, buf, closed, writer, conn, joins, hubVars, panic>>

(* The START_GAME closure and startGame, which also starts the goroutine *)
(* that sleeps for Duration.                                              *)
MayStart(r, c) == UserOf[c] = host[r] /\ state[r] = "WAITING"

HandleStart(r) ==
  /\ Running
  /\ loop[r].at = "action" /\ loop[r].req.type = "START_GAME"
  /\ loop' = [loop EXCEPT ![r] = AtSelect]
  /\ IF MayStart(r, loop[r].client)
     THEN /\ state' = [state EXCEPT ![r] = "PLAYING"]
          /\ ending' = [ending EXCEPT ![r] = "sleeping"]
          /\ Broadcast(r, clients[r], GameStarted(r))
     ELSE UNCHANGED <<state, ending, clients, closed, buf, panic>>
  /\ UNCHANGED <<players, host, timer, pump, roomOf, writer, conn, joins, hubVars>>

(* The SUBMIT_SCORE closure.  The client names itself: its own entry only. *)
\* Mutants: a score is taken in any state; any score is taken.
MayScoreAnyTime(r, c, s) == s \in 0..MaxScore /\ players[r][UserOf[c]] # Absent
MayScoreAny(r, c, s) == state[r] = "PLAYING" /\ players[r][UserOf[c]] # Absent

MayScore(r, c, s) ==
  /\ state[r] = "PLAYING"
  /\ s \in 0..MaxScore
  /\ players[r][UserOf[c]] # Absent

HandleScore(r) ==
  LET c == loop[r].client
      s == loop[r].req.score
      P == [players[r] EXCEPT ![UserOf[c]] = s]
  IN /\ Running
     /\ loop[r].at = "action" /\ loop[r].req.type = "SUBMIT_SCORE"
     /\ loop' = [loop EXCEPT ![r] = AtSelect]
     /\ IF MayScore(r, c, s)
        THEN /\ players' = [players EXCEPT ![r] = P]
             /\ Broadcast(r, clients[r], ScoreUpdate(r, P))
        ELSE UNCHANGED <<players, clients, closed, buf, panic>>
     /\ UNCHANGED <<state, host, timer, ending, pump, roomOf, writer, conn, joins, hubVars>>

(* finishGame: the sleep is over and the signal is offered once, without   *)
(* blocking; a loop that is not at its select does not get it.             *)
FinishSignal(r) ==
  /\ Running
  /\ ending[r] = "sleeping"
  /\ ending' = [ending EXCEPT ![r] = "over"]
  /\ loop' = IF loop[r].at = "select"
             THEN [loop EXCEPT ![r] = Loop("finish", NoClient, NoReq)] ELSE loop
  /\ UNCHANGED <<state, clients, players, host, timer, clientVars, hubVars, panic>>

(* case <-r.timeFinished *)
HandleFinish(r) ==
  /\ Running
  /\ loop[r].at = "finish"
  /\ loop' = [loop EXCEPT ![r] = AtSelect]
  /\ IF state[r] = "PLAYING"
     THEN /\ state' = [state EXCEPT ![r] = "FINISHED"]
          /\ Broadcast(r, clients[r], GameOver(r))
     ELSE UNCHANGED <<state, clients, closed, buf, panic>>
  /\ UNCHANGED <<players, host, timer, ending, pump, roomOf, writer, conn, joins, hubVars>>

(* case <-shutdownTimer.C: the loop returns ... *)
\* Mutant: a stopped timer fires all the same.
ShutdownFiresStopped(r) ==
  /\ Running
  /\ loop[r].at = "select"
  /\ timer' = [timer EXCEPT ![r] = FALSE]
  /\ loop' = [loop EXCEPT ![r] = Loop("closing", NoClient, NoReq)]
  /\ UNCHANGED <<state, clients, players, host, ending, clientVars, hubVars, panic>>

ShutdownFires(r) ==
  /\ Running
  /\ loop[r].at = "select" /\ timer[r]
  /\ timer' = [timer EXCEPT ![r] = FALSE]
  /\ loop' = [loop EXCEPT ![r] = Loop("closing", NoClient, NoReq)]
  /\ UNCHANGED <<state, clients, players, host, ending, clientVars, hubVars, panic>>

(* ... and the deferred closeRoom deletes the code, whichever room has it. *)
\* Mutant: the code is not deleted.
CloseRoomKeepsCode(r) ==
  /\ Running
  /\ loop[r].at = "closing"
  /\ loop' = [loop EXCEPT ![r] = Loop("closed", NoClient, NoReq)]
  /\ UNCHANGED <<state, clients, players, host, timer, ending, clientVars, hubVars, panic>>

CloseRoom(r) ==
  /\ Running
  /\ loop[r].at = "closing"
  /\ loop' = [loop EXCEPT ![r] = Loop("closed", NoClient, NoReq)]
  /\ rooms' = [rooms EXCEPT ![CodeOf[r]] = NoRoom]
  /\ UNCHANGED <<state, clients, players, host, timer, ending, clientVars,
                 hub, hubClients, panic>>

RoomLoop(r) ==
  \/ HandleRegister(r) \/ HandleUnregister(r)
  \/ HandleStart(r) \/ HandleScore(r) \/ HandleFinish(r) \/ CloseRoom(r)
=============================================================================
