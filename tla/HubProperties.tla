---------------------------- MODULE HubProperties ----------------------------
(***************************************************************************)
(* What the battle server should guarantee, stated over Hub.               *)
(***************************************************************************)
EXTENDS Hub

Alive(r) == loop[r].at \notin {"unborn", "closing", "closed"}
Dead(r)  == loop[r].at \in {"closing", "closed"}

(* The hub hands a leaving connection to its room with a blocking send     *)
(* (hub.go:52).  The room it waits for has that connection among its       *)
(* clients and is still running, so one dead room never blocks the only    *)
(* goroutine that admits and releases connections.                         *)
HubNeverWedged ==
  Running /\ hub.at = "leave" =>
    /\ hub.client \in clients[hub.room]
    /\ Alive(hub.room)

(* The grace timer runs only over an empty room, and only an empty room    *)
(* ends (room.go:87-93, 120-124, 145-147): nobody is left in a dead room.  *)
RoomDiesEmpty == \A r \in Rooms : timer[r] \/ ~Alive(r) => clients[r] = {}

(* A connection that has asked to join once, as the page does, is in the   *)
(* client set of a running room with its queue already closed only while   *)
(* the hub is handing it over (hub.go:50-52 to room.go:108-110), whatever  *)
(* connections that join several rooms do.                                 *)
ClosedOnlyInHandOff ==
  Running => \A r \in Rooms : \A c \in clients[r] :
    closed[c] /\ joins[c] <= 1 => \/ hub = Hub("leave", c, r)
                                  \/ loop[r].at = "unregister" /\ loop[r].client = c

(* The process dies in three ways only, as long as a connection joins      *)
(* once: a room broadcasts to a connection that the hub is about to hand   *)
(* over to it; it admits one that the hub has already released; or it has  *)
(* closed a full queue, and readPump or the hub uses that queue again      *)
(* (hub.go:50-52, 138-143, room.go:105-106, 297-299).                      *)
PanicIsExplained ==
  [][Running /\ ~Running' =>
       \E c \in Clients : closed[c] /\
         \/ joins[c] > 1
         \/ \E r \in Rooms : /\ loop[r].at # "select"
                             /\ \/ hub = Hub("leave", c, r)
                                \/ loop[r].at = "register" /\ loop[r].client = c
         \/ pump[c].at \in {"error", "quit"} /\ \A r \in Rooms : c \notin clients[r]]_vars

(* Every change of a room's state or players is broadcast, and messages    *)
(* queue in that order: the last message in the open queue of a connection *)
(* of the room shows the room as it is now (room.go:106, 118, 142, 200,    *)
(* 248).                                                                   *)
LastMsg(c) == buf[c][Len(buf[c])]

QueueIsCurrent ==
  \A r \in Rooms : \A c \in clients[r] :
    ~closed[c] /\ buf[c] # <<>> /\ LastMsg(c).room = r =>
      /\ LastMsg(c).state = state[r]
      /\ LastMsg(c).type # "GAME_STARTED" => LastMsg(c).players = players[r]

(* Nobody sees the game go on after its end: no GAME_STARTED, SCORE_UPDATE *)
(* or second GAME_OVER of a room is queued behind its GAME_OVER.           *)
GameOverIsLast ==
  \A c \in Clients : \A i, j \in DOMAIN buf[c] :
    /\ i < j
    /\ buf[c][i].type = "GAME_OVER"
    /\ buf[c][j].room = buf[c][i].room
    => buf[c][j].type = "ROOM_STATE" /\ buf[c][j].state = "FINISHED"

(* The lobby's list is who is there: a user who is listed has a member, or *)
(* a connection whose queue was full and that the hub has not released     *)
(* yet; and a member is listed unless its user has another connection,     *)
(* whose leaving took the entry of both (room.go:97-104, 113-116, 299-300).*)
Listed(r, u) == players[r][u] # Absent
Alone(c) == \A d \in Clients : UserOf[d] = UserOf[c] => d = c

LobbyIsExact ==
  \A r \in Rooms :
    /\ \A c \in clients[r] : Alone(c) => Listed(r, UserOf[c])
    /\ Running /\ state[r] = "WAITING" =>
         \A u \in Users : Listed(r, u) =>
           \E c \in Clients : UserOf[c] = u /\ (c \in clients[r] \/ (closed[c] /\ c \in hubClients))

(* The map of the hub leads only to rooms that run or are about to be      *)
(* removed, under their own codes, and to each of them whose code no other *)
(* room has drawn yet (hub.go:94-98, 151-155, room.go:75-79).              *)
InMap(r) == loop[r].at \notin {"unborn", "closed"}

CodesLeadToRooms ==
  /\ \A k \in Codes : rooms[k] # NoRoom => CodeOf[rooms[k]] = k /\ InMap(rooms[k])
  /\ \A r \in Rooms :
       /\ InMap(r)
       /\ \A q \in Rooms \ {r} : CodeOf[q] = CodeOf[r] => loop[q].at = "unborn"
       => rooms[CodeOf[r]] = r

(* Each room keeps the promise of Match: it starts as Match does and each  *)
(* step of the server is a step of Match for it, or changes nothing of it. *)
Phase(r) == IF loop[r].at = "unborn" THEN "none"
            ELSE IF Dead(r) THEN "gone" ELSE state[r]

M(r) == INSTANCE Match WITH
          phase <- Phase(r), members <- clients[r], players <- players[r], host <- host[r]

MatchStep(r) == M(r)!MatchNext \/ UNCHANGED M(r)!matchVars

RoomsKeepMatch ==
  /\ \A r \in Rooms : M(r)!MatchInit
  /\ [][\A r \in Rooms : MatchStep(r)]_vars

---------------------------------------------------------------------------
(* Fairness.  Goroutines that can run do run.  A sender on an unbuffered    *)
(* channel of a room waits in a first-in first-out queue, and the room's    *)
(* select chooses at random among its ready cases: a hand-off that is       *)
(* possible again and again happens.  The hub has finitely many connections *)
(* to admit and release, so weak fairness serves it.  Nothing is assumed of *)
(* the peers: they need not ask, leave or stay.                             *)
Fairness ==
  /\ WF_vars(HubRun)
  /\ \A c \in Clients :
       /\ WF_vars((AutoJoin(c) \/ SendError(c) \/ ReadFail(c) \/ ActTimeout(c)))
       /\ WF_vars(WritePump(c))
  /\ \A r \in Rooms :
       /\ \A c \in Clients : SF_vars(TakeRegister(r, c))
       /\ SF_vars(TakeUnregister(r))
       /\ WF_vars((RoomLoop(r) \/ ShutdownFires(r)))
       /\ WF_vars(FinishSignal(r))

FairSpec == Spec /\ Fairness

(* A connection that asks to join gets in, unless the room ended before it *)
(* was received or the process died (hub.go:148, room.go:86).              *)
JoinIsAnswered ==
  \A c \in Clients, r \in Rooms :
    pump[c] = Pump("join", r, NoReq) ~> (pump[c].at # "join" \/ Dead(r) \/ ~Running)

(* readPump waits for ever: for a room that has ended, or for its own full *)
(* queue that writePump has left behind (hub.go:138, 143, 148,             *)
(* client.go:77-91).                                                       *)
Stranded(c) ==
  \/ pump[c].at = "join" /\ Dead(pump[c].room)
  \/ pump[c].at = "error" /\ ~closed[c] /\ Full(c) /\ writer[c] = "done"

(* A room left by everybody goes away, unless somebody comes back or the   *)
(* process dies: its timer is armed, or it is empty because it dropped its *)
(* last connection without arming it, which brings the process down unless *)
(* that connection is stranded elsewhere and never given back              *)
(* (room.go:120-124, 299-300).                                             *)
EmptyRoomGoesAway ==
  \A r \in Rooms :
    (Alive(r) /\ clients[r] = {}) ~>
      (Dead(r) \/ clients[r] # {} \/ ~Running \/ \E c \in Clients : closed[c] /\ Stranded(c))

(* The hub releases every connection that broke, however often it joined,  *)
(* unless its readPump is stranded or the process died (client.go:39-42,   *)
(* hub.go:47-54).                                                          *)
BrokenIsReleased ==
  \A c \in Clients :
    (c \in hubClients /\ ~conn[c]) ~> (c \notin hubClients \/ ~Running \/ Stranded(c))

---------------------------------------------------------------------------
(* What the repository says of the server, and the code does not do.       *)

(* "Game already in progress" (hub.go:143): no connection enters a room    *)
(* whose game has started.                                                 *)
NoLateEntry ==
  [][\A r \in Rooms : clients'[r] \subseteq clients[r] \/ state[r] = "WAITING"]_vars

(* "Start timer to end game", "Signal Run loop to finish game safely"      *)
(* (room.go:203, 211): a started game ends, unless its room or the process *)
(* ends first.                                                             *)
GameEnds ==
  \A r \in Rooms : state[r] = "PLAYING" ~> (state[r] = "FINISHED" \/ Dead(r) \/ ~Running)

(* "If in lobby (WAITING), remove from player list so UI updates"          *)
(* (room.go:113): who leaves a lobby leaves its list.                      *)
LeaverIsUnlisted ==
  \A c \in Clients, r \in Rooms :
    (hub = Hub("leave", c, r) /\ state[r] = "WAITING") ~>
      ((c \notin clients[r] /\ ~Listed(r, UserOf[c])) \/ state[r] # "WAITING")
=============================================================================
