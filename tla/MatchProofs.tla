----------------------------- MODULE MatchProofs -----------------------------
(***************************************************************************)
(* Every room of Hub implements Match, for every value of the constants.   *)
(***************************************************************************)
EXTENDS HubProofs

LEMMA MatchInitHolds == Init => \A r \in Rooms : M(r)!MatchInit
  BY DEF Init, M!MatchInit, Phase, Loop, NoPlayers, Dead

(* A step that leaves the room's phase and tables alone stutters for it. *)
LEMMA Stutter ==
  ASSUME NEW q \in Rooms, Phase(q)' = Phase(q), clients'[q] = clients[q],
         players'[q] = players[q], host'[q] = host[q]
  PROVE  MatchStep(q)
  BY DEF MatchStep, M!matchVars

LEMMA OtherRoom ==
  ASSUME Typed, NEW r \in Rooms, NEW q \in Rooms, q # r, NEW l,
         loop' = [loop EXCEPT ![r] = l],
         state'[q] = state[q], clients'[q] = clients[q],
         players'[q] = players[q], host'[q] = host[q]
  PROVE  MatchStep(q)
  BY Stutter DEF Phase, Dead, Typed, TypeOK

(* Nothing in a room's tables changes while it waits for an event, passes  *)
(* on from its select to one, or is offered one.                           *)
LEMMA QuietStep ==
  ASSUME Typed, NEW q \in Rooms, UNCHANGED <<state, clients, players, host>>,
         NEW r \in Rooms, NEW l, loop' = [loop EXCEPT ![r] = l],
         \/ Alive(r) /\ l.at \in {"select", "register", "unregister", "action", "finish"}
         \/ Dead(r) /\ l.at \in {"closing", "closed"}
  PROVE  MatchStep(q)
<1>1. Phase(q)' = Phase(q)
  BY DEF Phase, Dead, Alive, Typed, TypeOK
<1> QED
  BY <1>1, Stutter

---------------------------------------------------------------------------
(* A room that is not created yet is in the lobby state. *)
Fresh == \A r \in Rooms : loop[r].at = "unborn" => state[r] = "WAITING"

MInv == IInv /\ Fresh

LEMMA FreshStep == IInv /\ Fresh /\ [Next]_vars => Fresh'
<1> SUFFICES ASSUME IInv, Fresh, [Next]_vars PROVE Fresh'
  OBVIOUS
<1>1. TypeOK
  BY DEF IInv, Typed
<1>2. CASE UNCHANGED <<loop, state>>
  BY <1>2 DEF Fresh
<1>3. ASSUME NEW r \in Rooms, NEW l, loop' = [loop EXCEPT ![r] = l], l.at # "unborn",
             \A q \in Rooms \ {r} : state'[q] = state[q]
      PROVE  Fresh'
  BY <1>1, <1>3 DEF Fresh, TypeOK
<1>4. ASSUME NEW r \in Rooms, NEW c \in Clients, TakeRegister(r, c) \/ TakeAction(r, c)
      PROVE  Fresh'
  BY <1>3, <1>4 DEF TakeRegister, TakeAction, Loop
<1>5. ASSUME NEW r \in Rooms, TakeUnregister(r) \/ ShutdownFires(r) \/ CloseRoom(r)
      PROVE  Fresh'
  BY <1>3, <1>5 DEF TakeUnregister, ShutdownFires, CloseRoom, Loop
<1>6. ASSUME NEW r \in Rooms, FinishSignal(r)
      PROVE  Fresh'
  BY <1>2, <1>3, <1>6 DEF FinishSignal, Loop
<1>7. ASSUME NEW r \in Rooms,
             HandleRegister(r) \/ HandleUnregister(r) \/ HandleStart(r)
               \/ HandleScore(r) \/ HandleFinish(r)
      PROVE  Fresh'
  <2>1. loop' = [loop EXCEPT ![r] = AtSelect] /\ AtSelect.at # "unborn"
    BY <1>7 DEF HandleRegister, HandleUnregister, HandleStart, HandleScore, HandleFinish,
                AtSelect, Loop
  <2>2. \A q \in Rooms \ {r} : state'[q] = state[q]
    BY <1>1, <1>7 DEF HandleRegister, HandleUnregister, HandleStart, HandleScore, HandleFinish,
                      TypeOK
  <2> QED
    BY <1>3, <2>1, <2>2
<1>8. ASSUME NEW r \in Rooms, NEW u, NewRoom(r, u), UNCHANGED state
      PROVE  Fresh'
  <2>1. loop' = [loop EXCEPT ![r] = AtSelect] /\ AtSelect.at # "unborn"
    BY <1>8 DEF NewRoom, AtSelect, Loop
  <2> QED
    BY <1>3, <1>8, <2>1
<1>9. ASSUME NEW c \in Clients,
             Dial(c) \/ Disconnect(c) \/ WritePump(c) \/ HubRegister(c) \/ HubUnregister(c)
      PROVE  Fresh'
  BY <1>2, <1>9 DEF Dial, Disconnect, WritePump, WriteFrame, WriterExit, HubRegister,
                    HubUnregister, roomVars
<1>10. ASSUME NEW c \in Clients, ReadPump(c)
       PROVE  Fresh'
  <2>1. ASSUME NEW r \in Rooms, ReadCreate(c, r) PROVE Fresh'
    BY <1>8, <2>1 DEF ReadCreate
  <2>2. CASE UNCHANGED roomVars
    BY <1>2, <2>2 DEF roomVars
  <2> QED
    BY <1>10, <2>1, <2>2 DEF ReadPump, ReadJoin, AutoJoin, ReadAction, ActTimeout, SendError,
                             ReadFail
<1>11. ASSUME NEW r \in Rooms, NEW u \in Users, CreateRoom(r, u) PROVE Fresh'
  BY <1>8, <1>11 DEF CreateRoom
<1>12. CASE UNCHANGED vars
  BY <1>2, <1>12 DEF vars, roomVars
<1> QED
  BY <1>4, <1>5, <1>6, <1>7, <1>9, <1>10, <1>11, <1>12 DEF Next, HubRun, RoomTakes, RoomLoop

---------------------------------------------------------------------------
(* The steps that do change a room, one by one. *)
LEMMA CreateIsMatch ==
  ASSUME MInv, NEW q \in Rooms, NEW r \in Rooms, NEW u \in Users, NewRoom(r, u),
         UNCHANGED <<state, clients, players>>
  PROVE  MatchStep(q)
<1>1. loop' = [loop EXCEPT ![r] = AtSelect] /\ host' = [host EXCEPT ![r] = u]
  BY DEF NewRoom
<1>2. TypeOK
  BY DEF MInv, IInv, Typed
<1>3. CASE q = r
  <2>1. Phase(q) = "none" /\ Phase(q)' = "WAITING"
    BY <1>1, <1>2, <1>3 DEF NewRoom, Phase, Dead, MInv, Fresh, TypeOK, AtSelect, Loop
  <2>2. M(q)!Create(u)
    BY <1>1, <1>2, <1>3, <2>1 DEF M!Create, TypeOK
  <2> QED
    BY <2>2 DEF MatchStep, M!MatchNext
<1>4. CASE q # r
  BY <1>1, <1>2, <1>4, OtherRoom DEF MInv, IInv, TypeOK
<1> QED
  BY <1>3, <1>4

LEMMA ShutdownIsMatch ==
  ASSUME MInv, NEW q \in Rooms, NEW r \in Rooms, ShutdownFires(r)
  PROVE  MatchStep(q)
<1>1. TypeOK /\ RoomDiesEmpty
  BY DEF MInv, IInv, Typed
<1>2. loop' = [loop EXCEPT ![r] = Loop("closing", NoClient, NoReq)]
      /\ UNCHANGED <<state, clients, players, host>>
  BY DEF ShutdownFires
<1>3. CASE q = r
  <2>1. Phase(q) \in States /\ Phase(q)' = "gone"
    BY <1>1, <1>2, <1>3 DEF ShutdownFires, Phase, Dead, TypeOK, Loop
  <2>2. clients[q] = {}
    BY <1>1, <1>3 DEF ShutdownFires, RoomDiesEmpty
  <2>3. M(q)!GoAway
    BY <1>2, <2>1, <2>2 DEF M!GoAway, M!Open, States
  <2> QED
    BY <2>3 DEF MatchStep, M!MatchNext
<1>4. CASE q # r
  BY <1>1, <1>2, <1>4, OtherRoom DEF MInv, IInv
<1> QED
  BY <1>3, <1>4

LEMMA BroadcastMembers ==
  ASSUME TypeOK, NEW r \in Rooms, NEW K \in SUBSET Clients, NEW m, Broadcast(r, K, m)
  PROVE  clients'[r] \subseteq K /\ \A q \in Rooms \ {r} : clients'[q] = clients[q]
  BY DEF Broadcast, TypeOK

LEMMA HandleIsMatch ==
  ASSUME MInv, NEW q \in Rooms, NEW r \in Rooms,
         HandleRegister(r) \/ HandleUnregister(r) \/ HandleStart(r)
           \/ HandleScore(r) \/ HandleFinish(r)
  PROVE  MatchStep(q)
<1> DEFINE c == loop[r].client
<1>1. TypeOK /\ Placed /\ Typed
  BY DEF MInv, IInv, Typed
<1>2. /\ loop' = [loop EXCEPT ![r] = AtSelect]
      /\ loop[r].at \in {"register", "unregister", "action", "finish"}
      /\ UNCHANGED host
  BY DEF HandleRegister, HandleUnregister, HandleStart, HandleScore, HandleFinish
<1>3. Phase(r) = state[r] /\ Phase(r)' = state'[r] /\ state[r] \in States
  BY <1>1, <1>2 DEF Phase, Dead, AtSelect, Loop, TypeOK
<1>4. CASE q # r
  <2>1. state'[q] = state[q] /\ players'[q] = players[q]
    BY <1>1, <1>4 DEF HandleRegister, HandleUnregister, HandleStart, HandleScore, HandleFinish,
                      TypeOK
  <2>2. clients'[q] = clients[q]
    BY <1>1, <1>4 DEF HandleRegister, HandleUnregister, HandleStart, HandleScore, HandleFinish,
                      Broadcast, TypeOK
  <2> QED
    BY <1>1, <1>2, <1>4, <2>1, <2>2, OtherRoom
<1>5. CASE q = r /\ HandleRegister(r)
  <2>1. c \in Clients
    BY <1>1, <1>5 DEF HandleRegister, Placed
  <2>2. clients'[r] \subseteq clients[r] \cup {c}
    <3>1. clients[r] \cup {c} \in SUBSET Clients
      BY <1>1, <2>1 DEF TypeOK
    <3>2. \E m : Broadcast(r, clients[r] \cup {c}, m)
      BY <1>5 DEF HandleRegister
    <3> QED
      BY <1>1, <3>1, <3>2, BroadcastMembers
  <2>3. players'[r] = IF players[r][UserOf[c]] = Absent
                      THEN [players[r] EXCEPT ![UserOf[c]] = 0] ELSE players[r]
    BY <1>1, <1>5 DEF HandleRegister, TypeOK
  <2>4. M(r)!Enter(c)
    BY <1>2, <1>3, <1>5, <2>2, <2>3 DEF HandleRegister, M!Enter, M!Open, States
  <2> QED
    BY <1>5, <2>1, <2>4 DEF MatchStep, M!MatchNext
<1>6. CASE q = r /\ HandleUnregister(r) /\ c \in clients[r]
  <2>1. c \in Clients
    BY <1>1, <1>6 DEF HandleUnregister, Placed
  <2>2. clients'[r] \subseteq clients[r] \ {c}
    BY <1>1, <1>6, BroadcastMembers DEF HandleUnregister, TypeOK
  <2>3. players'[r] = IF state[r] = "WAITING"
                      THEN [players[r] EXCEPT ![UserOf[c]] = Absent] ELSE players[r]
    BY <1>1, <1>6 DEF HandleUnregister, ListWithout, TypeOK
  <2>4. M(r)!Leave(c)
    BY <1>2, <1>3, <1>6, <2>2, <2>3 DEF HandleUnregister, M!Leave, M!Open, States
  <2> QED
    BY <1>6, <2>1, <2>4 DEF MatchStep, M!MatchNext
<1>7. CASE q = r /\ HandleUnregister(r) /\ c \notin clients[r]
  BY <1>2, <1>3, <1>7, Stutter DEF HandleUnregister
<1>8. CASE q = r /\ HandleStart(r) /\ MayStart(r, c)
  <2>1. c \in Clients
    BY <1>1, <1>8 DEF HandleStart, Placed
  <2>2. clients'[r] \subseteq clients[r]
    BY <1>1, <1>8, BroadcastMembers DEF HandleStart, TypeOK
  <2>3. state'[r] = "PLAYING"
    BY <1>1, <1>8 DEF HandleStart, TypeOK
  <2>4. M(r)!Start(c)
    BY <1>2, <1>3, <1>8, <2>2, <2>3 DEF HandleStart, MayStart, M!Start
  <2> QED
    BY <1>8, <2>1, <2>4 DEF MatchStep, M!MatchNext
<1>9. CASE q = r /\ HandleStart(r) /\ ~MayStart(r, c)
  BY <1>2, <1>3, <1>9, Stutter DEF HandleStart
<1>10. CASE q = r /\ HandleScore(r) /\ MayScore(r, c, loop[r].req.score)
  <2> DEFINE s == loop[r].req.score
  <2>1. c \in Clients
    BY <1>1, <1>10 DEF HandleScore, Placed
  <2>2. clients'[r] \subseteq clients[r]
    BY <1>1, <1>10, BroadcastMembers DEF HandleScore, TypeOK
  <2>3. players'[r] = [players[r] EXCEPT ![UserOf[c]] = s]
    BY <1>1, <1>10 DEF HandleScore, TypeOK
  <2>4. s \in 0..MaxScore /\ state[r] = "PLAYING" /\ players[r][UserOf[c]] # Absent
    BY <1>10 DEF MayScore
  <2>5. M(r)!Score(c, s)
    BY <1>2, <1>3, <1>10, <2>2, <2>3, <2>4 DEF HandleScore, M!Score
  <2> QED
    BY <1>10, <2>1, <2>4, <2>5 DEF MatchStep, M!MatchNext
<1>11. CASE q = r /\ HandleScore(r) /\ ~MayScore(r, c, loop[r].req.score)
  BY <1>2, <1>3, <1>11, Stutter DEF HandleScore
<1>12. CASE q = r /\ HandleFinish(r) /\ state[r] = "PLAYING"
  <2>1. clients'[r] \subseteq clients[r]
    BY <1>1, <1>12, BroadcastMembers DEF HandleFinish, TypeOK
  <2>2. state'[r] = "FINISHED"
    BY <1>1, <1>12 DEF HandleFinish, TypeOK
  <2>3. M(r)!Finish
    BY <1>2, <1>3, <1>12, <2>1, <2>2 DEF HandleFinish, M!Finish
  <2> QED
    BY <1>12, <2>3 DEF MatchStep, M!MatchNext
<1>13. CASE q = r /\ HandleFinish(r) /\ state[r] # "PLAYING"
  BY <1>2, <1>3, <1>13, Stutter DEF HandleFinish
<1> QED
  BY <1>4, <1>5, <1>6, <1>7, <1>8, <1>9, <1>10, <1>11, <1>12, <1>13

LEMMA NextIsMatch == MInv /\ [Next]_vars => \A q \in Rooms : MatchStep(q)
<1> SUFFICES ASSUME MInv, [Next]_vars, NEW q \in Rooms PROVE MatchStep(q)
  OBVIOUS
<1>1. Typed
  BY DEF MInv, IInv
<1>2. ASSUME NEW r \in Rooms, NEW c \in Clients, TakeRegister(r, c) \/ TakeAction(r, c)
      PROVE  MatchStep(q)
  BY <1>1, <1>2, QuietStep DEF TakeRegister, TakeAction, Loop, Alive
<1>3. ASSUME NEW r \in Rooms, TakeUnregister(r) PROVE MatchStep(q)
  BY <1>1, <1>3, QuietStep DEF TakeUnregister, Loop, Alive
<1>4. ASSUME NEW r \in Rooms, FinishSignal(r) PROVE MatchStep(q)
  <2>1. CASE loop[r].at = "select"
    BY <1>1, <1>4, <2>1, QuietStep DEF FinishSignal, Loop, Alive
  <2>2. CASE loop[r].at # "select"
    BY <1>4, <2>2, Stutter DEF FinishSignal, Phase, Dead
  <2> QED
    BY <2>1, <2>2
<1>5. ASSUME NEW r \in Rooms, CloseRoom(r) PROVE MatchStep(q)
  BY <1>1, <1>5, QuietStep DEF CloseRoom, Loop, Dead
<1>6. CASE UNCHANGED roomVars
  BY <1>6, Stutter DEF roomVars, Phase, Dead
<1>7. ASSUME NEW c \in Clients,
             Dial(c) \/ Disconnect(c) \/ WritePump(c) \/ HubRegister(c) \/ HubUnregister(c)
      PROVE  MatchStep(q)
  BY <1>6, <1>7 DEF Dial, Disconnect, WritePump, WriteFrame, WriterExit, HubRegister,
                    HubUnregister
<1>8. ASSUME NEW c \in Clients, ReadPump(c) PROVE MatchStep(q)
  <2>1. CASE UNCHANGED roomVars
    BY <1>6, <2>1
  <2>2. ASSUME NEW r \in Rooms, ReadCreate(c, r) PROVE MatchStep(q)
    BY <2>2, CreateIsMatch, UserAssumption DEF ReadCreate
  <2> QED
    BY <1>8, <2>1, <2>2 DEF ReadPump, ReadJoin, AutoJoin, ReadAction, ActTimeout, SendError,
                            ReadFail
<1>9. ASSUME NEW r \in Rooms, NEW u \in Users, CreateRoom(r, u) PROVE MatchStep(q)
  BY <1>9, CreateIsMatch DEF CreateRoom
<1>10. CASE UNCHANGED vars
  BY <1>6, <1>10 DEF vars
<1> QED
  BY <1>2, <1>3, <1>4, <1>5, <1>7, <1>8, <1>9, <1>10, ShutdownIsMatch, HandleIsMatch
     DEF Next, HubRun, RoomTakes, RoomLoop

(* Every room of the server implements Match: whatever the connections do, *)
(* and even in the step in which the process panics, a game only goes      *)
(* forward, only its host starts it, only listed players score and only    *)
(* while it is played, and a room ends only when it is empty (room.go).    *)
THEOREM RoomsImplementMatch == Spec => RoomsKeepMatch
<1>1. Init => \A r \in Rooms : M(r)!MatchInit
  BY MatchInitHolds
<1>2. Init => Fresh
  BY DEF Init, Fresh
<1>3. MInv /\ [Next]_vars => [\A r \in Rooms : MatchStep(r)]_vars
  BY NextIsMatch
<1>4. IInv /\ Fresh /\ [Next]_vars => Fresh'
  BY FreshStep
<1>5. MInv <=> IInv /\ Fresh
  BY DEF MInv
<1> QED
  BY <1>1, <1>2, <1>3, <1>4, <1>5, AlwaysInv, PTL DEF Spec, RoomsKeepMatch

---------------------------------------------------------------------------
(* What a room inherits from Match: the points of a game were all made in  *)
(* it.  A lobby has none, and the result stands once the game is over,     *)
(* whatever the actions on their way and the players who come or leave.    *)
NoPointsYet(r) ==
  Phase(r) \in {"none", "WAITING"} => \A u \in Users : players[r][u] \in {Absent, 0}

ResultStands(r) ==
  Phase(r) \in {"FINISHED", "gone"} =>
    \A u \in Users : players[r][u] # Absent => players'[r][u] = players[r][u]

(* Both follow from the steps of Match alone.                              *)
LEMMA MatchScores ==
  ASSUME Typed, NEW r \in Rooms, MatchStep(r)
  PROVE  /\ NoPointsYet(r) => NoPointsYet(r)'
         /\ ResultStands(r)
<1> USE DEF NoPointsYet, ResultStands
<1>a. players[r] \in [Users -> Scores] /\ UserOf \in [Clients -> Users]
  BY UserAssumption DEF Typed, TypeOK
<1>1. ASSUME NEW u \in Users, M(r)!Create(u)
      PROVE  (NoPointsYet(r) => NoPointsYet(r)') /\ ResultStands(r)
  BY <1>1 DEF M!Create
<1>2. ASSUME NEW c \in Clients, M(r)!Enter(c)
      PROVE  (NoPointsYet(r) => NoPointsYet(r)') /\ ResultStands(r)
  BY <1>2, <1>a DEF M!Enter
<1>3. ASSUME NEW c \in Clients, M(r)!Leave(c)
      PROVE  (NoPointsYet(r) => NoPointsYet(r)') /\ ResultStands(r)
  BY <1>3, <1>a DEF M!Leave, M!Open
<1>4. ASSUME NEW c \in Clients, M(r)!Start(c)
      PROVE  (NoPointsYet(r) => NoPointsYet(r)') /\ ResultStands(r)
  BY <1>4 DEF M!Start
<1>5. ASSUME NEW c \in Clients, NEW s \in 0..MaxScore, M(r)!Score(c, s)
      PROVE  (NoPointsYet(r) => NoPointsYet(r)') /\ ResultStands(r)
  BY <1>5 DEF M!Score
<1>6. ASSUME M(r)!Finish \/ M(r)!GoAway \/ UNCHANGED M(r)!matchVars
      PROVE  (NoPointsYet(r) => NoPointsYet(r)') /\ ResultStands(r)
  BY <1>6 DEF M!Finish, M!GoAway, M!matchVars
<1> QED
  BY <1>1, <1>2, <1>3, <1>4, <1>5, <1>6 DEF MatchStep, M!MatchNext

LEMMA AlwaysMInv == Spec => []MInv
<1>1. Init => Fresh
  BY DEF Init, Fresh
<1>2. IInv /\ Fresh /\ [Next]_vars => Fresh'
  BY FreshStep
<1>3. MInv <=> IInv /\ Fresh
  BY DEF MInv
<1> QED
  BY <1>1, <1>2, <1>3, AlwaysInv, PTL DEF Spec

(* Every game starts at nil for everybody: no action of an earlier moment  *)
(* puts points into a lobby (room.go:97-104, 239-248).                     *)
THEOREM GamesStartAtNil == Spec => [](\A r \in Rooms : NoPointsYet(r))
<1>1. Init => \A r \in Rooms : NoPointsYet(r)
  BY DEF Init, NoPointsYet, NoPlayers
<1>2. MInv /\ (\A r \in Rooms : NoPointsYet(r)) /\ [Next]_vars => (\A r \in Rooms : NoPointsYet(r))'
  <2> SUFFICES ASSUME MInv, \A r \in Rooms : NoPointsYet(r), [Next]_vars, NEW r \in Rooms
               PROVE  NoPointsYet(r)'
    OBVIOUS
  <2>1. CASE Next
    <3>1. MatchStep(r) /\ Typed
      BY <2>1, NextIsMatch DEF MInv, IInv
    <3> QED
      BY <3>1, MatchScores
  <2>2. CASE UNCHANGED vars
    BY <2>2 DEF vars, roomVars, NoPointsYet, Phase, Dead
  <2> QED
    BY <2>1, <2>2
<1> QED
  BY <1>1, <1>2, AlwaysMInv, PTL DEF Spec

(* Once a game is over the score of nobody on its list changes: what was   *)
(* sent with GAME_OVER stays true (room.go:203-248).                       *)
THEOREM ResultsStand == Spec => [][\A r \in Rooms : ResultStands(r)]_vars
<1>1. MInv /\ [Next]_vars => [\A r \in Rooms : ResultStands(r)]_vars
  <2> SUFFICES ASSUME MInv, Next, NEW r \in Rooms PROVE ResultStands(r)
    OBVIOUS
  <2>1. MatchStep(r) /\ Typed
    BY NextIsMatch DEF MInv, IInv
  <2> QED
    BY <2>1, MatchScores
<1> QED
  BY <1>1, AlwaysMInv, PTL DEF Spec
==============================================================================
