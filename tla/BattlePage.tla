----------------------------- MODULE BattlePage -----------------------------
(***************************************************************************)
(* The battle page, pages/KanaBattlePage.js: the effect that opens the     *)
(* socket, handleMessage, the answers and the ranking.  A page keeps its   *)
(* state while only its room code or the user object changes.              *)
(***************************************************************************)
EXTENDS BattleRooms

CONSTANT IndexChoice(_)   \* bound: of a pool of n kana, the places an answer moves to

VARIABLES
  code,         \* the roomCode of the address
  user,         \* somebody is signed in
  current,      \* socketRef.current, 0 for null
  gameState, players, hostId, definitions, index, score,
  muddled,      \* history: a frame did not parse, or came from a socket that was
                \* replaced, or the page went to another room in the middle of a game
  carried       \* history: the page has entered a game under way with an index that
                \* it drew in an earlier one

viewVars == <<gameState, players, hostId, definitions, index, score>>
histories == <<muddled, carried>>
pageVars == <<code, user, current, viewVars, histories>>

ViewInit ==
  /\ gameState = "CONNECTING"
  /\ players = Nobody
  /\ hostId = "none"
  /\ definitions = {}
  /\ index = 0
  /\ score = 0

ViewReset ==
  /\ gameState' = "CONNECTING"
  /\ players' = Nobody
  /\ hostId' = "none"
  /\ definitions' = {}
  /\ index' = 0
  /\ score' = 0

---------------------------------------------------------------------------
(* The effect on [user, loadingUser, roomCode].                            *)

(* Its cleanup: an open socket is closed; one that is still connecting is  *)
(* left alone, and will open, join and speak to the page.                  *)
Cleanup(socks) ==
  IF current # 0 /\ socks[current].at = "open"
  THEN [socks EXCEPT ![current].at = "closed", ![current].out = <<>>]
  ELSE socks

Fresh == {s \in Sockets : sock[s].at = "idle"}
NextSocket == CHOOSE s \in Fresh : \A t \in Fresh : s <= t

Connect(c) ==
  /\ Fresh # {}
  /\ current' = NextSocket
  /\ sock' = [Cleanup(sock) EXCEPT ![NextSocket] =
       [NoSocket EXCEPT !.at = "connecting", !.code = c, !.mine = TRUE]]

(* The page goes away: its sockets no longer reach any state.              *)
Unmount ==
  /\ current' = 0
  /\ sock' = [s \in Sockets |-> [Cleanup(sock)[s] EXCEPT !.mine = FALSE, !.out = <<>>]]
  /\ ViewReset
  /\ code' = NoRoom
  /\ muddled' = FALSE /\ carried' = FALSE

(* The page opens, or stays and shows another room.                        *)
Mount(c) ==
  /\ ViewReset
  /\ muddled' = FALSE /\ carried' = FALSE
  /\ Connect(c)
  /\ code' = c

OtherRoom(c) ==
  /\ c # code
  /\ Connect(c)
  /\ code' = c
  /\ muddled' = (muddled \/ gameState = "PLAYING")
  /\ UNCHANGED <<viewVars, carried>>

(* A silent refresh makes a new user object of the same user.              *)
NewToken ==
  /\ Connect(code)
  /\ UNCHANGED <<code, viewVars, histories>>

---------------------------------------------------------------------------
(* The socket.                                                             *)

Send(s, m) == [sock[s] EXCEPT !.inbox = Append(@, m)]
JoinRoom       == [type |-> "JOIN_ROOM", score |-> 0]
StartGame      == [type |-> "START_GAME", score |-> 0]
\* Mutant: the score that was counted is counted again.
SubmitScoreTwice(n) == [type |-> "SUBMIT_SCORE", score |-> n + 1]
SubmitScore(n) == [type |-> "SUBMIT_SCORE", score |-> n]

\* ws.onopen
Open(s) ==
  /\ sock[s].at = "connecting"
  /\ sock' = [sock EXCEPT ![s] = [Send(s, JoinRoom) EXCEPT !.at = "open"]]

\* the upgrade is refused, or the connection breaks; ws.onclose changes nothing
Break(s) ==
  \/ sock[s].at = "connecting" /\ sock' = [sock EXCEPT ![s] = [NoSocket EXCEPT !.at = "gone"]]
  \/ sock[s].at = "open" /\ sock' = [sock EXCEPT ![s].at = "closed", ![s].inbox = <<>>, ![s].out = <<>>]

(* handleMessage, for one message.                                         *)
\* Mutant: the index of an earlier room is kept.
IndexKept == index
IndexAtStart == 0

Handle(m) ==
  \/ /\ m.type = "ERROR"
     /\ gameState' = "ERROR"
     /\ UNCHANGED <<players, hostId, definitions, index, score>>
  \/ /\ m.type = "ROOM_STATE"
     /\ gameState' = IF m.phase = "WAITING" THEN "LOBBY" ELSE m.phase
     /\ players' = m.players
     /\ hostId' = room[m.room].host
     /\ definitions' = room[m.room].groups
     /\ UNCHANGED <<index, score>>
  \/ /\ m.type = "GAME_STARTED"
     /\ gameState' = "PLAYING"
     /\ index' = IndexAtStart
     /\ score' = 0
     /\ UNCHANGED <<players, hostId, definitions>>
  \/ /\ m.type = "SCORE_UPDATE"
     /\ players' = m.players
     /\ UNCHANGED <<gameState, hostId, definitions, index, score>>
  \/ /\ m.type = "GAME_OVER"
     /\ gameState' = "FINISHED"
     /\ players' = m.players
     /\ UNCHANGED <<hostId, definitions, index, score>>

(* writePump puts all it finds queued into one text frame: a frame of more *)
(* than one message does not parse, and onmessage throws before it handles *)
(* any of them.  A write takes ten seconds at most, so the start and the   *)
(* end of a game are never in one frame.                                   *)
OneFrame(batch) ==
  ~\E i, j \in 1..Len(batch) : batch[i].type = "GAME_STARTED" /\ batch[j].type = "GAME_OVER"

EntersLate(m) == m.type = "ROOM_STATE" /\ m.phase = "PLAYING" /\ gameState # "PLAYING" /\ index # 0

Deliver(s, n) ==
  LET batch == sock[s].out IN
  /\ sock[s].at = "open" /\ n \in 1..Len(batch) /\ OneFrame(SubSeq(batch, 1, n))
  /\ sock' = [sock EXCEPT ![s].out = SubSeq(batch, n + 1, Len(batch))]
  /\ muddled' = (muddled \/ n > 1 \/ s # current)
  /\ IF n = 1
     THEN /\ Handle(batch[1])
          /\ carried' = ((carried /\ batch[1].type # "GAME_STARTED") \/ EntersLate(batch[1]))
     ELSE UNCHANGED <<viewVars, carried>>

---------------------------------------------------------------------------
(* The user.                                                               *)

Everyone == {p \in People : players[p] # Absent}

(* The button is there for the host of a lobby of two.  On a socket that   *)
(* is connecting send throws, on one that closed it does nothing.          *)
handleStartGame ==
  /\ gameState = "LOBBY" /\ hostId = "me" /\ Everyone = People
  /\ current # 0 /\ sock[current].at = "open"
  /\ Len(sock[current].inbox) < MaxPending
  /\ sock' = [sock EXCEPT ![current] = Send(current, StartGame)]
  /\ UNCHANGED viewVars

(* The right answer of handleInputChange.  When send throws, the score has *)
(* been counted and the kana stays.                                        *)
handleInputChange ==
  /\ gameState = "PLAYING" /\ index < PoolSize(definitions)
  /\ score < MaxPoints
  /\ current # 0
  /\ score' = score + 1
  /\ LET at == sock[current].at IN
     /\ at = "open" => Len(sock[current].inbox) < MaxPending
     /\ sock' = IF at = "open" THEN [sock EXCEPT ![current] = Send(current, SubmitScore(score + 1))] ELSE sock
     /\ index' \in IF at = "connecting" THEN {index}
                   ELSE RandomIndex(index, PoolSize(definitions)) \cap ({0} \cup IndexChoice(PoolSize(definitions)))
  /\ UNCHANGED <<gameState, players, hostId, definitions>>

(* rankedPlayers: the scores in falling order, equal ones as they were and *)
(* the rank that is shown for each.                                        *)
Place(scores, i) ==
  Cardinality({j \in DOMAIN scores : scores[j] > scores[i] \/ (scores[j] = scores[i] /\ j <= i)})
InOrder(scores) ==
  [k \in DOMAIN scores |-> scores[CHOOSE i \in DOMAIN scores : Place(scores, i) = k]]

\* Mutant: equal scores are ranked one after the other.
NewRankAlways(sorted, i) == i > 1
NewRank(sorted, i) == i > 1 /\ sorted[i] < sorted[i - 1]

Ranks(sorted) ==
  LET rank[i \in 1..Len(sorted)] ==
        IF i = 1 THEN 1 ELSE IF NewRank(sorted, i) THEN i ELSE rank[i - 1]
  IN  [i \in 1..Len(sorted) |-> rank[i]]
=============================================================================
