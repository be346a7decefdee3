--------------------------- MODULE KanaProperties ---------------------------
(***************************************************************************)
(* What the kana pages should guarantee, stated over KanaPages.            *)
(***************************************************************************)
EXTENDS KanaPages

PageStates == {"CONNECTING", "LOBBY", "PLAYING", "FINISHED", "ERROR"}
Phases == {"none", "WAITING", "PLAYING", "FINISHED", "gone"}
PlayerLists == [People -> -1..MaxPoints]

Messages == [type : {"ROOM_STATE", "GAME_STARTED", "SCORE_UPDATE", "GAME_OVER", "ERROR"},
             room : Rooms \cup {NoRoom}, phase : Phases, players : PlayerLists]

(* The shape of the state, with every queue within its bound.              *)
PagesTypeOK ==
  /\ route \in {"practice", "landing", "battle", "away"} /\ strayed \subseteq Rooms \cup {NoRoom}
  /\ user \in BOOLEAN /\ {muddled, carried} \subseteq BOOLEAN
  /\ checkedGroups \subseteq Groups /\ selectedGroups \subseteq Groups /\ definitions \subseteq Groups
  /\ currentIndex \in Nat /\ index \in Nat
  /\ {count, incorrectCount} \subseteq 0..MaxCount /\ score \in 0..MaxPoints
  /\ code \in Rooms \cup {NoRoom} /\ current \in Sockets \cup {0}
  /\ gameState \in PageStates /\ players \in PlayerLists /\ hostId \in People \cup {"none"}
  /\ \A r \in Rooms : room[r].phase \in Phases /\ room[r].players \in PlayerLists
  /\ \A s \in Sockets :
       /\ sock[s].at \in {"idle", "connecting", "open", "closed", "gone"}
       /\ {sock[s].in, sock[s].joining} \subseteq Rooms \cup {NoRoom}
       /\ Len(sock[s].inbox) <= MaxPending
       /\ sock[s].out \in Seq(Messages) /\ Len(sock[s].out) <= MaxQueue

---------------------------------------------------------------------------
(* The practice page.                                                      *)

(* However the groups were clicked before and after the index was drawn,   *)
(* the kana on display is one of a checked group                           *)
(* (KanaPracticePage.js:44-53, 70-75, 81-93).                              *)
ShownIsChecked == route = "practice" => currentChar # NoKana /\ currentChar[1] \in checkedGroups

(* "Incorrect. Correct answer:" speaks of the kana on display, not of one  *)
(* that is gone (KanaPracticePage.js:55-68, 113-117).                      *)
ComplaintIsCurrent == message.kind = "incorrect" => message.kana = currentChar

(* A right answer brings another kana, unless the index was left beyond    *)
(* the pool by a group taken away (KanaPracticePage.js:112, mathUtils.js:  *)
(* 1-8).                                                                   *)
AnswerMovesOn ==
  [][count' = count + 1 /\ currentIndex < Len(pool) /\ Len(pool) > 1
       => currentChar' # currentChar]_pagesVars

---------------------------------------------------------------------------
(* The battle pages.                                                       *)

(* Whatever was clicked before, the form offers only rooms the server      *)
(* accepts (KanaBattleLandingPage.js:33-65, 137-145, dto/game.go:3-6).     *)
OffersAreAccepted ==
  /\ \A d \in Durations : Accepted(d, selectedGroups)
  /\ \A p \in DOMAIN PresetGroups : PresetGroups[p] # {} /\ PresetGroups[p] \subseteq Groups

(* While the game is played there is a kana to answer, in every room the   *)
(* page has gone through, unless it has drawn its index in an earlier game *)
(* and entered this one after its start, so that no GAME_STARTED has reset *)
(* it (KanaBattlePage.js:92-110, 170-171, hub.go:142-148).                 *)
AnswersHaveAKana ==
  gameState = "PLAYING" /\ ~muddled /\ ~carried => index < PoolSize(definitions)

(* When nothing is on its way, a join that waits included, and no frame    *)
(* was lost, an open page shows its own room as it is, whichever rooms and *)
(* sockets it had before (KanaBattlePage.js:38-124).                       *)
Settled ==
  /\ route = "battle" /\ current # 0 /\ ~muddled /\ gameState # "ERROR"
  /\ sock[current].at = "open" /\ sock[current].joining = NoRoom
  /\ sock[current].inbox = <<>> /\ sock[current].out = <<>>
  /\ \A s \in Sockets : sock[s].mine /\ s # current => sock[s].at \in {"closed", "gone"}

QuietPageIsCurrent ==
  Settled =>
    LET R == room[code] IN
    /\ sock[current].in = code
    /\ gameState = IF R.phase = "WAITING" THEN "LOBBY" ELSE R.phase
    /\ players = R.players /\ hostId = R.host /\ definitions = R.groups

(* The ranking never credits me with more than my own page does, but in a  *)
(* room that an answer to another game has strayed to: the page shows its  *)
(* old game until the new room has spoken, and sends to the new socket     *)
(* (KanaBattlePage.js:109, 151-177, room.go:239-248).                      *)
NoUnearnedScore ==
  Settled /\ gameState = "PLAYING" /\ code \notin strayed => players["me"] <= score

(* "Standard Competition Ranking" (1-2-2-4): the rank of a player is one   *)
(* more than the players with a higher score, with two further players     *)
(* of any score beside the two modelled (KanaBattlePage.js:182-203).       *)
Standard(scores) ==
  LET sorted == InOrder(scores)
      ranks  == Ranks(sorted)
  IN  \A i \in 1..4 : ranks[i] = 1 + Cardinality({j \in 1..4 : scores[j] > sorted[i]})

\* a table of the two scores, which TLC fills in once
WellRanked ==
  [me \in Absent..MaxPoints |-> [friend \in Absent..MaxPoints |->
     \A more \in [1..2 -> 0..MaxPoints + 1] : Standard(<<me, friend, more[1], more[2]>>)]]

RankingIsStandard ==
  gameState = "FINISHED" => WellRanked[players["me"]][players["friend"]]

(* The rooms as the pages meet them keep the same promise as those of the  *)
(* battle server: both models implement Match.                             *)
M(r) == INSTANCE Match WITH
          Clients <- Sockets \cup {0}, Users <- People, NoUser <- "none", MaxScore <- MaxPoints,
          UserOf <- [s \in Sockets \cup {0} |-> IF s = 0 THEN "friend" ELSE "me"],
          phase <- room[r].phase, players <- room[r].players, host <- room[r].host,
          members <- {s \in Sockets : sock[s].in = r} \cup (IF room[r].friendIn THEN {0} ELSE {})

Matches == <<room, [s \in Sockets |-> sock[s].in]>>

PageRoomsKeepMatch ==
  /\ \A r \in Rooms : M(r)!MatchInit
  /\ [][\/ UNCHANGED Matches
        \/ \A r \in Rooms : M(r)!MatchNext \/ UNCHANGED M(r)!matchVars]_serverVars

---------------------------------------------------------------------------
(* Fairness: what is queued for an open socket is delivered.  The user and *)
(* the friend need not do anything.                                        *)
FairSpec == Spec /\ \A s \in Sockets : WF_pagesVars(SocketStep(s) /\ sock[s].out # <<>>)

(* "When time is up, the final ranking appears for everyone."              *)
(* (KanaBattleLandingPage.js:351).                                         *)
FinalRankingAppears ==
  \A s \in Sockets, r \in Rooms :
    (current = s /\ sock[s].at = "open" /\ sock[s].in = r /\ room[r].phase = "FINISHED") ~>
      (gameState = "FINISHED" \/ current # s \/ sock[s].at # "open")
=============================================================================
