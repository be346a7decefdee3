----------------------------- MODULE KanaPages -----------------------------
(***************************************************************************)
(* One browser tab on the kana pages: which page is open (App.js), what    *)
(* the user does there, and the answers and tokens that arrive whatever    *)
(* page is open.  "away" stands for the other pages, the login among them. *)
(* The practice page shares nothing with the others, so it is visited from *)
(* a new tab only; a later visit would start from the same state.          *)
(***************************************************************************)
EXTENDS BattlePage

CONSTANT Wanted     \* bound: the selections a room is asked for with

VARIABLES
  route,        \* the page that is open
  strayed       \* history: the rooms a muddled page has sent an answer to

pagesVars == <<practiceVars, landingVars, serverVars, pageVars, route, strayed>>

Init ==
  /\ PracticeInit
  /\ LandingInit
  /\ ServerInit
  /\ ViewInit
  /\ code = NoRoom /\ user \in BOOLEAN /\ current = 0
  /\ muddled = FALSE /\ carried = FALSE
  /\ route \in {"practice", "away"} /\ strayed = {}

Practicing ==
  /\ route = "practice"
  /\ PracticeStep
  /\ UNCHANGED <<landingVars, serverVars, pageVars, route, strayed>>

LeavePractice ==
  /\ route = "practice"
  /\ route' = "away"
  /\ PracticeReset
  /\ UNCHANGED <<landingVars, serverVars, pageVars, strayed>>

\* bound: rooms are asked for while one is left, with some selections only
CanCreate ==
  /\ selectedGroups \in Wanted
  /\ \E r \in Rooms \ FriendRooms : room[r].phase = "none"

\* bound: the groups are chosen before the first battle; the form of a later
\* visit starts from the same state
Choosing == \A s \in Sockets : sock[s].at = "idle"

FillLanding ==
  /\ route = "landing"
  /\ \/ Choosing /\ (handleToggleGroup \/ applyPreset)
     \/ user /\ CanCreate /\ \E k \in Calls : handleCreateRoom(k)
  /\ UNCHANGED <<practiceVars, serverVars, pageVars, route, strayed>>

(* A page that is not a battle opens; a battle page that was open goes.    *)
Visit(page) ==
  /\ route # "practice" /\ route # page
  /\ route' = page
  /\ selectedGroups' = {"hsingle"}
  /\ IF route = "battle" THEN Unmount ELSE UNCHANGED <<sock, code, current, viewVars, histories>>
  /\ UNCHANGED <<practiceVars, calls, room, user, strayed>>

(* The address of a battle: by the form, by a link, by going back, or by   *)
(* the answer of the server.  Without a user the page sends to the login.  *)
Show(c) ==
  \/ /\ ~user
     /\ route' = "away"
     /\ UNCHANGED <<sock, code, current, viewVars, histories>>
  \/ /\ user /\ route # "battle"
     /\ route' = "battle"
     /\ Mount(c)
  \/ /\ user /\ route = "battle"
     /\ UNCHANGED route
     /\ OtherRoom(c)

OpenAddress ==
  /\ route \in {"away", "battle"}
  /\ \E c \in Rooms \cup {NoRoom} : Show(c)
  /\ UNCHANGED <<practiceVars, landingVars, room, user, strayed>>

handleJoinRoom ==
  /\ route = "landing"
  /\ \E c \in Rooms \cup {NoRoom} : Show(c)
  /\ selectedGroups' = {"hsingle"}
  /\ UNCHANGED <<practiceVars, calls, room, user, strayed>>

(* handleCreateRoom without a user, and after its await.  Nobody can use a *)
(* room before its code has come back, so it is made when that happens.    *)
CreateSignedOut ==
  /\ route = "landing" /\ ~user
  /\ route' = "away"
  /\ selectedGroups' = {"hsingle"}
  /\ UNCHANGED <<practiceVars, calls, serverVars, pageVars, strayed>>

CreateAnswered(k) ==
  /\ calls[k] # NoCall
  /\ calls' = [calls EXCEPT ![k] = NoCall]
  /\ \/ /\ \E r \in Rooms : CreateRoom(r, calls[k]) /\ Show(r)
        /\ selectedGroups' = {"hsingle"}
     \/ \* refused or lost: an alert
        UNCHANGED <<selectedGroups, room, sock, code, current, viewVars, histories, route>>
  /\ UNCHANGED <<practiceVars, user, strayed>>

(* UserContext: a new token, a logout, a login.                            *)
TokenRefreshed ==
  /\ user /\ route = "battle"
  /\ NewToken
  /\ UNCHANGED <<practiceVars, landingVars, room, user, route, strayed>>

SignedOut ==
  /\ user /\ route # "practice"
  /\ user' = FALSE
  /\ IF route = "battle"
     THEN Unmount /\ route' = "away"
     ELSE UNCHANGED <<sock, code, current, viewVars, histories, route>>
  /\ UNCHANGED <<practiceVars, landingVars, room, strayed>>

SignedIn ==
  /\ ~user /\ route = "away"
  /\ user' = TRUE
  /\ UNCHANGED <<practiceVars, landingVars, serverVars, code, current, viewVars, histories, route, strayed>>

SocketStep(s) ==
  /\ \/ Open(s) /\ UNCHANGED <<viewVars, histories>>
     \/ Break(s) /\ UNCHANGED <<viewVars, histories>>
     \/ \E n \in 1..MaxQueue : Deliver(s, n)
  /\ UNCHANGED <<practiceVars, landingVars, room, code, user, current, route, strayed>>

Playing ==
  /\ route = "battle"
  /\ \/ handleStartGame /\ UNCHANGED strayed
     \/ handleInputChange /\ strayed' = IF muddled /\ sock[current].at = "open" THEN strayed \cup {code} ELSE strayed
  /\ UNCHANGED <<practiceVars, landingVars, room, code, user, current, histories, route>>

Server ==
  /\ (\E s \in Sockets : ServerReads(s)) \/ (\E r \in Rooms : RoomStep(r))
  /\ UNCHANGED <<practiceVars, landingVars, pageVars, route, strayed>>

Next ==
  \/ Practicing \/ LeavePractice
  \/ FillLanding \/ handleJoinRoom \/ CreateSignedOut \/ \E k \in Calls : CreateAnswered(k)
  \/ \E page \in {"landing", "away"} : Visit(page)
  \/ OpenAddress \/ TokenRefreshed \/ SignedOut \/ SignedIn
  \/ \E s \in Sockets : SocketStep(s)
  \/ Playing \/ Server

Spec == Init /\ [][Next]_pagesVars
=============================================================================
