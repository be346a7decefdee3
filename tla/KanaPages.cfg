SPECIFICATION Spec
CONSTANTS
  Clicked = {"hsingle", "hn1"}
  MaxCount = 2
  Rooms = {r1, r2}
  FriendRooms = {r2}
  NoRoom = NoRoom
  Picked = {"hsingle"}
  Presets = {"all"}
  Calls = {1}
  Wanted <- Vowels
  Sockets = {1, 2}
  MaxQueue = 2
  MaxPending = 1
  MaxPoints = 1
  FriendGroups <- OneKana
  IndexChoice <- Ends
CHECK_DEADLOCK FALSE
INVARIANTS
  PagesTypeOK
  ShownIsChecked
  ComplaintIsCurrent
  OffersAreAccepted
  AnswersHaveAKana
  QuietPageIsCurrent
  NoUnearnedScore
  RankingIsStandard
PROPERTIES
  AnswerMovesOn
  PageRoomsKeepMatch
