SPECIFICATION FairSpec
CONSTANTS
  Clicked = {}
  MaxCount = 0
  Rooms = {r1}
  FriendRooms = {}
  NoRoom = NoRoom
  Picked = {"hsingle"}
  Presets = {}
  Calls = {1}
  Wanted <- Vowels
  Sockets = {1}
  MaxQueue = 2
  MaxPending = 2
  MaxPoints = 1
  FriendGroups <- OneKana
  IndexChoice <- Ends
CHECK_DEADLOCK FALSE
PROPERTY FinalRankingAppears
