SPECIFICATION Spec
CONSTANTS
  Clients = {"c1", "c2"}
  Rooms = {"r1"}
  Users = {"u1", "u2"}
  Codes = {"k1"}
  NoClient = NoClient
  NoRoom = NoRoom
  NoUser = NoUser
  UserOf <- OneUserEach
  CodeOf <- DistinctCodes
  SendCap = 1
  MaxJoins = 1
  Submitted = {1, 2}
  MaxScore = 1
CHECK_DEADLOCK FALSE
INVARIANTS
  TypeOK
  ClosedOnlyInHandOff
  LobbyIsExact
  RoomDiesEmpty
PROPERTIES
  RoomsKeepMatch
  PanicIsExplained
