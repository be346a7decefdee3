SPECIFICATION FairSpec
CONSTANTS
  Clients = {"c1"}
  Rooms = {"r1", "r2"}
  Users = {"u1"}
  Codes = {"k1"}
  NoClient = NoClient
  NoRoom = NoRoom
  NoUser = NoUser
  UserOf <- OneUserEach
  CodeOf <- SameCode
  SendCap = 2
  MaxJoins = 2
  Submitted = {}
  MaxScore = 0
CHECK_DEADLOCK FALSE
PROPERTIES
  JoinIsAnswered
  EmptyRoomGoesAway
  BrokenIsReleased
