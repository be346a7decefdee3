SPECIFICATION Spec
CONSTANTS
  Clients = {"c1", "c2"}
  Rooms = {"r1"}
  Users = {"u1", "u2"}
  Codes = {"k1"}
  NoClient = NoClient
  NoRoom = NoRoom
  NoUser = NoUser
  UserOf <- OneUserEach
  CodeOf <- DistinctCodes
  SendCap = 2
  MaxJoins = 1
  Submitted = {}
  MaxScore = 0
CHECK_DEADLOCK FALSE
PROPERTIES
  NoLateEntry
