SPECIFICATION Spec
CONSTANTS
  Clients = {"c1"}
  Rooms = {"r1", "r2"}
  Users = {"u1", "u2"}
  Codes = {"k1", "k2"}
  NoClient = NoClient
  NoRoom = NoRoom
  NoUser = NoUser
  UserOf <- OneUserEach
  CodeOf <- SameCode
  SendCap = 2
  MaxJoins = 2
  Submitted = {1, 3}
  MaxScore = 2
CHECK_DEADLOCK FALSE
INVARIANTS
  HubNeverWedged
  QueueIsCurrent
  GameOverIsLast
  CodesLeadToRooms
