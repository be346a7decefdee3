SPECIFICATION Spec
CONSTANTS
  Calls = {c1, c2}
  Tokens = {1, 2}
  MaxVersion = 2
SYMMETRY Slots
INVARIANTS
  AccountsTypeOK
  OldSessionsEnd
  NoFormWaitsForever
PROPERTIES
  EditsAreKept
  CallsComeToAnEnd
