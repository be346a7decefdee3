SPECIFICATION Spec
CONSTANTS
  Calls = {c1, c2}
  Tokens = {1}
  MaxVersion = 1
SYMMETRY Slots
INVARIANT LogoutSticks
