SPECIFICATION Spec
CONSTANTS
  here = here
  there = there
  first = first
  second = second
  other = other
  Tabs = {here, there}
  Calls = {first, second, other}
  TabOf <- PageOf
  MaxPairs = 4
  MaxMoves = 3
SYMMETRY Alike
CHECK_DEADLOCK FALSE
INVARIANTS
  RotatedOnce
  SignedOut
PROPERTIES
  PresentsNewest
  LossIsExplained
