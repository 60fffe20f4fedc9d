SPECIFICATION Spec
CONSTANTS
  p1 = p1
  p2 = p2
  a = a
  b = b
  Procs = {p1, p2}
  Releases = {a, b}
  NoRelease = NoRelease
  MaxMessages = 2
  MaxFaults = 2
PROPERTIES
  PointerOnlyAdvances
CHECK_DEADLOCK FALSE
