SPECIFICATION SessionSpec
CONSTANTS
  Sids = {s1}
  Commands = {p1}
  MaxOutages = 0
INVARIANT
  RevocationIsImmediate
CHECK_DEADLOCK FALSE
