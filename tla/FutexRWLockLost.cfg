SPECIFICATION Spec
CONSTANTS
  Writers = {w1, w2}
  Readers = {r1, r2}
  MaxCalls = 5
INVARIANTS SleepersCounted
CHECK_DEADLOCK FALSE
