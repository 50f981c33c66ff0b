SPECIFICATION LogsSpec
CONSTANTS
  None = None
  n1 = n1
  n2 = n2
  n3 = n3
  n4 = n4
  r1 = r1
SYMMETRY Survivors
INVARIANTS  FenceVerdictFinal NumbersUsedOnce ReplayedOnce
CHECK_DEADLOCK FALSE
