SPECIFICATION ContractsSpec
CONSTANTS
  Suite <- Workloads
  SeedCounts = {0, 3}
  MaxDeviations = 1
  NULL = NULL
  n1 = n1
  n2 = n2
  n3 = n3
  r1 = r1
  r2 = r2
  t1 = t1
  t2 = t2
  q1 = q1
  q2 = q2
  v1 = v1
  v2 = v2
SYMMETRY Symmetry
INVARIANTS ControlsDetected AcknowledgedSurvives ReadsCommittedHistory RootsReadable GenerationsSeparated
PROPERTIES ServedNeverRetreats
CHECK_DEADLOCK FALSE
