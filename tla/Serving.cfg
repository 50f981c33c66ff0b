SPECIFICATION ReadSideSpec
CONSTANTS
  History <- MCHistory
  Keys = {1, 2, 3}
  Bases = {1, 2}
  Covered <- MCCovered
  Closure <- MCClosure
  Workers = {w1, w2}
  Readers = {r1}
  Limits = {1, 2}
SYMMETRY Symmetry
INVARIANTS WorkerExact AnswersExact 
PROPERTIES NeverBackwards
CHECK_DEADLOCK FALSE
