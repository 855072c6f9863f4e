SPECIFICATION Spec
CONSTANTS
  Targets = {t1, t2, t3}
SYMMETRY Interchangeable
INVARIANTS NothingLost CommitShowsAll AbortShowsNothing
CHECK_DEADLOCK FALSE
