SPECIFICATION Spec
CONSTANTS
  t1 = t1
  t2 = t2
  t3 = t3
  t4 = t4
  p = p
  q = q
  Threads = {t1, t2, t3, t4}
  Procs = {p, q}
  ProcOf <- MCProcOf
  LastProject = 2
  Keys = {1}
  MaxCrashes = 1
SYMMETRY Interchangeable
INVARIANTS TypeOK HomeExcludesOuter ReservationHolds Accounted NoWaitCycle
