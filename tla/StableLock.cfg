SPECIFICATION Spec
CONSTANTS
  Procs = {p1, p2, p3}
  Breakers = {b1, b2, b3}
  MaxFiles = 5
  MaxCrashes = 1
SYMMETRY Interchangeable
INVARIANTS TypeOK SingleOwner OwnerRecorded
PROPERTIES ForeignRecordKept
