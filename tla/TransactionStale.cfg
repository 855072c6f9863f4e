SPECIFICATION Spec
CONSTANTS
  N = 1
  Hooked <- MCHooked
  Adopting <- MCAdoptingNone
  Guarded = TRUE
  Contents <- MCContents
  MaxCrashes = 0
  MaxFaults = 0
  MaxMoves = 0
  MaxEdits = 3
INVARIANTS UserBytesKept
