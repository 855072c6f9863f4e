SPECIFICATION FairSpec
CONSTANTS
  N = 1
  Hooked <- MCHooked
  Adopting <- MCAdoptingNone
  Guarded = TRUE
  Contents <- MCContents
  MaxCrashes = 1
  MaxFaults = 1
  MaxMoves = 0
  MaxEdits = 0
PROPERTIES RecoveryCompletes
