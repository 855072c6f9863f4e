SPECIFICATION FairSpec
CONSTANTS
  N = 2
  Hooked <- MCHooked
  Adopting <- MCAdoptingNone
  Guarded = TRUE
  Contents <- MCContents
  MaxCrashes = 2
  MaxFaults = 1
  MaxMoves = 1
  MaxEdits = 0
PROPERTIES RecoveryEnds ImplementsAtomicInstall
