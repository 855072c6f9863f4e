SPECIFICATION Spec
CONSTANTS
  N = 2
  Hooked <- MCHooked
  Adopting <- MCAdoptingAll
  Guarded = TRUE
  Contents <- MCContents
  MaxCrashes = 1
  MaxFaults = 1
  MaxMoves = 1
  MaxEdits = 1
INVARIANTS TypeOK UserBytesKept PreimageKept AllOrNothing NoResidue PhaseAgrees
PROPERTIES DecisionIsFinal OnlyOwnerCommits
