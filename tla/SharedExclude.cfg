CONSTANTS
  p1 = p1
  p2 = p2
  patterns1 = patterns1
  patterns2 = patterns2
  Projects <- MCProjects
  Contents <- MCContents
  InitPatterns = patterns1
  SwitchPatterns = patterns2
  NoBlock = NoBlock
  NoFile = NoFile
  NoJournal = NoJournal
  Nobody = Nobody
  Initializer = Initializer
  OwnLine = OwnLine
  NewLine = NewLine
  FirstFiles <- MCFirstFiles
  MaxRuns = 2
  MaxEdits = 1
  MaxTroubles = 1
SPECIFICATION Spec
INVARIANTS TypeOK BlockFollowsOutcome
PROPERTIES ForeignBytesKept RecoveryCompletes
CHECK_DEADLOCK FALSE
