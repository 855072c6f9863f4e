SPECIFICATION HomeSpec
CONSTANTS
  p1 = p1
  p2 = p2
  Projects <- TwoProjects
  Configured <- OneConfigured
  c1 = c1
  c2 = c2
  Commits <- TwoCommits
  NoCommit = NoCommit
  Nobody = Nobody
  Collector = Collector
  Torn = Torn
  Missing = Missing
  Attempts = 2
  MaxInstalls = 2
  MaxSweeps = 1
  MaxCrashes = 1
  MaxTroubles = 0
PROPERTY
  CollectorKeepsNamed
CHECK_DEADLOCK FALSE
