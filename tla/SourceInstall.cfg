SPECIFICATION SourceSpec
CONSTANTS
  p1 = p1
  p2 = p2
  Projects <- TwoProjects
  g1 = g1
  g2 = g2
  GitAliases <- TwoGitAliases
  local1 = local1
  LocalAlias = local1
  Skillfiles <- TwoSkillfiles
  c1 = c1
  c2 = c2
  Commits <- TwoCommits
  LastFile = 2
  NoPackage = NoPackage
  Nobody = Nobody
  Attempts = 2
  MaxInstalls = 2
  MaxCrashes = 1
  MaxEdits = 1
  MaxTroubles = 1
INVARIANTS
  TypeOK
  LockIsOneResolution
  CaptureIsOneState
  RuntimeKept
  StoreServesInstalled
  LockIsInstalled
PROPERTY
  QuietUpgradeSucceeds
CHECK_DEADLOCK FALSE
