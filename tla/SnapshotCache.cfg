SPECIFICATION Spec
CONSTANTS
  p1 = p1
  p2 = p2
  f1 = f1
  f2 = f2
  Fetchers <- FetchersMC
  Files <- FilesMC
  Directories = 4
  MaxDeaths = 1
INVARIANT SnapshotIsTheCommit
CHECK_DEADLOCK FALSE
