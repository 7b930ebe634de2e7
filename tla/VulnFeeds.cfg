SPECIFICATION FairSpec
CONSTANTS
  Order <- ThreePackages
  Targeted = {"a", "c"}
  Aligned = {"a", "b"}
  Meeting <- NotMaven
  TooOld = {}
  FirstSbom = {"b", "c"}
  FirstAffected = {"a", "c"}
  MaxQueries = 2
  MaxRecords = 2
  ResolveBatch = 2
  IncludeLow = FALSE
  Execs = {e1, e2}
  Pool = {c1, c2}
  NoConn = NoConn
  MaxPosts = 1
  MaxInline = 1
  MaxChanges = 1
  MaxFaults = 1
INVARIANTS RefreshSound MatchesOpen
PROPERTIES ExposedSurfaces
