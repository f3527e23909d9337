SPECIFICATION Spec
CONSTANTS
  Configs <- MCConfigs
  Catalogs <- MCCatalogs
  Offers = {"o1", "o2"}
  Operations = {"op"}
  Syncs = {s1, s2}
  Issuers = {q1, q2}
  MaxTime = 1
  TTL = 1
  MaxRestarts = 1
  MaxRuns = 1
  MaxCalls = 3
SYMMETRY CallSymmetry
INVARIANTS
  OffersKeepTheFloor
  IssuesKeepTheFloor
  RetriesAreIdempotent
CHECK_DEADLOCK FALSE
