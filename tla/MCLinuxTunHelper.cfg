SPECIFICATION Spec
CONSTANTS
  MaxAttempts = 2
  MaxCleaners = 2
  MaxCrashes = 1
  MaxKills = 1
  Exclusions <- SharedExclusions
INVARIANTS
  RoutesAreAccounted
  OneOwner
  CleanupReleases
CHECK_DEADLOCK FALSE
