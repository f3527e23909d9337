\* One challenge and one caller that continues it are enough.
CONSTANTS
    MaxChallenges = 1
    Callers = {c1}
SPECIFICATION ResolutionSpec
INVARIANTS
    CancelledIsNeverResolved
CHECK_DEADLOCK FALSE
