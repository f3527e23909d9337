\* Two workers and one restart each: two workers are needed for one to fail
\* while the other is starting, one restart for the budget to run out.
CONSTANTS
    Connections = 2
    MaxWorkerRestarts = 1
SPECIFICATION FairSpec
INVARIANTS
    ReadyAccounting
    OneIncarnation
PROPERTIES
    ReadyMeansAllWorkers
    CancelReturns
    ScheduledRestartHappens
    RefinesSessionRuntime
CHECK_DEADLOCK FALSE
