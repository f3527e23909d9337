\* Two challenges, so that a late one meets a settled record, and three callers
\* that answer them in any order.
CONSTANTS
    MaxChallenges = 2
    Callers = {c1, c2, c3}
SPECIFICATION ClientSpec
INVARIANTS
    SecretsOnlyWhenResolved
    ActiveChallengeIsAwaited
    OutcomeIsTheRuntimes
PROPERTIES
    CancelledStaysCancelled
    CancelStopsProvider
    TerminalIsFinal
    StopReturns
CHECK_DEADLOCK FALSE
