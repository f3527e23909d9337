\* Two profiles, two callers that overlap, and one save that fails after its
\* rename.
CONSTANTS
    ProfileIDs = {p1, p2}
    Callers = {c1, c2}
    PlatformTunnels <- MCTunnels
    ImportFiles <- MCImportFiles
    Drafts <- MCDrafts
    RequestedPlans <- MCRequestedPlans
    LegacyFile <- MCLegacy
    Files <- MCFiles
    Envelopes <- MCEnvelopes
    MaxLateFaults = 1
SPECIFICATION Spec
SYMMETRY Symmetry
INVARIANTS
    StatusesAreCurrent
    AcknowledgedIsKept
    AtMostOneMigrated
    ReportedPlansStart
    ReadBackChangesNothing
CHECK_DEADLOCK FALSE
