SPECIFICATION Spec
CONSTANTS
    Workers = {w1, w2}
    Commits <- MCCommits
    Requests <- MCRequests
    Envelopes <- MCEnvelopes
    MaxTime = 1
    MaxVersion = 2
    MaxPushes = 1
    None = None
SYMMETRY WorkerSymmetry
INVARIANTS
    SpentOnce
    BudgetFollowsJournal
PROPERTIES
    ImplementsAttachOnce
