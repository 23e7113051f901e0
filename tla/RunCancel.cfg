SPECIFICATION FairSpec
CHECK_DEADLOCK FALSE
CONSTANTS
    Workers = {w1, w2}
    Requests = {r1}
    Keys <- MCKeys
    MaxTrust = 3
    MaxReruns = 2
    None = None
INVARIANTS
    ReconciledWasCancelled
PROPERTIES
    EveryCancelGetsVerdict
    CancelImplementsEffectOnce
