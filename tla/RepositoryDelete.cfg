SPECIFICATION FairSpec
CHECK_DEADLOCK FALSE
CONSTANTS
    e1 = e1
    h1 = h1
    h2 = h2
    Workers = {w1, w2}
    Executions <- MCExecutions
    Heads <- MCHeads
    Safe <- MCSafe
    Keys <- MCKeys
    MaxMaster = 2
    MaxTrust = 2
    MaxChanges = 1
    None = None
INVARIANTS
    OneDeletePerEffect
    ReconciledWasAbsent
PROPERTIES
    EveryEffectGetsVerdict
    DeleteImplementsEffectOnce
