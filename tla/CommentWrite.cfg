SPECIFICATION FairSpec
CHECK_DEADLOCK FALSE
CONSTANTS
    r1 = r1
    r2 = r2
    old = old
    new = new
    target = target
    Target = target
    Workers = {w1, w2}
    Requests <- MCRequests
    Bodies <- MCBodies
    Keys <- MCKeys
    MaxTrust = 2
    MaxMaster = 2
    MaxChanges = 1
    MaxEffects = 2
    None = None
INVARIANTS
    ReconciledWasWritten
PROPERTIES
    EveryCommentGetsVerdict
    CommentImplementsEffectOnce
