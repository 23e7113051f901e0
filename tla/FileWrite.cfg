SPECIFICATION FairSpec
CHECK_DEADLOCK FALSE
CONSTANTS
    r1 = r1
    r2 = r2
    old = old
    new = new
    i1 = i1
    Workers = {w1, w2}
    Requests <- MCRequests
    Contents <- MCContents
    Permissions <- MCPermissions
    Trusted <- MCTrusted
    Inodes <- MCInodes
    Keys <- MCKeys
    MaxOther = 1
    None = None
INVARIANTS
    CreateNeverOverwrites
    ReconciledWasApplied
    TempIsCollected
PROPERTIES
    EveryWriteGetsVerdict
    FileImplementsEffectOnce
