SPECIFICATION FairSpec
CHECK_DEADLOCK FALSE
CONSTANTS
    c1 = c1
    c2 = c2
    q1 = q1
    Workers = {w1}
    Comments <- MCComments
    RequestIds <- MCRequestIds
    RequestId <- SameRequestId
    ExpectedHead <- MCExpectedHead
    Keys <- MCKeys
    MaxHead = 2
    MaxTrust = 2
    MaxRuns = 2
    MaxClock = 2
    None = None
INVARIANTS
    LedgerFollowsFence
    ListedRunIsRecorded
    OneDispatchPerRequestId
PROPERTIES
    EveryClaimSettles
    DispatchImplementsEffectOnce
