SPECIFICATION Spec
CHECK_DEADLOCK FALSE
CONSTANTS
    b1 = b1
    b2 = b2
    Specs <- MCSpecs
    Order <- MCOrder
    Requests <- MCRequests
    Evidence = {e1}
    Processes = {p1}
    MaxGeneration = 2
    MaxTime = 1
    None = None
INVARIANTS
    NoSharedWrites
    LatestDispatchReports
    RestartAccepts
    SomeMissionIsReady
