SPECIFICATION Spec
CHECK_DEADLOCK FALSE
CONSTANTS
    MaxRows = 2
    MaxEpoch = 3
    MaxGeneration = 4
    AUTONOMOUS = AUTONOMOUS
    PRIMARY_OPERATOR = PRIMARY_OPERATOR
INVARIANTS
    Contained
    AcceptedUnderOneEpoch
    ReplacedWhenIdle
PROPERTIES
    CancelIsFinal
    LateResultIsKept
