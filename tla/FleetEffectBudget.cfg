SPECIFICATION Spec
CONSTANTS
    Callers = {c1, c2}
    Requests <- MCRequests
    Envelopes <- MCEnvelopes
    MaxTime = 2
    None = None
SYMMETRY CallerSymmetry
INVARIANTS
    WithinLimits
    NoReplay
PROPERTIES
    Durable
