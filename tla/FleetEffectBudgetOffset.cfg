SPECIFICATION Spec
CONSTANTS
    Callers = {c1, c2}
    Requests <- OffsetRequests
    Envelopes <- MCEnvelopes
    MaxTime = 2
    None = None
INVARIANT
    CannotOutliveEnvelope
