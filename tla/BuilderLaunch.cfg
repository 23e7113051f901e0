SPECIFICATION Spec
CONSTANTS
    Workers = {w1, w2}
    Admissions = {a1}
    Descriptors = {d1, d2}
    Launches = {l1, l2, l3}
    MaxDrifts = 2
    None = None
SYMMETRY Symmetric
INVARIANTS
    StartedOnce
    Recoverable
    ReceiptIsEvidence
