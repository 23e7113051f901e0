SPECIFICATION Spec
CONSTANTS
    Clients = {c1, c2}
    Lineages <- MCLineages
    Nonces = {n1}
    Evidence = {d1, d2}
    MaxEpoch = 1
    MaxVersion = 3
    MaxReceipts = 1
    None = None
SYMMETRY ClientSymmetry
INVARIANTS
    AcceptedOnce
PROPERTIES
    RevocationIsForever
