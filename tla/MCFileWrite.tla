------------------------------ MODULE MCFileWrite ------------------------------
EXTENDS FileWrite, TLC

CONSTANTS r1, r2, old, new, i1

MCContents == {old, new}
MCInodes == {i1}
Create == [id |-> r1, mode |-> "CREATE_ONLY", previous |-> None, content |-> new]
Replacement == [id |-> r2, mode |-> "REPLACE", previous |-> old, content |-> new]
MCRequests == {Create, Replacement}
MCPermissions == {"admin", "write", "read"}
MCTrusted == {"admin", "write"}
MCKeys == [request : MCRequests, permission : MCTrusted]

\* The bounds of the instance satisfy what the proofs ask of the constants.
ASSUME FileAssumption == FileConstants
===============================================================================
