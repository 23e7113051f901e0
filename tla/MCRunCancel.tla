------------------------------ MODULE MCRunCancel ------------------------------
EXTENDS RunCancel, TLC

MCKeys == [request : Requests, trust : 1..MaxTrust]
===============================================================================
