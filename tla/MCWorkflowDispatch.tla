-------------------------- MODULE MCWorkflowDispatch --------------------------
EXTENDS WorkflowDispatch, TLC

CONSTANTS c1, c2, q1

MCComments == {c1, c2}
MCRequestIds == {q1}
SameRequestId == [c \in Comments |-> q1]
MCExpectedHead == [c \in Comments |-> 1]
MCKeys == [comment : Comments, trust : 1..MaxTrust]
===============================================================================
