-------------------------- MODULE MCRepositoryDelete --------------------------
EXTENDS RepositoryDelete, TLC

CONSTANTS e1, h1, h2

MCExecutions == {e1}
MCHeads == {h1, h2}
MCSafe == {h1}
MCKeys == [execution : Executions, head : Safe, master : 1..MaxMaster, trust : 1..MaxTrust]
===============================================================================
