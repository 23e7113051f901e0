--------------------------- MODULE MCOperatorControl ---------------------------
EXTENDS OperatorControl, TLC
===============================================================================
