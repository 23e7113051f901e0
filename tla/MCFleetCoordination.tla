-------------------------- MODULE MCFleetCoordination --------------------------
EXTENDS FleetCoordination, TLC

CONSTANTS b1, b2

\* A writes a directory, B a file in it after C is done, C elsewhere; A may also be
\* registered so that it closes a cycle with C and B.
A == [mission |-> "a", drone |-> "d1", baseline |-> b1, branch |-> "x", scope |-> {<<"src">>},
      dependencies |-> {}]
LoopA == [A EXCEPT !.dependencies = {"b"}]
B == [mission |-> "b", drone |-> "d2", baseline |-> b1, branch |-> "y", scope |-> {<<"src", "f">>},
      dependencies |-> {"c"}]
C == [mission |-> "c", drone |-> "d3", baseline |-> b1, branch |-> "z", scope |-> {<<"doc">>},
      dependencies |-> {}]
LoopC == [C EXCEPT !.dependencies = {"a"}]

MCSpecs == {A, LoopA, B, C, LoopC}
MCOrder == <<"a", "b", "c">>
MCRequests == {[id |-> "q1", head |-> b1, max |-> 2], [id |-> "q2", head |-> b1, max |-> 1],
               [id |-> "q2", head |-> b2, max |-> 1]}
===============================================================================
