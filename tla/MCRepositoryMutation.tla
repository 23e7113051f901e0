------------------------- MODULE MCRepositoryMutation -------------------------
(* Two effects under one grant that name the same admission_id, so that    *)
(* the journal refuses what the budget accepted; both attach to one head.  *)
EXTENDS RepositoryMutation, TLC

Prop(id, key, expires_at) ==
    [id |-> id, effect |-> id, key |-> key, repo |-> "A", branch |-> "main", paths |-> {"p"},
     generation |-> 1, expires_at |-> expires_at, expires_text |-> expires_at,
     grant |-> "g1", leaf_expires |-> expires_at, admission |-> "a1",
     expected |-> "H0", candidate |-> "C1"]

MCRequests == {Prop("e1", "k1", 1), Prop("e3", "k3", 2)}

MCEnvelopes ==
    { [id |-> "env", generation |-> 1, valid_from |-> 0, expires_at |-> 2,
       max_writers |-> 2, max_repo |-> 2, max_branch |-> 2, max_path |-> 2] }

MCCommits == {"H0", "C1", "C2"}

WorkerSymmetry == Permutations(Workers)
===============================================================================
