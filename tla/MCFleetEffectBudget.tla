------------------------ MODULE MCFleetEffectBudget ------------------------
(* Two callers, three rival envelopes, and requests that meet each limit   *)
(* alone: r1 and r2 have one branch, r1 and r3 one path, and r2 and r3     *)
(* only the repository or the writers of the fleet.  r4 presents an effect *)
(* and a key again, in another repository and under another id.            *)
EXTENDS FleetEffectBudget, TLC

Req(id, effect, key, repo, branch, paths, generation, expires_at, expires_text) ==
    [id |-> id, effect |-> effect, key |-> key, repo |-> repo, branch |-> branch,
     paths |-> paths, generation |-> generation, expires_at |-> expires_at,
     expires_text |-> expires_text]

MCRequests ==
    { Req("r1", "e1", "k1", "A", "main", {"p"}, 1, 1, 1),
      Req("r2", "e2", "k2", "A", "main", {"q"}, 1, 2, 2),
      Req("r3", "e3", "k3", "A", "dev", {"p", "s"}, 1, 2, 2),
      Req("r4", "e1", "k2", "B", "main", {"p"}, 1, 2, 2) }

\* One request whose expiry is instant 1, written with an offset whose text is
\* ordered like the UTC text of instant 3, and an envelope that ends at 2.
OffsetRequests == {Req("r1", "e1", "k1", "A", "main", {"p"}, 1, 1, 3)}

Env(id, max_writers, max_repo, max_branch, max_path) ==
    [id |-> id, generation |-> 1, valid_from |-> 0, expires_at |-> 2,
     max_writers |-> max_writers, max_repo |-> max_repo,
     max_branch |-> max_branch, max_path |-> max_path]

MCEnvelopes ==
    {Env("wide", 2, 2, 1, 1), Env("one_per_repo", 2, 1, 1, 1), Env("one_writer", 1, 2, 1, 1)}

CallerSymmetry == Permutations(Callers)
=============================================================================
