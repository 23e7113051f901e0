----------------------------- MODULE BudgetTable -----------------------------
(***************************************************************************)
(* The fleet_effect_reservation table of FleetEffectBudgetStore            *)
(* (src/cyber_lion/enterprise/fleet_effect_budget.py): its rows, and what  *)
(* its SQL statements compute from the table and a clock reading t.        *)
(*                                                                         *)
(* expires_at is stored as the caller's text and SQL orders it as text     *)
(* against the UTC text of the clock.  A request therefore carries both    *)
(* the instant it denotes (expires_at) and the instant whose UTC text its  *)
(* own text is ordered as (expires_text): the two agree for the UTC texts  *)
(* that RepositoryMutationPEP writes and differ for other offsets.         *)
(***************************************************************************)
EXTENDS Naturals, FiniteSets

CONSTANTS
    Requests,   \* the reservation requests callers may present
    Envelopes,  \* the envelopes a store object may be constructed with
    None

Time == Nat
Ids == {r.id : r \in Requests}

Terminal == {"RELEASED", "FINALIZED", "EXPIRED"}
States == {"RESERVED"} \cup Terminal

Row == [req : Requests, envelope : Envelopes, state : States,
        expires_at : Time, finalized_at : Time \cup {None}]

ASSUME TableAssumption ==
    /\ IsFiniteSet(Ids)
    /\ \A r \in Requests :
          /\ r.expires_at \in Time /\ r.expires_text \in Time /\ r.generation \in Nat
          /\ {"id", "effect", "key", "repo", "branch", "paths"} \subseteq DOMAIN r
    /\ \A e \in Envelopes :
          /\ {e.generation, e.max_writers, e.max_repo, e.max_branch, e.max_path} \subseteq Nat \ {0}
          /\ e.valid_from \in Time /\ e.expires_at \in Time
          /\ e.valid_from < e.expires_at
    /\ None \notin Requests /\ None \notin Envelopes /\ None \notin Time /\ None \notin Row
------------------------------------------------------------------------------
HasState(table, i, s) == table[i] # None /\ table[i].state = s

Close(row, s, t) == [row EXCEPT !.state = s, !.finalized_at = t]

(* Wrong variants, to confirm that the properties would notice them:       *)
(* expiring rows that are already closed.                                  *)
ExpireAnyState(table, t) ==
    [i \in Ids |-> IF table[i] # None /\ table[i].expires_at <= t
                   THEN Close(table[i], "EXPIRED", t) ELSE table[i]]

_expire_locked(table, t) ==
    [i \in Ids |-> IF HasState(table, i, "RESERVED") /\ table[i].expires_at <= t
                   THEN Close(table[i], "EXPIRED", t) ELSE table[i]]

Active(table, t) ==
    {i \in Ids : HasState(table, i, "RESERVED") /\ t < table[i].expires_at}

InRepo(table, I, repo) == {i \in I : table[i].req.repo = repo}
InBranch(table, I, repo, branch) ==
    {i \in InRepo(table, I, repo) : table[i].req.branch = branch}
OnPath(table, I, repo, path) ==
    {i \in InRepo(table, I, repo) : path \in table[i].req.paths}

\* Wrong variant: only RESERVED rows are looked up.
ReplayedWhileReserved(table, r) ==
    \E i \in Ids : /\ HasState(table, i, "RESERVED")
                   /\ i = r.id \/ table[i].req.effect = r.effect \/ table[i].req.key = r.key

Replayed(table, r) ==
    \E i \in Ids : /\ table[i] # None
                   /\ \/ i = r.id
                      \/ table[i].req.effect = r.effect
                      \/ table[i].req.key = r.key

\* Wrong variant: a limit compared with <=.
SlotsFreeOffByOne(table, e, r, t) ==
    LET A == Active(table, t) IN
    /\ Cardinality(A) <= e.max_writers
    /\ Cardinality(InRepo(table, A, r.repo)) < e.max_repo
    /\ Cardinality(InBranch(table, A, r.repo, r.branch)) < e.max_branch
    /\ \A p \in r.paths : Cardinality(OnPath(table, A, r.repo, p)) <= e.max_path

SlotsFree(table, e, r, t) ==
    LET A == Active(table, t) IN
    /\ Cardinality(A) < e.max_writers
    /\ Cardinality(InRepo(table, A, r.repo)) < e.max_repo
    /\ Cardinality(InBranch(table, A, r.repo, r.branch)) < e.max_branch
    /\ \A p \in r.paths : Cardinality(OnPath(table, A, r.repo, p)) < e.max_path

\* The checks of reserve_exact that precede the transaction.
Presentable(e, r, t) ==
    /\ r.generation = e.generation
    /\ e.valid_from <= t
    /\ t < e.expires_at
    /\ r.expires_at <= e.expires_at
    /\ t < r.expires_at

Reserved(table) == {i \in Ids : HasState(table, i, "RESERVED")}

Limits(table, e) ==
    LET R == Reserved(table) IN
    /\ Cardinality(R) <= e.max_writers
    /\ \A r \in Requests :
          /\ Cardinality(InRepo(table, R, r.repo)) <= e.max_repo
          /\ Cardinality(InBranch(table, R, r.repo, r.branch)) <= e.max_branch
          /\ \A p \in r.paths : Cardinality(OnPath(table, R, r.repo, p)) <= e.max_path
==============================================================================
