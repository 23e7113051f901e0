-------------------------- MODULE BudgetTableLemmas --------------------------
(***************************************************************************)
(* What the statements of FleetEffectBudgetStore do to its table, for any  *)
(* requests and envelopes: expiring and closing keep a row's identity, and *)
(* neither they nor an insertion that found room exceed a limit.           *)
(***************************************************************************)
EXTENDS BudgetTable, FiniteSetTheorems, TLAPS

Table == [Ids -> Row \cup {None}]

\* None is not a row, and a row is not None.
LEMMA NoneNotRow == None \notin Row
BY TableAssumption

\* The reservation_id of a request is a reservation_id.
LEMMA IdsOfRequests == \A r \in Requests : r.id \in Ids
BY DEF Ids

\* Closing a row gives a row with the same request, envelope and expiry.
LEMMA ClosedRow ==
    ASSUME NEW row \in Row, NEW s \in Terminal, NEW t \in Time
    PROVE  /\ Close(row, s, t) \in Row
           /\ Close(row, s, t).state = s
           /\ Close(row, s, t).req = row.req
           /\ Close(row, s, t).envelope = row.envelope
           /\ Close(row, s, t).expires_at = row.expires_at
BY DEF Close, Row, States

\* _expire_locked keeps every row, changes only RESERVED ones, and leaves a
\* RESERVED row RESERVED exactly when it is active at t.
LEMMA ExpireTable ==
    ASSUME NEW table \in Table, NEW t \in Time
    PROVE  /\ _expire_locked(table, t) \in Table
           /\ \A i \in Ids :
                /\ _expire_locked(table, t)[i] = None <=> table[i] = None
                /\ table[i] # None =>
                     /\ _expire_locked(table, t)[i].req = table[i].req
                     /\ _expire_locked(table, t)[i].envelope = table[i].envelope
                     /\ _expire_locked(table, t)[i].expires_at = table[i].expires_at
                     /\ ~HasState(table, i, "RESERVED")
                          => _expire_locked(table, t)[i] = table[i]
                /\ HasState(_expire_locked(table, t), i, "RESERVED")
                     => HasState(table, i, "RESERVED")
           /\ Active(_expire_locked(table, t), t) = Reserved(_expire_locked(table, t))
<1> DEFINE T == _expire_locked(table, t)
<1>1. T = [i \in Ids |-> IF HasState(table, i, "RESERVED") /\ table[i].expires_at <= t
                        THEN Close(table[i], "EXPIRED", t) ELSE table[i]]
  BY DEF _expire_locked
<1>2. \A i \in Ids : T[i] = IF HasState(table, i, "RESERVED") /\ table[i].expires_at <= t
                            THEN Close(table[i], "EXPIRED", t) ELSE table[i]
  BY <1>1
<1>3. ASSUME NEW i \in Ids
      PROVE  /\ T[i] \in Row \cup {None}
             /\ T[i] = None <=> table[i] = None
             /\ table[i] # None => /\ T[i].req = table[i].req
                                   /\ T[i].envelope = table[i].envelope
                                   /\ T[i].expires_at = table[i].expires_at
                                   /\ ~HasState(table, i, "RESERVED") => T[i] = table[i]
             /\ HasState(T, i, "RESERVED") => HasState(table, i, "RESERVED") /\ t < T[i].expires_at
  <2>0. table[i] \in Row \cup {None}
    BY DEF Table
  <2>1. CASE HasState(table, i, "RESERVED") /\ table[i].expires_at <= t
    <3>1. table[i] \in Row /\ T[i] = Close(table[i], "EXPIRED", t)
      BY <2>0, <2>1, <1>2 DEF HasState
    <3>2. /\ T[i] \in Row /\ T[i].state = "EXPIRED" /\ T[i].req = table[i].req
          /\ T[i].envelope = table[i].envelope /\ T[i].expires_at = table[i].expires_at
      BY <3>1, ClosedRow DEF Terminal
    <3> QED BY <3>1, <3>2, <2>1, NoneNotRow DEF HasState
  <2>2. CASE ~(HasState(table, i, "RESERVED") /\ table[i].expires_at <= t)
    <3>1. T[i] = table[i]
      BY <2>2, <1>2
    <3>2. HasState(T, i, "RESERVED") => HasState(table, i, "RESERVED")
      BY <3>1 DEF HasState
    <3>3. ASSUME HasState(T, i, "RESERVED") PROVE t < T[i].expires_at
      <4>1. table[i] \in Row /\ ~(table[i].expires_at <= t)
        BY <3>1, <3>2, <3>3, <2>0, <2>2 DEF HasState
      <4>2. table[i].expires_at \in Nat /\ t \in Nat
        BY <4>1 DEF Row, Time
      <4> QED BY <4>1, <4>2, <3>1
    <3> QED BY <3>1, <3>2, <3>3, <2>0
  <2> QED BY <2>1, <2>2
<1>4. T \in Table
  BY <1>1, <1>3 DEF Table
<1>5. Active(T, t) = Reserved(T)
  BY <1>3 DEF Active, Reserved
<1> QED BY <1>3, <1>4, <1>5

\* It closes a row as EXPIRED or leaves it as it was.
LEMMA ExpireState ==
    ASSUME NEW table \in Table, NEW t \in Time, NEW i \in Ids
    PROVE  \/ _expire_locked(table, t)[i] = table[i]
           \/ HasState(table, i, "RESERVED") /\ HasState(_expire_locked(table, t), i, "EXPIRED")
<1>1. CASE HasState(table, i, "RESERVED") /\ table[i].expires_at <= t
  <2>1. table[i] \in Row /\ _expire_locked(table, t)[i] = Close(table[i], "EXPIRED", t)
    BY <1>1 DEF _expire_locked, HasState, Table
  <2>2. Close(table[i], "EXPIRED", t) \in Row /\ Close(table[i], "EXPIRED", t).state = "EXPIRED"
    BY <2>1, ClosedRow DEF Terminal
  <2> QED BY <1>1, <2>1, <2>2, NoneNotRow DEF HasState
<1>2. CASE ~(HasState(table, i, "RESERVED") /\ table[i].expires_at <= t)
  BY <1>2 DEF _expire_locked
<1> QED BY <1>1, <1>2

\* Cardinalities of sets of reservation ids are naturals and grow with the set.
LEMMA IdSets ==
    ASSUME NEW S \in SUBSET Ids, NEW T \in SUBSET S
    PROVE  /\ Cardinality(S) \in Nat /\ Cardinality(T) \in Nat
           /\ Cardinality(T) <= Cardinality(S)
<1>1. IsFiniteSet(Ids)
  BY TableAssumption
<1>2. IsFiniteSet(S)
  BY <1>1, FS_Subset
<1> QED BY <1>2, FS_Subset, FS_CardinalityType

\* Adding one id adds at most one.
LEMMA IdSetsAdd ==
    ASSUME NEW S \in SUBSET Ids, NEW x \in Ids, NEW T \in SUBSET (S \cup {x}), NEW n \in Nat,
           Cardinality(S) < n
    PROVE  Cardinality(T) <= n
<1>1. IsFiniteSet(S)
  BY TableAssumption, FS_Subset
<1>2. Cardinality(S) \in Nat /\ Cardinality(S \cup {x}) <= Cardinality(S) + 1
  BY <1>1, FS_AddElement, FS_CardinalityType
<1>3. (S \cup {x}) \in SUBSET Ids
  OBVIOUS
<1>4. Cardinality(T) <= Cardinality(S \cup {x}) /\ Cardinality(T) \in Nat /\ Cardinality(S \cup {x}) \in Nat
  BY <1>3, IdSets
<1> QED BY <1>2, <1>4

\* A table whose RESERVED rows are RESERVED in a table within the limits, for
\* the same requests, is within the limits.
LEMMA LimitsShrink ==
    ASSUME NEW table \in Table, NEW table2 \in Table, NEW e \in Envelopes, Limits(table, e),
           \A i \in Ids : HasState(table2, i, "RESERVED")
               => HasState(table, i, "RESERVED") /\ table2[i].req = table[i].req
    PROVE  Limits(table2, e)
<1> DEFINE R == Reserved(table)  R2 == Reserved(table2)
<1>0. {e.max_writers, e.max_repo, e.max_branch, e.max_path} \subseteq Nat
  BY TableAssumption
<1>1. R2 \in SUBSET R /\ R \in SUBSET Ids /\ R2 \in SUBSET Ids
  BY DEF Reserved
<1>1a. \A i \in R2 : table2[i].req = table[i].req
  BY DEF Reserved
<1>2. Cardinality(R2) <= e.max_writers
  BY <1>0, <1>1, IdSets DEF Limits
<1>3. ASSUME NEW r \in Requests
      PROVE  Cardinality(InRepo(table2, R2, r.repo)) <= e.max_repo
  <2>1. InRepo(table2, R2, r.repo) \in SUBSET InRepo(table, R, r.repo)
    BY <1>1, <1>1a DEF InRepo
  <2>2. InRepo(table, R, r.repo) \in SUBSET Ids
    BY <1>1 DEF InRepo
  <2>3. Cardinality(InRepo(table, R, r.repo)) <= e.max_repo
    BY DEF Limits
  <2> QED BY <1>0, <2>1, <2>2, <2>3, IdSets
<1>4. ASSUME NEW r \in Requests
      PROVE  Cardinality(InBranch(table2, R2, r.repo, r.branch)) <= e.max_branch
  <2>1. InBranch(table2, R2, r.repo, r.branch) \in SUBSET InBranch(table, R, r.repo, r.branch)
    BY <1>1, <1>1a DEF InBranch, InRepo
  <2>2. InBranch(table, R, r.repo, r.branch) \in SUBSET Ids
    BY <1>1 DEF InBranch, InRepo
  <2>3. Cardinality(InBranch(table, R, r.repo, r.branch)) <= e.max_branch
    BY DEF Limits
  <2> QED BY <1>0, <2>1, <2>2, <2>3, IdSets
<1>5. ASSUME NEW r \in Requests, NEW p \in r.paths
      PROVE  Cardinality(OnPath(table2, R2, r.repo, p)) <= e.max_path
  <2>1. OnPath(table2, R2, r.repo, p) \in SUBSET OnPath(table, R, r.repo, p)
    BY <1>1, <1>1a DEF OnPath, InRepo
  <2>2. OnPath(table, R, r.repo, p) \in SUBSET Ids
    BY <1>1 DEF OnPath, InRepo
  <2>3. Cardinality(OnPath(table, R, r.repo, p)) <= e.max_path
    BY DEF Limits
  <2> QED BY <1>0, <2>1, <2>2, <2>3, IdSets
<1> QED BY <1>2, <1>3, <1>4, <1>5 DEF Limits

\* Adding one row for which SlotsFree found room keeps the limits: only the
\* sets of the row's own repository, branch and paths grow.
LEMMA LimitsInsert ==
    ASSUME NEW table \in Table, NEW e \in Envelopes, NEW r \in Requests, NEW t \in Time,
           NEW row \in Row, row.req = r,
           NEW table2 \in Table, table2[r.id] = row,
           \A i \in Ids \ {r.id} : table2[i] = table[i],
           Limits(table, e), SlotsFree(table, e, r, t),
           Active(table, t) = Reserved(table)
    PROVE  Limits(table2, e)
<1> DEFINE R == Reserved(table)  R2 == Reserved(table2)
<1>0. {e.max_writers, e.max_repo, e.max_branch, e.max_path} \subseteq Nat
  BY TableAssumption
<1>1. r.id \in Ids
  BY IdsOfRequests
<1>2. table2[r.id] = row /\ \A i \in Ids \ {r.id} : table2[i] = table[i]
  OBVIOUS
<1>3. R \in SUBSET Ids /\ R2 \in SUBSET (R \cup {r.id}) /\ R2 \in SUBSET Ids
  BY <1>1, <1>2 DEF Reserved, HasState
<1>4. /\ Cardinality(R) < e.max_writers
      /\ Cardinality(InRepo(table, R, r.repo)) < e.max_repo
      /\ Cardinality(InBranch(table, R, r.repo, r.branch)) < e.max_branch
      /\ \A p \in r.paths : Cardinality(OnPath(table, R, r.repo, p)) < e.max_path
  BY DEF SlotsFree
<1>5. Cardinality(R2) <= e.max_writers
  BY <1>0, <1>1, <1>3, <1>4, IdSetsAdd
<1>6. ASSUME NEW q \in Requests
      PROVE  Cardinality(InRepo(table2, R2, q.repo)) <= e.max_repo
  <2>1. InRepo(table, R, q.repo) \in SUBSET Ids
    BY <1>3 DEF InRepo
  <2>2. CASE q.repo = r.repo
    <3>1. InRepo(table2, R2, q.repo) \in SUBSET (InRepo(table, R, q.repo) \cup {r.id})
      BY <1>2, <1>3 DEF InRepo
    <3> QED BY <1>0, <1>1, <1>4, <2>1, <2>2, <3>1, IdSetsAdd
  <2>3. CASE q.repo # r.repo
    <3>1. InRepo(table2, R2, q.repo) \in SUBSET InRepo(table, R, q.repo)
      BY <1>2, <1>3, <2>3 DEF InRepo
    <3>2. Cardinality(InRepo(table, R, q.repo)) <= e.max_repo
      BY DEF Limits
    <3>3. /\ Cardinality(InRepo(table2, R2, q.repo)) <= Cardinality(InRepo(table, R, q.repo))
          /\ Cardinality(InRepo(table2, R2, q.repo)) \in Nat /\ Cardinality(InRepo(table, R, q.repo)) \in Nat
      BY <2>1, <3>1, IdSets
    <3>4. e.max_repo \in Nat
      BY <1>0
    <3> QED BY <3>2, <3>3, <3>4
  <2> QED BY <2>2, <2>3
<1>7. ASSUME NEW q \in Requests
      PROVE  Cardinality(InBranch(table2, R2, q.repo, q.branch)) <= e.max_branch
  <2>1. InBranch(table, R, q.repo, q.branch) \in SUBSET Ids
    BY <1>3 DEF InBranch, InRepo
  <2>2. CASE q.repo = r.repo /\ q.branch = r.branch
    <3>1. InBranch(table2, R2, q.repo, q.branch) \in SUBSET (InBranch(table, R, q.repo, q.branch) \cup {r.id})
      BY <1>2, <1>3 DEF InBranch, InRepo
    <3> QED BY <1>0, <1>1, <1>4, <2>1, <2>2, <3>1, IdSetsAdd
  <2>3. CASE ~(q.repo = r.repo /\ q.branch = r.branch)
    <3>1. InBranch(table2, R2, q.repo, q.branch) \in SUBSET InBranch(table, R, q.repo, q.branch)
      BY <1>2, <1>3, <2>3 DEF InBranch, InRepo
    <3>2. Cardinality(InBranch(table, R, q.repo, q.branch)) <= e.max_branch
      BY DEF Limits
    <3>3. /\ Cardinality(InBranch(table2, R2, q.repo, q.branch)) <= Cardinality(InBranch(table, R, q.repo, q.branch))
          /\ Cardinality(InBranch(table2, R2, q.repo, q.branch)) \in Nat /\ Cardinality(InBranch(table, R, q.repo, q.branch)) \in Nat
      BY <2>1, <3>1, IdSets
    <3>4. e.max_branch \in Nat
      BY <1>0
    <3> QED BY <3>2, <3>3, <3>4
  <2> QED BY <2>2, <2>3
<1>8. ASSUME NEW q \in Requests, NEW p \in q.paths
      PROVE  Cardinality(OnPath(table2, R2, q.repo, p)) <= e.max_path
  <2>1. OnPath(table, R, q.repo, p) \in SUBSET Ids
    BY <1>3 DEF OnPath, InRepo
  <2>2. CASE q.repo = r.repo /\ p \in r.paths
    <3>1. OnPath(table2, R2, q.repo, p) \in SUBSET (OnPath(table, R, q.repo, p) \cup {r.id})
      BY <1>2, <1>3 DEF OnPath, InRepo
    <3> QED BY <1>0, <1>1, <1>4, <2>1, <2>2, <3>1, IdSetsAdd
  <2>3. CASE ~(q.repo = r.repo /\ p \in r.paths)
    <3>1. OnPath(table2, R2, q.repo, p) \in SUBSET OnPath(table, R, q.repo, p)
      BY <1>2, <1>3, <2>3 DEF OnPath, InRepo
    <3>2. Cardinality(OnPath(table, R, q.repo, p)) <= e.max_path
      BY DEF Limits
    <3>3. /\ Cardinality(OnPath(table2, R2, q.repo, p)) <= Cardinality(OnPath(table, R, q.repo, p))
          /\ Cardinality(OnPath(table2, R2, q.repo, p)) \in Nat /\ Cardinality(OnPath(table, R, q.repo, p)) \in Nat
      BY <2>1, <3>1, IdSets
    <3>4. e.max_path \in Nat
      BY <1>0
    <3> QED BY <3>2, <3>3, <3>4
  <2> QED BY <2>2, <2>3
<1> QED BY <1>5, <1>6, <1>7, <1>8 DEF Limits

\* A table without rows is within every limit.
LEMMA LimitsEmpty ==
    ASSUME NEW table \in Table, NEW e \in Envelopes, \A i \in Ids : table[i] = None
    PROVE  Limits(table, e)
<1>1. Reserved(table) = {}
  BY DEF Reserved, HasState
<1>2. \A repo, branch : /\ InRepo(table, {}, repo) = {}
                        /\ InBranch(table, {}, repo, branch) = {}
                        /\ OnPath(table, {}, repo, branch) = {}
  BY DEF InRepo, InBranch, OnPath
<1>3. {e.max_writers, e.max_repo, e.max_branch, e.max_path} \subseteq Nat
  BY TableAssumption
<1> QED BY <1>1, <1>2, <1>3, FS_EmptySet DEF Limits

\* What an operation's transaction may do to the table without adding a row:
\* close RESERVED rows, and change nothing else of any row.
OnlyCloses(table, table2) ==
    \A i \in Ids :
        /\ table2[i] = None <=> table[i] = None
        /\ table[i] # None =>
             /\ table2[i].req = table[i].req
             /\ table2[i].envelope = table[i].envelope
             /\ table2[i].expires_at = table[i].expires_at
             /\ ~HasState(table, i, "RESERVED") => table2[i] = table[i]
        /\ HasState(table2, i, "RESERVED") => HasState(table, i, "RESERVED")
==============================================================================
