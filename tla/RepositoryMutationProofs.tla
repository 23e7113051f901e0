----------------------- MODULE RepositoryMutationProofs -----------------------
(***************************************************************************)
(* RepositoryMutation for any workers, proposals, commits and bounds: its  *)
(* safety invariants hold, adjudicated outcomes are final, and it          *)
(* implements AttachOnce.                                                  *)
(*                                                                         *)
(* The inductive invariant says what a worker at each place may rely on    *)
(* (Local), that no two workers are between reserving and preparing one    *)
(* effect, or between recording its attempt and sending it (Exclusive),    *)
(* and how a journal entry, its budget row and its request to the provider *)
(* are related (Entries).                                                  *)
(***************************************************************************)
EXTENDS RepositoryMutation, BudgetTableLemmas

Admitting == {"a_validate", "a_prepare", "a_release"}
Attempting == {"e_final_authority", "e_final_budget", "e_cas"}
Adjudicating == {"observe", "record"}
Closing == {"close", "finalize"}
Executing == {"e_load", "e_observe", "e_revalidate", "e_validate", "e_attempt", "e_wait"}
             \cup Attempting \cup Adjudicating \cup Closing

Final(e) == e.status \in {"APPLIED", "FAILED_NO_EFFECT"}

LocalOf(w) ==
    /\ pc[w] # "idle" => prop[w] \in Requests
    /\ pc[w] \in Admitting =>
          /\ journal[Id(w)] = None
          /\ HasState(rows, Id(w), "RESERVED") \/ HasState(rows, Id(w), "EXPIRED")
    /\ pc[w] \in Executing => journal[Id(w)] # None
    /\ pc[w] \in Attempting \cup {"e_wait"} \cup Adjudicating => journal[Id(w)].attempted
    /\ pc[w] \in Attempting => casSent[Id(w)] = 0
    /\ pc[w] \in Closing => Final(journal[Id(w)])
    /\ result[w] = "FAILED_NO_EFFECT" =>
          pc[w] \in Adjudicating \cup Closing /\ cas[Id(w)] = "refused"
Local == \A w \in Workers : LocalOf(w)

Exclusive ==
    \A v, w \in Workers : v # w /\ pc[v] # "idle" /\ pc[w] # "idle" /\ Id(v) = Id(w) =>
        /\ ~(pc[v] \in Admitting /\ pc[w] \in Admitting)
        /\ ~(pc[v] \in Attempting /\ pc[w] \in Attempting)

EntryOK(i) ==
    /\ casSent[i] \in {0, 1}
    /\ casSent[i] = 0 => cas[i] = "none"
    /\ casSent[i] = 1 => journal[i] # None /\ journal[i].attempted
    /\ journal[i] # None => rows[i] # None
    /\ journal[i] # None /\ ~journal[i].attempted => journal[i].status = "PREPARED"
    /\ journal[i] # None /\ journal[i].status = "FAILED_NO_EFFECT" => cas[i] = "refused"
    /\ HasState(rows, i, "FINALIZED") => journal[i] # None /\ Final(journal[i])
    /\ HasState(rows, i, "RELEASED") => journal[i] = None

Entries ==
    /\ \A i \in Ids : EntryOK(i)
    /\ \A i, j \in Ids : journal[i] # None /\ journal[j] # None /\ i # j =>
          Proposal[i].key # Proposal[j].key

IInv == TypeOK /\ Local /\ Exclusive /\ Entries
-------------------------------------------------------------------------------
(* Facts about proposals, entries and the table.                           *)

\* A proposal is found again under its reservation_id.
LEMMA ProposalOfId == \A p \in Requests : p.id \in Ids /\ Proposal[p.id] = p
<1> SUFFICES ASSUME NEW p \in Requests PROVE p.id \in Ids /\ Proposal[p.id] = p
  OBVIOUS
<1>1. p.id \in Ids
  BY IdsOfRequests
<1>2. Proposal[p.id] = CHOOSE q \in Requests : q.id = p.id
  BY <1>1 DEF Proposal
<1>3. (CHOOSE q \in Requests : q.id = p.id) \in Requests /\ (CHOOSE q \in Requests : q.id = p.id).id = p.id
  OBVIOUS
<1> QED BY <1>1, <1>2, <1>3, MutationAssumption

\* The one envelope of the database.
LEMMA EnvelopeExists == Envelope \in Envelopes
<1>1. Envelopes # {}
  BY MutationAssumption
<1> QED BY <1>1 DEF Envelope

\* The initial states satisfy the invariant.
LEMMA InitIInv == Init => IInv
<1> SUFFICES ASSUME Init PROVE IInv
  OBVIOUS
<1>1. TypeOK
  BY MutationAssumption DEF Init, TypeOK, Places, Time
<1>2. Local /\ Exclusive
  BY MutationAssumption DEF Init, Local, LocalOf, Exclusive, Admitting, Attempting, Adjudicating, Closing, Executing
<1>3. Entries
  BY DEF Init, Entries, EntryOK, HasState
<1> QED BY <1>1, <1>2, <1>3 DEF IInv

\* The invariant is enough for the safety properties.
LEMMA IInvSafe ==
  IInv => TypeOK /\ SpentOnce /\ JournaledAndCharged /\ NoEffectIsTrue /\ BudgetFollowsJournal
<1> SUFFICES ASSUME IInv
             PROVE  SpentOnce /\ JournaledAndCharged /\ NoEffectIsTrue /\ BudgetFollowsJournal
  BY DEF IInv
<1>1. \A i \in Ids : casSent[i] > 0 => casSent[i] = 1 /\ journal[i] # None /\ journal[i].attempted
  BY DEF IInv, Entries, EntryOK
<1>2. SpentOnce
  BY <1>1 DEF SpentOnce, IInv, Entries, EntryOK
<1>3. JournaledAndCharged
  BY <1>1 DEF JournaledAndCharged, IInv, Entries, EntryOK, HasState
<1>4. NoEffectIsTrue /\ BudgetFollowsJournal
  BY DEF NoEffectIsTrue, BudgetFollowsJournal, IInv, Entries, EntryOK, Final
<1> QED BY <1>2, <1>3, <1>4
-------------------------------------------------------------------------------
(* Steps of a worker that write neither the journal nor a new row.         *)

\* What a transaction that only expires rows may do to the table.
Expires == rows' \in Table /\ \A i \in Ids :
    rows'[i] = rows[i] \/ (HasState(rows, i, "RESERVED") /\ HasState(rows', i, "EXPIRED"))

\* Reading the budget, and reading nothing, are such transactions.
LEMMA ReadsExpire == IInv /\ (BudgetRead \/ UNCHANGED rows) => Expires
  BY ExpireState, ExpireTable DEF IInv, TypeOK, Table, BudgetRead, Expires

\* Entries are kept when the table only expires.
LEMMA EntriesKept ==
  ASSUME IInv, Expires, UNCHANGED <<journal, cas, casSent>>
  PROVE  Entries'
<1>1. \A i \in Ids : /\ rows[i] # None => rows'[i] # None
                     /\ HasState(rows', i, "FINALIZED") => HasState(rows, i, "FINALIZED")
                     /\ HasState(rows', i, "RELEASED") => HasState(rows, i, "RELEASED")
  BY DEF Expires, HasState
<1>2. ASSUME NEW i \in Ids PROVE EntryOK(i)'
  BY <1>1 DEF IInv, Entries, EntryOK, Final
<1>3. \A i, j \in Ids : journal'[i] # None /\ journal'[j] # None /\ i # j =>
        Proposal[i].key # Proposal[j].key
  BY DEF IInv, Entries
<1> QED BY <1>2, <1>3 DEF Entries

\* What another worker relies on is kept.
LEMMA LocalKept ==
  ASSUME IInv, NEW v \in Workers, Expires, UNCHANGED <<journal, cas, casSent>>,
         pc'[v] = pc[v], prop'[v] = prop[v], result'[v] = result[v]
  PROVE  LocalOf(v)'
<1>1. LocalOf(v)
  BY DEF IInv, Local
<1>2. pc[v] # "idle" => Id(v) \in Ids
  BY <1>1, ProposalOfId DEF LocalOf, Id
<1>3. pc[v] \in Admitting => HasState(rows', Id(v), "RESERVED") \/ HasState(rows', Id(v), "EXPIRED")
  BY <1>1, <1>2 DEF LocalOf, Expires, HasState, Admitting
<1> QED BY <1>1, <1>2, <1>3 DEF LocalOf, Id, Final, Admitting, Attempting, Adjudicating, Closing, Executing

\* A worker ends its call.
LEMMA EndIInv ==
  ASSUME IInv, NEW w \in Workers, End(w), Expires, TypeOK',
         UNCHANGED <<journal, cas, casSent>>
  PROVE  IInv'
<1>1. \A v \in Workers : v # w => pc'[v] = pc[v] /\ prop'[v] = prop[v] /\ result'[v] = result[v]
  BY DEF End, Goto, IInv, TypeOK
<1>2. pc'[w] = "idle" /\ result'[w] = None
  BY DEF End, Goto, IInv, TypeOK
<1>3. None # "FAILED_NO_EFFECT"
  BY MutationAssumption
<1>4. Local'
  <2>1. ASSUME NEW v \in Workers, v # w PROVE LocalOf(v)'
    BY <1>1, <2>1, LocalKept
  <2>2. LocalOf(w)'
    BY <1>2, <1>3 DEF LocalOf, Admitting, Attempting, Adjudicating, Closing, Executing
  <2> QED BY <2>1, <2>2 DEF Local
<1>5. Exclusive'
  BY <1>1, <1>2 DEF IInv, Exclusive, Id
<1> QED BY <1>4, <1>5, EntriesKept DEF IInv

\* A worker goes on to place q, having what q relies on.
LEMMA MoveIInv ==
  ASSUME IInv, NEW w \in Workers, NEW q \in Places, Goto(w, q), Expires, TypeOK',
         UNCHANGED <<journal, cas, casSent, prop>>,
         \A v \in Workers : v # w => result'[v] = result[v],
         result'[w] = "FAILED_NO_EFFECT" =>
            q \in Adjudicating \cup Closing /\ cas[Id(w)] = "refused",
         pc[w] # "idle",
         q \in Admitting => pc[w] \in Admitting,
         q \in Executing => journal[Id(w)] # None,
         q \in Attempting => pc[w] \in Attempting,
         q \in {"e_wait"} \cup Adjudicating => journal[Id(w)].attempted,
         q \in Closing => Final(journal[Id(w)])
  PROVE  IInv'
<1>1. \A v \in Workers : pc'[v] = IF v = w THEN q ELSE pc[v]
  BY DEF Goto, IInv, TypeOK
<1>2. Local'
  <2>1. ASSUME NEW v \in Workers, v # w PROVE LocalOf(v)'
    BY <1>1, <2>1, LocalKept
  <2>2. LocalOf(w)'
    <3>1. LocalOf(w)
      BY DEF IInv, Local
    <3>2. Id(w) \in Ids /\ prop'[w] = prop[w] /\ pc'[w] = q
      BY <1>1, <3>1, ProposalOfId DEF LocalOf, Id
    <3>3. q \in Admitting => HasState(rows', Id(w), "RESERVED") \/ HasState(rows', Id(w), "EXPIRED")
      BY <3>1, <3>2 DEF LocalOf, Expires, HasState
    <3> QED BY <3>1, <3>2, <3>3 DEF LocalOf, Id, Final, Admitting, Attempting, Adjudicating, Closing, Executing
  <2> QED BY <2>1, <2>2 DEF Local
<1>3. Exclusive'
  BY <1>1 DEF IInv, Exclusive, Id
<1> QED BY <1>2, <1>3, EntriesKept DEF IInv

\* Types are kept by a worker that ends or moves on, the stores aside.
LEMMA TypeKept ==
  ASSUME IInv, NEW w \in Workers, rows' \in Table, UNCHANGED <<environment, provider, journal>>,
         End(w) \/ \E q \in Places : Goto(w, q) /\ UNCHANGED worker
  PROVE  TypeOK'
  BY DEF IInv, TypeOK, Table, End, Goto, Places, Time, environment, provider, worker

\* A step that ends the call unless ok holds, and then goes on to q.
LEMMA GoOrEndIInv ==
  ASSUME IInv, NEW w \in Workers, NEW ok \in BOOLEAN, NEW q \in Places, GoOrEnd(w, ok, q),
         Expires, UNCHANGED <<environment, provider, journal>>,
         pc[w] # "idle",
         pc[w] \in Adjudicating \cup Closing => q \in Adjudicating \cup Closing,
         q \in Admitting => pc[w] \in Admitting,
         ok /\ q \in Executing => journal[Id(w)] # None,
         q \in Attempting => pc[w] \in Attempting,
         ok /\ q \in {"e_wait"} \cup Adjudicating => journal[Id(w)].attempted,
         q \in Closing => pc[w] \in Closing
  PROVE  IInv'
<1>1. TypeOK'
  BY TypeKept DEF GoOrEnd, Expires
<1>2. CASE ~ok
  BY <1>1, <1>2, EndIInv DEF GoOrEnd, provider
<1>3. CASE ok
  <2>1. LocalOf(w)
    BY DEF IInv, Local
  <2>2. result'[w] = "FAILED_NO_EFFECT" => q \in Adjudicating \cup Closing /\ cas[Id(w)] = "refused"
    BY <1>3, <2>1 DEF LocalOf, GoOrEnd, worker
  <2>3. q \in Closing => Final(journal[Id(w)])
    BY <2>1 DEF LocalOf
  <2> QED BY <1>1, <1>3, <2>2, <2>3, MoveIInv DEF GoOrEnd, worker, provider
<1> QED BY <1>2, <1>3

\* The checks of admit and execute, and the reads of the budget between them.
LEMMA CheckIInv ==
  ASSUME IInv, NEW w \in Workers,
         \/ AdmitObserve(w) \/ AdmitValidate(w)
         \/ _load_budget_for_admission(w) \/ ExecuteObserve(w) \/ ExecuteRevalidate(w)
         \/ ExecuteValidate(w) \/ _finalize_budget(w)
  PROVE  IInv'
<1> USE DEF At, Places, Admitting, Attempting, Adjudicating, Closing, Executing
<1>0. LocalOf(w)
  BY DEF IInv, Local
<1>1. CASE AdmitObserve(w)
  BY <1>1, ReadsExpire, GoOrEndIInv DEF AdmitObserve, stores
<1>2. CASE AdmitValidate(w)
  BY <1>2, ReadsExpire, GoOrEndIInv DEF AdmitValidate, BudgetCurrent, HasState
<1>3. CASE _load_budget_for_admission(w)
  BY <1>0, <1>3, ReadsExpire, GoOrEndIInv DEF _load_budget_for_admission, BudgetCurrent, HasState, LocalOf
<1>4. CASE ExecuteObserve(w)
  BY <1>0, <1>4, ReadsExpire, GoOrEndIInv DEF ExecuteObserve, stores, LocalOf
<1>5. CASE ExecuteRevalidate(w)
  BY <1>0, <1>5, ReadsExpire, GoOrEndIInv DEF ExecuteRevalidate, AuthorityCurrent, stores, LocalOf
<1>6. CASE ExecuteValidate(w)
  BY <1>0, <1>6, ReadsExpire, GoOrEndIInv DEF ExecuteValidate, BudgetCurrent, HasState, LocalOf
<1>7. CASE _finalize_budget(w)
  BY <1>0, <1>7, ReadsExpire, GoOrEndIInv DEF _finalize_budget, BudgetCurrent, HasState, LocalOf
<1> QED BY <1>1, <1>2, <1>3, <1>4, <1>5, <1>6, <1>7

\* The remaining steps that write neither the journal nor a new row.
LEMMA MovesIInv ==
  ASSUME IInv, NEW w \in Workers,
         \/ AdmitRevalidate(w) \/ ExecuteGet(w) \/ FinalAuthority(w) \/ FinalBudget(w)
         \/ CasReply(w) \/ CasLost(w) \/ Observe(w) \/ ObserveFails(w) \/ Crash(w)
  PROVE  IInv'
<1> USE DEF At, Places, Admitting, Attempting, Adjudicating, Closing, Executing
<1>0. LocalOf(w)
  BY DEF IInv, Local
<1>a. pc[w] # "idle" => Id(w) \in Ids
  BY <1>0, ProposalOfId DEF LocalOf, Id
<1>1. CASE AdmitRevalidate(w)
  <2>1. Expires
    BY <1>1, ReadsExpire DEF AdmitRevalidate, stores
  <2>2. CASE AuthorityCurrent(w)
    <3>1. TypeOK'
      BY <1>1, <2>2 DEF AdmitRevalidate, IInv, TypeOK, Goto, environment, provider, stores
    <3> QED BY <1>0, <1>1, <2>1, <2>2, <3>1, MoveIInv DEF AdmitRevalidate, LocalOf, provider, stores
  <2>3. CASE ~AuthorityCurrent(w)
    <3>1. TypeOK'
      BY <1>1, <2>1, <2>3, TypeKept DEF AdmitRevalidate, Expires, stores
    <3> QED BY <1>1, <2>1, <2>3, <3>1, EndIInv DEF AdmitRevalidate, provider, stores
  <2> QED BY <2>2, <2>3
<1>2. CASE ExecuteGet(w)
  <2>1. Expires
    BY <1>2, ReadsExpire DEF ExecuteGet, stores
  <2>2. CASE journal[Id(w)] # None /\ NeedsReconcile(journal[Id(w)])
    <3>1. journal[Id(w)].attempted
      BY <1>2, <1>a, <2>2 DEF ExecuteGet, NeedsReconcile, IInv, Entries, EntryOK, TypeOK, Entry
    <3>2. TypeOK'
      BY <1>2, <2>1, <2>2, TypeKept DEF ExecuteGet, Expires, stores
    <3> QED BY <1>0, <1>2, <2>1, <2>2, <3>1, <3>2, MoveIInv DEF ExecuteGet, LocalOf, provider, stores, worker
  <2>3. CASE ~(journal[Id(w)] # None /\ NeedsReconcile(journal[Id(w)]))
    BY <1>2, <2>1, <2>3, GoOrEndIInv DEF ExecuteGet, stores, NeedsExecution
  <2> QED BY <2>2, <2>3
<1>3. CASE FinalAuthority(w)
  <2>1. Expires
    BY <1>3, ReadsExpire DEF FinalAuthority, stores
  <2>2. PICK q \in {"e_final_budget", "record"} : Goto(w, q)
    BY <1>3 DEF FinalAuthority
  <2>3. TypeOK'
    BY <1>3, <2>1, <2>2, TypeKept DEF FinalAuthority, Expires, stores
  <2> QED BY <1>0, <1>3, <2>1, <2>2, <2>3, MoveIInv DEF FinalAuthority, LocalOf, provider, stores, worker
<1>4. CASE FinalBudget(w)
  <2>1. Expires
    BY <1>4, ReadsExpire DEF FinalBudget
  <2>2. PICK q \in {"e_cas", "record"} : Goto(w, q)
    BY <1>4 DEF FinalBudget
  <2>3. TypeOK'
    BY <1>4, <2>1, <2>2, TypeKept DEF FinalBudget, Expires
  <2> QED BY <1>0, <1>4, <2>1, <2>2, <2>3, MoveIInv DEF FinalBudget, LocalOf, provider, worker
<1>5. CASE CasReply(w)
  <2>1. Expires
    BY <1>5, ReadsExpire DEF CasReply, stores
  <2>2. TypeOK'
    BY <1>5 DEF CasReply, IInv, TypeOK, Goto, environment, provider, stores
  <2>3. result'[w] = "FAILED_NO_EFFECT" => cas[Id(w)] = "refused"
    BY <1>5 DEF CasReply, IInv, TypeOK
  <2>4. \A v \in Workers : v # w => result'[v] = result[v]
    BY <1>5 DEF CasReply, IInv, TypeOK
  <2> QED BY <1>0, <1>5, <2>1, <2>2, <2>3, <2>4, MoveIInv DEF CasReply, LocalOf, provider, stores
<1>6. CASE CasLost(w)
  <2>1. Expires
    BY <1>6, ReadsExpire DEF CasLost, stores
  <2>2. TypeOK'
    BY <1>6, <2>1, TypeKept DEF CasLost, Expires, stores
  <2> QED BY <1>0, <1>6, <2>1, <2>2, MoveIInv DEF CasLost, LocalOf, provider, stores, worker
<1>7. CASE Observe(w) \/ ObserveFails(w)
  <2>1. Expires
    BY <1>7, ReadsExpire DEF Observe, ObserveFails, stores
  <2>2. TypeOK'
    BY <1>7 DEF Observe, ObserveFails, IInv, TypeOK, Goto, environment, provider, stores, worker
  <2> QED BY <1>0, <1>7, <2>1, <2>2, MoveIInv DEF Observe, ObserveFails, LocalOf, provider, stores, worker
<1>8. CASE Crash(w)
  <2>1. Expires
    BY <1>8, ReadsExpire DEF Crash, stores
  <2>2. TypeOK'
    BY <1>8, <2>1, TypeKept DEF Crash, Expires, stores
  <2> QED BY <1>8, <2>1, <2>2, EndIInv DEF Crash, provider, stores
<1> QED BY <1>1, <1>2, <1>3, <1>4, <1>5, <1>6, <1>7, <1>8
-------------------------------------------------------------------------------
(* Calls and the environment.                                              *)

\* A new call relies on nothing but its proposal.
LEMMA CallIInv ==
  ASSUME IInv, NEW w \in Workers, NEW p \in Requests, NEW r \in Nat,
         admit(w, p, r) \/ execute(w, p, r)
  PROVE  IInv'
<1> USE DEF At, Places, Admitting, Attempting, Adjudicating, Closing, Executing
<1>1. PICK q \in {"a_observe", "e_get"} : Call(w, p, r, q)
  BY DEF admit, execute
<1>2. Expires
  BY <1>1, ReadsExpire DEF Call, stores
<1>3. TypeOK'
  BY <1>1 DEF Call, IInv, TypeOK, Goto, environment, provider, stores
<1>4. \A v \in Workers : /\ pc'[v] = IF v = w THEN q ELSE pc[v]
                         /\ prop'[v] = IF v = w THEN p ELSE prop[v]
                         /\ result'[v] = result[v]
  BY <1>1 DEF Call, Goto, IInv, TypeOK
<1>5. Local'
  <2>1. ASSUME NEW v \in Workers, v # w PROVE LocalOf(v)'
    BY <1>1, <1>2, <1>4, <2>1, LocalKept DEF Call, provider, stores
  <2>2. LocalOf(w)'
    <3>1. LocalOf(w)
      BY DEF IInv, Local
    <3> QED BY <1>1, <1>4, <3>1 DEF LocalOf, Call
  <2> QED BY <2>1, <2>2 DEF Local
<1>6. Exclusive'
  BY <1>4 DEF IInv, Exclusive, Id
<1>7. Entries'
  BY <1>1, <1>2, EntriesKept DEF Call, provider, stores
<1> QED BY <1>3, <1>5, <1>6, <1>7 DEF IInv

\* Clock, authority, other pushers and the provider only resolve a request that
\* was sent.
LEMMA EnvironmentIInv == IInv /\ Environment => IInv'
<1> SUFFICES ASSUME IInv, Environment PROVE IInv'
  OBVIOUS
<1>1. UNCHANGED <<stores, pc, prop, result, casSent>>
  BY DEF Environment, Tick, Advance, OtherPush, ProviderSwap, ProviderRefuse, provider, worker
<1>2. /\ cas' \in [Ids -> {"none", "sent", "applied", "refused"}]
      /\ \A i \in Ids : cas'[i] = cas[i] \/ cas[i] = "sent"
  BY DEF Environment, Tick, Advance, OtherPush, ProviderSwap, ProviderRefuse, provider, IInv, TypeOK
<1>3. now' \in Time /\ version' \in Nat \ {0} /\ revoked' \subseteq {p.grant : p \in Requests}
  BY DEF Environment, Tick, Advance, OtherPush, ProviderSwap, ProviderRefuse, environment, IInv, TypeOK, Time
<1>4. head' \in Commits /\ pushes' \in Nat
  <2>1. \A i \in Ids : Proposal[i].candidate \in Commits
    BY ProposalOfId, MutationAssumption DEF Ids
  <2> QED BY <2>1 DEF Environment, Tick, Advance, OtherPush, ProviderSwap, ProviderRefuse,
                    provider, environment, IInv, TypeOK
<1>5. UNCHANGED <<receipt, seen, observed>>
  BY DEF Environment, Tick, Advance, OtherPush, ProviderSwap, ProviderRefuse, worker
<1>6. TypeOK'
  BY <1>1, <1>2, <1>3, <1>4, <1>5 DEF IInv, TypeOK, stores
<1>7. Local'
  <2> SUFFICES ASSUME NEW w \in Workers PROVE LocalOf(w)'
    BY DEF Local
  <2>1. LocalOf(w)
    BY DEF IInv, Local
  <2>2. pc[w] # "idle" => Id(w) \in Ids
    BY <2>1, ProposalOfId DEF LocalOf, Id
  <2> QED BY <1>1, <1>2, <2>1, <2>2 DEF LocalOf, Id, Final, HasState, stores,
             Admitting, Attempting, Adjudicating, Closing, Executing
<1>8. Exclusive'
  BY <1>1 DEF IInv, Exclusive, Id
<1>9. Entries'
  BY <1>1, <1>2 DEF IInv, Entries, EntryOK, Final, HasState, stores
<1> QED BY <1>6, <1>7, <1>8, <1>9 DEF IInv
-------------------------------------------------------------------------------
(* Steps that write the entry of the worker's own effect.                  *)

\* Nothing but expiry happens to the entry of i.
KeptAt(i) ==
    /\ journal'[i] = journal[i] /\ cas'[i] = cas[i] /\ casSent'[i] = casSent[i]
    /\ rows'[i] = rows[i] \/ (HasState(rows, i, "RESERVED") /\ HasState(rows', i, "EXPIRED"))

\* A worker whose effect is left alone keeps what it relies on.
LEMMA LocalElsewhere ==
  ASSUME IInv, NEW v \in Workers, pc[v] # "idle" => KeptAt(Id(v)),
         pc'[v] = pc[v], prop'[v] = prop[v], result'[v] = result[v]
  PROVE  LocalOf(v)'
<1>1. LocalOf(v)
  BY DEF IInv, Local
<1>2. pc[v] \in Admitting => HasState(rows', Id(v), "RESERVED") \/ HasState(rows', Id(v), "EXPIRED")
  BY <1>1 DEF LocalOf, KeptAt, HasState, Admitting
<1> QED BY <1>1, <1>2 DEF LocalOf, Id, Final, KeptAt,
           Admitting, Attempting, Adjudicating, Closing, Executing

\* An entry that is left alone stays right.
LEMMA EntryElsewhere ==
  ASSUME IInv, NEW i \in Ids, KeptAt(i)
  PROVE  EntryOK(i)'
<1>1. /\ rows[i] # None => rows'[i] # None
      /\ HasState(rows', i, "FINALIZED") => HasState(rows, i, "FINALIZED")
      /\ HasState(rows', i, "RELEASED") => HasState(rows, i, "RELEASED")
  BY DEF KeptAt, HasState
<1> QED BY <1>1 DEF IInv, Entries, EntryOK, KeptAt, Final

\* What is left to show for such a step of w to place q (or to "idle"), once it
\* leaves all other entries alone.
LEMMA OwnEntry ==
  ASSUME IInv, TypeOK', NEW w \in Workers, NEW q \in Places, NEW o \in Ids, Id(w) = o,
         pc[w] # "idle", pc' = [pc EXCEPT ![w] = q],
         \A v \in Workers : v # w => prop'[v] = prop[v] /\ result'[v] = result[v],
         q # "idle" => prop'[w] = prop[w],
         \A i \in Ids : i # o => KeptAt(i),
         EntryOK(o)',
         \A i \in Ids : journal[i] = None /\ journal'[i] # None =>
            \A j \in Ids : journal[j] # None => Proposal[i].key # Proposal[j].key,
         LocalOf(w)',
         \A v \in Workers : v # w /\ pc[v] # "idle" /\ Id(v) = o => LocalOf(v)',
         \A v \in Workers : v # w /\ pc[v] # "idle" /\ Id(v) = o =>
            /\ ~(pc[v] \in Admitting /\ q \in Admitting)
            /\ ~(pc[v] \in Attempting /\ q \in Attempting)
  PROVE  IInv'
<1>1. LocalOf(w) /\ \A v \in Workers : pc'[v] = IF v = w THEN q ELSE pc[v]
  BY DEF IInv, TypeOK, Local
<1>2. \A v \in Workers : pc[v] # "idle" => Id(v) \in Ids
  BY ProposalOfId DEF IInv, Local, LocalOf, Id
<1>3. Local'
  <2> SUFFICES ASSUME NEW v \in Workers, v # w, pc[v] # "idle" => Id(v) # o PROVE LocalOf(v)'
    BY DEF Local
  <2> QED BY <1>1, <1>2, LocalElsewhere
<1>4. Exclusive'
  BY <1>1 DEF IInv, Exclusive, Id
<1>5. \A i \in Ids : EntryOK(i)'
  BY EntryElsewhere
<1>6. \A i, j \in Ids : journal'[i] # None /\ journal'[j] # None /\ i # j =>
         Proposal[i].key # Proposal[j].key
  <2> SUFFICES ASSUME NEW i \in Ids, NEW j \in Ids, journal'[i] # None, journal'[j] # None, i # j
               PROVE  Proposal[i].key # Proposal[j].key
    OBVIOUS
  <2>1. i # o \/ j # o
    OBVIOUS
  <2>2. journal[i] # None \/ journal[j] # None
    BY <2>1 DEF KeptAt
  <2>3. CASE journal[i] # None /\ journal[j] # None
    BY <2>3 DEF IInv, Entries
  <2>4. CASE journal[i] = None
    BY <2>2, <2>4
  <2>5. CASE journal[j] = None
    BY <2>2, <2>5
  <2> QED BY <2>3, <2>4, <2>5
<1> QED BY <1>3, <1>4, <1>5, <1>6 DEF IInv, Entries

\* What a worker that ended relies on.
LEMMA EndLocal ==
  ASSUME IInv, NEW w \in Workers, End(w)
  PROVE  /\ LocalOf(w)' /\ pc' = [pc EXCEPT ![w] = "idle"]
         /\ \A v \in Workers : v # w => prop'[v] = prop[v] /\ result'[v] = result[v]
<1>1. pc'[w] = "idle" /\ result'[w] = None /\ None # "FAILED_NO_EFFECT"
  BY MutationAssumption DEF End, Goto, IInv, TypeOK
<1>2. LocalOf(w)'
  BY <1>1 DEF LocalOf, Admitting, Attempting, Adjudicating, Closing, Executing
<1> QED BY <1>2 DEF End, Goto, IInv, TypeOK

\* Types are kept by a worker that writes the journal.
LEMMA TypeKeptJournal ==
  ASSUME IInv, NEW w \in Workers, journal' \in [Ids -> Entry \cup {None}],
         UNCHANGED <<environment, provider, rows>>,
         End(w) \/ \E q \in Places : Goto(w, q) /\ UNCHANGED worker
  PROVE  TypeOK'
  BY DEF IInv, TypeOK, End, Goto, Places, Time, environment, provider, worker

\* reserve_exact inserts a row only where there is none, so no other worker is
\* admitting or executing the effect.
LEMMA ReserveIInv ==
  ASSUME IInv, NEW w \in Workers, _reserve_budget(w)
  PROVE  IInv'
<1> USE DEF At, Places, Admitting, Attempting, Adjudicating, Closing, Executing
<1> DEFINE table == _expire_locked(rows, now)
           row == [req |-> prop[w], envelope |-> Envelope, state |-> "RESERVED",
                   expires_at |-> prop[w].expires_text, finalized_at |-> None]
<1>1. LocalOf(w) /\ prop[w] \in Requests /\ Id(w) \in Ids /\ pc[w] = "a_reserve"
  BY ProposalOfId DEF IInv, Local, LocalOf, Id, _reserve_budget
<1>o. PICK o \in Ids : o = Id(w)
  BY <1>1
<1>2. rows \in Table /\ now \in Time /\ table \in Table
  BY ExpireTable DEF IInv, TypeOK, Table
<1>3. CASE End(w) /\ UNCHANGED rows
  <2>1. Expires
    BY <1>3, ReadsExpire
  <2>2. TypeOK'
    BY <1>3, <2>1, TypeKept DEF _reserve_budget, Expires
  <2> QED BY <1>3, <2>1, <2>2, EndIInv DEF _reserve_budget, provider
<1>4. CASE /\ ~Replayed(table, prop[w])
           /\ rows' = [table EXCEPT ![Id(w)] = row]
           /\ Goto(w, "a_validate") /\ UNCHANGED worker
  <2>1. row \in Row
    BY <1>1, EnvelopeExists, TableAssumption DEF Row, States
  <2>2. rows' \in Table
    BY <1>1, <1>2, <1>4, <2>1 DEF Table
  <2>3. TypeOK'
    BY <1>4, <2>2, TypeKept DEF _reserve_budget
  <2>4. rows[o] = None
    BY <1>o, <1>1, <1>2, <1>4, ExpireTable DEF Replayed, Id
  <2>5. journal[o] = None /\ casSent[o] = 0
    BY <1>o, <1>1, <2>4 DEF IInv, Entries, EntryOK
  <2>6. rows'[o] = row /\ row # None /\ row.state = "RESERVED"
    BY <1>o, <1>1, <1>2, <1>4, <2>1, NoneNotRow DEF Table
  <2>7. \A i \in Ids : i # o => KeptAt(i)
    <3> SUFFICES ASSUME NEW i \in Ids, i # o PROVE KeptAt(i)
      OBVIOUS
    <3>1. rows'[i] = table[i]
      BY <1>o, <1>2, <1>4 DEF Table
    <3> QED BY <1>o, <3>1, <1>2, ExpireState DEF KeptAt, HasState, _reserve_budget, provider
  <2>8. EntryOK(o)'
    BY <1>o, <1>1, <2>5, <2>6 DEF EntryOK, HasState, _reserve_budget, provider, IInv, Entries
  <2>9. UNCHANGED <<journal, prop, result, cas, casSent>>
    BY <1>o, <1>4 DEF _reserve_budget, provider, worker
  <2>10. LocalOf(w)'
    BY <1>o, <1>1, <1>4, <2>5, <2>6, <2>9 DEF LocalOf, Goto, Id, HasState, IInv, TypeOK
  <2>11. ASSUME NEW v \in Workers, v # w, pc[v] # "idle", Id(v) = o
         PROVE  LocalOf(v)' /\ pc[v] \notin Admitting
    <3>1. LocalOf(v) /\ pc'[v] = pc[v]
      BY <1>o, <1>4, <2>11 DEF IInv, Local, Goto, TypeOK
    <3>2. pc[v] \notin Admitting /\ pc[v] \notin Executing
      BY <1>o, <2>4, <2>5, <2>11, <3>1 DEF LocalOf, HasState
    <3> QED BY <1>o, <2>9, <3>1, <3>2 DEF LocalOf, Id
  <2> QED BY <1>o, <1>1, <1>4, <2>3, <2>7, <2>8, <2>9, <2>10, <2>11, OwnEntry DEF Goto
<1> QED BY <1>o, <1>3, <1>4 DEF _reserve_budget, Id

\* prepare writes the entry of an effect that no other worker is admitting.
LEMMA PrepareIInv ==
  ASSUME IInv, NEW w \in Workers, prepare(w)
  PROVE  IInv'
<1> USE DEF At, Places, Admitting, Attempting, Adjudicating, Closing, Executing
<1> DEFINE entry == [status |-> "PREPARED", attempted |-> FALSE, receipt |-> receipt[w]]
<1>1. LocalOf(w) /\ prop[w] \in Requests /\ pc[w] = "a_prepare"
  BY DEF IInv, Local, LocalOf, prepare
<1>2. PICK o \in Ids : o = Id(w)
  BY <1>1, ProposalOfId DEF Id
<1>3. CASE JournalConflict(prop[w])
  <2>1. Expires
    BY <1>3, ReadsExpire DEF prepare
  <2>2. TypeOK'
    BY <1>3, <2>1, TypeKept DEF prepare, Expires
  <2> QED BY <1>1, <1>3, <2>1, <2>2, MoveIInv DEF prepare, LocalOf, worker, provider
<1>4. CASE ~JournalConflict(prop[w])
  <2>0. entry \in Entry
    BY DEF IInv, TypeOK, Entry, Open
  <2>1. entry \in Entry /\ entry # None
    BY <2>0, MutationAssumption
  <2>2. journal' = [journal EXCEPT ![o] = entry] /\ End(w) /\ UNCHANGED <<cas, casSent, rows>>
    BY <1>2, <1>4 DEF prepare, provider
  <2>3. TypeOK'
    BY <2>1, <2>2, TypeKeptJournal DEF prepare, IInv, TypeOK
  <2>4. journal'[o] = entry /\ \A i \in Ids : i # o => KeptAt(i)
    BY <2>2 DEF KeptAt, IInv, TypeOK
  <2>5. journal[o] = None /\ (HasState(rows, o, "RESERVED") \/ HasState(rows, o, "EXPIRED"))
    BY <1>1, <1>2 DEF LocalOf
  <2>6. EntryOK(o)'
    BY <2>1, <2>2, <2>4, <2>5 DEF EntryOK, HasState, IInv, Entries
  <2>7. \A i \in Ids : journal[i] = None /\ journal'[i] # None =>
           \A j \in Ids : journal[j] # None => Proposal[i].key # Proposal[j].key
    <3>1. Proposal[o] = prop[w]
      BY <1>1, <1>2, ProposalOfId DEF Id
    <3> QED BY <1>4, <2>4, <3>1 DEF JournalConflict, KeptAt
  <2>8. ASSUME NEW v \in Workers, v # w, pc[v] # "idle", Id(v) = o
        PROVE  LocalOf(v)'
    <3>1. LocalOf(v) /\ pc'[v] = pc[v] /\ prop'[v] = prop[v] /\ result'[v] = result[v]
      BY <2>2, <2>8 DEF IInv, Local, End, Goto, TypeOK
    <3>2. pc[v] \notin Admitting /\ pc[v] \notin Executing
      BY <1>1, <1>2, <2>5, <2>8, <3>1 DEF LocalOf, IInv, Exclusive
    <3> QED BY <3>1, <3>2 DEF LocalOf, Id
  <2> QED BY <1>1, <1>2, <2>2, <2>3, <2>4, <2>6, <2>7, <2>8, EndLocal, OwnEntry
<1> QED BY <1>3, <1>4

\* mark_attempted is taken by one worker only, before any request was sent.
LEMMA AttemptIInv ==
  ASSUME IInv, NEW w \in Workers, mark_attempted(w)
  PROVE  IInv'
<1> USE DEF At, Places, Admitting, Attempting, Adjudicating, Closing, Executing
<1>1. LocalOf(w) /\ prop[w] \in Requests /\ pc[w] = "e_attempt"
  BY DEF IInv, Local, LocalOf, mark_attempted
<1>2. PICK o \in Ids : o = Id(w)
  BY <1>1, ProposalOfId DEF Id
<1>3. CASE ~NeedsExecution(journal[o])
  <2>1. Expires
    BY <1>2, <1>3, ReadsExpire DEF mark_attempted
  <2>2. TypeOK'
    BY <1>2, <1>3, <2>1, TypeKept DEF mark_attempted, Expires
  <2> QED BY <1>2, <1>3, <2>1, <2>2, EndIInv DEF mark_attempted, provider
<1>4. CASE NeedsExecution(journal[o])
  <2>1. /\ journal' = [journal EXCEPT ![o].attempted = TRUE]
        /\ Goto(w, "e_final_authority") /\ UNCHANGED <<cas, casSent, rows, worker>>
    BY <1>2, <1>4 DEF mark_attempted, provider
  <2>2. journal[o] \in Entry /\ journal[o] # None
    BY <1>1, <1>2 DEF LocalOf, IInv, TypeOK
  <2>3. /\ journal'[o] \in Entry /\ journal'[o] # None
        /\ journal'[o].attempted /\ journal'[o].status = "PREPARED"
    BY <1>4, <2>1, <2>2, MutationAssumption DEF IInv, TypeOK, Entry, NeedsExecution
  <2>4. \A i \in Ids : i # o => KeptAt(i)
    BY <2>1 DEF KeptAt, IInv, TypeOK
  <2>5. TypeOK'
    <3>1. journal' \in [Ids -> Entry \cup {None}]
      BY <2>1, <2>3 DEF IInv, TypeOK
    <3> QED BY <1>2, <1>4, <2>1, <3>1, TypeKeptJournal DEF mark_attempted
  <2>6. casSent[o] = 0 /\ ~journal[o].attempted /\ ~Final(journal[o])
    BY <1>4, <2>2 DEF NeedsExecution, IInv, Entries, EntryOK, Final
  <2>7. EntryOK(o)'
    BY <1>4, <2>1, <2>2, <2>3, <2>6 DEF EntryOK, HasState, IInv, Entries, Final
  <2>8. \A i \in Ids : journal[i] = None /\ journal'[i] # None =>
           \A j \in Ids : journal[j] # None => Proposal[i].key # Proposal[j].key
    BY <2>2, <2>4 DEF KeptAt
  <2>9. LocalOf(w)'
    BY <1>1, <1>2, <2>1, <2>3, <2>6 DEF LocalOf, Goto, Id, worker, IInv, TypeOK
  <2>10. ASSUME NEW v \in Workers, v # w, pc[v] # "idle", Id(v) = o
         PROVE  LocalOf(v)' /\ pc[v] \notin Attempting
    <3>1. LocalOf(v) /\ pc'[v] = pc[v] /\ prop'[v] = prop[v] /\ result'[v] = result[v]
      BY <2>1, <2>10 DEF IInv, Local, Goto, TypeOK, worker
    <3>2. pc[v] \notin Admitting /\ pc[v] \notin Attempting /\ pc[v] \notin Adjudicating
          /\ pc[v] \notin Closing
      BY <2>2, <2>6, <2>10, <3>1 DEF LocalOf
    <3> QED BY <2>3, <2>10, <3>1, <3>2 DEF LocalOf, Id
  <2> QED BY <1>1, <1>2, <2>1, <2>4, <2>5, <2>7, <2>8, <2>9, <2>10, OwnEntry DEF Goto, worker
<1> QED BY <1>3, <1>4

\* Only the worker that recorded the attempt sends the request, once.
LEMMA CasIInv ==
  ASSUME IInv, NEW w \in Workers, compare_and_swap_fast_forward(w)
  PROVE  IInv'
<1> USE DEF At, Places, Admitting, Attempting, Adjudicating, Closing, Executing
<1>1. LocalOf(w) /\ prop[w] \in Requests /\ pc[w] = "e_cas"
  BY DEF IInv, Local, LocalOf, compare_and_swap_fast_forward
<1>2. PICK o \in Ids : o = Id(w)
  BY <1>1, ProposalOfId DEF Id
<1>3. casSent[o] = 0 /\ cas[o] = "none" /\ journal[o] # None /\ journal[o].attempted
  BY <1>1, <1>2 DEF LocalOf, IInv, Entries, EntryOK
<1>4. /\ cas' = [cas EXCEPT ![o] = "sent"] /\ casSent' = [casSent EXCEPT ![o] = @ + 1]
      /\ Goto(w, "e_wait") /\ UNCHANGED <<environment, head, stores, worker>>
  BY <1>2 DEF compare_and_swap_fast_forward
<1>5. cas'[o] = "sent" /\ casSent'[o] = 1 /\ \A i \in Ids : i # o => KeptAt(i)
  BY <1>3, <1>4 DEF KeptAt, IInv, TypeOK, stores
<1>6. TypeOK'
  BY <1>4 DEF IInv, TypeOK, Goto, environment, stores, worker
<1>7. EntryOK(o)'
  BY <1>3, <1>4, <1>5 DEF EntryOK, HasState, IInv, Entries, Final, stores
<1>8. LocalOf(w)'
  BY <1>1, <1>2, <1>3, <1>4 DEF LocalOf, Goto, Id, worker, stores, IInv, TypeOK
<1>9. ASSUME NEW v \in Workers, v # w, pc[v] # "idle", Id(v) = o
      PROVE  LocalOf(v)'
  <2>1. LocalOf(v) /\ pc'[v] = pc[v] /\ prop'[v] = prop[v] /\ result'[v] = result[v]
    BY <1>4, <1>9 DEF IInv, Local, Goto, TypeOK, worker
  <2>2. pc[v] \notin Admitting /\ pc[v] \notin Attempting /\ result[v] # "FAILED_NO_EFFECT"
    BY <1>1, <1>2, <1>3, <1>9, <2>1 DEF LocalOf, IInv, Exclusive
  <2> QED BY <1>4, <1>9, <2>1, <2>2 DEF LocalOf, Id, Final, stores
<1> QED BY <1>1, <1>2, <1>4, <1>5, <1>6, <1>7, <1>8, <1>9, OwnEntry DEF Goto, worker, stores

\* The three records of an outcome: an open entry gets a status, and a
\* FAILED_NO_EFFECT only from a worker that knows the request was refused.
LEMMA RecordIInv ==
  ASSUME IInv, NEW w \in Workers,
         mark_applied(w) \/ mark_failed_no_effect(w) \/ mark_reconcile_required(w)
  PROVE  IInv'
<1> USE DEF At, Places, Admitting, Attempting, Adjudicating, Closing, Executing
<1>1. LocalOf(w) /\ prop[w] \in Requests /\ pc[w] = "record"
  BY DEF IInv, Local, LocalOf, mark_applied, mark_failed_no_effect, mark_reconcile_required
<1>2. PICK o \in Ids : o = Id(w)
  BY <1>1, ProposalOfId DEF Id
<1>3. UNCHANGED <<environment, provider, rows>>
  BY DEF mark_applied, mark_failed_no_effect, mark_reconcile_required
<1>a. IsAttempted(w) <=> IsOpen(w)
  BY <1>1, <1>2 DEF IsAttempted, LocalOf, IInv, TypeOK
<1>4. CASE ~IsOpen(w)
  <2>1. End(w) /\ UNCHANGED journal
    BY <1>4, <1>a DEF mark_applied, mark_failed_no_effect, mark_reconcile_required
  <2>2. Expires
    BY <1>3, ReadsExpire
  <2>3. TypeOK'
    BY <1>3, <2>1, <2>2, TypeKept DEF Expires
  <2> QED BY <1>3, <2>1, <2>2, <2>3, EndIInv DEF provider
<1>5. CASE IsOpen(w)
  <2>1. PICK s \in {"APPLIED", "FAILED_NO_EFFECT", "RECONCILE_REQUIRED"} :
          /\ journal' = [journal EXCEPT ![o].status = s]
          /\ s = "FAILED_NO_EFFECT" => cas[o] = "refused"
          /\ \/ End(w)
             \/ s # "RECONCILE_REQUIRED" /\ Goto(w, "close") /\ UNCHANGED worker
    BY <1>1, <1>2, <1>5, <1>a DEF mark_applied, mark_failed_no_effect, mark_reconcile_required,
       SetStatus, SawNoEffect, LocalOf
  <2>2. journal[o] \in Entry /\ journal[o] # None /\ journal[o].attempted
    BY <1>1, <1>2 DEF LocalOf, IInv, TypeOK
  <2>3. journal'[o] \in Entry /\ journal'[o].attempted /\ journal'[o].status = s
    BY <2>1, <2>2 DEF IInv, TypeOK, Entry, Open
  <2>4. journal'[o] # None
    BY <2>3, MutationAssumption
  <2>5. \A i \in Ids : i # o => KeptAt(i)
    BY <1>3, <2>1 DEF KeptAt, IInv, TypeOK, provider
  <2>6. TypeOK'
    <3>1. journal' \in [Ids -> Entry \cup {None}]
      BY <2>1, <2>3 DEF IInv, TypeOK
    <3> QED BY <1>3, <2>1, <3>1, TypeKeptJournal
  <2>7. ~Final(journal[o])
    BY <1>2, <1>5 DEF IsOpen, Open, Final
  <2>8. EntryOK(o)'
    BY <1>3, <2>1, <2>2, <2>3, <2>4, <2>7 DEF EntryOK, HasState, IInv, Entries, Final, provider
  <2>9. \A i \in Ids : journal[i] = None /\ journal'[i] # None =>
           \A j \in Ids : journal[j] # None => Proposal[i].key # Proposal[j].key
    BY <2>2, <2>5 DEF KeptAt
  <2>10. ASSUME NEW v \in Workers, v # w, pc[v] # "idle", Id(v) = o,
                pc'[v] = pc[v], prop'[v] = prop[v], result'[v] = result[v]
         PROVE  LocalOf(v)'
    <3>1. LocalOf(v)
      BY DEF IInv, Local
    <3>2. pc[v] \notin Admitting /\ pc[v] \notin Closing
      BY <2>2, <2>7, <2>10, <3>1 DEF LocalOf
    <3> QED BY <1>3, <2>3, <2>4, <2>10, <3>1, <3>2 DEF LocalOf, Id, provider
  <2>11. CASE End(w)
    <3>1. \A v \in Workers : v # w => pc'[v] = pc[v]
      BY <2>11 DEF End, Goto, IInv, TypeOK
    <3> QED BY <1>1, <1>2, <2>5, <2>6, <2>8, <2>9, <2>10, <2>11, <3>1, EndLocal, OwnEntry
  <2>12. CASE s # "RECONCILE_REQUIRED" /\ Goto(w, "close") /\ UNCHANGED worker
    <3>1. LocalOf(w)'
      BY <1>1, <1>2, <1>3, <2>3, <2>4, <2>12 DEF LocalOf, Goto, Id, Final, worker, provider, IInv, TypeOK
    <3>2. \A v \in Workers : v # w => pc'[v] = pc[v]
      BY <2>12 DEF Goto, IInv, TypeOK
    <3> QED BY <1>1, <1>2, <2>5, <2>6, <2>8, <2>9, <2>10, <2>12, <3>1, <3>2, OwnEntry DEF Goto, worker
  <2> QED BY <2>1, <2>11, <2>12
<1> QED BY <1>4, <1>5

\* The two ways a slot is given back: release, of an effect the journal never
\* accepted, and finalize, of one it holds a final outcome for.
LEMMA CloseIInv ==
  ASSUME IInv, NEW w \in Workers, release(w) \/ finalize(w)
  PROVE  IInv'
<1> USE DEF At, Places, Admitting, Attempting, Adjudicating, Closing, Executing
<1> DEFINE table == _expire_locked(rows, now)
<1>1. LocalOf(w) /\ prop[w] \in Requests /\ pc[w] \in {"a_release", "finalize"}
  BY DEF IInv, Local, LocalOf, release, finalize
<1>2. PICK o \in Ids : o = Id(w)
  BY <1>1, ProposalOfId DEF Id
<1>3. UNCHANGED <<environment, provider, journal>> /\ End(w)
  BY DEF release, finalize
<1>4. PICK s \in {"RELEASED", "FINALIZED"} :
        /\ CloseRow(w, s)
        /\ s = "RELEASED" => pc[w] = "a_release"
        /\ s = "FINALIZED" => pc[w] = "finalize"
  BY DEF release, finalize
<1>5. rows \in Table /\ now \in Time /\ table \in Table
  BY ExpireTable DEF IInv, TypeOK, Table
<1>6. CASE UNCHANGED rows
  <2>1. Expires
    BY <1>6, ReadsExpire
  <2>2. TypeOK'
    BY <1>3, <2>1, TypeKept DEF Expires
  <2> QED BY <1>3, <2>1, <2>2, EndIInv DEF provider
<1>7. CASE o \in Active(table, now) /\ rows' = [table EXCEPT ![o] = Close(table[o], s, now)]
  <2>1. table[o] \in Row
    BY <1>5, <1>7 DEF Active, HasState, Table
  <2>2. Close(table[o], s, now) \in Row /\ Close(table[o], s, now).state = s
    BY <1>5, <2>1, ClosedRow DEF Terminal
  <2>3. rows' \in Table /\ HasState(rows', o, s)
    BY <1>5, <1>7, <2>2, NoneNotRow DEF Table, HasState
  <2>4. TypeOK'
    BY <1>3, <2>3, TypeKept
  <2>5. \A i \in Ids : i # o => KeptAt(i)
    <3> SUFFICES ASSUME NEW i \in Ids, i # o PROVE KeptAt(i)
      OBVIOUS
    <3>1. rows'[i] = table[i]
      BY <1>5, <1>7 DEF Table
    <3> QED BY <1>3, <1>5, <3>1, ExpireState DEF KeptAt, HasState, provider
  <2>6. EntryOK(o)'
    BY <1>1, <1>2, <1>3, <1>4, <2>3 DEF EntryOK, HasState, LocalOf, IInv, Entries, Final, provider
  <2>7. ASSUME NEW v \in Workers, v # w, pc[v] # "idle", Id(v) = o
        PROVE  LocalOf(v)'
    <3>1. LocalOf(v) /\ pc'[v] = pc[v] /\ prop'[v] = prop[v] /\ result'[v] = result[v]
      BY <1>3, <2>7 DEF IInv, Local, End, Goto, TypeOK
    <3>2. pc[v] \notin Admitting
      BY <1>1, <1>2, <2>7, <3>1 DEF LocalOf, IInv, Exclusive
    <3> QED BY <1>3, <3>1, <3>2 DEF LocalOf, Id, Final, provider
  <2> QED BY <1>1, <1>2, <1>3, <2>4, <2>5, <2>6, <2>7, EndLocal, OwnEntry
<1> QED BY <1>2, <1>4, <1>6, <1>7 DEF CloseRow
-------------------------------------------------------------------------------
(* The theorems.                                                           *)

\* Every step preserves the invariant.
LEMMA NextIInv == IInv /\ [Next]_vars => IInv'
<1> SUFFICES ASSUME IInv, [Next]_vars PROVE IInv'
  OBVIOUS
<1>1. CASE UNCHANGED vars
  BY <1>1 DEF vars, IInv, TypeOK, Local, LocalOf, Exclusive, Entries, EntryOK, Id, Final, HasState
<1>2. CASE Environment
  BY <1>2, EnvironmentIInv
<1>3. ASSUME NEW w \in Workers, NEW p \in Requests, NEW r \in 1..version,
             admit(w, p, r) \/ execute(w, p, r)
      PROVE  IInv'
  <2>1. r \in Nat
    BY DEF IInv, TypeOK
  <2> QED BY <1>3, <2>1, CallIInv
<1>4. ASSUME NEW w \in Workers, Step(w) \/ Crash(w) PROVE IInv'
  BY <1>4, CheckIInv, MovesIInv, ReserveIInv, PrepareIInv, AttemptIInv, CasIInv, RecordIInv,
     CloseIInv DEF Step
<1> QED BY <1>1, <1>2, <1>3, <1>4 DEF Next

\* For any workers, proposals, commits and bounds: a key is spent on one request
\* at most, every request was journaled and charged first, FAILED_NO_EFFECT is
\* only recorded of refused requests, and the budget follows the journal.
THEOREM MutationSafety ==
  Spec => [](TypeOK /\ SpentOnce /\ JournaledAndCharged /\ NoEffectIsTrue /\ BudgetFollowsJournal)
<1>1. Spec => []IInv
  BY InitIInv, NextIInv, PTL DEF Spec
<1> QED BY <1>1, IInvSafe, PTL

\* What a step can do to the journal: prepare an effect whose key is unspent,
\* record the attempt of a prepared one, or give an attempted one a status.
Prepared(o) ==
    /\ journal[o] = None
    /\ \A i \in Ids : journal[i] # None => Proposal[i].key # Proposal[o].key
    /\ \E r \in Nat : journal' = [journal EXCEPT ![o] =
           [status |-> "PREPARED", attempted |-> FALSE, receipt |-> r]]
AttemptRecorded(o) ==
    /\ journal[o] # None /\ NeedsExecution(journal[o])
    /\ journal' = [journal EXCEPT ![o].attempted = TRUE]
StatusRecorded(o, s) ==
    /\ journal[o] # None /\ journal[o].attempted /\ journal[o].status \in Open
    /\ s = "FAILED_NO_EFFECT" => cas[o] = "refused"
    /\ journal' = [journal EXCEPT ![o].status = s]
Statuses == {"APPLIED", "FAILED_NO_EFFECT", "RECONCILE_REQUIRED"}

\* Every step of a worker leaves the journal alone or is one of these, and the
\* only change it makes at the provider is to send a request.
LEMMA WorkerJournal ==
  ASSUME IInv, NEW w \in Workers, Step(w)
  PROVE  \/ UNCHANGED <<journal, cas>>
         \/ UNCHANGED journal /\ \E o \in Ids : cas[o] = "none" /\ cas' = [cas EXCEPT ![o] = "sent"]
         \/ /\ UNCHANGED cas
            /\ \E o \in Ids : Prepared(o) \/ AttemptRecorded(o) \/ \E s \in Statuses : StatusRecorded(o, s)
<1> USE DEF At, Places, Admitting, Attempting, Adjudicating, Closing, Executing
<1>1. LocalOf(w)
  BY DEF IInv, Local
<1>2. pc[w] # "idle" => prop[w] \in Requests /\ Id(w) \in Ids
  BY <1>1, ProposalOfId DEF LocalOf, Id
<1>3. CASE prepare(w)
  <2>1. CASE JournalConflict(prop[w])
    BY <1>3, <2>1 DEF prepare, provider
  <2>2. CASE ~JournalConflict(prop[w])
    <3>1. PICK o \in Ids : o = Id(w) /\ Proposal[o] = prop[w]
      BY <1>2, <1>3, ProposalOfId DEF Id, prepare
    <3>2. Prepared(o)
      BY <1>1, <1>3, <2>2, <3>1 DEF Prepared, prepare, JournalConflict, LocalOf, IInv, TypeOK
    <3> QED BY <1>3, <3>2 DEF prepare, provider
  <2> QED BY <2>1, <2>2
<1>4. CASE mark_attempted(w)
  <2>1. CASE ~NeedsExecution(journal[Id(w)])
    BY <1>4, <2>1 DEF mark_attempted, provider
  <2>2. CASE NeedsExecution(journal[Id(w)])
    <3>1. AttemptRecorded(Id(w))
      BY <1>1, <1>4, <2>2 DEF AttemptRecorded, mark_attempted, LocalOf
    <3> QED BY <1>2, <1>4, <3>1 DEF mark_attempted, provider
  <2> QED BY <2>1, <2>2
<1>5. CASE mark_applied(w) \/ mark_failed_no_effect(w) \/ mark_reconcile_required(w)
  <2>1. UNCHANGED cas /\ pc[w] = "record"
    BY <1>5 DEF mark_applied, mark_failed_no_effect, mark_reconcile_required, provider
  <2>a. IsAttempted(w) <=> IsOpen(w)
    BY <1>1, <2>1 DEF IsAttempted, LocalOf, IInv, TypeOK
  <2>2. CASE ~IsOpen(w)
    BY <1>5, <2>a, <2>1, <2>2 DEF mark_applied, mark_failed_no_effect, mark_reconcile_required
  <2>3. CASE IsOpen(w)
    <3>1. PICK s \in Statuses : SetStatus(w, s) /\ (s = "FAILED_NO_EFFECT" => cas[Id(w)] = "refused")
      BY <1>1, <1>5, <2>a, <2>3 DEF mark_applied, mark_failed_no_effect, mark_reconcile_required,
         SawNoEffect, LocalOf, Statuses
    <3>2. StatusRecorded(Id(w), s)
      BY <1>1, <2>1, <2>3, <3>1 DEF StatusRecorded, SetStatus, IsOpen, LocalOf
    <3> QED BY <1>2, <2>1, <3>2
  <2> QED BY <2>2, <2>3
<1>6. CASE compare_and_swap_fast_forward(w)
  <2>1. casSent[Id(w)] = 0
    BY <1>1, <1>6 DEF LocalOf, compare_and_swap_fast_forward
  <2> QED BY <1>2, <1>6, <2>1 DEF compare_and_swap_fast_forward, stores, IInv, Entries, EntryOK
<1>7. CASE \/ AdmitObserve(w) \/ AdmitRevalidate(w) \/ _reserve_budget(w) \/ AdmitValidate(w)
           \/ release(w) \/ ExecuteGet(w) \/ _load_budget_for_admission(w) \/ ExecuteObserve(w)
           \/ ExecuteRevalidate(w) \/ ExecuteValidate(w) \/ FinalAuthority(w) \/ FinalBudget(w)
           \/ CasReply(w) \/ CasLost(w) \/ Observe(w) \/ ObserveFails(w)
           \/ _finalize_budget(w) \/ finalize(w)
  BY <1>7 DEF AdmitObserve, AdmitRevalidate, _reserve_budget, AdmitValidate, release, ExecuteGet,
     _load_budget_for_admission, ExecuteObserve, ExecuteRevalidate, ExecuteValidate, FinalAuthority,
     FinalBudget, CasReply, CasLost, Observe, ObserveFails, _finalize_budget, finalize,
     provider, stores
<1> QED BY <1>3, <1>4, <1>5, <1>6, <1>7 DEF Step

\* The same for every step of the system, with the provider's own steps.
LEMMA JournalStep ==
  ASSUME IInv, [Next]_vars
  PROVE  \/ UNCHANGED <<journal, cas>>
         \/ UNCHANGED journal /\ \E o \in Ids, c \in {"sent", "refused"} :
               cas[o] # "applied" /\ cas' = [cas EXCEPT ![o] = c]
         \/ UNCHANGED journal /\ \E o \in Ids :
               cas[o] = "sent" /\ cas' = [cas EXCEPT ![o] = "applied"]
         \/ /\ UNCHANGED cas
            /\ \E o \in Ids : Prepared(o) \/ AttemptRecorded(o) \/ \E s \in Statuses : StatusRecorded(o, s)
<1>1. CASE UNCHANGED vars
  BY <1>1 DEF vars
<1>2. CASE Environment
  <2>1. CASE Tick \/ (\E g \in SUBSET {p.grant : p \in Requests} : Advance(g)) \/ (\E c \in Commits : OtherPush(c))
    BY <2>1 DEF Tick, Advance, OtherPush, provider, stores
  <2>2. CASE \E i \in Ids : ProviderSwap(i)
    BY <2>2 DEF ProviderSwap, stores
  <2>3. CASE \E i \in Ids : ProviderRefuse(i)
    BY <2>3 DEF ProviderRefuse, stores
  <2> QED BY <1>2, <2>1, <2>2, <2>3 DEF Environment
<1>3. CASE \E w \in Workers : \/ \E p \in Requests, r \in 1..version : admit(w, p, r) \/ execute(w, p, r)
                              \/ Crash(w)
  BY <1>3 DEF admit, execute, Call, Crash, provider, stores
<1>4. ASSUME NEW w \in Workers, Step(w)
      PROVE  \/ UNCHANGED <<journal, cas>>
             \/ UNCHANGED journal /\ \E o \in Ids, c \in {"sent", "refused"} :
                   cas[o] # "applied" /\ cas' = [cas EXCEPT ![o] = c]
             \/ /\ UNCHANGED cas
                /\ \E o \in Ids : Prepared(o) \/ AttemptRecorded(o) \/ \E s \in Statuses : StatusRecorded(o, s)
  BY <1>4, WorkerJournal
<1> QED BY <1>1, <1>2, <1>3, <1>4 DEF Next

\* One step never reopens an outcome, forgets an attempt or drops an entry.
LEMMA OutcomeStep ==
  ASSUME IInv, [Next]_vars, NEW i \in Ids, journal[i] # None
  PROVE  /\ journal'[i] # None
         /\ journal[i].attempted => journal'[i].attempted
         /\ journal[i].status \notin Open => journal'[i].status = journal[i].status
<1>1. journal[i] \in Entry /\ journal \in [Ids -> Entry \cup {None}]
  BY DEF IInv, TypeOK
<1>2. journal' \in [Ids -> Entry \cup {None}]
  BY NextIInv DEF IInv, TypeOK
<1>3. CASE UNCHANGED journal
  BY <1>3
<1>4. ASSUME NEW o \in Ids, Prepared(o)
      PROVE  journal'[i] = journal[i]
  BY <1>1, <1>4 DEF Prepared
<1>5. ASSUME NEW o \in Ids, AttemptRecorded(o)
      PROVE  /\ journal'[i] # None /\ journal'[i].status = journal[i].status
             /\ journal[i].attempted => journal'[i].attempted
  <2>1. CASE i # o
    BY <1>1, <1>5, <2>1 DEF AttemptRecorded
  <2>2. CASE i = o
    <3>1. journal'[i] = [journal[i] EXCEPT !.attempted = TRUE]
      BY <1>1, <1>5, <2>2 DEF AttemptRecorded
    <3>2. journal'[i] \in Entry /\ journal'[i].attempted /\ journal'[i].status = journal[i].status
      BY <1>1, <3>1 DEF Entry
    <3> QED BY <3>2, MutationAssumption
  <2> QED BY <2>1, <2>2
<1>6. ASSUME NEW o \in Ids, NEW s \in Statuses, StatusRecorded(o, s)
      PROVE  /\ journal'[i] # None
             /\ journal[i].attempted => journal'[i].attempted
             /\ journal[i].status \notin Open => journal'[i].status = journal[i].status
  <2>1. CASE i # o
    BY <1>1, <1>6, <2>1 DEF StatusRecorded
  <2>2. CASE i = o
    <3>1. journal'[i] = [journal[i] EXCEPT !.status = s] /\ journal[i].status \in Open
      BY <1>1, <1>6, <2>2 DEF StatusRecorded
    <3>2. journal'[i] \in Entry /\ journal'[i].attempted = journal[i].attempted
      BY <1>1, <3>1 DEF Entry, Statuses, Open
    <3> QED BY <3>1, <3>2, MutationAssumption
  <2> QED BY <2>1, <2>2
<1> QED BY <1>3, <1>4, <1>5, <1>6, JournalStep

\* For any workers, proposals, commits and bounds: an adjudicated outcome is
\* final, whatever late, repeated or concurrent calls do.
THEOREM MutationOutcomes == Spec => OutcomeIsFinal
<1>1. Spec => []IInv
  BY InitIInv, NextIInv, PTL DEF Spec
<1>2. IInv /\ [Next]_vars =>
        [\A i \in Ids : journal[i] # None =>
            /\ journal'[i] # None
            /\ journal[i].attempted => journal'[i].attempted
            /\ journal[i].status \notin Open => journal'[i].status = journal[i].status]_vars
  BY OutcomeStep
<1> QED BY <1>1, <1>2, PTL DEF Spec, OutcomeIsFinal
-------------------------------------------------------------------------------
(* The refinement.                                                         *)

phaseBar == [i \in Ids |-> PhaseOf(journal[i])]
landedBar == {i \in Ids : cas[i] = "applied"}

\* What an entry shows of its effect.
LEMMA PhaseCases ==
  /\ PhaseOf(None) = "none"
  /\ \A e \in Entry :
        /\ e.status = "APPLIED" => PhaseOf(e) = "applied"
        /\ e.status = "FAILED_NO_EFFECT" => PhaseOf(e) = "no_effect"
        /\ e.status \in Open => PhaseOf(e) = IF e.attempted THEN "attempted" ELSE "admitted"
<1>1. None \notin Entry
  BY MutationAssumption
<1>2. PhaseOf(None) = "none"
  BY DEF PhaseOf
<1> QED BY <1>1, <1>2 DEF PhaseOf, Open

\* The initial states map to the initial state of AttachOnce.
LEMMA AbstractInit == Init => Abstract!AttachInit
<1> SUFFICES ASSUME Init PROVE Abstract!AttachInit
  OBVIOUS
<1>1. \A i \in Ids : PhaseOf(journal[i]) = "none"
  BY PhaseCases DEF Init
<1>2. landedBar = {}
  BY DEF Init, landedBar
<1> QED BY <1>1, <1>2 DEF Abstract!AttachInit, landedBar

\* A step that changes one entry changes the phase of that effect only.
LEMMA PhaseStep ==
  ASSUME NEW o \in Ids, NEW e \in Entry, journal \in [Ids -> Entry \cup {None}],
         journal' = [journal EXCEPT ![o] = e]
  PROVE  phaseBar' = [phaseBar EXCEPT ![o] = PhaseOf(e)]
  BY DEF phaseBar

\* Every step maps to a step of AttachOnce or to none.
LEMMA AbstractStep ==
  ASSUME IInv, [Next]_vars
  PROVE  [Abstract!AttachNext]_<<phaseBar, landedBar>>
<1> USE DEF phaseBar, landedBar
<1>0. journal \in [Ids -> Entry \cup {None}] /\ cas \in [Ids -> {"none", "sent", "applied", "refused"}]
  BY DEF IInv, TypeOK
<1>1. CASE UNCHANGED <<journal, cas>>
  BY <1>1
<1>2. CASE UNCHANGED journal /\ \E o \in Ids, c \in {"sent", "refused"} :
              cas[o] # "applied" /\ cas' = [cas EXCEPT ![o] = c]
  <2>1. landedBar' = landedBar
    BY <1>0, <1>2
  <2> QED BY <1>2, <2>1
<1>3. ASSUME UNCHANGED journal, NEW o \in Ids, cas[o] = "sent", cas' = [cas EXCEPT ![o] = "applied"]
      PROVE  Abstract!Land(o)
  <2>1. landedBar' = landedBar \cup {o} /\ o \notin landedBar
    BY <1>0, <1>3
  <2>2. journal[o] \in Entry /\ journal[o].attempted /\ journal[o].status # "FAILED_NO_EFFECT"
    BY <1>0, <1>3 DEF IInv, Entries, EntryOK
  <2>3. PhaseOf(journal[o]) \in {"attempted", "applied"}
    BY <2>2, PhaseCases DEF Entry
  <2> QED BY <1>3, <2>1, <2>3 DEF Abstract!Land
<1>4. ASSUME UNCHANGED cas, NEW o \in Ids, Prepared(o)
      PROVE  Abstract!Admit(o)
  <2>1. PICK r \in Nat : journal' = [journal EXCEPT ![o] = [status |-> "PREPARED", attempted |-> FALSE, receipt |-> r]]
    BY <1>4 DEF Prepared
  <2> DEFINE e == [status |-> "PREPARED", attempted |-> FALSE, receipt |-> r]
  <2>2. e \in Entry /\ e.status \in Open /\ ~e.attempted
    BY DEF Entry, Open
  <2>3. phaseBar' = [phaseBar EXCEPT ![o] = "admitted"]
    BY <1>0, <2>1, <2>2, PhaseStep, PhaseCases
  <2>4. \A d \in Ids : Proposal[d].key = Proposal[o].key => phaseBar[d] = "none"
    BY <1>4, PhaseCases DEF Prepared
  <2> QED BY <1>4, <2>3, <2>4 DEF Abstract!Admit, Abstract!Become
<1>5. ASSUME UNCHANGED cas, NEW o \in Ids, AttemptRecorded(o)
      PROVE  Abstract!Attempt(o)
  <2> DEFINE e == [journal[o] EXCEPT !.attempted = TRUE]
  <2>1. journal[o] \in Entry /\ journal[o].status = "PREPARED" /\ ~journal[o].attempted
    BY <1>0, <1>5 DEF AttemptRecorded, NeedsExecution
  <2>2. e \in Entry /\ e.status \in Open /\ e.attempted
    BY <2>1 DEF Entry, Open
  <2>3. journal' = [journal EXCEPT ![o] = e]
    BY <1>5 DEF AttemptRecorded
  <2>4. phaseBar' = [phaseBar EXCEPT ![o] = "attempted"]
    BY <1>0, <2>2, <2>3, PhaseStep, PhaseCases
  <2>5. phaseBar[o] = "admitted"
    BY <2>1, PhaseCases DEF Open
  <2> QED BY <1>5, <2>4, <2>5 DEF Abstract!Attempt, Abstract!Become
<1>6. ASSUME UNCHANGED cas, NEW o \in Ids, NEW s \in Statuses, StatusRecorded(o, s)
      PROVE  Abstract!Applied(o) \/ Abstract!NoEffect(o) \/ UNCHANGED <<phaseBar, landedBar>>
  <2> DEFINE e == [journal[o] EXCEPT !.status = s]
  <2>1. journal[o] \in Entry /\ journal[o].status \in Open /\ journal[o].attempted
    BY <1>0, <1>6 DEF StatusRecorded
  <2>2. e \in Entry /\ e.status = s /\ e.attempted
    BY <2>1 DEF Entry, Open, Statuses
  <2>3. journal' = [journal EXCEPT ![o] = e]
    BY <1>6 DEF StatusRecorded
  <2>4. phaseBar[o] = "attempted" /\ phaseBar' = [phaseBar EXCEPT ![o] = PhaseOf(e)]
    BY <1>0, <2>1, <2>2, <2>3, PhaseStep, PhaseCases
  <2>5. CASE s = "APPLIED"
    BY <1>6, <2>2, <2>4, <2>5, PhaseCases DEF Abstract!Applied, Abstract!Become
  <2>6. CASE s = "FAILED_NO_EFFECT"
    <3>1. o \notin landedBar
      BY <1>6, <2>6 DEF StatusRecorded
    <3> QED BY <1>6, <2>2, <2>4, <2>6, <3>1, PhaseCases DEF Abstract!NoEffect, Abstract!Become
  <2>7. CASE s = "RECONCILE_REQUIRED"
    <3>1. PhaseOf(e) = "attempted"
      BY <2>2, <2>7, PhaseCases DEF Open
    <3> QED BY <1>6, <2>4, <3>1
  <2> QED BY <2>5, <2>6, <2>7 DEF Statuses
<1> QED BY <1>1, <1>2, <1>3, <1>4, <1>5, <1>6, JournalStep DEF Abstract!AttachNext

\* For any workers, proposals, commits and bounds: journal, budget, provider and
\* workers together implement AttachOnce.
THEOREM MutationRefines == Spec => ImplementsAttachOnce
<1>1. Spec => []IInv
  BY InitIInv, NextIInv, PTL DEF Spec
<1> QED BY <1>1, AbstractInit, AbstractStep, PTL DEF Spec, ImplementsAttachOnce, Abstract!AttachSpec,
        phaseBar, landedBar

\* The slot is FINALIZED only after the journal holds the final outcome and RELEASED
\* only for an effect the journal never accepted, whoever wrote it: the worker, a retry
\* or a reconciling process.
THEOREM MutationBudget == Spec => []BudgetFollowsJournal
  BY MutationSafety, PTL
===============================================================================
