-------------------------- MODULE RepositoryMutation --------------------------
(***************************************************************************)
(* RepositoryMutationPEP (src/cyber_lion/enterprise/repository_mutation_pep*)
(* .py) with the stores it spans: the attach journal (RepositoryAttachJour-*)
(* nal in repository_mutation_state.py), the fleet budget table            *)
(* (BudgetTable), the authority epoch state, and the branch itself, which  *)
(* only an external provider can move.                                     *)
(*                                                                         *)
(* Workers are concurrent calls of admit and execute, possibly about the   *)
(* same effect.  Between any two of their steps other workers run, the     *)
(* clock advances, authority changes, the branch is pushed by others, and  *)
(* a worker's process may die.  A compare-and-swap request that timed out  *)
(* may still take effect later.                                            *)
(*                                                                         *)
(* Each store transaction and each remote call is one step.  A budget      *)
(* transaction reads the clock in its own step here; FleetEffectBudget     *)
(* models what an outdated reading can do to the table.                    *)
(***************************************************************************)
EXTENDS BudgetTable

CONSTANTS
    Workers,
    Commits,     \* what the branch may point to
    MaxTime, MaxVersion, MaxPushes

\* A row of the attach journal.
Open == {"PREPARED", "RECONCILE_REQUIRED"}
Entry == [status : Open \cup {"APPLIED", "FAILED_NO_EFFECT"}, attempted : BOOLEAN, receipt : Nat]

(* A proposal is a reservation request together with the intent it is for: *)
(* expected and candidate (the two commits), grant and leaf_expires (its   *)
(* authority leaf), admission (the admission_id).  Its reservation_id      *)
(* stands for the proposal: it binds effect, candidate and key.            *)
ASSUME MutationAssumption ==
    /\ MaxTime \in Nat /\ MaxVersion \in Nat /\ MaxPushes \in Nat
    /\ \A p \in Requests :
          /\ p.expected \in Commits /\ p.candidate \in Commits /\ p.expected # p.candidate
          /\ p.leaf_expires \in Time /\ p.expires_at <= p.leaf_expires
    /\ \A p, q \in Requests : p.id = q.id => p = q
    /\ None \notin Commits /\ None \notin Entry /\ None \notin {"APPLIED", "FAILED_NO_EFFECT"}
    /\ \E e \in Envelopes : Envelopes = {e}

Envelope == CHOOSE e \in Envelopes : TRUE
Proposal == [i \in Ids |-> CHOOSE p \in Requests : p.id = i]

VARIABLES
    now,
    version, revoked,  \* authority epoch state: its version and revoked grants
    head, pushes,      \* the branch, and how often others have pushed it
    rows,              \* fleet_effect_reservation
    journal,           \* repository_attach_effect, by proposal
    cas, casSent,      \* the provider's handling of each request, and how many were sent
    pc, prop, receipt, \* each worker's place, proposal and live admission receipt
    seen,              \* the `now` of admit
    result, observed   \* provider result and trusted observation of execute

environment == <<now, version, revoked, pushes>>
provider == <<head, cas, casSent>>
stores == <<rows, journal>>
worker == <<prop, receipt, seen, result, observed>>
vars == <<now, version, revoked, head, pushes, rows, journal, cas, casSent,
          pc, prop, receipt, seen, result, observed>>

Places == {"idle",
           "a_observe", "a_revalidate", "a_reserve", "a_validate", "a_prepare", "a_release",
           "e_get", "e_load", "e_observe", "e_revalidate", "e_validate", "e_attempt",
           "e_final_authority", "e_final_budget", "e_cas", "e_wait",
           "observe", "record", "close", "finalize"}

TypeOK ==
    /\ now \in Time /\ version \in Nat \ {0} /\ revoked \subseteq {p.grant : p \in Requests}
    /\ head \in Commits /\ pushes \in Nat
    /\ rows \in [Ids -> Row \cup {None}]
    /\ journal \in [Ids -> Entry \cup {None}]
    /\ cas \in [Ids -> {"none", "sent", "applied", "refused"}]
    /\ casSent \in [Ids -> Nat]
    /\ pc \in [Workers -> Places]
    /\ prop \in [Workers -> Requests \cup {None}]
    /\ receipt \in [Workers -> Nat]
    /\ seen \in [Workers -> Time]
    /\ result \in [Workers -> {"APPLIED", "FAILED_NO_EFFECT", None}]
    /\ observed \in [Workers -> Commits \cup {None}]

Init ==
    /\ now = 0 /\ version = 1 /\ revoked = {} /\ pushes = 0
    /\ head \in {p.expected : p \in Requests}
    /\ rows = [i \in Ids |-> None]
    /\ journal = [i \in Ids |-> None]
    /\ cas = [i \in Ids |-> "none"]
    /\ casSent = [i \in Ids |-> 0]
    /\ pc = [w \in Workers |-> "idle"]
    /\ prop = [w \in Workers |-> None]
    /\ receipt = [w \in Workers |-> 0]
    /\ seen = [w \in Workers |-> 0]
    /\ result = [w \in Workers |-> None]
    /\ observed = [w \in Workers |-> None]
-------------------------------------------------------------------------------
(* The world around the PEP.                                               *)

Tick ==
    /\ now < MaxTime
    /\ now' = now + 1
    /\ UNCHANGED <<version, revoked, pushes, provider, stores, pc, worker>>

\* advance_epoch of the authority store: every write is a new version, which
\* makes every earlier receipt stale.
Advance(g) ==
    /\ version < MaxVersion
    /\ version' = version + 1
    /\ revoked' = revoked \cup g
    /\ UNCHANGED <<now, pushes, provider, stores, pc, worker>>

\* Somebody else moves the branch.
OtherPush(c) ==
    /\ pushes < MaxPushes /\ c # head
    /\ head' = c
    /\ pushes' = pushes + 1
    /\ UNCHANGED <<now, version, revoked, cas, casSent, stores, pc, worker>>

\* The provider handles a request: it swaps the ref if the ref is still the
\* expected one, or refuses.
ProviderSwap(i) ==
    /\ cas[i] = "sent" /\ head = Proposal[i].expected
    /\ head' = Proposal[i].candidate
    /\ cas' = [cas EXCEPT ![i] = "applied"]
    /\ UNCHANGED <<environment, casSent, stores, pc, worker>>
ProviderRefuse(i) ==
    /\ cas[i] = "sent"
    /\ cas' = [cas EXCEPT ![i] = "refused"]
    /\ UNCHANGED <<environment, head, casSent, stores, pc, worker>>
-------------------------------------------------------------------------------
(* Steps of a worker.                                                      *)

Id(w) == prop[w].id
At(w, place) == pc[w] = place
Goto(w, place) == pc' = [pc EXCEPT ![w] = place]

\* The call returns or raises, or its process dies.
End(w) ==
    /\ Goto(w, "idle")
    /\ prop' = [prop EXCEPT ![w] = None]
    /\ receipt' = [receipt EXCEPT ![w] = 0]
    /\ seen' = [seen EXCEPT ![w] = 0]
    /\ result' = [result EXCEPT ![w] = None]
    /\ observed' = [observed EXCEPT ![w] = None]

GoOrEnd(w, ok, place) == IF ok THEN Goto(w, place) /\ UNCHANGED worker ELSE End(w)

Crash(w) ==
    /\ ~At(w, "idle")
    /\ End(w)
    /\ UNCHANGED <<environment, provider, stores>>

\* LiveAuthorityAdmission.revalidate of the caller's receipt, and _bind_authority.
AuthorityCurrent(w) ==
    /\ receipt[w] = version
    /\ prop[w].grant \notin revoked
    /\ now < prop[w].leaf_expires

\* validate_for_effect and get: expire, then the row is still RESERVED.
BudgetRead == rows' = _expire_locked(rows, now)
BudgetCurrent(w) == HasState(rows', Id(w), "RESERVED")

Call(w, p, r, place) ==
    /\ At(w, "idle")
    /\ prop' = [prop EXCEPT ![w] = p]
    /\ receipt' = [receipt EXCEPT ![w] = r]
    /\ Goto(w, place)
    /\ UNCHANGED <<environment, provider, stores, seen, result, observed>>
admit(w, p, r) == Call(w, p, r, "a_observe")
execute(w, p, r) == Call(w, p, r, "e_get")
-------------------------------------------------------------------------------
(* admit.                                                                  *)

AdmitObserve(w) ==
    /\ At(w, "a_observe")
    /\ GoOrEnd(w, head = prop[w].expected, "a_revalidate")
    /\ UNCHANGED <<environment, provider, stores>>

AdmitRevalidate(w) ==
    /\ At(w, "a_revalidate")
    /\ IF AuthorityCurrent(w)
       THEN /\ seen' = [seen EXCEPT ![w] = now] /\ Goto(w, "a_reserve")
            /\ UNCHANGED <<prop, receipt, result, observed>>
       ELSE End(w)
    /\ UNCHANGED <<environment, provider, stores>>

\* reserve_exact as _reserve_budget calls it: the request is stamped with the
\* `now` of admit, and the store refuses it if its own clock has moved on.
_reserve_budget(w) ==
    /\ At(w, "a_reserve")
    /\ LET table == _expire_locked(rows, now)
           p == prop[w] IN
       IF /\ seen[w] = now /\ Presentable(Envelope, p, now)
          /\ ~Replayed(table, p) /\ SlotsFree(table, Envelope, p, now)
       THEN /\ rows' = [table EXCEPT ![p.id] =
                 [req |-> p, envelope |-> Envelope, state |-> "RESERVED",
                  expires_at |-> p.expires_text, finalized_at |-> None]]
            /\ Goto(w, "a_validate") /\ UNCHANGED worker
       ELSE End(w) /\ UNCHANGED rows
    /\ UNCHANGED <<environment, provider, journal>>

\* A reservation that does not validate is not released: admit never got it.
AdmitValidate(w) ==
    /\ At(w, "a_validate")
    /\ BudgetRead
    /\ GoOrEnd(w, BudgetCurrent(w), "a_prepare")
    /\ UNCHANGED <<environment, provider, journal>>

JournalConflict(p) ==
    \E i \in Ids : /\ journal[i] # None
                   /\ \/ Proposal[i].effect = p.effect
                      \/ Proposal[i].key = p.key
                      \/ Proposal[i].admission = p.admission

\* RepositoryAttachJournal.prepare: one row per effect, key and admission.
prepare(w) ==
    /\ At(w, "a_prepare")
    /\ IF JournalConflict(prop[w])
       THEN Goto(w, "a_release") /\ UNCHANGED <<journal, worker>>
       ELSE /\ journal' = [journal EXCEPT ![Id(w)] =
                 [status |-> "PREPARED", attempted |-> FALSE, receipt |-> receipt[w]]]
            /\ End(w)
    /\ UNCHANGED <<environment, provider, rows>>

CloseRow(w, to) ==
    LET table == _expire_locked(rows, now) IN
    rows' = IF Id(w) \in Active(table, now)
            THEN [table EXCEPT ![Id(w)] = Close(table[Id(w)], to, now)] ELSE rows

\* admit gives the slot back when the journal refused the effect.
release(w) ==
    /\ At(w, "a_release")
    /\ CloseRow(w, "RELEASED")
    /\ End(w)
    /\ UNCHANGED <<environment, provider, journal>>
-------------------------------------------------------------------------------
(* execute.                                                                *)

\* An attempted effect is only ever reconciled; a finished one is refused.
NeedsReconcile(e) == e.status = "RECONCILE_REQUIRED" \/ (e.status = "PREPARED" /\ e.attempted)
NeedsExecution(e) == e.status = "PREPARED" /\ ~e.attempted

ExecuteGet(w) ==
    /\ At(w, "e_get")
    /\ LET e == journal[Id(w)] IN
       IF e # None /\ NeedsReconcile(e) THEN Goto(w, "observe") /\ UNCHANGED worker
       ELSE GoOrEnd(w, e # None /\ NeedsExecution(e), "e_load")
    /\ UNCHANGED <<environment, provider, stores>>

\* _load_budget_for_admission (a get and a validate_for_effect).
_load_budget_for_admission(w) ==
    /\ At(w, "e_load")
    /\ BudgetRead
    /\ GoOrEnd(w, BudgetCurrent(w), "e_observe")
    /\ UNCHANGED <<environment, provider, journal>>

ExecuteObserve(w) ==
    /\ At(w, "e_observe")
    /\ GoOrEnd(w, head = prop[w].expected, "e_revalidate")
    /\ UNCHANGED <<environment, provider, stores>>

\* The receipt must also be the one the admission was decided with.
ExecuteRevalidate(w) ==
    /\ At(w, "e_revalidate")
    /\ GoOrEnd(w, AuthorityCurrent(w) /\ receipt[w] = journal[Id(w)].receipt, "e_validate")
    /\ UNCHANGED <<environment, provider, stores>>

ExecuteValidate(w) ==
    /\ At(w, "e_validate")
    /\ BudgetRead
    /\ GoOrEnd(w, BudgetCurrent(w), "e_attempt")
    /\ UNCHANGED <<environment, provider, journal>>

\* Wrong variant: a second attempt is not refused.
MarkAttemptedAgain(w) ==
    /\ At(w, "e_attempt")
    /\ IF journal[Id(w)].status = "PREPARED"
       THEN /\ journal' = [journal EXCEPT ![Id(w)].attempted = TRUE]
            /\ Goto(w, "e_final_authority") /\ UNCHANGED worker
       ELSE End(w) /\ UNCHANGED journal
    /\ UNCHANGED <<environment, provider, rows>>

\* The write-ahead record of the attempt, made by one worker only.
mark_attempted(w) ==
    /\ At(w, "e_attempt")
    /\ IF NeedsExecution(journal[Id(w)])
       THEN /\ journal' = [journal EXCEPT ![Id(w)].attempted = TRUE]
            /\ Goto(w, "e_final_authority") /\ UNCHANGED worker
       ELSE End(w) /\ UNCHANGED journal
    /\ UNCHANGED <<environment, provider, rows>>

\* The final revalidation; if it fails the effect is left to reconciliation.
FinalAuthority(w) ==
    /\ At(w, "e_final_authority")
    /\ Goto(w, IF AuthorityCurrent(w) THEN "e_final_budget" ELSE "record")
    /\ UNCHANGED <<environment, provider, stores, worker>>

FinalBudget(w) ==
    /\ At(w, "e_final_budget")
    /\ BudgetRead
    /\ Goto(w, IF BudgetCurrent(w) THEN "e_cas" ELSE "record")
    /\ UNCHANGED <<environment, provider, journal, worker>>

compare_and_swap_fast_forward(w) ==
    /\ At(w, "e_cas")
    /\ cas' = [cas EXCEPT ![Id(w)] = "sent"]
    /\ casSent' = [casSent EXCEPT ![Id(w)] = @ + 1]
    /\ Goto(w, "e_wait")
    /\ UNCHANGED <<environment, head, stores, worker>>

\* The provider's answer arrives, or an exception or an UNKNOWN status does.
CasReply(w) ==
    /\ At(w, "e_wait") /\ cas[Id(w)] \in {"applied", "refused"}
    /\ result' = [result EXCEPT ![w] = IF cas[Id(w)] = "applied" THEN "APPLIED"
                                       ELSE "FAILED_NO_EFFECT"]
    /\ Goto(w, "observe")
    /\ UNCHANGED <<environment, provider, stores, prop, receipt, seen, observed>>
CasLost(w) ==
    /\ At(w, "e_wait")
    /\ Goto(w, "observe")
    /\ UNCHANGED <<environment, provider, stores, worker>>

\* The observation that adjudicates an effect, in execute and in
\* _reconcile_without_new_effect; it may fail.
Observe(w) ==
    /\ At(w, "observe")
    /\ observed' = [observed EXCEPT ![w] = head]
    /\ Goto(w, "record")
    /\ UNCHANGED <<environment, provider, stores, prop, receipt, seen, result>>
ObserveFails(w) ==
    /\ At(w, "observe")
    /\ Goto(w, "record")
    /\ UNCHANGED <<environment, provider, stores, worker>>

SetStatus(w, s) == journal' = [journal EXCEPT ![Id(w)].status = s]
IsOpen(w) == journal[Id(w)].status \in Open
IsAttempted(w) == IsOpen(w) /\ journal[Id(w)].attempted

SawCandidate(w) == observed[w] = prop[w].candidate

\* Wrong variant: an unchanged head is taken for proof of no effect.
SawOldHead(w) == observed[w] = prop[w].expected

SawNoEffect(w) == result[w] = "FAILED_NO_EFFECT" /\ observed[w] = prop[w].expected

mark_applied(w) ==
    /\ At(w, "record") /\ SawCandidate(w)
    /\ IF IsAttempted(w) THEN SetStatus(w, "APPLIED") /\ Goto(w, "close") /\ UNCHANGED worker
       ELSE End(w) /\ UNCHANGED journal
    /\ UNCHANGED <<environment, provider, rows>>

mark_failed_no_effect(w) ==
    /\ At(w, "record") /\ ~SawCandidate(w) /\ SawNoEffect(w)
    /\ IF IsAttempted(w) THEN SetStatus(w, "FAILED_NO_EFFECT") /\ Goto(w, "close") /\ UNCHANGED worker
       ELSE End(w) /\ UNCHANGED journal
    /\ UNCHANGED <<environment, provider, rows>>

\* Wrong variant: an unresolved effect has its reservation finalized.
MarkReconcileAndClose(w) ==
    /\ At(w, "record") /\ ~SawCandidate(w) /\ ~SawNoEffect(w)
    /\ IF IsOpen(w) THEN SetStatus(w, "RECONCILE_REQUIRED") /\ Goto(w, "close") /\ UNCHANGED worker
       ELSE End(w) /\ UNCHANGED journal
    /\ UNCHANGED <<environment, provider, rows>>

mark_reconcile_required(w) ==
    /\ At(w, "record") /\ ~SawCandidate(w) /\ ~SawNoEffect(w)
    /\ IF IsOpen(w) THEN SetStatus(w, "RECONCILE_REQUIRED") ELSE UNCHANGED journal
    /\ End(w)
    /\ UNCHANGED <<environment, provider, rows>>

\* _finalize_budget: a get, then a finalize if the row is still RESERVED.
_finalize_budget(w) ==
    /\ At(w, "close")
    /\ BudgetRead
    /\ GoOrEnd(w, BudgetCurrent(w), "finalize")
    /\ UNCHANGED <<environment, provider, journal>>
finalize(w) ==
    /\ At(w, "finalize")
    /\ CloseRow(w, "FINALIZED")
    /\ End(w)
    /\ UNCHANGED <<environment, provider, journal>>
-------------------------------------------------------------------------------
Step(w) ==
    \/ AdmitObserve(w) \/ AdmitRevalidate(w) \/ _reserve_budget(w) \/ AdmitValidate(w)
    \/ prepare(w) \/ release(w)
    \/ ExecuteGet(w) \/ _load_budget_for_admission(w) \/ ExecuteObserve(w)
    \/ ExecuteRevalidate(w) \/ ExecuteValidate(w) \/ mark_attempted(w)
    \/ FinalAuthority(w) \/ FinalBudget(w) \/ compare_and_swap_fast_forward(w)
    \/ CasReply(w) \/ CasLost(w) \/ Observe(w) \/ ObserveFails(w)
    \/ mark_applied(w) \/ mark_failed_no_effect(w) \/ mark_reconcile_required(w)
    \/ _finalize_budget(w) \/ finalize(w)

Environment ==
    \/ Tick
    \/ \E g \in SUBSET {p.grant : p \in Requests} : Advance(g)
    \/ \E c \in Commits : OtherPush(c)
    \/ \E i \in Ids : ProviderSwap(i) \/ ProviderRefuse(i)

Next ==
    \/ Environment
    \/ \E w \in Workers :
        \/ \E p \in Requests, r \in 1..version : admit(w, p, r) \/ execute(w, p, r)
        \/ Step(w)
        \/ Crash(w)

Spec == Init /\ [][Next]_vars
-------------------------------------------------------------------------------
(* Properties.                                                             *)

\* One compare-and-swap at most is ever sent for an authority effect key, over
\* concurrent and repeated execute calls, crashes and lost answers: grants say
\* "single_effect:true", and mark_attempted is what enforces it.
SpentOnce ==
    /\ \A i \in Ids : casSent[i] <= 1
    /\ \A i, j \in Ids : casSent[i] > 0 /\ casSent[j] > 0 /\ i # j =>
          Proposal[i].key # Proposal[j].key

\* Before a request leaves for the provider, its attempt is durable in the
\* journal and its fleet slot was taken and not given back.
JournaledAndCharged ==
    \A i \in Ids : casSent[i] > 0 =>
        /\ journal[i] # None /\ journal[i].attempted
        /\ rows[i] # None /\ rows[i].state # "RELEASED"

\* FAILED_NO_EFFECT is never recorded for a request that took effect or still
\* could: a lost answer plus an unchanged head is not evidence of no effect.
NoEffectIsTrue ==
    \A i \in Ids : journal[i] # None /\ journal[i].status = "FAILED_NO_EFFECT" => cas[i] = "refused"

\* The two databases agree although nothing makes their writes atomic: a slot is
\* FINALIZED only after the journal holds a final outcome, and RELEASED only for
\* an effect the journal never accepted.
BudgetFollowsJournal ==
    \A i \in Ids :
        /\ HasState(rows, i, "FINALIZED") =>
              journal[i] # None /\ journal[i].status \in {"APPLIED", "FAILED_NO_EFFECT"}
        /\ HasState(rows, i, "RELEASED") => journal[i] = None

\* No call that is late, repeated or concurrent reopens an adjudicated effect or
\* forgets an attempt.
OutcomeIsFinal ==
    [][\A i \in Ids : journal[i] # None =>
          /\ journal'[i] # None
          /\ journal[i].attempted => journal'[i].attempted
          /\ journal[i].status \notin Open => journal'[i].status = journal[i].status]_vars

-------------------------------------------------------------------------------
(* The PEP implements AttachOnce.                                          *)

PhaseOf(e) ==
    CASE e = None -> "none"
      [] e # None /\ e.status = "APPLIED" -> "applied"
      [] e # None /\ e.status = "FAILED_NO_EFFECT" -> "no_effect"
      [] e # None /\ e.status \in Open -> IF e.attempted THEN "attempted" ELSE "admitted"

Abstract == INSTANCE AttachOnce WITH
    Effects <- Ids,
    Key <- [i \in Ids |-> Proposal[i].key],
    phase <- [i \in Ids |-> PhaseOf(journal[i])],
    landed <- {i \in Ids : cas[i] = "applied"}

\* Journal, budget, provider and workers together keep the promise of AttachOnce.
ImplementsAttachOnce == Abstract!AttachSpec
===============================================================================
