---------------------------- MODULE LiveAuthority ----------------------------
(***************************************************************************)
(* Admission, revalidation and binding finalization of authority           *)
(* (src/cyber_lion/enterprise/live_authority_admission.py) against the     *)
(* durable epoch, root and replay tables of one authority context          *)
(* (SQLiteAuthorityStateStore in persistent_authority_state.py).           *)
(*                                                                         *)
(* Every table operation is one transaction, but admit and revalidate read *)
(* the epoch row and the root row in separate ones, authenticate, and read *)
(* both again, while other processes advance the epoch and revoke grants.  *)
(* finalize_binding runs revalidate and then checks everything once more   *)
(* inside the transaction that consumes its replay key.                    *)
(***************************************************************************)
EXTENDS Naturals, FiniteSets

CONSTANTS
    Clients,     \* concurrent callers of LiveAuthorityAdmission
    Lineages,    \* authority lineages of the canonical source: records with
                 \* the set `grants`, its `root` and `leaf`, and their `epoch`
    Nonces,      \* replay and binding nonces
    Evidence,    \* runtime_evidence_digest values a binding may be finalized with
    MaxEpoch,    \* bound on the epoch
    MaxVersion,  \* bound on the number of epoch-state writes
    MaxReceipts, \* bound: no admission begins once so many are handed out
    None

Epochs == 0..MaxEpoch
Grants == UNION {l.grants : l \in Lineages}
EpochState == [epoch : Epochs, revoked : SUBSET Grants, version : Nat \ {0}]

ASSUME AuthorityAssumption ==
    /\ MaxEpoch \in Nat /\ MaxVersion \in Nat /\ MaxReceipts \in Nat
    /\ \A l \in Lineages : l.epoch \in Epochs /\ l.root \in l.grants /\ l.leaf \in l.grants
    /\ \A l, m \in Lineages : l.grants \cap m.grants # {} => l.epoch = m.epoch
    /\ None \notin EpochState /\ None \notin Grants

VARIABLES
    state,        \* authority_epoch_state, None before bootstrap
    roots,        \* authority_root_anchor, by epoch
    replay,       \* replay_state
    expired,      \* lineages with a grant past its expires_at
    pc, job,      \* where each call is, and what it was called with
    before, root, \* the first snapshot of each call
    after,        \* the epoch row of its second snapshot
    receipts,     \* LiveAdmittedAuthority receipts handed out
    finals,       \* PersistentBindingFinalizations
    everRevoked   \* history: grants once revoked in their own epoch

tables == <<state, roots, replay>>
locals == <<pc, job, before, root, after>>
vars == <<state, roots, replay, expired, pc, job, before, root, after, receipts, finals, everRevoked>>

Receipts == [lineage : Lineages, epoch : Epochs, version : Nat \ {0}, root : Grants,
             nonce : Nonces, by : Clients]
Finals == [receipt : Receipts, evidence : Evidence, nonce : Nonces, by : Clients]
Steps == {"idle", "state1", "root1", "state2", "root2", "consume", "return", "commit"}
Jobs == [kind : {"admit"}, lineage : Lineages, nonce : Nonces, onTime : BOOLEAN]
        \cup [kind : {"finalize"}, lineage : Lineages, nonce : Nonces,
              onTime : BOOLEAN, receipt : Receipts, evidence : Evidence]

TypeOK ==
    /\ state \in EpochState \cup {None}
    /\ roots \in [Epochs -> Grants \cup {None}]
    /\ expired \subseteq Lineages
    /\ pc \in [Clients -> Steps]
    /\ \A c \in Clients : job[c] = None \/ job[c] \in Jobs
    /\ before \in [Clients -> EpochState \cup {None}]
    /\ root \in [Clients -> Grants \cup {None}]
    /\ after \in [Clients -> EpochState \cup {None}]
    /\ receipts \subseteq Receipts
    /\ finals \subseteq Finals
    /\ everRevoked \subseteq Grants

Init ==
    /\ state = None
    /\ roots = [e \in Epochs |-> None]
    /\ replay = {}
    /\ expired = {}
    /\ pc = [c \in Clients |-> "idle"]
    /\ job = [c \in Clients |-> None]
    /\ before = [c \in Clients |-> None]
    /\ root = [c \in Clients |-> None]
    /\ after = [c \in Clients |-> None]
    /\ receipts = {} /\ finals = {} /\ everRevoked = {}
------------------------------------------------------------------------------
(* SQLiteAuthorityStateStore: writers of the epoch and root tables.        *)

GrantsOf(e) == UNION {l.grants : l \in {m \in Lineages : m.epoch = e}}

WriteState(s) ==
    /\ state' = s
    /\ everRevoked' = everRevoked \cup (s.revoked \cap GrantsOf(s.epoch))

bootstrap_context(e, revoked) ==
    /\ state = None
    /\ WriteState([epoch |-> e, revoked |-> revoked, version |-> 1])
    /\ UNCHANGED <<roots, replay, expired, locals, receipts, finals>>

MayAdvance(e, revoked) ==
    /\ e >= state.epoch
    /\ e = state.epoch => state.revoked \subseteq revoked

\* A later epoch may start with any revocation list; within an epoch the list
\* only grows.  Every write is a new version.
advance_epoch(e, revoked) ==
    /\ state # None /\ state.version < MaxVersion
    /\ MayAdvance(e, revoked)
    /\ WriteState([epoch |-> e, revoked |-> revoked, version |-> state.version + 1])
    /\ UNCHANGED <<roots, replay, expired, locals, receipts, finals>>

\* One root per epoch, registered while that epoch is the current one.
register_root(g) ==
    /\ state # None /\ roots[state.epoch] = None
    /\ roots' = [roots EXCEPT ![state.epoch] = g]
    /\ UNCHANGED <<state, replay, expired, locals, receipts, finals, everRevoked>>

Expire(l) ==
    /\ l \notin expired
    /\ expired' = expired \cup {l}
    /\ UNCHANGED <<tables, locals, receipts, finals, everRevoked>>
------------------------------------------------------------------------------
(* LiveAuthorityAdmission.                                                 *)

Begin(c, j) ==
    /\ pc[c] = "idle"
    /\ pc' = [pc EXCEPT ![c] = "state1"]
    /\ job' = [job EXCEPT ![c] = j]
    /\ UNCHANGED <<tables, expired, before, root, after, receipts, finals, everRevoked>>

\* admit and finalize_binding are given the time of the call, so whether the
\* lineage is on time is decided when the call begins.  finalize_binding first
\* runs revalidate on its receipt.
admit(c, l, n) ==
    /\ Cardinality(receipts) < MaxReceipts
    /\ Begin(c, [kind |-> "admit", lineage |-> l, nonce |-> n, onTime |-> l \notin expired])
revalidate(c, r, e, n) ==
    Begin(c, [kind |-> "finalize", lineage |-> r.lineage, nonce |-> n,
              onTime |-> r.lineage \notin expired, receipt |-> r, evidence |-> e])

\* The call ends: it returned, raised, or its process died.
End(c) ==
    /\ pc' = [pc EXCEPT ![c] = "idle"]
    /\ job' = [job EXCEPT ![c] = None]
    /\ before' = [before EXCEPT ![c] = None]
    /\ root' = [root EXCEPT ![c] = None]
    /\ after' = [after EXCEPT ![c] = None]

Goto(c, step) == pc' = [pc EXCEPT ![c] = step] /\ UNCHANGED job

Durables == <<tables, expired, receipts, finals, everRevoked>>

\* _snapshot, first transaction: current_epoch.
ReadState1(c) ==
    /\ pc[c] = "state1"
    /\ IF state = None THEN End(c)
       ELSE before' = [before EXCEPT ![c] = state] /\ Goto(c, "root1") /\ UNCHANGED <<root, after>>
    /\ UNCHANGED Durables

_authenticate_record(j, s, anchor) ==
    /\ anchor = j.lineage.root
    /\ j.lineage.epoch = s.epoch
    /\ j.lineage.grants \cap s.revoked = {}
    /\ j.onTime

\* _snapshot, second transaction: resolve_root; then _authenticate_record.
ReadRoot1(c) ==
    /\ pc[c] = "root1"
    /\ LET anchor == roots[before[c].epoch] IN
       IF anchor # None /\ _authenticate_record(job[c], before[c], anchor)
       THEN root' = [root EXCEPT ![c] = anchor] /\ Goto(c, "state2") /\ UNCHANGED <<before, after>>
       ELSE End(c)
    /\ UNCHANGED Durables

\* The second snapshot.
ReadState2(c) ==
    /\ pc[c] = "state2"
    /\ after' = [after EXCEPT ![c] = state]
    /\ Goto(c, "root2")
    /\ UNCHANGED <<Durables, before, root>>

\* What revalidate compares the receipt with.
MatchesReceipt(c) ==
    /\ job[c].receipt.epoch = before[c].epoch
    /\ job[c].receipt.version = before[c].version
    /\ job[c].receipt.root = root[c]

\* _same_snapshot, and for a receipt also its own epoch, version and root.
ReadRoot2(c) ==
    /\ pc[c] = "root2"
    /\ IF /\ before[c] = after[c] /\ roots[after[c].epoch] = root[c]
          /\ job[c].kind = "finalize" => MatchesReceipt(c)
       THEN /\ Goto(c, IF job[c].kind = "admit" THEN "consume" ELSE "commit")
            /\ UNCHANGED <<before, root, after>>
       ELSE End(c)
    /\ UNCHANGED Durables

AdmitKey(c) == <<"admit", job[c].lineage, before[c].epoch, before[c].version, job[c].nonce>>
FinalKey(c) == <<"finalize", job[c].receipt, job[c].evidence, job[c].nonce>>

\* Wrong variant: the result of the insert is not looked at.
ConsumeUnchecked(c) ==
    /\ pc[c] = "consume"
    /\ replay' = replay \cup {AdmitKey(c)}
    /\ Goto(c, "return")
    /\ UNCHANGED <<state, roots, expired, before, root, after, receipts, finals, everRevoked>>

\* DurableReplayGuard.consume: an admission key is accepted once.
consume_replay(c) ==
    /\ pc[c] = "consume"
    /\ IF AdmitKey(c) \in replay
       THEN End(c) /\ UNCHANGED replay
       ELSE /\ replay' = replay \cup {AdmitKey(c)}
            /\ Goto(c, "return") /\ UNCHANGED <<before, root, after>>
    /\ UNCHANGED <<state, roots, expired, receipts, finals, everRevoked>>

\* admit returns its receipt.
ReturnReceipt(c) ==
    /\ pc[c] = "return"
    /\ receipts' = receipts \cup
          {[lineage |-> job[c].lineage, epoch |-> before[c].epoch, version |-> before[c].version,
            root |-> root[c], nonce |-> job[c].nonce, by |-> c]}
    /\ End(c)
    /\ UNCHANGED <<tables, expired, finals, everRevoked>>

\* Wrong variant: the version is left out of the comparison.
StillCurrentIgnoringVersion(c) ==
    /\ state.epoch = job[c].receipt.epoch
    /\ job[c].receipt.lineage.leaf \notin state.revoked
    /\ roots[state.epoch] = job[c].receipt.root

StillCurrent(c) ==
    /\ state.epoch = job[c].receipt.epoch
    /\ state.version = job[c].receipt.version
    /\ job[c].receipt.lineage.leaf \notin state.revoked
    /\ roots[state.epoch] = job[c].receipt.root

\* SQLiteAuthorityStateStore.finalize_binding, one transaction.
finalize_binding(c) ==
    /\ pc[c] = "commit"
    /\ IF StillCurrent(c) /\ FinalKey(c) \notin replay
       THEN /\ replay' = replay \cup {FinalKey(c)}
            /\ finals' = finals \cup
                  {[receipt |-> job[c].receipt, evidence |-> job[c].evidence,
                    nonce |-> job[c].nonce, by |-> c]}
       ELSE UNCHANGED <<replay, finals>>
    /\ End(c)
    /\ UNCHANGED <<state, roots, expired, receipts, everRevoked>>

Crash(c) ==
    /\ pc[c] # "idle"
    /\ End(c)
    /\ UNCHANGED Durables

Next ==
    \/ \E e \in Epochs, revoked \in SUBSET Grants :
          bootstrap_context(e, revoked) \/ advance_epoch(e, revoked)
    \/ \E g \in Grants : register_root(g)
    \/ \E l \in Lineages : Expire(l)
    \/ \E c \in Clients :
        \/ \E l \in Lineages, n \in Nonces : admit(c, l, n)
        \/ \E r \in receipts, e \in Evidence, n \in Nonces : revalidate(c, r, e, n)
        \/ ReadState1(c) \/ ReadRoot1(c) \/ ReadState2(c) \/ ReadRoot2(c)
        \/ consume_replay(c) \/ ReturnReceipt(c)
        \/ finalize_binding(c)
        \/ Crash(c)

Spec == Init /\ [][Next]_vars
------------------------------------------------------------------------------
(* Properties.                                                             *)

\* A binding is finalized only for a lineage none of whose grants, ancestors
\* included, has ever been revoked in its epoch: not even by a revocation that
\* lands between revalidate and the finalizing transaction, or one that a later
\* epoch's list no longer names.  finalize_binding itself only looks up the leaf.
RevocationIsForever ==
    [][\A f \in finals' \ finals : f.receipt.lineage.grants \cap everRevoked' = {}]_vars

\* Concurrent admissions of one lineage with one nonce under one epoch row, and
\* concurrent finalizations of one receipt with one runtime evidence and one nonce,
\* succeed once: the replay row decides, also when a process dies after writing it.
\* Another evidence makes another key, so a receipt and a nonce alone may be
\* finalized again.
AcceptedOnce ==
    /\ \A r, q \in receipts :
          /\ r.lineage = q.lineage /\ r.epoch = q.epoch /\ r.version = q.version /\ r.nonce = q.nonce
          => r = q
    /\ \A f, g \in finals :
          f.receipt = g.receipt /\ f.evidence = g.evidence /\ f.nonce = g.nonce => f = g
==============================================================================
