---------------------------- MODULE MediatorProofs ----------------------------
(***************************************************************************)
(* Proofs about the five mediators that share the durable effect fence:    *)
(* RunCancel, CommentWrite, FileWrite, RepositoryDelete, WorkflowDispatch. *)
(*                                                                         *)
(* The first part is about the fence alone.  FenceSafe says that a worker  *)
(* past its prepare is the only one with its key, and that its place tells *)
(* the state of its row; FenceStep lists what a step of a mediator may do  *)
(* to the fence, and FenceKept and PhasesKept show that such a step keeps  *)
(* FenceSafe and moves the row the way EffectOnce allows.  OnceKept is     *)
(* about EffectOnce itself: what its steps keep of phases and calls.       *)
(*                                                                         *)
(* Each mediator then shows that its steps are FenceSteps (its Steps and   *)
(* Fence lemmas), adds what its own evidence rests on, and concludes: its  *)
(* verdicts are true, it implements EffectOnce, and so it calls the        *)
(* provider once.  The writing of a file is extended, so its names have no *)
(* prefix; the other four are instances, and their promises are extended.  *)
(* What each assumes of its constants is a hypothesis of its lemmas, for   *)
(* no choice of Keys fits all five; the runs of the mediators evaluate the *)
(* same formulas as assumptions.                                           *)
(***************************************************************************)
EXTENDS Sequences, FiniteSets, FileWrite, RunCancelPromise, CommentWritePromise,
    RepositoryDeletePromise, WorkflowDispatchPromise, FiniteSetTheorems, TLAPS

CONSTANTS MaxTrust, MaxReruns, Bodies, Target, MaxMaster, MaxChanges, MaxEffects,
    Executions, Heads, Safe, Comments, MaxHead, MaxRuns, MaxClock
VARIABLES cancelling, reruns, trust, post, comments, master, changes, http,
    ref, view, blocked, late, del, clock, head, accepted, attempted_at, observation
-------------------------------------------------------------------------------
(* The fence, whichever mediator uses it.                                  *)

\* The places of the five mediators at which a worker's own row is PREPARED,
\* ATTEMPTED or OBSERVED.
PreparedAt == {"recheck", "authorize", "attempt"}
AttemptedAt == {"sandbox", "current", "boundary", "fenced", "write", "temp", "identity", "commit",
                "clean", "clean_failed", "post", "send", "wait", "readback", "observe", "observed"}
ObservedAt == {"reconcile", "verdict"}
HeldAt == PreparedAt \cup AttemptedAt \cup ObservedAt \cup {"failed"}
FreeAt == {"idle", "ledger", "claim", "moved", "stamp", "admit", "resolve", "resolve_again", "check",
           "prepare", "late_observe", "late_record", "patch_failed", "receipt"}
Anywhere == HeldAt \cup FreeAt

\* The rows that the transactions of a fence can produce.
PreparedRow == [state |-> "PREPARED", attempted |-> FALSE]
AttemptedRow == [state |-> "ATTEMPTED", attempted |-> TRUE]
ObservedRow == [state |-> "OBSERVED", attempted |-> TRUE]
ReconciledRow == [state |-> "RECONCILED", attempted |-> TRUE]
UnknownRow == [state |-> "UNKNOWN", attempted |-> TRUE]
AbandonedRow == [state |-> "UNKNOWN", attempted |-> FALSE]
OpenRows == {PreparedRow, AttemptedRow, ObservedRow}

RowAt(place, r) ==
    /\ place \in PreparedAt => r = PreparedRow
    /\ place \in AttemptedAt => r = AttemptedRow
    /\ place \in ObservedAt => r = ObservedRow
    /\ place = "failed" => r \in OpenRows

Rows == \A k \in Keys :
    fence[k] \in OpenRows \cup {None, ReconciledRow, UnknownRow, AbandonedRow}

\* A worker past its prepare is the only one with its key, and its place tells
\* the state of the row.
Custody ==
    /\ \A w \in Workers : pc[w] # "idle" => job[w] \in Keys
    /\ \A w \in Workers : RowAt(pc[w], fence[job[w]])
    /\ \A v, w \in Workers : pc[v] \in HeldAt /\ pc[w] \in HeldAt /\ job[v] = job[w] => v = w

FenceSafe == FenceType /\ Rows /\ Custody /\ pc \in [Workers -> Anywhere]

\* What a step of a mediator can do to the fence and to its worker.
BeginsWork(w, k, place) ==
    /\ pc[w] \notin HeldAt /\ place \notin HeldAt
    /\ k \in Keys /\ job' = [job EXCEPT ![w] = k]
    /\ pc' = [pc EXCEPT ![w] = place]
    /\ UNCHANGED fence

\* rivals: for each key, itself and the keys that share a unique column with it.
Inserts(w, place, rivals) ==
    /\ job[w] \in Keys /\ place \in PreparedAt
    /\ fence[job[w]] = None /\ \A j \in rivals[job[w]] : fence[j] = None
    /\ fence' = [fence EXCEPT ![job[w]] = PreparedRow]
    /\ pc' = [pc EXCEPT ![w] = place]
    /\ UNCHANGED job

MovesOn(w, place) ==
    /\ pc[w] # "idle" /\ RowAt(place, fence[job[w]])
    /\ place \in HeldAt => pc[w] \in HeldAt
    /\ pc' = [pc EXCEPT ![w] = place]
    /\ UNCHANGED <<fence, job>>

Ends(w) ==
    /\ pc' = [pc EXCEPT ![w] = "idle"]
    /\ job' = [job EXCEPT ![w] = None]

RowStep(q, r) ==
    \/ q = PreparedRow /\ r \in {AttemptedRow, AbandonedRow}
    \/ q = AttemptedRow /\ r \in {ObservedRow, UnknownRow}
    \/ q = ObservedRow /\ r \in {ReconciledRow, UnknownRow}

Marks(w, r, place) ==
    /\ pc[w] \in HeldAt
    /\ RowStep(fence[job[w]], r) /\ RowAt(place, r)
    /\ fence' = [fence EXCEPT ![job[w]] = r]
    /\ \/ pc' = [pc EXCEPT ![w] = place] /\ UNCHANGED job
       \/ place = "idle" /\ Ends(w)

\* Late reconciliation of an effect whose outcome was unknown.
Resolves(w, k) ==
    /\ k \in Keys /\ fence[k] = UnknownRow
    /\ fence' = [fence EXCEPT ![k] = ReconciledRow]
    /\ Ends(w)

FenceStep(resolves, rivals) ==
    \/ UNCHANGED <<fence, pc, job>>
    \/ \E w \in Workers :
        \/ Ends(w) /\ UNCHANGED fence
        \/ resolves /\ \E k \in Keys : Resolves(w, k)
        \/ \E place \in Anywhere :
            \/ \E k \in Keys : BeginsWork(w, k, place)
            \/ Inserts(w, place, rivals) \/ MovesOn(w, place) \/ \E r \in Row : Marks(w, r, place)

USE DEF RowAt

LEMMA RowFacts ==
    /\ {PreparedRow, AttemptedRow, ObservedRow, ReconciledRow, UnknownRow, AbandonedRow} \subseteq Row
    /\ PreparedRow.state = "PREPARED" /\ ~PreparedRow.attempted
    /\ AttemptedRow.state = "ATTEMPTED" /\ AttemptedRow.attempted
    /\ ObservedRow.state = "OBSERVED" /\ ObservedRow.attempted
    /\ ReconciledRow.state = "RECONCILED" /\ ReconciledRow.attempted
    /\ UnknownRow.state = "UNKNOWN" /\ UnknownRow.attempted
    /\ AbandonedRow.state = "UNKNOWN" /\ ~AbandonedRow.attempted
<1>1. {PreparedRow, AttemptedRow, ObservedRow, ReconciledRow, UnknownRow, AbandonedRow} \subseteq Row
  BY DEF PreparedRow, AttemptedRow, ObservedRow, ReconciledRow, UnknownRow, AbandonedRow, Row, States
<1> QED BY <1>1 DEF PreparedRow, AttemptedRow, ObservedRow, ReconciledRow, UnknownRow, AbandonedRow

\* The rows are told apart by their fields.
LEMMA RowsDiffer ==
    /\ PreparedRow \notin {AttemptedRow, ObservedRow, ReconciledRow, UnknownRow, AbandonedRow}
    /\ AttemptedRow \notin {ObservedRow, ReconciledRow, UnknownRow, AbandonedRow}
    /\ ObservedRow \notin {ReconciledRow, UnknownRow, AbandonedRow}
    /\ ReconciledRow \notin {UnknownRow, AbandonedRow}
    /\ UnknownRow # AbandonedRow
  BY RowFacts

LEMMA FenceKept ==
  ASSUME None \notin Row, None \notin Keys, FenceSafe,
         NEW resolves \in BOOLEAN, NEW rivals, FenceStep(resolves, rivals)
  PROVE  FenceSafe'
<1> USE RowFacts, RowsDiffer DEF FenceSafe, FenceType, Rows, Custody, OpenRows
<1>1. CASE UNCHANGED <<fence, pc, job>>
  BY <1>1
<1> SUFFICES ASSUME NEW w \in Workers,
                    \/ Ends(w) /\ UNCHANGED fence
                    \/ resolves /\ \E k \in Keys : Resolves(w, k)
                    \/ \E place \in Anywhere :
                        \/ \E k \in Keys : BeginsWork(w, k, place)
                        \/ Inserts(w, place, rivals) \/ MovesOn(w, place) \/ \E r \in Row : Marks(w, r, place)
             PROVE  FenceSafe'
  BY <1>1 DEF FenceStep
<1>0. "idle" \in Anywhere
  BY DEF Anywhere, FreeAt
<1>2. CASE Ends(w) /\ UNCHANGED fence
  BY <1>0, <1>2 DEF Ends, HeldAt, PreparedAt, AttemptedAt, ObservedAt
<1>3. ASSUME NEW k \in Keys, Resolves(w, k) PROVE FenceSafe'
  BY <1>0, <1>3 DEF Resolves, Ends, HeldAt, PreparedAt, AttemptedAt, ObservedAt
<1>4. ASSUME NEW place \in Anywhere, NEW k \in Keys, BeginsWork(w, k, place) PROVE FenceSafe'
  BY <1>4 DEF BeginsWork, HeldAt, PreparedAt, AttemptedAt, ObservedAt
<1>5. ASSUME NEW place \in Anywhere, Inserts(w, place, rivals) PROVE FenceSafe'
  BY <1>5 DEF Inserts, HeldAt, PreparedAt, AttemptedAt, ObservedAt
<1>6. ASSUME NEW place \in Anywhere, MovesOn(w, place) PROVE FenceSafe'
  BY <1>6 DEF MovesOn, HeldAt, PreparedAt, AttemptedAt, ObservedAt
<1>7. ASSUME NEW place \in Anywhere, NEW r \in Row, Marks(w, r, place) PROVE FenceSafe'
  BY <1>7 DEF Marks, RowStep, Ends, HeldAt, PreparedAt, AttemptedAt, ObservedAt
<1> QED BY <1>2, <1>3, <1>4, <1>5, <1>6, <1>7

\* The transactions of the fence, run by the worker that holds the row.
LEMMA AttemptMarks ==
  ASSUME FenceSafe, NEW w \in Workers, pc[w] \in PreparedAt,
         NEW place \in AttemptedAt, MarkAttempted(w, place)
  PROVE  Marks(w, AttemptedRow, place)
<1>1. fence[job[w]] = PreparedRow /\ pc[w] \in HeldAt
  BY DEF FenceSafe, Custody, HeldAt
<1>2. fence[job[w]].state = "PREPARED" /\ ~fence[job[w]].attempted
  BY <1>1, RowFacts
<1>3. fence' = [fence EXCEPT ![job[w]] = AttemptedRow]
  BY <1>2 DEF MarkAttempted, AttemptedRow
<1> QED BY <1>1, <1>2, <1>3, RowFacts DEF MarkAttempted, Goto, Marks, RowStep, PreparedAt, AttemptedAt,
   ObservedAt

\* A row is known by its two fields.
LEMMA RowFields ==
  ASSUME NEW q \in Row, NEW r \in Row, q.state = r.state, q.attempted <=> r.attempted
  PROVE  q = r
  BY DEF Row

LEMMA RowUpdate ==
  ASSUME NEW q \in Row, NEW r \in Row, q.attempted <=> r.attempted
  PROVE  [q EXCEPT !.state = r.state] = r
<1>1. /\ [q EXCEPT !.state = r.state] \in Row
      /\ [q EXCEPT !.state = r.state].state = r.state
      /\ [q EXCEPT !.state = r.state].attempted = q.attempted
  BY DEF Row
<1> QED BY <1>1, RowFields

LEMMA RowUpdates ==
    /\ [AttemptedRow EXCEPT !.state = "OBSERVED"] = ObservedRow
    /\ [ObservedRow EXCEPT !.state = "RECONCILED"] = ReconciledRow
    /\ [PreparedRow EXCEPT !.state = "UNKNOWN"] = AbandonedRow
    /\ [AttemptedRow EXCEPT !.state = "UNKNOWN"] = UnknownRow
    /\ [ObservedRow EXCEPT !.state = "UNKNOWN"] = UnknownRow
    /\ [UnknownRow EXCEPT !.state = "RECONCILED"] = ReconciledRow
<1>1. [AttemptedRow EXCEPT !.state = ObservedRow.state] = ObservedRow
  BY RowFacts, RowUpdate
<1>2. [ObservedRow EXCEPT !.state = ReconciledRow.state] = ReconciledRow
  BY RowFacts, RowUpdate
<1>3. [PreparedRow EXCEPT !.state = AbandonedRow.state] = AbandonedRow
  BY RowFacts, RowUpdate
<1>4. [AttemptedRow EXCEPT !.state = UnknownRow.state] = UnknownRow
  BY RowFacts, RowUpdate
<1>5. [ObservedRow EXCEPT !.state = UnknownRow.state] = UnknownRow
  BY RowFacts, RowUpdate
<1>6. [UnknownRow EXCEPT !.state = ReconciledRow.state] = ReconciledRow
  BY RowFacts, RowUpdate
<1> QED BY <1>1, <1>2, <1>3, <1>4, <1>5, <1>6, RowFacts

LEMMA ObserveMarks ==
  ASSUME FenceSafe, NEW w \in Workers, pc[w] \in AttemptedAt,
         NEW place \in ObservedAt, MarkObserved(w, place)
  PROVE  Marks(w, ObservedRow, place)
<1>1. fence[job[w]] = AttemptedRow /\ pc[w] \in HeldAt
  BY DEF FenceSafe, Custody, HeldAt
<1>2. fence' = [fence EXCEPT ![job[w]] = ObservedRow]
  BY <1>1, RowFacts, RowUpdates DEF MarkObserved, Mark
<1> QED BY <1>1, <1>2, RowFacts DEF MarkObserved, Mark, Goto, Marks, RowStep, PreparedAt, AttemptedAt,
   ObservedAt

LEMMA ReconcileMarks ==
  ASSUME FenceSafe, NEW w \in Workers, pc[w] \in ObservedAt,
         NEW place \in FreeAt, MarkReconciled(w, place)
  PROVE  Marks(w, ReconciledRow, place)
<1>1. fence[job[w]] = ObservedRow /\ pc[w] \in HeldAt
  BY DEF FenceSafe, Custody, HeldAt
<1>2. fence' = [fence EXCEPT ![job[w]] = ReconciledRow]
  BY <1>1, RowFacts, RowUpdates DEF MarkReconciled
<1> QED BY <1>1, <1>2, RowFacts DEF MarkReconciled, Leave, Finish, Goto, Ends, Marks, RowStep,
        PreparedAt, AttemptedAt, ObservedAt, FreeAt

LEMMA UnknownMarks ==
  ASSUME FenceSafe, NEW w \in Workers, pc[w] \in ObservedAt \cup {"failed"},
         NEW place \in FreeAt, MarkUnknown(w, place)
  PROVE  \E r \in {UnknownRow, AbandonedRow} : Marks(w, r, place)
<1>1. fence[job[w]] \in OpenRows /\ pc[w] \in HeldAt
  BY DEF FenceSafe, Custody, HeldAt, OpenRows, PreparedAt, AttemptedAt, ObservedAt
<1>2. PICK r \in {UnknownRow, AbandonedRow} :
         RowStep(fence[job[w]], r) /\ fence' = [fence EXCEPT ![job[w]] = r]
  BY <1>1, RowFacts, RowUpdates DEF MarkUnknown, Undecided, OpenRows, RowStep
<1> QED BY <1>1, <1>2, RowFacts DEF MarkUnknown, Leave, Finish, Goto, Ends, Marks,
        PreparedAt, AttemptedAt, ObservedAt, FreeAt

Becomes(k, from, to) == Phase[k] = from /\ Phase' = [Phase EXCEPT ![k] = to]

\* A step of the fence is a step of EffectOnce, as far as its phases go.
PhaseStep(resolves, rivals) ==
    \/ UNCHANGED Phase
    \/ \E k \in Keys :
        \/ Becomes(k, "none", "prepared") /\ \A j \in rivals[k] : Phase[j] = "none"
        \/ Becomes(k, "prepared", "attempted")
        \/ Becomes(k, "prepared", "abandoned")
        \/ Becomes(k, "attempted", "confirmed")
        \/ Becomes(k, "attempted", "unknown")
        \/ resolves /\ Becomes(k, "unknown", "confirmed")

LEMMA PhaseFacts ==
  ASSUME None \notin Row
  PROVE  /\ PhaseOf(None) = "none"
         /\ PhaseOf(PreparedRow) = "prepared"
         /\ PhaseOf(AttemptedRow) = "attempted"
         /\ PhaseOf(ObservedRow) = "attempted"
         /\ PhaseOf(ReconciledRow) = "confirmed"
         /\ PhaseOf(UnknownRow) = "unknown"
         /\ PhaseOf(AbandonedRow) = "abandoned"
  BY RowFacts DEF PhaseOf

LEMMA PhaseWritten ==
  ASSUME FenceSafe, NEW k \in Keys, NEW r, fence' = [fence EXCEPT ![k] = r]
  PROVE  Phase' = [Phase EXCEPT ![k] = PhaseOf(r)]
  BY DEF FenceSafe, FenceType, Phase

LEMMA PhasesKept ==
  ASSUME None \notin Row, None \notin Keys, FenceSafe,
         NEW resolves \in BOOLEAN, NEW rivals \in [Keys -> SUBSET Keys], FenceStep(resolves, rivals)
  PROVE  PhaseStep(resolves, rivals)
<1>1. CASE UNCHANGED fence
  BY <1>1 DEF PhaseStep, Phase
<1>2. ASSUME NEW w \in Workers, NEW k \in Keys, resolves, Resolves(w, k) PROVE PhaseStep(resolves, rivals)
  <2>1. Phase' = [Phase EXCEPT ![k] = PhaseOf(ReconciledRow)] /\ Phase[k] = PhaseOf(UnknownRow)
    BY <1>2, PhaseWritten DEF Resolves, Phase
  <2>2. Becomes(k, "unknown", "confirmed")
    BY <2>1, PhaseFacts DEF Becomes
  <2> QED BY <1>2, <2>2 DEF PhaseStep
<1>3. ASSUME NEW w \in Workers, NEW place, Inserts(w, place, rivals) PROVE PhaseStep(resolves, rivals)
  <2>1. Phase' = [Phase EXCEPT ![job[w]] = PhaseOf(PreparedRow)]
    BY <1>3, PhaseWritten DEF Inserts
  <2>2. Phase[job[w]] = "none" /\ \A j \in rivals[job[w]] : Phase[j] = "none"
    BY <1>3, PhaseFacts DEF Inserts, Phase
  <2>3. Becomes(job[w], "none", "prepared")
    BY <2>1, <2>2, PhaseFacts DEF Becomes
  <2> QED BY <1>3, <2>2, <2>3 DEF PhaseStep, Inserts
<1>4. ASSUME NEW w \in Workers, NEW place, NEW r \in Row, Marks(w, r, place) PROVE PhaseStep(resolves, rivals)
  <2>1. job[w] \in Keys
    BY <1>4 DEF Marks, FenceSafe, Custody, HeldAt, PreparedAt, AttemptedAt, ObservedAt
  <2>2. RowStep(fence[job[w]], r) /\ fence' = [fence EXCEPT ![job[w]] = r]
    BY <1>4 DEF Marks
  <2>3. Phase' = [Phase EXCEPT ![job[w]] = PhaseOf(r)] /\ Phase[job[w]] = PhaseOf(fence[job[w]])
    BY <2>1, <2>2, PhaseWritten DEF Phase
  <2>4. \/ Becomes(job[w], "prepared", "attempted") \/ Becomes(job[w], "prepared", "abandoned")
        \/ UNCHANGED Phase \/ Becomes(job[w], "attempted", "unknown")
        \/ Becomes(job[w], "attempted", "confirmed")
    <3>1. CASE fence[job[w]] = AttemptedRow /\ r = ObservedRow
      BY <2>1, <2>3, <3>1, PhaseFacts DEF Phase
    <3> QED BY <2>2, <2>3, <3>1, PhaseFacts DEF RowStep, Becomes
  <2> QED BY <2>1, <2>4 DEF PhaseStep
<1> QED BY <1>1, <1>2, <1>3, <1>4 DEF FenceStep, BeginsWork, MovesOn

\* What every behaviour of EffectOnce keeps: a call is on record, and of two effects
\* that share a binding one was never prepared.
Reached == {"attempted", "confirmed", "unknown"}
OnceInv(rivals) ==
    /\ calls \in [Keys -> {0, 1}]
    /\ \A k \in Keys : calls[k] = 1 => Phase[k] \in Reached
    /\ \A k \in Keys : \A j \in rivals[k] : j = k \/ Phase[j] = "none" \/ Phase[k] = "none"

OnceStep(rivals) ==
    \/ UNCHANGED calls /\ PhaseStep(TRUE, rivals)
    \/ \E k \in Keys :
        Phase[k] = "attempted" /\ calls' = [calls EXCEPT ![k] = 1] /\ UNCHANGED Phase

LEMMA OnceKept ==
  ASSUME NEW rivals \in [Keys -> SUBSET Keys], \A j, k \in Keys : j \in rivals[k] => k \in rivals[j],
         OnceInv(rivals), OnceStep(rivals)
  PROVE  OnceInv(rivals)'
<1>1. CASE UNCHANGED <<Phase, calls>>
  BY <1>1 DEF OnceInv
<1>2. ASSUME NEW k \in Keys, Phase[k] = "attempted", calls' = [calls EXCEPT ![k] = 1], UNCHANGED Phase
      PROVE  OnceInv(rivals)'
  BY <1>2 DEF OnceInv, Reached
<1>3. ASSUME NEW k \in Keys, NEW from, NEW to, UNCHANGED calls, Becomes(k, from, to),
             from \in Reached => to \in Reached,
             from = "none" => \A j \in rivals[k] : Phase[j] = "none"
      PROVE  OnceInv(rivals)'
  <2>1. Phase'[k] = to /\ \A j \in Keys \ {k} : Phase'[j] = Phase[j]
    BY <1>3 DEF Becomes, Phase
  <2>2. ASSUME NEW i \in Keys, NEW j \in rivals[i] PROVE j = i \/ Phase'[j] = "none" \/ Phase'[i] = "none"
    <3>1. j \in Keys /\ i \in rivals[j] /\ (j = i \/ Phase[j] = "none" \/ Phase[i] = "none")
      BY <2>2 DEF OnceInv
    <3> QED BY <1>3, <2>1, <3>1 DEF Becomes
  <2>3. ASSUME NEW i \in Keys, calls'[i] = 1 PROVE Phase'[i] \in Reached
    BY <1>3, <2>1, <2>3 DEF OnceInv, Becomes
  <2> QED BY <1>3, <2>2, <2>3 DEF OnceInv
<1> QED BY <1>1, <1>2, <1>3 DEF OnceStep, PhaseStep, Reached
-------------------------------------------------------------------------------
(* Cancellation of a run.                                                  *)

Cancel == INSTANCE RunCancel

CancelRivals == [k \in Keys |-> {j \in Keys : SameRequest(j, k)}]

CancelSent ==
    /\ \A k \in Keys : calls[k] # 0 =>
          calls[k] = 1 /\ fence[k] \notin {None, PreparedRow, AbandonedRow}
    /\ \A w \in Workers : pc[w] \in {"boundary", "fenced", "send"} => calls[job[w]] = 0

CancelEvidence ==
    /\ \A w \in Workers :
          /\ pc[w] \in HeldAt \ {"recheck", "failed"} /\ run = "cancelled" => job[w] \in cancelled
          /\ pc[w] \in {"observed", "reconcile"} => job[w] \in cancelled
    /\ \A k \in Keys : fence[k] = ReconciledRow => k \in cancelled
    /\ \A k \in cancelled : fence[k] # None

CancelInv == FenceSafe /\ Cancel!TypeOK /\ CancelSent /\ CancelEvidence

\* What each step of the mediator is to the fence.
LEMMA CancelSteps ==
  ASSUME Cancel!CancelConstants, CancelInv, NEW w \in Workers
  PROVE  /\ \A r \in Requests : Cancel!execute(w, r) =>
               \E k \in Keys : BeginsWork(w, k, "resolve")
         /\ Cancel!resolve(w) => \E k \in Keys : BeginsWork(w, k, "prepare")
         /\ Cancel!prepare(w) => \/ Ends(w) /\ UNCHANGED fence
                            \/ Inserts(w, "recheck", CancelRivals)
         /\ Cancel!Recheck(w) => (MovesOn(w, "attempt") /\ Cancel!Cancellable) \/ MovesOn(w, "failed")
         /\ Cancel!mark_attempted(w) => Marks(w, AttemptedRow, "boundary")
         /\ Cancel!cancel_exact(w) => MovesOn(w, "fenced") \/ MovesOn(w, "failed")
         /\ Cancel!FenceAttempted(w) => MovesOn(w, "send") \/ MovesOn(w, "failed")
         /\ Cancel!Post(w) => MovesOn(w, "wait")
         /\ Cancel!PostAccepted(w) => MovesOn(w, "observe")
         /\ Cancel!PostFails(w) => MovesOn(w, "failed")
         /\ Cancel!Observe(w) => (MovesOn(w, "observed") /\ run = "cancelled") \/ MovesOn(w, "failed")
         /\ Cancel!mark_observed(w) => Marks(w, ObservedRow, "reconcile")
         /\ Cancel!mark_reconciled(w) => Marks(w, ReconciledRow, "idle")
         /\ Cancel!mark_unknown(w) => \E r \in {UnknownRow, AbandonedRow} : Marks(w, r, "idle")
         /\ Cancel!Crash(w) => Ends(w) /\ UNCHANGED fence
<1> USE RowFacts, RowsDiffer DEF Cancel!At, Cancel!Goto
<1>1. ASSUME NEW r \in Requests, Cancel!execute(w, r) PROVE \E k \in Keys : BeginsWork(w, k, "resolve")
  <2>1. [request |-> r, trust |-> trust] \in Keys
    BY DEF Cancel!CancelConstants, CancelInv, Cancel!TypeOK
  <2> QED BY <1>1, <2>1 DEF Cancel!execute, BeginsWork, HeldAt, PreparedAt, AttemptedAt, ObservedAt
<1>2. ASSUME Cancel!resolve(w) PROVE \E k \in Keys : BeginsWork(w, k, "prepare")
  <2>1. [job[w] EXCEPT !.trust = trust] \in Keys
    BY <1>2 DEF Cancel!resolve, Cancel!CancelConstants, CancelInv, Cancel!TypeOK, FenceSafe, Custody
  <2> QED BY <1>2, <2>1 DEF Cancel!resolve, BeginsWork, HeldAt, PreparedAt, AttemptedAt, ObservedAt
<1>3. ASSUME Cancel!prepare(w) PROVE (Ends(w) /\ UNCHANGED fence) \/ Inserts(w, "recheck", CancelRivals)
  <2>1. CASE Cancel!Taken(job[w])
    BY <1>3, <2>1 DEF Cancel!prepare, Cancel!Prepare, Cancel!Leave, Cancel!Finish, Ends
  <2>2. CASE ~Cancel!Taken(job[w])
    <3>1. job[w] \in Keys
      BY <1>3 DEF Cancel!prepare, CancelInv, FenceSafe, Custody
    <3>2. fence[job[w]] = None /\ \A j \in CancelRivals[job[w]] : fence[j] = None
      BY <2>2, <3>1 DEF Cancel!Taken, CancelRivals, SameRequest
    <3> QED BY <1>3, <2>2, <3>1, <3>2 DEF Cancel!prepare, Cancel!Prepare, Inserts, PreparedRow, PreparedAt
  <2> QED BY <2>1, <2>2
<1>4. /\ Cancel!Recheck(w) => (MovesOn(w, "attempt") /\ Cancel!Cancellable) \/ MovesOn(w, "failed")
      /\ Cancel!cancel_exact(w) => MovesOn(w, "fenced") \/ MovesOn(w, "failed")
      /\ Cancel!FenceAttempted(w) => MovesOn(w, "send") \/ MovesOn(w, "failed")
      /\ Cancel!Post(w) => MovesOn(w, "wait")
      /\ Cancel!PostAccepted(w) => MovesOn(w, "observe")
      /\ Cancel!PostFails(w) => MovesOn(w, "failed")
      /\ Cancel!Observe(w) => (MovesOn(w, "observed") /\ run = "cancelled") \/ MovesOn(w, "failed")
  BY DEF Cancel!Recheck, Cancel!cancel_exact, Cancel!FenceAttempted, Cancel!Observe, Cancel!PostAccepted,
     Cancel!PostFails, Cancel!Post,
     Cancel!GoOrRaise, Cancel!Raise, Cancel!_validate_run, Cancel!ObservedCancelled, MovesOn, CancelInv,
     FenceSafe, Custody,
     HeldAt, PreparedAt, AttemptedAt, ObservedAt, OpenRows
<1>5. Cancel!mark_attempted(w) => Marks(w, AttemptedRow, "boundary")
  BY AttemptMarks DEF Cancel!mark_attempted, Cancel!MarkAttempted, MarkAttempted, Cancel!Raise, Raise, Goto,
     CancelInv, PreparedAt, AttemptedAt
<1>6. Cancel!mark_observed(w) => Marks(w, ObservedRow, "reconcile")
  BY ObserveMarks DEF Cancel!mark_observed, Cancel!MarkObserved, MarkObserved, Cancel!Mark, Mark,
     Cancel!Raise, Raise, Goto,
     CancelInv, AttemptedAt, ObservedAt
<1>7. Cancel!mark_reconciled(w) => Marks(w, ReconciledRow, "idle")
  BY ReconcileMarks DEF Cancel!mark_reconciled, Cancel!MarkReconciled, MarkReconciled, Cancel!Leave, Leave,
     Cancel!Finish, Finish,
     Cancel!Raise, Raise, Goto, CancelInv, ObservedAt, FreeAt
<1>8. Cancel!mark_unknown(w) => \E r \in {UnknownRow, AbandonedRow} : Marks(w, r, "idle")
  BY UnknownMarks DEF Cancel!mark_unknown, Cancel!MarkUnknown, MarkUnknown, Cancel!Leave, Leave,
     Cancel!Finish, Finish,
     Cancel!Undecided, Undecided, Goto, CancelInv, FreeAt
<1>9. Cancel!Crash(w) => Ends(w) /\ UNCHANGED fence
  BY DEF Cancel!Crash, Cancel!Finish, Ends
<1> QED BY <1>1, <1>2, <1>3, <1>4, <1>5, <1>6, <1>7, <1>8, <1>9

LEMMA CancelFence ==
  ASSUME Cancel!CancelConstants, CancelInv, Cancel!Next
  PROVE  FenceStep(FALSE, CancelRivals)
<1>1. CASE Cancel!Provider
  BY <1>1 DEF Cancel!Provider, Cancel!RunMoves, Cancel!CancelTakesEffect, Cancel!OtherCancels,
     Cancel!Rerun, Cancel!TrustChanges,
     Cancel!ProviderAccepts, Cancel!ProviderRefuses, FenceStep
<1>2. ASSUME NEW w \in Workers,
             \/ \E r \in Requests : Cancel!execute(w, r)
             \/ Cancel!Step(w) \/ Cancel!Crash(w)
      PROVE  FenceStep(FALSE, CancelRivals)
  BY <1>2, CancelSteps, RowFacts DEF Cancel!Step, FenceStep, Anywhere, FreeAt, HeldAt, PreparedAt,
     AttemptedAt, ObservedAt
<1> QED BY <1>1, <1>2 DEF Cancel!Next

LEMMA CancelKept ==
  ASSUME Cancel!CancelConstants, CancelInv, Cancel!Next
  PROVE  CancelInv'
<1>0. None \notin Row /\ None \notin Keys
  BY DEF Cancel!CancelConstants, Row, Cancel!Row, States, Cancel!States
<1>1. FenceSafe'
  BY <1>0, CancelFence, FenceKept DEF CancelInv
<1>2. Cancel!FenceType'
  BY <1>1 DEF FenceSafe, FenceType, Cancel!FenceType, Row, Cancel!Row, States, Cancel!States
<1> USE RowFacts, RowsDiffer DEF CancelInv, CancelSent, CancelEvidence, Cancel!TypeOK
<1>3. CASE Cancel!Provider
  <2>1. UNCHANGED <<fence, pc, job, calls, lost>>
    BY <1>3 DEF Cancel!Provider, Cancel!RunMoves, Cancel!CancelTakesEffect, Cancel!OtherCancels,
       Cancel!Rerun, Cancel!TrustChanges,
       Cancel!ProviderAccepts, Cancel!ProviderRefuses, Cancel!provider
  <2>2. /\ run' \in {"queued", "in_progress", "success", "cancelled"}
        /\ cancelling' \in BOOLEAN /\ cancelled' \subseteq Keys
    BY <1>3 DEF Cancel!Provider, Cancel!RunMoves, Cancel!CancelTakesEffect, Cancel!OtherCancels,
       Cancel!Rerun, Cancel!TrustChanges,
       Cancel!ProviderAccepts, Cancel!ProviderRefuses, Cancel!provider
  <2>3. reruns' \in 0..MaxReruns /\ trust' \in 1..MaxTrust
    BY <1>3 DEF Cancel!Provider, Cancel!RunMoves, Cancel!CancelTakesEffect, Cancel!OtherCancels,
       Cancel!Rerun, Cancel!TrustChanges,
       Cancel!ProviderAccepts, Cancel!ProviderRefuses, Cancel!provider, Cancel!CancelConstants
  <2>4. post' \in [Keys -> {"none", "sent", "accepted", "refused"}]
    BY <1>3 DEF Cancel!Provider, Cancel!RunMoves, Cancel!CancelTakesEffect, Cancel!OtherCancels,
       Cancel!Rerun, Cancel!TrustChanges,
       Cancel!ProviderAccepts, Cancel!ProviderRefuses, Cancel!provider
  <2>5. /\ run' = "cancelled" => run = "cancelled" \/ cancelled' = {k \in Keys : fence[k] # None}
        /\ cancelled' = cancelled \/ cancelled' = {k \in Keys : fence[k] # None}
    BY <1>3 DEF Cancel!Provider, Cancel!RunMoves, Cancel!CancelTakesEffect, Cancel!OtherCancels,
       Cancel!Rerun, Cancel!TrustChanges,
       Cancel!ProviderAccepts, Cancel!ProviderRefuses, Cancel!provider
  <2>6. CancelSent'
    BY <2>1
  <2>7. CancelEvidence'
    BY <1>0, <2>1, <2>5 DEF FenceSafe, Custody, OpenRows, HeldAt, PreparedAt, AttemptedAt, ObservedAt
  <2> QED BY <1>1, <1>2, <2>1, <2>2, <2>3, <2>4, <2>6, <2>7
<1> SUFFICES ASSUME NEW w \in Workers,
                    \/ \E r \in Requests : Cancel!execute(w, r)
                    \/ Cancel!Step(w) \/ Cancel!Crash(w)
             PROVE  CancelInv'
  BY <1>3 DEF Cancel!Next
<1>4. pc' \in [Workers -> Cancel!Places]
  BY <1>1, CancelSteps DEF Cancel!Step, BeginsWork, Inserts, MovesOn, Marks, Ends, Cancel!Places
<1>5. Cancel!TypeOK'
  BY <1>2, <1>4 DEF Cancel!Step, Cancel!execute, Cancel!resolve, Cancel!prepare, Cancel!Recheck,
     Cancel!cancel_exact, Cancel!FenceAttempted,
     Cancel!Observe, Cancel!PostAccepted, Cancel!PostFails, Cancel!Post, Cancel!Calls, Cancel!mark_attempted,
     Cancel!mark_observed, Cancel!mark_reconciled,
     Cancel!mark_unknown, Cancel!Crash, Cancel!provider, FenceSafe, Custody, Cancel!At
<1> USE <1>0 DEF FenceSafe, FenceType, Custody, Rows, OpenRows, HeldAt, PreparedAt, AttemptedAt, ObservedAt
<1>6. CASE Cancel!Post(w)
  <2>0. MovesOn(w, "wait")
    BY <1>6, CancelSteps
  <2>1. CancelSent'
    BY <1>6, <2>0 DEF Cancel!Post, Cancel!Calls, Cancel!At, MovesOn
  <2>2. CancelEvidence'
    BY <1>6, <2>0 DEF Cancel!Post, Cancel!Calls, Cancel!At, MovesOn
  <2> QED BY <1>1, <1>5, <2>1, <2>2
<1>7. CASE UNCHANGED <<run, calls, cancelled>>
  <2>1. CASE (Ends(w) /\ UNCHANGED fence) \/ \E k \in Keys : BeginsWork(w, k, "resolve") \/ BeginsWork(w, k, "prepare")
    <3>1. CancelSent'
      BY <1>7, <2>1 DEF Ends, BeginsWork
    <3>2. CancelEvidence'
      BY <1>7, <2>1 DEF Ends, BeginsWork
    <3> QED BY <1>1, <1>5, <3>1, <3>2
  <2>2. CASE Inserts(w, "recheck", CancelRivals)
    <3>1. CancelSent'
      BY <1>7, <2>2 DEF Inserts
    <3>2. CancelEvidence'
      BY <1>7, <2>2 DEF Inserts
    <3> QED BY <1>1, <1>5, <3>1, <3>2
  <2>3. CASE Marks(w, AttemptedRow, "boundary") /\ pc[w] = "attempt"
    <3>1. CancelSent'
      BY <1>7, <2>3 DEF Marks, RowStep
    <3>2. CancelEvidence'
      BY <1>7, <2>3 DEF Marks, RowStep
    <3> QED BY <1>1, <1>5, <3>1, <3>2
  <2>4. CASE Marks(w, ObservedRow, "reconcile") /\ pc[w] = "observed"
    <3>1. CancelSent'
      BY <1>7, <2>4 DEF Marks, RowStep
    <3>2. CancelEvidence'
      BY <1>7, <2>4 DEF Marks, RowStep
    <3> QED BY <1>1, <1>5, <3>1, <3>2
  <2>5. CASE \/ Marks(w, ReconciledRow, "idle") /\ pc[w] = "reconcile"
             \/ \E r \in {UnknownRow, AbandonedRow} : Marks(w, r, "idle")
    <3>1. CancelSent'
      BY <1>7, <2>5 DEF Marks, RowStep, Ends
    <3>2. CancelEvidence'
      BY <1>7, <2>5 DEF Marks, RowStep, Ends
    <3> QED BY <1>1, <1>5, <3>1, <3>2
  <2>6. CASE \/ MovesOn(w, "attempt") /\ Cancel!Cancellable
             \/ MovesOn(w, "fenced") /\ pc[w] = "boundary" 
             \/ MovesOn(w, "send") /\ pc[w] = "fenced" 
             \/ MovesOn(w, "observe") /\ pc[w] = "wait" 
             \/ MovesOn(w, "observed") /\ pc[w] = "observe" /\ run = "cancelled"
             \/ MovesOn(w, "failed")
    <3>1. CancelSent'
      BY <1>7, <2>6 DEF MovesOn
    <3>2. CancelEvidence'
      BY <1>7, <2>6 DEF MovesOn, Cancel!Cancellable
    <3> QED BY <1>1, <1>5, <3>1, <3>2
  <2> QED BY CancelSteps, <2>1, <2>2, <2>3, <2>4, <2>5, <2>6, <1>6
          DEF Cancel!Step, Cancel!mark_attempted, Cancel!mark_observed, Cancel!mark_reconciled,
          Cancel!mark_unknown, Cancel!At,
              Cancel!cancel_exact, Cancel!FenceAttempted, Cancel!Observe, Cancel!PostAccepted
<1> QED BY <1>6, <1>7 DEF Cancel!Step, Cancel!execute, Cancel!resolve, Cancel!prepare, Cancel!Recheck,
   Cancel!cancel_exact, Cancel!FenceAttempted,
     Cancel!Observe, Cancel!PostAccepted, Cancel!PostFails, Cancel!mark_attempted, Cancel!mark_observed,
     Cancel!mark_reconciled,
     Cancel!mark_unknown, Cancel!Crash, Cancel!provider

LEMMA CancelInit == ASSUME Cancel!CancelConstants, Cancel!Init PROVE CancelInv
<1>1. FenceSafe
  BY DEF Cancel!Init, Cancel!FenceInit, Cancel!CancelConstants, FenceSafe, FenceType, Rows, Custody,
     Anywhere, FreeAt, HeldAt, PreparedAt, AttemptedAt, ObservedAt
<1>2. Cancel!TypeOK
  <2>1. reruns \in 0..MaxReruns /\ trust \in 1..MaxTrust
    BY DEF Cancel!Init, Cancel!CancelConstants
  <2> QED BY <2>1 DEF Cancel!Init, Cancel!FenceInit, Cancel!TypeOK, Cancel!FenceType, Cancel!Places
<1>3. CancelSent /\ CancelEvidence
  <2>1. None \notin Row
    BY DEF Cancel!CancelConstants, Row, Cancel!Row, States, Cancel!States
  <2> QED BY <2>1, RowFacts DEF Cancel!Init, Cancel!FenceInit, CancelSent, CancelEvidence, HeldAt,
     PreparedAt, AttemptedAt, ObservedAt
<1> QED BY <1>1, <1>2, <1>3 DEF CancelInv

LEMMA CancelAlways == ASSUME Cancel!CancelConstants PROVE Cancel!Spec => []CancelInv
<1>1. CancelInv /\ UNCHANGED Cancel!vars => CancelInv'
  BY DEF Cancel!vars, CancelInv, FenceSafe, FenceType, Rows, Custody, Cancel!TypeOK, Cancel!FenceType,
     CancelSent, CancelEvidence
<1> QED BY <1>1, CancelInit, CancelKept, PTL DEF Cancel!Spec

\* mark_reconciled of actions_run_cancel_mediation.py tells the truth: a RECONCILED
\* cancellation has seen its run cancelled after its own prepare, whoever else moves,
\* reruns or cancels the run, for any number of workers.
THEOREM CancelSafety == ASSUME Cancel!CancelConstants PROVE Cancel!Spec => []ReconciledWasCancelled
<1>1. CancelInv => ReconciledWasCancelled
  BY RowFacts DEF CancelInv, CancelEvidence, ReconciledWasCancelled, FenceSafe, Rows, OpenRows
<1> QED BY <1>1, CancelAlways, PTL

\* The run-cancel mediator, its fence and its POST keep the promise of EffectOnce.
THEOREM CancelRefines == ASSUME Cancel!CancelConstants PROVE Cancel!Spec => CancelImplementsEffectOnce
<1>1. Cancel!Init => CancelEffects!OnceInit
  BY DEF Cancel!Init, Cancel!FenceInit, Phase, PhaseOf, CancelEffects!OnceInit
<1>2. ASSUME CancelInv, [Cancel!Next]_(Cancel!vars)
      PROVE  [CancelEffects!OnceNext]_<<Phase, calls>>
  <2>1. None \notin Row /\ None \notin Keys /\ CancelRivals \in [Keys -> SUBSET Keys]
    BY DEF Cancel!CancelConstants, Row, Cancel!Row, States, Cancel!States, CancelRivals
  <2>2. CASE UNCHANGED Cancel!vars
    BY <2>2 DEF Cancel!vars, Phase
  <2>3. CASE \E w \in Workers : Cancel!Post(w)
    <3>1. PICK w \in Workers : Cancel!Post(w)
      BY <2>3
    <3>2. PICK k \in Keys : k = job[w] /\ fence[k] = AttemptedRow /\ calls[k] = 0
      BY <1>2, <3>1 DEF CancelInv, FenceSafe, Custody, CancelSent, Cancel!Post, Cancel!Calls, Cancel!At, AttemptedAt
    <3>3. CancelEffects!Call(k)
      BY <1>2, <2>1, <3>1, <3>2, PhaseFacts DEF CancelEffects!Call, Cancel!Post, Cancel!Calls, Phase,
         CancelInv, Cancel!TypeOK
    <3> QED BY <3>2, <3>3 DEF CancelEffects!OnceNext
  <2>4. CASE Cancel!Next /\ ~\E w \in Workers : Cancel!Post(w)
    <3>1. UNCHANGED calls
      BY <2>4 DEF Cancel!Next, Cancel!Provider, Cancel!RunMoves, Cancel!CancelTakesEffect,
         Cancel!OtherCancels, Cancel!Rerun, Cancel!TrustChanges,
         Cancel!ProviderAccepts, Cancel!ProviderRefuses, Cancel!provider, Cancel!Step, Cancel!execute,
         Cancel!resolve, Cancel!prepare, Cancel!Recheck,
         Cancel!cancel_exact, Cancel!FenceAttempted, Cancel!Observe, Cancel!PostAccepted, Cancel!PostFails,
         Cancel!mark_attempted,
         Cancel!mark_observed, Cancel!mark_reconciled, Cancel!mark_unknown, Cancel!Crash
    <3>2. PhaseStep(FALSE, CancelRivals)
      BY <1>2, <2>1, <2>4, CancelFence, PhasesKept DEF CancelInv
    <3>3. ASSUME NEW k \in Keys, Becomes(k, "none", "prepared"), \A j \in CancelRivals[k] : Phase[j] = "none"
          PROVE  CancelEffects!Prepare(k)
      BY <3>1, <3>3 DEF Becomes, CancelRivals, CancelEffects!Prepare, CancelEffects!Become
    <3>4. ASSUME NEW k \in Keys
          PROVE  /\ Becomes(k, "prepared", "attempted") => CancelEffects!Attempt(k)
                 /\ Becomes(k, "prepared", "abandoned") => CancelEffects!Abandon(k)
                 /\ Becomes(k, "attempted", "confirmed") => CancelEffects!Confirm(k)
                 /\ Becomes(k, "attempted", "unknown") => CancelEffects!GiveUp(k)
      BY <3>1 DEF Becomes, CancelEffects!Become, CancelEffects!Attempt,
         CancelEffects!Abandon,
         CancelEffects!Confirm, CancelEffects!GiveUp
    <3> QED BY <3>1, <3>2, <3>3, <3>4 DEF PhaseStep, CancelEffects!OnceNext
  <2> QED BY <1>2, <2>2, <2>3, <2>4
<1> QED BY <1>1, <1>2, CancelAlways, PTL DEF Cancel!Spec, CancelImplementsEffectOnce,
   CancelEffects!OnceSpec

\* A run is sent one cancellation per request, under whichever admission: a POST
\* whose answer was lost, a crash and a newer admission of the same request included.
\* The attempt stays on record.
THEOREM CancelOneCall ==
  ASSUME Cancel!CancelConstants
  PROVE  Cancel!Spec => [](CancelEffects!OneCallPerBinding /\ CancelEffects!CallsAreOnRecord)
<1>0. CancelRivals \in [Keys -> SUBSET Keys] /\ \A j, k \in Keys : j \in CancelRivals[k] => k \in CancelRivals[j]
  BY DEF CancelRivals, SameRequest
<1>1. CancelEffects!OnceInit => OnceInv(CancelRivals)
  BY <1>0 DEF CancelEffects!OnceInit, OnceInv
<1>2. OnceInv(CancelRivals) /\ [CancelEffects!OnceNext]_<<Phase, calls>> => OnceInv(CancelRivals)'
  <2>1. SUFFICES ASSUME OnceInv(CancelRivals), CancelEffects!OnceNext PROVE OnceInv(CancelRivals)'
    BY DEF OnceInv
  <2>2. ASSUME NEW k \in Keys, CancelEffects!Prepare(k) PROVE OnceStep(CancelRivals)
    BY <2>2 DEF CancelEffects!Prepare, CancelEffects!Become, OnceStep, PhaseStep, Becomes, CancelRivals
  <2>3. ASSUME NEW k \in Keys,
               \/ CancelEffects!Attempt(k) \/ CancelEffects!Abandon(k) \/ CancelEffects!Confirm(k)
               \/ CancelEffects!GiveUp(k) \/ CancelEffects!Resolve(k)
        PROVE  OnceStep(CancelRivals)
    BY <2>3 DEF CancelEffects!Attempt, CancelEffects!Abandon, CancelEffects!Confirm, CancelEffects!GiveUp,
       CancelEffects!Resolve, CancelEffects!Become, OnceStep, PhaseStep, Becomes
  <2>4. ASSUME NEW k \in Keys, CancelEffects!Call(k) PROVE OnceStep(CancelRivals)
    BY <2>4 DEF CancelEffects!Call, OnceStep
  <2> QED BY <1>0, <2>1, <2>2, <2>3, <2>4, OnceKept DEF CancelEffects!OnceNext
<1>3. OnceInv(CancelRivals) => CancelEffects!OneCallPerBinding /\ CancelEffects!CallsAreOnRecord
  BY DEF OnceInv, Reached, CancelRivals, CancelEffects!OneCallPerBinding, CancelEffects!CallsAreOnRecord
<1> QED BY <1>1, <1>2, <1>3, CancelRefines, PTL DEF CancelImplementsEffectOnce, CancelEffects!OnceSpec
-------------------------------------------------------------------------------
(* Writing of a comment.                                                   *)

Comment == INSTANCE CommentWrite

CommentRivals == [k \in Keys |-> {j \in Keys : SameKey(j, k)}]

CommentSent ==
    /\ \A k \in Keys : calls[k] # 0 =>
          calls[k] = 1 /\ fence[k] \notin {None, PreparedRow, AbandonedRow}
    /\ \A w \in Workers : pc[w] \in {"boundary", "fenced", "send"} => calls[job[w]] = 0

CommentEvidence ==
    /\ \A k \in Keys : http[k] = "done" \/ fence[k] = ReconciledRow => k \in written
    /\ \A w \in Workers : pc[w] \in {"observe", "observed", "reconcile"} => job[w] \in written

CommentInv == FenceSafe /\ Comment!TypeOK /\ CommentSent /\ CommentEvidence

\* What each step of the mediator is to the fence.
LEMMA CommentSteps ==
  ASSUME Comment!CommentConstants, CommentInv, NEW w \in Workers
  PROVE  /\ \A r \in Requests : Comment!execute(w, r) =>
               \E k \in Keys : BeginsWork(w, k, "check")
         /\ Comment!CheckCurrent(w) => MovesOn(w, "prepare") \/ (Ends(w) /\ UNCHANGED fence)
         /\ Comment!prepare(w) => \/ Ends(w) /\ UNCHANGED fence
                                  \/ Inserts(w, "recheck", CommentRivals)
         /\ Comment!Recheck(w) => MovesOn(w, "attempt") \/ MovesOn(w, "failed")
         /\ Comment!mark_attempted(w) => Marks(w, AttemptedRow, "boundary")
         /\ Comment!write_exact(w) => MovesOn(w, "fenced") \/ MovesOn(w, "failed")
         /\ Comment!FenceAttempted(w) => MovesOn(w, "send") \/ MovesOn(w, "failed")
         /\ Comment!Send(w) => MovesOn(w, "wait")
         /\ Comment!Answer(w) => MovesOn(w, "observe")
         /\ Comment!SendFails(w) => MovesOn(w, "failed")
         /\ Comment!Observe(w) => MovesOn(w, "observed") \/ MovesOn(w, "failed")
         /\ Comment!mark_observed(w) => Marks(w, ObservedRow, "reconcile")
         /\ Comment!mark_reconciled(w) => Marks(w, ReconciledRow, "idle")
         /\ Comment!mark_unknown(w) => \E r \in {UnknownRow, AbandonedRow} : Marks(w, r, "idle")
         /\ Comment!Crash(w) => Ends(w) /\ UNCHANGED fence
<1> USE RowFacts, RowsDiffer DEF Comment!At, Comment!Goto
<1>1. ASSUME NEW r \in Requests, Comment!execute(w, r) PROVE \E k \in Keys : BeginsWork(w, k, "check")
  <2>1. [request |-> r, trust |-> trust] \in Keys
    BY DEF Comment!CommentConstants, CommentInv, Comment!TypeOK
  <2> QED BY <1>1, <2>1 DEF Comment!execute, BeginsWork, HeldAt, PreparedAt, AttemptedAt, ObservedAt
<1>2. Comment!CheckCurrent(w) => MovesOn(w, "prepare") \/ (Ends(w) /\ UNCHANGED fence)
  BY DEF Comment!CheckCurrent, Comment!Finish, MovesOn, Ends, HeldAt, PreparedAt, AttemptedAt, ObservedAt
<1>3. ASSUME Comment!prepare(w) PROVE (Ends(w) /\ UNCHANGED fence) \/ Inserts(w, "recheck", CommentRivals)
  <2>1. CASE Comment!Taken(job[w])
    BY <1>3, <2>1 DEF Comment!prepare, Comment!Prepare, Comment!Leave, Comment!Finish, Ends
  <2>2. CASE ~Comment!Taken(job[w])
    <3>1. job[w] \in Keys
      BY <1>3 DEF Comment!prepare, CommentInv, FenceSafe, Custody
    <3>2. fence[job[w]] = None /\ \A j \in CommentRivals[job[w]] : fence[j] = None
      BY <2>2, <3>1 DEF Comment!Taken, CommentRivals, SameKey
    <3> QED BY <1>3, <2>2, <3>1, <3>2 DEF Comment!prepare, Comment!Prepare, Inserts, PreparedRow, PreparedAt
  <2> QED BY <2>1, <2>2
<1>4. /\ Comment!Recheck(w) => MovesOn(w, "attempt") \/ MovesOn(w, "failed")
      /\ Comment!write_exact(w) => MovesOn(w, "fenced") \/ MovesOn(w, "failed")
      /\ Comment!FenceAttempted(w) => MovesOn(w, "send") \/ MovesOn(w, "failed")
      /\ Comment!Send(w) => MovesOn(w, "wait")
      /\ Comment!Answer(w) => MovesOn(w, "observe")
      /\ Comment!SendFails(w) => MovesOn(w, "failed")
      /\ Comment!Observe(w) => MovesOn(w, "observed") \/ MovesOn(w, "failed")
  BY DEF Comment!Recheck, Comment!write_exact, Comment!FenceAttempted, Comment!Observe, Comment!Answer,
     Comment!SendFails, Comment!Send, Comment!GoOrRaise, Comment!Raise, MovesOn, CommentInv, FenceSafe,
     Custody,
     HeldAt, PreparedAt, AttemptedAt, ObservedAt, OpenRows
<1>5. Comment!mark_attempted(w) => Marks(w, AttemptedRow, "boundary")
  BY AttemptMarks DEF Comment!mark_attempted, Comment!MarkAttempted, MarkAttempted, Comment!Raise, Raise,
     Goto,
     CommentInv, PreparedAt, AttemptedAt
<1>6. Comment!mark_observed(w) => Marks(w, ObservedRow, "reconcile")
  BY ObserveMarks DEF Comment!mark_observed, Comment!MarkObserved, MarkObserved, Comment!Mark, Mark,
     Comment!Raise, Raise, Goto, CommentInv, AttemptedAt, ObservedAt
<1>7. Comment!mark_reconciled(w) => Marks(w, ReconciledRow, "idle")
  BY ReconcileMarks DEF Comment!mark_reconciled, Comment!MarkReconciled, MarkReconciled, Comment!Leave,
     Leave,
     Comment!Finish, Finish, Comment!Raise, Raise, Goto, CommentInv, ObservedAt, FreeAt
<1>8. Comment!mark_unknown(w) => \E r \in {UnknownRow, AbandonedRow} : Marks(w, r, "idle")
  BY UnknownMarks DEF Comment!mark_unknown, Comment!MarkUnknown, MarkUnknown, Comment!Leave, Leave,
     Comment!Finish, Finish, Comment!Undecided, Undecided, Goto, CommentInv, FreeAt
<1>9. Comment!Crash(w) => Ends(w) /\ UNCHANGED fence
  BY DEF Comment!Crash, Comment!Finish, Ends
<1> QED BY <1>1, <1>2, <1>3, <1>4, <1>5, <1>6, <1>7, <1>8, <1>9

LEMMA CommentFence ==
  ASSUME Comment!CommentConstants, CommentInv, Comment!Next
  PROVE  FenceStep(FALSE, CommentRivals)
<1>1. CASE Comment!Environment
  BY <1>1 DEF Comment!Environment, Comment!MasterMoves, Comment!TrustChanges, Comment!OtherEdits,
     Comment!ProviderWrites, Comment!ProviderRefuses, FenceStep
<1>2. ASSUME NEW w \in Workers,
             \/ \E r \in Requests : Comment!execute(w, r)
             \/ Comment!Step(w) \/ Comment!Crash(w)
      PROVE  FenceStep(FALSE, CommentRivals)
  BY <1>2, CommentSteps, RowFacts DEF Comment!Step, FenceStep, Anywhere, FreeAt, HeldAt, PreparedAt,
     AttemptedAt,
     ObservedAt
<1> QED BY <1>1, <1>2 DEF Comment!Next

LEMMA CommentKept ==
  ASSUME Comment!CommentConstants, CommentInv, Comment!Next
  PROVE  CommentInv'
<1>0. None \notin Row /\ None \notin Keys
  BY DEF Comment!CommentConstants, Row, Comment!Row, States, Comment!States
<1>1. FenceSafe'
  BY <1>0, CommentFence, FenceKept DEF CommentInv
<1>2. Comment!FenceType'
  BY <1>1 DEF FenceSafe, FenceType, Comment!FenceType, Row, Comment!Row, States, Comment!States
<1> USE RowFacts, RowsDiffer DEF CommentInv, CommentSent, CommentEvidence, Comment!TypeOK
<1>3. CASE Comment!Environment
  <2> USE <1>3 DEF Comment!Environment, Comment!MasterMoves, Comment!TrustChanges, Comment!OtherEdits,
     Comment!ProviderWrites, Comment!ProviderRefuses, Comment!provider
  <2>1. UNCHANGED <<fence, pc, job, calls, lost>>
    OBVIOUS
  <2>2. comments' \in [Comment!Ids -> Bodies \cup {None}]
    BY DEF Comment!IdOf, Comment!Ids, Comment!CommentConstants
  <2>3. master' \in 1..MaxMaster /\ trust' \in 1..MaxTrust /\ changes' \in 0..MaxChanges
    BY DEF Comment!env, Comment!CommentConstants
  <2>4. /\ http' \in [Keys -> {"none", "sent", "done", "refused"}]
        /\ \A k \in Keys : http'[k] = "done" => http[k] = "done" \/ k \in written'
        /\ written \subseteq written' /\ written' \subseteq Keys
    OBVIOUS
  <2>5. CommentSent'
    BY <2>1, <2>4 DEF FenceSafe, Custody
  <2>6. CommentEvidence'
    BY <2>1, <2>4
  <2> QED BY <1>1, <1>2, <2>1, <2>2, <2>3, <2>4, <2>5, <2>6
<1> SUFFICES ASSUME NEW w \in Workers,
                    \/ \E r \in Requests : Comment!execute(w, r)
                    \/ Comment!Step(w) \/ Comment!Crash(w)
             PROVE  CommentInv'
  BY <1>3 DEF Comment!Next
<1>4. pc' \in [Workers -> Comment!Places]
  BY <1>1, CommentSteps DEF Comment!Step, BeginsWork, Inserts, MovesOn, Marks, Ends, Comment!Places
<1>5. Comment!TypeOK'
  <2> USE DEF Comment!TypeOK, Comment!Step, Comment!execute, Comment!CheckCurrent, Comment!prepare,
      Comment!Recheck, Comment!write_exact, Comment!FenceAttempted, Comment!Observe, Comment!Answer,
      Comment!SendFails, Comment!Send, Comment!Calls, Comment!mark_attempted, Comment!mark_observed,
      Comment!mark_reconciled, Comment!mark_unknown, Comment!Crash, Comment!provider, Comment!env
  <2>1. calls' \in [Keys -> Nat]
    <3>1. UNCHANGED calls \/ calls' = [calls EXCEPT ![job[w]] = calls[job[w]] + 1]
      OBVIOUS
    <3>2. calls \in [Keys -> Nat]
      OBVIOUS
    <3> QED BY ONLY <3>1, <3>2
  <2>2. UNCHANGED <<comments, written, master, trust, changes>>
    OBVIOUS
  <2>3. http' \in [Keys -> {"none", "sent", "done", "refused"}]
    OBVIOUS
  <2>4. lost' \subseteq Keys
    <3>1. UNCHANGED lost \/ (lost' = lost \cup {job[w]} /\ pc[w] # "idle")
      BY DEF Comment!At
    <3>2. pc[w] # "idle" => job[w] \in Keys
      BY DEF FenceSafe, Custody
    <3>3. lost \subseteq Keys
      OBVIOUS
    <3> QED BY ONLY <3>1, <3>2, <3>3
  <2> HIDE DEF Comment!Step, Comment!execute, Comment!Crash
  <2> QED BY <1>2, <1>4, <2>1, <2>2, <2>3, <2>4
<1> USE <1>0 DEF FenceSafe, FenceType, Custody, Rows, OpenRows, HeldAt, PreparedAt, AttemptedAt, ObservedAt
<1>6. CASE Comment!Send(w)
  <2>0. MovesOn(w, "wait")
    BY <1>6, CommentSteps
  <2>1. CommentSent'
    BY <1>6, <2>0 DEF Comment!Send, Comment!Calls, Comment!TypeOK, Comment!At, MovesOn
  <2>2. CommentEvidence'
    BY <1>6, <2>0 DEF Comment!Send, Comment!At, MovesOn
  <2> QED BY <1>1, <1>5, <2>1, <2>2
<1>7. CASE UNCHANGED <<http, calls, written>>
  <2>1. CASE (Ends(w) /\ UNCHANGED fence) \/ \E k \in Keys : BeginsWork(w, k, "check")
    <3>1. CommentSent'
      BY <1>7, <2>1 DEF Ends, BeginsWork
    <3>2. CommentEvidence'
      BY <1>7, <2>1 DEF Ends, BeginsWork
    <3> QED BY <1>1, <1>5, <3>1, <3>2
  <2>2. CASE Inserts(w, "recheck", CommentRivals)
    <3>1. CommentSent'
      BY <1>7, <2>2 DEF Inserts
    <3>2. CommentEvidence'
      BY <1>7, <2>2 DEF Inserts
    <3> QED BY <1>1, <1>5, <3>1, <3>2
  <2>3. CASE Marks(w, AttemptedRow, "boundary") /\ pc[w] = "attempt"
    <3>1. CommentSent'
      BY <1>7, <2>3 DEF Marks, RowStep
    <3>2. CommentEvidence'
      BY <1>7, <2>3 DEF Marks, RowStep
    <3> QED BY <1>1, <1>5, <3>1, <3>2
  <2>4. CASE Marks(w, ObservedRow, "reconcile") /\ pc[w] = "observed"
    <3>1. CommentSent'
      BY <1>7, <2>4 DEF Marks, RowStep
    <3>2. CommentEvidence'
      BY <1>7, <2>4 DEF Marks, RowStep
    <3> QED BY <1>1, <1>5, <3>1, <3>2
  <2>5. CASE \/ Marks(w, ReconciledRow, "idle") /\ pc[w] = "reconcile"
             \/ \E r \in {UnknownRow, AbandonedRow} : Marks(w, r, "idle")
    <3>1. CommentSent'
      BY <1>7, <2>5 DEF Marks, RowStep, Ends
    <3>2. CommentEvidence'
      BY <1>7, <2>5 DEF Marks, RowStep, Ends
    <3> QED BY <1>1, <1>5, <3>1, <3>2
  <2>6. CASE \/ MovesOn(w, "prepare") \/ MovesOn(w, "attempt")
             \/ MovesOn(w, "fenced") /\ pc[w] = "boundary"
             \/ MovesOn(w, "send") /\ pc[w] = "fenced"
             \/ MovesOn(w, "observe") /\ pc[w] = "wait" /\ http[job[w]] = "done"
             \/ MovesOn(w, "observed") /\ pc[w] = "observe"
             \/ MovesOn(w, "failed")
    <3>1. CommentSent'
      BY <1>7, <2>6 DEF MovesOn
    <3>2. CommentEvidence'
      BY <1>7, <2>6 DEF MovesOn
    <3> QED BY <1>1, <1>5, <3>1, <3>2
  <2> QED BY CommentSteps, <2>1, <2>2, <2>3, <2>4, <2>5, <2>6, <1>6
          DEF Comment!Step, Comment!mark_attempted, Comment!mark_observed, Comment!mark_reconciled,
              Comment!mark_unknown, Comment!At, Comment!write_exact, Comment!FenceAttempted,
              Comment!Observe, Comment!Answer
<1> QED BY <1>6, <1>7 DEF Comment!Step, Comment!execute, Comment!CheckCurrent, Comment!prepare,
   Comment!Recheck,
     Comment!write_exact, Comment!FenceAttempted, Comment!Observe, Comment!Answer, Comment!SendFails,
     Comment!mark_attempted, Comment!mark_observed, Comment!mark_reconciled,
     Comment!mark_unknown, Comment!Crash, Comment!provider

LEMMA CommentInit == ASSUME Comment!CommentConstants, Comment!Init PROVE CommentInv
<1>1. FenceSafe
  BY DEF Comment!Init, Comment!FenceInit, Comment!CommentConstants, FenceSafe, FenceType, Rows, Custody,
     Anywhere, FreeAt, HeldAt, PreparedAt, AttemptedAt, ObservedAt
<1>2. Comment!TypeOK
  <2>1. master \in 1..MaxMaster /\ trust \in 1..MaxTrust /\ changes \in 0..MaxChanges
    BY DEF Comment!Init, Comment!CommentConstants
  <2>2. comments \in [Comment!Ids -> Bodies \cup {None}]
    BY DEF Comment!Init
  <2> QED BY <2>1, <2>2 DEF Comment!Init, Comment!FenceInit, Comment!TypeOK, Comment!FenceType,
     Comment!Places
<1>3. CommentSent /\ CommentEvidence
  <2>1. None \notin Row
    BY DEF Comment!CommentConstants, Row, Comment!Row, States, Comment!States
  <2> QED BY <2>1, RowFacts DEF Comment!Init, Comment!FenceInit, CommentSent, CommentEvidence, HeldAt,
         PreparedAt, AttemptedAt, ObservedAt
<1> QED BY <1>1, <1>2, <1>3 DEF CommentInv

LEMMA CommentAlways == ASSUME Comment!CommentConstants PROVE Comment!Spec => []CommentInv
<1>1. CommentInv /\ UNCHANGED Comment!vars => CommentInv'
  BY DEF Comment!vars, CommentInv, FenceSafe, FenceType, Rows, Custody, Comment!TypeOK, Comment!FenceType,
     CommentSent, CommentEvidence
<1> QED BY <1>1, CommentInit, CommentKept, PTL DEF Comment!Spec

\* A RECONCILED comment effect was written by its own POST or PATCH: execute_issue_-
\* comment_write reaches mark_observed only over the answer of its own call, so a comment
\* that somebody else gave the same body is not taken for it.
THEOREM CommentSafety == ASSUME Comment!CommentConstants PROVE Comment!Spec => []ReconciledWasWritten
<1>1. CommentInv => ReconciledWasWritten
  BY RowFacts DEF CommentInv, CommentEvidence, ReconciledWasWritten, FenceSafe, Rows, OpenRows
<1> QED BY <1>1, CommentAlways, PTL

\* The comment mediator, its fence and its POST or PATCH keep the promise of EffectOnce.
THEOREM CommentRefines == ASSUME Comment!CommentConstants PROVE Comment!Spec => CommentImplementsEffectOnce
<1>1. Comment!Init => CommentEffects!OnceInit
  BY DEF Comment!Init, Comment!FenceInit, Phase, PhaseOf, CommentEffects!OnceInit
<1>2. ASSUME CommentInv, [Comment!Next]_(Comment!vars)
      PROVE  [CommentEffects!OnceNext]_<<Phase, calls>>
  <2>1. None \notin Row /\ None \notin Keys /\ CommentRivals \in [Keys -> SUBSET Keys]
    BY DEF Comment!CommentConstants, Row, Comment!Row, States, Comment!States, CommentRivals
  <2>2. CASE UNCHANGED Comment!vars
    BY <2>2 DEF Comment!vars, Phase
  <2>3. CASE \E w \in Workers : Comment!Send(w)
    <3>1. PICK w \in Workers : Comment!Send(w)
      BY <2>3
    <3>2. PICK k \in Keys : k = job[w] /\ fence[k] = AttemptedRow /\ calls[k] = 0
      BY <1>2, <3>1 DEF CommentInv, FenceSafe, Custody, CommentSent, Comment!Send, Comment!At, AttemptedAt
    <3>3. CommentEffects!Call(k)
      BY <1>2, <2>1, <3>1, <3>2, PhaseFacts DEF CommentEffects!Call, Comment!Send, Comment!Calls, Phase,
         CommentInv, Comment!TypeOK
    <3> QED BY <3>2, <3>3 DEF CommentEffects!OnceNext
  <2>4. CASE Comment!Next /\ ~\E w \in Workers : Comment!Send(w)
    <3>1. UNCHANGED calls
      BY <1>2, <2>4 DEF Comment!Next, Comment!Environment, Comment!MasterMoves, Comment!TrustChanges,
         Comment!OtherEdits, Comment!ProviderWrites, Comment!ProviderRefuses, Comment!provider,
         Comment!Step,
         Comment!execute, Comment!CheckCurrent, Comment!prepare, Comment!Recheck, Comment!write_exact,
         Comment!FenceAttempted, Comment!Observe, Comment!Answer, Comment!SendFails, Comment!mark_attempted,
         Comment!mark_observed, Comment!mark_reconciled, Comment!mark_unknown, Comment!Crash,
         CommentInv, Comment!TypeOK
    <3>2. PhaseStep(FALSE, CommentRivals)
      BY <1>2, <2>1, <2>4, CommentFence, PhasesKept DEF CommentInv
    <3>3. ASSUME NEW k \in Keys, Becomes(k, "none", "prepared"), \A j \in CommentRivals[k] : Phase[j] = "none"
          PROVE  CommentEffects!Prepare(k)
      BY <3>1, <3>3 DEF Becomes, CommentRivals, SameKey, CommentEffects!Prepare,
         CommentEffects!Become
    <3>4. ASSUME NEW k \in Keys
          PROVE  /\ Becomes(k, "prepared", "attempted") => CommentEffects!Attempt(k)
                 /\ Becomes(k, "prepared", "abandoned") => CommentEffects!Abandon(k)
                 /\ Becomes(k, "attempted", "confirmed") => CommentEffects!Confirm(k)
                 /\ Becomes(k, "attempted", "unknown") => CommentEffects!GiveUp(k)
      BY <3>1 DEF Becomes, CommentEffects!Become, CommentEffects!Attempt,
         CommentEffects!Abandon, CommentEffects!Confirm, CommentEffects!GiveUp
    <3> QED BY <3>1, <3>2, <3>3, <3>4 DEF PhaseStep, CommentEffects!OnceNext
  <2> QED BY <1>2, <2>2, <2>3, <2>4
<1> QED BY <1>1, <1>2, CommentAlways, PTL
    DEF Comment!Spec, CommentImplementsEffectOnce, CommentEffects!OnceSpec

\* A request to write a comment is sent once under one admission, and the attempt
\* stays on record.  A newer admission of it may send it again.
THEOREM CommentOneCall ==
  ASSUME Comment!CommentConstants
  PROVE  Comment!Spec => [](CommentEffects!OneCallPerBinding /\ CommentEffects!CallsAreOnRecord)
<1>0. CommentRivals \in [Keys -> SUBSET Keys] /\ \A j, k \in Keys : j \in CommentRivals[k] => k \in CommentRivals[j]
  BY DEF CommentRivals, SameKey
<1>1. CommentEffects!OnceInit => OnceInv(CommentRivals)
  BY <1>0 DEF CommentEffects!OnceInit, OnceInv
<1>2. OnceInv(CommentRivals) /\ [CommentEffects!OnceNext]_<<Phase, calls>> => OnceInv(CommentRivals)'
  <2>1. SUFFICES ASSUME OnceInv(CommentRivals), CommentEffects!OnceNext PROVE OnceInv(CommentRivals)'
    BY DEF OnceInv
  <2>2. ASSUME NEW k \in Keys, CommentEffects!Prepare(k) PROVE OnceStep(CommentRivals)
    BY <2>2 DEF CommentEffects!Prepare, CommentEffects!Become, OnceStep, PhaseStep, Becomes, CommentRivals
  <2>3. ASSUME NEW k \in Keys,
               \/ CommentEffects!Attempt(k) \/ CommentEffects!Abandon(k) \/ CommentEffects!Confirm(k)
               \/ CommentEffects!GiveUp(k) \/ CommentEffects!Resolve(k)
        PROVE  OnceStep(CommentRivals)
    BY <2>3 DEF CommentEffects!Attempt, CommentEffects!Abandon, CommentEffects!Confirm, CommentEffects!GiveUp,
       CommentEffects!Resolve, CommentEffects!Become, OnceStep, PhaseStep, Becomes
  <2>4. ASSUME NEW k \in Keys, CommentEffects!Call(k) PROVE OnceStep(CommentRivals)
    BY <2>4 DEF CommentEffects!Call, OnceStep
  <2> QED BY <1>0, <2>1, <2>2, <2>3, <2>4, OnceKept DEF CommentEffects!OnceNext
<1>3. OnceInv(CommentRivals) => CommentEffects!OneCallPerBinding /\ CommentEffects!CallsAreOnRecord
  BY DEF OnceInv, Reached, CommentRivals, CommentEffects!OneCallPerBinding, CommentEffects!CallsAreOnRecord
<1> QED BY <1>1, <1>2, <1>3, CommentRefines, PTL DEF CommentImplementsEffectOnce, CommentEffects!OnceSpec
-------------------------------------------------------------------------------
(* Writing of a file.                                                      *)

FileRivals == [k \in Keys |-> {j \in Keys : SameRequest(j, k)}]

\* The write of an effect happens at its commit, on a recorded attempt.
FileApplied ==
    /\ \A k \in Keys : calls[k] # 0 =>
          calls[k] = 1 /\ fence[k] \notin {None, PreparedRow, AbandonedRow}
    /\ \A k \in Keys : fence[k] = ReconciledRow => calls[k] = 1
    /\ \A w \in Workers :
          /\ pc[w] \in {"write", "temp", "identity", "commit"} => calls[job[w]] = 0
          /\ pc[w] \in {"clean", "observe", "observed", "verdict"} => calls[job[w]] = 1

\* A temporary file is at hand to a worker that will unlink it, unless it died or the
\* unlink failed; that worker has raised and the effect is UNKNOWN when it ends.
FileStuck(k) ==
    /\ k \in stuck
    /\ \/ fence[k] = UnknownRow
       \/ fence[k] = AttemptedRow /\ \E w \in Workers : job[w] = k /\ pc[w] = "failed"

FileTemp ==
    \A k \in temp :
        \/ k \in lost
        \/ \E w \in Workers : job[w] = k /\ pc[w] \in Writing
        \/ FileStuck(k)

FileInv ==
    FenceSafe /\ TypeOK /\ FileApplied /\ FileTemp /\ CreateNeverOverwrites

\* What each step of the mediator is to the fence.
LEMMA FileSteps ==
  ASSUME FileConstants, FileInv, NEW w \in Workers
  PROVE  /\ \A r \in Requests : execute(w, r) =>
               \E k \in Keys : BeginsWork(w, k, "resolve")
         /\ resolve(w) => \/ Ends(w) /\ UNCHANGED fence
                          \/ \E k \in Keys : BeginsWork(w, k, "resolve_again")
         /\ ResolveAgain(w) => MovesOn(w, "prepare") \/ (Ends(w) /\ UNCHANGED fence)
         /\ prepare(w) => \/ Ends(w) /\ UNCHANGED fence
                          \/ Inserts(w, "recheck", FileRivals)
         /\ Recheck(w) => MovesOn(w, "attempt") \/ MovesOn(w, "failed")
         /\ mark_attempted(w) => Marks(w, AttemptedRow, "write")
         /\ write_exact(w) => MovesOn(w, "temp") \/ MovesOn(w, "failed")
         /\ \A ok \in BOOLEAN : WriteTemp(w, ok) =>
               MovesOn(w, "identity") \/ MovesOn(w, "commit") \/ MovesOn(w, "clean_failed")
         /\ _require_replace_identity(w) => MovesOn(w, "commit") \/ MovesOn(w, "clean_failed")
         /\ \A ok \in BOOLEAN : link(w, ok) \/ replace(w, ok) =>
               MovesOn(w, "clean") \/ MovesOn(w, "clean_failed")
         /\ \A ok, unlinked \in BOOLEAN : Cleanup(w, ok, unlinked) =>
               (MovesOn(w, "observe") /\ pc[w] = "clean") \/ MovesOn(w, "failed")
         /\ Observe(w) => MovesOn(w, "observed") \/ MovesOn(w, "failed")
         /\ mark_observed(w) => Marks(w, ObservedRow, "verdict")
         /\ mark_reconciled(w) =>
               \E r \in {ReconciledRow, UnknownRow, AbandonedRow} : Marks(w, r, "idle")
         /\ mark_unknown(w) => \E r \in {UnknownRow, AbandonedRow} : Marks(w, r, "idle")
         /\ Crash(w) => Ends(w) /\ UNCHANGED fence
<1> USE RowFacts, RowsDiffer DEF At, Goto
<1>1. ASSUME NEW r \in Requests, execute(w, r) PROVE \E k \in Keys : BeginsWork(w, k, "resolve")
  BY <1>1 DEF execute, BeginsWork, HeldAt, PreparedAt, AttemptedAt, ObservedAt
<1>2. ASSUME resolve(w)
      PROVE  (Ends(w) /\ UNCHANGED fence) \/ \E k \in Keys : BeginsWork(w, k, "resolve_again")
  <2>1. permission \in Trusted => [job[w] EXCEPT !.permission = permission] \in Keys
    BY <1>2 DEF resolve, FileConstants, FileInv, FenceSafe, Custody
  <2> QED BY <1>2, <2>1 DEF resolve, Finish, Ends, BeginsWork, HeldAt, PreparedAt, AttemptedAt,
     ObservedAt
<1>3. ResolveAgain(w) => MovesOn(w, "prepare") \/ (Ends(w) /\ UNCHANGED fence)
  BY DEF ResolveAgain, Finish, MovesOn, Ends, HeldAt, PreparedAt, AttemptedAt, ObservedAt
<1>4. ASSUME prepare(w) PROVE (Ends(w) /\ UNCHANGED fence) \/ Inserts(w, "recheck", FileRivals)
  <2>1. CASE Taken(job[w])
    BY <1>4, <2>1 DEF prepare, Prepare, Leave, Finish, Ends
  <2>2. CASE ~Taken(job[w])
    <3>1. job[w] \in Keys
      BY <1>4 DEF prepare, FileInv, FenceSafe, Custody
    <3>2. fence[job[w]] = None /\ \A j \in FileRivals[job[w]] : fence[j] = None
      BY <2>2, <3>1 DEF Taken, FileRivals, SameRequest
    <3> QED BY <1>4, <2>2, <3>1, <3>2 DEF prepare, Prepare, Inserts, PreparedRow, PreparedAt
  <2> QED BY <2>1, <2>2
<1>5. /\ Recheck(w) => MovesOn(w, "attempt") \/ MovesOn(w, "failed")
      /\ write_exact(w) => MovesOn(w, "temp") \/ MovesOn(w, "failed")
      /\ _require_replace_identity(w) => MovesOn(w, "commit") \/ MovesOn(w, "clean_failed")
      /\ Observe(w) => MovesOn(w, "observed") \/ MovesOn(w, "failed")
  BY DEF Recheck, write_exact, _require_replace_identity, Observe, GoOrRaise,
     MovesOn, FileInv, FenceSafe, Custody, HeldAt, PreparedAt, AttemptedAt, ObservedAt, OpenRows
<1>6. /\ \A ok \in BOOLEAN : WriteTemp(w, ok) =>
            MovesOn(w, "identity") \/ MovesOn(w, "commit") \/ MovesOn(w, "clean_failed")
      /\ \A ok \in BOOLEAN : link(w, ok) \/ replace(w, ok) =>
            MovesOn(w, "clean") \/ MovesOn(w, "clean_failed")
      /\ \A ok, unlinked \in BOOLEAN : Cleanup(w, ok, unlinked) =>
            (MovesOn(w, "observe") /\ pc[w] = "clean") \/ MovesOn(w, "failed")
  BY DEF WriteTemp, link, replace, Materialize, Cleanup,
     MovesOn, FileInv, FenceSafe, Custody, HeldAt, PreparedAt, AttemptedAt, ObservedAt, OpenRows
<1>7. mark_attempted(w) => Marks(w, AttemptedRow, "write")
  BY AttemptMarks DEF mark_attempted, MarkAttempted, MarkAttempted, Raise, Raise, Goto,
     FileInv, PreparedAt, AttemptedAt
<1>8. mark_observed(w) => Marks(w, ObservedRow, "verdict")
  BY ObserveMarks DEF mark_observed, MarkObserved, MarkObserved, Mark, Mark,
     Raise, Raise, Goto, FileInv, AttemptedAt, ObservedAt
<1>9. ASSUME mark_reconciled(w)
      PROVE  \E r \in {ReconciledRow, UnknownRow, AbandonedRow} : Marks(w, r, "idle")
  <2>1. pc[w] \in ObservedAt /\ "idle" \in FreeAt /\ FenceSafe
    BY <1>9 DEF mark_reconciled, ObservedAt, FreeAt, FileInv
  <2>2. MarkReconciled(w, "idle") => Marks(w, ReconciledRow, "idle")
    BY <2>1, ReconcileMarks
  <2>3. MarkUnknown(w, "idle") => \E r \in {UnknownRow, AbandonedRow} : Marks(w, r, "idle")
    BY <2>1, UnknownMarks
  <2>4. MarkReconciled(w, "idle") \/ MarkUnknown(w, "idle")
    BY <1>9 DEF mark_reconciled, MarkReconciled, MarkReconciled, MarkUnknown, MarkUnknown,
       Leave, Leave, Finish, Finish, Raise, Raise, Goto, Undecided, Undecided
  <2> QED BY <2>2, <2>3, <2>4
<1>10. mark_unknown(w) => \E r \in {UnknownRow, AbandonedRow} : Marks(w, r, "idle")
  BY UnknownMarks DEF mark_unknown, MarkUnknown, MarkUnknown, Leave, Leave,
     Finish, Finish, Undecided, Undecided, Goto, FileInv, FreeAt
<1>11. Crash(w) => Ends(w) /\ UNCHANGED fence
  BY DEF Crash, Finish, Ends
<1> QED BY <1>1, <1>2, <1>3, <1>4, <1>5, <1>6, <1>7, <1>8, <1>9, <1>10, <1>11

LEMMA FileFence ==
  ASSUME FileConstants, FileInv, Next
  PROVE  FenceStep(FALSE, FileRivals)
<1>1. ASSUME \/ \E p \in Permissions : PermissionChanges(p)
             \/ \E f \in [inode : Inodes, content : Contents] \cup {None} : OtherWrites(f)
      PROVE  FenceStep(FALSE, FileRivals)
  BY <1>1 DEF PermissionChanges, OtherWrites, FenceStep
<1>2. ASSUME NEW w \in Workers,
             \/ \E r \in Requests : execute(w, r)
             \/ Step(w) \/ Crash(w)
      PROVE  FenceStep(FALSE, FileRivals)
  BY <1>2, FileSteps, RowFacts DEF Step, FenceStep, Anywhere, FreeAt, HeldAt, PreparedAt, AttemptedAt,
     ObservedAt
<1> QED BY <1>1, <1>2 DEF Next

\* The commit of a write; os.link and os.replace differ in what they do to the
\* temporary file, and in whether they look at the target.
FileCommits(w) ==
    /\ pc[w] = "commit" /\ MovesOn(w, "clean")
    /\ calls' = [calls EXCEPT ![job[w]] = @ + 1]
    /\ over' = [over EXCEPT ![job[w]] = IF file = None THEN None ELSE file.content]
    /\ job[w].request.mode = "CREATE_ONLY" => file = None
    /\ file' = [inode |-> job[w], content |-> job[w].request.content]

LEMMA FileCommit ==
  ASSUME FileConstants, FileInv, Next
  PROVE  UNCHANGED <<calls, over>> \/ \E w \in Workers : FileCommits(w)
<1>1. ASSUME NEW w \in Workers, NEW ok \in BOOLEAN, Materialize(w),
             \/ link(w, ok) /\ file = None
             \/ replace(w, ok)
      PROVE  FileCommits(w)
  <2>1. MovesOn(w, "clean")
    BY <1>1 DEF link, replace, Materialize, At, Goto, MovesOn, FileInv, FenceSafe, Custody,
       HeldAt, PreparedAt, AttemptedAt, ObservedAt
  <2> QED BY <1>1, <2>1 DEF link, replace, Materialize, Calls, At, Request, FileCommits
<1>2. ASSUME NEW w \in Workers, NEW ok \in BOOLEAN, link(w, ok) \/ replace(w, ok)
      PROVE  UNCHANGED <<calls, over>> \/ FileCommits(w)
  BY <1>1, <1>2 DEF link, replace
<1> QED BY <1>2 DEF Next, Step, PermissionChanges, OtherWrites, execute,
    resolve, ResolveAgain, prepare, Recheck, mark_attempted, write_exact,
    WriteTemp, Cleanup, _require_replace_identity, Observe,
    mark_observed, mark_reconciled, mark_unknown, Crash, disk

LEMMA FileTempKept ==
  ASSUME FileConstants, FileInv, Next
  PROVE  FileTemp'
<1> USE DEF FileInv, FileTemp
<1>1. ASSUME \/ \E p \in Permissions : PermissionChanges(p)
             \/ \E f \in [inode : Inodes, content : Contents] \cup {None} : OtherWrites(f)
      PROVE  FileTemp'
  BY <1>1 DEF PermissionChanges, OtherWrites, disk, FileStuck
<1> SUFFICES ASSUME NEW w \in Workers,
                    \/ \E r \in Requests : execute(w, r)
                    \/ Step(w) \/ Crash(w)
             PROVE  FileTemp'
  BY <1>1 DEF Next
<1>2. FenceType /\ Custody /\ pc \in [Workers -> Anywhere]
  BY DEF FenceSafe
<1> USE <1>2, RowFacts, RowsDiffer DEF At, Goto, FenceType
\* Whoever holds the row of a stuck file is alone with it.
<1>3. ASSUME UNCHANGED <<temp, stuck, lost>>, pc[w] \notin Writing \cup {"failed"},
             \A v \in Workers \ {w} : pc'[v] = pc[v] /\ job'[v] = job[v],
             \A k \in Keys : fence[k] # fence'[k] =>
                 \/ k = job[w] /\ pc[w] \in HeldAt /\ fence[k] # UnknownRow
                 \/ fence[k] = None
      PROVE  FileTemp'
  <2>1. SUFFICES ASSUME NEW k \in temp, k \notin lost
                 PROVE  (\E v \in Workers : job'[v] = k /\ pc'[v] \in Writing) \/ FileStuck(k)'
    BY <1>3
  <2>2. ASSUME NEW v \in Workers, job[v] = k, pc[v] \in Writing
        PROVE  job'[v] = k /\ pc'[v] \in Writing
    BY <1>3, <2>2
  <2>3. ASSUME FileStuck(k) PROVE FileStuck(k)'
    <3>0. k \in Keys /\ fence[k] # None
      BY <2>3 DEF TypeOK, FileStuck, FileConstants
    <3>1. CASE fence[k] = UnknownRow
      BY <1>3, <2>3, <3>0, <3>1 DEF FileStuck
    <3>2. CASE fence[k] = AttemptedRow
      <4>1. PICK v \in Workers : job[v] = k /\ pc[v] = "failed"
        BY <2>3, <3>2 DEF FileStuck
      <4>2. v # w /\ pc[v] \in HeldAt
        BY <1>3, <4>1 DEF HeldAt
      <4>3. fence'[k] = fence[k]
        BY <1>3, <3>0, <4>1, <4>2 DEF Custody
      <4> QED BY <1>3, <2>3, <3>2, <4>1, <4>2, <4>3 DEF FileStuck
    <3> QED BY <2>3, <3>1, <3>2 DEF FileStuck
  <2> QED BY <2>1, <2>2, <2>3
\* A step that only moves its worker inside write_exact, or out of it by a raise.
<1>4. ASSUME UNCHANGED <<fence, job, lost>>, pc[w] \notin {"failed"},
             \A v \in Workers \ {w} : pc'[v] = pc[v],
             temp' \subseteq temp \cup {job[w]}, stuck \subseteq stuck',
             job[w] \in temp' =>
                 \/ pc'[w] \in Writing
                 \/ pc'[w] = "failed" /\ fence[job[w]] = AttemptedRow /\ job[w] \in stuck'
      PROVE  FileTemp'
  <2>1. ASSUME NEW k \in temp', k \notin lost
        PROVE  (\E v \in Workers : job'[v] = k /\ pc'[v] \in Writing) \/ FileStuck(k)'
    <3>1. CASE k = job[w]
      BY <1>4, <2>1, <3>1 DEF FileStuck
    <3>2. CASE k # job[w]
      <4>1. k \in temp
        BY <1>4, <2>1, <3>2
      <4>2. ASSUME NEW v \in Workers, job[v] = k PROVE v # w /\ pc'[v] = pc[v] /\ job'[v] = k
        BY <1>4, <3>2, <4>2
      <4> QED BY <1>4, <2>1, <4>1, <4>2 DEF FileStuck
    <3> QED BY <3>1, <3>2
  <2> QED BY <1>4, <2>1
<1>5. ASSUME Crash(w) PROVE FileTemp'
  <2>1. pc[w] \in Writing \cup {"failed"} => job[w] \in lost'
    BY <1>5 DEF Crash, Unprepared, Writing
  <2>2. \A v \in Workers \ {w} : pc'[v] = pc[v] /\ job'[v] = job[v]
    BY <1>5 DEF Crash, Finish
  <2>3. UNCHANGED <<fence, temp, stuck>> /\ lost \subseteq lost'
    BY <1>5 DEF Crash, disk
  <2>4. ASSUME NEW k \in temp, k \notin lost'
        PROVE  (\E v \in Workers : job'[v] = k /\ pc'[v] \in Writing) \/ FileStuck(k)'
    <3>1. ASSUME NEW v \in Workers, job[v] = k, pc[v] \in Writing \cup {"failed"}
          PROVE  job'[v] = k /\ pc'[v] = pc[v]
      BY <2>1, <2>2, <2>4, <3>1
    <3> QED BY <2>3, <2>4, <3>1 DEF FileStuck
  <2> QED BY <2>3, <2>4
<1>6. ASSUME NEW ok \in BOOLEAN, WriteTemp(w, ok) PROVE FileTemp'
  <2>1. UNCHANGED <<fence, job, lost>> /\ stuck \subseteq stuck' /\ pc[w] = "temp"
        /\ pc'[w] \in Writing /\ \A v \in Workers \ {w} : pc'[v] = pc[v]
    BY <1>6 DEF WriteTemp, Writing
  <2>2. temp' \subseteq temp \cup {job[w]}
    BY <1>6 DEF WriteTemp
  <2> QED BY <1>4, <2>1, <2>2
<1>7. ASSUME NEW ok \in BOOLEAN, NEW unlinked \in BOOLEAN, Cleanup(w, ok, unlinked) PROVE FileTemp'
  <2>1. /\ UNCHANGED <<fence, job, lost>> /\ pc[w] \in {"clean", "clean_failed"}
        /\ \A v \in Workers \ {w} : pc'[v] = pc[v]
    BY <1>7 DEF Cleanup
  <2>2. temp' \subseteq temp /\ stuck \subseteq stuck'
    BY <1>7 DEF Cleanup, Unlink
  <2>3. job[w] \in temp' => pc'[w] = "failed" /\ job[w] \in stuck'
    BY <1>7 DEF Cleanup, Unlink
  <2>4. fence[job[w]] = AttemptedRow
    BY <2>1 DEF Custody, AttemptedAt
  <2> QED BY <1>4, <2>1, <2>2, <2>3, <2>4
<1>8. ASSUME NEW ok \in BOOLEAN, link(w, ok) \/ replace(w, ok) PROVE FileTemp'
  <2>1. UNCHANGED <<fence, job, lost>> /\ stuck \subseteq stuck' /\ pc[w] = "commit"
        /\ pc'[w] \in Writing /\ (\A v \in Workers \ {w} : pc'[v] = pc[v]) /\ temp' \subseteq temp
    BY <1>8 DEF link, replace, Materialize, Writing
  <2> QED BY <1>4, <2>1
<1>9. ASSUME _require_replace_identity(w) PROVE FileTemp'
  <2>1. UNCHANGED <<fence, job, lost>> /\ stuck \subseteq stuck' /\ temp' \subseteq temp /\ pc[w] = "identity"
        /\ pc'[w] \in Writing /\ \A v \in Workers \ {w} : pc'[v] = pc[v]
    BY <1>9 DEF _require_replace_identity, disk, Writing
  <2> QED BY <1>4, <2>1
<1>10. ASSUME mark_unknown(w) PROVE FileTemp'
  <2>1. UNCHANGED <<temp, stuck, lost>> /\ pc[w] = "failed"
    BY <1>10 DEF mark_unknown, disk
  <2>2. PICK r \in {UnknownRow, AbandonedRow} : Marks(w, r, "idle")
    BY <1>10, FileSteps
  <2>3. /\ fence' = [fence EXCEPT ![job[w]] = r] /\ RowStep(fence[job[w]], r)
        /\ \A v \in Workers \ {w} : pc'[v] = pc[v] /\ job'[v] = job[v]
    BY <2>2 DEF Marks, Ends
  <2>4. ASSUME NEW k \in temp, k \notin lost
        PROVE  (\E v \in Workers : job'[v] = k /\ pc'[v] \in Writing) \/ FileStuck(k)'
    <3>0. k \in Keys
      BY <2>4 DEF TypeOK
    <3>1. ASSUME NEW v \in Workers, job[v] = k, pc[v] \in Writing PROVE job'[v] = k /\ pc'[v] \in Writing
      BY <2>1, <2>3, <3>1 DEF Writing
    <3>2. CASE k = job[w] /\ FileStuck(k)
      <4>1. fence[k] = AttemptedRow /\ r = UnknownRow
        BY <2>3, <3>2 DEF FileStuck, RowStep
      <4> QED BY <2>1, <2>3, <3>0, <3>2, <4>1 DEF FileStuck
    <3>3. CASE k # job[w] /\ FileStuck(k)
      <4>1. fence'[k] = fence[k]
        BY <2>3, <3>0, <3>3
      <4> QED BY <2>1, <2>3, <3>3, <4>1 DEF FileStuck
    <3> QED BY <2>4, <3>1, <3>2, <3>3
  <2> QED BY <2>1, <2>4
<1>11. ASSUME \/ \E r \in Requests : execute(w, r)
              \/ resolve(w) \/ ResolveAgain(w) \/ prepare(w) \/ Recheck(w)
              \/ mark_attempted(w) \/ write_exact(w) \/ Observe(w) \/ mark_observed(w)
              \/ mark_reconciled(w)
       PROVE  FileTemp'
  <2>1. UNCHANGED <<temp, stuck, lost>> /\ pc[w] \notin Writing \cup {"failed"}
    BY <1>11 DEF execute, resolve, ResolveAgain, prepare, Recheck,
       mark_attempted, write_exact, Observe, mark_observed, mark_reconciled, disk, Writing
  <2>2. \/ UNCHANGED fence
        \/ Inserts(w, "recheck", FileRivals)
        \/ \E r \in Row, place \in Places : Marks(w, r, place)
    BY <1>11, FileSteps DEF MovesOn, BeginsWork, Places
  <2>3. \A v \in Workers \ {w} : pc'[v] = pc[v] /\ job'[v] = job[v]
    BY <1>11, FileSteps DEF Marks, MovesOn, Inserts, BeginsWork, Ends
  <2>4. ASSUME NEW k \in Keys, fence[k] # fence'[k]
        PROVE  (k = job[w] /\ pc[w] \in HeldAt /\ fence[k] # UnknownRow) \/ fence[k] = None
    BY <2>2, <2>4 DEF Inserts, Marks, RowStep
  <2> QED BY <1>3, <2>1, <2>3, <2>4
<1> QED BY <1>5, <1>6, <1>7, <1>8, <1>9, <1>10, <1>11 DEF Step

LEMMA FileKept ==
  ASSUME FileConstants, FileInv, Next
  PROVE  FileInv'
<1>0. None \notin Row /\ None \notin Keys
  BY DEF FileConstants, Row, States
<1>1. FenceSafe'
  BY <1>0, FileFence, FenceKept DEF FileInv
<1>2. FenceType'
  BY <1>1 DEF FenceSafe, FenceType, Row, States
<1>3. FileTemp'
  BY FileTempKept
<1>4. CreateNeverOverwrites'
  <2>1. CASE UNCHANGED over
    BY <2>1 DEF FileInv, CreateNeverOverwrites
  <2>2. ASSUME NEW w \in Workers, FileCommits(w) PROVE CreateNeverOverwrites'
    BY <2>2 DEF FileInv, TypeOK, CreateNeverOverwrites, FileCommits
  <2> QED BY <2>1, <2>2, FileCommit
<1> USE RowFacts, RowsDiffer DEF FileInv, FileApplied
<1>5. TypeOK'
  <2> USE DEF TypeOK
  <2>1. pc' \in [Workers -> Places]
    <3>1. ASSUME NEW w \in Workers,
                 \/ \E r \in Requests : execute(w, r)
                 \/ Step(w) \/ Crash(w)
          PROVE  pc' \in [Workers -> Places]
      BY <3>1, FileSteps DEF Step, BeginsWork, Inserts, MovesOn, Marks, Ends, Places
    <3> QED BY <3>1 DEF Next, PermissionChanges, OtherWrites
  <2>2. calls' \in [Keys -> Nat] /\ over' \in [Keys -> Contents \cup {None}]
    <3>1. ASSUME NEW w \in Workers, FileCommits(w)
          PROVE  calls' \in [Keys -> Nat] /\ over' \in [Keys -> Contents \cup {None}]
      BY <3>1 DEF FileCommits, FenceSafe, Custody, File
    <3> QED BY <3>1, FileCommit
  <2>3. file' \in File \cup {None}
    <3>1. ASSUME NEW w \in Workers, job[w] \in Keys, Materialize(w) PROVE file' \in File \cup {None}
      BY <3>1 DEF Materialize, Request, File, FileConstants
    <3> QED BY <3>1 DEF Next, Step, PermissionChanges, OtherWrites, execute,
        resolve, ResolveAgain, prepare, Recheck, mark_attempted, write_exact,
        WriteTemp, Cleanup, _require_replace_identity, link, replace, Observe,
        mark_observed, mark_reconciled, mark_unknown, Crash, disk, File,
        FenceSafe, Custody, At
  <2>4. others' \in 0..MaxOther /\ permission' \in Permissions
    BY DEF Next, Step, PermissionChanges, OtherWrites, execute,
        resolve, ResolveAgain, prepare, Recheck, mark_attempted, write_exact,
        WriteTemp, Cleanup, _require_replace_identity, link, replace, Observe,
        mark_observed, mark_reconciled, mark_unknown, Crash, env,
        FileConstants
  <2>5. seen' \in [Workers -> File \cup {None}]
    BY DEF Next, Step, PermissionChanges, OtherWrites, execute,
        resolve, ResolveAgain, prepare, Recheck, mark_attempted, write_exact,
        WriteTemp, Cleanup, _require_replace_identity, link, replace, Observe,
        mark_observed, mark_reconciled, mark_unknown, Crash
  <2>6. temp' \subseteq Keys /\ stuck' \subseteq Keys /\ lost' \subseteq Keys
    BY DEF Next, Step, PermissionChanges, OtherWrites, execute,
        resolve, ResolveAgain, prepare, Recheck, mark_attempted, write_exact,
        WriteTemp, Cleanup, Unlink, _require_replace_identity, link, replace, Observe,
        mark_observed, mark_reconciled, mark_unknown, Crash, disk,
        FenceSafe, Custody, At
  <2> QED BY <1>2, <2>1, <2>2, <2>3, <2>4, <2>5, <2>6
<1> USE <1>0 DEF FenceSafe, FenceType, Custody, Rows, OpenRows, HeldAt, PreparedAt, AttemptedAt, ObservedAt
<1>6. FileApplied'
  <2>1. ASSUME NEW w \in Workers, FileCommits(w) PROVE FileApplied'
    BY <2>1 DEF FileCommits, MovesOn, TypeOK
  <2>2. CASE UNCHANGED calls
    <3>1. CASE UNCHANGED <<fence, pc, job>>
      BY <2>2, <3>1
    <3> SUFFICES ASSUME NEW w \in Workers,
                        \/ \E r \in Requests : execute(w, r)
                        \/ Step(w) \/ Crash(w)
                 PROVE  FileApplied'
      BY <2>2, <3>1 DEF Next, PermissionChanges, OtherWrites
    <3>2. CASE \/ Ends(w) /\ UNCHANGED fence
               \/ \E k \in Keys : BeginsWork(w, k, "resolve") \/ BeginsWork(w, k, "resolve_again")
      BY <2>2, <3>2 DEF Ends, BeginsWork
    <3>3. CASE Inserts(w, "recheck", FileRivals)
      BY <2>2, <3>3 DEF Inserts
    <3>4. CASE Marks(w, AttemptedRow, "write") /\ pc[w] = "attempt"
      BY <2>2, <3>4 DEF Marks, RowStep
    <3>5. CASE Marks(w, ObservedRow, "verdict") /\ pc[w] = "observed"
      BY <2>2, <3>5 DEF Marks, RowStep
    <3>6. CASE \/ Marks(w, ReconciledRow, "idle") /\ pc[w] = "verdict"
               \/ \E r \in {UnknownRow, AbandonedRow} : Marks(w, r, "idle")
      <4>1. ASSUME NEW r \in {ReconciledRow, UnknownRow, AbandonedRow}, Marks(w, r, "idle"),
                   r = ReconciledRow => pc[w] = "verdict"
            PROVE  FileApplied'
        <5>1. job[w] \in Keys /\ calls \in [Keys -> Nat] /\ UNCHANGED calls
          BY <2>2, <4>1 DEF Marks, TypeOK
        <5>2. /\ RowStep(fence[job[w]], r) /\ fence' = [fence EXCEPT ![job[w]] = r]
              /\ pc' = [pc EXCEPT ![w] = "idle"] /\ \A v \in Workers \ {w} : job'[v] = job[v]
          BY <4>1 DEF Marks, Ends
        <5> QED BY <4>1, <5>1, <5>2 DEF RowStep
      <4> QED BY <3>6, <4>1
    <3>7. CASE \/ MovesOn(w, "prepare") \/ MovesOn(w, "attempt")
               \/ MovesOn(w, "temp") /\ pc[w] = "write"
               \/ (MovesOn(w, "identity") \/ MovesOn(w, "commit")) /\ pc[w] \in {"temp", "identity"}
               \/ MovesOn(w, "observe") /\ pc[w] = "clean"
               \/ MovesOn(w, "observed") /\ pc[w] = "observe"
               \/ MovesOn(w, "clean_failed") \/ MovesOn(w, "failed")
      BY <2>2, <3>7 DEF MovesOn
    <3>8. ASSUME NEW ok \in BOOLEAN, link(w, ok) \/ replace(w, ok) PROVE FileApplied'
      <4>1. MovesOn(w, "clean_failed") \/ calls' # calls
        BY <3>8, FileSteps DEF link, replace, Materialize, MovesOn, At, Goto, Calls, TypeOK
      <4> QED BY <2>2, <3>7, <3>8, <4>1 DEF link, replace, At
    <3> QED BY FileSteps, <3>2, <3>3, <3>4, <3>5, <3>6, <3>7, <3>8
        DEF Step, mark_attempted, mark_observed, mark_reconciled, At,
            write_exact, WriteTemp, _require_replace_identity, Observe
  <2> QED BY <2>1, <2>2, FileCommit
<1> QED BY <1>1, <1>3, <1>4, <1>5, <1>6

LEMMA FileInit == ASSUME FileConstants, Init PROVE FileInv
<1>1. FenceSafe
  BY DEF Init, FenceInit, FileConstants, FenceSafe, FenceType, Rows, Custody,
     Anywhere, FreeAt, HeldAt, PreparedAt, AttemptedAt, ObservedAt
<1>2. TypeOK
  <2>1. file \in File \cup {None}
    BY DEF Init, File
  <2>2. others \in 0..MaxOther
    BY DEF Init, FileConstants
  <2> QED BY <2>1, <2>2 DEF Init, FenceInit, TypeOK, FenceType, Places
<1>3. FileApplied /\ FileTemp /\ CreateNeverOverwrites
  <2>1. None \notin Row
    BY DEF FileConstants, Row, States
  <2> QED BY <2>1, RowFacts DEF Init, FenceInit, FileApplied, FileTemp, FileStuck, CreateNeverOverwrites
<1> QED BY <1>1, <1>2, <1>3 DEF FileInv

LEMMA FileAlways == ASSUME FileConstants PROVE Spec => []FileInv
<1>1. FileInv /\ UNCHANGED vars => FileInv'
  BY DEF vars, FileInv, FenceSafe, FenceType, Rows, Custody, TypeOK, FenceType,
     FileApplied, FileTemp, FileStuck, CreateNeverOverwrites
<1> QED BY <1>1, FileInit, FileKept, PTL DEF Spec

\* A CREATE_ONLY write replaces nothing, whoever creates the target between the
\* mediator's observations and os.link.
THEOREM FileNeverOverwrites == ASSUME FileConstants PROVE Spec => []CreateNeverOverwrites
<1>1. FileInv => CreateNeverOverwrites
  BY DEF FileInv
<1> QED BY <1>1, FileAlways, PTL

\* A RECONCILED file write is the effect's own write: mark_observed follows only on a
\* commit by os.link or os.replace, never on another's file of the same content.
THEOREM FileSafety == ASSUME FileConstants PROVE Spec => []ReconciledWasApplied
<1>1. FileInv => ReconciledWasApplied
  BY RowFacts DEF FileInv, FileApplied, ReconciledWasApplied, FenceSafe, Rows, OpenRows
<1> QED BY <1>1, FileAlways, PTL

\* The finally clause of write_exact collects every temporary file of a running write; one
\* that is left behind is the work of a runner that died or of an unlink that failed, and
\* in the second case the effect is never RECONCILED.
THEOREM FileTempSafety == ASSUME FileConstants PROVE Spec => []TempIsCollected
<1>1. FileInv => TempIsCollected
  BY DEF FileInv, FileTemp, FileStuck, TempIsCollected, UnknownRow, AttemptedRow
<1> QED BY <1>1, FileAlways, PTL

\* The file mediator, its fence and the commit keep the promise of EffectOnce: one write
\* per request, under whichever permission.
THEOREM FileRefines == ASSUME FileConstants PROVE Spec => FileImplementsEffectOnce
<1>1. Init => FileEffects!OnceInit
  BY DEF Init, FenceInit, Phase, PhaseOf, FileEffects!OnceInit
<1>2. ASSUME FileInv, [Next]_(vars)
      PROVE  [FileEffects!OnceNext]_<<Phase, calls>>
  <2>1. None \notin Row /\ None \notin Keys /\ FileRivals \in [Keys -> SUBSET Keys]
    BY DEF FileConstants, Row, States, FileRivals
  <2>2. CASE UNCHANGED vars
    BY <2>2 DEF vars, Phase
  <2>3. ASSUME NEW w \in Workers, FileCommits(w) PROVE FileEffects!OnceNext
    <3>1. PICK k \in Keys : k = job[w] /\ fence[k] = AttemptedRow /\ calls[k] = 0
      BY <1>2, <2>3 DEF FileInv, FenceSafe, Custody, FileApplied, FileCommits, AttemptedAt
    <3>2. FileEffects!Call(k)
      BY <1>2, <2>1, <2>3, <3>1, PhaseFacts DEF FileEffects!Call, FileCommits, MovesOn, Phase
    <3> QED BY <3>1, <3>2 DEF FileEffects!OnceNext
  <2>4. CASE Next /\ UNCHANGED calls
    <3>1. PhaseStep(FALSE, FileRivals)
      BY <1>2, <2>1, <2>4, FileFence, PhasesKept DEF FileInv
    <3>2. ASSUME NEW k \in Keys, Becomes(k, "none", "prepared"), \A j \in FileRivals[k] : Phase[j] = "none"
          PROVE  FileEffects!Prepare(k)
      BY <2>4, <3>2 DEF Becomes, FileRivals, FileEffects!Prepare, FileEffects!Become
    <3>3. ASSUME NEW k \in Keys
          PROVE  /\ Becomes(k, "prepared", "attempted") => FileEffects!Attempt(k)
                 /\ Becomes(k, "prepared", "abandoned") => FileEffects!Abandon(k)
                 /\ Becomes(k, "attempted", "confirmed") => FileEffects!Confirm(k)
                 /\ Becomes(k, "attempted", "unknown") => FileEffects!GiveUp(k)
      BY <2>4 DEF Becomes, FileEffects!Become, FileEffects!Attempt, FileEffects!Abandon,
         FileEffects!Confirm, FileEffects!GiveUp
    <3> QED BY <2>4, <3>1, <3>2, <3>3 DEF PhaseStep, FileEffects!OnceNext
  <2> QED BY <1>2, <2>2, <2>3, <2>4, FileCommit
<1> QED BY <1>1, <1>2, FileAlways, PTL DEF Spec, FileImplementsEffectOnce, FileEffects!OnceSpec

\* A file request is applied once, under whichever admission, crashes before the
\* mark included, and the attempt stays on record.
THEOREM FileOneCall ==
  ASSUME FileConstants
  PROVE  Spec => [](FileEffects!OneCallPerBinding /\ FileEffects!CallsAreOnRecord)
<1>0. FileRivals \in [Keys -> SUBSET Keys] /\ \A j, k \in Keys : j \in FileRivals[k] => k \in FileRivals[j]
  BY DEF FileRivals, SameRequest
<1>1. FileEffects!OnceInit => OnceInv(FileRivals)
  BY <1>0 DEF FileEffects!OnceInit, OnceInv
<1>2. OnceInv(FileRivals) /\ [FileEffects!OnceNext]_<<Phase, calls>> => OnceInv(FileRivals)'
  <2>1. SUFFICES ASSUME OnceInv(FileRivals), FileEffects!OnceNext PROVE OnceInv(FileRivals)'
    BY DEF OnceInv
  <2>2. ASSUME NEW k \in Keys, FileEffects!Prepare(k) PROVE OnceStep(FileRivals)
    BY <2>2 DEF FileEffects!Prepare, FileEffects!Become, OnceStep, PhaseStep, Becomes, FileRivals
  <2>3. ASSUME NEW k \in Keys,
               \/ FileEffects!Attempt(k) \/ FileEffects!Abandon(k) \/ FileEffects!Confirm(k)
               \/ FileEffects!GiveUp(k) \/ FileEffects!Resolve(k)
        PROVE  OnceStep(FileRivals)
    BY <2>3 DEF FileEffects!Attempt, FileEffects!Abandon, FileEffects!Confirm, FileEffects!GiveUp,
       FileEffects!Resolve, FileEffects!Become, OnceStep, PhaseStep, Becomes
  <2>4. ASSUME NEW k \in Keys, FileEffects!Call(k) PROVE OnceStep(FileRivals)
    BY <2>4 DEF FileEffects!Call, OnceStep
  <2> QED BY <1>0, <2>1, <2>2, <2>3, <2>4, OnceKept DEF FileEffects!OnceNext
<1>3. OnceInv(FileRivals) => FileEffects!OneCallPerBinding /\ FileEffects!CallsAreOnRecord
  BY DEF OnceInv, Reached, FileRivals, FileEffects!OneCallPerBinding, FileEffects!CallsAreOnRecord
<1> QED BY <1>1, <1>2, <1>3, FileRefines, PTL DEF FileImplementsEffectOnce, FileEffects!OnceSpec
-------------------------------------------------------------------------------
(* Deletion of a branch.                                                   *)

Delete == INSTANCE RepositoryDelete

DeleteRivals == [k \in Keys |-> {j \in Keys : SameKey(j, k)}]
AttemptedRows == {AttemptedRow, ObservedRow, UnknownRow, ReconciledRow}

DeleteSent ==
    /\ \A k \in Keys : calls[k] # 0 => calls[k] = 1 /\ fence[k] \in AttemptedRows
    /\ \A w \in Workers : pc[w] \in {"sandbox", "current", "send"} => calls[job[w]] = 0

\* When GitHub shows no branch to a worker that has seen it after its prepare, the
\* branch was absent in between.
DeleteEvidence ==
    /\ ref = None => \A k \in Keys : fence[k] # None => k \in gone
    /\ view = None =>
          /\ \A w \in Workers : pc[w] \in {"authorize", "attempt"} => job[w] \in gone
          /\ \A k \in Keys : fence[k] \in AttemptedRows => k \in gone
    /\ \A w \in Workers : pc[w] \in {"observed", "reconcile", "late_record"} => job[w] \in gone
    /\ \A k \in Keys : fence[k] = ReconciledRow => k \in gone
    /\ \A w \in Workers : pc[w] \in {"late_observe", "late_record"} =>
          fence[job[w]] \in {UnknownRow, ReconciledRow}

DeleteInv == FenceSafe /\ Delete!TypeOK /\ DeleteSent /\ DeleteEvidence

\* What each step of the mediator is to the fence.
LEMMA DeleteSteps ==
  ASSUME Delete!DeleteConstants, DeleteInv, NEW w \in Workers
  PROVE  /\ \A e \in Executions, h \in Heads : Delete!run_exact_request(w, e, h) =>
               \E k \in Keys : BeginsWork(w, k, "admit")
         /\ \A k \in Keys : Delete!late_reconcile_unknown_delete(w, k) =>
               BeginsWork(w, k, "late_observe") /\ fence[k] = UnknownRow
         /\ Delete!Admit(w) => \E k \in Keys : BeginsWork(w, k, "prepare")
         /\ Delete!prepare(w) => \/ Ends(w) /\ UNCHANGED fence
                                 \/ Inserts(w, "recheck", DeleteRivals)
         /\ Delete!Recheck(w) => (MovesOn(w, "authorize") /\ view # None) \/ MovesOn(w, "failed")
         /\ Delete!authorize_canonical_delete(w) =>
               (MovesOn(w, "attempt") /\ view # None) \/ MovesOn(w, "failed")
         /\ Delete!mark_attempted(w) => Marks(w, AttemptedRow, "sandbox")
         /\ Delete!execute_delete(w) => MovesOn(w, "observe") \/ MovesOn(w, "current") \/ MovesOn(w, "failed")
         /\ Delete!delete_exact_branch_ref(w) => MovesOn(w, "send") \/ MovesOn(w, "failed")
         /\ Delete!_delete_exact_branch_ref_http(w) => MovesOn(w, "wait")
         /\ Delete!DeleteReply(w) => MovesOn(w, "readback")
         /\ Delete!DeleteFails(w) => MovesOn(w, "failed")
         /\ Delete!Readback(w) => MovesOn(w, "observe") \/ MovesOn(w, "failed")
         /\ Delete!Observe(w) => (MovesOn(w, "observed") /\ view = None) \/ MovesOn(w, "failed")
         /\ Delete!mark_observed(w) => Marks(w, ObservedRow, "reconcile")
         /\ Delete!mark_reconciled(w) => Marks(w, ReconciledRow, "idle")
         /\ Delete!mark_unknown(w) => \E r \in {UnknownRow, AbandonedRow} : Marks(w, r, "idle")
         /\ Delete!LateObserve(w) => \/ MovesOn(w, "late_record") /\ view = None
                                     \/ Ends(w) /\ UNCHANGED fence
         /\ Delete!late_reconcile_unknown(w) => \/ Ends(w) /\ UNCHANGED fence
                                                \/ Resolves(w, job[w])
         /\ Delete!Crash(w) => Ends(w) /\ UNCHANGED fence
<1> USE RowFacts, RowsDiffer DEF Delete!At, Delete!Goto, Delete!Target
<1>0. None \notin Row
  BY DEF Delete!DeleteConstants, Row, Delete!Row, States, Delete!States
<1>1. ASSUME NEW e \in Executions, NEW h \in Heads, Delete!run_exact_request(w, e, h)
      PROVE  \E k \in Keys : BeginsWork(w, k, "admit")
  <2>1. [execution |-> e, head |-> h, master |-> master, trust |-> trust] \in Keys
    BY <1>1 DEF Delete!run_exact_request, Delete!Eligible, Delete!DeleteConstants, DeleteInv, Delete!TypeOK
  <2> QED BY <1>1, <2>1 DEF Delete!run_exact_request, BeginsWork, HeldAt, PreparedAt, AttemptedAt,
     ObservedAt
<1>2. ASSUME NEW k \in Keys, Delete!late_reconcile_unknown_delete(w, k)
      PROVE  BeginsWork(w, k, "late_observe") /\ fence[k] = UnknownRow
  <2>1. fence[k] \in {UnknownRow, AbandonedRow, PreparedRow, AttemptedRow, ObservedRow, ReconciledRow}
    BY <1>2 DEF Delete!late_reconcile_unknown_delete, DeleteInv, FenceSafe, Rows, OpenRows
  <2>2. fence[k] = UnknownRow
    BY <1>2, <2>1 DEF Delete!late_reconcile_unknown_delete
  <2> QED BY <1>2, <2>2 DEF Delete!late_reconcile_unknown_delete, BeginsWork, HeldAt, PreparedAt,
     AttemptedAt, ObservedAt
<1>3. ASSUME Delete!Admit(w) PROVE \E k \in Keys : BeginsWork(w, k, "prepare")
  <2>1. [job[w] EXCEPT !.trust = trust] \in Keys
    BY <1>3 DEF Delete!Admit, Delete!DeleteConstants, DeleteInv, Delete!TypeOK, FenceSafe, Custody
  <2> QED BY <1>3, <2>1 DEF Delete!Admit, BeginsWork, HeldAt, PreparedAt, AttemptedAt, ObservedAt
<1>4. ASSUME Delete!prepare(w) PROVE (Ends(w) /\ UNCHANGED fence) \/ Inserts(w, "recheck", DeleteRivals)
  <2>1. CASE fence[job[w]] # None
    BY <1>4, <2>1 DEF Delete!prepare, Delete!Prepare, Delete!Leave, Delete!Finish, Ends
  <2>2. CASE fence[job[w]] = None
    <3>1. job[w] \in Keys
      BY <1>4 DEF Delete!prepare, DeleteInv, FenceSafe, Custody
    <3>2. \A j \in DeleteRivals[job[w]] : fence[j] = None
      BY <2>2, <3>1 DEF DeleteRivals, SameKey
    <3> QED BY <1>4, <2>2, <3>1, <3>2 DEF Delete!prepare, Delete!Prepare, Inserts, PreparedRow, PreparedAt
  <2> QED BY <2>1, <2>2
<1>5. ASSUME pc[w] # "idle", Delete!Current(w) PROVE view # None
  <2>1. job[w] \in Keys
    BY <1>5 DEF DeleteInv, FenceSafe, Custody
  <2> QED BY <1>5, <2>1 DEF Delete!Current, Delete!DeleteConstants
<1>6. /\ Delete!Recheck(w) => (MovesOn(w, "authorize") /\ view # None) \/ MovesOn(w, "failed")
      /\ Delete!authorize_canonical_delete(w) =>
            (MovesOn(w, "attempt") /\ view # None) \/ MovesOn(w, "failed")
      /\ Delete!execute_delete(w) => MovesOn(w, "observe") \/ MovesOn(w, "current") \/ MovesOn(w, "failed")
      /\ Delete!delete_exact_branch_ref(w) => MovesOn(w, "send") \/ MovesOn(w, "failed")
  BY <1>5 DEF Delete!Recheck, Delete!authorize_canonical_delete, Delete!execute_delete,
     Delete!delete_exact_branch_ref, Delete!GoOrRaise, MovesOn, DeleteInv, FenceSafe, Custody,
     HeldAt, PreparedAt, AttemptedAt, ObservedAt, OpenRows
<1>7. /\ Delete!_delete_exact_branch_ref_http(w) => MovesOn(w, "wait")
      /\ Delete!DeleteReply(w) => MovesOn(w, "readback")
      /\ Delete!DeleteFails(w) => MovesOn(w, "failed")
      /\ Delete!Readback(w) => MovesOn(w, "observe") \/ MovesOn(w, "failed")
      /\ Delete!Observe(w) => (MovesOn(w, "observed") /\ view = None) \/ MovesOn(w, "failed")
      /\ Delete!LateObserve(w) => \/ MovesOn(w, "late_record") /\ view = None
                                  \/ Ends(w) /\ UNCHANGED fence
  BY DEF Delete!_delete_exact_branch_ref_http, Delete!DeleteReply, Delete!DeleteFails, Delete!Readback,
     Delete!Observe, Delete!LateObserve, Delete!Absent, Delete!GoOrRaise, Delete!Raise, Delete!Finish,
     MovesOn, Ends, DeleteInv, FenceSafe, Custody, HeldAt, PreparedAt, AttemptedAt, ObservedAt, OpenRows
<1>8. Delete!mark_attempted(w) => Marks(w, AttemptedRow, "sandbox")
  BY AttemptMarks DEF Delete!mark_attempted, Delete!MarkAttempted, MarkAttempted, Delete!Raise, Raise, Goto,
     DeleteInv, PreparedAt, AttemptedAt
<1>9. Delete!mark_observed(w) => Marks(w, ObservedRow, "reconcile")
  BY ObserveMarks DEF Delete!mark_observed, Delete!MarkObserved, MarkObserved, Delete!Mark, Mark,
     Delete!Raise, Raise, Goto, DeleteInv, AttemptedAt, ObservedAt
<1>10. Delete!mark_reconciled(w) => Marks(w, ReconciledRow, "idle")
  BY ReconcileMarks DEF Delete!mark_reconciled, Delete!MarkReconciled, MarkReconciled, Delete!Leave, Leave,
     Delete!Finish, Finish, Delete!Raise, Raise, Goto, DeleteInv, ObservedAt, FreeAt
<1>11. Delete!mark_unknown(w) => \E r \in {UnknownRow, AbandonedRow} : Marks(w, r, "idle")
  BY UnknownMarks DEF Delete!mark_unknown, Delete!MarkUnknown, MarkUnknown, Delete!Leave, Leave,
     Delete!Finish, Finish, Delete!Undecided, Undecided, Goto, DeleteInv, FreeAt
<1>12. ASSUME Delete!late_reconcile_unknown(w) PROVE (Ends(w) /\ UNCHANGED fence) \/ Resolves(w, job[w])
  <2>1. job[w] \in Keys /\ fence[job[w]] \in {UnknownRow, ReconciledRow}
    BY <1>12 DEF Delete!late_reconcile_unknown, DeleteInv, DeleteEvidence, FenceSafe, Custody
  <2>2. CASE fence[job[w]] = UnknownRow
    BY <1>12, <2>1, <2>2, RowUpdates DEF Delete!late_reconcile_unknown, Delete!Finish, Ends, Resolves
  <2>3. CASE fence[job[w]] = ReconciledRow
    BY <1>12, <2>1, <2>3 DEF Delete!late_reconcile_unknown, Delete!Finish, Ends
  <2> QED BY <2>1, <2>2, <2>3
<1>13. Delete!Crash(w) => Ends(w) /\ UNCHANGED fence
  BY DEF Delete!Crash, Delete!Finish, Ends
<1> QED BY <1>1, <1>2, <1>3, <1>4, <1>6, <1>7, <1>8, <1>9, <1>10, <1>11, <1>12, <1>13

LEMMA DeleteFence ==
  ASSUME Delete!DeleteConstants, DeleteInv, Delete!Next
  PROVE  FenceStep(TRUE, DeleteRivals)
<1>1. CASE Delete!Environment
  BY <1>1 DEF Delete!Environment, Delete!MasterMoves, Delete!TrustChanges, Delete!OwnershipChanges,
     Delete!Converge, Delete!OtherWrites, Delete!ProviderDelete, Delete!ProviderRefuse, FenceStep
<1>2. ASSUME NEW w \in Workers,
             \/ \E e \in Executions, h \in Heads : Delete!run_exact_request(w, e, h)
             \/ \E k \in Keys : Delete!late_reconcile_unknown_delete(w, k)
             \/ Delete!Step(w) \/ Delete!Crash(w)
      PROVE  FenceStep(TRUE, DeleteRivals)
  <2>1. ASSUME NEW k \in Keys, Delete!late_reconcile_unknown_delete(w, k) PROVE FenceStep(TRUE, DeleteRivals)
    BY <2>1, DeleteSteps DEF FenceStep, Anywhere, FreeAt
  <2>2. CASE Delete!late_reconcile_unknown(w)
    <3>1. job[w] \in Keys
      BY <2>2 DEF Delete!late_reconcile_unknown, Delete!At, DeleteInv, FenceSafe, Custody
    <3> QED BY <2>2, <3>1, DeleteSteps DEF FenceStep
  <2> QED BY <1>2, <2>1, <2>2, DeleteSteps, RowFacts DEF Delete!Step, FenceStep, Anywhere, FreeAt, HeldAt,
      PreparedAt, AttemptedAt, ObservedAt
<1> QED BY <1>1, <1>2 DEF Delete!Next

LEMMA DeleteKept ==
  ASSUME Delete!DeleteConstants, DeleteInv, Delete!Next
  PROVE  DeleteInv'
<1>0. None \notin Row /\ None \notin Keys
  BY DEF Delete!DeleteConstants, Row, Delete!Row, States, Delete!States
<1>1. FenceSafe'
  BY <1>0, DeleteFence, FenceKept DEF DeleteInv
<1>2. Delete!FenceType'
  BY <1>1 DEF FenceSafe, FenceType, Delete!FenceType, Row, Delete!Row, States, Delete!States
<1> USE RowFacts, RowsDiffer DEF DeleteInv, AttemptedRows, Delete!Recorded
<1>3. CASE Delete!Environment
  <2> USE <1>3 DEF Delete!Environment, Delete!MasterMoves, Delete!TrustChanges, Delete!OwnershipChanges,
     Delete!Converge, Delete!OtherWrites, Delete!ProviderDelete, Delete!ProviderRefuse, Delete!provider,
     Delete!environment, Delete!TypeOK
  <2>1. UNCHANGED <<fence, pc, job, late, lost, calls>>
    OBVIOUS
  <2>2. /\ gone' = gone \/ gone' = gone \cup {k \in Keys : fence[k] # None}
        /\ ref' = None => ref = None \/ gone' = gone \cup {k \in Keys : fence[k] # None}
        /\ view' = None => view = None \/ (ref = None /\ gone' = gone)
    OBVIOUS
  <2>3. /\ ref' \in Heads \cup {None} /\ view' \in Heads \cup {None}
        /\ blocked' \in BOOLEAN /\ gone' \subseteq Keys
    OBVIOUS
  <2>4. master' \in 1..MaxMaster /\ trust' \in 1..MaxTrust /\ changes' \in 0..MaxChanges
    BY DEF Delete!DeleteConstants
  <2>5. del' \in [Keys -> {"none", "sent", "done", "refused"}]
    OBVIOUS
  <2>6. DeleteSent'
    BY <2>1 DEF DeleteSent
  <2>7. DeleteEvidence'
    BY <1>0, <2>1, <2>2 DEF DeleteEvidence, FenceSafe, Custody, OpenRows, HeldAt, PreparedAt, AttemptedAt,
       ObservedAt
  <2> QED BY <1>1, <1>2, <2>1, <2>3, <2>4, <2>5, <2>6, <2>7
<1> SUFFICES ASSUME NEW w \in Workers,
                    \/ \E e \in Executions, h \in Heads : Delete!run_exact_request(w, e, h)
                    \/ \E k \in Keys : Delete!late_reconcile_unknown_delete(w, k)
                    \/ Delete!Step(w) \/ Delete!Crash(w)
             PROVE  DeleteInv'
  BY <1>3 DEF Delete!Next
<1>4. pc' \in [Workers -> Delete!Places]
  <2>1. Delete!TypeOK
    OBVIOUS
  <2> QED BY <1>1, <2>1, DeleteSteps
      DEF Delete!TypeOK, Delete!Step, BeginsWork, Inserts, MovesOn, Marks, Ends, Resolves, Delete!Places
<1>5. /\ UNCHANGED <<ref, view, master, trust, blocked, changes>>
      /\ del' \in [Keys -> {"none", "sent", "done", "refused"}]
      /\ late' \subseteq Keys /\ gone' \subseteq Keys /\ lost' \subseteq Keys
      /\ calls' \in [Keys -> Nat]
      /\ gone \subseteq gone'
  <2> USE DEF Delete!TypeOK, Delete!Calls, Delete!Step, Delete!run_exact_request, Delete!late_reconcile_unknown_delete,
      Delete!Admit, Delete!prepare, Delete!Recheck, Delete!authorize_canonical_delete,
      Delete!mark_attempted,
      Delete!execute_delete, Delete!delete_exact_branch_ref, Delete!_delete_exact_branch_ref_http,
      Delete!DeleteReply, Delete!DeleteFails, Delete!Readback, Delete!Observe, Delete!mark_observed,
      Delete!mark_reconciled, Delete!mark_unknown, Delete!LateObserve, Delete!late_reconcile_unknown,
      Delete!Crash, Delete!environment, Delete!provider, Delete!Target
  <2>1. UNCHANGED <<ref, view, master, trust, blocked, changes>>
    OBVIOUS
  <2>2. del' \in [Keys -> {"none", "sent", "done", "refused"}]
    OBVIOUS
  <2>3. calls' \in [Keys -> Nat]
    <3>1. UNCHANGED calls \/ calls' = [calls EXCEPT ![job[w]] = calls[job[w]] + 1]
      OBVIOUS
    <3>2. calls \in [Keys -> Nat]
      OBVIOUS
    <3> QED BY ONLY <3>1, <3>2
  <2>4. pc[w] # "idle" => job[w] \in Keys
    BY DEF FenceSafe, Custody
  <2>5. late' \subseteq Keys /\ gone' \subseteq Keys
    BY <2>4 DEF Delete!At
  <2>6. lost' \subseteq Keys /\ gone \subseteq gone'
    OBVIOUS
  <2> QED BY <2>1, <2>2, <2>3, <2>5, <2>6
<1>6. Delete!TypeOK'
  BY <1>2, <1>4, <1>5 DEF Delete!TypeOK
<1> USE <1>0 DEF FenceSafe, FenceType, Custody, Rows, OpenRows, HeldAt, PreparedAt, AttemptedAt, ObservedAt
<1>7. CASE Delete!_delete_exact_branch_ref_http(w)
  <2>1. MovesOn(w, "wait") /\ pc[w] = "send" /\ calls' = [calls EXCEPT ![job[w]] = @ + 1] /\ UNCHANGED gone
    BY <1>7, DeleteSteps DEF Delete!_delete_exact_branch_ref_http, Delete!At, Delete!Target, Delete!Calls
  <2>2. DeleteSent'
    BY <2>1 DEF DeleteSent, MovesOn, Delete!TypeOK
  <2>3. DeleteEvidence'
    BY <1>5, <2>1 DEF DeleteEvidence, MovesOn
  <2> QED BY <1>1, <1>6, <2>2, <2>3
<1>8. CASE Delete!prepare(w)
  <2>1. UNCHANGED calls /\ gone' = IF ref = None /\ fence[job[w]] = None THEN gone \cup {job[w]} ELSE gone
    BY <1>8 DEF Delete!prepare, Delete!Target, Delete!At
  <2>2. CASE Ends(w) /\ UNCHANGED fence
    <3>1. DeleteSent'
      BY <2>1, <2>2 DEF DeleteSent, Ends
    <3>2. DeleteEvidence'
      BY <1>5, <2>1, <2>2 DEF DeleteEvidence, Ends
    <3> QED BY <1>1, <1>6, <3>1, <3>2
  <2>3. CASE Inserts(w, "recheck", DeleteRivals)
    <3>1. DeleteSent'
      BY <2>1, <2>3 DEF DeleteSent, Inserts
    <3>2. DeleteEvidence'
      BY <1>5, <2>1, <2>3 DEF DeleteEvidence, Inserts
    <3> QED BY <1>1, <1>6, <3>1, <3>2
  <2> QED BY <1>8, <2>2, <2>3, DeleteSteps
<1>9. CASE UNCHANGED <<calls, gone>>
  <2>1. CASE \/ Ends(w) /\ UNCHANGED fence
             \/ \E k \in Keys : \/ BeginsWork(w, k, "admit") \/ BeginsWork(w, k, "prepare")
                                \/ BeginsWork(w, k, "late_observe") /\ fence[k] = UnknownRow
    <3>1. DeleteSent'
      BY <1>9, <2>1 DEF DeleteSent, Ends, BeginsWork
    <3>2. DeleteEvidence'
      BY <1>5, <1>9, <2>1 DEF DeleteEvidence, Ends, BeginsWork
    <3> QED BY <1>1, <1>6, <3>1, <3>2
  <2>2. CASE Marks(w, AttemptedRow, "sandbox") /\ pc[w] = "attempt"
    <3>1. DeleteSent'
      BY <1>9, <2>2 DEF DeleteSent, Marks, RowStep
    <3>2. DeleteEvidence'
      BY <1>5, <1>9, <2>2 DEF DeleteEvidence, Marks, RowStep
    <3> QED BY <1>1, <1>6, <3>1, <3>2
  <2>3. CASE Marks(w, ObservedRow, "reconcile") /\ pc[w] = "observed"
    <3>1. DeleteSent'
      BY <1>9, <2>3 DEF DeleteSent, Marks, RowStep
    <3>2. DeleteEvidence'
      BY <1>5, <1>9, <2>3 DEF DeleteEvidence, Marks, RowStep
    <3> QED BY <1>1, <1>6, <3>1, <3>2
  <2>4. ASSUME NEW r \in {ReconciledRow, UnknownRow, AbandonedRow}, Marks(w, r, "idle"),
               r = ReconciledRow => pc[w] = "reconcile"
        PROVE  DeleteInv'
    <3>1. /\ job[w] \in Keys /\ RowStep(fence[job[w]], r) /\ fence' = [fence EXCEPT ![job[w]] = r]
          /\ pc' = [pc EXCEPT ![w] = "idle"] /\ \A v \in Workers \ {w} : job'[v] = job[v]
      BY <2>4 DEF Marks, Ends
    <3>2. DeleteSent'
      BY <1>9, <2>4, <3>1 DEF DeleteSent, RowStep
    <3>3. DeleteEvidence'
      BY <1>5, <1>9, <2>4, <3>1 DEF DeleteEvidence, RowStep
    <3> QED BY <1>1, <1>6, <3>2, <3>3
  <2>5. CASE Resolves(w, job[w]) /\ pc[w] = "late_record"
    <3>1. DeleteSent'
      BY <1>9, <2>5 DEF DeleteSent, Resolves, Ends
    <3>2. DeleteEvidence'
      BY <1>5, <1>9, <2>5 DEF DeleteEvidence, Resolves, Ends
    <3> QED BY <1>1, <1>6, <3>1, <3>2
  <2>6. CASE \/ MovesOn(w, "authorize") /\ view # None
             \/ MovesOn(w, "attempt") /\ view # None
             \/ MovesOn(w, "current") /\ pc[w] = "sandbox"
             \/ MovesOn(w, "send") /\ pc[w] = "current"
             \/ MovesOn(w, "readback") \/ MovesOn(w, "observe")
             \/ MovesOn(w, "observed") /\ pc[w] = "observe" /\ view = None
             \/ MovesOn(w, "late_record") /\ pc[w] = "late_observe" /\ view = None
             \/ MovesOn(w, "failed")
    <3>1. DeleteSent'
      BY <1>9, <2>6 DEF DeleteSent, MovesOn
    <3>2. DeleteEvidence'
      BY <1>5, <1>9, <2>6 DEF DeleteEvidence, MovesOn
    <3> QED BY <1>1, <1>6, <3>1, <3>2
  <2> QED BY DeleteSteps, <2>1, <2>2, <2>3, <2>4, <2>5, <2>6, <1>7, <1>8
          DEF Delete!Step, Delete!mark_attempted, Delete!mark_observed, Delete!mark_reconciled, Delete!At,
              Delete!execute_delete, Delete!delete_exact_branch_ref, Delete!Observe, Delete!LateObserve,
              Delete!late_reconcile_unknown
<1> QED BY <1>7, <1>8, <1>9
    DEF Delete!Step, Delete!run_exact_request, Delete!late_reconcile_unknown_delete, Delete!Admit,
        Delete!Recheck, Delete!authorize_canonical_delete, Delete!mark_attempted, Delete!execute_delete,
        Delete!delete_exact_branch_ref, Delete!DeleteReply, Delete!DeleteFails, Delete!Readback,
        Delete!Observe, Delete!mark_observed, Delete!mark_reconciled, Delete!mark_unknown,
        Delete!LateObserve, Delete!late_reconcile_unknown, Delete!Crash, Delete!provider

LEMMA DeleteInit == ASSUME Delete!DeleteConstants, Delete!Init PROVE DeleteInv
<1>1. FenceSafe
  BY DEF Delete!Init, Delete!FenceInit, Delete!DeleteConstants, FenceSafe, FenceType, Rows, Custody,
     Anywhere, FreeAt, HeldAt, PreparedAt, AttemptedAt, ObservedAt
<1>2. Delete!TypeOK
  <2>1. master \in 1..MaxMaster /\ trust \in 1..MaxTrust /\ changes \in 0..MaxChanges
    BY DEF Delete!Init, Delete!DeleteConstants
  <2> QED BY <2>1 DEF Delete!Init, Delete!FenceInit, Delete!TypeOK, Delete!FenceType, Delete!Places
<1>3. DeleteSent /\ DeleteEvidence
  <2>1. None \notin Row /\ None \notin Heads
    BY DEF Delete!DeleteConstants, Row, Delete!Row, States, Delete!States
  <2> QED BY <2>1, RowFacts DEF Delete!Init, Delete!FenceInit, DeleteSent, DeleteEvidence, AttemptedRows
<1> QED BY <1>1, <1>2, <1>3 DEF DeleteInv

LEMMA DeleteAlways == ASSUME Delete!DeleteConstants PROVE Delete!Spec => []DeleteInv
<1>1. DeleteInv /\ UNCHANGED Delete!vars => DeleteInv'
  BY DEF Delete!vars, DeleteInv, FenceSafe, FenceType, Rows, Custody, Delete!TypeOK, Delete!FenceType,
     DeleteSent, DeleteEvidence
<1> QED BY <1>1, DeleteInit, DeleteKept, PTL DEF Delete!Spec

\* "no second DELETE is ever issued": one DELETE per effect and a recorded attempt under
\* it, for any number of workers, reruns, lost answers and late reconciliations.
THEOREM DeleteOnce == ASSUME Delete!DeleteConstants PROVE Delete!Spec => []OneDeletePerEffect
<1>1. ASSUME DeleteInv PROVE OneDeletePerEffect
  <2>1. None \notin Row
    BY DEF Delete!DeleteConstants, Row, Delete!Row, States, Delete!States
  <2> QED BY <1>1, <2>1, RowFacts DEF DeleteInv, DeleteSent, AttemptedRows, OneDeletePerEffect,
     Delete!TypeOK
<1> QED BY <1>1, DeleteAlways, PTL

\* mark_reconciled and late_reconcile_unknown tell the truth over a read model that lags:
\* since the prepare of a RECONCILED delete the branch has really been absent.
THEOREM DeleteSafety == ASSUME Delete!DeleteConstants PROVE Delete!Spec => []ReconciledWasAbsent
<1>1. DeleteInv => ReconciledWasAbsent
  BY RowFacts DEF DeleteInv, DeleteEvidence, ReconciledWasAbsent, FenceSafe, Rows, OpenRows
<1> QED BY <1>1, DeleteAlways, PTL

\* Delete fence, sandbox and backend keep the promise of EffectOnce, in which an attempt
\* of unknown outcome may be confirmed later.
THEOREM DeleteRefines == ASSUME Delete!DeleteConstants PROVE Delete!Spec => DeleteImplementsEffectOnce
<1>1. Delete!Init => DeleteEffects!OnceInit
  BY DEF Delete!Init, Delete!FenceInit, Phase, PhaseOf, DeleteEffects!OnceInit
<1>2. ASSUME DeleteInv, [Delete!Next]_(Delete!vars)
      PROVE  [DeleteEffects!OnceNext]_<<Phase, calls>>
  <2>1. None \notin Row /\ None \notin Keys /\ DeleteRivals \in [Keys -> SUBSET Keys]
    BY DEF Delete!DeleteConstants, Row, Delete!Row, States, Delete!States, DeleteRivals
  <2>2. CASE UNCHANGED Delete!vars
    BY <2>2 DEF Delete!vars, Phase
  <2>3. CASE \E w \in Workers : Delete!_delete_exact_branch_ref_http(w)
    <3>1. PICK w \in Workers : Delete!_delete_exact_branch_ref_http(w)
      BY <2>3
    <3>2. PICK k \in Keys : k = job[w] /\ fence[k] = AttemptedRow /\ calls[k] = 0
      BY <1>2, <3>1 DEF DeleteInv, FenceSafe, Custody, DeleteSent, Delete!_delete_exact_branch_ref_http,
         Delete!At, AttemptedAt
    <3>3. DeleteEffects!Call(k)
      BY <1>2, <2>1, <3>1, <3>2, PhaseFacts DEF DeleteEffects!Call,
         Delete!_delete_exact_branch_ref_http, Delete!Target, Delete!Calls, Phase, DeleteInv, Delete!TypeOK
    <3> QED BY <3>2, <3>3 DEF DeleteEffects!OnceNext
  <2>4. CASE Delete!Next /\ ~\E w \in Workers : Delete!_delete_exact_branch_ref_http(w)
    <3>1. UNCHANGED calls
      BY <2>4 DEF Delete!Next, Delete!Environment, Delete!MasterMoves, Delete!TrustChanges,
         Delete!OwnershipChanges, Delete!Converge, Delete!OtherWrites, Delete!ProviderDelete,
         Delete!ProviderRefuse, Delete!provider, Delete!Step, Delete!run_exact_request,
         Delete!late_reconcile_unknown_delete, Delete!Admit, Delete!prepare, Delete!Recheck,
         Delete!authorize_canonical_delete, Delete!mark_attempted, Delete!execute_delete,
         Delete!delete_exact_branch_ref, Delete!DeleteReply, Delete!DeleteFails, Delete!Readback,
         Delete!Observe, Delete!mark_observed, Delete!mark_reconciled, Delete!mark_unknown,
         Delete!LateObserve, Delete!late_reconcile_unknown, Delete!Crash
    <3>2. PhaseStep(TRUE, DeleteRivals)
      BY <1>2, <2>1, <2>4, DeleteFence, PhasesKept DEF DeleteInv
    <3>3. ASSUME NEW k \in Keys, Becomes(k, "none", "prepared"), \A j \in DeleteRivals[k] : Phase[j] = "none"
          PROVE  DeleteEffects!Prepare(k)
      BY <3>1, <3>3 DEF Becomes, DeleteRivals, SameKey, DeleteEffects!Prepare,
         DeleteEffects!Become
    <3>4. ASSUME NEW k \in Keys
          PROVE  /\ Becomes(k, "prepared", "attempted") => DeleteEffects!Attempt(k)
                 /\ Becomes(k, "prepared", "abandoned") => DeleteEffects!Abandon(k)
                 /\ Becomes(k, "attempted", "confirmed") => DeleteEffects!Confirm(k)
                 /\ Becomes(k, "attempted", "unknown") => DeleteEffects!GiveUp(k)
                 /\ Becomes(k, "unknown", "confirmed") => DeleteEffects!Resolve(k)
      BY <3>1 DEF Becomes, DeleteEffects!Become, DeleteEffects!Attempt,
         DeleteEffects!Abandon, DeleteEffects!Confirm, DeleteEffects!GiveUp, DeleteEffects!Resolve
    <3> QED BY <3>1, <3>2, <3>3, <3>4 DEF PhaseStep, DeleteEffects!OnceNext
  <2> QED BY <1>2, <2>2, <2>3, <2>4
<1> QED BY <1>1, <1>2, DeleteAlways, PTL DEF Delete!Spec, DeleteImplementsEffectOnce,
   DeleteEffects!OnceSpec

\* A branch is sent one DELETE per effect, and neither a verdict nor late
\* reconciliation takes the record of the attempt away.
THEOREM DeleteOneCall ==
  ASSUME Delete!DeleteConstants
  PROVE  Delete!Spec => [](DeleteEffects!OneCallPerBinding /\ DeleteEffects!CallsAreOnRecord)
<1>0. DeleteRivals \in [Keys -> SUBSET Keys] /\ \A j, k \in Keys : j \in DeleteRivals[k] => k \in DeleteRivals[j]
  BY DEF DeleteRivals, SameKey
<1>1. DeleteEffects!OnceInit => OnceInv(DeleteRivals)
  BY <1>0 DEF DeleteEffects!OnceInit, OnceInv
<1>2. OnceInv(DeleteRivals) /\ [DeleteEffects!OnceNext]_<<Phase, calls>> => OnceInv(DeleteRivals)'
  <2>1. SUFFICES ASSUME OnceInv(DeleteRivals), DeleteEffects!OnceNext PROVE OnceInv(DeleteRivals)'
    BY DEF OnceInv
  <2>2. ASSUME NEW k \in Keys, DeleteEffects!Prepare(k) PROVE OnceStep(DeleteRivals)
    BY <2>2 DEF DeleteEffects!Prepare, DeleteEffects!Become, OnceStep, PhaseStep, Becomes, DeleteRivals
  <2>3. ASSUME NEW k \in Keys,
               \/ DeleteEffects!Attempt(k) \/ DeleteEffects!Abandon(k) \/ DeleteEffects!Confirm(k)
               \/ DeleteEffects!GiveUp(k) \/ DeleteEffects!Resolve(k)
        PROVE  OnceStep(DeleteRivals)
    BY <2>3 DEF DeleteEffects!Attempt, DeleteEffects!Abandon, DeleteEffects!Confirm, DeleteEffects!GiveUp,
       DeleteEffects!Resolve, DeleteEffects!Become, OnceStep, PhaseStep, Becomes
  <2>4. ASSUME NEW k \in Keys, DeleteEffects!Call(k) PROVE OnceStep(DeleteRivals)
    BY <2>4 DEF DeleteEffects!Call, OnceStep
  <2> QED BY <1>0, <2>1, <2>2, <2>3, <2>4, OnceKept DEF DeleteEffects!OnceNext
<1>3. OnceInv(DeleteRivals) => DeleteEffects!OneCallPerBinding /\ DeleteEffects!CallsAreOnRecord
  BY DEF OnceInv, Reached, DeleteRivals, DeleteEffects!OneCallPerBinding, DeleteEffects!CallsAreOnRecord
<1> QED BY <1>1, <1>2, <1>3, DeleteRefines, PTL DEF DeleteImplementsEffectOnce, DeleteEffects!OnceSpec
-------------------------------------------------------------------------------
(* Dispatch of a workflow.                                                 *)

Dispatch == INSTANCE WorkflowDispatch

DispatchRivals == [k \in Keys |-> {j \in Keys : SameComment(j, k)}]

DispatchSent ==
    /\ \A k \in Keys : calls[k] # 0 => calls[k] = 1 /\ fence[k] \in AttemptedRows
    /\ \A k \in Keys : post[k] # "none" => calls[k] # 0
    /\ \A w \in Workers : pc[w] = "post" => calls[job[w]] = 0

\* The run an effect recorded, when one of its own was listed.
RunRecorded(k) == \A r \in OwnRun(k, listed[k]) : run[k] = r

DispatchRuns ==
    /\ \A k \in Keys : attempted_at[k] <= clock /\ listed[k] <= Len(runs)
    /\ \A k \in Keys : \A r \in 1..Len(runs) : runs[r].by = k =>
          post[k] # "none" /\ runs[r].created >= Dispatch!Seconds(attempted_at[k])
    /\ \A k \in Keys : fence[k] \in {ObservedRow, ReconciledRow} => RunRecorded(k)
    /\ \A w \in Workers : pc[w] = "observed" => RunRecorded(job[w])

DispatchInv == FenceSafe /\ Dispatch!TypeOK /\ DispatchSent /\ DispatchRuns

LEMMA SecondsMonotone ==
  ASSUME NEW s \in Nat, NEW t \in Nat, s <= t
  PROVE  Dispatch!Seconds(s) <= Dispatch!Seconds(t) /\ Dispatch!Seconds(t) \in Nat
  BY DEF Dispatch!Seconds, Dispatch!TicksPerSecond

\* A run that is alone among those of a list is the one chosen.
LEMMA OnlyCandidate ==
  ASSUME Dispatch!TypeOK, NEW S \in SUBSET (1..Len(runs)), Dispatch!Cardinality(S) = 1
  PROVE  (CHOOSE c \in S : TRUE) \in S /\ \A r \in S : r = CHOOSE c \in S : TRUE
<1>1. Dispatch!Cardinality(S) = Cardinality(S)
  BY DEF Dispatch!Cardinality, Cardinality
<1>2. IsFiniteSet(S)
  <2>1. Len(runs) \in Nat
    BY DEF Dispatch!TypeOK
  <2>2. IsFiniteSet(1..Len(runs))
    BY <2>1, FS_Interval
  <2> QED BY <2>2, FS_Subset
<1>3. \E c : S = {c}
  BY <1>1, <1>2, FS_Singleton
<1> QED BY <1>3

\* What each step of bridge and mediator is to the fence.
LEMMA DispatchSteps ==
  ASSUME Dispatch!DispatchConstants, DispatchInv, NEW w \in Workers
  PROVE  /\ \A c \in Comments : Dispatch!execute(w, c) =>
               \E k \in Keys : BeginsWork(w, k, "ledger")
         /\ Dispatch!_ledger_match(w) => MovesOn(w, "claim") \/ (Ends(w) /\ UNCHANGED fence)
         /\ Dispatch!Claim(w) => MovesOn(w, "moved")
         /\ Dispatch!HeadMovedBeforeDispatch(w) => MovesOn(w, "stamp") \/ (Ends(w) /\ UNCHANGED fence)
         /\ Dispatch!Stamp(w) => MovesOn(w, "resolve")
         /\ Dispatch!PatchFailed(w) => Ends(w) /\ UNCHANGED fence
         /\ Dispatch!PatchReceipt(w) => Ends(w) /\ UNCHANGED fence
         /\ Dispatch!Resolve(w) => \/ \E k \in Keys : BeginsWork(w, k, "prepare") /\ k.comment = job[w].comment
                                   \/ MovesOn(w, "patch_failed")
         /\ Dispatch!prepare(w) => MovesOn(w, "patch_failed") \/ Inserts(w, "recheck", DispatchRivals)
         /\ Dispatch!Recheck(w) => MovesOn(w, "attempt") \/ MovesOn(w, "failed")
         /\ Dispatch!mark_attempted(w) => Marks(w, AttemptedRow, "post")
         /\ Dispatch!execute_exact(w) => MovesOn(w, "wait")
         /\ Dispatch!PostReply(w) => MovesOn(w, "observe")
         /\ Dispatch!PostFails(w) => MovesOn(w, "failed")
         /\ Dispatch!Observe(w) => MovesOn(w, "observed") \/ MovesOn(w, "failed")
         /\ Dispatch!mark_observed(w) => Marks(w, ObservedRow, "reconcile")
         /\ Dispatch!mark_reconciled(w) => Marks(w, ReconciledRow, "receipt")
         /\ Dispatch!mark_unknown(w) => \E r \in {UnknownRow, AbandonedRow} : Marks(w, r, "patch_failed")
         /\ Dispatch!Crash(w) => Ends(w) /\ UNCHANGED fence
<1> USE RowFacts, RowsDiffer DEF Dispatch!At, Dispatch!Goto
<1>1. ASSUME NEW c \in Comments, Dispatch!execute(w, c) PROVE \E k \in Keys : BeginsWork(w, k, "ledger")
  <2>1. [comment |-> c, trust |-> trust] \in Keys
    BY DEF Dispatch!DispatchConstants, DispatchInv, Dispatch!TypeOK
  <2> QED BY <1>1, <2>1 DEF Dispatch!execute, BeginsWork, HeldAt, PreparedAt, AttemptedAt, ObservedAt
<1>2. ASSUME Dispatch!Resolve(w)
      PROVE  \/ \E k \in Keys : BeginsWork(w, k, "prepare") /\ k.comment = job[w].comment
             \/ MovesOn(w, "patch_failed")
  <2>0. /\ job[w] \in Keys /\ trust \in 1..MaxTrust
        /\ Keys = [comment : Comments, trust : 1..MaxTrust]
    BY <1>2 DEF Dispatch!Resolve, Dispatch!DispatchConstants, DispatchInv, Dispatch!TypeOK, FenceSafe,
       Custody
  <2>1. [job[w] EXCEPT !.trust = trust] \in Keys /\ [job[w] EXCEPT !.trust = trust].comment = job[w].comment
    BY ONLY <2>0
  <2> QED BY <1>2, <2>1 DEF Dispatch!Resolve, BeginsWork, MovesOn, HeldAt, PreparedAt, AttemptedAt,
     ObservedAt
<1>3. ASSUME Dispatch!prepare(w) PROVE MovesOn(w, "patch_failed") \/ Inserts(w, "recheck", DispatchRivals)
  <2> DEFINE TakenId == \E k \in Keys : SameComment(k, job[w]) /\ fence[k] # None
  <2>1. CASE TakenId
    BY <1>3, <2>1 DEF SameComment, Dispatch!SameComment, Dispatch!prepare, Dispatch!Prepare, Dispatch!Leave, MovesOn,
       HeldAt, PreparedAt, AttemptedAt, ObservedAt
  <2>2. CASE ~TakenId
    <3>1. job[w] \in Keys
      BY <1>3 DEF Dispatch!prepare, DispatchInv, FenceSafe, Custody
    <3>2. fence[job[w]] = None /\ \A j \in DispatchRivals[job[w]] : fence[j] = None
      BY <2>2, <3>1 DEF DispatchRivals, SameComment
    <3>3. /\ fence' = [fence EXCEPT ![job[w]] = PreparedRow]
          /\ pc' = [pc EXCEPT ![w] = "recheck"] /\ UNCHANGED job
      BY <1>3, <2>2 DEF Dispatch!prepare, Dispatch!Prepare, PreparedRow, SameComment, Dispatch!SameComment
    <3> QED BY <3>1, <3>2, <3>3 DEF Inserts, PreparedAt
  <2> QED BY <2>1, <2>2
<1>4. /\ Dispatch!_ledger_match(w) => MovesOn(w, "claim") \/ (Ends(w) /\ UNCHANGED fence)
      /\ Dispatch!Claim(w) => MovesOn(w, "moved")
      /\ Dispatch!HeadMovedBeforeDispatch(w) => MovesOn(w, "stamp") \/ (Ends(w) /\ UNCHANGED fence)
      /\ Dispatch!Stamp(w) => MovesOn(w, "resolve")
      /\ Dispatch!PatchFailed(w) => Ends(w) /\ UNCHANGED fence
      /\ Dispatch!PatchReceipt(w) => Ends(w) /\ UNCHANGED fence
      /\ Dispatch!Crash(w) => Ends(w) /\ UNCHANGED fence
  BY DEF Dispatch!_ledger_match, Dispatch!Claim, Dispatch!HeadMovedBeforeDispatch, Dispatch!Stamp,
     Dispatch!PatchFailed, Dispatch!PatchReceipt, Dispatch!Crash, Dispatch!Leave, Dispatch!Finish,
     MovesOn, Ends, HeldAt, PreparedAt, AttemptedAt, ObservedAt
<1>5. /\ Dispatch!Recheck(w) => MovesOn(w, "attempt") \/ MovesOn(w, "failed")
      /\ Dispatch!execute_exact(w) => MovesOn(w, "wait")
      /\ Dispatch!PostReply(w) => MovesOn(w, "observe")
      /\ Dispatch!PostFails(w) => MovesOn(w, "failed")
      /\ Dispatch!Observe(w) => MovesOn(w, "observed") \/ MovesOn(w, "failed")
  BY DEF Dispatch!Recheck, Dispatch!execute_exact, Dispatch!PostReply, Dispatch!PostFails, Dispatch!Observe,
     Dispatch!GoOrRaise, Dispatch!Raise, MovesOn, DispatchInv, FenceSafe, Custody,
     HeldAt, PreparedAt, AttemptedAt, ObservedAt, OpenRows
<1>6. Dispatch!mark_attempted(w) => Marks(w, AttemptedRow, "post")
  BY AttemptMarks DEF Dispatch!mark_attempted, Dispatch!MarkAttempted, MarkAttempted, Dispatch!Raise, Raise,
     Goto, DispatchInv, PreparedAt, AttemptedAt
<1>7. Dispatch!mark_observed(w) => Marks(w, ObservedRow, "reconcile")
  BY ObserveMarks DEF Dispatch!mark_observed, Dispatch!MarkObserved, MarkObserved, Dispatch!Mark, Mark,
     Dispatch!Raise, Raise, Goto, DispatchInv, AttemptedAt, ObservedAt
<1>8. Dispatch!mark_reconciled(w) => Marks(w, ReconciledRow, "receipt")
  BY ReconcileMarks DEF Dispatch!mark_reconciled, Dispatch!MarkReconciled, MarkReconciled, Dispatch!Leave,
     Leave, Dispatch!Finish, Finish, Dispatch!Raise, Raise, Goto, DispatchInv, ObservedAt, FreeAt
<1>9. Dispatch!mark_unknown(w) => \E r \in {UnknownRow, AbandonedRow} : Marks(w, r, "patch_failed")
  BY UnknownMarks DEF Dispatch!mark_unknown, Dispatch!MarkUnknown, MarkUnknown, Dispatch!Leave, Leave,
     Dispatch!Finish, Finish, Dispatch!Undecided, Undecided, Goto, DispatchInv, FreeAt
<1> QED BY <1>1, <1>2, <1>3, <1>4, <1>5, <1>6, <1>7, <1>8, <1>9

LEMMA DispatchFence ==
  ASSUME Dispatch!DispatchConstants, DispatchInv, Dispatch!Next
  PROVE  FenceStep(FALSE, DispatchRivals)
<1>1. CASE Dispatch!Environment \/ \E q \in RequestIds : Dispatch!observe(q)
  BY <1>1 DEF Dispatch!Environment, Dispatch!Tick, Dispatch!HeadMoves, Dispatch!TrustChanges,
     Dispatch!OtherDispatch, Dispatch!Accept, Dispatch!Refuse, Dispatch!StartRun, Dispatch!observe,
     FenceStep
<1>2. ASSUME NEW w \in Workers,
             \/ \E c \in Comments : Dispatch!execute(w, c)
             \/ Dispatch!Step(w) \/ Dispatch!Crash(w)
      PROVE  FenceStep(FALSE, DispatchRivals)
  BY <1>2, DispatchSteps, RowFacts DEF Dispatch!Step, FenceStep, Anywhere, FreeAt, HeldAt, PreparedAt,
     AttemptedAt, ObservedAt
<1> QED BY <1>1, <1>2 DEF Dispatch!Next

\* Who changes what: the POSTs, the runs and the stamps of an effect.
LEMMA DispatchData ==
  ASSUME Dispatch!DispatchConstants, DispatchInv, Dispatch!Next
  PROVE  /\ clock' \in 0..MaxClock /\ clock <= clock'
         /\ \/ UNCHANGED runs
            \/ \E by \in Keys \cup {None} :
                  /\ Dispatch!NewRun(by) /\ UNCHANGED <<clock, attempted_at>>
                  /\ by = None \/ post[by] = "accepted"
         /\ \/ UNCHANGED <<post, calls>>
            \/ \E w \in Workers : Dispatch!execute_exact(w)
            \/ \E k \in Keys, p \in {"accepted", "refused", "run"} :
                  /\ post[k] # "none" /\ post' = [post EXCEPT ![k] = p]
                  /\ UNCHANGED <<calls, fence, pc, job>>
         /\ \/ UNCHANGED attempted_at
            \/ \E w \in Workers : /\ pc[w] = "attempt" /\ attempted_at' = [attempted_at EXCEPT ![job[w]] = clock]
                                  /\ UNCHANGED <<clock, runs>>
         /\ UNCHANGED <<run, listed>> \/ \E w \in Workers : Dispatch!Observe(w) /\ pc'[w] = "observed"
<1> USE DEF Dispatch!Next, Dispatch!Environment, Dispatch!Tick, Dispatch!HeadMoves, Dispatch!TrustChanges,
    Dispatch!OtherDispatch, Dispatch!Accept, Dispatch!Refuse, Dispatch!StartRun, Dispatch!observe,
    Dispatch!Step, Dispatch!execute, Dispatch!_ledger_match, Dispatch!Claim,
    Dispatch!HeadMovedBeforeDispatch, Dispatch!Stamp, Dispatch!PatchFailed, Dispatch!PatchReceipt,
    Dispatch!Resolve, Dispatch!prepare, Dispatch!Recheck, Dispatch!mark_attempted, Dispatch!execute_exact,
    Dispatch!PostReply, Dispatch!PostFails, Dispatch!Observe, Dispatch!mark_observed,
    Dispatch!mark_reconciled, Dispatch!mark_unknown, Dispatch!Crash, Dispatch!github, Dispatch!bridge,
    Dispatch!effect, Dispatch!Stay
<1>1. clock' \in 0..MaxClock /\ clock <= clock'
  <2>1. UNCHANGED clock \/ (clock < MaxClock /\ clock' = clock + 1)
    OBVIOUS
  <2>2. clock \in 0..MaxClock /\ MaxClock \in Nat
    BY DEF DispatchInv, Dispatch!TypeOK, Dispatch!DispatchConstants
  <2> QED BY ONLY <2>1, <2>2
<1>2. \/ UNCHANGED runs
      \/ \E by \in Keys \cup {None} :
            /\ Dispatch!NewRun(by) /\ UNCHANGED <<clock, attempted_at>>
            /\ by = None \/ post[by] = "accepted"
  OBVIOUS
<1>3. \/ UNCHANGED <<post, calls>>
      \/ \E w \in Workers : Dispatch!execute_exact(w)
      \/ \E k \in Keys, p \in {"accepted", "refused", "run"} :
            /\ post[k] # "none" /\ post' = [post EXCEPT ![k] = p]
            /\ UNCHANGED <<calls, fence, pc, job>>
  OBVIOUS
<1>4. \/ UNCHANGED attempted_at
      \/ \E w \in Workers : /\ pc[w] = "attempt" /\ attempted_at' = [attempted_at EXCEPT ![job[w]] = clock]
                            /\ UNCHANGED <<clock, runs>>
  BY DEF Dispatch!At
<1>5. UNCHANGED <<run, listed>> \/ \E w \in Workers : Dispatch!Observe(w) /\ pc'[w] = "observed"
  BY DEF Dispatch!Goto, DispatchInv, Dispatch!TypeOK
<1> QED BY <1>1, <1>2, <1>3, <1>4, <1>5

LEMMA DispatchKept ==
  ASSUME Dispatch!DispatchConstants, DispatchInv, Dispatch!Next
  PROVE  DispatchInv'
<1>0. None \notin Row /\ None \notin Keys
  BY DEF Dispatch!DispatchConstants, Row, Dispatch!Row, States, Dispatch!States
<1>1. FenceSafe'
  BY <1>0, DispatchFence, FenceKept DEF DispatchInv
<1>2. Dispatch!FenceType'
  BY <1>1 DEF FenceSafe, FenceType, Dispatch!FenceType, Row, Dispatch!Row, States, Dispatch!States
<1>3. Dispatch!TypeOK'
  <2>1. pc' \in [Workers -> Dispatch!Places]
    <3>1. ASSUME NEW w \in Workers,
                 \/ \E c \in Comments : Dispatch!execute(w, c)
                 \/ Dispatch!Step(w) \/ Dispatch!Crash(w)
          PROVE  pc' \in [Workers -> Dispatch!Places]
      BY <3>1, DispatchSteps DEF DispatchInv, Dispatch!TypeOK, Dispatch!Step, BeginsWork, Inserts, MovesOn,
         Marks, Ends, Dispatch!Places
    <3> QED BY <3>1 DEF DispatchInv, Dispatch!TypeOK, Dispatch!Next, Dispatch!Environment, Dispatch!Tick,
        Dispatch!HeadMoves, Dispatch!TrustChanges, Dispatch!OtherDispatch, Dispatch!Accept, Dispatch!Refuse,
        Dispatch!StartRun, Dispatch!observe
  <2>2. runs' \in Seq(Dispatch!Run) /\ Len(runs') <= MaxRuns
    <3>1. ASSUME NEW by \in Keys \cup {None}, Dispatch!NewRun(by)
          PROVE  runs' \in Seq(Dispatch!Run) /\ Len(runs') <= MaxRuns
      <4>1. /\ runs \in Seq(Dispatch!Run) /\ head \in 1..MaxHead /\ clock \in Nat
            /\ Len(runs) < MaxRuns /\ MaxRuns \in Nat
        BY <3>1 DEF Dispatch!NewRun, DispatchInv, Dispatch!TypeOK, Dispatch!DispatchConstants
      <4>2. [by |-> by, head |-> head, created |-> Dispatch!Seconds(clock)] \in Dispatch!Run
        BY <4>1, SecondsMonotone DEF Dispatch!Run
      <4> QED BY <3>1, <4>1, <4>2 DEF Dispatch!NewRun
    <3> QED BY <3>1, DispatchData DEF DispatchInv, Dispatch!TypeOK
  <2>3. /\ post' \in [Keys -> {"none", "sent", "accepted", "refused", "run"}]
        /\ calls' \in [Keys -> Nat]
    <3>1. ASSUME NEW w \in Workers, Dispatch!execute_exact(w)
          PROVE  /\ post' \in [Keys -> {"none", "sent", "accepted", "refused", "run"}]
                 /\ calls' \in [Keys -> Nat]
      <4>1. \/ UNCHANGED <<post, calls>>
            \/ /\ post' = [post EXCEPT ![job[w]] = "sent"]
               /\ calls' = [calls EXCEPT ![job[w]] = calls[job[w]] + 1]
        BY <3>1 DEF Dispatch!execute_exact, Dispatch!Calls
      <4>2. post \in [Keys -> {"none", "sent", "accepted", "refused", "run"}] /\ calls \in [Keys -> Nat]
        BY DEF DispatchInv, Dispatch!TypeOK
      <4> QED BY ONLY <4>1, <4>2
    <3> QED BY <3>1, DispatchData DEF DispatchInv, Dispatch!TypeOK
  <2>4. attempted_at' \in [Keys -> Nat]
    <3>1. clock \in Nat
      BY DEF DispatchInv, Dispatch!TypeOK, Dispatch!DispatchConstants
    <3> QED BY <3>1, DispatchData DEF DispatchInv, Dispatch!TypeOK
  <2>5. run' \in [Keys -> 0..MaxRuns] /\ listed' \in [Keys -> 0..MaxRuns]
    <3>1. ASSUME NEW w \in Workers, Dispatch!Observe(w), pc'[w] = "observed"
          PROVE  run' \in [Keys -> 0..MaxRuns] /\ listed' \in [Keys -> 0..MaxRuns]
      <4>1. /\ runs \in Seq(Dispatch!Run) /\ Len(runs) <= MaxRuns /\ MaxRuns \in Nat
            /\ run \in [Keys -> 0..MaxRuns] /\ listed \in [Keys -> 0..MaxRuns]
        BY DEF DispatchInv, Dispatch!TypeOK, Dispatch!DispatchConstants
      <4>2. Dispatch!Candidates(job[w]) \in SUBSET (1..Len(runs)) /\ Dispatch!TypeOK
        BY DEF Dispatch!Candidates, DispatchInv
      <4>3. /\ Dispatch!Cardinality(Dispatch!Candidates(job[w])) = 1
            /\ run' = [run EXCEPT ![job[w]] = CHOOSE c \in Dispatch!Candidates(job[w]) : TRUE]
            /\ listed' = [listed EXCEPT ![job[w]] = Len(runs)]
        BY <3>1 DEF Dispatch!Observe, Dispatch!Raise, Dispatch!Goto, DispatchInv, FenceSafe
      <4>4. (CHOOSE c \in Dispatch!Candidates(job[w]) : TRUE) \in 1..Len(runs)
        BY <4>2, <4>3, OnlyCandidate
      <4>5. (CHOOSE c \in Dispatch!Candidates(job[w]) : TRUE) \in 0..MaxRuns /\ Len(runs) \in 0..MaxRuns
        BY ONLY <4>1, <4>4
      <4> QED BY ONLY <4>1, <4>3, <4>5
    <3> QED BY <3>1, DispatchData DEF DispatchInv, Dispatch!TypeOK
  <2> USE DEF Dispatch!Next, Dispatch!Environment, Dispatch!Tick, Dispatch!HeadMoves, Dispatch!TrustChanges,
      Dispatch!OtherDispatch, Dispatch!Accept, Dispatch!Refuse, Dispatch!StartRun, Dispatch!observe,
      Dispatch!Step, Dispatch!execute, Dispatch!_ledger_match, Dispatch!Claim,
      Dispatch!HeadMovedBeforeDispatch, Dispatch!Stamp, Dispatch!PatchFailed, Dispatch!PatchReceipt,
      Dispatch!Resolve, Dispatch!prepare, Dispatch!Recheck, Dispatch!mark_attempted, Dispatch!execute_exact,
      Dispatch!PostReply, Dispatch!PostFails, Dispatch!Observe, Dispatch!mark_observed,
      Dispatch!mark_reconciled, Dispatch!mark_unknown, Dispatch!Crash, Dispatch!github, Dispatch!bridge,
      Dispatch!effect, Dispatch!Stay
  <2>6. head' \in 1..MaxHead /\ trust' \in 1..MaxTrust
    <3>1. /\ UNCHANGED head \/ (head < MaxHead /\ head' = head + 1)
          /\ UNCHANGED trust \/ (trust < MaxTrust /\ trust' = trust + 1)
      OBVIOUS
    <3>2. head \in 1..MaxHead /\ trust \in 1..MaxTrust /\ MaxHead \in Nat /\ MaxTrust \in Nat
      BY DEF DispatchInv, Dispatch!TypeOK, Dispatch!DispatchConstants
    <3> QED BY ONLY <3>1, <3>2
  <2>7. ledger' \in [RequestIds -> Dispatch!Claims]
    BY DEF DispatchInv, Dispatch!TypeOK, Dispatch!Claims
  <2>8. accepted' \in [Comments -> Nat]
    <3>1. UNCHANGED accepted \/ \E w \in Workers : accepted' = [accepted EXCEPT ![Dispatch!Comment(w)] = clock]
      OBVIOUS
    <3>2. accepted \in [Comments -> Nat] /\ clock \in Nat
      BY DEF DispatchInv, Dispatch!TypeOK, Dispatch!DispatchConstants
    <3> QED BY ONLY <3>1, <3>2
  <2>9. observation' \in [RequestIds -> 0..MaxRuns]
    <3>1. \/ UNCHANGED observation
          \/ \E q \in RequestIds, c \in Comments :
                /\ Dispatch!Cardinality(Dispatch!Matching(c)) = 1
                /\ observation' = [observation EXCEPT ![q] = CHOOSE r \in Dispatch!Matching(c) : TRUE]
      BY DEF Dispatch!Executed
    <3>2. ASSUME NEW c \in Comments, Dispatch!Cardinality(Dispatch!Matching(c)) = 1
          PROVE  (CHOOSE r \in Dispatch!Matching(c) : TRUE) \in 0..MaxRuns
      <4>1. /\ runs \in Seq(Dispatch!Run) /\ Len(runs) <= MaxRuns /\ MaxRuns \in Nat
            /\ Dispatch!TypeOK /\ Dispatch!Matching(c) \in SUBSET (1..Len(runs))
        BY DEF DispatchInv, Dispatch!TypeOK, Dispatch!DispatchConstants, Dispatch!Matching
      <4>2. (CHOOSE r \in Dispatch!Matching(c) : TRUE) \in 1..Len(runs)
        BY ONLY <3>2, <4>1, OnlyCandidate
      <4> QED BY ONLY <4>1, <4>2
    <3> QED BY ONLY <3>1, <3>2, DispatchInv DEF DispatchInv, Dispatch!TypeOK
  <2>10. lost' \subseteq Comments
    <3>1. UNCHANGED lost \/ \E w \in Workers : pc[w] # "idle" /\ lost' = lost \cup {job[w].comment}
      BY DEF Dispatch!At, Dispatch!Comment
    <3>2. \A w \in Workers : pc[w] # "idle" => job[w].comment \in Comments
      BY DEF DispatchInv, FenceSafe, Custody, Dispatch!DispatchConstants
    <3>3. lost \subseteq Comments
      BY DEF DispatchInv, Dispatch!TypeOK
    <3> QED BY ONLY <3>1, <3>2, <3>3
  <2> QED BY <1>2, <2>1, <2>2, <2>3, <2>4, <2>5, <2>6, <2>7, <2>8, <2>9, <2>10,
     DispatchData DEF Dispatch!TypeOK
<1> USE <1>0, RowFacts, RowsDiffer DEF DispatchInv, FenceSafe, FenceType, Custody, Rows, OpenRows,
   AttemptedRows,
    HeldAt, PreparedAt, AttemptedAt, ObservedAt
<1>4. DispatchSent'
  <2> USE DEF DispatchSent
  <2>1. ASSUME NEW w \in Workers, Dispatch!execute_exact(w) PROVE DispatchSent'
    <3>1. MovesOn(w, "wait") /\ pc[w] = "post" /\ fence[job[w]] = AttemptedRow /\ job[w] \in Keys
      BY <2>1, DispatchSteps DEF Dispatch!execute_exact, Dispatch!At
    <3>2. /\ post' = [post EXCEPT ![job[w]] = "sent"]
          /\ calls' = [calls EXCEPT ![job[w]] = calls[job[w]] + 1]
      BY <2>1, <3>1 DEF Dispatch!execute_exact, Dispatch!Calls
    <3> QED BY <3>1, <3>2 DEF MovesOn, Dispatch!TypeOK
  <2>2. ASSUME NEW k \in Keys, NEW p, post[k] # "none", post' = [post EXCEPT ![k] = p],
               UNCHANGED <<calls, fence, pc, job>>
        PROVE  DispatchSent'
    BY <2>2 DEF Dispatch!TypeOK
  <2>3. CASE UNCHANGED <<post, calls>>
    <3>1. CASE UNCHANGED <<fence, pc, job>>
      BY <2>3, <3>1
    <3>2. ASSUME NEW w \in Workers,
                 \/ \E c \in Comments : Dispatch!execute(w, c)
                 \/ Dispatch!Step(w) \/ Dispatch!Crash(w)
          PROVE  DispatchSent'
      <4>1. CASE \/ Ends(w) /\ UNCHANGED fence
                 \/ \E k \in Keys : BeginsWork(w, k, "ledger") \/ BeginsWork(w, k, "prepare")
        BY <2>3, <4>1 DEF Ends, BeginsWork
      <4>2. CASE Inserts(w, "recheck", DispatchRivals)
        BY <2>3, <4>2 DEF Inserts
      <4>3. CASE Marks(w, AttemptedRow, "post") /\ pc[w] = "attempt"
        BY <2>3, <4>3 DEF Marks, RowStep
      <4>4. CASE Marks(w, ObservedRow, "reconcile")
        BY <2>3, <4>4 DEF Marks, RowStep
      <4>5. ASSUME NEW r \in {ReconciledRow, UnknownRow, AbandonedRow}, NEW place \in {"receipt", "patch_failed"},
                   Marks(w, r, place)
            PROVE  DispatchSent'
        <5>1. /\ job[w] \in Keys /\ RowStep(fence[job[w]], r) /\ fence' = [fence EXCEPT ![job[w]] = r]
              /\ pc' = [pc EXCEPT ![w] = place] /\ UNCHANGED job
          BY <4>5 DEF Marks
        <5> QED BY <2>3, <5>1 DEF RowStep
      <4>6. ASSUME NEW place \in Anywhere \ {"post"}, MovesOn(w, place) PROVE DispatchSent'
        BY <2>3, <4>6 DEF MovesOn
      <4> HIDE DEF DispatchSent
      <4> QED BY <3>2, <4>1, <4>2, <4>3, <4>4, <4>5, <4>6, DispatchSteps
          DEF Dispatch!Step, Dispatch!mark_attempted, Dispatch!At, Anywhere, FreeAt
    <3> QED BY <3>1, <3>2 DEF Dispatch!Next, Dispatch!Environment, Dispatch!Tick, Dispatch!HeadMoves,
        Dispatch!TrustChanges, Dispatch!OtherDispatch, Dispatch!Accept, Dispatch!Refuse, Dispatch!StartRun,
        Dispatch!observe
  <2> QED BY <2>1, <2>2, <2>3, DispatchData
<1>5. DispatchRuns'
  <2>0. /\ runs \in Seq(Dispatch!Run) /\ clock \in Nat /\ attempted_at \in [Keys -> Nat]
        /\ listed \in [Keys -> 0..MaxRuns] /\ run \in [Keys -> 0..MaxRuns] /\ MaxRuns \in Nat
        /\ Dispatch!TypeOK
    BY DEF Dispatch!TypeOK, Dispatch!DispatchConstants
  <2> DEFINE Grown ==
        /\ Len(runs) \in Nat /\ Len(runs') \in Nat /\ Len(runs) <= Len(runs')
        /\ \A r \in 1..Len(runs) : runs'[r] = runs[r]
        /\ \A r \in (1..Len(runs')) \ (1..Len(runs)) :
              /\ runs'[r].by = None \/ post[runs'[r].by] = "accepted"
              /\ runs'[r].created = Dispatch!Seconds(clock) /\ UNCHANGED attempted_at
  <2>1. Grown
    <3>1. ASSUME NEW by \in Keys \cup {None}, Dispatch!NewRun(by), by = None \/ post[by] = "accepted",
                 UNCHANGED attempted_at
          PROVE  Grown
      BY ONLY <2>0, <3>1 DEF Dispatch!NewRun
    <3>2. CASE UNCHANGED runs
      BY <2>0, <3>2
    <3> QED BY <3>1, <3>2, DispatchData
  <2>2. ASSUME NEW w \in Workers, Dispatch!Observe(w), pc'[w] = "observed"
        PROVE  /\ pc[w] = "observe" /\ job[w] \in Keys /\ fence[job[w]] = AttemptedRow
               /\ MovesOn(w, "observed") /\ UNCHANGED runs
               /\ Dispatch!Cardinality(Dispatch!Candidates(job[w])) = 1
               /\ run' = [run EXCEPT ![job[w]] = CHOOSE c \in Dispatch!Candidates(job[w]) : TRUE]
               /\ listed' = [listed EXCEPT ![job[w]] = Len(runs)]
    BY <2>2, DispatchSteps DEF Dispatch!Observe, Dispatch!At, Dispatch!Raise, Dispatch!Goto,
       Dispatch!github, MovesOn
  <2>3. \A k \in Keys : attempted_at'[k] <= clock' /\ listed'[k] <= Len(runs')
    <3>1. \A k \in Keys : attempted_at[k] <= clock /\ listed[k] <= Len(runs)
      BY DEF DispatchRuns
    <3>2. \A k \in Keys : attempted_at'[k] <= clock'
      <4>1. clock \in Nat /\ clock' \in Nat /\ clock <= clock'
        BY <2>0, DispatchData DEF Dispatch!DispatchConstants
      <4>2. ASSUME UNCHANGED attempted_at PROVE \A k \in Keys : attempted_at'[k] <= clock'
        BY ONLY <2>0, <3>1, <4>1, <4>2
      <4>3. ASSUME NEW w \in Workers, attempted_at' = [attempted_at EXCEPT ![job[w]] = clock]
            PROVE  \A k \in Keys : attempted_at'[k] <= clock'
        BY ONLY <2>0, <3>1, <4>1, <4>3
      <4> QED BY <4>2, <4>3, DispatchData
    <3>3. \A k \in Keys : listed'[k] <= Len(runs')
      <4>1. ASSUME NEW w \in Workers, listed' = [listed EXCEPT ![job[w]] = Len(runs)]
            PROVE  \A k \in Keys : listed'[k] <= Len(runs')
        BY ONLY <2>0, <2>1, <3>1, <4>1
      <4>2. ASSUME UNCHANGED listed PROVE \A k \in Keys : listed'[k] <= Len(runs')
        BY ONLY <2>0, <2>1, <3>1, <4>2
      <4> QED BY <2>2, <4>1, <4>2, DispatchData
    <3> QED BY <3>2, <3>3
  <2>4. ASSUME NEW k \in Keys, NEW r \in 1..Len(runs'), runs'[r].by = k
        PROVE  post'[k] # "none" /\ runs'[r].created >= Dispatch!Seconds(attempted_at'[k])
    <3>1. post[k] # "none" => post'[k] # "none"
      <4>1. ASSUME NEW w \in Workers, Dispatch!execute_exact(w), post[k] # "none" PROVE post'[k] # "none"
        BY <4>1 DEF Dispatch!execute_exact, Dispatch!TypeOK
      <4> QED BY <4>1, DispatchData DEF Dispatch!TypeOK
    <3>2. CASE r \in 1..Len(runs)
      <4>1. post[k] # "none" /\ runs[r].created >= Dispatch!Seconds(attempted_at[k])
        BY <2>1, <2>4, <3>2 DEF DispatchRuns
      <4>2. ASSUME NEW w \in Workers, pc[w] = "attempt" PROVE job[w] # k
        BY <4>1, <4>2 DEF DispatchSent
      <4>3. attempted_at'[k] = attempted_at[k]
        BY <2>0, <4>2, DispatchData
      <4> QED BY <2>1, <3>1, <3>2, <4>1, <4>3
    <3>3. CASE r \notin 1..Len(runs)
      <4>1. /\ post[k] = "accepted" /\ runs'[r].created = Dispatch!Seconds(clock)
            /\ attempted_at'[k] = attempted_at[k] /\ attempted_at[k] <= clock
        BY <2>1, <2>4, <3>3 DEF DispatchRuns
      <4>2. Dispatch!Seconds(attempted_at[k]) <= Dispatch!Seconds(clock) /\ Dispatch!Seconds(clock) \in Nat
        BY <2>0, <4>1, SecondsMonotone
      <4>3. Dispatch!Seconds(attempted_at[k]) \in Nat
        BY <2>0, <4>1, SecondsMonotone
      <4> QED BY <3>1, <4>1, <4>2, <4>3
    <3> QED BY <3>2, <3>3
  <2>5. ASSUME NEW k \in Keys, RunRecorded(k), run'[k] = run[k], listed'[k] = listed[k] PROVE RunRecorded(k)'
    <3>1. listed[k] \in Nat /\ listed[k] <= Len(runs)
      BY <2>0 DEF DispatchRuns
    <3> QED BY <2>1, <2>5, <3>1 DEF RunRecorded, OwnRun
  <2>6. ASSUME NEW k \in Keys, fence[k] # AttemptedRow PROVE run'[k] = run[k] /\ listed'[k] = listed[k]
    BY <2>0, <2>2, <2>6, DispatchData
  <2>7. ASSUME NEW w \in Workers, Dispatch!Observe(w), pc'[w] = "observed" PROVE RunRecorded(job[w])'
    <3>1. /\ job[w] \in Keys /\ UNCHANGED <<job, runs>> /\ listed'[job[w]] = Len(runs)
          /\ Dispatch!Cardinality(Dispatch!Candidates(job[w])) = 1
          /\ run'[job[w]] = CHOOSE c \in Dispatch!Candidates(job[w]) : TRUE
      BY <2>0, <2>2, <2>7 DEF MovesOn
    <3>2. \A r \in Dispatch!Candidates(job[w]) : r = run'[job[w]]
      BY <2>0, <3>1, OnlyCandidate DEF Dispatch!Candidates
    <3>3. ASSUME NEW r \in 1..Len(runs), runs[r].by = job[w], runs[r].head = ExpectedHead[job[w].comment]
          PROVE  r = run'[job[w]]
      BY <3>1, <3>2, <3>3 DEF DispatchRuns, Dispatch!Candidates
    <3> QED BY <3>1, <3>3 DEF RunRecorded, OwnRun
  <2>8. ASSUME NEW k \in Keys, fence'[k] \in {ObservedRow, ReconciledRow} PROVE RunRecorded(k)'
    <3>1. CASE fence[k] \in {ObservedRow, ReconciledRow}
      BY <2>5, <2>6, <3>1 DEF DispatchRuns
    <3>2. CASE fence[k] \notin {ObservedRow, ReconciledRow}
      <4>1. PICK w \in Workers : Dispatch!mark_observed(w) /\ job[w] = k
        <5>1. ASSUME NEW w \in Workers,
                     \/ \E c \in Comments : Dispatch!execute(w, c)
                     \/ Dispatch!Step(w) \/ Dispatch!Crash(w)
              PROVE  Dispatch!mark_observed(w) /\ job[w] = k
          <6>1. UNCHANGED fence \/ Inserts(w, "recheck", DispatchRivals) \/ \E r \in Row, p \in Anywhere : Marks(w, r, p)
            BY <5>1, DispatchSteps DEF Dispatch!Step, MovesOn, BeginsWork, Anywhere, FreeAt
          <6>2. \E r \in Row, p \in Anywhere : Marks(w, r, p) /\ job[w] = k /\ r \in {ObservedRow, ReconciledRow}
            BY <2>8, <3>2, <6>1 DEF Inserts, Marks
          <6>3. PICK r \in Row, p \in Anywhere : Marks(w, r, p) /\ job[w] = k /\ r \in {ObservedRow, ReconciledRow}
            BY <6>2
          <6>4. fence[k] = AttemptedRow /\ fence'[k] = ObservedRow
            BY <3>2, <6>3 DEF Marks, RowStep
          <6>5. ~Inserts(w, "recheck", DispatchRivals) /\ fence' # fence /\ job[w] = k
            BY <6>3, <6>4 DEF Inserts
          <6>6. \A q \in {AttemptedRow, ReconciledRow, UnknownRow, AbandonedRow}, s \in Anywhere : ~Marks(w, q, s)
            BY <6>3, <6>4 DEF Marks
          <6> QED BY <5>1, <6>5, <6>6, DispatchSteps DEF Dispatch!Step, MovesOn, BeginsWork, Anywhere,
             FreeAt
        <5> QED BY <2>8, <3>2, <5>1 DEF Dispatch!Next, Dispatch!Environment, Dispatch!Tick,
           Dispatch!HeadMoves,
            Dispatch!TrustChanges, Dispatch!OtherDispatch, Dispatch!Accept, Dispatch!Refuse,
            Dispatch!StartRun,
            Dispatch!observe
      <4>2. RunRecorded(k) /\ UNCHANGED <<run, listed>>
        BY <4>1 DEF DispatchRuns, Dispatch!mark_observed, Dispatch!At, Dispatch!effect
      <4> QED BY <2>5, <4>2
    <3> QED BY <3>1, <3>2
  <2>9. ASSUME NEW w \in Workers, pc'[w] = "observed" PROVE RunRecorded(job[w])'
    <3>1. CASE Dispatch!Observe(w)
      BY <2>7, <2>9, <3>1
    <3>2. CASE ~Dispatch!Observe(w)
      <4>1. pc[w] = "observed" /\ job'[w] = job[w]
        <5>1. ASSUME NEW v \in Workers,
                     \/ \E c \in Comments : Dispatch!execute(v, c)
                     \/ Dispatch!Step(v) \/ Dispatch!Crash(v)
              PROVE  pc[w] = "observed" /\ job'[w] = job[w]
          <6>1. v = w => pc'[w] # "observed"
            BY <3>2, <5>1, DispatchSteps DEF Dispatch!Step, MovesOn, BeginsWork, Ends, Marks, Inserts
          <6>2. v # w => pc'[w] = pc[w] /\ job'[w] = job[w]
            BY <5>1, DispatchSteps DEF Dispatch!Step, MovesOn, BeginsWork, Ends, Marks, Inserts
          <6> QED BY <2>9, <6>1, <6>2
        <5> QED BY <2>9, <5>1 DEF Dispatch!Next, Dispatch!Environment, Dispatch!Tick, Dispatch!HeadMoves,
            Dispatch!TrustChanges, Dispatch!OtherDispatch, Dispatch!Accept, Dispatch!Refuse,
            Dispatch!StartRun,
            Dispatch!observe
      <4>2. PICK k \in Keys : k = job[w] /\ k = job'[w] /\ RunRecorded(k)
        BY <4>1 DEF DispatchRuns
      <4>3. ASSUME NEW v \in Workers, Dispatch!Observe(v), pc'[v] = "observed" PROVE job[v] # k
        BY <2>2, <4>1, <4>2, <4>3
      <4>4. run'[k] = run[k] /\ listed'[k] = listed[k]
        BY <2>0, <2>2, <4>3, DispatchData
      <4> QED BY <2>5, <4>2, <4>4 DEF RunRecorded, OwnRun
    <3> QED BY <3>1, <3>2
  <2> QED BY <2>3, <2>4, <2>8, <2>9 DEF DispatchRuns
<1> QED BY <1>1, <1>3, <1>4, <1>5 DEF DispatchInv

LEMMA DispatchInit == ASSUME Dispatch!DispatchConstants, Dispatch!Init PROVE DispatchInv
<1>1. FenceSafe
  BY DEF Dispatch!Init, Dispatch!FenceInit, Dispatch!DispatchConstants, FenceSafe, FenceType, Rows, Custody,
     Anywhere, FreeAt, HeldAt, PreparedAt, AttemptedAt, ObservedAt
<1>2. Dispatch!TypeOK
  <2>1. head \in 1..MaxHead /\ trust \in 1..MaxTrust /\ clock \in 0..MaxClock
    BY DEF Dispatch!Init, Dispatch!DispatchConstants
  <2>2. /\ calls \in [Keys -> Nat] /\ accepted \in [Comments -> Nat] /\ attempted_at \in [Keys -> Nat]
        /\ run \in [Keys -> 0..MaxRuns] /\ listed \in [Keys -> 0..MaxRuns]
        /\ observation \in [RequestIds -> 0..MaxRuns]
    BY DEF Dispatch!Init, Dispatch!FenceInit, Dispatch!DispatchConstants
  <2>3. runs \in Seq(Dispatch!Run) /\ Len(runs) <= MaxRuns
    BY DEF Dispatch!Init, Dispatch!DispatchConstants
  <2> QED BY <2>1, <2>2, <2>3 DEF Dispatch!Init, Dispatch!FenceInit, Dispatch!TypeOK, Dispatch!FenceType,
          Dispatch!Places, Dispatch!Claims
<1>3. DispatchSent /\ DispatchRuns
  <2>1. None \notin Row
    BY DEF Dispatch!DispatchConstants, Row, Dispatch!Row, States, Dispatch!States
  <2>2. Len(runs) = 0
    BY DEF Dispatch!Init
  <2> QED BY <2>1, <2>2, RowFacts DEF Dispatch!Init, Dispatch!FenceInit, DispatchSent, DispatchRuns
<1> QED BY <1>1, <1>2, <1>3 DEF DispatchInv

LEMMA DispatchAlways == ASSUME Dispatch!DispatchConstants PROVE Dispatch!Spec => []DispatchInv
<1>1. DispatchInv /\ UNCHANGED Dispatch!vars => DispatchInv'
  BY DEF Dispatch!vars, DispatchInv, FenceSafe, FenceType, Rows, Custody, Dispatch!TypeOK,
     Dispatch!FenceType,
     DispatchSent, DispatchRuns, RunRecorded, OwnRun
<1> QED BY <1>1, DispatchInit, DispatchKept, PTL DEF Dispatch!Spec

\* The run that the observation recorded (the only one listed on the expected head with
\* created_at >= attempted_at) is the effect's own whenever that one was listed:
\* created_at, cut to seconds, never falls behind the stamp of the attempt.
THEOREM DispatchSafety == ASSUME Dispatch!DispatchConstants PROVE Dispatch!Spec => []ListedRunIsRecorded
<1>1. DispatchInv => ListedRunIsRecorded
  BY RowFacts DEF DispatchInv, DispatchRuns, RunRecorded, ListedRunIsRecorded, FenceSafe, Rows,
     OpenRows
<1> QED BY <1>1, DispatchAlways, PTL

\* The dispatch mediator, its fence and its POST keep the promise of EffectOnce: one
\* dispatch per comment, for any number of jobs.
THEOREM DispatchRefines == ASSUME Dispatch!DispatchConstants PROVE Dispatch!Spec => DispatchImplementsEffectOnce
<1>1. Dispatch!Init => DispatchEffects!OnceInit
  BY DEF Dispatch!Init, Dispatch!FenceInit, Phase, PhaseOf, DispatchEffects!OnceInit
<1>2. ASSUME DispatchInv, [Dispatch!Next]_(Dispatch!vars)
      PROVE  [DispatchEffects!OnceNext]_<<Phase, calls>>
  <2>1. None \notin Row /\ None \notin Keys /\ DispatchRivals \in [Keys -> SUBSET Keys]
    BY DEF Dispatch!DispatchConstants, Row, Dispatch!Row, States, Dispatch!States, DispatchRivals
  <2>2. CASE UNCHANGED Dispatch!vars
    BY <2>2 DEF Dispatch!vars, Phase
  <2>3. CASE \E w \in Workers : Dispatch!execute_exact(w)
    <3>1. PICK w \in Workers : Dispatch!execute_exact(w)
      BY <2>3
    <3>2. PICK k \in Keys : k = job[w] /\ fence[k] = AttemptedRow /\ calls[k] = 0
      BY <1>2, <3>1 DEF DispatchInv, FenceSafe, Custody, DispatchSent, Dispatch!execute_exact,
         Dispatch!At, AttemptedAt
    <3>3. DispatchEffects!Call(k)
      <4>1. calls' = [calls EXCEPT ![k] = calls[k] + 1] /\ UNCHANGED fence
        BY <3>1, <3>2, RowFacts DEF Dispatch!execute_exact, Dispatch!Calls
      <4> QED BY <1>2, <2>1, <3>2, <4>1, PhaseFacts DEF DispatchEffects!Call,
          Phase, DispatchInv, Dispatch!TypeOK
    <3> QED BY <3>2, <3>3 DEF DispatchEffects!OnceNext
  <2>4. CASE Dispatch!Next /\ ~\E w \in Workers : Dispatch!execute_exact(w)
    <3>1. UNCHANGED calls
      BY <2>4 DEF Dispatch!Next, Dispatch!Environment, Dispatch!Tick, Dispatch!HeadMoves,
         Dispatch!TrustChanges, Dispatch!OtherDispatch, Dispatch!Accept, Dispatch!Refuse, Dispatch!StartRun,
         Dispatch!observe, Dispatch!Step, Dispatch!execute, Dispatch!_ledger_match, Dispatch!Claim,
         Dispatch!HeadMovedBeforeDispatch, Dispatch!Stamp, Dispatch!PatchFailed, Dispatch!PatchReceipt,
         Dispatch!Resolve, Dispatch!prepare, Dispatch!Recheck, Dispatch!mark_attempted, Dispatch!PostReply,
         Dispatch!PostFails, Dispatch!Observe, Dispatch!mark_observed, Dispatch!mark_reconciled,
         Dispatch!mark_unknown, Dispatch!Crash, Dispatch!github
    <3>2. PhaseStep(FALSE, DispatchRivals)
      BY <1>2, <2>1, <2>4, DispatchFence, PhasesKept DEF DispatchInv
    <3>3. ASSUME NEW k \in Keys, Becomes(k, "none", "prepared"), \A j \in DispatchRivals[k] : Phase[j] = "none"
          PROVE  DispatchEffects!Prepare(k)
      BY <3>1, <3>3 DEF Becomes, DispatchRivals, DispatchEffects!Prepare,
         DispatchEffects!Become
    <3>4. ASSUME NEW k \in Keys
          PROVE  /\ Becomes(k, "prepared", "attempted") => DispatchEffects!Attempt(k)
                 /\ Becomes(k, "prepared", "abandoned") => DispatchEffects!Abandon(k)
                 /\ Becomes(k, "attempted", "confirmed") => DispatchEffects!Confirm(k)
                 /\ Becomes(k, "attempted", "unknown") => DispatchEffects!GiveUp(k)
      BY <3>1 DEF Becomes, DispatchEffects!Become, DispatchEffects!Attempt,
         DispatchEffects!Abandon, DispatchEffects!Confirm, DispatchEffects!GiveUp
    <3> QED BY <3>1, <3>2, <3>3, <3>4 DEF PhaseStep, DispatchEffects!OnceNext
  <2> QED BY <1>2, <2>2, <2>3, <2>4
<1> QED BY <1>1, <1>2, DispatchAlways, PTL
    DEF Dispatch!Spec, DispatchImplementsEffectOnce, DispatchEffects!OnceSpec

\* A comment dispatches its workflow once, under whichever admission, and the
\* attempt stays on record.
THEOREM DispatchOneCall ==
  ASSUME Dispatch!DispatchConstants
  PROVE  Dispatch!Spec => [](DispatchEffects!OneCallPerBinding /\ DispatchEffects!CallsAreOnRecord)
<1>0. DispatchRivals \in [Keys -> SUBSET Keys] /\ \A j, k \in Keys : j \in DispatchRivals[k] => k \in DispatchRivals[j]
  BY DEF DispatchRivals, SameComment
<1>1. DispatchEffects!OnceInit => OnceInv(DispatchRivals)
  BY <1>0 DEF DispatchEffects!OnceInit, OnceInv
<1>2. OnceInv(DispatchRivals) /\ [DispatchEffects!OnceNext]_<<Phase, calls>> => OnceInv(DispatchRivals)'
  <2>1. SUFFICES ASSUME OnceInv(DispatchRivals), DispatchEffects!OnceNext PROVE OnceInv(DispatchRivals)'
    BY DEF OnceInv
  <2>2. ASSUME NEW k \in Keys, DispatchEffects!Prepare(k) PROVE OnceStep(DispatchRivals)
    BY <2>2 DEF DispatchEffects!Prepare, DispatchEffects!Become, OnceStep, PhaseStep, Becomes, DispatchRivals
  <2>3. ASSUME NEW k \in Keys,
               \/ DispatchEffects!Attempt(k) \/ DispatchEffects!Abandon(k) \/ DispatchEffects!Confirm(k)
               \/ DispatchEffects!GiveUp(k) \/ DispatchEffects!Resolve(k)
        PROVE  OnceStep(DispatchRivals)
    BY <2>3 DEF DispatchEffects!Attempt, DispatchEffects!Abandon, DispatchEffects!Confirm, DispatchEffects!GiveUp,
       DispatchEffects!Resolve, DispatchEffects!Become, OnceStep, PhaseStep, Becomes
  <2>4. ASSUME NEW k \in Keys, DispatchEffects!Call(k) PROVE OnceStep(DispatchRivals)
    BY <2>4 DEF DispatchEffects!Call, OnceStep
  <2> QED BY <1>0, <2>1, <2>2, <2>3, <2>4, OnceKept DEF DispatchEffects!OnceNext
<1>3. OnceInv(DispatchRivals) => DispatchEffects!OneCallPerBinding /\ DispatchEffects!CallsAreOnRecord
  BY DEF OnceInv, Reached, DispatchRivals, DispatchEffects!OneCallPerBinding, DispatchEffects!CallsAreOnRecord
<1> QED BY <1>1, <1>2, <1>3, DispatchRefines, PTL DEF DispatchImplementsEffectOnce, DispatchEffects!OnceSpec

\* The workflow's concurrency group runs one job of the bridge at a time.
OneJob == \A v, w \in Workers : v = w

RequestOf(k) == RequestId[k.comment]

\* A claim precedes every row of its request id, and a request id has one row.
LedgerRows ==
    /\ \A k \in Keys : fence[k] # None => ledger[RequestOf(k)] # "none"
    /\ \A j, k \in Keys : fence[j] # None /\ fence[k] # None /\ RequestOf(j) = RequestOf(k) => j = k

LedgerPlaces == \A w \in Workers :
    /\ pc[w] = "claim" => ledger[RequestOf(job[w])] = "none"
    /\ pc[w] \notin {"idle", "ledger", "claim"} => ledger[RequestOf(job[w])] = "CLAIMED"
    /\ pc[w] \in {"moved", "stamp", "resolve", "prepare"} =>
          \A k \in Keys : RequestOf(k) = RequestOf(job[w]) => fence[k] = None
    /\ pc[w] = "receipt" => fence[job[w]] = ReconciledRow

LedgerTrue == \A q \in RequestIds :
    /\ ledger[q] = "RECEIPT" => \E k \in Keys : RequestOf(k) = q /\ fence[k] = ReconciledRow
    /\ ledger[q] = "DENIED" => \A k \in Keys : RequestOf(k) = q => calls[k] = 0

LedgerInv == LedgerRows /\ LedgerPlaces /\ LedgerTrue

LEMMA LedgerKept ==
  ASSUME Dispatch!DispatchConstants, OneJob, DispatchInv, LedgerInv, Dispatch!Next
  PROVE  LedgerInv'
<1>0. None \notin Row /\ None \notin Keys /\ ledger \in [RequestIds -> Dispatch!Claims]
      /\ \A k \in Keys : RequestOf(k) \in RequestIds
  BY DEF Dispatch!DispatchConstants, Row, Dispatch!Row, States, Dispatch!States, RequestOf, DispatchInv,
     Dispatch!TypeOK
<1>1. CASE UNCHANGED <<fence, pc, job, ledger, calls>>
  BY <1>1 DEF LedgerInv, LedgerRows, LedgerPlaces, LedgerTrue
<1>2. CASE Dispatch!Environment \/ \E q \in RequestIds : Dispatch!observe(q)
  BY <1>1, <1>2 DEF Dispatch!Environment, Dispatch!Tick, Dispatch!HeadMoves, Dispatch!TrustChanges,
     Dispatch!OtherDispatch, Dispatch!Accept, Dispatch!Refuse, Dispatch!StartRun, Dispatch!observe,
     Dispatch!bridge, Dispatch!github
<1> SUFFICES ASSUME NEW w \in Workers,
                    \/ \E c \in Comments : Dispatch!execute(w, c)
                    \/ Dispatch!Step(w) \/ Dispatch!Crash(w)
             PROVE  LedgerInv'
  BY <1>2 DEF Dispatch!Next
<1> USE <1>0, RowFacts, RowsDiffer
    DEF OneJob, DispatchInv, LedgerInv, LedgerRows, LedgerPlaces, LedgerTrue, FenceSafe, FenceType,
    Custody, Rows, OpenRows, AttemptedRows,
        HeldAt, PreparedAt, AttemptedAt, ObservedAt, Dispatch!At, Dispatch!Comment, Dispatch!Request
<1>3. CASE UNCHANGED <<ledger, calls>>
  <2>1. CASE \/ Ends(w) /\ UNCHANGED fence
             \/ \E k \in Keys : BeginsWork(w, k, "ledger")
    BY <1>3, <2>1 DEF Ends, BeginsWork
  <2>2. ASSUME NEW k \in Keys, BeginsWork(w, k, "prepare"), k.comment = job[w].comment, pc[w] = "resolve"
        PROVE  LedgerInv'
    <3>1. RequestOf(k) = RequestOf(job[w])
      BY <2>2 DEF RequestOf
    <3> QED BY <1>3, <2>2, <3>1 DEF BeginsWork
  <2>3. CASE Inserts(w, "recheck", DispatchRivals) /\ pc[w] = "prepare"
    BY <1>3, <2>3 DEF Inserts
  <2>4. ASSUME NEW r \in Row, NEW place \in Anywhere, Marks(w, r, place),
               place \notin {"idle", "moved", "stamp", "resolve", "prepare", "claim", "ledger"},
               place = "receipt" => r = ReconciledRow
        PROVE  LedgerInv'
    <3>1. /\ job[w] \in Keys /\ RowStep(fence[job[w]], r) /\ fence' = [fence EXCEPT ![job[w]] = r]
          /\ pc' = [pc EXCEPT ![w] = place] /\ UNCHANGED job
      BY <2>4 DEF Marks
    <3>2. fence[job[w]] \notin {None, ReconciledRow} /\ r # None
      BY <3>1 DEF RowStep
    <3>3. \A k \in Keys : /\ fence'[k] = None <=> fence[k] = None
                          /\ fence[k] = ReconciledRow => fence'[k] = ReconciledRow
      BY <3>1, <3>2
    <3>4. LedgerRows'
      BY <1>3, <3>3
    <3>5. LedgerTrue'
      BY <1>3, <3>3
    <3>6. pc[w] \notin {"idle", "ledger", "claim"} /\ (place = "receipt" => fence'[job[w]] = ReconciledRow)
      BY <2>4, <3>1 DEF Marks
    <3>7. LedgerPlaces'
      BY <1>3, <2>4, <3>1, <3>3, <3>6
    <3> QED BY <3>4, <3>5, <3>7
  <2>5. CASE \/ MovesOn(w, "claim") /\ pc[w] = "ledger" /\ ledger[RequestOf(job[w])] = "none"
             \/ MovesOn(w, "stamp") /\ pc[w] = "moved"
             \/ MovesOn(w, "resolve") /\ pc[w] = "stamp"
    BY <1>3, <2>5 DEF MovesOn
  <2>6. ASSUME NEW place \in Anywhere \ {"idle", "moved", "stamp", "resolve", "prepare", "receipt", "claim", "ledger"},
               MovesOn(w, place), pc[w] \notin {"idle", "ledger", "claim"}
        PROVE  LedgerInv'
    BY <1>3, <2>6 DEF MovesOn
  <2>7. Dispatch!_ledger_match(w) /\ MovesOn(w, "claim") => ledger[RequestOf(job[w])] = "none"
    BY DEF Dispatch!_ledger_match, Dispatch!Leave, Dispatch!Finish, Dispatch!Goto, MovesOn, RequestOf
  <2> HIDE DEF LedgerInv
  <2>8. CASE \/ \E c \in Comments : Dispatch!execute(w, c)
             \/ Dispatch!_ledger_match(w) \/ Dispatch!HeadMovedBeforeDispatch(w) \/ Dispatch!Stamp(w)
             \/ Dispatch!PatchFailed(w) \/ Dispatch!PatchReceipt(w) \/ Dispatch!Crash(w)
    BY <2>1, <2>5, <2>7, <2>8, DispatchSteps
       DEF Dispatch!_ledger_match, Dispatch!HeadMovedBeforeDispatch, Dispatch!Stamp
  <2>9. CASE \/ Dispatch!Resolve(w) \/ Dispatch!prepare(w) \/ Dispatch!Recheck(w) \/ Dispatch!execute_exact(w)
             \/ Dispatch!PostReply(w) \/ Dispatch!PostFails(w) \/ Dispatch!Observe(w)
    <3>1. pc[w] \in {"resolve", "prepare", "recheck", "post", "wait", "observe"}
      BY <2>9 DEF Dispatch!Resolve, Dispatch!prepare, Dispatch!Recheck, Dispatch!execute_exact,
         Dispatch!PostReply, Dispatch!PostFails, Dispatch!Observe
    <3> QED BY <2>2, <2>3, <2>6, <2>9, <3>1, DispatchSteps
        DEF Dispatch!Resolve, Dispatch!prepare, Anywhere, FreeAt
  <2>10. CASE \/ Dispatch!mark_attempted(w) \/ Dispatch!mark_observed(w) \/ Dispatch!mark_reconciled(w)
              \/ Dispatch!mark_unknown(w)
    BY <2>4, <2>10, DispatchSteps DEF Anywhere, FreeAt
  <2>11. CASE Dispatch!Claim(w)
    BY <1>0, <1>3, <2>11 DEF Dispatch!Claim, LedgerInv, RequestOf
  <2> QED BY <2>8, <2>9, <2>10, <2>11 DEF Dispatch!Step
<1>4. CASE Dispatch!Claim(w)
  <2>1. MovesOn(w, "moved") /\ pc[w] = "claim" /\ ledger' = [ledger EXCEPT ![RequestOf(job[w])] = "CLAIMED"] /\ UNCHANGED calls
    BY <1>4, DispatchSteps DEF Dispatch!Claim, Dispatch!github, RequestOf
  <2> QED BY <2>1 DEF MovesOn
<1>5. ASSUME NEW s \in {"DENIED", "FAILED", "RECEIPT"},
             Ends(w), ledger' = [ledger EXCEPT ![RequestOf(job[w])] = s], UNCHANGED <<fence, calls>>,
             pc[w] = IF s = "DENIED" THEN "moved" ELSE IF s = "FAILED" THEN "patch_failed" ELSE "receipt"
      PROVE  LedgerInv'
  <2>1. LedgerRows'
    BY <1>5
  <2>2. LedgerPlaces'
    BY <1>5 DEF Ends
  <2>3. s = "DENIED" => \A k \in Keys : RequestOf(k) = RequestOf(job[w]) => calls[k] = 0
    BY <1>5 DEF DispatchSent
  <2>4. LedgerTrue'
    BY <1>5, <2>3
  <2> QED BY <2>1, <2>2, <2>4
<1>6. CASE Dispatch!execute_exact(w)
  <2>1. MovesOn(w, "wait") /\ pc[w] = "post" /\ job[w] \in Keys /\ UNCHANGED ledger
    BY <1>6, DispatchSteps DEF Dispatch!execute_exact, Dispatch!bridge
  <2>2. UNCHANGED calls \/ calls' = [calls EXCEPT ![job[w]] = calls[job[w]] + 1]
    BY <1>6 DEF Dispatch!execute_exact, Dispatch!Calls
  <2> QED BY <2>1, <2>2 DEF MovesOn, Dispatch!TypeOK
<1>7. CASE Dispatch!HeadMovedBeforeDispatch(w)
  BY <1>3, <1>5, <1>7 DEF Dispatch!HeadMovedBeforeDispatch, Dispatch!Finish, Dispatch!Goto, Dispatch!github,
     Ends, RequestOf
<1>8. CASE Dispatch!PatchFailed(w)
  BY <1>5, <1>8 DEF Dispatch!PatchFailed, Dispatch!Finish, Dispatch!Goto, Dispatch!github, Ends, RequestOf
<1>9. CASE Dispatch!PatchReceipt(w)
  BY <1>5, <1>9 DEF Dispatch!PatchReceipt, Dispatch!Finish, Dispatch!Goto, Dispatch!github, Ends, RequestOf
<1> QED BY <1>3, <1>4, <1>6, <1>7, <1>8, <1>9
    DEF Dispatch!Step, Dispatch!execute, Dispatch!_ledger_match, Dispatch!Stamp, Dispatch!Resolve,
        Dispatch!prepare, Dispatch!Recheck, Dispatch!mark_attempted, Dispatch!PostReply, Dispatch!PostFails,
        Dispatch!Observe, Dispatch!mark_observed, Dispatch!mark_reconciled, Dispatch!mark_unknown,
        Dispatch!Crash, Dispatch!bridge, Dispatch!github

LEMMA LedgerAlways ==
  ASSUME Dispatch!DispatchConstants, OneJob
  PROVE  Dispatch!Spec => []LedgerInv
<1>1. Dispatch!Init => LedgerInv
  <2>1. ASSUME Dispatch!Init PROVE \A k \in Keys : RequestOf(k) \in RequestIds
    BY DEF Dispatch!DispatchConstants, RequestOf
  <2> QED BY <2>1 DEF Dispatch!Init, Dispatch!FenceInit, LedgerInv, LedgerRows, LedgerPlaces, LedgerTrue
<1>2. DispatchInv /\ LedgerInv /\ [Dispatch!Next]_(Dispatch!vars) => LedgerInv'
  <2>1. LedgerInv /\ UNCHANGED Dispatch!vars => LedgerInv'
    BY DEF Dispatch!vars, LedgerInv, LedgerRows, LedgerPlaces, LedgerTrue
  <2> QED BY <2>1, LedgerKept
<1> QED BY <1>1, <1>2, DispatchAlways, PTL DEF Dispatch!Spec

\* With one job of the bridge at a time a request id is dispatched at most once, over
\* repeated comments, new admissions, crashes and lost answers: the claim is on the control
\* issue before the fence has a row for it.
THEOREM DispatchOnce ==
  ASSUME Dispatch!DispatchConstants, OneJob
  PROVE  Dispatch!Spec => []OneDispatchPerRequestId
<1>1. ASSUME DispatchInv, LedgerInv PROVE OneDispatchPerRequestId
  <2>1. None \notin Row
    BY DEF Dispatch!DispatchConstants, Row, Dispatch!Row, States, Dispatch!States
  <2>2. \A k \in Keys : calls[k] \in Nat /\ (calls[k] # 0 => calls[k] = 1 /\ fence[k] # None)
    BY <1>1, <2>1, RowFacts DEF DispatchInv, Dispatch!TypeOK, DispatchSent, AttemptedRows
  <2> QED BY <1>1, <2>2 DEF LedgerInv, LedgerRows, RequestOf, OneDispatchPerRequestId
<1> QED BY <1>1, DispatchAlways, LedgerAlways, PTL

\* With one job at a time a receipt on the control issue is backed by a RECONCILED row, and
\* a request that was denied because the head moved was never sent.
THEOREM DispatchLedger ==
  ASSUME Dispatch!DispatchConstants, OneJob
  PROVE  Dispatch!Spec => []LedgerFollowsFence
<1>1. ASSUME LedgerInv PROVE LedgerFollowsFence
  <2>1. None \notin Row
    BY DEF Dispatch!DispatchConstants, Row, Dispatch!Row, States, Dispatch!States
  <2> QED BY <1>1, <2>1, RowFacts DEF LedgerInv, LedgerTrue, RequestOf, LedgerFollowsFence
<1> QED BY <1>1, LedgerAlways, PTL
===============================================================================
