------------------------- MODULE LiveAuthorityProofs -------------------------
(***************************************************************************)
(* Proofs about LiveAuthority, for any number of clients, lineages, nonces,*)
(* evidence digests, epochs and epoch-state writes.                        *)
(*                                                                         *)
(* Neither property is inductive.  RevocationIsForever rests on Fresh: the *)
(* row a call has read is either the row as it is or one of an older       *)
(* version (every write is a new version), so a receipt whose version is   *)
(* still the current one was authenticated against the current revocation  *)
(* list; and the list of the current epoch holds every grant of that epoch *)
(* ever revoked, because it only grows within an epoch and grants belong   *)
(* to one epoch.  AcceptedOnce rests on Keyed: what was handed out, and    *)
(* each call about to return, has a replay row of its own.                 *)
(***************************************************************************)
EXTENDS LiveAuthority, TLAPS

Authenticated == {"state2", "root2", "consume", "return", "commit"}

\* What a call has in hand at each of its steps.
ClientTyped(c) ==
    /\ pc[c] # "idle" => job[c] \in Jobs
    /\ pc[c] \in Authenticated \cup {"root1"} => before[c] \in EpochState
    /\ pc[c] \in Authenticated => root[c] \in Grants
    /\ pc[c] \in {"consume", "return"} => job[c].kind = "admit"
    /\ pc[c] = "commit" => job[c].kind = "finalize"
    /\ pc[c] # "idle" /\ job[c].kind = "finalize" => job[c].receipt \in receipts

Typed ==
    /\ TypeOK
    /\ job = [c \in Clients |-> job[c]]
    /\ \A c \in Clients : ClientTyped(c)

\* What is left of an epoch row that was read at some time: a row of an older
\* version, or the row as it is.
Snapshot(s) ==
    /\ state # None
    /\ s.version <= state.version
    /\ s.version = state.version => s = state

\* What a receipt says of the epoch row while its version is the current one.
ReceiptFresh(r) ==
    /\ state # None
    /\ r.version <= state.version
    /\ r.version = state.version =>
          r.lineage.epoch = state.epoch /\ r.lineage.grants \cap state.revoked = {}

\* What a call has authenticated, it has authenticated against what it read.
ClientFresh(c) ==
    /\ pc[c] \in Authenticated \cup {"root1"} => Snapshot(before[c])
    /\ pc[c] \in Authenticated => _authenticate_record(job[c], before[c], root[c])

\* The list of the current epoch is the memory of its revocations, and no grant is
\* revoked before its epoch.
RevokedKept ==
    /\ state = None => everRevoked = {}
    /\ state # None =>
          /\ everRevoked \cap GrantsOf(state.epoch) \subseteq state.revoked
          /\ \A e \in Epochs : e > state.epoch => everRevoked \cap GrantsOf(e) = {}

Fresh ==
    /\ \A c \in Clients : ClientFresh(c)
    /\ \A r \in receipts : ReceiptFresh(r)
    /\ RevokedKept

ReceiptKey(r) == <<"admit", r.lineage, r.epoch, r.version, r.nonce>>
FinalizationKey(f) == <<"finalize", f.receipt, f.evidence, f.nonce>>

\* Each receipt, finalization and admission about to return has consumed its key, and
\* no two of them have consumed the same one.
Keyed ==
    /\ \A r \in receipts : ReceiptKey(r) \in replay
    /\ \A f \in finals : FinalizationKey(f) \in replay
    /\ \A c \in Clients : pc[c] = "return" =>
          /\ AdmitKey(c) \in replay
          /\ \A r \in receipts : ReceiptKey(r) # AdmitKey(c)
          /\ \A d \in Clients : pc[d] = "return" /\ AdmitKey(d) = AdmitKey(c) => c = d

AuthorityInv == Typed /\ Fresh /\ Keyed /\ AcceptedOnce
------------------------------------------------------------------------------
ClientStep(c) ==
    \/ \E l \in Lineages, n \in Nonces : admit(c, l, n)
    \/ \E r \in receipts, e \in Evidence, n \in Nonces : revalidate(c, r, e, n)
    \/ ReadState1(c) \/ ReadRoot1(c) \/ ReadState2(c) \/ ReadRoot2(c)
    \/ consume_replay(c) \/ ReturnReceipt(c)
    \/ finalize_binding(c)
    \/ Crash(c)

WriterStep ==
    \/ \E e \in Epochs, revoked \in SUBSET Grants :
          bootstrap_context(e, revoked) \/ advance_epoch(e, revoked)
    \/ \E g \in Grants : register_root(g)
    \/ \E l \in Lineages : Expire(l)

LEMMA RootTyped == \A l \in Lineages : l.root \in Grants
  BY AuthorityAssumption DEF Grants

LEMMA EpochStateRecord ==
  ASSUME NEW s \in EpochState
  PROVE  s # None /\ s.epoch \in Epochs /\ s.revoked \subseteq Grants /\ s.version \in Nat \ {0}
  BY AuthorityAssumption DEF EpochState

LEMMA JobRecord ==
  ASSUME NEW j \in Jobs
  PROVE  /\ j.kind \in {"admit", "finalize"} /\ j.lineage \in Lineages /\ j.nonce \in Nonces
         /\ j.kind = "finalize" => j.receipt \in Receipts /\ j.evidence \in Evidence
  BY DEF Jobs

LEMMA TypedInit == ASSUME Init PROVE Typed
  <1>1. TypeOK
    BY DEF Init, TypeOK, Steps
  <1>2. job = [c \in Clients |-> job[c]]
    BY DEF Init
  <1>3. \A c \in Clients : ClientTyped(c)
    BY DEF Init, ClientTyped, Authenticated
  <1> QED BY <1>1, <1>2, <1>3 DEF Typed

LEMMA WriterTyped == ASSUME Typed, WriterStep PROVE Typed'
  <1>1. UNCHANGED <<locals, receipts, finals>>
    BY DEF WriterStep, bootstrap_context, advance_epoch, register_root, Expire
  <1>2. state' \in EpochState \cup {None} /\ everRevoked' \subseteq Grants
    <2>1. ASSUME NEW e \in Epochs, NEW revoked \in SUBSET Grants, NEW v \in Nat \ {0},
                 WriteState([epoch |-> e, revoked |-> revoked, version |-> v])
          PROVE  state' \in EpochState \cup {None} /\ everRevoked' \subseteq Grants
      BY <2>1 DEF WriteState, EpochState, Typed, TypeOK
    <2>2. CASE \E e \in Epochs, revoked \in SUBSET Grants : bootstrap_context(e, revoked)
      BY <2>1, <2>2 DEF bootstrap_context
    <2>3. CASE \E e \in Epochs, revoked \in SUBSET Grants : advance_epoch(e, revoked)
      <3>1. PICK e \in Epochs, revoked \in SUBSET Grants : advance_epoch(e, revoked)
        BY <2>3
      <3>2. state \in EpochState
        BY <3>1 DEF advance_epoch, Typed, TypeOK
      <3>3. state.version + 1 \in Nat \ {0}
        BY <3>2, EpochStateRecord
      <3> QED BY <2>1, <3>1, <3>3 DEF advance_epoch
    <2>4. CASE UNCHANGED <<state, everRevoked>>
      BY <2>4 DEF Typed, TypeOK
    <2> QED BY <2>2, <2>3, <2>4 DEF WriterStep, register_root, Expire, tables
  <1>3. roots' \in [Epochs -> Grants \cup {None}]
    BY DEF WriterStep, bootstrap_context, advance_epoch, register_root, Expire, tables,
           Typed, TypeOK
  <1>4. expired' \subseteq Lineages
    BY DEF WriterStep, bootstrap_context, advance_epoch, register_root, Expire, Typed, TypeOK
  <1>5. TypeOK'
    BY <1>1, <1>2, <1>3, <1>4 DEF Typed, TypeOK, locals
  <1>6. \A c \in Clients : ClientTyped(c)'
    BY <1>1 DEF Typed, ClientTyped, locals
  <1> QED BY <1>1, <1>5, <1>6 DEF Typed, locals

\* The call of a client changes no other call, and no epoch row or root.
LEMMA ClientFrame ==
  ASSUME Typed, NEW c \in Clients, ClientStep(c)
  PROVE  /\ UNCHANGED <<state, roots, expired, everRevoked>>
         /\ \A d \in Clients \ {c} : /\ pc'[d] = pc[d] /\ job'[d] = job[d]
                                     /\ before'[d] = before[d] /\ root'[d] = root[d]
                                     /\ after'[d] = after[d]
  BY DEF ClientStep, admit, revalidate, Begin, End, Goto, ReadState1, ReadRoot1, ReadState2,
         ReadRoot2, consume_replay, ReturnReceipt, finalize_binding, Crash, Durables, tables,
         Typed, TypeOK

LEMMA EndTyped ==
  ASSUME Typed, NEW c \in Clients, End(c), receipts \subseteq receipts',
         receipts' \subseteq Receipts, finals' \subseteq Finals,
         UNCHANGED <<state, roots, expired, everRevoked>>
  PROVE  Typed'
  <1>1. TypeOK'
    BY DEF End, Typed, TypeOK, Steps
  <1>2. job' = [d \in Clients |-> job'[d]]
    BY DEF End, Typed
  <1>3. ASSUME NEW d \in Clients PROVE ClientTyped(d)'
    <2>1. CASE d = c
      BY <2>1 DEF End, Typed, TypeOK, ClientTyped, Authenticated
    <2>2. CASE d # c
      <3>1. /\ pc'[d] = pc[d] /\ job'[d] = job[d] /\ before'[d] = before[d]
            /\ root'[d] = root[d]
        BY <2>2 DEF End, Typed, TypeOK
      <3> QED BY <3>1 DEF Typed, ClientTyped
    <2> QED BY <2>1, <2>2
  <1> QED BY <1>1, <1>2, <1>3 DEF Typed

LEMMA MoveTyped ==
  ASSUME Typed, NEW c \in Clients, NEW p \in Steps, Goto(c, p),
         before' \in [Clients -> EpochState \cup {None}],
         root' \in [Clients -> Grants \cup {None}],
         after' \in [Clients -> EpochState \cup {None}],
         UNCHANGED <<state, roots, expired, everRevoked, receipts, finals>>,
         \A d \in Clients \ {c} : before'[d] = before[d] /\ root'[d] = root[d],
         ClientTyped(c)'
  PROVE  Typed'
  <1>1. TypeOK'
    BY DEF Goto, Typed, TypeOK
  <1>2. job' = [d \in Clients |-> job'[d]]
    BY DEF Goto, Typed
  <1>3. ASSUME NEW d \in Clients PROVE ClientTyped(d)'
    <2>1. CASE d # c
      <3>1. pc'[d] = pc[d] /\ job'[d] = job[d]
        BY <2>1 DEF Goto, Typed, TypeOK
      <3> QED BY <2>1, <3>1 DEF Typed, ClientTyped
    <2> QED BY <2>1
  <1> QED BY <1>1, <1>2, <1>3 DEF Typed

LEMMA BeginTyped ==
  ASSUME Typed, NEW c \in Clients, NEW j \in Jobs, Begin(c, j),
         j.kind = "finalize" => j.receipt \in receipts
  PROVE  Typed'
  <1>1. TypeOK'
    <2>1. \A d \in Clients : job'[d] = None \/ job'[d] \in Jobs
      BY DEF Begin, Typed, TypeOK
    <2>2. pc' \in [Clients -> Steps]
      BY DEF Begin, Typed, TypeOK, Steps
    <2> QED BY <2>1, <2>2 DEF Begin, tables, Typed, TypeOK
  <1>2. job' = [d \in Clients |-> job'[d]]
    BY DEF Begin, Typed
  <1>3. ASSUME NEW d \in Clients PROVE ClientTyped(d)'
    <2>1. CASE d = c
      BY <2>1 DEF Begin, Typed, TypeOK, ClientTyped, Authenticated
    <2>2. CASE d # c
      <3>1. pc'[d] = pc[d] /\ job'[d] = job[d]
        BY <2>2 DEF Begin, Typed, TypeOK
      <3> QED BY <3>1 DEF Typed, ClientTyped, Begin
    <2> QED BY <2>1, <2>2
  <1> QED BY <1>1, <1>2, <1>3 DEF Typed

LEMMA NewReceiptTyped ==
  ASSUME Typed, NEW c \in Clients, pc[c] = "return"
  PROVE  [lineage |-> job[c].lineage, epoch |-> before[c].epoch, version |-> before[c].version,
          root |-> root[c], nonce |-> job[c].nonce, by |-> c] \in Receipts
  <1>1. job[c] \in Jobs /\ before[c] \in EpochState /\ root[c] \in Grants
    BY DEF Typed, ClientTyped, Authenticated
  <1> QED BY <1>1, JobRecord, EpochStateRecord DEF Receipts

LEMMA ClientStepTyped ==
  ASSUME Typed, NEW c \in Clients, ClientStep(c)
  PROVE  Typed'
  <1> USE DEF Durables, tables
  <1>0. receipts \subseteq Receipts /\ finals \subseteq Finals /\ ClientTyped(c)
    BY DEF Typed, TypeOK
  <1>1. CASE \E l \in Lineages, n \in Nonces : admit(c, l, n)
    <2>1. PICK l \in Lineages, n \in Nonces : admit(c, l, n)
      BY <1>1
    <2> DEFINE j == [kind |-> "admit", lineage |-> l, nonce |-> n, onTime |-> l \notin expired]
    <2>2. j \in Jobs /\ j.kind = "admit"
      BY DEF Jobs
    <2>3. Begin(c, j)
      BY <2>1 DEF admit
    <2> HIDE DEF j
    <2> QED BY <2>2, <2>3, BeginTyped
  <1>2. CASE \E r \in receipts, e \in Evidence, n \in Nonces : revalidate(c, r, e, n)
    <2>1. PICK r \in receipts, e \in Evidence, n \in Nonces : revalidate(c, r, e, n)
      BY <1>2
    <2> DEFINE j == [kind |-> "finalize", lineage |-> r.lineage, nonce |-> n,
                     onTime |-> r.lineage \notin expired, receipt |-> r, evidence |-> e]
    <2>2. r \in Receipts /\ r.lineage \in Lineages
      BY <1>0 DEF Receipts
    <2>3. j \in Jobs
      BY <2>2 DEF Jobs
    <2>4. j.receipt \in receipts
      OBVIOUS
    <2>5. Begin(c, j)
      BY <2>1 DEF revalidate
    <2> HIDE DEF j
    <2> QED BY <2>3, <2>4, <2>5, BeginTyped
  <1>3. CASE End(c) /\ UNCHANGED Durables
    BY <1>0, <1>3, EndTyped
  <1>4. CASE ReadState1(c) /\ ~End(c)
    <2>1. /\ pc[c] = "state1" /\ state # None /\ Goto(c, "root1")
          /\ before' = [before EXCEPT ![c] = state] /\ UNCHANGED <<root, after, Durables>>
      BY <1>4 DEF ReadState1
    <2>2. ClientTyped(c)'
      BY <2>1 DEF Goto, Typed, TypeOK, ClientTyped, Authenticated
    <2> QED BY <2>1, <2>2, MoveTyped DEF Typed, TypeOK, Steps
  <1>5. CASE ReadRoot1(c) /\ ~End(c)
    <2>1. /\ pc[c] = "root1" /\ Goto(c, "state2")
          /\ root' = [root EXCEPT ![c] = roots[before[c].epoch]] /\ roots[before[c].epoch] # None
          /\ UNCHANGED <<before, after, Durables>>
      BY <1>5 DEF ReadRoot1
    <2>2. before[c] \in EpochState /\ before[c].epoch \in Epochs
      BY <2>1, <1>0, EpochStateRecord DEF ClientTyped
    <2>3. roots[before[c].epoch] \in Grants
      BY <2>1, <2>2 DEF Typed, TypeOK
    <2>4. ClientTyped(c)'
      BY <2>1, <2>2, <2>3 DEF Goto, Typed, TypeOK, ClientTyped, Authenticated
    <2> QED BY <2>1, <2>3, <2>4, MoveTyped DEF Typed, TypeOK, Steps
  <1>6. CASE ReadState2(c)
    <2>1. /\ pc[c] = "state2" /\ Goto(c, "root2") /\ after' = [after EXCEPT ![c] = state]
          /\ UNCHANGED <<before, root, Durables>>
      BY <1>6 DEF ReadState2
    <2>2. ClientTyped(c)'
      BY <2>1 DEF Goto, Typed, TypeOK, ClientTyped, Authenticated
    <2> QED BY <2>1, <2>2, MoveTyped DEF Typed, TypeOK, Steps
  <1>7. CASE ReadRoot2(c) /\ ~End(c)
    <2>1. /\ pc[c] = "root2" /\ Goto(c, IF job[c].kind = "admit" THEN "consume" ELSE "commit")
          /\ UNCHANGED <<before, root, after, Durables>>
      BY <1>7 DEF ReadRoot2
    <2>2. job[c] \in Jobs /\ job[c].kind \in {"admit", "finalize"}
      BY <2>1, <1>0, JobRecord DEF ClientTyped
    <2>3. ClientTyped(c)'
      BY <2>1, <2>2 DEF Goto, Typed, TypeOK, ClientTyped, Authenticated
    <2> QED BY <2>1, <2>2, <2>3, MoveTyped DEF Typed, TypeOK, Steps
  <1>8. CASE consume_replay(c)
    <2>1. CASE End(c)
      BY <1>0, <1>8, <2>1, EndTyped DEF consume_replay
    <2>2. CASE ~End(c)
      <3>1. /\ pc[c] = "consume" /\ Goto(c, "return")
            /\ UNCHANGED <<before, root, after, state, roots, expired, receipts, finals, everRevoked>>
        BY <1>8, <2>2 DEF consume_replay
      <3>2. ClientTyped(c)'
        BY <3>1 DEF Goto, Typed, TypeOK, ClientTyped, Authenticated
      <3> QED BY <3>1, <3>2, MoveTyped DEF Typed, TypeOK, Steps
    <2> QED BY <2>1, <2>2
  <1>9. CASE ReturnReceipt(c)
    BY <1>0, <1>9, EndTyped, NewReceiptTyped DEF ReturnReceipt
  <1>10. CASE finalize_binding(c)
    <2>1. /\ job[c] \in Jobs /\ job[c].receipt \in Receipts
          /\ job[c].evidence \in Evidence /\ job[c].nonce \in Nonces
      BY <1>0, <1>10, JobRecord DEF finalize_binding, ClientTyped
    <2>2. finals' \subseteq Finals
      BY <1>0, <1>10, <2>1 DEF finalize_binding, Finals
    <2> QED BY <1>0, <1>10, <2>2, EndTyped DEF finalize_binding
  <1>11. CASE Crash(c)
    BY <1>3, <1>11 DEF Crash
  <1> QED
    <2>1. ReadState1(c) /\ End(c) => UNCHANGED Durables
      BY DEF ReadState1
    <2>2. ReadRoot1(c) /\ End(c) => UNCHANGED Durables
      BY DEF ReadRoot1
    <2>3. ReadRoot2(c) /\ End(c) => UNCHANGED Durables
      BY DEF ReadRoot2
    <2> QED BY <1>1, <1>2, <1>3, <1>4, <1>5, <1>6, <1>7, <1>8, <1>9, <1>10, <1>11,
               <2>1, <2>2, <2>3 DEF ClientStep

------------------------------------------------------------------------------
(* The epoch row: what was read of it, and what revocation leaves behind.  *)

LEMMA GrantsOfEpoch ==
  ASSUME NEW e \in Epochs, NEW f \in Epochs, e # f
  PROVE  GrantsOf(e) \cap GrantsOf(f) = {}
  BY AuthorityAssumption DEF GrantsOf

LEMMA FreshInit == ASSUME Init PROVE Fresh
  BY DEF Init, Fresh, ClientFresh, RevokedKept, Authenticated

\* A write of the epoch row has a version of its own, so that what was read of the
\* row before is of an older version.
LEMMA WriteFresh ==
  ASSUME Typed, Fresh, NEW e \in Epochs, NEW revoked \in SUBSET Grants,
         bootstrap_context(e, revoked) \/ advance_epoch(e, revoked)
  PROVE  Fresh'
  <1>1. UNCHANGED <<locals, receipts>>
    BY DEF bootstrap_context, advance_epoch
  <1>2. /\ everRevoked' = everRevoked \cup (revoked \cap GrantsOf(e))
        /\ state'.epoch = e /\ state'.revoked = revoked /\ state'.version \in Nat \ {0}
        /\ state' # None
    <2>1. PICK v : /\ state' = [epoch |-> e, revoked |-> revoked, version |-> v]
                   /\ everRevoked' = everRevoked \cup (revoked \cap GrantsOf(e))
                   /\ v = 1 \/ (state # None /\ v = state.version + 1)
      BY DEF bootstrap_context, advance_epoch, WriteState
    <2>2. v \in Nat \ {0}
      <3>1. CASE v = 1
        BY <3>1
      <3>2. CASE state # None /\ v = state.version + 1
        BY <3>2, EpochStateRecord DEF Typed, TypeOK
      <3> QED BY <2>1, <3>1, <3>2
    <2>3. state' \in EpochState
      BY <2>1, <2>2 DEF EpochState
    <2> QED BY <2>1, <2>2, <2>3, EpochStateRecord
  <1>3. state # None => state \in EpochState /\ state'.version = state.version + 1
                        /\ MayAdvance(e, revoked)
    BY DEF bootstrap_context, advance_epoch, WriteState, Typed, TypeOK
  <1>4. ASSUME NEW c \in Clients PROVE ClientFresh(c)'
    <2>1. ClientFresh(c) /\ ClientTyped(c)
      BY DEF Fresh, Typed
    <2>2. pc[c] \in Authenticated \cup {"root1"} => Snapshot(before[c])'
      <3> SUFFICES ASSUME pc[c] \in Authenticated \cup {"root1"} PROVE Snapshot(before[c])'
        OBVIOUS
      <3>1. state # None /\ before[c].version <= state.version
        BY <2>1 DEF ClientFresh, Snapshot
      <3>2. before[c].version \in Nat /\ state.version \in Nat
        BY <1>3, <2>1, <3>1, EpochStateRecord DEF ClientTyped
      <3>3. before'[c].version < state'.version
        BY <1>1, <1>3, <3>1, <3>2 DEF locals
      <3> QED BY <1>1, <1>2, <3>2, <3>3 DEF Snapshot, locals
    <2> QED BY <1>1, <2>1, <2>2 DEF ClientFresh, locals, _authenticate_record
  <1>5. ASSUME NEW r \in receipts PROVE ReceiptFresh(r)'
    <2>1. state # None /\ r.version <= state.version
      BY DEF Fresh, ReceiptFresh
    <2>2. r.version \in Nat /\ state.version \in Nat
      BY <1>3, <2>1, EpochStateRecord DEF Typed, TypeOK, Receipts
    <2>3. r.version < state'.version
      BY <1>3, <2>1, <2>2
    <2> QED BY <1>2, <2>2, <2>3 DEF ReceiptFresh
  <1>6. RevokedKept'
    <2>0. everRevoked \cap GrantsOf(e) \subseteq revoked
          /\ \A f \in Epochs : f > e => everRevoked \cap GrantsOf(f) = {}
      <3>1. CASE state = None
        BY <3>1 DEF Fresh, RevokedKept
      <3>2. CASE state # None
        <4>1. state.epoch \in Nat /\ e \in Nat /\ e >= state.epoch
          BY <1>3, <3>2, EpochStateRecord, AuthorityAssumption DEF MayAdvance, Epochs
        <4>2. \A f \in Epochs : f > e => f > state.epoch
          BY <4>1, AuthorityAssumption DEF Epochs
        <4>3. everRevoked \cap GrantsOf(e) \subseteq revoked
          <5>1. CASE e = state.epoch
            BY <5>1, <3>2, <1>3 DEF Fresh, RevokedKept, MayAdvance
          <5>2. CASE e > state.epoch
            BY <5>2, <3>2 DEF Fresh, RevokedKept
          <5> QED BY <4>1, <5>1, <5>2
        <4> QED BY <3>2, <4>2, <4>3 DEF Fresh, RevokedKept
      <3> QED BY <3>1, <3>2
    <2>1. everRevoked' \cap GrantsOf(e) \subseteq revoked
      BY <1>2, <2>0
    <2>2. ASSUME NEW f \in Epochs, f > e PROVE everRevoked' \cap GrantsOf(f) = {}
      <3>1. e # f
        BY <2>2, AuthorityAssumption DEF Epochs
      <3> QED BY <1>2, <2>0, <2>2, <3>1, GrantsOfEpoch
    <2> QED BY <1>2, <2>1, <2>2 DEF RevokedKept
  <1> QED BY <1>1, <1>4, <1>5, <1>6 DEF Fresh

LEMMA WriterFresh == ASSUME Typed, Fresh, WriterStep PROVE Fresh'
  <1>1. CASE UNCHANGED <<state, everRevoked, locals, receipts>>
    BY <1>1 DEF Fresh, ClientFresh, ReceiptFresh, RevokedKept, Snapshot, _authenticate_record, locals
  <1> QED BY <1>1, WriteFresh DEF WriterStep, register_root, Expire, tables

LEMMA ClientStepFresh ==
  ASSUME Typed, Fresh, NEW c \in Clients, ClientStep(c)
  PROVE  Fresh'
  <1>0. ClientFresh(c) /\ ClientTyped(c)
    BY DEF Fresh, Typed
  <1>1. UNCHANGED <<state, everRevoked>>
    BY ClientFrame
  <1>2. RevokedKept'
    BY <1>1 DEF Fresh, RevokedKept
  <1>3. \A d \in Clients \ {c} : ClientFresh(d)'
    BY <1>1, ClientFrame DEF Fresh, ClientFresh, Snapshot, _authenticate_record
  <1>4. ClientFresh(c)'
    <2>1. CASE pc'[c] \in {"idle", "state1"}
      BY <2>1 DEF ClientFresh, Authenticated
    <2>2. CASE pc'[c] = "root1"
      <3>1. before'[c] = state /\ state # None
        BY <2>2 DEF ClientStep, admit, revalidate, Begin, End, Goto, ReadState1, ReadRoot1, ReadState2,
               ReadRoot2, consume_replay, ReturnReceipt, finalize_binding, Crash, Typed, TypeOK
      <3>2. state.version <= state.version
        BY <3>1, EpochStateRecord DEF Typed, TypeOK
      <3> QED BY <1>1, <2>2, <3>1, <3>2 DEF ClientFresh, Snapshot, Authenticated
    <2>3. CASE pc'[c] = "state2"
      <3>1. /\ pc[c] = "root1" /\ before'[c] = before[c] /\ job'[c] = job[c]
            /\ _authenticate_record(job[c], before[c], root'[c])
        BY <2>3 DEF ClientStep, admit, revalidate, Begin, End, Goto, ReadState1, ReadRoot1, ReadState2,
               ReadRoot2, consume_replay, ReturnReceipt, finalize_binding, Crash, Typed, TypeOK
      <3> QED BY <1>0, <1>1, <2>3, <3>1 DEF ClientFresh, Snapshot, _authenticate_record
    <2>4. CASE pc'[c] \in Authenticated \ {"state2"}
      <3>1. /\ pc[c] \in Authenticated /\ before'[c] = before[c] /\ job'[c] = job[c]
            /\ root'[c] = root[c]
        BY <2>4 DEF ClientStep, admit, revalidate, Begin, End, Goto, ReadState1, ReadRoot1, ReadState2,
               ReadRoot2, consume_replay, ReturnReceipt, finalize_binding, Crash, Typed, TypeOK,
               Authenticated
      <3> QED BY <1>0, <1>1, <3>1 DEF ClientFresh, Snapshot, _authenticate_record
    <2>5. pc'[c] \in Steps
      BY ClientStepTyped DEF Typed, TypeOK
    <2> QED BY <2>1, <2>2, <2>3, <2>4, <2>5 DEF Steps, Authenticated
  <1>5. \A r \in receipts' : ReceiptFresh(r)'
    <2>1. \A r \in receipts : ReceiptFresh(r)'
      BY <1>1 DEF Fresh, ReceiptFresh
    <2>2. CASE receipts' = receipts
      BY <2>1, <2>2
    <2>3. CASE ReturnReceipt(c)
      <3>0. PICK r : r = [lineage |-> job[c].lineage, epoch |-> before[c].epoch,
                          version |-> before[c].version, root |-> root[c], nonce |-> job[c].nonce,
                          by |-> c]
        OBVIOUS
      <3>1. receipts' = receipts \cup {r} /\ pc[c] = "return"
        BY <2>3, <3>0 DEF ReturnReceipt
      <3>2. Snapshot(before[c]) /\ _authenticate_record(job[c], before[c], root[c])
        BY <1>0, <3>1 DEF ClientFresh, Authenticated
      <3>3. r.lineage = job[c].lineage /\ r.version = before[c].version
        BY <3>0
      <3>4. ReceiptFresh(r)'
        BY <1>1, <3>2, <3>3 DEF ReceiptFresh, Snapshot, _authenticate_record
      <3> QED BY <2>1, <3>1, <3>4
    <2> QED BY <2>2, <2>3 DEF ClientStep, admit, revalidate, Begin, ReadState1, ReadRoot1, ReadState2,
               ReadRoot2, consume_replay, finalize_binding, Crash, Durables
  <1> QED BY <1>2, <1>3, <1>4, <1>5 DEF Fresh
------------------------------------------------------------------------------
(* Replay keys.                                                            *)

LEMMA KeyedInit == ASSUME Init PROVE Keyed /\ AcceptedOnce
  BY DEF Init, Keyed, AcceptedOnce

LEMMA WriterKeyed == ASSUME Keyed, AcceptedOnce, WriterStep PROVE Keyed' /\ AcceptedOnce'
  <1>1. UNCHANGED <<replay, locals, receipts, finals>>
    BY DEF WriterStep, bootstrap_context, advance_epoch, register_root, Expire, tables
  <1> QED BY <1>1 DEF Keyed, AcceptedOnce, AdmitKey, locals

\* A step that moves no call to its return and hands out nothing.
LEMMA QuietKeyed ==
  ASSUME Typed, Keyed, AcceptedOnce, NEW c \in Clients, ClientStep(c),
         pc'[c] # "return", UNCHANGED <<receipts, finals>>, replay \subseteq replay'
  PROVE  Keyed' /\ AcceptedOnce'
  <1>1. ASSUME NEW d \in Clients, pc'[d] = "return"
        PROVE  d # c /\ pc[d] = "return" /\ AdmitKey(d)' = AdmitKey(d)
    BY <1>1, ClientFrame DEF AdmitKey
  <1> QED BY <1>1 DEF Keyed, AcceptedOnce

LEMMA ClientStepKeyed ==
  ASSUME Typed, Keyed, AcceptedOnce, NEW c \in Clients, ClientStep(c)
  PROVE  Keyed' /\ AcceptedOnce'
  <1>1. CASE consume_replay(c) /\ ~End(c)
    <2>1. /\ AdmitKey(c) \notin replay /\ replay' = replay \cup {AdmitKey(c)}
          /\ UNCHANGED <<job, before, receipts, finals>> /\ pc' = [pc EXCEPT ![c] = "return"]
      BY <1>1 DEF consume_replay, Goto
    <2>2. \A d \in Clients : AdmitKey(d)' = AdmitKey(d)
      BY <2>1 DEF AdmitKey
    <2>3. \A d \in Clients : d # c => pc'[d] = pc[d]
      BY <2>1 DEF Typed, TypeOK
    <2> QED BY <2>1, <2>2, <2>3 DEF Keyed, AcceptedOnce
  <1>2. CASE ReturnReceipt(c)
    <2>0. PICK r : r = [lineage |-> job[c].lineage, epoch |-> before[c].epoch,
                        version |-> before[c].version, root |-> root[c], nonce |-> job[c].nonce,
                        by |-> c]
      OBVIOUS
    <2>1. /\ pc[c] = "return" /\ receipts' = receipts \cup {r} /\ UNCHANGED <<replay, finals>>
          /\ pc' = [pc EXCEPT ![c] = "idle"]
      BY <1>2, <2>0 DEF ReturnReceipt, End, tables
    <2>2. ReceiptKey(r) = AdmitKey(c)
      BY <2>0 DEF ReceiptKey, AdmitKey
    <2>3. ASSUME NEW d \in Clients, pc'[d] = "return"
          PROVE  d # c /\ pc[d] = "return" /\ AdmitKey(d)' = AdmitKey(d)
      <3>1. d # c
        BY <2>1, <2>3 DEF Typed, TypeOK
      <3> QED BY <2>3, <3>1, ClientFrame DEF AdmitKey
    <2>4. Keyed'
      <3>1. \A q \in receipts' : ReceiptKey(q) \in replay'
        BY <2>1, <2>2 DEF Keyed
      <3>2. ASSUME NEW d \in Clients, pc'[d] = "return"
            PROVE  \A q \in receipts' : ReceiptKey(q) # AdmitKey(d)'
        BY <2>1, <2>2, <2>3, <3>2 DEF Keyed
      <3> QED BY <2>1, <2>3, <3>1, <3>2 DEF Keyed
    <2>5. \A q \in receipts : ReceiptKey(q) # ReceiptKey(r)
      BY <2>1, <2>2 DEF Keyed
    <2>6. AcceptedOnce'
      <3>1. ASSUME NEW q \in receipts', NEW s \in receipts',
                   ReceiptKey(q) = ReceiptKey(s)
            PROVE  q = s
        <4>1. CASE q \in receipts /\ s \in receipts
          BY <3>1, <4>1 DEF AcceptedOnce, ReceiptKey
        <4> QED BY <2>1, <2>5, <3>1, <4>1
      <3> QED BY <2>1, <3>1 DEF AcceptedOnce, ReceiptKey
    <2> QED BY <2>4, <2>6
  <1>3. CASE finalize_binding(c) /\ finals' # finals
    <2>0. PICK f : f = [receipt |-> job[c].receipt, evidence |-> job[c].evidence,
                        nonce |-> job[c].nonce, by |-> c]
      OBVIOUS
    <2>1. /\ FinalizationKey(f) \notin replay /\ replay' = replay \cup {FinalizationKey(f)}
          /\ finals' = finals \cup {f} /\ UNCHANGED receipts
          /\ pc' = [pc EXCEPT ![c] = "idle"]
      BY <1>3, <2>0 DEF finalize_binding, FinalKey, FinalizationKey, End
    <2>2. ASSUME NEW d \in Clients, pc'[d] = "return"
          PROVE  d # c /\ pc[d] = "return" /\ AdmitKey(d)' = AdmitKey(d)
      <3>1. d # c
        BY <2>1, <2>2 DEF Typed, TypeOK
      <3> QED BY <2>2, <3>1, ClientFrame DEF AdmitKey
    <2>3. Keyed'
      BY <2>1, <2>2 DEF Keyed
    <2>4. \A g \in finals : FinalizationKey(g) # FinalizationKey(f)
      BY <2>1 DEF Keyed
    <2>5. \A g, h \in finals' : FinalizationKey(g) = FinalizationKey(h) => g = h
      <3>1. \A g, h \in finals : FinalizationKey(g) = FinalizationKey(h) => g = h
        BY DEF AcceptedOnce, FinalizationKey
      <3> QED BY <2>1, <2>4, <3>1
    <2>6. AcceptedOnce'
      BY <2>1, <2>5 DEF AcceptedOnce, FinalizationKey
    <2> QED BY <2>3, <2>6
  <1>4. CASE ~(consume_replay(c) /\ ~End(c)) /\ ~ReturnReceipt(c)
             /\ ~(finalize_binding(c) /\ finals' # finals)
    <2>1. UNCHANGED <<receipts, finals>> /\ replay \subseteq replay'
      BY <1>4 DEF ClientStep, admit, revalidate, Begin, ReadState1, ReadRoot1, ReadState2,
             ReadRoot2, consume_replay, finalize_binding, Crash, Durables, tables
    <2>2. pc'[c] # "return"
      BY <1>4 DEF ClientStep, admit, revalidate, Begin, End, Goto, ReadState1, ReadRoot1, ReadState2,
             ReadRoot2, consume_replay, finalize_binding, Crash, Typed, TypeOK
    <2> QED BY <2>1, <2>2, QuietKeyed
  <1> QED BY <1>1, <1>2, <1>3, <1>4
------------------------------------------------------------------------------
LEMMA StepCases ==
  ASSUME Next
  PROVE  WriterStep \/ \E c \in Clients : ClientStep(c)
  BY DEF Next, WriterStep, ClientStep

LEMMA AuthorityInvStep == ASSUME AuthorityInv, [Next]_vars PROVE AuthorityInv'
  <1>1. CASE WriterStep
    BY <1>1, WriterTyped, WriterFresh, WriterKeyed DEF AuthorityInv
  <1>2. CASE \E c \in Clients : ClientStep(c)
    BY <1>2, ClientStepTyped, ClientStepFresh, ClientStepKeyed DEF AuthorityInv
  <1>3. CASE UNCHANGED vars
    <2>1. Typed'
      BY <1>3 DEF AuthorityInv, vars, Typed, TypeOK, ClientTyped
    <2>2. Fresh'
      BY <1>3 DEF AuthorityInv, vars, Fresh, ClientFresh, ReceiptFresh, RevokedKept, Snapshot,
                  _authenticate_record
    <2>3. Keyed' /\ AcceptedOnce'
      BY <1>3 DEF AuthorityInv, vars, Keyed, AcceptedOnce, AdmitKey
    <2> QED BY <2>1, <2>2, <2>3 DEF AuthorityInv
  <1> QED BY <1>1, <1>2, <1>3, StepCases

LEMMA AuthorityInvariant == Spec => []AuthorityInv
  <1>1. Init => AuthorityInv
    BY TypedInit, FreshInit, KeyedInit DEF AuthorityInv
  <1>2. AuthorityInv /\ [Next]_vars => AuthorityInv'
    BY AuthorityInvStep
  <1> QED BY <1>1, <1>2, PTL DEF Spec

\* The tables and the snapshots of every call keep their types: a call that reached its
\* authentication always holds an epoch row and a root.
THEOREM AuthorityTyped == Spec => []TypeOK
  <1>1. AuthorityInv => TypeOK
    BY DEF AuthorityInv, Typed
  <1> QED BY <1>1, AuthorityInvariant, PTL

\* DurableReplayGuard.consume and finalize_binding: one receipt per admission key and one
\* finalization per receipt, runtime evidence and nonce, for any number of concurrent
\* callers and crashes.
THEOREM AuthorityAcceptsOnce == Spec => []AcceptedOnce
  <1>1. AuthorityInv => AcceptedOnce
    BY DEF AuthorityInv
  <1> QED BY <1>1, AuthorityInvariant, PTL

\* finalize_binding looks up the leaf grant alone, and still no binding is finalized for a
\* lineage with any grant that was ever revoked in its epoch: equal versions carry the
\* whole authentication of admit over to the finalizing transaction.
THEOREM AuthorityRevocation == Spec => RevocationIsForever
  <1> DEFINE Safe == \A f \in finals' \ finals : f.receipt.lineage.grants \cap everRevoked' = {}
  <1>1. ASSUME AuthorityInv, [Next]_vars PROVE [Safe]_vars
    <2>1. CASE finals' \subseteq finals
      BY <2>1
    <2>2. ASSUME NEW c \in Clients, finalize_binding(c), finals' # finals PROVE Safe
      <3>1. PICK r : r = job[c].receipt
        OBVIOUS
      <3>2. /\ pc[c] = "commit" /\ StillCurrent(c) /\ everRevoked' = everRevoked
            /\ \A f \in finals' \ finals : f.receipt = r
        BY <2>2, <3>1 DEF finalize_binding
      <3>3. r \in receipts /\ r.lineage \in Lineages
        BY <1>1, <3>1, <3>2 DEF AuthorityInv, Typed, TypeOK, ClientTyped, Receipts
      <3>4. ReceiptFresh(r) /\ r.version = state.version
        BY <1>1, <3>1, <3>2, <3>3 DEF StillCurrent, AuthorityInv, Fresh
      <3>5. r.lineage.grants \subseteq GrantsOf(state.epoch)
        BY <3>3, <3>4 DEF ReceiptFresh, GrantsOf
      <3>6. everRevoked \cap GrantsOf(state.epoch) \subseteq state.revoked
        BY <1>1, <3>4 DEF ReceiptFresh, AuthorityInv, Fresh, RevokedKept
      <3>7. r.lineage.grants \cap everRevoked = {}
        BY <3>4, <3>5, <3>6 DEF ReceiptFresh
      <3> QED BY <3>2, <3>7
    <2>3. CASE Next /\ ~(finals' \subseteq finals)
      <3>1. PICK c \in Clients : ClientStep(c)
        BY <2>3, StepCases DEF WriterStep, bootstrap_context, advance_epoch, register_root, Expire
      <3>2. finalize_binding(c)
        BY <2>3, <3>1 DEF ClientStep, admit, revalidate, Begin, ReadState1, ReadRoot1, ReadState2,
             ReadRoot2, consume_replay, ReturnReceipt, Crash, Durables
      <3> QED BY <2>2, <2>3, <3>2
    <2>4. CASE UNCHANGED vars
      BY <2>4
    <2> QED BY <1>1, <2>1, <2>3, <2>4
  <1>2. AuthorityInv /\ [Next]_vars => [Safe]_vars
    BY <1>1
  <1> QED BY <1>2, AuthorityInvariant, PTL DEF Spec, RevocationIsForever
==============================================================================
