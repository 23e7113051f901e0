------------------------------- MODULE FileWrite -------------------------------
(***************************************************************************)
(* The mediated write of one host file: CanonicalMoonFileWriteMediator and *)
(* its fence (src/cyber_lion/enterprise/moon_file_write_mediation.py), the *)
(* permission resolver and the effect provider (moon_file_write.py).       *)
(*                                                                         *)
(* One target.  A file is an inode and a content; a symbolic link, a       *)
(* directory or a file of another size is a content that no request names. *)
(* The temporary file of an effect has an inode of its own, its key.       *)
(* Hashing a file is one step: stat, open, hash and stat again yield one   *)
(* identity or raise.  An admission is a function of the request and of    *)
(* the actor's permission, which can be taken away and given back.         *)
(***************************************************************************)
EXTENDS EffectFence

CONSTANTS
    Requests,             \* [id, mode, previous, content]
    Contents,
    Permissions, Trusted, \* TRUSTED_PERMISSIONS
    Inodes,               \* inodes of other writers
    MaxOther

FileConstants ==
    /\ Keys = [request : Requests, permission : Trusted]
    /\ Trusted \subseteq Permissions /\ MaxOther \in Nat
    /\ None \notin Contents /\ None \notin Keys /\ None \notin Row
    /\ \A r \in Requests :
        /\ r.mode \in {"CREATE_ONLY", "REPLACE"} /\ r.content \in Contents
        /\ IF r.mode = "REPLACE" THEN r.previous \in Contents ELSE r.previous = None

VARIABLES
    file,        \* the target: a File or None
    permission,  \* the actor's permission now
    others,      \* writes of others so far
    temp,        \* effects whose temporary file is on disk
    seen,        \* each worker's last observation of the target
    over,        \* the content each effect's write replaced
    stuck,       \* effects whose temporary file could not be unlinked
    lost         \* effects whose worker died

env == <<permission, others>>
disk == <<file, temp, stuck, over, calls>>
vars == <<fence, pc, job, file, permission, others, temp, stuck, seen, over, calls, lost>>

File == [inode : Keys \cup Inodes, content : Contents]
Places == {"idle", "resolve", "resolve_again", "prepare", "recheck", "attempt", "write", "temp",
           "identity", "commit", "clean", "clean_failed", "observe", "observed", "verdict", "failed"}

Unprepared == {"resolve", "resolve_again", "prepare"}
Writing == {"identity", "commit", "clean", "clean_failed"}  \* inside write_exact's try block

TypeOK ==
    /\ FenceType /\ pc \in [Workers -> Places]
    /\ file \in File \cup {None} /\ seen \in [Workers -> File \cup {None}]
    /\ permission \in Permissions /\ others \in 0..MaxOther
    /\ calls \in [Keys -> Nat] /\ temp \subseteq Keys
    /\ stuck \subseteq Keys /\ lost \subseteq Keys
    /\ over \in [Keys -> Contents \cup {None}]

Init ==
    /\ FenceInit
    /\ file \in [inode : Inodes, content : Contents] \cup {None}
    /\ permission \in Permissions /\ others = 0
    /\ temp = {} /\ stuck = {} /\ lost = {}
    /\ seen = [w \in Workers |-> None]
    /\ over = [k \in Keys |-> None]
-------------------------------------------------------------------------------
(* The world.                                                              *)

PermissionChanges(p) ==
    /\ others < MaxOther /\ others' = others + 1
    /\ p # permission /\ permission' = p
    /\ UNCHANGED <<fence, pc, job, disk, seen, lost>>

\* Another process creates, replaces, rewrites in place or removes the target.
OtherWrites(f) ==
    /\ others < MaxOther /\ others' = others + 1
    /\ f # file /\ file' = f
    /\ UNCHANGED <<fence, pc, job, permission, temp, stuck, seen, over, calls, lost>>
-------------------------------------------------------------------------------
(* The mediator.                                                           *)

Request(w) == job[w].request

_require_pre_state(r, f) ==
    IF r.mode = "CREATE_ONLY" THEN f = None ELSE f # None /\ f.content = r.previous

execute(w, r) ==
    /\ At(w, "idle") /\ _require_pre_state(r, file)
    /\ seen' = [seen EXCEPT ![w] = file]
    /\ \E k \in Keys : k.request = r /\ job' = [job EXCEPT ![w] = k]
    /\ Goto(w, "resolve")
    /\ UNCHANGED <<fence, env, disk, lost>>

\* _PermissionAdmissionResolver.resolve; an untrusted permission raises.
resolve(w) ==
    /\ At(w, "resolve")
    /\ IF permission \in Trusted
       THEN job' = [job EXCEPT ![w].permission = permission] /\ Goto(w, "resolve_again")
       ELSE Finish(w)
    /\ UNCHANGED <<fence, env, disk, seen, lost>>

_require_current_admission(w) == permission = job[w].permission

ResolveAgain(w) ==
    /\ At(w, "resolve_again")
    /\ IF _require_current_admission(w) THEN Goto(w, "prepare") /\ UNCHANGED job ELSE Finish(w)
    /\ UNCHANGED <<fence, env, disk, seen, lost>>

\* Wrong variant: only the effect key is unique.
TakenEffect(k) == fence[k] # None

\* request_digest and admission_digest are UNIQUE, and an admission names its request.
Taken(k) == \E j \in Keys : j.request = k.request /\ fence[j] # None

prepare(w) ==
    /\ At(w, "prepare")
    /\ Prepare(w, Taken(job[w]), "recheck", "idle")
    /\ UNCHANGED <<env, disk, seen, lost>>

Recheck(w) ==
    /\ At(w, "recheck")
    /\ GoOrRaise(w, _require_current_admission(w) /\ file = seen[w], "attempt")
    /\ UNCHANGED <<env, disk, seen, lost>>

mark_attempted(w) ==
    /\ At(w, "attempt")
    /\ MarkAttempted(w, "write")
    /\ UNCHANGED <<env, disk, seen, lost>>

\* write_exact up to the temporary file: the target is looked at once more.
write_exact(w) ==
    /\ At(w, "write")
    /\ GoOrRaise(w, fence[job[w]].state = "ATTEMPTED" /\ _require_pre_state(Request(w), file), "temp")
    /\ seen' = [seen EXCEPT ![w] = file]
    /\ UNCHANGED <<env, disk, lost>>

\* The temporary file is written and synced, or an error is raised before or after
\* it was created.
WriteTemp(w, ok) ==
    /\ At(w, "temp")
    /\ temp' \in {temp \cup {job[w]}} \cup (IF ok THEN {} ELSE {temp})
    /\ Goto(w, CASE ~ok -> "clean_failed" [] ok /\ Request(w).mode = "REPLACE" -> "identity"
                 [] OTHER -> "commit")
    /\ UNCHANGED <<fence, job, env, file, stuck, over, calls, seen, lost>>

_require_replace_identity(w) ==
    /\ At(w, "identity")
    /\ Goto(w, IF file = seen[w] THEN "commit" ELSE "clean_failed")
    /\ UNCHANGED <<fence, job, env, disk, seen, lost>>

Materialize(w) ==
    /\ file' = [inode |-> job[w], content |-> Request(w).content]
    /\ over' = [over EXCEPT ![job[w]] = IF file = None THEN None ELSE file.content]
    /\ Calls(w)
    /\ Goto(w, "clean")

\* Wrong variant: the name is taken over by rename.
LinkByRename(w, ok) ==
    /\ At(w, "commit") /\ Request(w).mode = "CREATE_ONLY"
    /\ Materialize(w)
    /\ UNCHANGED <<fence, job, env, temp, stuck, seen, lost>>

\* os.link fails when the name exists, os.replace never looks; either may also fail
\* for another reason, with nothing written.
link(w, ok) ==
    /\ At(w, "commit") /\ Request(w).mode = "CREATE_ONLY"
    /\ IF ok /\ file = None THEN Materialize(w)
       ELSE Goto(w, "clean_failed") /\ UNCHANGED <<file, over, calls>>
    /\ UNCHANGED <<fence, job, env, temp, stuck, seen, lost>>

replace(w, ok) ==
    /\ At(w, "commit") /\ Request(w).mode = "REPLACE"
    /\ IF ok THEN Materialize(w) /\ temp' = temp \ {job[w]}
       ELSE Goto(w, "clean_failed") /\ UNCHANGED <<file, over, calls, temp>>
    /\ UNCHANGED <<fence, job, env, stuck, seen, lost>>

\* The finally clause unlinks the temporary file; only FileNotFoundError is swallowed.
Unlink(w, unlinked) ==
    /\ temp' = IF unlinked THEN temp \ {job[w]} ELSE temp
    /\ stuck' = IF unlinked \/ job[w] \notin temp THEN stuck ELSE stuck \cup {job[w]}

\* Wrong variants: the temporary file is unlinked after a success only, or its error
\* and the write's are swallowed.
CleanupAfterSuccess(w, ok, unlinked) ==
    /\ At(w, "clean") \/ At(w, "clean_failed")
    /\ IF At(w, "clean") THEN Unlink(w, unlinked) ELSE UNCHANGED <<temp, stuck>>
    /\ Goto(w, IF ok /\ unlinked /\ At(w, "clean") THEN "observe" ELSE "failed")
    /\ UNCHANGED <<fence, job, env, file, over, calls, seen, lost>>
CleanupSwallows(w, ok, unlinked) ==
    /\ At(w, "clean") \/ At(w, "clean_failed")
    /\ Unlink(w, unlinked)
    /\ Goto(w, "observe")
    /\ UNCHANGED <<fence, job, env, file, over, calls, seen, lost>>

\* The directory is synced after a success, which may fail, and the temporary file is
\* unlinked either way; an error of either leaves through mark_unknown.
Cleanup(w, ok, unlinked) ==
    /\ At(w, "clean") \/ At(w, "clean_failed")
    /\ Unlink(w, unlinked)
    /\ Goto(w, IF ok /\ unlinked /\ At(w, "clean") THEN "observe" ELSE "failed")
    /\ UNCHANGED <<fence, job, env, file, over, calls, seen, lost>>

\* The independent observer; it raises when the file changes under it.
Observe(w) ==
    /\ At(w, "observe")
    /\ seen' = [seen EXCEPT ![w] = file]
    /\ \E ok \in BOOLEAN : GoOrRaise(w, ok, "observed")
    /\ UNCHANGED <<env, disk, lost>>

mark_observed(w) ==
    /\ At(w, "observed")
    /\ MarkObserved(w, "verdict")
    /\ UNCHANGED <<env, disk, seen, lost>>

\* MATCH is reconciled, MISMATCH returns a receipt over an UNKNOWN effect.
Match(w) == seen[w] # None /\ seen[w].content = Request(w).content
mark_reconciled(w) ==
    /\ At(w, "verdict")
    /\ IF Match(w) THEN MarkReconciled(w, "idle") ELSE MarkUnknown(w, "idle")
    /\ UNCHANGED <<env, disk, seen, lost>>

\* Wrong variant: only an attempted effect is marked.
MarkUnknownAttempted(w) ==
    /\ At(w, "failed")
    /\ fence' = IF fence[job[w]].state = "ATTEMPTED"
                THEN [fence EXCEPT ![job[w]].state = "UNKNOWN"] ELSE fence
    /\ Finish(w)
    /\ UNCHANGED <<env, disk, seen, lost>>

mark_unknown(w) ==
    /\ At(w, "failed")
    /\ MarkUnknown(w, "idle")
    /\ UNCHANGED <<env, disk, seen, lost>>

\* The runner dies, or the last mark fails and its error is swallowed.
Crash(w) ==
    /\ ~At(w, "idle")
    /\ lost' = IF pc[w] \in Unprepared THEN lost ELSE lost \cup {job[w]}
    /\ Finish(w)
    /\ UNCHANGED <<fence, env, disk, seen>>
-------------------------------------------------------------------------------
Step(w) ==
    \/ resolve(w) \/ ResolveAgain(w) \/ prepare(w) \/ Recheck(w) \/ mark_attempted(w) \/ write_exact(w)
    \/ _require_replace_identity(w)
    \/ \E ok \in BOOLEAN : WriteTemp(w, ok) \/ link(w, ok) \/ replace(w, ok)
    \/ \E ok, unlinked \in BOOLEAN : Cleanup(w, ok, unlinked)
    \/ Observe(w) \/ mark_observed(w) \/ mark_reconciled(w) \/ mark_unknown(w)

Next ==
    \/ \E p \in Permissions : PermissionChanges(p)
    \/ \E f \in [inode : Inodes, content : Contents] \cup {None} : OtherWrites(f)
    \/ \E w \in Workers :
        \/ \E r \in Requests : execute(w, r)
        \/ Step(w) \/ Crash(w)

Spec == Init /\ [][Next]_vars

\* A run that is not killed goes on: its calls are local or have a timeout.
FairSpec == Spec /\ \A w \in Workers : WF_vars(Step(w))
-------------------------------------------------------------------------------
(* Properties.                                                             *)

\* CREATE_ONLY never replaces a file, although the target is looked at three times
\* before and anybody may create it in between: os.link decides.
CreateNeverOverwrites ==
    \A k \in Keys : k.request.mode = "CREATE_ONLY" => over[k] = None

\* RECONCILED is this effect's own write, and not another's file of the same content.
ReconciledWasApplied ==
    \A k \in Keys : fence[k] # None /\ fence[k].state = "RECONCILED" => calls[k] = 1

\* A temporary file that no running write owns is left by a runner that died or by an
\* unlink that failed.  In the second case the error is not swallowed: the effect is on
\* its way to UNKNOWN or there, and never RECONCILED over the garbage.
TempIsCollected ==
    \A k \in temp :
        \/ k \in lost
        \/ \E w \in Workers : job[w] = k /\ pc[w] \in Writing
        \/ k \in stuck /\ fence[k].state \in {"ATTEMPTED", "UNKNOWN"}

\* Every prepared write gets a verdict, unless its runner died.
EveryWriteGetsVerdict ==
    \A k \in Keys : (fence[k] # None) ~>
        (k \in lost \/ (fence[k] # None /\ fence[k].state \notin Undecided))

FileEffects == INSTANCE EffectOnce WITH
    Effects <- Keys, Rivals <- SameRequest, Late <- FALSE, phase <- Phase

\* A request is written at most once, under whichever permission, and only while its
\* attempt is on record.
FileImplementsEffectOnce == FileEffects!OnceSpec
===============================================================================
