------------------------------ MODULE Deletion ------------------------------
(***************************************************************************)
(* The deletion flow of the cluster controller (handleDeletion): a         *)
(* Terminating CloudberryCluster is taken through the backup gate, the     *)
(* deletion of its PVCs and the removal of its finalizer.  The reconciler  *)
(* is a sequential process (pc); every API call is a step, a failed call   *)
(* or a crash of the operator abandons the pass (Abandon), and the next    *)
(* pass starts again from what was persisted.  Jobs are read through the   *)
(* manager's cached client, so a read may lag behind the API server.       *)
(***************************************************************************)
EXTENDS Naturals

CONSTANT
    PVCs         \* the persistent volume claims labelled with the cluster

VARIABLES
    policy,      \* spec.deletionPolicy
    backup,      \* spec.backupOnDelete
    deleting,    \* metadata.deletionTimestamp is set
    finalizer,   \* the operator's finalizer is on the object
    phase,       \* status.phase, as far as deletion is concerned
    jobAnn,      \* the deletion-backup-job annotation is present
    deadline,    \* the deletion-backup-deadline annotation against the clock
    job,         \* the deletion-backup Job, as the API server has it
    jobCache,    \* the deletion-backup Job, as the cached client reads it
    pvcs,        \* the PVCs not yet deleted
    pc,          \* where the running pass is; "idle" between two passes
    report,      \* the outcomes of the backup the operator has told of
    created,     \* how many Jobs were ever created for this deletion
    vanished     \* how many Jobs were removed by somebody else

spec == <<policy, backup>>
ann == <<jobAnn, deadline>>
jobVars == <<job, jobCache, created, vanished>>
vars == <<spec, deleting, finalizer, phase, ann, jobVars, pvcs, pc, report>>

Policies == {"Delete", "Retain"}
JobStates == {"absent", "running", "succeeded", "failed"}
Terminal == {"succeeded", "failed"}
Steps == {"idle", "gate", "stamp", "pvcs", "finalize"}

\* What the operator tells of a backup, in an event and in the metric (which
\* knows "completed" and "failed" only).
Outcomes == {"completed", "failed", "disappeared"}

\* The backup gate of handleDeletion applies.
Gated == backup /\ policy = "Delete"

TypeOK ==
    /\ policy \in Policies /\ backup \in BOOLEAN
    /\ deleting \in BOOLEAN /\ finalizer \in BOOLEAN
    /\ phase \in {"Live", "Deleting"}
    /\ jobAnn \in BOOLEAN /\ deadline \in {"none", "pending", "passed"}
    /\ job \in JobStates /\ jobCache \in JobStates
    /\ pvcs \in SUBSET PVCs
    /\ pc \in Steps
    /\ report \in SUBSET Outcomes
    /\ created \in Nat /\ vanished \in Nat

Init ==
    /\ policy \in Policies /\ backup \in BOOLEAN
    /\ deleting = FALSE /\ finalizer = TRUE /\ phase = "Live"
    /\ jobAnn = FALSE /\ deadline = "none"
    /\ job = "absent" /\ jobCache = "absent"
    /\ pvcs = PVCs /\ pc = "idle" /\ report = {}
    /\ created = 0 /\ vanished = 0

-----------------------------------------------------------------------------
(* The reconciler. *)

\* handleDeletion: nothing without the finalizer; the phase becomes Deleting.
BeginPass ==
    /\ pc = "idle" /\ deleting /\ finalizer
    /\ phase' = "Deleting"
    /\ pc' = "gate"
    /\ UNCHANGED <<spec, deleting, finalizer, ann, jobVars, pvcs, report>>

\* Mutant: the policy is not looked at.
SkipBackupAnyPolicy ==
    /\ pc = "gate" /\ ~backup
    /\ pc' = "pvcs"
    /\ UNCHANGED <<spec, deleting, finalizer, phase, ann, jobVars, pvcs, report>>

\* No backup was asked for: on to the PVCs, or straight to the finalizer.
SkipBackup ==
    /\ pc = "gate" /\ ~backup
    /\ pc' = IF policy = "Delete" THEN "pvcs" ELSE "finalize"
    /\ UNCHANGED <<spec, deleting, finalizer, phase, ann, jobVars, pvcs, report>>

\* Mutant: the Job is named after the wall clock, so each Create makes one.
CreateJobFreshName ==
    /\ job' = "running" /\ created' = created + 1

\* The API server's answer to Create of the deterministically named Job: an
\* existing Job is kept (AlreadyExists).
CreateJob ==
    IF job = "absent"
      THEN job' = "running" /\ created' = created + 1
      ELSE UNCHANGED <<job, created>>

\* triggerBestEffortDeletionBackup: the volumes survive, nothing waits.
BestEffortBackup ==
    /\ pc = "gate" /\ backup /\ policy = "Retain"
    /\ CreateJob \/ UNCHANGED <<job, created>>
    /\ pc' = "finalize"
    /\ UNCHANGED <<spec, deleting, finalizer, phase, ann, jobCache, vanished, pvcs,
                   report>>

\* startDeletionBackup, first write: the Job is created (or adopted).
StartBackup ==
    /\ pc = "gate" /\ Gated /\ ~jobAnn
    /\ CreateJob
    /\ pc' = "stamp"
    /\ UNCHANGED <<spec, deleting, finalizer, phase, ann, jobCache, vanished, pvcs,
                   report>>

\* Mutant: the failure to create the Job is only logged.
StartBackupRefusedSilently ==
    /\ pc = "gate" /\ Gated /\ ~jobAnn
    /\ CreateJob \/ UNCHANGED <<job, created>>
    /\ pc' = "pvcs"
    /\ UNCHANGED <<spec, deleting, finalizer, phase, ann, jobCache, vanished, pvcs,
                   report>>

\* startDeletionBackup, Create fails with anything but AlreadyExists: the
\* failure is recorded and the deletion proceeds.  The Job may exist all the
\* same: the reply was lost, or an earlier pass created it and its patch failed.
StartBackupRefused ==
    /\ pc = "gate" /\ Gated /\ ~jobAnn
    /\ CreateJob \/ UNCHANGED <<job, created>>
    /\ report' = report \cup {"failed"}
    /\ pc' = "pvcs"
    /\ UNCHANGED <<spec, deleting, finalizer, phase, ann, jobCache, vanished, pvcs>>

\* Mutant: the deadline is stamped in a form the reader does not know.
StampBackupUnformatted ==
    /\ pc = "stamp"
    /\ jobAnn' = TRUE /\ deadline' = "unformatted"
    /\ pc' = "idle"
    /\ UNCHANGED <<spec, deleting, finalizer, phase, jobVars, pvcs, report>>

\* startDeletionBackup, second write: Job name and deadline in one patch; the
\* pass ends and a later one observes the Job.
StampBackup ==
    /\ pc = "stamp"
    /\ jobAnn' = TRUE /\ deadline' = "pending"
    /\ pc' = "idle"
    /\ UNCHANGED <<spec, deleting, finalizer, phase, jobVars, pvcs, report>>

\* What the pass tells of the Job it reads: one that is not found was deleted by
\* somebody; one that is late counts as failed.
Ended ==
    CASE jobCache = "succeeded" -> "completed"
      [] jobCache = "absent" -> "disappeared"
      [] OTHER -> "failed"

\* Mutant: the Job's state is not looked at.
BackupOverUnchecked ==
    /\ pc = "gate" /\ Gated /\ jobAnn
    /\ report' = report \cup {Ended}
    /\ pc' = "pvcs"
    /\ UNCHANGED <<spec, deleting, finalizer, phase, ann, jobVars, pvcs>>

\* Mutant: a Job that ran out of time is recorded as completed.
BackupOverOptimistic ==
    /\ pc = "gate" /\ Gated /\ jobAnn
    /\ jobCache # "running" \/ deadline = "passed"
    /\ report' = report \cup {IF jobCache = "failed" THEN "failed" ELSE "completed"}
    /\ pc' = "pvcs"
    /\ UNCHANGED <<spec, deleting, finalizer, phase, ann, jobVars, pvcs>>

\* Mutant: the deadline is forgotten.
BackupOverNoDeadline ==
    /\ pc = "gate" /\ Gated /\ jobAnn
    /\ jobCache # "running"
    /\ report' = report \cup {Ended}
    /\ pc' = "pvcs"
    /\ UNCHANGED <<spec, deleting, finalizer, phase, ann, jobVars, pvcs>>

\* ensureDeletionBackupComplete: as far as the cache knows the tracked Job is
\* gone, terminal or late; the deadline counts only while it is not terminal.
BackupOver ==
    /\ pc = "gate" /\ Gated /\ jobAnn
    /\ jobCache # "running" \/ deadline = "passed"
    /\ report' = report \cup {Ended}
    /\ pc' = "pvcs"
    /\ UNCHANGED <<spec, deleting, finalizer, phase, ann, jobVars, pvcs>>

\* ensureDeletionBackupComplete: the Job still runs, look again later.
AwaitBackup ==
    /\ pc = "gate" /\ Gated /\ jobAnn
    /\ jobCache = "running" /\ deadline # "passed"
    /\ pc' = "idle"
    /\ UNCHANGED <<spec, deleting, finalizer, phase, ann, jobVars, pvcs, report>>

\* deletePVCs: one Delete of the listed claims.
DeletePVC(v) ==
    /\ pc = "pvcs" /\ v \in pvcs
    /\ pvcs' = pvcs \ {v}
    /\ UNCHANGED <<spec, deleting, finalizer, phase, ann, jobVars, pc, report>>

\* Mutant: an error of deletePVCs is logged and the flow goes on.
PVCsDeletedErrorIgnored ==
    /\ pc = "pvcs"
    /\ pc' = "finalize"
    /\ UNCHANGED <<spec, deleting, finalizer, phase, ann, jobVars, pvcs, report>>

\* deletePVCs returns: every listed claim was deleted.
PVCsDeleted ==
    /\ pc = "pvcs" /\ pvcs = {}
    /\ pc' = "finalize"
    /\ UNCHANGED <<spec, deleting, finalizer, phase, ann, jobVars, pvcs, report>>

\* The finalizer goes last; the API server then removes the object.
RemoveFinalizer ==
    /\ pc = "finalize"
    /\ finalizer' = FALSE
    /\ pc' = "idle"
    /\ UNCHANGED <<spec, deleting, phase, ann, jobVars, pvcs, report>>

\* An API call fails, or the operator dies: the pass ends where it is.
Abandon ==
    /\ pc # "idle"
    /\ pc' = "idle"
    /\ UNCHANGED <<spec, deleting, finalizer, phase, ann, jobVars, pvcs, report>>

-----------------------------------------------------------------------------
(* The environment. *)

UserDeletes ==
    /\ ~deleting
    /\ deleting' = TRUE
    /\ UNCHANGED <<spec, finalizer, phase, ann, jobVars, pvcs, pc, report>>

JobFinishes ==
    /\ job = "running"
    /\ job' \in Terminal
    /\ UNCHANGED <<spec, deleting, finalizer, phase, ann, jobCache, created, vanished,
                   pvcs, pc, report>>

\* Somebody deletes the Job, or its time to live runs out.
JobVanishes ==
    /\ job # "absent" /\ vanished = 0
    /\ job' = "absent" /\ vanished' = 1
    /\ UNCHANGED <<spec, deleting, finalizer, phase, ann, jobCache, created, pvcs, pc,
                   report>>

\* The informer delivers the Job's latest state to the cache.
CacheCatchesUp ==
    /\ jobCache # job
    /\ jobCache' = job
    /\ UNCHANGED <<spec, deleting, finalizer, phase, ann, job, created, vanished, pvcs,
                   pc, report>>

\* deletionBackupDeadlineExceeded: the clock passes the stamped deadline.
DeadlinePasses ==
    /\ deadline = "pending"
    /\ deadline' = "passed"
    /\ UNCHANGED <<spec, deleting, finalizer, phase, jobAnn, jobVars, pvcs, pc, report>>

-----------------------------------------------------------------------------
Pass ==
    \/ BeginPass \/ SkipBackup \/ BestEffortBackup
    \/ StartBackup \/ StartBackupRefused \/ StampBackup
    \/ BackupOver \/ AwaitBackup
    \/ \E v \in PVCs : DeletePVC(v)
    \/ PVCsDeleted \/ RemoveFinalizer

Environment ==
    \/ UserDeletes \/ JobFinishes \/ JobVanishes \/ CacheCatchesUp \/ DeadlinePasses

Next == Pass \/ Abandon \/ Environment

\* The controller's work queue retries a failed pass for ever, so a call that
\* is retried again and again succeeds in the end (strong fairness); time
\* passes.  Nothing is assumed of the Job, of the user or of the informer.
Fairness ==
    /\ WF_vars(BeginPass)
    /\ SF_vars(SkipBackup) /\ SF_vars(BestEffortBackup)
    /\ SF_vars(StartBackup \/ StartBackupRefused) /\ SF_vars(StampBackup)
    /\ SF_vars(BackupOver)
    /\ WF_vars(AwaitBackup)
    /\ \A v \in PVCs : SF_vars(DeletePVC(v))
    /\ SF_vars(PVCsDeleted) /\ SF_vars(RemoveFinalizer)
    /\ WF_vars(DeadlinePasses)

Spec == Init /\ [][Next]_vars /\ Fairness

-----------------------------------------------------------------------------
(* What the deletion flow promises. *)

\* A claim goes under a running tracked backup, before its deadline, only if the
\* operator has told that the Job disappeared: a read of a lagging cache that
\* finds the Job in any state is never the reason (ensureDeletionBackupComplete).
\* A Job that was created again after the first one vanished is left out: the
\* cache may still show how the first one ended.
RunningBackupTold ==
    [][Gated /\ jobAnn /\ pvcs' # pvcs /\ created <= 1
         => job # "running" \/ deadline = "passed" \/ "disappeared" \in report]_vars

\* While the deletion-backup-job annotation is present and the Job is neither
\* terminal nor late, PVC deletion is deferred.  Refuted: a pass that follows the
\* creation before the cache has seen the Job takes it for disappeared.
TrackedBackupBeforeData ==
    [][Gated /\ jobAnn /\ pvcs' # pvcs => job # "running" \/ deadline = "passed"]_vars

\* The same without the annotation: no claim is deleted while the backup Job
\* of a gated deletion runs, before its deadline.
BackupBeforeData ==
    [][Gated /\ pvcs' # pvcs => job # "running" \/ deadline = "passed"]_vars

\* deletionPolicy Retain: whatever fails and is retried, no claim is deleted.
RetainKeepsData == policy = "Retain" => pvcs = PVCs

\* The finalizer goes last: once it is gone no claim of a cluster with
\* deletionPolicy Delete is left behind, and nothing remains to be done.
FinalizerLast == ~finalizer => deleting /\ (policy = "Delete" => pvcs = {})

\* result="completed" is recorded only for a backup that succeeded (it may
\* have been cleaned up since).
HonestReport == "completed" \in report => job = "succeeded" \/ vanished > 0

\* A gated deletion that has begun to delete claims has recorded how its
\* backup ended.
OutcomeRecorded == Gated /\ pvcs # PVCs => report # {}

\* Retries after a failed annotation patch adopt the Job that exists: another
\* one is created only after the first was removed by somebody else.
OneJob == created <= 1 + vanished

\* "A broken backup must never wedge deletion": whatever the Job does, and
\* however often passes fail, the finalizer is removed in the end.
DeletionFinishes == deleting ~> ~finalizer

=============================================================================
