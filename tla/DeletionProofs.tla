--------------------------- MODULE DeletionProofs ---------------------------
(***************************************************************************)
(* Proofs about Deletion, for every set of claims: the inductive invariant *)
(* says what each point of a pass may rely on, the safety properties       *)
(* follow from it.                                                         *)
(***************************************************************************)
EXTENDS Deletion, TLAPS

\* What a pass has established when it is at pc, in whatever pass before it the
\* facts were persisted.
PassInv ==
    /\ pc # "idle" => deleting
    /\ pc = "pvcs" => policy = "Delete"
    /\ pc = "pvcs" /\ backup => report # {}
    /\ pc = "finalize" /\ policy = "Delete" => pvcs = {}

\* Every Job that ever was is accounted for; the cache never shows a success that
\* did not happen, nor the end of a Job that still runs: if it shows an end while a
\* Job runs, that Job is a later one.
JobInv ==
    /\ job = "absent" => created <= vanished
    /\ job # "absent" => created >= 1
    /\ jobCache = "succeeded" => job = "succeeded" \/ vanished > 0
    /\ jobCache \in Terminal => created >= 1 /\ (job = "running" => created > 1)

IInv ==
    /\ TypeOK /\ PassInv /\ JobInv
    /\ RetainKeepsData /\ FinalizerLast /\ HonestReport /\ OutcomeRecorded /\ OneJob

\* Init establishes the invariant.
LEMMA InitIInv == Init => IInv
<1> SUFFICES ASSUME Init PROVE IInv
  OBVIOUS
<1> USE DEF Init
<1>1. TypeOK
  BY DEF TypeOK, Policies, JobStates, Steps, Outcomes
<1>2. PassInv
  BY DEF PassInv
<1>3. JobInv /\ OneJob
  BY DEF JobInv, OneJob, Terminal
<1>4. RetainKeepsData /\ FinalizerLast /\ HonestReport /\ OutcomeRecorded
  BY DEF RetainKeepsData, FinalizerLast, HonestReport, OutcomeRecorded
<1>5. QED
  BY <1>1, <1>2, <1>3, <1>4 DEF IInv

\* Every step of a pass, every abandoned pass and every step of the environment
\* keeps the types.
LEMMA StepTypeOK == TypeOK /\ [Next]_vars => TypeOK'
<1> SUFFICES ASSUME TypeOK, [Next]_vars PROVE TypeOK'
  OBVIOUS
<1> USE DEF TypeOK, Policies, JobStates, Steps, Outcomes, spec, ann, jobVars
<1>1. CASE BeginPass
  BY <1>1 DEF BeginPass
<1>2. CASE SkipBackup
  BY <1>2 DEF SkipBackup
<1>3. CASE BestEffortBackup
  BY <1>3 DEF BestEffortBackup, CreateJob
<1>4. CASE StartBackup
  BY <1>4 DEF StartBackup, CreateJob
<1>5. CASE StartBackupRefused
  BY <1>5 DEF StartBackupRefused, CreateJob
<1>6. CASE StampBackup
  BY <1>6 DEF StampBackup
<1>7. CASE BackupOver
  BY <1>7 DEF BackupOver, Ended
<1>8. CASE AwaitBackup
  BY <1>8 DEF AwaitBackup
<1>9. CASE \E v \in PVCs : DeletePVC(v)
  BY <1>9 DEF DeletePVC
<1>10. CASE PVCsDeleted
  BY <1>10 DEF PVCsDeleted
<1>11. CASE RemoveFinalizer
  BY <1>11 DEF RemoveFinalizer
<1>12. CASE Abandon
  BY <1>12 DEF Abandon
<1>13. CASE UserDeletes
  BY <1>13 DEF UserDeletes
<1>14. CASE JobFinishes
  BY <1>14 DEF JobFinishes, Terminal
<1>15. CASE JobVanishes
  BY <1>15 DEF JobVanishes
<1>16. CASE CacheCatchesUp
  BY <1>16 DEF CacheCatchesUp
<1>17. CASE DeadlinePasses
  BY <1>17 DEF DeadlinePasses
<1>18. CASE UNCHANGED vars
  BY <1>18 DEF vars
<1>19. QED
  BY <1>1, <1>2, <1>3, <1>4, <1>5, <1>6, <1>7, <1>8, <1>9, <1>10, <1>11, <1>12,
     <1>13, <1>14, <1>15, <1>16, <1>17, <1>18 DEF Next, Pass, Environment

\* Every step keeps what the points of a pass rely on.
LEMMA StepPass == IInv /\ [Next]_vars => PassInv'
<1> SUFFICES ASSUME IInv, [Next]_vars PROVE PassInv'
  OBVIOUS
<1> USE DEF IInv, TypeOK, PassInv, Policies, Gated, spec, ann, jobVars
<1>1. CASE BeginPass
  BY <1>1 DEF BeginPass
<1>2. CASE SkipBackup
  BY <1>2 DEF SkipBackup
<1>3. CASE BestEffortBackup
  BY <1>3 DEF BestEffortBackup, CreateJob
<1>4. CASE StartBackup
  BY <1>4 DEF StartBackup, CreateJob
<1>5. CASE StartBackupRefused
  BY <1>5 DEF StartBackupRefused, CreateJob
<1>6. CASE StampBackup
  BY <1>6 DEF StampBackup
<1>7. CASE BackupOver
  BY <1>7 DEF BackupOver
<1>8. CASE AwaitBackup
  BY <1>8 DEF AwaitBackup
<1>9. CASE \E v \in PVCs : DeletePVC(v)
  BY <1>9 DEF DeletePVC
<1>10. CASE PVCsDeleted
  BY <1>10 DEF PVCsDeleted
<1>11. CASE RemoveFinalizer
  BY <1>11 DEF RemoveFinalizer
<1>12. CASE Abandon
  BY <1>12 DEF Abandon
<1>13. CASE UserDeletes
  BY <1>13 DEF UserDeletes
<1>14. CASE JobFinishes
  BY <1>14 DEF JobFinishes
<1>15. CASE JobVanishes
  BY <1>15 DEF JobVanishes
<1>16. CASE CacheCatchesUp
  BY <1>16 DEF CacheCatchesUp
<1>17. CASE DeadlinePasses
  BY <1>17 DEF DeadlinePasses
<1>18. CASE UNCHANGED vars
  BY <1>18 DEF vars
<1>19. QED
  BY <1>1, <1>2, <1>3, <1>4, <1>5, <1>6, <1>7, <1>8, <1>9, <1>10, <1>11, <1>12,
     <1>13, <1>14, <1>15, <1>16, <1>17, <1>18
     DEF Next, Pass, Environment

\* Every step keeps the account of the Jobs.
LEMMA StepJobs == IInv /\ [Next]_vars => (JobInv /\ OneJob)'
<1> SUFFICES ASSUME IInv, [Next]_vars PROVE (JobInv /\ OneJob)'
  OBVIOUS
<1> USE DEF IInv, TypeOK, JobInv, OneJob, Terminal, spec, ann, jobVars
<1>1. CASE BeginPass
  BY <1>1 DEF BeginPass
<1>2. CASE SkipBackup
  BY <1>2 DEF SkipBackup
<1>3. CASE BestEffortBackup
  BY <1>3 DEF BestEffortBackup, CreateJob
<1>4. CASE StartBackup
  BY <1>4 DEF StartBackup, CreateJob
<1>5. CASE StartBackupRefused
  BY <1>5 DEF StartBackupRefused, CreateJob
<1>6. CASE StampBackup
  BY <1>6 DEF StampBackup
<1>7. CASE BackupOver
  BY <1>7 DEF BackupOver
<1>8. CASE AwaitBackup
  BY <1>8 DEF AwaitBackup
<1>9. CASE \E v \in PVCs : DeletePVC(v)
  BY <1>9 DEF DeletePVC
<1>10. CASE PVCsDeleted
  BY <1>10 DEF PVCsDeleted
<1>11. CASE RemoveFinalizer
  BY <1>11 DEF RemoveFinalizer
<1>12. CASE Abandon
  BY <1>12 DEF Abandon
<1>13. CASE UserDeletes
  BY <1>13 DEF UserDeletes
<1>14. CASE JobFinishes
  BY <1>14 DEF JobFinishes, Terminal
<1>15. CASE JobVanishes
  BY <1>15 DEF JobVanishes
<1>16. CASE CacheCatchesUp
  BY <1>16 DEF CacheCatchesUp
<1>17. CASE DeadlinePasses
  BY <1>17 DEF DeadlinePasses
<1>18. CASE UNCHANGED vars
  BY <1>18 DEF vars
<1>19. QED
  BY <1>1, <1>2, <1>3, <1>4, <1>5, <1>6, <1>7, <1>8, <1>9, <1>10, <1>11, <1>12,
     <1>13, <1>14, <1>15, <1>16, <1>17, <1>18
     DEF Next, Pass, Environment

\* Every step keeps the recorded outcomes honest and complete.
LEMMA StepReport == IInv /\ [Next]_vars => (HonestReport /\ OutcomeRecorded)'
<1> SUFFICES ASSUME IInv, [Next]_vars PROVE (HonestReport /\ OutcomeRecorded)'
  OBVIOUS
<1> USE DEF IInv, TypeOK, JobInv, PassInv, HonestReport, OutcomeRecorded, Gated, spec, ann, jobVars
<1>1. CASE BeginPass
  BY <1>1 DEF BeginPass
<1>2. CASE SkipBackup
  BY <1>2 DEF SkipBackup
<1>3. CASE BestEffortBackup
  BY <1>3 DEF BestEffortBackup, CreateJob
<1>4. CASE StartBackup
  BY <1>4 DEF StartBackup, CreateJob
<1>5. CASE StartBackupRefused
  BY <1>5 DEF StartBackupRefused, CreateJob
<1>6. CASE StampBackup
  BY <1>6 DEF StampBackup
<1>7. CASE BackupOver
  BY <1>7 DEF BackupOver, Ended
<1>8. CASE AwaitBackup
  BY <1>8 DEF AwaitBackup
<1>9. CASE \E v \in PVCs : DeletePVC(v)
  BY <1>9 DEF DeletePVC
<1>10. CASE PVCsDeleted
  BY <1>10 DEF PVCsDeleted
<1>11. CASE RemoveFinalizer
  BY <1>11 DEF RemoveFinalizer
<1>12. CASE Abandon
  BY <1>12 DEF Abandon
<1>13. CASE UserDeletes
  BY <1>13 DEF UserDeletes
<1>14. CASE JobFinishes
  BY <1>14 DEF JobFinishes
<1>15. CASE JobVanishes
  BY <1>15 DEF JobVanishes
<1>16. CASE CacheCatchesUp
  BY <1>16 DEF CacheCatchesUp
<1>17. CASE DeadlinePasses
  BY <1>17 DEF DeadlinePasses
<1>18. CASE UNCHANGED vars
  BY <1>18 DEF vars
<1>19. QED
  BY <1>1, <1>2, <1>3, <1>4, <1>5, <1>6, <1>7, <1>8, <1>9, <1>10, <1>11, <1>12,
     <1>13, <1>14, <1>15, <1>16, <1>17, <1>18
     DEF Next, Pass, Environment

\* Every step keeps the claims of a retained cluster and the finalizer's place.
LEMMA StepData == IInv /\ [Next]_vars => (RetainKeepsData /\ FinalizerLast)'
<1> SUFFICES ASSUME IInv, [Next]_vars PROVE (RetainKeepsData /\ FinalizerLast)'
  OBVIOUS
<1> USE DEF IInv, TypeOK, PassInv, RetainKeepsData, FinalizerLast, Policies, spec, ann, jobVars
<1>1. CASE BeginPass
  BY <1>1 DEF BeginPass
<1>2. CASE SkipBackup
  BY <1>2 DEF SkipBackup
<1>3. CASE BestEffortBackup
  BY <1>3 DEF BestEffortBackup, CreateJob
<1>4. CASE StartBackup
  BY <1>4 DEF StartBackup, CreateJob
<1>5. CASE StartBackupRefused
  BY <1>5 DEF StartBackupRefused, CreateJob
<1>6. CASE StampBackup
  BY <1>6 DEF StampBackup
<1>7. CASE BackupOver
  BY <1>7 DEF BackupOver
<1>8. CASE AwaitBackup
  BY <1>8 DEF AwaitBackup
<1>9. CASE \E v \in PVCs : DeletePVC(v)
  BY <1>9 DEF DeletePVC
<1>10. CASE PVCsDeleted
  BY <1>10 DEF PVCsDeleted
<1>11. CASE RemoveFinalizer
  BY <1>11 DEF RemoveFinalizer
<1>12. CASE Abandon
  BY <1>12 DEF Abandon
<1>13. CASE UserDeletes
  BY <1>13 DEF UserDeletes
<1>14. CASE JobFinishes
  BY <1>14 DEF JobFinishes
<1>15. CASE JobVanishes
  BY <1>15 DEF JobVanishes
<1>16. CASE CacheCatchesUp
  BY <1>16 DEF CacheCatchesUp
<1>17. CASE DeadlinePasses
  BY <1>17 DEF DeadlinePasses
<1>18. CASE UNCHANGED vars
  BY <1>18 DEF vars
<1>19. QED
  BY <1>1, <1>2, <1>3, <1>4, <1>5, <1>6, <1>7, <1>8, <1>9, <1>10, <1>11, <1>12,
     <1>13, <1>14, <1>15, <1>16, <1>17, <1>18
     DEF Next, Pass, Environment

\* The invariant holds in every reachable state, for every set of claims and
\* however far the cache lags behind.
THEOREM Invariance == Spec => []IInv
<1>1. IInv /\ [Next]_vars => IInv'
  BY StepTypeOK, StepPass, StepJobs, StepReport, StepData DEF IInv
<1>2. QED
  BY InitIInv, <1>1, PTL DEF Spec

\* Every variable keeps its type.
THEOREM TypeCorrect == Spec => []TypeOK
<1>1. IInv => TypeOK
  BY DEF IInv
<1>2. QED
  BY <1>1, Invariance, PTL

\* deletionPolicy Retain: no claim is ever deleted, however often handleDeletion
\* fails and is retried.
THEOREM RetainSafe == Spec => []RetainKeepsData
<1>1. IInv => RetainKeepsData
  BY DEF IInv
<1>2. QED
  BY <1>1, Invariance, PTL

\* The finalizer is removed last: no claim is left behind with policy Delete.
THEOREM FinalizerSafe == Spec => []FinalizerLast
<1>1. IInv => FinalizerLast
  BY DEF IInv
<1>2. QED
  BY <1>1, Invariance, PTL

\* The backup outcome that is recorded happened, and one is recorded before the
\* first claim goes; both hold with a lagging cache.
THEOREM ReportSafe == Spec => [](HonestReport /\ OutcomeRecorded)
<1>1. IInv => HonestReport /\ OutcomeRecorded
  BY DEF IInv
<1>2. QED
  BY <1>1, Invariance, PTL

\* Retries adopt the existing Job instead of creating another.
THEOREM JobSafe == Spec => []OneJob
<1>1. IInv => OneJob
  BY DEF IInv
<1>2. QED
  BY <1>1, Invariance, PTL

\* The gate has let the pass through for a reason that still holds while the
\* claims are being deleted.
GateInv ==
    pc = "pvcs" /\ backup /\ jobAnn /\ created <= 1
      => job # "running" \/ deadline = "passed" \/ "disappeared" \in report

\* No step takes that reason away: only the gate itself, at another point of the
\* pass, creates Jobs, and what the cache shows of a running Job, if it is the
\* first, is nothing or that it runs (JobInv).
LEMMA StepGate == IInv /\ GateInv /\ [Next]_vars => GateInv'
<1> SUFFICES ASSUME IInv, GateInv, [Next]_vars PROVE GateInv'
  OBVIOUS
<1> USE DEF IInv, TypeOK, GateInv, JobInv, JobStates, Terminal, spec, ann, jobVars
<1>1. CASE BeginPass
  BY <1>1 DEF BeginPass
<1>2. CASE SkipBackup
  BY <1>2 DEF SkipBackup
<1>3. CASE BestEffortBackup
  BY <1>3 DEF BestEffortBackup, CreateJob
<1>4. CASE StartBackup
  BY <1>4 DEF StartBackup, CreateJob
<1>5. CASE StartBackupRefused
  BY <1>5 DEF StartBackupRefused, CreateJob
<1>6. CASE StampBackup
  BY <1>6 DEF StampBackup
<1>7. CASE BackupOver
  BY <1>7 DEF BackupOver, Ended
<1>8. CASE AwaitBackup
  BY <1>8 DEF AwaitBackup
<1>9. CASE \E v \in PVCs : DeletePVC(v)
  BY <1>9 DEF DeletePVC
<1>10. CASE PVCsDeleted
  BY <1>10 DEF PVCsDeleted
<1>11. CASE RemoveFinalizer
  BY <1>11 DEF RemoveFinalizer
<1>12. CASE Abandon
  BY <1>12 DEF Abandon
<1>13. CASE UserDeletes
  BY <1>13 DEF UserDeletes
<1>14. CASE JobFinishes
  BY <1>14 DEF JobFinishes, Terminal
<1>15. CASE JobVanishes
  BY <1>15 DEF JobVanishes
<1>16. CASE CacheCatchesUp
  BY <1>16 DEF CacheCatchesUp
<1>17. CASE DeadlinePasses
  BY <1>17 DEF DeadlinePasses
<1>18. CASE UNCHANGED vars
  BY <1>18 DEF vars
<1>19. QED
  BY <1>1, <1>2, <1>3, <1>4, <1>5, <1>6, <1>7, <1>8, <1>9, <1>10, <1>11, <1>12,
     <1>13, <1>14, <1>15, <1>16, <1>17, <1>18 DEF Next, Pass, Environment

\* Only deletePVCs removes claims, so what the gate established holds at every
\* removal.
LEMMA ClaimsGoAtPVCs ==
    IInv /\ GateInv /\ [Next]_vars
      => [Gated /\ jobAnn /\ pvcs' # pvcs /\ created <= 1
            => job # "running" \/ deadline = "passed" \/ "disappeared" \in report]_vars
<1> SUFFICES ASSUME IInv, GateInv, [Next]_vars, pvcs' # pvcs, Gated, jobAnn, created <= 1
             PROVE  job # "running" \/ deadline = "passed" \/ "disappeared" \in report
  OBVIOUS
<1>1. pc = "pvcs"
  <2>1. ~ UNCHANGED vars /\ ~ Abandon /\ ~ Environment
    BY DEF vars, Abandon, Environment, UserDeletes, JobFinishes, JobVanishes,
           CacheCatchesUp, DeadlinePasses
  <2>2. PICK v \in PVCs : DeletePVC(v)
    BY <2>1 DEF Next, Pass, BeginPass, SkipBackup, BestEffortBackup, StartBackup,
                StartBackupRefused, StampBackup, BackupOver, AwaitBackup, PVCsDeleted,
                RemoveFinalizer
  <2>3. QED
    BY <2>2 DEF DeletePVC
<1>2. QED
  BY <1>1 DEF GateInv, Gated

\* However far the cache lags, a claim is deleted under the running backup that
\* ensureDeletionBackupComplete tracks, before its deadline, only after the Job was
\* told to have disappeared.
THEOREM TrackedBackupSafe == Spec => RunningBackupTold
<1>1. Init => GateInv
  BY DEF Init, GateInv
<1>2. IInv /\ GateInv /\ [Next]_vars => GateInv'
  BY StepGate
<1>3. IInv /\ GateInv /\ [Next]_vars
        => [Gated /\ jobAnn /\ pvcs' # pvcs /\ created <= 1
            => job # "running" \/ deadline = "passed" \/ "disappeared" \in report]_vars
  BY ClaimsGoAtPVCs
<1>4. QED
  BY <1>1, <1>2, <1>3, Invariance, PTL DEF Spec, RunningBackupTold
=============================================================================
