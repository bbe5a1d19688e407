------------------------- MODULE ClusterController --------------------------
(***************************************************************************)
(* The cluster controller: Reconcile's dispatch, reconcileCluster with its *)
(* status update, the handlers of Lifecycle, ScaleOut and ScaleIn, the     *)
(* platform underneath and the users above.                                *)
(***************************************************************************)
EXTENDS Lifecycle, ScaleIn, Gpexpand, Platform

CONSTANTS
    UserActions,   \* the action annotations users set
    Counts,        \* the segment counts users ask for
    EditPhases,    \* the phases in which users change the segment count
    RacingEdits,   \* users write while a pass or an earlier request is under way
    InitialCount,  \* segments of the cluster in the initial state
    Mirrored,      \* the cluster has mirrors
    Deployed       \* the initial state is a running cluster, not a new object

ASSUME UsersAssumption ==
    /\ UserActions \subseteq Actions /\ EditPhases \subseteq Phases
    /\ Counts \subseteq 1 .. MaxCount /\ InitialCount \in 1 .. MaxCount
    /\ RacingEdits \in BOOLEAN /\ Mirrored \in BOOLEAN /\ Deployed \in BOOLEAN

NewSet == [exists |-> FALSE, replicas |-> 0, ver |-> "", base |-> NoBase,
           seen |-> TRUE, rolled |-> TRUE, updated |-> TRUE, pods |-> 0, ready |-> 0]
RunningSet(n, v) == [exists |-> TRUE, replicas |-> n, ver |-> v, base |-> NoBase,
           seen |-> TRUE, rolled |-> TRUE, updated |-> TRUE, pods |-> n, ready |-> n]

NoAnnotations == [action |-> "none", restart |-> FALSE, confirm |-> FALSE,
                  started |-> "none", out |-> NoOut, in |-> NoIn]

Init ==
    /\ \E v \in Versions \ BadVersions :
         /\ cr = [spec |-> [count |-> InitialCount, ver |-> v, mirroring |-> Mirrored],
                  gen |-> 1, ann |-> NoAnnotations,
                  status |-> IF Deployed
                    THEN [phase |-> "Running", obsGen |-> 1, total |-> InitialCount,
                          ready |-> InitialCount, coord |-> TRUE, ver |-> v,
                          mirroring |-> IF Mirrored THEN "InSync" ELSE "NotConfigured"]
                    ELSE [phase |-> "", obsGen |-> 0, total |-> 0, ready |-> 0,
                          coord |-> FALSE, ver |-> "",
                          mirroring |-> "NotConfigured"]]
         /\ sts = [x \in Comps |->
                     IF Deployed /\ Enabled(cr, x) THEN RunningSet(Replicas(cr, x), v)
                     ELSE NewSet]
    /\ jobs = [n \in JobNames |-> "absent"]
    /\ db = IF Deployed
              THEN [registered |-> InitialCount, dirs |-> InitialCount,
                    rows |-> InitialCount, rogue |-> FALSE,
                    status |-> "none"]
              ELSE [registered |-> 0, dirs |-> 0, rows |-> 0, rogue |-> FALSE,
                    status |-> "none"]
    /\ mem = NoCopy /\ pc = "idle" /\ ret = "none" /\ ops = 0 /\ faults = 0

-----------------------------------------------------------------------------
(* Reconcile, no action pending and a phase without a handler of its own. *)

Unhandled ==
    /\ pc = "idle" /\ cr.ann.action = "none"
    /\ cr.status.phase \in {"", "Pending", "Initializing", "Running", "Failed"}

\* Mutant: the generation is not compared.
UnchangedAnyGeneration == cr.status.phase = "Running"

\* Mutant: the phase is not looked at.
UnchangedAnyPhase == cr.status.obsGen = cr.gen

\* Reconcile skips reconcileCluster while the generation is the observed one.
Unchanged == cr.status.phase = "Running" /\ cr.status.obsGen = cr.gen
ScaleState == cr.ann.out.phase # "none" \/ cr.ann.in.phase # "none"

\* handleGenerationUnchanged: a scale state is left, so the phase is restored.
RestoreScaling ==
    /\ Unhandled /\ Unchanged /\ ScaleState
    /\ cr' = [cr EXCEPT !.status.phase = "Scaling"]
    /\ UNCHANGED <<mem, sts, jobs, db, pc, ret, budget>>

\* updateComponentReadiness: a StatefulSet that is not there leaves the field.
CoordReady(c) == IF sts["coordinator"].exists THEN sts["coordinator"].ready > 0
                 ELSE c.status.coord
SegmentsReady(c) == IF sts["primary"].exists THEN sts["primary"].ready
                    ELSE c.status.ready

\* refreshSteadyStateReadiness: only the readiness fields are patched.
RefreshReadiness ==
    /\ Unhandled /\ Unchanged /\ ~ScaleState /\ ~cr.ann.confirm
    /\ cr' = [cr EXCEPT !.status.coord = CoordReady(cr),
                        !.status.ready = SegmentsReady(cr)]
    /\ UNCHANGED <<mem, sts, jobs, db, pc, ret, budget>>

\* On to reconcileCluster; a pending confirmation is reason enough.
BeginReconcile ==
    /\ Unhandled
    /\ Unchanged => (~ScaleState /\ cr.ann.confirm)
    /\ mem' = cr /\ pc' = "core" /\ ret' = "none"
    /\ UNCHANGED <<cr, sts, jobs, db, budget>>

-----------------------------------------------------------------------------
(* reconcileCluster. *)

\* updatePhase: the very first pass.
MarkPending ==
    /\ pc = "core" /\ mem.status.phase = "" /\ Fresh
    /\ cr' = [cr EXCEPT !.status.phase = "Pending"]
    /\ Returned
    /\ UNCHANGED <<sts, jobs, db, budget>>

\* reconcileStatefulSets under a scale-out: nothing but the status.
SuppressSets ==
    /\ At("core") /\ mem.status.phase # "" /\ ScaleOutInProgress(mem)
    /\ pc' = "status"
    /\ UNCHANGED <<cr, mem, sts, jobs, db, budget>>

\* reconcileCoordinator, reconcileStandby.
ApplyCore ==
    /\ pc = "core" /\ mem.status.phase # "" /\ ~ScaleOutInProgress(mem)
    /\ \E done \in {{}, {"coordinator"}, {"coordinator", "standby"}} :
         /\ Outcome(done = {"coordinator", "standby"})
         /\ sts' = [x \in Comps |-> IF x \in done /\ Enabled(mem, x)
                                      THEN Built(mem, x, 1) ELSE sts[x]]
         /\ IF done = {"coordinator", "standby"}
              THEN pc' = "segments" /\ UNCHANGED <<mem, ret>>
              ELSE EndPass
    /\ UNCHANGED <<cr, jobs, db, ops>>

\* handleScaleOut and handleScaleIn return without doing anything: the cluster
\* is not Running, or the confirmation is missing.
ScaleBlocked ==
    /\ At("segments")
    /\ \/ MoreWanted(mem) /\ mem.status.phase # "Running"
       \/ FewerWanted(mem) /\ (mem.status.phase # "Running" \/ ~Confirmed(mem))
    /\ pc' = "status"
    /\ UNCHANGED <<cr, mem, sts, jobs, db, budget>>

\* Mutant: the replicas follow the spec in both directions.
ApplySegmentsAnyCount ==
    /\ pc = "segments"
    /\ \E done \in {{}, {"primary"}, {"primary", "mirror"}} :
         /\ Outcome(done = {"primary", "mirror"})
         /\ sts' = [x \in Comps |-> IF x \in done /\ Enabled(mem, x)
                                      THEN Built(mem, x, mem.spec.count) ELSE sts[x]]
         /\ IF done = {"primary", "mirror"}
              THEN pc' = "status" /\ UNCHANGED <<mem, ret>>
              ELSE EndPass
    /\ UNCHANGED <<cr, jobs, db, ops>>

\* reconcileSegments without a change of the count: primaries and mirrors, whose
\* replicas are never lowered here.
ApplySegments ==
    /\ pc = "segments" /\ ~MoreWanted(mem) /\ ~FewerWanted(mem)
    /\ \E done \in {{}, {"primary"}, {"primary", "mirror"}} :
         /\ Outcome(done = {"primary", "mirror"})
         /\ sts' = [x \in Comps |->
                      IF x \in done /\ Enabled(mem, x)
                        THEN Built(mem, x, Most(mem.spec.count, sts[x].replicas))
                        ELSE sts[x]]
         /\ IF done = {"primary", "mirror"}
              THEN pc' = "status" /\ UNCHANGED <<mem, ret>>
              ELSE EndPass
    /\ UNCHANGED <<cr, jobs, db, ops>>

\* updateObservedGeneration: not while a scale-in is asked for and not begun.
ObservedGen(c) ==
    IF sts["primary"].exists /\ c.spec.count < sts["primary"].replicas
         /\ c.ann.in.phase = "none"
      THEN c.status.obsGen ELSE c.gen

\* updateMirroringStatus
MirroringStatus(c) ==
    IF ~c.spec.mirroring THEN "NotConfigured"
    ELSE IF sts["mirror"].exists /\ sts["mirror"].ready = sts["mirror"].replicas
      THEN "InSync" ELSE "Degraded"

\* determineOverallPhase: the phases with a handler of their own are kept.
OverallPhase(c) ==
    IF c.status.phase \in {"Stopped", "Stopping", "Restricted", "Maintenance",
                           "Scaling"} THEN c.status.phase
    ELSE IF CoordReady(c) /\ SegmentsReady(c) = c.spec.count THEN "Running"
    ELSE IF c.status.phase = "Pending" THEN "Initializing" ELSE c.status.phase

\* updateStatus, the last call of reconcileCluster.
UpdateStatus ==
    /\ pc = "status" /\ Fresh
    /\ cr' = [cr EXCEPT !.status =
         [phase |-> OverallPhase(mem), obsGen |-> ObservedGen(mem),
          total |-> mem.spec.count, ready |-> SegmentsReady(mem),
          coord |-> CoordReady(mem), ver |-> mem.spec.ver,
          mirroring |-> MirroringStatus(mem)]]
    /\ Returned
    /\ UNCHANGED <<sts, jobs, db, budget>>

\* An API error, a conflict or a crash of the operator: the pass is over and a
\* later one starts from what was persisted.
Abandon ==
    /\ pc # "idle"
    /\ EndPass /\ Outcome(FALSE)
    /\ UNCHANGED <<cr, sts, jobs, db, ops>>

\* Status().Update of a copy somebody else has overwritten is refused; that is
\* no fault of the platform.
Conflict ==
    /\ pc \in {"core", "scalePhase", "status"} /\ ~Fresh
    /\ pc = "core" => mem.status.phase = ""
    /\ EndPass
    /\ UNCHANGED <<cr, sts, jobs, db, budget>>

ReconcileStep ==
    \/ RestoreScaling \/ RefreshReadiness \/ BeginReconcile
    \/ MarkPending \/ SuppressSets \/ ApplyCore \/ ScaleBlocked \/ ApplySegments
    \/ UpdateStatus \/ Conflict

-----------------------------------------------------------------------------
(* Users and time. *)

User ==
    /\ pc = "idle" \/ RacingEdits
    /\ ops < MaxOps /\ ops' = ops + 1
    /\ UNCHANGED <<mem, sts, jobs, db, pc, ret, faults>>

\* The API server and kubectl set the action annotation.
SetAction(a) ==
    /\ User /\ (cr.ann.action = "none" \/ RacingEdits)
    /\ cr' = [cr EXCEPT !.ann.action = a]

\* A user changes spec.segments.count; the API server bumps the generation.
EditCount(n) ==
    /\ User /\ (~ScaleState \/ RacingEdits)
    /\ cr.status.phase \in EditPhases /\ n # cr.spec.count
    /\ cr' = [cr EXCEPT !.spec.count = n, !.gen = @ + 1]

\* A user confirms a large scale-in.
ConfirmScaleIn ==
    /\ User /\ ~cr.ann.confirm /\ Counts # {}
    /\ cr' = [cr EXCEPT !.ann.confirm = TRUE]

\* scaleTimeout has passed since scale-started; only a new pass looks.
ScaleClock ==
    /\ pc = "idle" /\ cr.ann.started = "fresh"
    /\ cr' = [cr EXCEPT !.ann.started = "late"]
    /\ UNCHANGED <<mem, sts, jobs, db, pc, ret, budget>>

Users ==
    \/ \E a \in UserActions : SetAction(a)
    \/ \E n \in Counts : EditCount(n)
    \/ ConfirmScaleIn

Controller == ReconcileStep \/ LifecycleStep \/ ScaleOutStep \/ ScaleInStep

Sets == \E x \in Comps : StsObserved(x) \/ StsRolled(x) \/ StsReady(x) \/ PodFails(x)
JobSteps == \E n \in JobNames : JobStep(n)

Next == Controller \/ Abandon \/ Users \/ ScaleClock \/ Sets \/ JobSteps

Safety == Init /\ [][Next]_vars

\* The work queue requeues the object after every pass; Kubernetes keeps driving
\* StatefulSets and Jobs towards their specs.  A gpexpand run is bounded by
\* activeDeadlineSeconds, so it ends, one way or another; its Job then stays for a
\* day while passes come every few seconds, so one of them reacts to it.  Time
\* passes.  Nothing is assumed of how a run ends, nor of users and faults.
Fairness ==
    /\ WF_vars(Controller) /\ SF_vars(GpexpandDone \/ RetryGpexpand \/ GiveUp)
    /\ SF_vars(RecoverCoordinator)
    /\ WF_vars(\E x \in Comps : StsObserved(x) \/ StsRolled(x) \/ StsReady(x))
    /\ WF_vars(\E n \in JobNames : JobSucceeds(n) \/ JobFails(n) \/ JobWedges(n))
    /\ WF_vars(\E n \in JobNames : JobGone(n) \/ JobExpires(n))
    /\ SF_vars(ScaleClock)

Spec == Safety /\ Fairness

-----------------------------------------------------------------------------
(* Safety. *)

\* A segment that holds rows is in the catalogue and its volume exists: rows are
\* moved off a segment before it is deregistered (checkScaleInPhases) and before
\* its volume is deleted (cleanupOrphanedPVCs), whatever crashes in between.
RowsServed == db.rows <= db.registered /\ db.rows <= db.dirs

\* Unless the cluster is stopped, every segment in the catalogue has a pod:
\* replicas are lowered only after DeregisterSegments, never by reconcileSegments.
SegmentsServed ==
    sts["primary"].replicas = 0 \/ db.registered <= sts["primary"].replicas

\* While a scale-out is recorded no pod initialises itself: the template carries
\* CLOUDBERRY_EXPANSION_BASE_COUNT before the replicas go up, and the passes of a
\* scale-out in progress leave the template alone.
NoSelfInitdb == [][db'.rogue # db.rogue => cr.ann.out.phase = "none"]_vars

\* A scale-in takes more than half of the segments out of the catalogue only with
\* the user's confirmation, many passes after handleScaleIn looked at it.
LargeScaleInConfirmed ==
    [][cr.ann.in.phase = "deregistering" /\ 2 * db'.registered < db.registered
         => cr.ann.confirm]_vars

\* A scale-out is completed only when gpexpand has added its segments: no failed,
\* retried or adopted Job stands in for the work.
ExpandedBeforeCompletion ==
    [][cr.ann.out.phase = "expanding" /\ cr'.ann.out.phase = "completed"
         => db.registered >= cr.ann.out.new]_vars

-----------------------------------------------------------------------------
(* Liveness. *)

\* The last request of a behaviour waits for a pass; the users ask for nothing more.
Last(a) == ops = MaxOps /\ cr.ann.action = a /\ pc = "idle"

StoppedDown ==
    /\ cr.status.phase = "Stopped"
    /\ \A x \in Whole(cr) : sts[x].pods = 0 /\ sts[x].replicas = 0

\* A stop asked for after the last fault, whatever that fault left behind, and with
\* no restart pending, ends in Stopped for good, with no pod left and none to come
\* (handleStop, checkStopProgress).
StopStops ==
    (Last("stop") /\ ~cr.ann.restart /\ faults = MaxFaults) ~> []StoppedDown

\* Such a stop that meets a restart-pending annotation settles as well: it ends in
\* Stopped, or the restart is completed (checkStopProgress, completeRestart).
StopSettles ==
    (Last("stop") /\ faults = MaxFaults) ~> ([]StoppedDown \/ [](cr.status.phase = "Running"))

\* A start, from whatever state, ends in Running for good, with the pods of every
\* component asked for again (handleStart), whatever fails meanwhile.
StartStarts ==
    Last("start") ~> [](cr.status.phase = "Running"
                          /\ \A x \in Whole(cr) : sts[x].replicas > 0)

\* A restart asked for after the last fault, whatever that fault left behind, goes
\* through the stop and ends in Running for good (handleRestart, completeRestart).
RestartRestarts ==
    (Last("restart") /\ faults = MaxFaults)
      ~> [](cr.status.phase = "Running" /\ \A x \in Whole(cr) : sts[x].replicas > 0)

\* A running cluster whose count differs from its replicas begins to scale.
ScaleBegins ==
    (cr.status.phase = "Running" /\ (MoreWanted(cr) \/ (FewerWanted(cr) /\ Confirmed(cr))))
      ~> (cr.status.phase # "Running" \/ ~(MoreWanted(cr) \/ FewerWanted(cr)))

\* A coordinator does not wedge again and again.
WedgesEnd == <>[](\A n \in JobNames : jobs[n] # "wedged")

\* A scale operation is recorded, and so is its template if it waits for new pods.
ScaleUnderWay ==
    /\ cr.status.phase = "Scaling" /\ ScaleState
    /\ cr.ann.out.phase = "scaling-sts" => sts["primary"].base = cr.ann.out.old


\* A new cluster nobody asks anything of comes up, and from then on the reported
\* readiness follows the pods (refreshSteadyStateReadiness), failed calls, crashes
\* of the operator and failing pods notwithstanding.
ReadinessTold ==
    [](ops = 0)
      => <>[](cr.status.phase = "Running" /\ cr.status.ready = sts["primary"].ready
                /\ cr.status.ready = cr.spec.count /\ cr.status.coord)

-----------------------------------------------------------------------------
(* What the code says of itself and does not keep; see Disagreements in the *)
(* README for the instance that refutes each.                               *)

\* No pod ever initialises itself beside a populated catalogue
\* (segmentTemplateHasExpansionBaseCount: "can never start without it").
NoRogue == ~db.rogue

\* handleScaleOut: a pass that sees phase Scaling finds the new template applied.
EnvBeforeScaling ==
    cr.status.phase = "Scaling" /\ cr.ann.out.phase = "scaling-sts"
      => sts["primary"].base = cr.ann.out.old

\* "the operator never loops forever on an expansion that cannot succeed"
\* (maxRedistributeAttempts): Scaling is left again.
ScaleEnds == cr.status.phase = "Scaling" ~> cr.status.phase # "Scaling"

\* handleStop "scales all StatefulSets to 0, and transitions to Stopped once all
\* pods are terminated": Stopping is left again.
StopEnds == cr.status.phase = "Stopping" ~> cr.status.phase # "Stopping"

\* A cluster reported Stopped, with no request pending, has no pods and will get
\* none: "transitions to Stopped once all pods are terminated" (handleStop).
StoppedIsDown ==
    cr.status.phase = "Stopped" /\ cr.ann.action = "none" /\ pc = "idle"
      => \A x \in Whole(cr) : sts[x].pods = 0 /\ sts[x].replicas = 0

\* failScaleOutRedistribution calls Failed terminal: only a user leaves it.
FailedStays ==
    [][cr.status.phase = "Failed" /\ ops' = ops /\ cr.ann.action = "none"
         => cr'.status.phase = "Failed"]_vars

\* handleAction removes an action's annotation only after processing that action.
ActionsProcessed ==
    [][cr.ann.action # "none" /\ cr'.ann.action = "none" => ret = cr.ann.action]_vars

\* A stop ends in Stopped, whatever is pending when it is asked for.
EveryStopStops == Last("stop") ~> cr.status.phase = "Stopped"

\* A start brings the pods of every component back.
StartScalesUp == Last("start") ~> \A x \in Whole(cr) : sts[x].replicas > 0

\* A restart ends in Running also when a crash separates completeRestart's writes.
EveryRestart == Last("restart") ~> [](cr.status.phase = "Running")

\* A completed scale-in takes the confirmation with it.
ConfirmConsumed ==
    (cr.ann.confirm /\ cr.ann.in.phase # "none" /\ ops = MaxOps) ~> ~cr.ann.confirm

\* A blocked scale-out is retried: Initializing is left.
InitializingEnds ==
    cr.status.phase = "Initializing" ~> cr.status.phase # "Initializing"
=============================================================================
