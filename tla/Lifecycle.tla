----------------------------- MODULE Lifecycle ------------------------------
(***************************************************************************)
(* Starting, stopping and restarting a cluster: the handlers of the action *)
(* annotation (handleAction) and the progress check of phase Stopping.     *)
(* The stop modes differ only in what they ask of the database before the  *)
(* pods go, which changes nothing here, so one action stands for them.     *)
(***************************************************************************)
EXTENDS ClusterState

\* Reconcile looks at the action annotation before anything else.
Action(a) == pc = "idle" /\ cr.ann.action = a

Whole(c) == {x \in Comps : Enabled(c, x)}

Phased(c, p) == [c.status EXCEPT !.phase = p]

\* patchClearReadinessStatus: the phase with explicit zero readiness, only.
Cleared(p) ==
    [cr EXCEPT !.status.phase = p, !.status.ready = 0, !.status.coord = FALSE]

\* handleStop, first write: the phase.
Stop ==
    /\ Action("stop")
    /\ Wrote(WithStatus(Phased(cr, "Stopping")))
    /\ pc' = "scaleDown" /\ ret' = "stop"
    /\ UNCHANGED <<sts, jobs, db, budget>>

\* Mutant: a StatefulSet without a Ready pod is taken for stopped.
ScaleDownReady ==
    /\ At("scaleDown")
    /\ sts' = [x \in Comps |-> IF Enabled(mem, x) /\ sts[x].ready > 0
                                 THEN Scaled(sts[x], 0) ELSE sts[x]]
    /\ pc' = "checkDown"
    /\ UNCHANGED <<cr, mem, jobs, db, budget>>

\* handleStop and handleRestart: every enabled StatefulSet is scaled to zero; any
\* of the writes may fail, which is logged, and the loop goes on.
ScaleDown ==
    /\ At("scaleDown")
    /\ \E done \in SUBSET Whole(mem) :
         /\ Outcome(done = Whole(mem))
         /\ sts' = [x \in Comps |-> IF x \in done THEN Scaled(sts[x], 0) ELSE sts[x]]
    /\ pc' = "checkDown"
    /\ UNCHANGED <<cr, mem, jobs, db, ops>>

\* handleStop and handleRestart: the pods are not gone yet, a later pass looks.
StillUp ==
    /\ pc = "checkDown" /\ ~AllDown(mem)
    /\ Returned
    /\ UNCHANGED <<cr, sts, jobs, db, budget>>

\* handleStop: the pods were gone already.
StoppedAtOnce ==
    /\ pc = "checkDown" /\ ret = "stop" /\ AllDown(mem)
    /\ cr' = Cleared("Stopped")
    /\ Returned
    /\ UNCHANGED <<sts, jobs, db, budget>>

\* handleRestart: the pods were gone already, on to completeRestart.
RestartedAtOnce ==
    /\ At("checkDown") /\ ret = "restart" /\ AllDown(mem)
    /\ Wrote(WithAnn([cr.ann EXCEPT !.restart = FALSE]))
    /\ pc' = "restartUp"
    /\ UNCHANGED <<sts, jobs, db, budget>>

\* Mutant: the restart is not remembered.
RestartForgotten ==
    /\ Action("restart")
    /\ Wrote(cr)
    /\ pc' = "restartStop" /\ ret' = "restart"
    /\ UNCHANGED <<sts, jobs, db, budget>>

\* handleRestart, first write: the restart-pending annotation.
Restart ==
    /\ Action("restart")
    /\ Wrote(WithAnn([cr.ann EXCEPT !.restart = TRUE]))
    /\ pc' = "restartStop" /\ ret' = "restart"
    /\ UNCHANGED <<sts, jobs, db, budget>>

\* handleRestart, second write: the phase.
RestartStop ==
    /\ At("restartStop")
    /\ Wrote(WithStatus(Phased(mem, "Stopping")))
    /\ pc' = "scaleDown"
    /\ UNCHANGED <<sts, jobs, db, budget>>

\* checkStopProgress runs in phase Stopping when no action is pending.
Stopping == pc = "idle" /\ cr.ann.action = "none" /\ cr.status.phase = "Stopping"

\* checkStopProgress: all pods are gone, the stop is complete.
StopCompletes ==
    /\ Stopping /\ AllDown(cr) /\ ~cr.ann.restart
    /\ cr' = Cleared("Stopped")
    /\ UNCHANGED <<mem, sts, jobs, db, pc, ret, budget>>

\* checkStopProgress: all pods are gone and a restart is pending
\* (completeRestart, first write).
RestartResumes ==
    /\ Stopping /\ AllDown(cr) /\ cr.ann.restart
    /\ Wrote(WithAnn([cr.ann EXCEPT !.restart = FALSE]))
    /\ pc' = "restartUp" /\ ret' = "none"
    /\ UNCHANGED <<sts, jobs, db, budget>>

\* Mutant: the phase is left to updateStatus, which keeps Stopping.
RestartUpKeepsPhase ==
    /\ At("restartUp")
    /\ Wrote(cr)
    /\ pc' = "core"
    /\ UNCHANGED <<sts, jobs, db, budget>>

\* completeRestart, second write: back to Initializing, then reconcileCluster.
RestartUp ==
    /\ At("restartUp")
    /\ Wrote(Cleared("Initializing"))
    /\ pc' = "core"
    /\ UNCHANGED <<sts, jobs, db, budget>>

\* Mutant: the phase is left to updateStatus.
StartKeepsPhase ==
    /\ Action("start")
    /\ Wrote(cr)
    /\ pc' = "core" /\ ret' = "start"
    /\ UNCHANGED <<sts, jobs, db, budget>>

\* handleStart, normal: the phase is reset, then reconcileCluster.
Start ==
    /\ Action("start")
    /\ Wrote(WithStatus(Phased(cr, "Initializing")))
    /\ pc' = "core" /\ ret' = "start"
    /\ UNCHANGED <<sts, jobs, db, budget>>

\* getScaleUpOrder, as the sets of StatefulSets a loop over it has written when
\* it ends, the last one the whole order.
UpOrder == <<"coordinator", "standby", "primary", "mirror">>
Prefixes(c) ==
    {{UpOrder[i] : i \in {j \in 1 .. k : Enabled(c, UpOrder[j])}} : k \in 0 .. 4}

\* handleStart, restricted: scale up in order; the first error ends the pass
\* and keeps the annotation.
StartRestricted ==
    /\ Action("start-restricted")
    /\ \E done \in Prefixes(cr) :
         /\ sts' = [x \in Comps |->
                      IF x \in done THEN Scaled(sts[x], Replicas(cr, x)) ELSE sts[x]]
         /\ Outcome(done = Whole(cr))
         /\ IF done = Whole(cr)
              THEN pc' = "restricted" /\ mem' = cr /\ ret' = "start-restricted"
              ELSE UNCHANGED <<pc, mem, ret>>
    /\ UNCHANGED <<cr, jobs, db, ops>>

Restricted ==
    /\ pc = "restricted"
    /\ cr' = WithStatus(Phased(mem, "Restricted"))
    /\ Returned
    /\ UNCHANGED <<sts, jobs, db, budget>>

\* handleStart, maintenance: the coordinator alone.
StartMaintenance ==
    /\ Action("start-maintenance")
    /\ sts' = [sts EXCEPT !["coordinator"] = Scaled(@, 1)]
    /\ pc' = "maintenance" /\ mem' = cr /\ ret' = "start-maintenance"
    /\ UNCHANGED <<cr, jobs, db, budget>>

Maintenance ==
    /\ pc = "maintenance"
    /\ cr' = WithStatus(Phased(mem, "Maintenance"))
    /\ Returned
    /\ UNCHANGED <<sts, jobs, db, budget>>

\* handleAction: an action this controller does not know is only removed.
UnknownAction ==
    /\ Action("rebalance")
    /\ pc' = "unann" /\ ret' = "rebalance" /\ UNCHANGED mem
    /\ UNCHANGED <<cr, sts, jobs, db, budget>>

\* handleAction, last write: the annotation is removed, whatever it holds now.
RemoveAction ==
    /\ pc = "unann"
    /\ cr' = [cr EXCEPT !.ann.action = "none"]
    /\ EndPass
    /\ UNCHANGED <<sts, jobs, db, budget>>

LifecycleStep ==
    \/ Stop \/ ScaleDown \/ StillUp \/ StoppedAtOnce \/ RestartedAtOnce
    \/ Restart \/ RestartStop \/ StopCompletes \/ RestartResumes \/ RestartUp
    \/ Start \/ StartRestricted \/ Restricted \/ StartMaintenance \/ Maintenance
    \/ UnknownAction \/ RemoveAction
=============================================================================
