------------------------------ MODULE ScaleOut ------------------------------
(***************************************************************************)
(* Adding segments: handleScaleOut, then the phases of the scale-state     *)
(* annotation (checkScaleOutPhases) with the gpexpand Job behind phase     *)
(* "expanding", and the completion both scale directions share.            *)
(***************************************************************************)
EXTENDS ClusterState

\* scaleOutInProgress: a pass leaves the StatefulSets alone.
ScaleOutInProgress(c) == c.ann.out.phase \in {"scaling-sts", "expanding"}

\* detectAndHandleScale: the primaries run and the spec asks for more.
MoreWanted(c) ==
    /\ sts["primary"].exists /\ sts["primary"].replicas > 0
    /\ c.spec.count > sts["primary"].replicas

\* handleScaleOut: scale-started, then scale-state with the base count; the
\* second patch may fail.
BeginScaleOut ==
    /\ pc = "segments" /\ MoreWanted(mem) /\ mem.status.phase = "Running"
    /\ \/ /\ Outcome(FALSE) /\ EndPass
          /\ cr' = WithAnn([cr.ann EXCEPT !.started = "fresh"])
       \/ /\ Outcome(TRUE)
          /\ Wrote(WithAnn([cr.ann EXCEPT !.started = "fresh",
               !.out = [phase |-> "scaling-sts", old |-> sts["primary"].replicas,
                        new |-> mem.spec.count, tracked |-> FALSE, tries |-> 0]]))
          /\ pc' = "outSts" /\ UNCHANGED ret
    /\ UNCHANGED <<sts, jobs, db, ops>>

\* Mutant: the replicas are raised and the template is left as it was.
ApplyScaleOutReplicasOnly ==
    /\ pc = "outSts"
    /\ sts' = [x \in Comps |-> IF x \in Segments /\ Enabled(mem, x)
                                 THEN Scaled(sts[x], mem.spec.count) ELSE sts[x]]
    /\ pc' = "scalePhase"
    /\ UNCHANGED <<cr, mem, ret, jobs, db, budget>>

\* applyScaleOutStatefulSets: primaries, then mirrors; either write may fail.
\* Without the base count in the annotation it refuses.
ApplyScaleOut ==
    /\ pc = "outSts"
    /\ \E done \in {{}, {"primary"}, {"primary", "mirror"}} :
         /\ done # {} => BaseCount(mem) = mem.ann.out.old
         /\ Outcome(done = {"primary", "mirror"})
         /\ sts' = [x \in Comps |-> IF x \in done /\ Enabled(mem, x)
                                      THEN Built(mem, x, mem.spec.count) ELSE sts[x]]
         /\ IF done = {"primary", "mirror"}
              THEN pc' = "scalePhase" /\ UNCHANGED <<mem, ret>>
              ELSE EndPass
    /\ UNCHANGED <<cr, jobs, db, ops>>

\* handleScaleOut and handleScaleIn, last write: the phase.
EnterScaling ==
    /\ At("scalePhase") /\ Fresh
    /\ Wrote([cr EXCEPT !.status.phase = "Scaling"])
    /\ pc' = "status"
    /\ UNCHANGED <<sts, jobs, db, budget>>

-----------------------------------------------------------------------------
(* checkScaleProgress, phase Scaling. *)

Progress == pc = "idle" /\ cr.ann.action = "none" /\ cr.status.phase = "Scaling"


\* handleScaleFailure: the timeout is reported once; the phase stays.
ScaleTimesOut ==
    /\ Progress /\ cr.ann.started = "late"
    /\ cr' = [cr EXCEPT !.ann.started = "none"]
    /\ UNCHANGED <<mem, sts, jobs, db, pc, ret, budget>>

ScaleOutAt(p) ==
    /\ Progress /\ cr.ann.started # "late" /\ cr.ann.in.phase = "none"
    /\ cr.ann.out.phase = p

JobName == <<cr.ann.out.old, cr.ann.out.new>>
Held == UNCHANGED <<mem, pc, ret, ops>>
Kept == Held /\ UNCHANGED faults

\* persistScaleState may fail: the annotation stays.
Persist(o) ==
    \E ok \in BOOLEAN :
      Outcome(ok) /\ cr' = IF ok THEN [cr EXCEPT !.ann.out = o] ELSE cr

\* segmentPodsRunning: pods old .. new-1 exist (Running; Ready is not required).
PodsRunning(x) == Enabled(cr, x) => sts[x].pods >= cr.ann.out.new

\* statefulSetFullyRolled and componentPodStable
Stable(s) ==
    /\ s.exists /\ s.replicas > 0 /\ s.seen /\ s.updated
    /\ s.ready = s.replicas /\ s.pods = s.replicas

\* Phase scaling-sts: the old segments are Ready, the new pods run, coordinator
\* and standby are stable (scaleOutSegmentPodsProvisioned,
\* coordinatorStableForGpexpand).
PodsProvisioned ==
    /\ ScaleOutAt("scaling-sts")
    /\ \A x \in Segments : Enabled(cr, x) => AtScale(x, cr.ann.out.old)
    /\ \A x \in Segments : PodsRunning(x)
    /\ \A x \in {"coordinator", "standby"} : Enabled(cr, x) => Stable(sts[x])
    /\ cr' = [cr EXCEPT !.ann.out.phase = "expanding"]
    /\ Kept /\ UNCHANGED <<sts, jobs, db>>

\* startGpexpandJob: no Job is tracked, or the tracked one is gone.
NeedsJob == ScaleOutAt("expanding") /\ (~cr.ann.out.tracked \/ jobs[JobName] = "absent")

\* No Job of that name, or one that is not superseded: create or adopt it.
StartGpexpand ==
    /\ NeedsJob /\ jobs[JobName] \in JobRunning \cup {"absent", "succeeded"}
    /\ jobs' = [jobs EXCEPT ![JobName] = IF @ = "absent" THEN "active" ELSE @]
    /\ Persist([cr.ann.out EXCEPT !.tracked = TRUE])
    /\ Held /\ UNCHANGED <<sts, db>>

\* ensureFreshGpexpandJob: a failed Job is deleted in the foreground first.
ReplaceGpexpand ==
    /\ NeedsJob /\ jobs[JobName] \in {"failed", "wedged"}
    /\ jobs' = [jobs EXCEPT ![JobName] = "deleting"]
    /\ Kept /\ UNCHANGED <<cr, sts, db>>

Tracked(s) == ScaleOutAt("expanding") /\ cr.ann.out.tracked /\ jobs[JobName] = s

\* finalizeGpexpandSchema: a gpexpand schema left behind is dropped; an error, or
\* a database that does not answer, is logged and no more.
FinalizeSchema(dropped) ==
    /\ dropped => Reachable
    /\ db' = IF dropped THEN [db EXCEPT !.status = "none"] ELSE db

\* Mutant: any terminal Job counts as done.
GpexpandDoneAnyOutcome ==
    /\ Tracked("succeeded") \/ Tracked("failed")
    /\ UNCHANGED <<db, faults>>
    /\ cr' = [cr EXCEPT !.ann.out.phase = "completed"]
    /\ Held /\ UNCHANGED <<sts, jobs>>

\* processScaleOutExpanding: the tracked Job has succeeded; advanceScalePhase
\* may fail after the schema was dropped.
GpexpandDone ==
    /\ Tracked("succeeded")
    /\ \E dropped, advanced \in BOOLEAN :
         /\ FinalizeSchema(dropped)
         /\ cr' = IF advanced THEN [cr EXCEPT !.ann.out.phase = "completed"] ELSE cr
         /\ Outcome((dropped \/ ~Reachable) /\ advanced)
    /\ Held /\ UNCHANGED <<sts, jobs>>

\* recoverWedgedCoordinator: the coordinator pod is deleted; no attempt is
\* consumed and the Job stays.
RecoverCoordinator ==
    /\ Tracked("wedged")
    /\ sts' = [sts EXCEPT !["coordinator"].ready = 0]
    /\ Kept /\ UNCHANGED <<cr, jobs, db>>

\* Mutant: one attempt too many.
RetryGpexpandOneMore ==
    /\ Tracked("failed") /\ cr.ann.out.tries <= MaxAttempts
    /\ jobs' = [jobs EXCEPT ![JobName] = "absent"] \/ UNCHANGED jobs
    /\ Persist([cr.ann.out EXCEPT !.tries = @ + 1, !.tracked = FALSE])
    /\ Held /\ UNCHANGED <<sts, db>>

\* handleGpexpandJobFailure below the bound: count, delete the Job (which may
\* fail), forget it.
RetryGpexpand ==
    /\ Tracked("failed") /\ cr.ann.out.tries + 1 < MaxAttempts
    /\ jobs' = [jobs EXCEPT ![JobName] = "absent"] \/ UNCHANGED jobs
    /\ Persist([cr.ann.out EXCEPT !.tries = @ + 1, !.tracked = FALSE])
    /\ Held /\ UNCHANGED <<sts, db>>

\* failScaleOutRedistribution at the bound: phase Failed, then the annotations
\* are removed; each of the writes may fail and the next is tried all the same.
GiveUp ==
    /\ Tracked("failed") /\ cr.ann.out.tries + 1 >= MaxAttempts
    /\ \E s \in {cr.status.phase, "Failed"}, o \in {cr.ann.out, NoOut},
          t \in {cr.ann.started, "none"} :
         /\ Outcome(<<s, o, t>> = <<"Failed", NoOut, "none">>)
         /\ cr' = [cr EXCEPT !.status.phase = s, !.ann.out = o, !.ann.started = t]
    /\ Held /\ UNCHANGED <<sts, jobs, db>>

-----------------------------------------------------------------------------
(* completeScaleOperation, for both directions. *)

\* The direction is told from the recorded total.
IsScaleIn(c) == c.spec.count < c.status.total

Completed(c) ==
    [c.status EXCEPT !.phase = "Running", !.ready = c.spec.count, !.total = c.spec.count]

\* cleanupOrphanedPVCs: the data directories from ordinal n on are deleted; a
\* deletion that fails is logged and no more (all: none failed).
Cleaned(n, all) ==
    IF ~DeletePVCs THEN all /\ UNCHANGED db
    ELSE \E d \in Least(db.dirs, n) .. db.dirs :
           /\ all = (d = Least(db.dirs, n))
           /\ db' = [db EXCEPT !.dirs = d]

\* c: the object with its state annotation removed; that removal may fail.  The
\* volumes of a scale-in are cleaned up, then the status is written, which may
\* fail, then cleanupScaleAnnotations removes what is left, each removal being
\* tried whatever the others did.
CompleteScale(c) ==
    \E r \in {cr, c}, all \in BOOLEAN :
      /\ IF IsScaleIn(r) THEN Cleaned(r.spec.count, all) ELSE all /\ UNCHANGED db
      /\ \/ Outcome(FALSE) /\ cr' = r
         \/ \E t \in {r.ann.started, "none"}, i \in {r.ann.in, NoIn},
               f \in {r.ann.confirm, r.ann.confirm /\ ~IsScaleIn(r)} :
              /\ Outcome(all /\ <<r, t, i>> = <<c, "none", NoIn>>
                           /\ f = (r.ann.confirm /\ ~IsScaleIn(r)))
              /\ cr' = [r EXCEPT !.status = Completed(r), !.ann.started = t,
                                 !.ann.in = i, !.ann.confirm = f]

ScaleOutCompletes ==
    /\ ScaleOutAt("completed")
    /\ CompleteScale([cr EXCEPT !.ann.out = NoOut])
    /\ Held /\ UNCHANGED <<sts, jobs>>

\* checkScaleProgress without any state annotation: allSegmentStatefulSetsReady.
StatelessScaleCompletes ==
    /\ ScaleOutAt("none")
    /\ \A x \in Segments : Enabled(cr, x) => AtScale(x, cr.spec.count)
    /\ CompleteScale(cr)
    /\ Held /\ UNCHANGED <<sts, jobs>>

ScaleOutStep ==
    \/ BeginScaleOut \/ ApplyScaleOut \/ EnterScaling \/ ScaleTimesOut
    \/ PodsProvisioned \/ StartGpexpand \/ ReplaceGpexpand \/ GpexpandDone
    \/ RecoverCoordinator \/ RetryGpexpand \/ GiveUp
    \/ ScaleOutCompletes \/ StatelessScaleCompletes
=============================================================================
