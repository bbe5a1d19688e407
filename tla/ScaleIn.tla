------------------------------- MODULE ScaleIn ------------------------------
(***************************************************************************)
(* Removing segments: handleScaleIn, then the phases of the scale-in-state *)
(* annotation (checkScaleInPhases): move the rows off the segments, take   *)
(* them out of the catalogue, scale the StatefulSets, delete the volumes.  *)
(***************************************************************************)
EXTENDS ScaleOut

CONSTANT
    PartialRedistribution   \* a database or table may fail to be redistributed

ASSUME PartialAssumption == PartialRedistribution \in BOOLEAN

\* detectAndHandleScale: the primaries run and the spec asks for fewer.
FewerWanted(c) ==
    /\ sts["primary"].exists /\ sts["primary"].replicas > 0
    /\ c.spec.count < sts["primary"].replicas

\* More than half of the segments go: confirm-scale-in is required.
Confirmed(c) == 2 * c.spec.count < sts["primary"].replicas => c.ann.confirm

\* Mutant: the confirmation is not looked at.
BeginScaleInUnconfirmed ==
    /\ pc = "segments" /\ FewerWanted(mem) /\ mem.status.phase = "Running"
    /\ \/ /\ Outcome(FALSE) /\ EndPass
          /\ cr' = WithAnn([cr.ann EXCEPT !.started = "fresh"])
       \/ /\ Outcome(TRUE)
          /\ Wrote(WithAnn([cr.ann EXCEPT !.started = "fresh",
               !.in = [phase |-> "redistributing", old |-> sts["primary"].replicas,
                       new |-> mem.spec.count]]))
          /\ pc' = "scalePhase" /\ UNCHANGED ret
    /\ UNCHANGED <<sts, jobs, db, ops>>

\* handleScaleIn: scale-started, then scale-in-state; the second patch may fail.
BeginScaleIn ==
    /\ pc = "segments" /\ FewerWanted(mem) /\ mem.status.phase = "Running"
    /\ Confirmed(mem)
    /\ \/ /\ Outcome(FALSE) /\ EndPass
          /\ cr' = WithAnn([cr.ann EXCEPT !.started = "fresh"])
       \/ /\ Outcome(TRUE)
          /\ Wrote(WithAnn([cr.ann EXCEPT !.started = "fresh",
               !.in = [phase |-> "redistributing", old |-> sts["primary"].replicas,
                       new |-> mem.spec.count]]))
          /\ pc' = "scalePhase" /\ UNCHANGED ret
    /\ UNCHANGED <<sts, jobs, db, ops>>

ScaleInAt(p) == Progress /\ cr.ann.started # "late" /\ cr.ann.in.phase = p

\* advanceScaleInPhase; the patch may fail after the work of the phase was done.
Advanced(p, ok) == IF ok THEN [cr EXCEPT !.ann.in.phase = p] ELSE cr
Advance(p) == \E ok \in BOOLEAN : Outcome(ok) /\ cr' = Advanced(p, ok)

\* Mutant: the rows are left where they are.
RedistributeNothing ==
    /\ ScaleInAt("redistributing") /\ Reachable
    /\ UNCHANGED db
    /\ Advance("deregistering")
    /\ Held /\ UNCHANGED <<sts, jobs>>

\* RedistributeBeforeScaleIn: each table is copied to the segments that stay.  A
\* database or a table that fails is logged and skipped.
RowsMoved(n) ==
    \/ db' = [db EXCEPT !.rows = Least(@, n)]
    \/ PartialRedistribution /\ UNCHANGED db

\* Phase redistributing.
Redistribute ==
    /\ ScaleInAt("redistributing") /\ Reachable
    /\ RowsMoved(cr.ann.in.new)
    /\ Advance("deregistering")
    /\ Held /\ UNCHANGED <<sts, jobs>>

\* DeregisterSegments: contents >= n leave gp_segment_configuration.
Deregistered(n) == [db EXCEPT !.registered = Least(@, n)]

\* Phase deregistering.
Deregister ==
    /\ ScaleInAt("deregistering") /\ Reachable
    /\ db' = Deregistered(cr.ann.in.new)
    /\ Advance(IF cr.spec.mirroring THEN "scaling-mirrors" ELSE "scaling-primaries")
    /\ Held /\ UNCHANGED <<sts, jobs>>

\* One StatefulSet is scaled to the new count; the phase advances once enough
\* pods are Ready, which the old ones are already.
ScaleSet(x, next) ==
    /\ sts' = [sts EXCEPT ![x] = Scaled(@, cr.ann.in.new)]
    /\ IF AtScale(x, cr.ann.in.new) THEN Advance(next) ELSE UNCHANGED <<cr, faults>>
    /\ Held /\ UNCHANGED <<jobs, db>>

ScaleMirrors ==
    ScaleInAt("scaling-mirrors") /\ ScaleSet("mirror", "scaling-primaries")

ScalePrimaries ==
    ScaleInAt("scaling-primaries") /\ ScaleSet("primary", "cleanup")

\* cleanupOrphanedPVCs with deletionPolicy Delete.
Cleanup ==
    /\ ScaleInAt("cleanup")
    /\ \E all, ok \in BOOLEAN :
         /\ Cleaned(cr.ann.in.new, all)
         /\ cr' = Advanced("completed", ok)
         /\ Outcome(all /\ ok)
    /\ Held /\ UNCHANGED <<sts, jobs>>

ScaleInCompletes ==
    /\ ScaleInAt("completed")
    /\ CompleteScale([cr EXCEPT !.ann.in = NoIn])
    /\ Held /\ UNCHANGED <<sts, jobs>>

ScaleInStep ==
    \/ BeginScaleIn \/ Redistribute \/ Deregister \/ ScaleMirrors
    \/ ScalePrimaries \/ Cleanup \/ ScaleInCompletes
=============================================================================
