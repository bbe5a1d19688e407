---------------------------- MODULE ClusterState ----------------------------
(***************************************************************************)
(* What the cluster controller reads and writes: the CloudberryCluster     *)
(* object (cr), the reconciler's in-memory copy of it (mem), the           *)
(* StatefulSets, the gpexpand Jobs and the database catalogue.  The        *)
(* modules of the handlers extend this one; ClusterController composes     *)
(* them.                                                                   *)
(*                                                                         *)
(* A reconcile pass is a sequence of steps (pc) with at most one API write *)
(* each; Abandon (in ClusterController) ends it at any step: an API error, *)
(* a conflict or a crash.  A handler that reads the object and writes once *)
(* is one step taken from pc = "idle".                                     *)
(***************************************************************************)
EXTENDS Naturals, FiniteSets

CONSTANTS
    MaxCount,      \* the largest spec.segments.count a user asks for
    Versions,      \* the versions (image and version string together)
    BadVersions,   \* versions whose pods never become Ready
    HasStandby,    \* spec.standby.enabled
    DeletePVCs,    \* spec.deletionPolicy is Delete
    MaxAttempts,   \* maxRedistributeAttempts
    NoCopy,        \* no copy of the object is held between two passes
    MaxOps,        \* how many user operations a behaviour may contain
    MaxFaults      \* how many API calls or passes may fail in a behaviour

ASSUME MaxCountAssumption == MaxCount \in Nat \ {0}
ASSUME VersionsAssumption == Versions # {} /\ BadVersions \subseteq Versions
ASSUME FlagsAssumption == HasStandby \in BOOLEAN /\ DeletePVCs \in BOOLEAN
ASSUME BoundsAssumption == MaxAttempts \in Nat \ {0} /\ MaxOps \in Nat /\ MaxFaults \in Nat

VARIABLES
    cr,       \* the CloudberryCluster on the API server
    mem,      \* the copy of it the running pass works with
    sts,      \* the StatefulSets, spec and reported status
    jobs,     \* the gpexpand Jobs, by old and new segment count
    db,       \* the database: registered segments, their directories, rows
    pc,       \* where the running pass is
    ret,      \* the action annotation the pass is processing, or "none"
    ops,      \* user operations so far
    faults    \* failed calls and abandoned passes so far

budget == <<ops, faults>>
vars == <<cr, mem, sts, jobs, db, pc, ret, budget>>

Count == 0 .. MaxCount
NoBase == MaxCount + 1      \* no ordinal is at or above it
Known == Versions \cup {""}   \* a version, or none recorded yet

Comps == {"coordinator", "standby", "primary", "mirror"}
Segments == {"primary", "mirror"}

Actions == {"start", "start-restricted", "start-maintenance", "stop", "restart",
            "rebalance"}
Phases == {"", "Pending", "Initializing", "Running", "Stopping", "Stopped",
           "Restricted", "Maintenance", "Scaling", "Failed"}
OutPhases == {"none", "scaling-sts", "expanding", "completed"}
InPhases == {"none", "redistributing", "deregistering", "scaling-mirrors",
             "scaling-primaries", "cleanup", "completed"}
Timer == {"none", "fresh", "late"}
MirStatuses == {"NotConfigured", "InSync", "Degraded"}
JobStates == {"absent", "active", "redistributed", "finished", "succeeded",
              "failed", "wedged", "deleting"}
JobRunning == {"active", "redistributed", "finished"}
PassSteps == {"idle", "core", "segments", "status", "unann", "scaleDown",
              "checkDown", "restartStop", "restartUp", "restricted",
              "maintenance", "outSts", "scalePhase"}

\* scale-state: the scale-out under way.
OutState == [phase : OutPhases, old : Count, new : Count, tracked : BOOLEAN,
             tries : 0 .. MaxAttempts]
NoOut == [phase |-> "none", old |-> 0, new |-> 0, tracked |-> FALSE, tries |-> 0]

\* scale-in-state: the scale-in under way.
InState == [phase : InPhases, old : Count, new : Count]
NoIn == [phase |-> "none", old |-> 0, new |-> 0]

Desired == [count : Count, ver : Versions, mirroring : BOOLEAN]
Annotations == [action : Actions \cup {"none"}, restart : BOOLEAN, confirm : BOOLEAN,
                started : Timer, out : OutState, in : InState]
Status == [phase : Phases, obsGen : Nat, total : Count, ready : Count,
           coord : BOOLEAN, ver : Known, mirroring : MirStatuses]
Cluster == [spec : Desired, gen : Nat, ann : Annotations, status : Status]

StatefulSet == [exists : BOOLEAN, replicas : Count, ver : Known, base : 0 .. NoBase,
                seen : BOOLEAN, rolled : BOOLEAN, updated : BOOLEAN,
                pods : Count, ready : Count]

\* registered: segments in gp_segment_configuration; dirs: ordinals with an
\* initialised data directory; rows: segments that hold user rows; rogue: a
\* primary initialised itself although the catalogue was already populated;
\* status: gpexpand.status, "none" until the new segments are set up.
Database == [registered : Count, dirs : Count, rows : Count, rogue : BOOLEAN,
             status : {"none", "started", "complete"}]

JobNames == Count \X Count

TypeOK ==
    /\ cr \in Cluster /\ mem \in Cluster \cup {NoCopy}
    /\ sts \in [Comps -> StatefulSet]
    /\ jobs \in [JobNames -> JobStates]
    /\ db \in Database
    /\ pc \in PassSteps /\ ret \in Actions \cup {"none"}
    /\ ops \in 0 .. MaxOps /\ faults \in 0 .. MaxFaults

Least(a, b) == IF a <= b THEN a ELSE b
Most(a, b) == IF a >= b THEN a ELSE b

-----------------------------------------------------------------------------
(* The copy of the object a pass works with, and the ends of a pass. *)

\* A step that continues a pass.
At(step) == pc = step /\ UNCHANGED ret

\* A write the API server accepted; its answer replaces the copy.
Wrote(c) == cr' = c /\ mem' = c

\* Status().Update carries the resourceVersion of the copy: it is accepted only
\* if nobody wrote the object since the copy was taken.
Fresh == mem = cr

\* The object after a merge patch of its whole status (patchStatus, without a
\* resourceVersion).
WithStatus(s) == [cr EXCEPT !.status = s]

\* The object after a merge patch of annotations (setAnnotationPatch,
\* removeAnnotationPatch).
WithAnn(a) == [cr EXCEPT !.ann = a]

\* A call succeeds, or it fails and counts as a fault.
Outcome(ok) == IF ok THEN UNCHANGED faults ELSE faults < MaxFaults /\ faults' = faults + 1

\* The pass is over: it failed, or it has nothing left to do.
EndPass == pc' = "idle" /\ mem' = NoCopy /\ ret' = "none"

\* A handler has returned without error: an action's annotation is still to be
\* removed, any other pass is over.
Returned ==
    /\ pc' = IF ret = "none" THEN "idle" ELSE "unann"
    /\ mem' = NoCopy /\ UNCHANGED ret

\* The database answers.
Reachable == sts["coordinator"].ready > 0

-----------------------------------------------------------------------------
(* Writes of StatefulSets, and what the controller reads off them. *)

\* getScaleDownOrder and getScaleUpOrder name the enabled components.
Enabled(c, x) ==
    CASE x = "standby" -> HasStandby
      [] x = "mirror" -> c.spec.mirroring
      [] OTHER -> TRUE

\* getDesiredReplicas
Replicas(c, x) == IF x \in Segments THEN c.spec.count ELSE 1

\* scaleOutBaseCount: the ordinal from which new pods wait for gpexpand.
BaseCount(c) ==
    IF c.ann.out.phase # "none" /\ c.ann.out.old < c.ann.out.new
      THEN c.ann.out.old ELSE NoBase

\* createOrUpdateStatefulSet: create, or write the template and the replicas if
\* either differs.
Applied(s, n, v, b) ==
    IF s.exists /\ s.replicas = n /\ s.ver = v /\ s.base = b THEN s
    ELSE [s EXCEPT !.exists = TRUE, !.replicas = n, !.ver = v, !.base = b,
                   !.seen = FALSE,
                   !.rolled = s.rolled /\ (s.pods = 0 \/ (s.ver = v /\ s.base = b))]

\* What the builder builds for component x from the copy c, n replicas.
Built(c, x, n) ==
    Applied(sts[x], n, c.spec.ver, IF x \in Segments THEN BaseCount(c) ELSE NoBase)

\* scaleStatefulSet: only the replicas; a missing StatefulSet is no error.
Scaled(s, n) ==
    IF ~s.exists \/ s.replicas = n THEN s
    ELSE [s EXCEPT !.replicas = n, !.seen = FALSE]

\* isStatefulSetAtScale
AtScale(x, n) ==
    sts[x].exists => IF n = 0 THEN sts[x].pods = 0 ELSE sts[x].ready >= n

\* allStatefulSetsAtScale(0)
AllDown(c) == \A x \in Comps : Enabled(c, x) => AtScale(x, 0)
=============================================================================
