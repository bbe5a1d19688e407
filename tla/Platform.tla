------------------------------ MODULE Platform ------------------------------
(***************************************************************************)
(* What the operator does not control: the StatefulSet controller and the  *)
(* pods, modelled from how the operator uses them, and the entrypoint of   *)
(* the segment pods.                                                       *)
(***************************************************************************)
EXTENDS ClusterState

StsOnly == UNCHANGED <<cr, mem, jobs, pc, ret, budget>>

\* The pods of a component that can be Ready: none on a broken version; a
\* segment needs an initialised data directory.
Healthy(x) ==
    IF sts[x].ver \in BadVersions THEN 0
    ELSE IF x \in Segments THEN Least(sts[x].replicas, db.dirs)
    ELSE sts[x].replicas

\* The StatefulSet controller sees the last write; until then the reported
\* counters are those of the previous generation.
StsObserved(x) ==
    /\ sts[x].exists /\ ~sts[x].seen
    /\ sts' = [sts EXCEPT ![x].seen = TRUE, ![x].updated = sts[x].rolled]
    /\ UNCHANGED db /\ StsOnly

\* The entrypoint of a new primary: below CLOUDBERRY_EXPANSION_BASE_COUNT it
\* runs initdb itself, at or above it it waits for gpexpand.
Initdb ==
    LET s == sts["primary"]
        upTo == Least(s.replicas, s.base)
    IN IF upTo <= db.dirs THEN UNCHANGED db
       ELSE IF db.registered = 0
         THEN db' = [db EXCEPT !.dirs = upTo, !.registered = upTo, !.rows = upTo]
         ELSE db' = [db EXCEPT !.dirs = upTo, !.rogue = TRUE]

\* Pods are created, deleted or replaced until they match the spec.
StsRolled(x) ==
    /\ sts[x].exists /\ sts[x].seen
    /\ sts[x].pods # sts[x].replicas \/ ~sts[x].rolled
    /\ sts' = [sts EXCEPT ![x].pods = sts[x].replicas, ![x].rolled = TRUE,
                          ![x].updated = TRUE,
                          ![x].ready = IF sts[x].rolled
                                         THEN Least(sts[x].ready, sts[x].replicas) ELSE 0]
    /\ IF x = "primary" THEN Initdb ELSE UNCHANGED db
    /\ StsOnly

StsReady(x) ==
    /\ sts[x].exists /\ sts[x].seen /\ sts[x].rolled
    /\ sts[x].pods = sts[x].replicas /\ sts[x].ready < Healthy(x)
    /\ sts' = [sts EXCEPT ![x].ready = Healthy(x)]
    /\ UNCHANGED db /\ StsOnly

\* A pod dies and is restarted in place.
PodFails(x) ==
    /\ sts[x].ready > 0 /\ Outcome(FALSE)
    /\ sts' = [sts EXCEPT ![x].ready = @ - 1]
    /\ UNCHANGED <<cr, mem, jobs, db, pc, ret, ops>>
=============================================================================
