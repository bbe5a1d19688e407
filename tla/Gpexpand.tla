------------------------------ MODULE Gpexpand ------------------------------
(***************************************************************************)
(* The gpexpand Job: the script renderGpexpandInnerScript puts together,   *)
(* run inside the coordinator, and the life of the Job object around it.   *)
(* gpexpand.status in the catalogue (db.status) outlives the Job and       *)
(* decides what the next one does: nothing set up, a redistribution to     *)
(* resume, or an expansion already complete.                               *)
(***************************************************************************)
EXTENDS ClusterState

CONSTANT
    UnseenSuccess   \* a finished script may be recorded as a failure, or its
                    \* Job be gone before a pass has seen it

ASSUME UnseenAssumption == UnseenSuccess \in BOOLEAN

JobsOnly == UNCHANGED <<cr, mem, sts, pc, ret, budget>>

\* The script of Job n = <<old, new>> stands at s and reaches the database.
Script(n, s) == jobs[n] = s /\ Reachable
Goes(n, s) == jobs' = [jobs EXCEPT ![n] = s] /\ JobsOnly

\* gpexpand.status is COMPLETED: nothing to do, and nothing is cleaned up.
AlreadyComplete(n) ==
    /\ Script(n, "active") /\ db.status = "complete"
    /\ Goes(n, "finished") /\ UNCHANGED db

\* writeInnerFreshCleanup: without a redistribution to resume every segment from
\* the base on is taken for stale and leaves the catalogue.
FreshCleanup(n) ==
    /\ Script(n, "active") /\ db.status = "none" /\ db.registered > n[1]
    /\ db' = [db EXCEPT !.registered = n[1]]
    /\ UNCHANGED jobs /\ JobsOnly

\* gpexpand -i, the existing segments being up: the new segments are added and
\* initialised, or it aborts and leaves their entries without a status.
AddSegments(n) ==
    /\ Script(n, "active") /\ db.status = "none" /\ db.registered <= n[1]
    /\ sts["primary"].ready >= n[1] /\ sts["primary"].pods >= n[2]
    /\ \E s \in {"none", "started"} :
         db' = [db EXCEPT !.registered = n[2], !.dirs = Most(@, n[2]), !.status = s]
    /\ UNCHANGED jobs /\ JobsOnly

\* gpexpand -a, at once or by a later Job (writeInnerResumeGuard): the tables are
\* spread over the segments in the catalogue.
RedistributeTables(n) ==
    /\ Script(n, "active") /\ db.status = "started"
    /\ db' = [db EXCEPT !.rows = db.registered, !.status = "complete"]
    /\ Goes(n, "redistributed")

\* gpexpand --clean, or the schema is dropped directly.
Finalize(n) ==
    /\ Script(n, "redistributed")
    /\ db' = [db EXCEPT !.status = "none"]
    /\ Goes(n, "finished")

JobSucceeds(n) == jobs[n] = "finished" /\ Goes(n, "succeeded") /\ UNCHANGED db

\* backoffLimit is 0 and the run time is bounded: any failure is terminal.
JobFails(n) ==
    /\ jobs[n] \in {"active", "redistributed"} \/ (UnseenSuccess /\ jobs[n] = "finished")
    /\ Goes(n, "failed") /\ UNCHANGED db

\* It failed because the coordinator was shutting down (57P03).
JobWedges(n) ==
    /\ jobs[n] \in {"active", "redistributed"}
    /\ Goes(n, "wedged") /\ UNCHANGED db

\* A foreground deletion completes.
JobGone(n) == jobs[n] = "deleting" /\ Goes(n, "absent") /\ UNCHANGED db

\* ttlSecondsAfterFinished removes a finished Job.
JobExpires(n) ==
    /\ jobs[n] \in {"succeeded", "failed", "wedged"}
    /\ (jobs[n] = "succeeded" /\ cr.ann.out.phase = "expanding"
          /\ n = <<cr.ann.out.old, cr.ann.out.new>>) => UnseenSuccess
    /\ Goes(n, "absent") /\ UNCHANGED db

JobStep(n) ==
    \/ AlreadyComplete(n) \/ FreshCleanup(n) \/ AddSegments(n)
    \/ RedistributeTables(n) \/ Finalize(n) \/ JobSucceeds(n) \/ JobFails(n)
    \/ JobWedges(n) \/ JobGone(n) \/ JobExpires(n)
=============================================================================
