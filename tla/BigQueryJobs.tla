---------------------------- MODULE BigQueryJobs ----------------------------
(***************************************************************************)
(* The queries of db/bigquery.ts: a job is created, waited for and, if its *)
(* results did not come, cancelled.  BigQuery itself is external: a job    *)
(* runs whether or not anybody knows about it, and ends at the latest by   *)
(* the jobTimeoutMs it was created with.                                   *)
(***************************************************************************)
EXTENDS Naturals, FiniteSets

CONSTANT Queries

VARIABLES
  queries,   \* query -> where the call is, whether it was interrupted, its answer
  jobs,      \* query -> what its job does: none, running, done, failed, canceled
  lostJobs   \* queries whose createQueryJob failed after the job was there

jobVars == <<queries, jobs, lostJobs>>

JobsInit ==
  /\ queries = [q \in Queries |-> [at |-> "new", interrupted |-> FALSE, readOnly |-> FALSE, answer |-> "none"]]
  /\ jobs = [q \in Queries |-> "none"] /\ lostJobs = {}

Ends(q, answer) == [queries[q] EXCEPT !.at = "over", !.answer = answer]

\* query: a text the classifier does not call a read is refused when it has to be one.
Submit(q, readOnly, isRead) ==
  /\ queries[q].at = "new"
  /\ queries' = [queries EXCEPT ![q] =
       [IF readOnly /\ ~isRead THEN Ends(q, "blocked") ELSE [@ EXCEPT !.at = "creating"]
          EXCEPT !.readOnly = readOnly]]
  /\ UNCHANGED <<jobs, lostJobs>>

\* createQueryJob reaches BigQuery.
JobStarts(q) ==
  /\ queries[q].at = "creating" /\ jobs[q] = "none"
  /\ jobs' = [jobs EXCEPT ![q] = "running"]
  /\ UNCHANGED <<queries, lostJobs>>

JobEnds(q) ==
  /\ jobs[q] = "running"
  /\ \E end \in {"done", "failed"} : jobs' = [jobs EXCEPT ![q] = end]
  /\ UNCHANGED <<queries, lostJobs>>

\* The answer of createQueryJob.  The call cannot be interrupted before it: an
\* interrupt that came meanwhile is obeyed now, and the job released unused.
Created(q) ==
  /\ queries[q].at = "creating" /\ jobs[q] # "none"
  /\ queries' = [queries EXCEPT ![q].at = IF @ = "creating" /\ queries[q].interrupted THEN "canceling" ELSE "waiting"]
  /\ UNCHANGED <<jobs, lostJobs>>

\* It fails: there is nothing to cancel, although there may be a job.
CreateFails(q) ==
  /\ queries[q].at = "creating"
  /\ queries' = [queries EXCEPT ![q] = Ends(q, IF queries[q].interrupted THEN "interrupted" ELSE "error")]
  /\ lostJobs' = IF jobs[q] = "none" THEN lostJobs ELSE lostJobs \cup {q}
  /\ UNCHANGED jobs

\* getQueryResults: finished is set, nothing is cancelled.
ResultsArrive(q) ==
  /\ queries[q].at = "waiting" /\ jobs[q] = "done"
  /\ queries' = [queries EXCEPT ![q] = Ends(q, "rows")]
  /\ UNCHANGED <<jobs, lostJobs>>

\* Mutant: only an interrupt cancels.
ResultsFailLeaves(q) ==
  /\ queries[q].at = "waiting"
  /\ queries' = [queries EXCEPT ![q] = Ends(q, "error")]
  /\ UNCHANGED <<jobs, lostJobs>>

\* The job failed, timeoutMs is over, or the request got lost.
ResultsFail(q) ==
  /\ queries[q].at = "waiting"
  /\ queries' = [queries EXCEPT ![q] = [@ EXCEPT !.at = "canceling", !.answer = "error"]]
  /\ UNCHANGED <<jobs, lostJobs>>

InterruptQuery(q) ==
  /\ queries[q].at \in {"creating", "waiting"} /\ ~queries[q].interrupted
  /\ queries' = [queries EXCEPT ![q].interrupted = TRUE,
                                ![q].at = IF @ = "waiting" THEN "canceling" ELSE @]
  /\ UNCHANGED <<jobs, lostJobs>>

\* job.cancel is over: it reached the job or did not; nobody is told.
Cancelled(q, reached) ==
  /\ queries[q].at = "canceling"
  /\ jobs' = [jobs EXCEPT ![q] = IF reached /\ @ = "running" THEN "canceled" ELSE @]
  /\ lostJobs' = IF reached THEN lostJobs ELSE lostJobs \cup {q}
  /\ queries' = [queries EXCEPT ![q] = Ends(q, IF queries[q].interrupted THEN "interrupted" ELSE "error")]

JobsNext ==
  \E q \in Queries :
    \/ \E readOnly, isRead \in BOOLEAN : Submit(q, readOnly, isRead)
    \/ JobStarts(q) \/ JobEnds(q) \/ Created(q) \/ CreateFails(q)
    \/ ResultsArrive(q) \/ ResultsFail(q) \/ InterruptQuery(q)
    \/ \E reached \in BOOLEAN : Cancelled(q, reached)

JobsSpec == JobsInit /\ [][JobsNext]_jobVars
-----------------------------------------------------------------------------
(* Properties *)

\* A call that is over leaves no job running, except when the request that
\* created it or the one that cancels it got lost; and rows are of a job that
\* was done.
NoJobIsLeft ==
  \A q \in Queries : queries[q].at = "over" =>
    /\ jobs[q] = "running" => q \in lostJobs
    /\ queries[q].answer = "rows" => jobs[q] = "done"
    /\ queries[q].answer = "blocked" => jobs[q] = "none"
=============================================================================
