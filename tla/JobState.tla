------------------------------ MODULE JobState ------------------------------
(* The end of a run of one background job: App.recordJobRun of app.go with      *)
(* Store.RecordJobRunWithOutcome, which reads the number of consecutive         *)
(* failures through one connection and writes its successor through another.    *)
(* The error of the read is discarded.  The scheduler runs the job in a loop    *)
(* and a request may run it besides.                                            *)
EXTENDS EventBus

CONSTANTS
    Runners,  \* the loop of the scheduler and requests that run the job
    MaxRuns   \* bound on the number of runs

ASSUME RunnersAssumption == Runners \subseteq Publishers /\ Engine \notin Runners /\ MaxRuns \in Nat

VARIABLES
    failures,    \* job_state.consecutive_failures
    ending,      \* per runner: where it is in recordJobRun, what it has read
    runs,        \* number of runs ended so far
    failedRuns,  \* history: failed runs recorded so far
    streak,      \* history: failed runs recorded since the last recorded success
    overlapped,  \* history: two runs have recorded their ends at once
    misread      \* history: a read has failed and hidden failures that are stored

jobVars == <<failures, ending, runs, failedRuns, streak, overlapped, misread>>

Running == [at |-> "running", failed |-> FALSE, count |-> 0]

JobInit ==
    /\ failures = 0
    /\ ending = [r \in Runners |-> Running]
    /\ runs = 0
    /\ failedRuns = 0
    /\ streak = 0
    /\ overlapped = FALSE
    /\ misread = FALSE

(* A read that fails counts as none, and the run goes on. *)
FailuresRead == {failures, 0}

ReadFailures(r) ==
    /\ ending[r].at = "running"
    /\ runs < MaxRuns
    /\ \E failed \in BOOLEAN, count \in FailuresRead :
          /\ ending' = [ending EXCEPT ![r] = [at |-> "read", failed |-> failed, count |-> count]]
          /\ misread' = (misread \/ count # failures)
    /\ runs' = runs + 1
    /\ overlapped' = (overlapped \/ \E q \in Runners : ending[q].at = "read")
    /\ UNCHANGED <<failures, failedRuns, streak, busVars>>

(* Faulty: a success does not reset the count. *)
NextFailuresKept(end) == IF end.failed THEN end.count + 1 ELSE end.count

NextFailures(end) == IF end.failed THEN end.count + 1 ELSE 0

(* The upsert; a run that neither failed nor recovered has nothing to publish. *)
WriteJobState(r) ==
    /\ ending[r].at = "read"
    /\ failures' = NextFailures(ending[r])
    /\ ending' = [ending EXCEPT ![r] =
                     IF @.failed \/ @.count > 0 THEN [@ EXCEPT !.at = "written"] ELSE Running]
    /\ IF ending[r].failed
          THEN failedRuns' = failedRuns + 1 /\ streak' = streak + 1
          ELSE UNCHANGED failedRuns /\ streak' = 0
    /\ UNCHANGED <<runs, overlapped, misread, busVars>>

FailToWriteJobState(r) ==
    /\ ending[r].at = "read"
    /\ ending' = [ending EXCEPT ![r] = Running]
    /\ UNCHANGED <<failures, runs, failedRuns, streak, overlapped, misread, busVars>>

PublishJobRun(r) ==
    /\ ending[r].at = "written"
    /\ Publish(r, IF ending[r].failed THEN "worker_failed" ELSE "worker_recovered",
               NextFailures(ending[r]))
    /\ ending' = [ending EXCEPT ![r] = Running]
    /\ UNCHANGED <<failures, runs, failedRuns, streak, overlapped, misread>>

JobRestart ==
    /\ ending' = [r \in Runners |-> Running]
    /\ UNCHANGED <<failures, runs, failedRuns, streak, overlapped, misread>>

-----------------------------------------------------------------------------
(* The stored number of consecutive failures never exceeds the failed runs      *)
(* there have been, although reading and writing it are two statements.  As     *)
(* long as no two runs have ended at once it never exceeds the streak either,   *)
(* whatever reads fail; and until a read has failed it is the streak.           *)
FailureCountSound ==
    /\ failures <= failedRuns
    /\ \A r \in Runners : ending[r].at = "read" => ending[r].count <= failedRuns
    /\ ~overlapped => failures <= streak /\ (~misread => failures = streak)
=============================================================================
