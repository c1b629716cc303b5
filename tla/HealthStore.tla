------------------------------ MODULE HealthStore ------------------------------
(***************************************************************************)
(* The health part of the SQLite store: the tables services,               *)
(* discovered_services, health_checks and health_check_results, and the     *)
(* write transactions of internal/store/sqlite/health_checks.go.           *)
(*                                                                         *)
(* All writes go through the single connection Store.db, so a transaction   *)
(* is one action.  Each operator below is the effect of one committed        *)
(* transaction on the two variables; the modules that extend this one say   *)
(* who calls it and when.                                                   *)
(*                                                                         *)
(* Abstractions.  The results of a check are kept as the status of the one  *)
(* with the greatest checked_at, because that is the only one the roll-up    *)
(* and the scheduler read.  The clock columns of a check (next_run_at and   *)
(* the newest checked_at, both compared with now) are kept as its timer:    *)
(*   "waiting"  next_run_at lies in the future                              *)
(*   "held"     next_run_at has come, but the newest result is younger than *)
(*              the interval, so isDue still answers no                     *)
(*   "due"      next_run_at has come and isDue answers yes                  *)
(* health_config_mode is not kept: the code tests it on a copy of the row    *)
(* read earlier, and every subject starts in mode auto, so a test may come   *)
(* out either way whatever the row says by now.  Row ids are random: an id   *)
(* that is in no row and in no running job's memory is as good as a new one. *)
(***************************************************************************)
EXTENDS Naturals

CONSTANTS
    Services,            \* ids of rows of services
    DiscoveredServices,  \* ids of rows of discovered_services
    CheckIds,            \* ids of rows of health_checks
    NoSubject,           \* the subject of an id that is not in health_checks
    MaxFailures          \* bound: consecutive_failures counts up to here

ASSUME StoreAssumption ==
    /\ Services \cap DiscoveredServices = {}
    /\ NoSubject \notin Services \cup DiscoveredServices
    /\ MaxFailures \in Nat \ {0}

VARIABLES
    subjects,   \* the rows of services and discovered_services
    checks      \* the rows of health_checks with their newest result

storeVars == <<subjects, checks>>

Subjects     == Services \cup DiscoveredServices
ProbeStatus  == {"healthy", "unhealthy"}
CheckStatus  == ProbeStatus \cup {"unknown"}
HealthStatus == CheckStatus \cup {"degraded"}
RowState     == {"unused", "live", "deleted"}
Timer        == {"waiting", "held", "due"}

SubjectRow == [row: RowState, status: HealthStatus]

CheckRow ==
    [live: BOOLEAN, subject: Subjects \cup {NoSubject}, enabled: BOOLEAN,
     managed: BOOLEAN, lastStatus: CheckStatus, failures: 0..MaxFailures,
     newest: CheckStatus, timer: Timer]

StoreTypeOK ==
    /\ subjects \in [Subjects -> SubjectRow]
    /\ checks \in [CheckIds -> CheckRow]

\* What stands for an id that is not in the table.
NoRow ==
    [live |-> FALSE, subject |-> NoSubject, enabled |-> FALSE, managed |-> FALSE,
     lastStatus |-> "unknown", failures |-> 0, newest |-> "unknown", timer |-> "due"]

StoreInit ==
    /\ subjects = [x \in Subjects |-> [row |-> "unused", status |-> "unknown"]]
    /\ checks = [c \in CheckIds |-> NoRow]

-----------------------------------------------------------------------------
(* Reading the tables *)

ChecksOf(x) == {c \in CheckIds : checks[c].live /\ checks[c].subject = x}
ManagedChecksOf(x) == {c \in ChecksOf(x) : checks[c].managed}

\* The statuses the roll-up query returns for subject x over the table ck: the
\* newest result of every enabled check, "unknown" for a check without results.
LatestStatuses(ck, x) ==
    {ck[c].newest : c \in {d \in CheckIds :
        ck[d].live /\ ck[d].subject = x /\ ck[d].enabled}}

RollUp(statuses) ==
    CASE statuses = {}            -> "unknown"
      [] statuses = {"healthy"}   -> "healthy"
      [] statuses = {"unhealthy"} -> "unhealthy"
      [] OTHER                    -> "degraded"

\* The status column of x equals the roll-up of the checks x has now.
StatusIsRollUp(x) == subjects[x].status = RollUp(LatestStatuses(checks, x))

-----------------------------------------------------------------------------
(* Rows that a transaction writes *)

\* A row inserted by saveHealthCheckTx: never run, due at once.
NewCheck(x, enabled, managed) ==
    [NoRow EXCEPT !.live = TRUE, !.subject = x, !.enabled = enabled, !.managed = managed]

\* Faulty: last_status waits for a second failure in a row.
DebouncedCheck(k, status, overtaken, timer) ==
    [k EXCEPT !.lastStatus = IF status = "unhealthy" /\ k.failures = 0 THEN @ ELSE status,
              !.failures = IF status = "healthy" THEN 0 ELSE MaxFailures,
              !.newest = IF overtaken THEN @ ELSE status,
              !.timer = timer]

\* The row k after a result of the given status has been stored.  An overtaken
\* result is older than one already stored, so it does not become the newest;
\* next_run_at is computed from it all the same and may already have come.
RecordedCheck(k, status, overtaken, timer) ==
    [k EXCEPT !.lastStatus = status,
              !.failures = IF status = "healthy" THEN 0
                           ELSE IF k.lastStatus = "healthy" THEN 1
                           ELSE IF @ < MaxFailures THEN @ + 1 ELSE @,
              !.newest = IF overtaken THEN @ ELSE status,
              !.timer = timer]

\* Faulty: any failing result raises an alert.
AlertOfEveryFailure(previous, current) ==
    CASE current = "unhealthy" -> "failed"
      [] previous = "unhealthy" /\ current = "healthy" -> "recovered"
      [] OTHER -> "none"

\* The transition between two values of last_status that is reported as an alert.
AlertOf(previous, current) ==
    CASE previous = "healthy" /\ current # "healthy" -> "failed"
      [] previous = "unhealthy" /\ current = "healthy" -> "recovered"
      [] OTHER -> "none"

Deleted(ck, D) == [c \in CheckIds |-> IF c \in D THEN NoRow ELSE ck[c]]

RolledUp(x, ck) ==
    [subjects EXCEPT ![x].status = IF subjects[x].row = "live"
                                   THEN RollUp(LatestStatuses(ck, x)) ELSE @]

-----------------------------------------------------------------------------
(* Transactions *)

\* SaveManualService: an upsert by id that leaves the status of an existing row alone,
\* takes the payload's for a new one, brings a deleted row back, and inserts a
\* fallback check c when the service has no check at all.
UpsertService(s, status, c) ==
    /\ s \in Services
    /\ subjects' = [subjects EXCEPT ![s] =
            IF @.row = "live" THEN @ ELSE [row |-> "live", status |-> status]]
    /\ checks' = IF ChecksOf(s) = {}
                 THEN [checks EXCEPT ![c] = NewCheck(s, TRUE, TRUE)] ELSE checks

\* A discovered service is first observed; its checks are provisioned right after, by
\* ReplaceManagedRows.
InsertDiscovered(d) ==
    /\ d \in DiscoveredServices
    /\ subjects[d].row = "unused"
    /\ subjects' = [subjects EXCEPT ![d].row = "live"]
    /\ UNCHANGED checks

\* DeleteService removes the row of services and nothing of health_checks, which has
\* no foreign key to it.
DeleteServiceRow(s) ==
    /\ s \in Services
    /\ subjects[s].row = "live"
    /\ subjects' = [subjects EXCEPT ![s] = [row |-> "deleted", status |-> "unknown"]]
    /\ UNCHANGED checks

\* Faulty: the upsert writes last_status like the other columns.
ResettingUpsert(c, s, enabled, managed, timer) ==
    /\ s \in Services
    /\ subjects[s].row # "unused"
    /\ timer = "due"
    /\ checks' = [checks EXCEPT ![c] =
            IF @.live THEN [@ EXCEPT !.enabled = enabled, !.timer = timer,
                                     !.lastStatus = "unknown"]
            ELSE NewCheck(s, enabled, managed)]
    /\ UNCHANGED subjects

\* SaveServiceCheck: an upsert by id that never looks at the services table, keeps
\* last_status and the results of an existing row, sets next_run_at to now, and does
\* not roll the status up.  The browser edits a check under its own service and
\* sends it back with the config_source it had; a check deleted meanwhile returns.
UpsertServiceCheck(c, s, enabled, managed, timer) ==
    /\ s \in Services
    /\ subjects[s].row # "unused"
    /\ IF checks[c].live
       THEN /\ checks[c].subject = s /\ checks[c].managed = managed
            /\ timer \in IF checks[c].newest = "unknown" THEN {"due"} ELSE {"held", "due"}
            /\ checks' = [checks EXCEPT ![c].enabled = enabled, ![c].timer = timer]
       ELSE /\ timer = "due"
            /\ checks' = [checks EXCEPT ![c] = NewCheck(s, enabled, managed)]
    /\ UNCHANGED subjects

\* Faulty: the status is not rolled up.
DeleteRowOnly(c) ==
    /\ checks[c].live
    /\ checks' = Deleted(checks, {c})
    /\ UNCHANGED subjects

\* DeleteServiceCheck: the check and its results go, and the status of its subject is
\* rolled up again.
DeleteCheckRow(c) ==
    /\ checks[c].live
    /\ checks' = Deleted(checks, {c})
    /\ subjects' = RolledUp(checks[c].subject, checks')

\* ReplaceManagedChecks: every check of x that is not the user's is replaced by the
\* checks C of the definition or fallback; the status is not rolled up, and x need not
\* be in its table any more.
ReplaceManagedRows(x, C) ==
    /\ subjects[x].row # "unused"
    /\ checks' = [c \in CheckIds |-> IF c \in C THEN NewCheck(x, TRUE, TRUE)
                                     ELSE Deleted(checks, ManagedChecksOf(x))[c]]
    /\ UNCHANGED subjects

\* Faulty: the copy is scheduled as if it had just been probed.
ScheduledCopy(s, k) ==
    [NewCheck(s, k.enabled, k.managed) EXCEPT !.newest = k.newest, !.timer = "waiting"]

\* The copy of check k for service s: with its results, and next_run_at now, but without
\* last_status and consecutive_failures.
CopiedCheck(s, k) ==
    [NewCheck(s, k.enabled, k.managed) EXCEPT
        !.newest = k.newest,
        !.timer = IF k.newest = "unknown" \/ k.timer = "due" THEN "due" ELSE "held"]

\* CopyDiscoveredChecksToService: the managed checks of s are replaced by copies of
\* the checks of d, origin giving the check each new id is the copy of.
CopyCheckRows(d, s, origin) ==
    /\ d \in DiscoveredServices /\ subjects[d].row = "live"
    /\ s \in Services /\ subjects[s].row # "unused"
    /\ \A c \in ChecksOf(d) : \E e \in DOMAIN origin : origin[e] = c
    /\ \A e, f \in DOMAIN origin : origin[e] = origin[f] => e = f
    /\ checks' = [e \in CheckIds |->
            IF e \in DOMAIN origin THEN CopiedCheck(s, checks[origin[e]])
            ELSE Deleted(checks, ManagedChecksOf(s))[e]]
    /\ UNCHANGED subjects

\* Cleanup: results older than the retention go, whatever the interval of their check,
\* and the status is not rolled up.  The checks C lose their last result: next_run_at
\* stays, and nothing but next_run_at holds them back any more.
CleanupRows(C) ==
    /\ \A c \in C : checks[c].live
    /\ checks' = [c \in CheckIds |->
            IF c \in C
            THEN [checks[c] EXCEPT !.newest = "unknown",
                                   !.timer = IF @ = "waiting" THEN @ ELSE "due"]
            ELSE checks[c]]
    /\ UNCHANGED subjects

\* SaveCheckResultWithOutcome commits only when the check and its subject are there.
CanRecord(c) == checks[c].live /\ subjects[checks[c].subject].row = "live"

\* Faulty: the status is rolled up only when the status of the check has changed.
RecordChangedResult(c, status, overtaken, timer) ==
    /\ CanRecord(c)
    /\ timer = "waiting"
    /\ checks' = [checks EXCEPT ![c] = RecordedCheck(@, status, overtaken, timer)]
    /\ subjects' = IF status = checks[c].lastStatus THEN subjects
                   ELSE RolledUp(checks[c].subject, checks')

\* Its effect: the result, the row of the check and the rolled-up status of the
\* subject, in one transaction.
RecordResult(c, status, overtaken, timer) ==
    /\ CanRecord(c)
    /\ timer \in CASE ~overtaken -> {"waiting"}
                   [] overtaken /\ checks[c].timer = "due" -> {"due"}
                   [] overtaken /\ checks[c].timer # "due" -> {"waiting", "held"}
    /\ checks' = [checks EXCEPT ![c] = RecordedCheck(@, status, overtaken, timer)]
    /\ subjects' = RolledUp(checks[c].subject, checks')

\* The clock reaches the newest checked_at plus the interval of check c.
IntervalElapses(c) ==
    /\ checks[c].live
    /\ checks[c].timer # "due"
    /\ checks' = [checks EXCEPT ![c].timer = "due"]
    /\ UNCHANGED subjects
=============================================================================
