---------------------------- MODULE HealthMonitoring ----------------------------
(***************************************************************************)
(* The health-check job.  App.runMonitoring is run by the scheduler every   *)
(* 30 seconds and by POST /monitoring/run, and nothing keeps two runs apart. *)
(* A run reads the due checks, probes and saves them one after the other,   *)
(* publishes the outcomes when the last one has been saved, and then does   *)
(* the same for the checks of discovered services, which it publishes one   *)
(* by one.  Users edit services and checks between any two of its steps.    *)
(***************************************************************************)
EXTENDS HealthStore, Sequences

CONSTANTS
    Runs,          \* invocations of runMonitoring that may overlap
    Cancellable,   \* those whose context or store can fail while the process goes on
    MayStop,       \* whether the process may stop and be started again
    Deletable,     \* services that users may delete
    Resavable,     \* deleted checks that a stale page may save while a run has them
    NoCheck        \* the check of a run that is not probing

ASSUME MonitoringAssumption ==
    /\ Cancellable \subseteq Runs
    /\ MayStop \in BOOLEAN
    /\ Deletable \subseteq Services
    /\ Resavable \subseteq CheckIds
    /\ NoCheck \notin CheckIds

VARIABLES
    pc,          \* where each run stands
    todo,        \* the checks each run has still to probe
    probe,       \* the probe each run has in flight
    earlier,     \* the runs whose probe in flight began before a run's own
    overtaken,   \* the runs whose probe is older than a stored result of its check
    outcomes     \* the outcomes each run has saved and not yet published

runVars == <<pc, todo, probe, earlier, overtaken, outcomes>>
vars == <<storeVars, runVars>>

Alert == {"failed", "recovered"}
Probe == [check: CheckIds \cup {NoCheck}, status: ProbeStatus]
NoProbe == [check |-> NoCheck, status |-> "healthy"]
Outcome == [check: CheckIds, alert: Alert \cup {"none"}]

Probing(r) == probe[r].check # NoCheck

\* Types, and that an idle run keeps nothing: runMonitoring has no state between calls.
TypeOK ==
    /\ StoreTypeOK
    /\ pc \in [Runs -> {"idle", "loading", "checking", "publishing", "discovered"}]
    /\ todo \in [Runs -> SUBSET CheckIds]
    /\ probe \in [Runs -> Probe]
    /\ earlier \in [Runs -> SUBSET Runs]
    /\ overtaken \in SUBSET Runs
    /\ outcomes \in [Runs -> Seq(Outcome)]
    /\ \A r \in Runs : pc[r] = "idle" =>
         todo[r] = {} /\ ~Probing(r) /\ outcomes[r] = <<>>

Init ==
    /\ StoreInit
    /\ pc = [r \in Runs |-> "idle"]
    /\ todo = [r \in Runs |-> {}]
    /\ probe = [r \in Runs |-> NoProbe]
    /\ earlier = [r \in Runs |-> {}]
    /\ overtaken = {}
    /\ outcomes = [r \in Runs |-> <<>>]

-----------------------------------------------------------------------------
(* Users and the other jobs *)

\* The ids a run remembers, and those a new row may get.
HeldIds(r) ==
    todo[r] \cup {probe[r].check} \cup {outcomes[r][i].check : i \in DOMAIN outcomes[r]}

FreshIds == {c \in CheckIds : ~checks[c].live /\ \A r \in Runs : c \notin HeldIds(r)}

\* A change of the tables leaves the memory of the runs alone.  A probe is older than a
\* stored result only while its check has results.
RunsGoOn ==
    /\ overtaken' = {r \in overtaken : checks'[probe[r].check].newest # "unknown"}
    /\ UNCHANGED <<pc, todo, probe, earlier, outcomes>>

\* A service accepted from discovery starts with the status of the discovered one.
SaveManualService(s) ==
    /\ \E status \in {"unknown"} \cup {subjects[d].status : d \in DiscoveredServices},
          c \in CheckIds :
         /\ ChecksOf(s) = {} => c \in FreshIds
         /\ UpsertService(s, status, c)
    /\ RunsGoOn

ObserveService(d) == InsertDiscovered(d) /\ RunsGoOn

DeleteService(s) == s \in Deletable /\ DeleteServiceRow(s) /\ RunsGoOn

SaveServiceCheck(c, s) ==
    /\ checks[c].live \/ c \in FreshIds \cup Resavable
    /\ \E enabled, managed \in BOOLEAN, timer \in Timer :
         /\ ~checks[c].live /\ managed => c \in Resavable
         /\ UpsertServiceCheck(c, s, enabled, managed, timer)
    /\ RunsGoOn

DeleteServiceCheck(c) == DeleteCheckRow(c) /\ RunsGoOn

\* SyncServiceHealthChecks and SyncDiscoveredServiceHealthChecks: they pass over a
\* subject whose mode was custom when they read it.
SyncHealthChecks(x) ==
    /\ \E C \in SUBSET FreshIds : ReplaceManagedRows(x, C)
    /\ RunsGoOn

\* The step of CreateBookmarkFromDiscoveredService that copies the checks.
AcceptDiscovered(d, s) ==
    /\ \E C \in SUBSET FreshIds : \E origin \in [C -> ChecksOf(d)] :
         CopyCheckRows(d, s, origin)
    /\ RunsGoOn

Cleanup ==
    /\ \E C \in SUBSET {c \in CheckIds : checks[c].newest # "unknown"} : CleanupRows(C)
    /\ RunsGoOn

TimePasses(c) == IntervalElapses(c) /\ RunsGoOn

-----------------------------------------------------------------------------
(* A run *)

\* Faulty: the outcomes of a run that returns early are picked up by the next one.
ReturnAndKeep(r) ==
    /\ pc' = [pc EXCEPT ![r] = "idle"]
    /\ todo' = [todo EXCEPT ![r] = {}]
    /\ probe' = [probe EXCEPT ![r] = NoProbe]
    /\ earlier' = [q \in Runs |-> IF q = r THEN {} ELSE earlier[q] \ {r}]
    /\ overtaken' = overtaken \ {r}
    /\ UNCHANGED <<storeVars, outcomes>>

\* The run returns: with an error everything it has saved and not published is lost.
Return(r) ==
    /\ pc' = [pc EXCEPT ![r] = "idle"]
    /\ todo' = [todo EXCEPT ![r] = {}]
    /\ probe' = [probe EXCEPT ![r] = NoProbe]
    /\ earlier' = [q \in Runs |-> IF q = r THEN {} ELSE earlier[q] \ {r}]
    /\ overtaken' = overtaken \ {r}
    /\ outcomes' = [outcomes EXCEPT ![r] = <<>>]
    /\ UNCHANGED <<storeVars>>

\* Faulty: the comparison of next_run_at with now is the wrong way round.
ListedTooEarly(X) ==
    {c \in CheckIds : /\ checks[c].live /\ checks[c].enabled
                      /\ checks[c].subject \in X
                      /\ checks[c].timer = "waiting"}

\* The enabled checks of the subjects X whose next_run_at has come.
ListedChecks(X) ==
    {c \in CheckIds : /\ checks[c].live /\ checks[c].enabled
                      /\ checks[c].subject \in X
                      /\ checks[c].timer # "waiting"}

\* The query of GetChecksDue.
ListDueChecks(r) ==
    /\ pc[r] = "idle"
    /\ pc' = [pc EXCEPT ![r] = "loading"]
    /\ todo' = [todo EXCEPT ![r] = ListedChecks(Services)]
    /\ UNCHANGED <<storeVars, probe, earlier, overtaken, outcomes>>

\* For every row of the query GetChecksDue loads the service with its checks, and fails
\* as a whole when one is gone; only then does isDue drop the checks that are not due.
LoadServices(r) ==
    /\ pc[r] = "loading"
    /\ \A c \in todo[r] : CanRecord(c)
    /\ pc' = [pc EXCEPT ![r] = "checking"]
    /\ todo' = [todo EXCEPT ![r] =
                   {c \in @ : checks[c].enabled /\ checks[c].timer = "due"}]
    /\ UNCHANGED <<storeVars, probe, earlier, overtaken, outcomes>>

FailToLoad(r) ==
    /\ pc[r] = "loading"
    /\ \E c \in todo[r] : ~CanRecord(c)
    /\ Return(r)

\* A result is stamped with the time its probe begins.
BeginProbe(r, c) ==
    /\ pc[r] \in {"checking", "discovered"}
    /\ ~Probing(r)
    /\ pc[r] = "discovered" => outcomes[r] = <<>>
    /\ c \in todo[r]
    /\ \E status \in ProbeStatus :
         probe' = [probe EXCEPT ![r] = [check |-> c, status |-> status]]
    /\ todo' = [todo EXCEPT ![r] = @ \ {c}]
    /\ earlier' = [earlier EXCEPT ![r] =
                      {q \in Runs \ {r} : Probing(q) /\ probe[q].check = c}]
    /\ UNCHANGED <<storeVars, pc, overtaken, outcomes>>

SaveResult(r) ==
    LET c == probe[r].check
        alert == AlertOf(checks[c].lastStatus, probe[r].status) IN
    /\ Probing(r)
    /\ \E timer \in Timer : RecordResult(c, probe[r].status, r \in overtaken, timer)
    /\ outcomes' = [outcomes EXCEPT ![r] = Append(@, [check |-> c, alert |-> alert])]
    /\ probe' = [probe EXCEPT ![r] = NoProbe]
    /\ overtaken' = (overtaken \ {r}) \cup {q \in earlier[r] : probe[q].check = c}
    /\ earlier' = [q \in Runs |-> IF q = r THEN {} ELSE earlier[q] \ {r}]
    /\ UNCHANGED <<pc, todo>>

\* The check or its service went while the probe ran: the transaction rolls back and
\* the run returns.
FailToSave(r) ==
    /\ Probing(r)
    /\ ~CanRecord(probe[r].check)
    /\ Return(r)

StartPublishing(r) ==
    /\ pc[r] = "checking" /\ todo[r] = {} /\ ~Probing(r)
    /\ pc' = [pc EXCEPT ![r] = "publishing"]
    /\ UNCHANGED <<storeVars, todo, probe, earlier, overtaken, outcomes>>

\* publishCheckOutcome sends all the events of an outcome to the bus; HealthAlerts keeps
\* what has been sent.
PublishOutcome(r) ==
    /\ pc[r] \in {"publishing", "discovered"}
    /\ outcomes[r] # <<>>
    /\ outcomes' = [outcomes EXCEPT ![r] = Tail(@)]
    /\ UNCHANGED <<storeVars, pc, todo, probe, earlier, overtaken>>

\* GetDiscoveredChecksDue has no second test on the interval.
LoadDiscoveredChecks(r) ==
    /\ pc[r] = "publishing" /\ outcomes[r] = <<>>
    /\ pc' = [pc EXCEPT ![r] = "discovered"]
    /\ todo' = [todo EXCEPT ![r] = ListedChecks(DiscoveredServices)]
    /\ UNCHANGED <<storeVars, probe, earlier, overtaken, outcomes>>

FinishRun(r) ==
    /\ pc[r] = "discovered"
    /\ todo[r] = {} /\ ~Probing(r) /\ outcomes[r] = <<>>
    /\ Return(r)

\* The context ends (the client of POST /monitoring/run goes away) or the store fails: the
\* run returns at its next call of the store.  It makes none between the outcomes that it
\* publishes.
AbortRun(r) ==
    /\ r \in Cancellable
    /\ pc[r] # "idle"
    /\ pc[r] \in {"publishing", "discovered"} => outcomes[r] = <<>>
    /\ Return(r)

\* The process stops and is started again: the tables are on disk, all else is gone.
ProcessStops ==
    /\ MayStop
    /\ \E r \in Runs : pc[r] # "idle"
    /\ pc' = [r \in Runs |-> "idle"]
    /\ todo' = [r \in Runs |-> {}]
    /\ probe' = [r \in Runs |-> NoProbe]
    /\ earlier' = [r \in Runs |-> {}]
    /\ overtaken' = {}
    /\ outcomes' = [r \in Runs |-> <<>>]
    /\ UNCHANGED storeVars

RunStep(r) ==
    \/ ListDueChecks(r)
    \/ LoadServices(r)
    \/ FailToLoad(r)
    \/ \E c \in CheckIds : BeginProbe(r, c)
    \/ SaveResult(r)
    \/ FailToSave(r)
    \/ StartPublishing(r)
    \/ PublishOutcome(r)
    \/ LoadDiscoveredChecks(r)
    \/ FinishRun(r)

\* What users and the other jobs do to the tables.
EditStep ==
    \/ \E s \in Services : SaveManualService(s) \/ DeleteService(s)
    \/ \E d \in DiscoveredServices : ObserveService(d)
    \/ \E c \in CheckIds, s \in Services : SaveServiceCheck(c, s)
    \/ \E c \in CheckIds : DeleteServiceCheck(c) \/ TimePasses(c)
    \/ \E x \in Subjects : SyncHealthChecks(x)
    \/ \E d \in DiscoveredServices, s \in Services : AcceptDiscovered(d, s)
    \/ Cleanup

Next ==
    \/ EditStep
    \/ ProcessStops
    \/ \E r \in Runs : RunStep(r) \/ AbortRun(r)

Spec == Init /\ [][Next]_vars

\* The scheduler runs the job again after every interval and a run that is not
\* cancelled goes on; the clock does not stop.  Nothing is assumed of users.
Fairness ==
    /\ \A r \in Runs \ Cancellable : WF_vars(RunStep(r))
    /\ \A c \in CheckIds : WF_vars(TimePasses(c))

FairSpec == Spec /\ Fairness

-----------------------------------------------------------------------------
(* Safety *)

\* Whatever edits, clean-ups, copies and late results do to a check, it never waits out an
\* interval it has not begun: a check that next_run_at makes wait has run before, and one
\* that isDue holds back has the result that holds it (next_run_at in saveHealthCheckTx,
\* LastResult in isDue).  Without a result a check may still wait: Cleanup looks only at
\* the age of results, and an interval may be longer than the retention.
WaitsOnlyOnceRun ==
    \A c \in CheckIds : checks[c].live
        => /\ checks[c].timer = "waiting" => checks[c].lastStatus # "unknown"
           /\ checks[c].timer = "held" => checks[c].newest # "unknown"

\* last_status, from which alerts are made, and the newest result, from which the status
\* of the service is made, tell the same story.
Agrees(c) ==
    \/ checks[c].lastStatus = checks[c].newest
    \/ "unknown" \in {checks[c].lastStatus, checks[c].newest}

\* They part in one way only: a run saves a result that is older than one another run
\* has saved meanwhile (SaveCheckResultWithOutcome writes last_status unconditionally).
PartsOnlyByOvertaking ==
    [][\A c \in CheckIds : Agrees(c) /\ ~Agrees(c)'
            => \E r \in overtaken : probe[r].check = c /\ SaveResult(r)]_vars

\* The status of a subject that is up to date stays so while checks are probed, saved and
\* deleted, whichever runs do it and wherever they stop: only edits, which do not roll
\* the status up, and clean-ups make it stale.
EnabledChecks(x) == {c \in ChecksOf(x) : checks[c].enabled}
ProbingOrDeleting ==
    \/ ProcessStops
    \/ \E r \in Runs : RunStep(r) \/ AbortRun(r)
    \/ \E c \in CheckIds : DeleteServiceCheck(c)
StaleOnlyByEdits ==
    [][ProbingOrDeleting => \A x \in Subjects :
          subjects[x].row = "live" /\ StatusIsRollUp(x) => StatusIsRollUp(x)']_vars

-----------------------------------------------------------------------------
(* Liveness *)

\* What is configured: which services there are, and their checks.
ServiceConfig ==
    [s \in Services |-> <<subjects[s].row, ChecksOf(s), EnabledChecks(s)>>]

\* An edit also postpones a due check, by giving it a longer interval.
Postponed(c) ==
    checks[c].subject \in Services /\ checks[c].timer = "due" /\ checks'[c].timer = "held"

\* From some time on nobody edits a service or its checks.
LeftAlone ==
    <>[][ServiceConfig' = ServiceConfig /\ \A c \in CheckIds : ~Postponed(c)]_vars

DueCheck(c) ==
    /\ checks[c].live /\ checks[c].enabled /\ checks[c].timer = "due"
    /\ checks[c].subject \in Services
    /\ subjects[checks[c].subject].row = "live"

\* Once nobody disturbs the job any more, every due check of an existing service is
\* probed and its result stored: a run that fails or returns is followed by another, and
\* no check stays behind for ever in the lists of the runs.
DueChecksGetProbed == LeftAlone => \A c \in CheckIds : DueCheck(c) ~> ~DueCheck(c)

\* Once nobody disturbs the job any more, the stale status an edit or a clean-up has left
\* behind is put right, if the service still has a check that runs.
StatusCatchesUp ==
    LeftAlone => \A s \in Services :
        (subjects[s].row = "live" /\ EnabledChecks(s) # {})
            ~> (subjects[s].row # "live" \/ EnabledChecks(s) = {} \/ StatusIsRollUp(s))
=============================================================================
