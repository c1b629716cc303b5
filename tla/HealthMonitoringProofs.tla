------------------------- MODULE HealthMonitoringProofs -------------------------
(***************************************************************************)
(* Proofs about HealthMonitoring, for any number of services, checks and     *)
(* overlapping runs.  First what the rows that a transaction writes are, then *)
(* type correctness transaction by transaction and action by action.         *)
(***************************************************************************)
EXTENDS HealthMonitoring, TLAPS

\* What the roll-up of a set of statuses can be.
LEMMA RollUpType == ASSUME NEW statuses PROVE RollUp(statuses) \in HealthStatus
BY DEF RollUp, HealthStatus, CheckStatus, ProbeStatus

\* An id that is not in the table is typed like a row.
LEMMA NoRowType == NoRow \in CheckRow
BY StoreAssumption DEF NoRow, CheckRow, CheckStatus, ProbeStatus, Timer

\* The rows that saveHealthCheckTx inserts, and the copies of an accepted service.
LEMMA NewCheckType ==
    ASSUME NEW x \in Subjects, NEW enabled \in BOOLEAN, NEW managed \in BOOLEAN
    PROVE  NewCheck(x, enabled, managed) \in CheckRow
BY NoRowType DEF NewCheck, CheckRow

\* The copy of a check's row for an accepted service is a row.
LEMMA CopiedCheckType ==
    ASSUME NEW s \in Subjects, NEW k \in CheckRow
    PROVE  CopiedCheck(s, k) \in CheckRow
<1>1. NewCheck(s, k.enabled, k.managed) \in CheckRow
  BY NewCheckType DEF CheckRow
<1> QED
  BY <1>1 DEF CopiedCheck, CheckRow, Timer

\* A stored result keeps the row a row; the failure count stays within its bound.
LEMMA RecordedCheckType ==
    ASSUME NEW k \in CheckRow, NEW status \in ProbeStatus, NEW late \in BOOLEAN,
           NEW timer \in Timer
    PROVE  RecordedCheck(k, status, late, timer) \in CheckRow
<1>1. k.failures \in 0..MaxFailures /\ MaxFailures \in Nat \ {0}
  BY StoreAssumption DEF CheckRow
<1>2. (IF status = "healthy" THEN 0
       ELSE IF k.lastStatus = "healthy" THEN 1
       ELSE IF k.failures < MaxFailures THEN k.failures + 1 ELSE k.failures)
      \in 0..MaxFailures
  BY <1>1
<1>3. (IF late THEN k.newest ELSE status) \in CheckStatus
  BY DEF CheckRow, CheckStatus
<1> QED
  BY <1>2, <1>3 DEF RecordedCheck, CheckRow, CheckStatus

\* The table without the rows of some checks is a table.
LEMMA DeletedType ==
    ASSUME NEW ck \in [CheckIds -> CheckRow], NEW D
    PROVE  Deleted(ck, D) \in [CheckIds -> CheckRow]
BY NoRowType DEF Deleted

\* Rolling a status up keeps the table of subjects typed.
LEMMA RolledUpType ==
    ASSUME subjects \in [Subjects -> SubjectRow], NEW x, NEW ck
    PROVE  RolledUp(x, ck) \in [Subjects -> SubjectRow]
<1>1. RollUp(LatestStatuses(ck, x)) \in HealthStatus
  BY RollUpType
<1> QED
  BY <1>1 DEF RolledUp, SubjectRow

-----------------------------------------------------------------------------
(* Transactions keep the types of the two tables. *)

\* SaveManualService keeps the tables typed.
LEMMA UpsertServiceType ==
    ASSUME StoreTypeOK, NEW s \in Services, NEW status \in HealthStatus, NEW c \in CheckIds,
           UpsertService(s, status, c)
    PROVE  StoreTypeOK'
<1>1. NewCheck(s, TRUE, TRUE) \in CheckRow
  BY NewCheckType DEF Subjects
<1>2. checks' \in [CheckIds -> CheckRow]
  BY <1>1 DEF StoreTypeOK, UpsertService
<1>3. subjects' \in [Subjects -> SubjectRow]
  BY DEF StoreTypeOK, UpsertService, SubjectRow, RowState, Subjects
<1> QED
  BY <1>2, <1>3 DEF StoreTypeOK

\* So does the first observation of a discovered service.
LEMMA InsertDiscoveredType ==
    ASSUME StoreTypeOK, NEW d, InsertDiscovered(d)
    PROVE  StoreTypeOK'
BY DEF StoreTypeOK, InsertDiscovered, SubjectRow, RowState, Subjects

\* So does DeleteService.
LEMMA DeleteServiceRowType ==
    ASSUME StoreTypeOK, NEW s, DeleteServiceRow(s)
    PROVE  StoreTypeOK'
BY DEF StoreTypeOK, DeleteServiceRow, SubjectRow, RowState, HealthStatus, CheckStatus, Subjects

\* So does SaveServiceCheck.
LEMMA UpsertServiceCheckType ==
    ASSUME StoreTypeOK, NEW c \in CheckIds, NEW s, NEW enabled \in BOOLEAN,
           NEW managed \in BOOLEAN, NEW timer \in Timer,
           UpsertServiceCheck(c, s, enabled, managed, timer)
    PROVE  StoreTypeOK'
<1>1. NewCheck(s, enabled, managed) \in CheckRow
  BY NewCheckType DEF UpsertServiceCheck, Subjects
<1>2. CASE checks[c].live
  BY <1>2 DEF UpsertServiceCheck, StoreTypeOK, CheckRow
<1>3. CASE ~checks[c].live
  BY <1>1, <1>3 DEF UpsertServiceCheck, StoreTypeOK
<1> QED
  BY <1>2, <1>3

\* So does DeleteServiceCheck, with its roll-up.
LEMMA DeleteCheckRowType ==
    ASSUME StoreTypeOK, NEW c \in CheckIds, DeleteCheckRow(c)
    PROVE  StoreTypeOK'
<1>1. checks' \in [CheckIds -> CheckRow]
  BY DeletedType DEF DeleteCheckRow, StoreTypeOK
<1>2. subjects' \in [Subjects -> SubjectRow]
  BY RolledUpType DEF DeleteCheckRow, StoreTypeOK
<1> QED
  BY <1>1, <1>2 DEF StoreTypeOK

\* So does ReplaceManagedChecks, whatever ids it gives the new rows.
LEMMA ReplaceManagedRowsType ==
    ASSUME StoreTypeOK, NEW x \in Subjects, NEW C, ReplaceManagedRows(x, C)
    PROVE  StoreTypeOK'
<1>1. Deleted(checks, ManagedChecksOf(x)) \in [CheckIds -> CheckRow]
  BY DeletedType DEF StoreTypeOK
<1>2. NewCheck(x, TRUE, TRUE) \in CheckRow
  BY NewCheckType
<1> QED
  BY <1>1, <1>2 DEF ReplaceManagedRows, StoreTypeOK

\* So does CopyDiscoveredChecksToService.
LEMMA CopyCheckRowsType ==
    ASSUME StoreTypeOK, NEW d, NEW s, NEW C \in SUBSET CheckIds,
           NEW origin \in [C -> ChecksOf(d)], CopyCheckRows(d, s, origin)
    PROVE  StoreTypeOK'
<1>1. Deleted(checks, ManagedChecksOf(s)) \in [CheckIds -> CheckRow]
  BY DeletedType DEF StoreTypeOK
<1>2. ASSUME NEW e \in DOMAIN origin
      PROVE  CopiedCheck(s, checks[origin[e]]) \in CheckRow
  <2>1. checks[origin[e]] \in CheckRow
    BY <1>2 DEF ChecksOf, StoreTypeOK
  <2>2. s \in Subjects
    BY DEF CopyCheckRows, Subjects
  <2> QED
    BY <2>1, <2>2, CopiedCheckType
<1>3. checks' \in [CheckIds -> CheckRow] /\ UNCHANGED subjects
  BY <1>1, <1>2 DEF CopyCheckRows
<1> QED
  BY <1>3 DEF StoreTypeOK

\* So does Cleanup.
LEMMA CleanupRowsType ==
    ASSUME StoreTypeOK, NEW C, CleanupRows(C)
    PROVE  StoreTypeOK'
<1>1. ASSUME NEW c \in CheckIds PROVE checks'[c] \in CheckRow
  <2>1. checks[c] \in CheckRow
    BY DEF StoreTypeOK
  <2>2. "unknown" \in CheckStatus /\ "due" \in Timer
    BY DEF CheckStatus, Timer
  <2>3. checks'[c] = IF c \in C
                     THEN [checks[c] EXCEPT !.newest = "unknown",
                                            !.timer = IF @ = "waiting" THEN @ ELSE "due"]
                     ELSE checks[c]
    BY DEF CleanupRows
  <2>4. CASE c \in C
    BY <2>1, <2>2, <2>3, <2>4 DEF CheckRow
  <2>5. CASE c \notin C
    BY <2>1, <2>3, <2>5
  <2> QED
    BY <2>4, <2>5
<1>2. checks' \in [CheckIds -> CheckRow]
  BY <1>1 DEF CleanupRows
<1> QED
  BY <1>2 DEF StoreTypeOK, CleanupRows

\* So does SaveCheckResultWithOutcome.
LEMMA RecordResultType ==
    ASSUME StoreTypeOK, NEW c \in CheckIds, NEW status \in ProbeStatus,
           NEW late \in BOOLEAN, NEW timer \in Timer, RecordResult(c, status, late, timer)
    PROVE  StoreTypeOK'
<1>1. RecordedCheck(checks[c], status, late, timer) \in CheckRow
  BY RecordedCheckType DEF StoreTypeOK
<1>2. checks' \in [CheckIds -> CheckRow]
  BY <1>1 DEF RecordResult, StoreTypeOK
<1>3. subjects' \in [Subjects -> SubjectRow]
  BY RolledUpType DEF RecordResult, StoreTypeOK
<1> QED
  BY <1>2, <1>3 DEF StoreTypeOK

\* So does the passing of time.
LEMMA IntervalElapsesType ==
    ASSUME StoreTypeOK, NEW c \in CheckIds, IntervalElapses(c)
    PROVE  StoreTypeOK'
BY DEF StoreTypeOK, IntervalElapses, CheckRow, Timer

-----------------------------------------------------------------------------
(* Type correctness *)

\* The part of TypeOK that is about the memory of the runs.
RunsTypeOK ==
    /\ pc \in [Runs -> {"idle", "loading", "checking", "publishing", "discovered"}]
    /\ todo \in [Runs -> SUBSET CheckIds]
    /\ probe \in [Runs -> Probe]
    /\ earlier \in [Runs -> SUBSET Runs]
    /\ overtaken \in SUBSET Runs
    /\ outcomes \in [Runs -> Seq(Outcome)]
    /\ \A r \in Runs : pc[r] = "idle" =>
         todo[r] = {} /\ probe[r].check = NoCheck /\ outcomes[r] = <<>>

\* TypeOK is the typing of the tables and that of the runs' memory.
LEMMA TypeOKParts ==
    (TypeOK <=> StoreTypeOK /\ RunsTypeOK) /\ (TypeOK' <=> StoreTypeOK' /\ RunsTypeOK')
BY DEF TypeOK, RunsTypeOK, Probing

\* Users and the other jobs do not touch the memory of the runs.
LEMMA RunsGoOnType == RunsTypeOK /\ RunsGoOn => RunsTypeOK'
BY DEF RunsTypeOK, RunsGoOn

\* What a clean-up does to a row: nothing, or it forgets its results, and what only a
\* result held back is due.
LEMMA CleanedRow ==
    ASSUME TypeOK, Cleanup, NEW c \in CheckIds
    PROVE  /\ checks'[c].live = checks[c].live
           /\ checks'[c].lastStatus = checks[c].lastStatus
           /\ checks'[c].failures = checks[c].failures
           /\ \/ checks'[c].newest = checks[c].newest /\ checks'[c].timer = checks[c].timer
              \/ checks'[c].newest = "unknown" /\ checks'[c].timer = "due"
              \/ /\ checks'[c].newest = "unknown"
                 /\ checks'[c].timer = "waiting" /\ checks[c].timer = "waiting"
<1>1. PICK C : CleanupRows(C)
  BY DEF Cleanup
<1>2. checks[c] \in CheckRow
  BY DEF TypeOK, StoreTypeOK
<1>3. checks'[c] = IF c \in C
                   THEN [checks[c] EXCEPT !.newest = "unknown",
                                          !.timer = IF @ = "waiting" THEN @ ELSE "due"]
                   ELSE checks[c]
  BY <1>1 DEF CleanupRows
<1>4. CASE c \in C
  BY <1>2, <1>3, <1>4 DEF CheckRow
<1>5. CASE c \notin C
  BY <1>3, <1>5
<1> QED
  BY <1>4, <1>5

\* What users and the other jobs do keeps every variable typed.
LEMMA EditStepType ==
    ASSUME TypeOK, EditStep
    PROVE  TypeOK'
<1> USE TypeOKParts
<1>1. ASSUME NEW s \in Services, SaveManualService(s) PROVE TypeOK'
  <2>1. ASSUME NEW d \in DiscoveredServices PROVE subjects[d].status \in HealthStatus
    BY DEF StoreTypeOK, SubjectRow, Subjects
  <2>2. PICK status \in {"unknown"} \cup {subjects[d].status : d \in DiscoveredServices},
             c \in CheckIds : UpsertService(s, status, c)
    BY <1>1 DEF SaveManualService
  <2>3. status \in HealthStatus
    BY <2>1 DEF HealthStatus, CheckStatus
  <2>4. StoreTypeOK'
    BY <2>2, <2>3, UpsertServiceType
  <2> QED
    BY <1>1, <2>4, RunsGoOnType DEF SaveManualService
<1>2. ASSUME NEW s \in Services, DeleteService(s) PROVE TypeOK'
  BY <1>2, DeleteServiceRowType, RunsGoOnType DEF DeleteService
<1>3. ASSUME NEW d \in DiscoveredServices, ObserveService(d) PROVE TypeOK'
  BY <1>3, InsertDiscoveredType, RunsGoOnType DEF ObserveService
<1>4. ASSUME NEW c \in CheckIds, NEW s \in Services, SaveServiceCheck(c, s) PROVE TypeOK'
  BY <1>4, UpsertServiceCheckType, RunsGoOnType DEF SaveServiceCheck
<1>5. ASSUME NEW c \in CheckIds, DeleteServiceCheck(c) PROVE TypeOK'
  BY <1>5, DeleteCheckRowType, RunsGoOnType DEF DeleteServiceCheck
<1>6. ASSUME NEW c \in CheckIds, TimePasses(c) PROVE TypeOK'
  BY <1>6, IntervalElapsesType, RunsGoOnType DEF TimePasses
<1>7. ASSUME NEW x \in Subjects, SyncHealthChecks(x) PROVE TypeOK'
  BY <1>7, ReplaceManagedRowsType, RunsGoOnType DEF SyncHealthChecks
<1>8. ASSUME NEW d \in DiscoveredServices, NEW s \in Services, AcceptDiscovered(d, s)
      PROVE  TypeOK'
  <2>1. PICK C \in SUBSET FreshIds :
             \E origin \in [C -> ChecksOf(d)] : CopyCheckRows(d, s, origin)
    BY <1>8 DEF AcceptDiscovered
  <2>2. C \in SUBSET CheckIds
    BY DEF FreshIds
  <2>3. StoreTypeOK'
    BY <2>1, <2>2, CopyCheckRowsType
  <2> QED
    BY <1>8, <2>3, RunsGoOnType DEF AcceptDiscovered
<1>9. ASSUME Cleanup PROVE TypeOK'
  BY <1>9, CleanupRowsType, RunsGoOnType DEF Cleanup
<1> QED
  BY <1>1, <1>2, <1>3, <1>4, <1>5, <1>6, <1>7, <1>8, <1>9 DEF EditStep

\* A run that returns, however it came to it, leaves nothing behind.
LEMMA ReturnType == ASSUME TypeOK, NEW r \in Runs, Return(r) PROVE TypeOK'
<1>1. StoreTypeOK'
  BY DEF Return, TypeOK, StoreTypeOK, storeVars
<1>2. <<>> \in Seq(Outcome) /\ NoProbe \in Probe /\ NoProbe.check = NoCheck
  BY DEF NoProbe, Probe, ProbeStatus
<1>3. RunsTypeOK'
  BY <1>2, TypeOKParts DEF Return, RunsTypeOK
<1> QED
  BY <1>1, <1>3, TypeOKParts

\* A transition of last_status is reported as one of the alerts, or as none.
LEMMA AlertType ==
    ASSUME NEW previous, NEW current
    PROVE  AlertOf(previous, current) \in Alert \cup {"none"}
BY DEF AlertOf, Alert

\* Every step of a run keeps every variable typed.
LEMMA RunStepType ==
    ASSUME TypeOK, NEW r \in Runs, RunStep(r) \/ AbortRun(r)
    PROVE  TypeOK'
<1> USE TypeOKParts
<1>1. CASE ListDueChecks(r)
  BY <1>1 DEF ListDueChecks, ListedChecks, RunsTypeOK, StoreTypeOK, storeVars
<1>2. CASE LoadServices(r)
  BY <1>2 DEF LoadServices, RunsTypeOK, StoreTypeOK, storeVars
<1>3. CASE FailToLoad(r) \/ FailToSave(r) \/ FinishRun(r) \/ AbortRun(r)
  BY <1>3, ReturnType DEF FailToLoad, FailToSave, FinishRun, AbortRun
<1>4. ASSUME NEW c \in CheckIds, BeginProbe(r, c) PROVE TypeOK'
  <2>1. PICK status \in ProbeStatus :
             probe' = [probe EXCEPT ![r] = [check |-> c, status |-> status]]
    BY <1>4 DEF BeginProbe
  <2>2. [check |-> c, status |-> status] \in Probe
    BY DEF Probe
  <2>3. StoreTypeOK'
    BY <1>4 DEF BeginProbe, StoreTypeOK, storeVars
  <2>4. RunsTypeOK'
    BY <1>4, <2>1, <2>2 DEF BeginProbe, RunsTypeOK
  <2> QED
    BY <2>3, <2>4
<1>5. CASE SaveResult(r)
  <2> DEFINE c == probe[r].check
             o == [check |-> c, alert |-> AlertOf(checks[c].lastStatus, probe[r].status)]
  <2>1. c \in CheckIds /\ probe[r].status \in ProbeStatus
    BY <1>5 DEF SaveResult, Probing, RunsTypeOK, Probe
  <2>2. StoreTypeOK'
    <3>1. PICK timer \in Timer : RecordResult(c, probe[r].status, r \in overtaken, timer)
      BY <1>5 DEF SaveResult
    <3>2. (r \in overtaken) \in BOOLEAN
      OBVIOUS
    <3> QED
      BY <2>1, <3>1, <3>2, RecordResultType
  <2>3. o \in Outcome
    BY <2>1, AlertType DEF Outcome
  <2>4. Append(outcomes[r], o) \in Seq(Outcome)
    BY <2>3 DEF RunsTypeOK
  <2>5. NoProbe \in Probe /\ NoProbe.check = NoCheck
    BY DEF NoProbe, Probe, ProbeStatus
  <2>6. pc[r] # "idle"
    BY <1>5 DEF SaveResult, Probing, RunsTypeOK
  <2>7. outcomes' = [outcomes EXCEPT ![r] = Append(@, o)]
    BY <1>5 DEF SaveResult
  <2>8. RunsTypeOK'
    BY <1>5, <2>4, <2>5, <2>6, <2>7 DEF SaveResult, RunsTypeOK
  <2> QED
    BY <2>2, <2>8
<1>6. CASE StartPublishing(r)
  BY <1>6 DEF StartPublishing, RunsTypeOK, StoreTypeOK, storeVars
<1>7. CASE PublishOutcome(r)
  <2>1. Tail(outcomes[r]) \in Seq(Outcome)
    BY <1>7 DEF PublishOutcome, RunsTypeOK
  <2> QED
    BY <1>7, <2>1 DEF PublishOutcome, RunsTypeOK, StoreTypeOK, storeVars
<1>8. CASE LoadDiscoveredChecks(r)
  BY <1>8 DEF LoadDiscoveredChecks, ListedChecks, RunsTypeOK, StoreTypeOK, storeVars
<1> QED
  BY <1>1, <1>2, <1>3, <1>4, <1>5, <1>6, <1>7, <1>8 DEF RunStep

\* What stands for the probe of a run that is not probing.
LEMMA NoProbeType == NoProbe \in Probe /\ NoProbe.check = NoCheck
BY DEF NoProbe, Probe, ProbeStatus

\* The initial state is typed.
LEMMA InitType == Init => TypeOK
<1> SUFFICES ASSUME Init PROVE TypeOK
  OBVIOUS
<1>1. StoreTypeOK
  BY NoRowType DEF Init, StoreInit, StoreTypeOK, SubjectRow, RowState, HealthStatus, CheckStatus
<1>3. RunsTypeOK
  BY NoProbeType DEF Init, RunsTypeOK
<1> QED
  BY <1>1, <1>3, TypeOKParts

\* A process that stops leaves the tables as they are, and starts from nothing.
LEMMA ProcessStopsType == ASSUME TypeOK, ProcessStops PROVE TypeOK'
<1>1. RunsTypeOK'
  BY NoProbeType DEF ProcessStops, RunsTypeOK
<1>2. StoreTypeOK'
  BY DEF ProcessStops, storeVars, TypeOK, StoreTypeOK
<1> QED
  BY <1>1, <1>2, TypeOKParts

\* Every step, and every stuttering step, keeps the types.
LEMMA NextType == TypeOK /\ [Next]_vars => TypeOK'
<1> SUFFICES ASSUME TypeOK, [Next]_vars PROVE TypeOK'
  OBVIOUS
<1>1. CASE Next
  BY <1>1, EditStepType, ProcessStopsType, RunStepType DEF Next
<1>2. CASE UNCHANGED vars
  BY <1>2 DEF vars, storeVars, runVars, TypeOK, StoreTypeOK, Probing
<1> QED
  BY <1>1, <1>2

\* Every table and every run's memory keeps its type, the failure counts stay within
\* their bound, and a run that has returned keeps no work, probe or outcome.
THEOREM TypeCorrect == Spec => []TypeOK
<1>1. Init => TypeOK
  BY InitType
<1>2. TypeOK /\ [Next]_vars => TypeOK'
  BY NextType
<1> QED
  BY <1>1, <1>2, PTL DEF Spec

-----------------------------------------------------------------------------
(* A check waits only once it has run. *)

\* WaitsOnlyOnceRun is not inductive: a late result is stored without becoming the newest
\* and may postpone its check, so that there has to be a newer result already.
NoRowWaits ==
    \A c \in CheckIds :
        /\ checks[c].timer = "waiting" => checks[c].lastStatus # "unknown"
        /\ checks[c].timer = "held" => checks[c].newest # "unknown"

OvertakenHasResult ==
    \A r \in overtaken : Probing(r) /\ checks[probe[r].check].newest # "unknown"

NotOwnPredecessor == \A r \in Runs : r \notin earlier[r]

DueInv == TypeOK /\ NoRowWaits /\ OvertakenHasResult /\ NotOwnPredecessor

\* Inserted rows are due, copies are held back only by results they have, a clean-up lets
\* only checks that have run go on waiting, and the other transactions of users and jobs
\* do not set a timer.
LEMMA EditStepDue ==
    ASSUME TypeOK, NoRowWaits, EditStep
    PROVE  NoRowWaits'
<1> USE DEF NoRowWaits
<1>1. NoRow.newest = "unknown" /\ NoRow.timer = "due"
  BY DEF NoRow
<1>2. ASSUME NEW x, NEW enabled \in BOOLEAN, NEW managed \in BOOLEAN
      PROVE  NewCheck(x, enabled, managed).newest = "unknown"
             /\ NewCheck(x, enabled, managed).timer = "due"
  BY DEF NewCheck, NoRow
<1>3. ASSUME NEW s \in Services, SaveManualService(s) PROVE NoRowWaits'
  <2>1. PICK c \in CheckIds :
          \/ checks' = [checks EXCEPT ![c] = NewCheck(s, TRUE, TRUE)]
          \/ UNCHANGED checks
    BY <1>3 DEF SaveManualService, UpsertService
  <2>2. NewCheck(s, TRUE, TRUE).newest = "unknown" /\ NewCheck(s, TRUE, TRUE).timer = "due"
    BY <1>2
  <2> QED
    BY <2>1, <2>2 DEF TypeOK, StoreTypeOK
<1>4. ASSUME NEW s \in Services, DeleteService(s) PROVE NoRowWaits'
  BY <1>4 DEF DeleteService, DeleteServiceRow
<1>5. ASSUME NEW d \in DiscoveredServices, ObserveService(d) PROVE NoRowWaits'
  BY <1>5 DEF ObserveService, InsertDiscovered
<1>6. ASSUME NEW c \in CheckIds, NEW s \in Services, SaveServiceCheck(c, s) PROVE NoRowWaits'
  <2>1. PICK enabled \in BOOLEAN, managed \in BOOLEAN, timer \in Timer :
             UpsertServiceCheck(c, s, enabled, managed, timer)
    BY <1>6 DEF SaveServiceCheck
  <2>2. CASE checks[c].live
    <3>1. checks' = [checks EXCEPT ![c].enabled = enabled, ![c].timer = timer]
          /\ timer # "waiting" /\ (checks[c].newest = "unknown" => timer = "due")
      BY <2>1, <2>2 DEF UpsertServiceCheck
    <3>2. checks[c] \in CheckRow
      BY DEF TypeOK, StoreTypeOK
    <3>3. checks'[c].newest = checks[c].newest /\ checks'[c].timer = timer
      BY <3>1, <3>2 DEF TypeOK, StoreTypeOK, CheckRow
    <3>4. \A e \in CheckIds : e # c => checks'[e] = checks[e]
      BY <3>1 DEF TypeOK, StoreTypeOK
    <3> QED
      BY <3>1, <3>3, <3>4
  <2>3. CASE ~checks[c].live
    <3>1. checks' = [checks EXCEPT ![c] = NewCheck(s, enabled, managed)]
      BY <2>1, <2>3 DEF UpsertServiceCheck
    <3> QED
      BY <1>2, <3>1 DEF TypeOK, StoreTypeOK
  <2> QED
    BY <2>2, <2>3
<1>7. ASSUME NEW c \in CheckIds, DeleteServiceCheck(c) PROVE NoRowWaits'
  BY <1>1, <1>7 DEF DeleteServiceCheck, DeleteCheckRow, Deleted
<1>8. ASSUME NEW c \in CheckIds, TimePasses(c) PROVE NoRowWaits'
  BY <1>8 DEF TimePasses, IntervalElapses, TypeOK, StoreTypeOK, CheckRow
<1>9. ASSUME NEW x \in Subjects, SyncHealthChecks(x) PROVE NoRowWaits'
  <2>1. NewCheck(x, TRUE, TRUE).newest = "unknown" /\ NewCheck(x, TRUE, TRUE).timer = "due"
    BY <1>2
  <2> QED
    BY <1>1, <1>9, <2>1 DEF SyncHealthChecks, ReplaceManagedRows, Deleted
<1>10. ASSUME NEW d \in DiscoveredServices, NEW s \in Services, AcceptDiscovered(d, s)
       PROVE  NoRowWaits'
  <2>1. PICK C \in SUBSET FreshIds :
             \E origin \in [C -> ChecksOf(d)] : CopyCheckRows(d, s, origin)
    BY <1>10 DEF AcceptDiscovered
  <2>2. PICK origin \in [C -> ChecksOf(d)] : CopyCheckRows(d, s, origin)
    BY <2>1
  <2>3. ASSUME NEW k
        PROVE  /\ CopiedCheck(s, k).timer # "waiting"
               /\ CopiedCheck(s, k).timer = "held" => CopiedCheck(s, k).newest # "unknown"
    BY DEF CopiedCheck, NewCheck, NoRow
  <2>4. \A e \in C : origin[e] \in CheckIds
    BY DEF ChecksOf
  <2> QED
    BY <1>1, <2>2, <2>3, <2>4 DEF CopyCheckRows, Deleted
<1>11. ASSUME Cleanup, NEW c \in CheckIds
       PROVE  /\ checks'[c].timer = "waiting" => checks'[c].lastStatus # "unknown"
              /\ checks'[c].timer = "held" => checks'[c].newest # "unknown"
  BY <1>11, CleanedRow
<1> QED
  BY <1>3, <1>4, <1>5, <1>6, <1>7, <1>8, <1>9, <1>10, <1>11 DEF EditStep

\* What users and the other jobs do leaves the probes and their order alone.
LEMMA EditStepKeepsRuns ==
    RunsGoOn /\ OvertakenHasResult /\ NotOwnPredecessor
        => OvertakenHasResult' /\ NotOwnPredecessor'
BY DEF RunsGoOn, OvertakenHasResult, NotOwnPredecessor, Probing

\* A run that returns is nobody's predecessor any more.
LEMMA ReturnDue == ASSUME DueInv, NEW r \in Runs, Return(r) PROVE DueInv'
<1>1. TypeOK'
  BY ReturnType DEF DueInv
<1>2. NoRowWaits'
  BY DEF DueInv, NoRowWaits, Return, storeVars
<1>3. OvertakenHasResult'
  BY DEF DueInv, OvertakenHasResult, Return, storeVars, Probing, TypeOK
<1>4. NotOwnPredecessor'
  BY DEF DueInv, NotOwnPredecessor, Return
<1> QED
  BY <1>1, <1>2, <1>3, <1>4 DEF DueInv

\* Every step of a run keeps the invariant: only a result makes a check wait.
LEMMA RunStepDue ==
    ASSUME DueInv, NEW r \in Runs, RunStep(r) \/ AbortRun(r)
    PROVE  DueInv'
<1>1. TypeOK /\ TypeOK'
  BY RunStepType DEF DueInv
<1>2. CASE FailToLoad(r) \/ FailToSave(r) \/ FinishRun(r) \/ AbortRun(r)
  BY <1>2, ReturnDue DEF FailToLoad, FailToSave, FinishRun, AbortRun
<1>3. CASE \/ ListDueChecks(r) \/ LoadServices(r) \/ StartPublishing(r)
           \/ PublishOutcome(r) \/ LoadDiscoveredChecks(r)
  <2>1. UNCHANGED <<storeVars, probe, earlier, overtaken>>
    BY <1>3 DEF ListDueChecks, LoadServices, StartPublishing, PublishOutcome, LoadDiscoveredChecks
  <2> QED
    BY <1>1, <2>1 DEF DueInv, NoRowWaits, OvertakenHasResult, NotOwnPredecessor, Probing, storeVars
<1>4. ASSUME NEW c \in CheckIds, BeginProbe(r, c) PROVE DueInv'
  <2>1. r \notin overtaken
    BY <1>4 DEF BeginProbe, DueInv, OvertakenHasResult
  <2>2. OvertakenHasResult'
    BY <1>1, <1>4, <2>1 DEF BeginProbe, DueInv, OvertakenHasResult, Probing, TypeOK, storeVars
  <2>3. NotOwnPredecessor'
    BY <1>1, <1>4 DEF BeginProbe, DueInv, NotOwnPredecessor, TypeOK
  <2> QED
    BY <1>1, <1>4, <2>2, <2>3 DEF BeginProbe, DueInv, NoRowWaits, storeVars
<1>5. CASE SaveResult(r)
  <2> DEFINE c == probe[r].check
             status == probe[r].status
             late == r \in overtaken
  <2>1. PICK timer \in Timer : RecordResult(c, status, late, timer)
    BY <1>5 DEF SaveResult
  <2>2. c \in CheckIds /\ c # NoCheck /\ status # "unknown"
    BY <1>1, <1>5 DEF SaveResult, Probing, TypeOK, Probe, ProbeStatus
  <2>3. checks' = [checks EXCEPT ![c] = RecordedCheck(@, status, late, timer)]
    BY <2>1 DEF RecordResult
  <2>4. late => checks[c].newest # "unknown"
    BY DEF DueInv, OvertakenHasResult
  <2>5. checks'[c].newest # "unknown" /\ checks'[c].lastStatus # "unknown"
    <3>1. checks[c] \in CheckRow /\ checks'[c] = RecordedCheck(checks[c], status, late, timer)
      BY <1>1, <2>2, <2>3 DEF TypeOK, StoreTypeOK
    <3> QED
      BY <2>2, <2>4, <3>1 DEF RecordedCheck, CheckRow
  <2>6. \A d \in CheckIds : d # c => checks'[d] = checks[d]
    BY <1>1, <2>3 DEF TypeOK, StoreTypeOK
  <2>7. NoRowWaits'
    BY <2>5, <2>6 DEF DueInv, NoRowWaits
  <2>8. probe' = [probe EXCEPT ![r] = NoProbe]
        /\ overtaken' = (overtaken \ {r}) \cup {q \in earlier[r] : probe[q].check = c}
        /\ earlier' = [q \in Runs |-> IF q = r THEN {} ELSE earlier[q] \ {r}]
    BY <1>5 DEF SaveResult
  <2>9. ASSUME NEW q \in overtaken'
        PROVE  probe'[q].check # NoCheck /\ checks'[probe'[q].check].newest # "unknown"
    <3>1. q \in Runs /\ q # r
      BY <1>1, <2>8 DEF DueInv, NotOwnPredecessor, TypeOK
    <3>2. probe'[q] = probe[q]
      BY <1>1, <2>8, <3>1 DEF TypeOK
    <3>3. CASE probe[q].check = c
      BY <2>2, <2>5, <3>2, <3>3
    <3>4. CASE probe[q].check # c
      <4>1. q \in overtaken
        BY <2>8, <3>4
      <4>2. probe[q].check \in CheckIds /\ checks[probe[q].check].newest # "unknown"
        BY <1>1, <3>1, <4>1 DEF DueInv, OvertakenHasResult, Probing, TypeOK, Probe
      <4> QED
        BY <1>1, <2>6, <3>2, <3>4, <4>1, <4>2 DEF DueInv, OvertakenHasResult, Probing
    <3> QED
      BY <3>3, <3>4
  <2>10. OvertakenHasResult'
    BY <2>9 DEF OvertakenHasResult, Probing
  <2>11. NotOwnPredecessor'
    BY <2>8 DEF DueInv, NotOwnPredecessor
  <2> QED
    BY <1>1, <2>7, <2>10, <2>11 DEF DueInv
<1> QED
  BY <1>2, <1>3, <1>4, <1>5 DEF RunStep

\* Whatever runs overlap and whatever users edit and clean-ups remove meanwhile, a check
\* without results that the next run passes over has run before and waits for the time
\* that run has set.
THEOREM WaitsOnceRun == Spec => []WaitsOnlyOnceRun
<1>1. Init => DueInv
  BY InitType DEF Init, StoreInit, NoRow, DueInv, NoRowWaits, OvertakenHasResult,
                  NotOwnPredecessor
<1>2. DueInv /\ [Next]_vars => DueInv'
  <2> SUFFICES ASSUME DueInv, [Next]_vars PROVE DueInv'
    OBVIOUS
  <2>1. TypeOK'
    BY NextType DEF DueInv
  <2>2. CASE \E r \in Runs : RunStep(r) \/ AbortRun(r)
    BY <2>2, RunStepDue
  <2>3. CASE EditStep
    <3>1. RunsGoOn
      BY <2>3 DEF EditStep, SaveManualService, DeleteService, ObserveService, SaveServiceCheck,
                  DeleteServiceCheck, TimePasses, SyncHealthChecks, AcceptDiscovered, Cleanup
    <3>2. NoRowWaits'
      BY <2>3, EditStepDue DEF DueInv
    <3> QED
      BY <2>1, <3>1, <3>2, EditStepKeepsRuns DEF DueInv
  <2>4. CASE ProcessStops
    BY <2>1, <2>4 DEF ProcessStops, DueInv, NoRowWaits, OvertakenHasResult,
                      NotOwnPredecessor, storeVars
  <2>5. CASE UNCHANGED vars
    BY <2>1, <2>5 DEF DueInv, NoRowWaits, OvertakenHasResult, NotOwnPredecessor, Probing,
                      vars, storeVars, runVars
  <2> QED
    BY <2>2, <2>3, <2>4, <2>5 DEF Next
<1>3. DueInv => WaitsOnlyOnceRun
  BY DEF DueInv, NoRowWaits, WaitsOnlyOnceRun
<1> QED
  BY <1>1, <1>2, <1>3, PTL DEF Spec

-----------------------------------------------------------------------------
(* Statuses *)

\* The roll-up of a subject reads nothing but its own enabled checks.
LEMMA SameLatestStatuses ==
    ASSUME NEW x, NEW before, NEW after,
           \A d \in CheckIds :
              \/ after[d] = before[d]
              \/ (~before[d].live \/ before[d].subject # x) /\ (~after[d].live \/ after[d].subject # x)
    PROVE  LatestStatuses(after, x) = LatestStatuses(before, x)
<1>1. {d \in CheckIds : after[d].live /\ after[d].subject = x /\ after[d].enabled}
      = {d \in CheckIds : before[d].live /\ before[d].subject = x /\ before[d].enabled}
  OBVIOUS
<1>2. \A d \in {e \in CheckIds : before[e].live /\ before[e].subject = x /\ before[e].enabled} :
         after[d].newest = before[d].newest
  OBVIOUS
<1> QED
  BY <1>1, <1>2 DEF LatestStatuses

\* A transaction that changes one check and rolls up its subject keeps up to date
\* whatever was.
LEMMA RolledUpIsFresh ==
    ASSUME TypeOK, NEW c \in CheckIds, NEW k,
           ~k.live \/ k.subject = checks[c].subject,
           checks' = [checks EXCEPT ![c] = k],
           subjects' = RolledUp(checks[c].subject, checks'),
           NEW x \in Subjects, subjects[x].row = "live", StatusIsRollUp(x)
    PROVE  StatusIsRollUp(x)'
<1>1. subjects \in [Subjects -> SubjectRow] /\ checks \in [CheckIds -> CheckRow]
  BY DEF TypeOK, StoreTypeOK
<1>2. CASE checks[c].subject = x
  <2>1. subjects'[x].status = RollUp(LatestStatuses(checks', x))
    BY <1>1, <1>2 DEF RolledUp, SubjectRow
  <2> QED
    BY <2>1 DEF StatusIsRollUp
<1>3. CASE checks[c].subject # x
  <2>1. subjects'[x] = subjects[x]
    BY <1>1, <1>3 DEF RolledUp
  <2>2. \A d \in CheckIds :
           \/ checks'[d] = checks[d]
           \/ (~checks[d].live \/ checks[d].subject # x) /\ (~checks'[d].live \/ checks'[d].subject # x)
    BY <1>1, <1>3
  <2>3. LatestStatuses(checks', x) = LatestStatuses(checks, x)
    BY <2>2, SameLatestStatuses
  <2> QED
    BY <2>1, <2>3 DEF StatusIsRollUp
<1> QED
  BY <1>2, <1>3

\* A run leaves the tables alone except where it saves a result.
LEMMA OnlySavingWrites ==
    ASSUME NEW r \in Runs, RunStep(r) \/ AbortRun(r), ~SaveResult(r)
    PROVE  UNCHANGED storeVars
BY DEF RunStep, AbortRun, ListDueChecks, LoadServices, FailToLoad, BeginProbe, FailToSave,
       StartPublishing, PublishOutcome, LoadDiscoveredChecks, FinishRun, Return

\* However many runs probe the checks of a service at once, and in whatever order their
\* results arrive, neither they nor the deletion of a check make its status stale.
THEOREM StatusStaysFresh == Spec => StaleOnlyByEdits
<1> DEFINE Fresh == ProbingOrDeleting => \A x \in Subjects :
                      subjects[x].row = "live" /\ StatusIsRollUp(x) => StatusIsRollUp(x)'
<1>1. TypeOK /\ [Next]_vars => [Fresh]_vars
  <2> SUFFICES ASSUME TypeOK, ProbingOrDeleting, NEW x \in Subjects,
                      subjects[x].row = "live", StatusIsRollUp(x)
               PROVE  StatusIsRollUp(x)'
    OBVIOUS
  <2>1. ASSUME NEW r \in Runs, SaveResult(r) PROVE StatusIsRollUp(x)'
    <3> DEFINE c == probe[r].check
    <3>1. PICK timer \in Timer : RecordResult(c, probe[r].status, r \in overtaken, timer)
      BY <2>1 DEF SaveResult
    <3> DEFINE k == RecordedCheck(checks[c], probe[r].status, r \in overtaken, timer)
    <3>2. c \in CheckIds
      BY <2>1 DEF SaveResult, Probing, TypeOK, Probe
    <3>3. checks' = [checks EXCEPT ![c] = k] /\ subjects' = RolledUp(checks[c].subject, checks')
      BY <3>1, <3>2 DEF RecordResult, TypeOK, StoreTypeOK
    <3>4. k.subject = checks[c].subject
      BY <3>2 DEF RecordedCheck, TypeOK, StoreTypeOK, CheckRow
    <3> HIDE DEF k, c
    <3> QED
      BY <3>2, <3>3, <3>4, RolledUpIsFresh
  <2>2. ASSUME NEW c \in CheckIds, DeleteServiceCheck(c) PROVE StatusIsRollUp(x)'
    <3>1. checks' = [checks EXCEPT ![c] = NoRow]
      BY <2>2 DEF DeleteServiceCheck, DeleteCheckRow, Deleted, TypeOK, StoreTypeOK
    <3>2. ~NoRow.live
      BY DEF NoRow
    <3>3. subjects' = RolledUp(checks[c].subject, checks')
      BY <2>2 DEF DeleteServiceCheck, DeleteCheckRow
    <3> QED
      BY <3>1, <3>2, <3>3, RolledUpIsFresh
  <2>3. CASE UNCHANGED storeVars
    BY <2>3 DEF StatusIsRollUp, LatestStatuses, storeVars
  <2> QED
    BY <2>1, <2>2, <2>3, OnlySavingWrites DEF ProbingOrDeleting, ProcessStops
<1> QED
  BY <1>1, TypeCorrect, PTL DEF Spec, StaleOnlyByEdits

-----------------------------------------------------------------------------
(* last_status against the newest result *)

\* An edit keeps what a row says of its last results, or forgets results, or takes the
\* row away, or inserts a new one that has no last_status and no failures.
LEMMA EditStepRows ==
    ASSUME TypeOK, EditStep, NEW c \in CheckIds
    PROVE  \/ /\ checks'[c].live = checks[c].live
              /\ checks'[c].lastStatus = checks[c].lastStatus
              /\ checks'[c].failures = checks[c].failures
              /\ checks'[c].newest \in {checks[c].newest, "unknown"}
           \/ /\ checks'[c].lastStatus = "unknown"
              /\ checks'[c].failures = 0
              /\ ~checks'[c].live \/ ~checks[c].live
<1> DEFINE Kept == /\ checks'[c].live = checks[c].live
                   /\ checks'[c].lastStatus = checks[c].lastStatus
                   /\ checks'[c].failures = checks[c].failures
                   /\ checks'[c].newest \in {checks[c].newest, "unknown"}
           Gone == /\ checks'[c].lastStatus = "unknown"
                   /\ checks'[c].failures = 0
                   /\ ~checks'[c].live \/ ~checks[c].live
<1> SUFFICES Kept \/ Gone
  OBVIOUS
<1>1. checks \in [CheckIds -> CheckRow] /\ checks[c] \in CheckRow
  BY DEF TypeOK, StoreTypeOK
<1>2. NoRow.lastStatus = "unknown" /\ NoRow.failures = 0 /\ NoRow.live = FALSE
  BY DEF NoRow
<1>3. ASSUME NEW x, NEW enabled \in BOOLEAN, NEW managed \in BOOLEAN
      PROVE  NewCheck(x, enabled, managed).lastStatus = "unknown"
             /\ NewCheck(x, enabled, managed).failures = 0
  BY DEF NewCheck, NoRow
<1>4. ASSUME NEW s \in Services, SaveManualService(s) PROVE Kept \/ Gone
  <2>1. PICK e \in CheckIds :
          \/ checks' = [checks EXCEPT ![e] = NewCheck(s, TRUE, TRUE)] /\ ~checks[e].live
          \/ UNCHANGED checks
    BY <1>4 DEF SaveManualService, UpsertService, FreshIds
  <2>2. NewCheck(s, TRUE, TRUE).lastStatus = "unknown" /\ NewCheck(s, TRUE, TRUE).failures = 0
    BY <1>3
  <2> QED
    BY <1>1, <2>1, <2>2
<1>5. ASSUME NEW s \in Services, DeleteService(s) PROVE Kept \/ Gone
  BY <1>5 DEF DeleteService, DeleteServiceRow
<1>6. ASSUME NEW d \in DiscoveredServices, ObserveService(d) PROVE Kept \/ Gone
  BY <1>6 DEF ObserveService, InsertDiscovered
<1>7. ASSUME NEW e \in CheckIds, NEW s \in Services, SaveServiceCheck(e, s) PROVE Kept \/ Gone
  <2>1. PICK enabled \in BOOLEAN, managed \in BOOLEAN, timer \in Timer :
             UpsertServiceCheck(e, s, enabled, managed, timer)
    BY <1>7 DEF SaveServiceCheck
  <2>2. CASE checks[e].live
    <3>1. checks' = [checks EXCEPT ![e].enabled = enabled, ![e].timer = timer]
      BY <2>1, <2>2 DEF UpsertServiceCheck
    <3>2. checks'[c].live = checks[c].live /\ checks'[c].lastStatus = checks[c].lastStatus
          /\ checks'[c].failures = checks[c].failures /\ checks'[c].newest = checks[c].newest
      BY <1>1, <3>1 DEF CheckRow
    <3> QED
      BY <3>2
  <2>3. CASE ~checks[e].live
    <3>1. checks' = [checks EXCEPT ![e] = NewCheck(s, enabled, managed)]
      BY <2>1, <2>3 DEF UpsertServiceCheck
    <3> QED
      BY <1>1, <1>3, <2>3, <3>1
  <2> QED
    BY <2>2, <2>3
<1>8. ASSUME NEW e \in CheckIds, DeleteServiceCheck(e) PROVE Kept \/ Gone
  BY <1>2, <1>8 DEF DeleteServiceCheck, DeleteCheckRow, Deleted
<1>9. ASSUME NEW e \in CheckIds, TimePasses(e) PROVE Kept \/ Gone
  BY <1>1, <1>9 DEF TimePasses, IntervalElapses, CheckRow
<1>10. ASSUME NEW x \in Subjects, SyncHealthChecks(x) PROVE Kept \/ Gone
  <2>1. PICK C \in SUBSET FreshIds : ReplaceManagedRows(x, C)
    BY <1>10 DEF SyncHealthChecks
  <2>2. NewCheck(x, TRUE, TRUE).lastStatus = "unknown" /\ NewCheck(x, TRUE, TRUE).failures = 0
    BY <1>3
  <2>3. \A e \in C : ~checks[e].live
    BY DEF FreshIds
  <2> QED
    BY <1>2, <2>1, <2>2, <2>3 DEF ReplaceManagedRows, Deleted
<1>11. ASSUME NEW d \in DiscoveredServices, NEW s \in Services, AcceptDiscovered(d, s)
       PROVE  Kept \/ Gone
  <2>1. PICK C \in SUBSET FreshIds :
             \E origin \in [C -> ChecksOf(d)] : CopyCheckRows(d, s, origin)
    BY <1>11 DEF AcceptDiscovered
  <2>2. PICK origin \in [C -> ChecksOf(d)] : CopyCheckRows(d, s, origin)
    BY <2>1
  <2>3. \A e \in C : ~checks[e].live
    BY DEF FreshIds
  <2>4. ASSUME NEW k PROVE CopiedCheck(s, k).lastStatus = "unknown" /\ CopiedCheck(s, k).failures = 0
    BY DEF CopiedCheck, NewCheck, NoRow
  <2> QED
    BY <1>2, <2>2, <2>3, <2>4 DEF CopyCheckRows, Deleted
<1>12. ASSUME Cleanup PROVE Kept \/ Gone
  BY <1>12, CleanedRow
<1> QED
  BY <1>4, <1>5, <1>6, <1>7, <1>8, <1>9, <1>10, <1>11, <1>12 DEF EditStep

\* What saving a result does to the rows: only the row of the probe's check changes.
LEMMA SaveResultRows ==
    ASSUME TypeOK, NEW r \in Runs, SaveResult(r)
    PROVE  LET c == probe[r].check
               k == checks'[c] IN
           /\ c \in CheckIds /\ probe[r].status \in ProbeStatus
           /\ checks[c].live /\ k.live
           /\ k.lastStatus = probe[r].status
           /\ r \notin overtaken => k.newest = probe[r].status
           /\ k.failures = IF probe[r].status = "healthy" THEN 0
                           ELSE IF checks[c].lastStatus = "healthy" THEN 1
                           ELSE IF checks[c].failures < MaxFailures THEN checks[c].failures + 1
                           ELSE checks[c].failures
           /\ \A d \in CheckIds : d # c => checks'[d] = checks[d]
<1> DEFINE c == probe[r].check
<1>1. PICK timer \in Timer : RecordResult(c, probe[r].status, r \in overtaken, timer)
  BY DEF SaveResult
<1>2. c \in CheckIds /\ probe[r].status \in ProbeStatus
  BY DEF SaveResult, Probing, TypeOK, Probe
<1>3. checks \in [CheckIds -> CheckRow] /\ checks[c] \in CheckRow
  BY <1>2 DEF TypeOK, StoreTypeOK
<1>4. checks[c].live
      /\ checks' = [checks EXCEPT ![c] = RecordedCheck(@, probe[r].status, r \in overtaken, timer)]
  BY <1>1 DEF RecordResult, CanRecord
<1>5. checks'[c] = RecordedCheck(checks[c], probe[r].status, r \in overtaken, timer)
  BY <1>2, <1>3, <1>4
<1>6. \A d \in CheckIds : d # c => checks'[d] = checks[d]
  BY <1>3, <1>4
<1> QED
  BY <1>2, <1>3, <1>4, <1>5, <1>6 DEF RecordedCheck, CheckRow

\* last_status and the newest result part only when a run saves a result older than one
\* that another run has stored since its probe began.
THEOREM AgreementKept == Spec => PartsOnlyByOvertaking
<1> DEFINE Parts == \A c \in CheckIds : Agrees(c) /\ ~Agrees(c)'
                      => \E r \in overtaken : probe[r].check = c /\ SaveResult(r)
<1>1. TypeOK /\ [Next]_vars => [Parts]_vars
  <2> SUFFICES ASSUME TypeOK, Next, NEW c \in CheckIds, Agrees(c), ~Agrees(c)'
               PROVE  \E r \in overtaken : probe[r].check = c /\ SaveResult(r)
    OBVIOUS
  <2>1. ~EditStep
    BY EditStepRows DEF Agrees
  <2>2. ~ProcessStops
    BY DEF Agrees, ProcessStops, storeVars
  <2>3. PICK r \in Runs : RunStep(r) \/ AbortRun(r)
    BY <2>1, <2>2 DEF Next
  <2>4. SaveResult(r)
    BY <2>3, OnlySavingWrites DEF Agrees, storeVars
  <2> QED
    BY <2>4, SaveResultRows DEF Agrees
<1> QED
  BY <1>1, TypeCorrect, PTL DEF Spec, PartsOnlyByOvertaking
=============================================================================
