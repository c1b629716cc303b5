--------------------------- MODULE HealthAlertsProofs ---------------------------
(***************************************************************************)
(* Proofs about HealthAlerts, for any number of checks and overlapping runs: *)
(* the last alert of a check and its row agree, and alerts alternate.        *)
(***************************************************************************)
EXTENDS HealthAlerts, HealthMonitoringProofs

\* The outcome that saving the result of run r's probe adds to its list.
SavedOutcome(r) ==
    [check |-> probe[r].check,
     alert |-> AlertOf(checks[probe[r].check].lastStatus, probe[r].status)]

\* A step that saves no result adds no outcome to any list.
LEMMA NothingSaved ==
    ASSUME TypeOK, [Next]_vars, \A r \in Runs : ~SaveResult(r), NEW q \in Runs
    PROVE  ~Saves(q)
<1>1. outcomes \in [Runs -> Seq(Outcome)]
  BY DEF TypeOK
<1>2. CASE UNCHANGED outcomes
  BY <1>1, <1>2 DEF Saves
<1>3. CASE EditStep
  BY <1>2, <1>3 DEF EditStep, RunsGoOn, SaveManualService, DeleteService, ObserveService,
                    SaveServiceCheck, DeleteServiceCheck, TimePasses, SyncHealthChecks,
                    AcceptDiscovered, Cleanup
<1>4. ASSUME NEW r \in Runs, Return(r) PROVE ~Saves(q)
  <2>1. outcomes'[q] = outcomes[q] \/ outcomes'[q] = <<>>
    BY <1>1, <1>4 DEF Return
  <2> QED
    BY <1>1, <2>1 DEF Saves
<1>5. ASSUME NEW r \in Runs, PublishOutcome(r) PROVE ~Saves(q)
  <2>1. outcomes[r] \in Seq(Outcome) /\ outcomes[r] # <<>>
    BY <1>1, <1>5 DEF PublishOutcome
  <2>2. outcomes' = [outcomes EXCEPT ![r] = Tail(outcomes[r])]
    BY <1>5 DEF PublishOutcome
  <2>3. CASE q = r
    <3>1. outcomes'[q] = Tail(outcomes[r])
      BY <1>1, <2>2, <2>3
    <3>2. Len(Tail(outcomes[r])) = Len(outcomes[r]) - 1 /\ Len(outcomes[r]) \in Nat
      BY <2>1
    <3> QED
      BY <2>3, <3>1, <3>2 DEF Saves
  <2>4. CASE q # r
    BY <1>1, <2>2, <2>4 DEF Saves
  <2> QED
    BY <2>3, <2>4
<1>6. ASSUME NEW r \in Runs, RunStep(r) \/ AbortRun(r) PROVE ~Saves(q)
  BY <1>2, <1>4, <1>5, <1>6 DEF RunStep, AbortRun, ListDueChecks, LoadServices, FailToLoad,
       BeginProbe, FailToSave, StartPublishing, LoadDiscoveredChecks, FinishRun
<1>7. CASE ProcessStops
  BY <1>1, <1>7 DEF ProcessStops, Saves
<1> QED
  BY <1>2, <1>3, <1>6, <1>7 DEF Next, vars, runVars

\* A step that saves a result adds its outcome to one list only.
LEMMA OneSaved ==
    ASSUME TypeOK, NEW r \in Runs, SaveResult(r)
    PROVE  /\ {q \in Runs : Saves(q)} = {r}
           /\ LastOutcome(r)' = SavedOutcome(r)
<1>1. outcomes \in [Runs -> Seq(Outcome)] /\ outcomes[r] \in Seq(Outcome)
  BY DEF TypeOK
<1>2. SavedOutcome(r) \in Outcome
  BY SaveResultRows, AlertType DEF SavedOutcome, Outcome
<1>3. outcomes' = [outcomes EXCEPT ![r] = Append(@, SavedOutcome(r))]
  BY DEF SaveResult, SavedOutcome
<1>4. outcomes'[r] = Append(outcomes[r], SavedOutcome(r))
  BY <1>1, <1>3
<1>5. Len(outcomes'[r]) = Len(outcomes[r]) + 1 /\ outcomes'[r][Len(outcomes[r]) + 1] = SavedOutcome(r)
  BY <1>1, <1>2, <1>4
<1>6. \A q \in Runs : q # r => outcomes'[q] = outcomes[q]
  BY <1>1, <1>3
<1>7. Len(outcomes[r]) \in Nat /\ \A q \in Runs : Len(outcomes[q]) \in Nat
  BY <1>1
<1>8. \A q \in Runs : Saves(q) <=> q = r
  BY <1>5, <1>6, <1>7 DEF Saves
<1> QED
  BY <1>5, <1>8 DEF LastOutcome

\* The effect of a step on the history of raised alerts.
LEMMA RaisedWhenNothingSaved ==
    ASSUME TypeOK, AlertsNext, \A r \in Runs : ~SaveResult(r)
    PROVE  raised' = [c \in CheckIds |-> IF checks'[c].live THEN raised[c] ELSE "none"]
<1>1. {LastOutcome(r)' : r \in {q \in Runs : Saves(q)}} = {}
  BY NothingSaved DEF AlertsNext
<1> QED
  BY <1>1 DEF AlertsNext, Recorded

\* The alert of a saved result becomes the last one of its check, unless there is none.
LEMMA RaisedWhenSaved ==
    ASSUME TypeOK, AlertsNext, NEW r \in Runs, SaveResult(r)
    PROVE  raised' = [c \in CheckIds |->
              IF ~checks'[c].live THEN "none"
              ELSE IF c = probe[r].check /\ SavedOutcome(r).alert # "none"
                   THEN SavedOutcome(r).alert ELSE raised[c]]
<1>1. {LastOutcome(q)' : q \in {q \in Runs : Saves(q)}} = {SavedOutcome(r)}
  BY OneSaved
<1>2. raised' = Recorded(raised, {SavedOutcome(r)})
  BY <1>1 DEF AlertsNext
<1>3. SavedOutcome(r).check = probe[r].check
  BY DEF SavedOutcome
<1>4. ASSUME NEW c \in CheckIds, c = probe[r].check, SavedOutcome(r).alert # "none"
      PROVE  (CHOOSE o \in {SavedOutcome(r)} : o.check = c /\ o.alert # "none") = SavedOutcome(r)
  BY <1>3, <1>4
<1> QED
  BY <1>2, <1>3, <1>4 DEF Recorded

-----------------------------------------------------------------------------

\* AlertMatchesRow is inductive once no alert is remembered of an id without a row, and
\* statuses and failure counts have their types.
AlertInv ==
    /\ TypeOK
    /\ AlertMatchesRow
    /\ \A c \in CheckIds : ~checks[c].live => raised[c] = "none"

\* No check has been probed, and no alert raised, before the first step.
LEMMA AlertInvInit == AlertsInit => AlertInv
BY InitType, StoreAssumption DEF AlertsInit, AlertInv, AlertMatchesRow, Init, StoreInit, NoRow

\* Everything but the saving of a result.
LEMMA AlertInvNothingSaved ==
    ASSUME AlertInv, AlertsNext, \A r \in Runs : ~SaveResult(r)
    PROVE  AlertInv'
<1>1. TypeOK /\ TypeOK'
  BY NextType DEF AlertInv, AlertsNext
<1>2. \A c \in CheckIds : raised'[c] = IF checks'[c].live THEN raised[c] ELSE "none"
  BY <1>1, RaisedWhenNothingSaved
<1>3. \A c \in CheckIds : checks[c].failures \in Nat
  BY <1>1, StoreAssumption DEF TypeOK, StoreTypeOK, CheckRow
<1>4. CASE EditStep
  <2>1. ASSUME NEW c \in CheckIds
        PROVE  /\ raised'[c] = "failed" => checks'[c].lastStatus = "unhealthy"
               /\ raised'[c] = "recovered" => checks'[c].lastStatus = "healthy"
               /\ checks'[c].failures > 0 <=> checks'[c].lastStatus = "unhealthy"
    BY <1>1, <1>2, <1>4, EditStepRows DEF AlertInv, AlertMatchesRow
  <2> QED
    BY <1>1, <1>2, <2>1 DEF AlertInv, AlertMatchesRow
<1>5. CASE ProcessStops \/ \E r \in Runs : RunStep(r) \/ AbortRun(r)
  <2>1. checks' = checks
    BY <1>5, OnlySavingWrites DEF ProcessStops, storeVars
  <2> QED
    BY <1>1, <1>2, <2>1 DEF AlertInv, AlertMatchesRow
<1> QED
  BY <1>4, <1>5 DEF AlertsNext, Next

\* The saving of a result: the alert, last_status and the failure count change together.
LEMMA AlertInvSaved ==
    ASSUME AlertInv, AlertsNext, NEW r \in Runs, SaveResult(r)
    PROVE  AlertInv'
<1> DEFINE c == probe[r].check
           alert == AlertOf(checks[c].lastStatus, probe[r].status)
<1>1. TypeOK /\ TypeOK'
  BY NextType DEF AlertInv, AlertsNext
<1>2. c \in CheckIds /\ probe[r].status \in ProbeStatus /\ checks'[c].live
      /\ checks'[c].lastStatus = probe[r].status
      /\ checks'[c].failures = (IF probe[r].status = "healthy" THEN 0
                               ELSE IF checks[c].lastStatus = "healthy" THEN 1
                               ELSE IF checks[c].failures < MaxFailures THEN checks[c].failures + 1
                               ELSE checks[c].failures)
      /\ \A d \in CheckIds : d # c => checks'[d] = checks[d]
  BY <1>1, SaveResultRows
<1>3. checks[c].failures \in Nat /\ MaxFailures \in Nat \ {0}
      /\ checks[c].lastStatus \in CheckStatus
  BY <1>1, <1>2, StoreAssumption DEF TypeOK, StoreTypeOK, CheckRow
<1>4. SavedOutcome(r).alert = alert
  BY DEF SavedOutcome
<1>5. \A d \in CheckIds : raised'[d] = IF ~checks'[d].live THEN "none"
         ELSE IF d = c /\ alert # "none" THEN alert ELSE raised[d]
  BY <1>1, <1>4, RaisedWhenSaved
<1>6. /\ raised'[c] = "failed" => checks'[c].lastStatus = "unhealthy"
      /\ raised'[c] = "recovered" => checks'[c].lastStatus = "healthy"
      /\ checks'[c].failures > 0 <=> checks'[c].lastStatus = "unhealthy"
  <2>1. raised'[c] = IF alert # "none" THEN alert ELSE raised[c]
    BY <1>2, <1>5
  <2>2. /\ raised[c] = "failed" => checks[c].lastStatus = "unhealthy"
        /\ raised[c] = "recovered" => checks[c].lastStatus = "healthy"
    BY <1>2 DEF AlertInv, AlertMatchesRow
  <2>3. CASE probe[r].status = "healthy"
    BY <1>2, <1>3, <2>1, <2>2, <2>3 DEF AlertOf
  <2>4. CASE probe[r].status = "unhealthy"
    BY <1>2, <1>3, <2>1, <2>2, <2>4 DEF AlertOf
  <2> QED
    BY <1>2, <2>3, <2>4 DEF ProbeStatus
<1>7. \A d \in CheckIds : d # c =>
        /\ checks'[d] = checks[d]
        /\ raised'[d] = IF ~checks[d].live THEN "none" ELSE raised[d]
  BY <1>2, <1>5
<1>8. AlertMatchesRow'
  <2> SUFFICES ASSUME NEW d \in CheckIds
               PROVE  /\ raised'[d] = "failed" => checks'[d].lastStatus = "unhealthy"
                      /\ raised'[d] = "recovered" => checks'[d].lastStatus = "healthy"
                      /\ checks'[d].failures > 0 <=> checks'[d].lastStatus = "unhealthy"
    BY DEF AlertMatchesRow
  <2>1. CASE d = c
    BY <1>6, <2>1
  <2>2. CASE d # c
    BY <1>7, <2>2 DEF AlertInv, AlertMatchesRow
  <2> QED
    BY <2>1, <2>2
<1>9. \A d \in CheckIds : ~checks'[d].live => raised'[d] = "none"
  BY <1>5
<1> QED
  BY <1>1, <1>8, <1>9 DEF AlertInv

\* The invariant is kept by every step, and by steps of something else.
LEMMA AlertInvNext == AlertInv /\ [AlertsNext]_alertVars => AlertInv'
<1> SUFFICES ASSUME AlertInv, [AlertsNext]_alertVars PROVE AlertInv'
  OBVIOUS
<1>1. CASE AlertsNext
  BY <1>1, AlertInvNothingSaved, AlertInvSaved
<1>2. CASE UNCHANGED alertVars
  <2>1. TypeOK'
    BY <1>2, NextType DEF AlertInv, alertVars
  <2> QED
    BY <1>2, <2>1 DEF AlertInv, AlertMatchesRow, alertVars, vars, storeVars
<1> QED
  BY <1>1, <1>2

\* The last alert of a check, its last_status and its failure count never contradict one
\* another, whatever edits, clean-ups, copies and overlapping runs do.
THEOREM AlertsMatchRows == AlertsSpec => []AlertMatchesRow
<1>1. AlertInv => AlertMatchesRow
  BY DEF AlertInv
<1> QED
  BY <1>1, AlertInvInit, AlertInvNext, PTL DEF AlertsSpec

\* No check is reported as failed twice in a row, nor as recovered.
THEOREM AlertsDoAlternate == AlertsSpec => AlertsAlternate
<1> DEFINE Alternates == \A r \in Runs : Saves(r) =>
              LET o == LastOutcome(r)' IN o.alert # "none" => raised[o.check] # o.alert
<1>1. AlertInv /\ [AlertsNext]_alertVars => [Alternates]_alertVars
  <2> SUFFICES ASSUME AlertInv, AlertsNext, NEW r \in Runs, Saves(r),
                      LastOutcome(r)'.alert # "none"
               PROVE  raised[LastOutcome(r)'.check] # LastOutcome(r)'.alert
    OBVIOUS
  <2>1. TypeOK /\ Next
    BY DEF AlertInv, AlertsNext
  <2>2. PICK q \in Runs : SaveResult(q)
    BY <2>1, NothingSaved
  <2>3. q = r /\ LastOutcome(r)' = SavedOutcome(r)
    BY <2>1, <2>2, OneSaved
  <2>4. probe[r].check \in CheckIds /\ probe[r].status \in ProbeStatus
    BY <2>1, <2>2, <2>3, SaveResultRows
  <2> QED
    BY <2>3, <2>4 DEF SavedOutcome, AlertOf, AlertInv, AlertMatchesRow, ProbeStatus
<1> QED
  BY <1>1, AlertInvInit, AlertInvNext, PTL DEF AlertsSpec, AlertsAlternate
=============================================================================
