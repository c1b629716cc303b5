------------------------------ MODULE HealthAlerts ------------------------------
(***************************************************************************)
(* The alerts of the health-check job: HealthMonitoring with two history     *)
(* variables, what the committed results gave rise to and what has reached   *)
(* the event bus.  Every step is a step of HealthMonitoring; the histories    *)
(* only record it.                                                         *)
(***************************************************************************)
EXTENDS HealthMonitoring

VARIABLES
    raised,     \* the last alert that a committed result of each check gave rise to
    published   \* the last alert of each check that was sent to the event bus

alertVars == <<vars, raised, published>>

AlertHistory == [CheckIds -> Alert \cup {"none"}]

AlertsInit ==
    /\ Init
    /\ raised = [c \in CheckIds |-> "none"]
    /\ published = [c \in CheckIds |-> "none"]

LastOutcome(r) == outcomes[r][Len(outcomes[r])]

\* In this step run r saves a result, or sends the events of its first outcome.
Saves(r) == Len(outcomes'[r]) > Len(outcomes[r])
Sends(r) == Len(outcomes'[r]) < Len(outcomes[r]) /\ pc'[r] = pc[r]

\* The history h after the alerts As; the alerts of a check go with its row.
Recorded(h, As) ==
    [c \in CheckIds |->
        IF ~checks'[c].live THEN "none"
        ELSE IF \E o \in As : o.check = c /\ o.alert # "none"
             THEN (CHOOSE o \in As : o.check = c /\ o.alert # "none").alert
             ELSE h[c]]

AlertsNext ==
    /\ Next
    /\ raised' = Recorded(raised, {LastOutcome(r)' : r \in {q \in Runs : Saves(q)}})
    /\ published' = Recorded(published, {Head(outcomes[r]) : r \in {q \in Runs : Sends(q)}})

AlertsSpec == AlertsInit /\ [][AlertsNext]_alertVars
FairAlertsSpec == AlertsSpec /\ Fairness

-----------------------------------------------------------------------------
(* Properties *)

\* The last alert of a check and its row agree: after "failed" the check is down, after
\* "recovered" it is up, and the failure count is positive exactly while it is
\* down.  Edits, copies, clean-ups, restarts and overlapping runs keep it so.
AlertMatchesRow ==
    \A c \in CheckIds :
        /\ raised[c] = "failed" => checks[c].lastStatus = "unhealthy"
        /\ raised[c] = "recovered" => checks[c].lastStatus = "healthy"
        /\ checks[c].failures > 0 <=> checks[c].lastStatus = "unhealthy"

\* A check never fails twice without recovering in between, nor recovers twice, however
\* the runs that probe it overlap: the notification rules on check events depend on it.
AlertsAlternate ==
    [][\A r \in Runs : Saves(r) =>
          LET o == LastOutcome(r)' IN o.alert # "none" => raised[o.check] # o.alert]_alertVars

\* When no run is under way, the bus has been told of the last alert of every check.
AlertsReachTheBus ==
    (\A r \in Runs : pc[r] = "idle") => published = raised
=============================================================================
