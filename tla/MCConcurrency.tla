--------------------------- MODULE MCConcurrency ---------------------------
(* The concurrent parts of the process on small instances.  They share nothing  *)
(* that the models of the others keep, so one run checks each of them with the  *)
(* others at rest: part says which.  Events, alerts and tests are three bounds  *)
(* on Notifications.                                                            *)
EXTENDS Notifications, LanScan, ReadPool, TopologySources

CONSTANTS early, late  \* the rules

VARIABLE part

Thresholds == [r \in Rules |-> IF r = early THEN 0 ELSE 2]

SmallTargets ==
    {rows \in [Targets -> {row \in TargetRow : row.address \in {0, 5} /\ row.bits \in {1, 2, 3, 4}}] :
        /\ Cardinality(ScanJobs(rows)) <= 3
        /\ \A t \in Targets : rows[t].address = 5 => rows[t].enabled /\ rows[t].valid}

Parts == {"events", "alerts", "tests", "scan", "pool", "sources"}

MCInit ==
    /\ part \in Parts
    /\ Init
    /\ DOMAIN rules = CASE part = "alerts" -> {late} [] part = "tests" -> {early} [] OTHER -> {}
    /\ part \notin {"alerts", "tests"} => channels = <<>>
    /\ IF part = "scan" THEN \E rows \in SmallTargets : LanStart(rows) ELSE LanRest
    /\ PoolInit /\ SourcesInit

(* Events: two runners and a browser that comes and goes.  Alerts: overlapping  *)
(* runs of a job and one edit of rules or channels.  Tests: a run, a test of    *)
(* the channel, and one failure or restart.                                     *)
Bounded ==
    /\ part = "events" => tests' = 0 /\ breaks' = 0 /\ edits' = 0
    /\ part = "alerts" => tests' = 0 /\ breaks' = 0 /\ DOMAIN rules' \subseteq {late}
    /\ part = "tests" => runs' <= 1 /\ edits' = 0
    /\ part # "events" => DOMAIN queue' = {Engine}

MCNext ==
    /\ UNCHANGED part
    /\ \/ /\ part \in {"events", "alerts", "tests"}
          /\ Next /\ Bounded
          /\ UNCHANGED <<lanVars, poolVars, sourceVars>>
       \/ part = "scan" /\ LanNext /\ UNCHANGED <<vars, poolVars, sourceVars>>
       \/ part = "pool" /\ PoolNext /\ UNCHANGED <<vars, lanVars, sourceVars>>
       \/ part = "sources" /\ SourcesNext /\ UNCHANGED <<vars, lanVars, poolVars>>

MCSpec ==
    /\ MCInit
    /\ [][MCNext]_<<vars, lanVars, poolVars, sourceVars, part>>
    /\ Fairness /\ LanFairness /\ PoolFairness
    /\ \A r \in Pollers : WF_sourceVars(part = "sources" /\ RunnerStep(r))
=============================================================================
