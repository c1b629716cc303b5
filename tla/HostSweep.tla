------------------------------ MODULE HostSweep ------------------------------
(* What a scan promises, however many goroutines carry it out: every address it *)
(* is asked for is probed once, and it returns what has answered, all of it and *)
(* after the last probe unless it was cancelled.  It answers for nothing after  *)
(* it has returned.                                                             *)
VARIABLES
    asked,      \* the addresses
    probed,
    answering,  \* those whose probe has found something
    outcome,    \* what the scan has returned
    over,       \* it has returned
    cancelled

sweepVars == <<asked, probed, answering, outcome, over, cancelled>>

SweepInit ==
    /\ probed = {} /\ answering = {} /\ outcome = {} /\ cancelled = FALSE
    /\ over \in BOOLEAN
    /\ over => asked = {}

Probe(a) ==
    /\ ~over
    /\ probed' = probed \cup {a}
    /\ answering' \in {answering, answering \cup {a}}
    /\ UNCHANGED <<asked, outcome, over, cancelled>>

Cancel ==
    /\ ~over /\ ~cancelled
    /\ cancelled' = TRUE
    /\ UNCHANGED <<asked, probed, answering, outcome, over>>

Return ==
    /\ ~over
    /\ over' = TRUE
    /\ outcome' \in SUBSET answering
    /\ ~cancelled => probed = asked /\ outcome' = answering
    /\ UNCHANGED <<asked, probed, answering, cancelled>>

SweepNext == (\E a \in asked \ probed : Probe(a)) \/ Cancel \/ Return

Sweeps == SweepInit /\ [][SweepNext]_sweepVars
=============================================================================
