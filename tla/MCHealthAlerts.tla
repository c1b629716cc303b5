---------------------------- MODULE MCHealthAlerts ----------------------------
(* HealthAlerts on a small instance: two runs of the same kind are interchangeable. *)
EXTENDS HealthAlerts, TLC

RunSymmetry == Permutations(Runs)
=============================================================================
