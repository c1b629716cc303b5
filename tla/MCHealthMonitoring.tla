-------------------------- MODULE MCHealthMonitoring --------------------------
(* HealthMonitoring on a small instance: the ids of checks are interchangeable. *)
EXTENDS HealthMonitoring, TLC

CheckSymmetry == Permutations(CheckIds)
=============================================================================
