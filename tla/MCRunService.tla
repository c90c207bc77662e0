---------------------------- MODULE MCRunService ----------------------------
(* A small instance of the run service for TLC. *)
EXTENDS RunServiceProperties, TLC

RunSymmetry == Permutations(RunIds)
=============================================================================
