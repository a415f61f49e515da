----------------------------- MODULE MCRecovery -----------------------------
(* Instances of the mission with its backups for TLC. *)
EXTENDS Recovery, TLC

ResultSymmetry == Permutations(Results)
=============================================================================
