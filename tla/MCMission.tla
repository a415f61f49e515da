------------------------------ MODULE MCMission ------------------------------
(* Instances of the mission for TLC. *)
EXTENDS MissionProperties, TLC

ResultSymmetry == Permutations(Results)
=============================================================================
