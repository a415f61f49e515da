-------------------------- MODULE MCPinnedRecovery --------------------------
(* Instances of the pinned mission with its backups for TLC. *)
EXTENDS PinnedRecovery, TLC

ScriptSymmetry == Permutations(Results) \cup Permutations(Scripts)
=============================================================================
