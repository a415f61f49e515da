--------------------------- MODULE PinnedRecovery ---------------------------
(***************************************************************************)
(* Backups and restores of a mission together with the script its manifest *)
(* pins.  An archive holds the snapshot, the manifest in it and the bytes  *)
(* the manifest attests; the restored directory has a script of its own,   *)
(* which may be edited like the original.                                  *)
(*                                                                         *)
(* executed is the history of the mission the snapshot describes: a        *)
(* restore goes back to the history its archive was written in.  since     *)
(* does not go back: it is what the original and its copies have executed  *)
(* after the archive was written.                                          *)
(***************************************************************************)
EXTENDS Recovery, PinnedExec

VARIABLES
  pinned,   \* what the archive says of the script, and the history it belongs to
  since     \* history: what anyone has executed since the archive was written

pinnedRecoveryVars == <<recoveryVars, pinVars, pinned, since>>

NothingPinned == [manifest |-> Unattested, executed |-> {}]

PinnedRecoveryInit == RecoveryInit /\ PinnedInit /\ pinned = NothingPinned /\ since = {}

\* Mutant: the archive takes the script as it is on disk.
BackupUnchecked ==
  /\ Backup /\ manifest # Unattested
  /\ pinned' = [manifest |-> script, executed |-> executed] /\ since' = {}
  /\ UNCHANGED pinVars

\* Store.Backup reads the script, and aborts unless it is what the manifest attests.
BackupScript ==
  /\ Backup /\ manifest # Unattested /\ script = manifest
  /\ pinned' = [manifest |-> manifest, executed |-> executed] /\ since' = {}
  /\ UNCHANGED pinVars

\* RestoreBackup writes the attested bytes and points the protocol at them.
RestoreScript ==
  /\ Restore
  /\ script' = pinned.manifest /\ manifest' = pinned.manifest /\ executed' = pinned.executed
  /\ execution' = NotStarted
  /\ UNCHANGED <<pinned, since>>

\* Doctor inspects the script before recover sets the flag.
RecoverScript ==
  /\ Recover
  /\ disk' # disk => manifest # Unattested /\ script = manifest
  /\ UNCHANGED <<pinVars, pinned, since>>

PinnedMission ==
  /\ PinnedNext
  /\ since' = IF archive.taken THEN since \cup (executed' \ executed) ELSE since
  /\ UNCHANGED <<backupVars, pinned>>

PinnedRecoveryNext == PinnedMission \/ BackupScript \/ RestoreScript \/ RecoverScript

PinnedRecoverySpec == PinnedRecoveryInit /\ [][PinnedRecoveryNext]_pinnedRecoveryVars

-----------------------------------------------------------------------------
\* The cycle in hand when the archive was written is executed with one script by everyone:
\* by the original before the backup, by the original after it, and by the copies, whatever
\* became of the script and of the manifest meanwhile: "retomada após remoção de
\* script/workspace" (docs/RECOVERY.md:123) keeps the cycle's ID.
OneScriptAfterRestore ==
  /\ OneScriptPerCycle
  /\ archive.taken /\ archive.snapshot.pending # 0 =>
       \A x \in pinned.executed \cup since :
         x.cycle = archive.snapshot.pending => x.source = pinned.manifest
=============================================================================
