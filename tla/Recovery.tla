------------------------------ MODULE Recovery ------------------------------
(***************************************************************************)
(* A mission that is backed up, restored into a new directory and          *)
(* activated there.  The variables of Mission describe the instance in     *)
(* use: Restore moves them to the restored directory.                      *)
(*                                                                         *)
(* The archive is older than what it replaces: since it was written, the   *)
(* mission may have sent requests, spent budgets and confirmed cycles.     *)
(* The original instance is taken to be stopped when its copy is created   *)
(* (recover asks the operator to confirm it), but its requests may still   *)
(* be in transit.  Letting it run until recover would add nothing: until   *)
(* then the copy only queries, and what the original does meanwhile could  *)
(* as well have happened before the restore, with a later delivery.        *)
(***************************************************************************)
EXTENDS MissionProperties, FiniteSets, Functions

CONSTANTS
  MaxRestores,   \* bound on the number of restores
  MaxEntries     \* 12004 in the code

ASSUME RecoveryAssumption == MaxRestores \in Nat /\ MaxEntries \in Nat

VARIABLES
  archive,    \* the backup at hand: the last one that was written
  restores    \* how many times the mission has been restored

backupVars == <<archive, restores>>
recoveryVars == <<vars, backupVars>>

Referenced(s) == {s.artifacts[n].digest : n \in DOMAIN s.artifacts}

\* The names of an archive's entries.  The workspace's files are left out: a directory
\* lists each name once.  So are the limits on bytes, which both sides add up alike.
Artifact(digest) == <<"artifacts", digest>>
Script == <<"script">>
State == <<"state.json">>
Manifest == <<"manifest.json">>

\* Mutant: the loop does not ask what it has added already.
AddedEachTime(s) ==
  LET added[n \in 0..Len(s.artifacts)] ==
        IF n = 0 THEN <<State, Script>>
        ELSE Append(added[n - 1], Artifact(s.artifacts[n].digest))
  IN  added[Len(s.artifacts)]

\* The entries in the order of add, one artifact of the snapshot after the other: a
\* result that two cycles have returned is one file.
Added(s) ==
  LET added[n \in 0..Len(s.artifacts)] ==
        IF n = 0 THEN <<State, Script>>
        ELSE IF Artifact(s.artifacts[n].digest) \in Range(added[n - 1]) THEN added[n - 1]
        ELSE Append(added[n - 1], Artifact(s.artifacts[n].digest))
  IN  added[Len(s.artifacts)]

\* The inventory lists what has been added before it, and not itself.
Bundled(s) ==
  [taken |-> TRUE, snapshot |-> s, listed |-> Added(s), files |-> Append(Added(s), Manifest)]

NoArchive == [taken |-> FALSE, snapshot |-> Fresh, listed |-> <<>>, files |-> <<>>]

\* unpack: entry by entry; then the inventory, the snapshot, the script, and that no
\* artifact is missing or left over.
Verified(a) ==
  LET actual == Range(a.files) \ {Manifest} IN
  /\ Len(a.files) <= MaxEntries /\ IsInjective(a.files) /\ Manifest \in Range(a.files)
  /\ Len(a.listed) = Cardinality(actual)
  /\ IsInjective(a.listed) /\ Range(a.listed) \subseteq actual
  /\ ValidActions(a.snapshot) /\ {State, Script} \subseteq actual
  /\ \A digest \in Referenced(a.snapshot) : Artifact(digest) \in actual
  /\ \A digest \in Results : Artifact(digest) \in actual => digest \in Referenced(a.snapshot)

\* Actions that may have been executed after the backup was taken.
Unconfirmed == {"approved", "in_flight", "unknown", "retry_required"}

\* Mutant: every action that has not succeeded comes back as uncertain.
RestoredUnknown(s) ==
  [s EXCEPT !.status = IF @ = "active" THEN "paused" ELSE @, !.recovery = "review",
            !.actions = [i \in DOMAIN @ |->
               IF @[i].status # "succeeded" THEN [@[i] EXCEPT !.status = "unknown"] ELSE @[i]]]

\* Mutant: approved actions stay approved.
RestoredApproved(s) ==
  [s EXCEPT !.status = IF @ = "active" THEN "paused" ELSE @, !.recovery = "review",
            !.actions = [i \in DOMAIN @ |->
               IF @[i].status \in Unconfirmed \ {"approved"}
               THEN [@[i] EXCEPT !.status = "unknown"] ELSE @[i]]]

Restored(s) ==
  [s EXCEPT !.status = IF @ = "active" THEN "paused" ELSE @, !.recovery = "review",
            !.actions = [i \in DOMAIN @ |->
               IF @[i].status \in Unconfirmed
               THEN [@[i] EXCEPT !.status = "unknown"] ELSE @[i]]]

RecoveryInit == Init /\ archive = NoArchive /\ restores = 0

-----------------------------------------------------------------------------
\* Store.Backup, under the lock: the snapshot and exactly the artifacts it refers
\* to, which are verified first.  add refuses one entry too many, the inventory
\* included.  The archive is published whole or not at all.
Backup ==
  /\ proc = "none" /\ ValidActions(disk) /\ Referenced(disk) \subseteq files
  /\ Len(Added(disk)) < MaxEntries
  /\ archive' = Bundled(disk)
  /\ UNCHANGED <<vars, restores>>

\* RestoreBackup, once it has published state.json (RestorePublication has the
\* steps).  No licence survives.  Actions proposed after the backup are unknown
\* to the copy, and their positions are free for new ones.
Restore ==
  /\ proc = "none" /\ archive.taken /\ Verified(archive) /\ restores < MaxRestores
  /\ disk' = Restored(archive.snapshot) /\ st' = disk'
  /\ files' = {digest \in Results : Artifact(digest) \in Range(archive.files)}
  /\ sent' = [i \in Indexes |-> IF i \in DOMAIN disk'.actions THEN sent[i] ELSE 0]
  /\ remote' = remote \cap DOMAIN disk'.actions
  /\ licensed' = {}
  /\ restores' = restores + 1
  /\ UNCHANGED <<proc, fatal, epoch, stopping, job, calls, interrupted, saveFailed, archive>>

\* recover --source-fenced: Doctor, then the flag.  The manifest check of Doctor
\* may refuse; then nothing happens.
Recover ==
  /\ proc = "none" /\ disk.recovery # "none"
  /\ ValidActions(disk) /\ Referenced(disk) \subseteq files
  /\ disk' \in {disk, [disk EXCEPT !.recovery = "ready"]} /\ st' = disk'
  /\ UNCHANGED <<proc, files, fatal, epoch, stopping, job, calls, interrupted,
                 saveFailed, network, backupVars>>

MissionStep == Next /\ UNCHANGED backupVars

RecoveryNext == MissionStep \/ Backup \/ Restore \/ Recover

RecoverySpec == RecoveryInit /\ [][RecoveryNext]_recoveryVars

-----------------------------------------------------------------------------
\* What Backup writes, RestoreBackup accepts, whatever results repeat and however close
\* the archive comes to its limit: the reader, which refuses a second entry of the same
\* name, counts and compares by itself (backup.go:139-201 against 246-362).
BackupRestorable == archive.taken => Verified(archive)

\* Until the operator has confirmed that the source is fenced, a restored mission
\* is not active and executes nothing but queries, whichever process runs it.
ReviewFirst ==
  disk.recovery = "review" =>
    disk.status # "active" /\ job.kind # "cycle" /\ ~(job.kind = "action" /\ job.write)

\* A restore rewinds the budgets (RECOVERY.md:79), and nothing else does: over the
\* mission's life they are spent at most once per instance.
SpendingBounded ==
  /\ calls <= MaxCalls * (restores + 1)
  /\ \A i \in Indexes : sent[i] <= MaxAttempts * (restores + 1)

\* "Uma acao que ja reservou escrita nao pode ser marcada como rejeitada"
\* (WRITES.md:94): an action the runner has executed or queried, and that is
\* rejected, was never sent.
ReconciledRejectionsStand ==
  \A i \in DOMAIN disk.actions :
    disk.actions[i].status = "rejected" /\ disk.actions[i].checks > 0 => sent[i] = 0
=============================================================================
