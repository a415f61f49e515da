------------------------- MODULE RestorePublication -------------------------
(***************************************************************************)
(* How RestoreBackup publishes a restored mission: a private stage, then a *)
(* new directory whose entries are linked one by one, state.json last.     *)
(* The procedure may fail or be killed at every step, the host may crash   *)
(* and lose what was not synced, and another process (init, or any command *)
(* that opens the state) may use the same path meanwhile.                  *)
(*                                                                         *)
(* Recovery!Restore is this procedure seen from its commit marker.         *)
(***************************************************************************)
EXTENDS Naturals

CONSTANTS
  Top,     \* entries of the directory: the executable, workspace/, artifacts/
  Inner,   \* the files in workspace/ and artifacts/
  NewParent  \* the parent of the destination does not exist yet

Entries == Top \cup Inner

Marker == {"state.json"}

ASSUME EntriesAssumption ==
  /\ Top \cap Inner = {} /\ Entries \cap {"parent", "directory", "state.json"} = {}
  /\ NewParent \in BOOLEAN

VARIABLES
  step,      \* how far RestoreBackup has come
  present,   \* what exists: the parent, the directory, its entries, state.json
  unsynced,  \* the part of it that a crash of the host may lose
  origin,    \* who wrote state.json: none, restore or init
  lock,      \* who holds the directory's lock: none, restore or other
  reported   \* RestoreBackup has reported success

publication == <<step, present, unsynced, origin, lock, reported>>

Steps == {"idle", "staged", "reserved", "linking", "synced_inner", "ready", "published"}

PublicationInit ==
  /\ step = "idle" /\ present = (IF NewParent THEN {} ELSE {"parent"}) /\ unsynced = {}
  /\ origin = "none" /\ lock = "none" /\ reported = FALSE

\* What is created is visible at once, and durable after its directory is synced.
Created(E) == present' = present \cup E /\ unsynced' = unsynced \cup (E \ present)

Synced(E) == unsynced' = unsynced \ E /\ UNCHANGED present

\* What a crash that spares E leaves: nothing outlives the directories above it.
Above(e) == CASE e = "parent"    -> {}
              [] e = "directory" -> {"parent"}
              [] OTHER           -> {"parent", "directory"}

Reachable(E) == {e \in E : Above(e) \subseteq E}

-----------------------------------------------------------------------------
(* RestoreBackup.                                                          *)

\* An existing destination is refused; the parent is created when there is none (and
\* never synced into its own parent); the stage is unpacked, rewritten and synced in a
\* private directory.
Stage ==
  /\ step = "idle" /\ "directory" \notin present
  /\ Created({"parent"}) /\ step' = "staged"
  /\ UNCHANGED <<origin, lock, reported>>

\* Mkdir refuses a directory that has appeared since.
Reserve ==
  /\ step = "staged" /\ "directory" \notin present
  /\ Created({"directory"}) /\ step' = "reserved"
  /\ UNCHANGED <<origin, lock, reported>>

Own ==
  /\ step = "reserved" /\ lock = "none"
  /\ lock' = "restore" /\ step' = "linking"
  /\ UNCHANGED <<present, unsynced, origin, reported>>

\* WalkDir leaves state.json out; the order of the other entries plays no part.
LinkEntry(e) ==
  /\ step = "linking" /\ e \notin present
  /\ Created({e})
  /\ UNCHANGED <<step, origin, lock, reported>>

SyncInner ==
  /\ step = "linking" /\ Entries \subseteq present
  /\ Synced(Inner) /\ step' = "synced_inner"
  /\ UNCHANGED <<origin, lock, reported>>

\* Mutant: the directory is only synced after the marker.
SyncTopLater ==
  /\ step = "synced_inner" /\ step' = "ready"
  /\ UNCHANGED <<present, unsynced, origin, lock, reported>>

SyncTop ==
  /\ step = "synced_inner"
  /\ Synced(Top) /\ step' = "ready"
  /\ UNCHANGED <<origin, lock, reported>>

\* Mutant: the marker is renamed over whatever is there.
PublishOver ==
  /\ step = "ready"
  /\ Created(Marker) /\ origin' = "restore" /\ step' = "published"
  /\ UNCHANGED <<lock, reported>>

\* Link refuses an existing state.json.
Publish ==
  /\ step = "ready" /\ "state.json" \notin present
  /\ Created(Marker) /\ origin' = "restore" /\ step' = "published"
  /\ UNCHANGED <<lock, reported>>

\* Mutant: the parent directory is not synced.
ReportBeforeParent ==
  /\ step = "published"
  /\ Synced(Marker) /\ step' = "idle"
  /\ lock' = "none" /\ reported' = TRUE
  /\ UNCHANGED origin

\* The directory and its parent are synced; the lock is released on return.
Report ==
  /\ step = "published"
  /\ Synced(Marker \cup {"directory"}) /\ step' = "idle"
  /\ lock' = "none" /\ reported' = TRUE
  /\ UNCHANGED origin

\* An error on the way, or the end of the process: what was linked stays.
Abort ==
  /\ step # "idle" /\ step' = "idle"
  /\ lock' = IF lock = "restore" THEN "none" ELSE lock
  /\ UNCHANGED <<present, unsynced, origin, reported>>

-----------------------------------------------------------------------------
(* Another process on the same path.                                       *)

\* Open creates what is missing of the path, and takes the lock.
OtherOpens ==
  /\ lock = "none" /\ lock' = "other"
  /\ Created({"parent", "directory"})
  /\ UNCHANGED <<step, origin, reported>>

\* init saves a new mission where there is none; Save syncs the directory.
OtherInits ==
  /\ lock = "other" /\ "state.json" \notin present
  /\ present' = present \cup Marker
  /\ unsynced' = unsynced \ Top
  /\ origin' = "init"
  /\ UNCHANGED <<step, lock, reported>>

OtherCloses ==
  /\ lock = "other" /\ lock' = "none"
  /\ UNCHANGED <<step, present, unsynced, origin, reported>>

\* The host crashes; a directory that is lost takes its content with it.
HostCrash ==
  /\ \E lost \in SUBSET unsynced : present' = Reachable(present \ lost)
  /\ origin' = IF "state.json" \in present' THEN origin ELSE "none"
  /\ unsynced' = {} /\ step' = "idle" /\ lock' = "none"
  /\ UNCHANGED reported

-----------------------------------------------------------------------------
Restoring == \/ Stage \/ Reserve \/ Own \/ (\E e \in Entries : LinkEntry(e))
             \/ SyncInner \/ SyncTop \/ Publish \/ Report \/ Abort

PublicationNext == Restoring \/ OtherOpens \/ OtherInits \/ OtherCloses \/ HostCrash

PublicationSpec == PublicationInit /\ [][PublicationNext]_publication

-----------------------------------------------------------------------------
PublicationType ==
  /\ step \in Steps /\ reported \in BOOLEAN
  /\ present \subseteq Entries \cup {"parent", "directory", "state.json"}
  /\ unsynced \subseteq present
  /\ origin \in {"none", "restore", "init"} /\ lock \in {"none", "restore", "other"}

\* "Uma falha anterior pode deixar diretorio incompleto, sem estado carregavel"
\* (RECOVERY.md:51): whoever finds the restored state.json, also after a crash of the
\* host, finds everything it refers to.
LoadableIsComplete == origin = "restore" => Entries \subseteq present

\* "... publica state.json por ultimo como marcador de conclusao, com fsync"
\* (RECOVERY.md:51): a restore that has reported success survives any crash of the
\* host.  It does when the parent of the destination existed.
ReportedIsDurable ==
  reported => origin = "restore" /\ Entries \cup Marker \subseteq present

\* No existing mission is replaced, even one created between the check and the
\* publication.
NothingReplaced == [][origin = "init" => origin' # "restore"]_publication
=============================================================================
