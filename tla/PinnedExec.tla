----------------------------- MODULE PinnedExec -----------------------------
(***************************************************************************)
(* Which script a cycle executes.  The snapshot holds a manifest; every    *)
(* execution inspects the script on disk, compares, reads it again and     *)
(* runs the bytes it has verified, while anybody may edit the file.  The   *)
(* three executors (trusted-host, Docker, WASI) take the same steps.       *)
(*                                                                         *)
(* A manifest is reduced to the script's digest.  The interpreter, image   *)
(* or helper it names is compared in the same step as the script, but only *)
(* the script is read again.                                               *)
(***************************************************************************)
EXTENDS Mission

CONSTANTS
  Scripts,      \* contents the script file may have
  Unattested    \* no manifest: a state older than manifests

ASSUME ScriptsAssumption == Unattested \notin Scripts

VARIABLES
  script,      \* the file at protocol.script
  manifest,    \* state.execution; only attest changes it, while no process runs
  execution,   \* how far the executor of the cycle in hand has come
  executed     \* history: the scripts run for each cycle

pinVars == <<script, manifest, execution, executed>>

NotStarted == [phase |-> "none", source |-> Unattested]

\* init inspects the script it is given.
PinnedInit ==
  /\ Init
  /\ script \in Scripts /\ manifest \in {script, Unattested}
  /\ execution = NotStarted /\ executed = {}

-----------------------------------------------------------------------------
\* The script is a file of the host: it may change at any time.
Edit(content) ==
  /\ content # script /\ script' = content
  /\ UNCHANGED <<vars, manifest, execution, executed>>

\* attest, under the lock; its save may fail on either side of the rename.
Attest ==
  /\ proc = "none" /\ disk.pending = 0
  /\ manifest' \in {manifest, script}
  /\ UNCHANGED <<vars, script, execution, executed>>

StartAttested(kind) ==
  /\ manifest # Unattested
  /\ Start(kind) /\ UNCHANGED pinVars

-----------------------------------------------------------------------------
(* Execute, outside the mutex.  It may fail at every step: the cycle then  *)
(* ends by the Mission's actions without a result.                         *)

Inspect ==
  /\ job.kind = "cycle" /\ execution.phase = "none" /\ script = manifest
  /\ execution' = [phase |-> "inspected", source |-> script]
  /\ UNCHANGED <<vars, script, manifest, executed>>

\* Mutant: the bytes read the second time are not compared.
RunUncompared ==
  /\ job.kind = "cycle" /\ execution.phase = "inspected"
  /\ execution' = [phase |-> "run", source |-> script]
  /\ executed' = executed \cup {[cycle |-> st.pending, source |-> script]}
  /\ UNCHANGED <<vars, script, manifest>>

\* The bytes that are read and compared are those that run.
Run ==
  /\ job.kind = "cycle" /\ execution.phase = "inspected" /\ script = execution.source
  /\ execution' = [phase |-> "run", source |-> script]
  /\ executed' = executed \cup {[cycle |-> st.pending, source |-> script]}
  /\ UNCHANGED <<vars, script, manifest>>

\* Only what ran has a result.
Confirm ==
  /\ execution.phase = "run"
  /\ \E r \in Results : CycleCommitted(r)
  /\ execution' = NotStarted
  /\ UNCHANGED <<script, manifest, executed>>

\* Everything else; an execution ends with its job.
Otherwise ==
  /\ \/ StartCycle \/ CycleDiscarded \/ CycleFailed \/ TickFails
     \/ Actions \/ Operator \/ Signal \/ Exit \/ Crash \/ World
  /\ execution' = IF job' = job THEN execution ELSE NotStarted
  /\ UNCHANGED <<script, manifest, executed>>

PinnedNext ==
  \/ \E content \in Scripts : Edit(content)
  \/ Attest \/ Inspect \/ Run \/ Confirm \/ Otherwise
  \/ \E kind \in {"serve", "run"} : StartAttested(kind)

-----------------------------------------------------------------------------
\* What runs is what the manifest says, whenever the file changes (integrity.go:94-104).
RunsAttested == execution.phase = "run" => execution.source = manifest

\* A cycle that is executed again, after a crash, an error or a discarded result,
\* runs the script it ran before: "pending cycle: restore the original
\* script/environment or cancel this mission" (cmd/agentos/main.go:191).
OneScriptPerCycle ==
  \A x, y \in executed : x.cycle = y.cycle => x.source = y.source

\* Each confirmed cycle has run, and the one in hand is the only other.
ConfirmedCyclesRan ==
  /\ 1..disk.completed \subseteq {x.cycle : x \in executed}
  /\ {x.cycle : x \in executed} \subseteq 1..disk.completed + 1
=============================================================================
