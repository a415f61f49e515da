# A verification model of AgentOS Core

AgentOS Core runs *missions*: a bounded number of read-only analytic cycles and
a queue of approved writes, driven by one process on one host, with the whole
state of a mission in one snapshot file. This directory models that program in
TLA+, checks it with TLC and proves its main safety properties with TLAPS.
References such as `controller.go:126` are relative to `src/internal/core`
unless they name a directory.

## The system

| component | state it keeps | operations | talks to |
|---|---|---|---|
| kernel rules (`internal/kernel/protocol.go`) | none | `Transition`, `Due`, `Validate`, `DecodeProtocol`, `Simulate` | called by everyone |
| snapshot store (`core.go`, `host_unix.go`) | `state.json`, the exclusive `lock` | `Open`, `Load`, `Save`, `Close` | file system |
| controller (`controller.go`, `Tick` in `core.go`) | mutex, in-memory snapshot, `running`, `epoch`, `cancel`, `fatal` | `Control`, `Step`, `Snapshot`, `Artifact`; `Tick` under `run` | store, executor, API handlers |
| write queue (`actions.go`) | `State.Actions`: status, approved digest, attempts, checks, receipt | `ActionControl` (propose, approve, retry, reject), `RunAction`, `stepActionLocked` | controller, write adapter |
| write adapter (`write_http.go`) | one request at a time | `executeRecord`: GET, then PUT when allowed | destination |
| record service (`examples/write_service.py`) | one record per action ID | `PUT`, `GET` | write adapter |
| model budget, cognitive executor (`cognition.go`) | `ModelAttempts` | `reserveModel`, `Execute` | store, model API |
| artifact store (`integrity.go`) | content-addressed files | `PutArtifact`, `ReadArtifact` | controller, backup |
| executor pinning (`integrity.go`, `attest`) | `State.Execution` manifest | `Inspect`, `PinnedPython.Execute` | interpreter |
| Docker sandbox and broker (`sandbox.go`, `broker.go`) | a named container, a socket with four slots | `DockerPython.Execute`, `startBroker` | Docker daemon |
| WASI executor (`wasi.go`, `wasiruntime`, `cmd/agentos-wasi`) | one worker process | `WASI.Execute`, `Run` | helper binary |
| retrieval and MCP (`retrieval.go`, `mcp.go`) | one client session | `rankSources`, `readMCP` | MCP server |
| recovery, backup (`recovery.go`, `backup.go`) | `State.Recovery`, archives | `Backup`, `RestoreBackup`, `ActivateRecovery`, `Doctor` | store, file system |
| process life (`cmd/agentos`) | signal context, HTTP server | `serve`, `run`, offline commands | all of the above |
| deployment (`deploy/`) | systemd units | restart on failure, hourly backup | process life |

The parts interact in four ways. The API handlers and the worker goroutine share
the controller behind its mutex, which is *released* while an executor or a
request runs. Processes follow one another on the same directory and share only
`state.json`, `artifacts/` and the lock. The runner and the destination exchange
requests that may be lost or arrive late. And a control command reaches a running
execution by cancelling its context and by advancing `epoch`.

What is hard, and what each part must guarantee:

* **Controller.** A command may arrive at any point of an execution, and a second
  one may undo it before the executor returns (`controller.go:126`). A result
  produced under withdrawn authority is never confirmed; every mutation is saved
  before anything depends on it; cycles are confirmed once and in order.
* **Store.** `Save` can fail before or after its rename and the process can die
  anywhere: what the controller acts upon must be what a restart finds.
* **Write queue.** The reservation, the request, the effect and the receipt are
  four separate steps of three parties. No effect without an approval, one
  approval per request, no verdict that the destination later contradicts.
* **Budgets.** They are counted over all the processes of a mission, not in one.
* **Process life.** An active service must not idle, a signalled one must end.

PROJECT.json lists the hazards one by one, at their lines, with the properties
that cover them.

## Modules

| module | models |
|---|---|
| `Snapshot` | the durable snapshot as a record and the pure functions applied to it: transitions, cycles, queue, budgets, the loader's checks |
| `Controller` | one process: the operations under the mutex, the execution outside it, the save and its failures, the write adapter's network steps |
| `Mission` | composition: processes one after the other, signals, crashes, offline commands, destination, time; `Spec` and `FairSpec` |
| `Lifecycle` | abstract: what the operator is promised of the status and of the confirmed cycles |
| `WriteLedger` | abstract: authority, effects and verdicts of the writes |
| `MissionProperties` | type invariant, invariants, action and liveness properties, the two refinement mappings |
| `MissionProofs` | the inductive invariant of the write queue and its theorems |
| `CycleProofs` | the inductive invariant of cycles, budget and licences; the rest of the mission's safety |
| `Recovery` | the mission with its backups: archive, restore into a new directory, activation |
| `RecoveryProofs` | the invariants of `Recovery` and `PinnedRecovery` and their theorems |
| `RestorePublication` | `RestoreBackup`'s publication step by step, with failures, host crashes and another process on the path |
| `RestorePublicationProofs` | its inductive invariant and theorems |
| `PinnedExec` | the mission with its script: manifest, attest, inspection and execution while the file is edited |
| `PinnedRecovery` | composition of `Recovery` and `PinnedExec`: the script in the archive and in the restored directory |
| `ServeShutdown` | handlers, worker, connections and lock at the end of one service and the start of the next |
| `Supervision` | the service unit, its supervisor, the operator and the backup job `backup.sh` |
| `Deployment` | composition of `Supervision` and `ServeShutdown`: the unit's processes, the job's lock |
| `DeploymentProofs` | the invariants of `ServeShutdown` and `Deployment` and their theorems |
| `DockerSandbox` | the executions of a mission in Docker: clean, run, broker, what the daemon does with requests whose client is gone |
| `GuestOutput` | the output of one execution: the WASI worker's limits, the pipe, the core's buffer, what `Execute` returns |
| `Execution` | composition of the two: an execution in any of the three runtimes |
| `ExecutionProofs` | the invariants of sandbox and output and their theorems |
| `EvidenceBinding` | one cognitive execution: export, sources, script, model call, accepted claims; its collection of sources is one step |
| `MCPSession` | one acquisition of remote documents from an arbitrary server |
| `Retrieval` | the ranking of one document: chunks, terms, candidates, selection |
| `CognitiveExecution` | composition of the three: a cognitive execution with all it does for its evidence |
| `EvidenceProofs`, `CognitiveProofs` | the theorems about `EvidenceBinding`; that `CognitiveExecution` implements it, and the acquisition's invariant |
| `MCMission`, `MCRecovery`, `MCPinnedRecovery`, `MCCognitive` | what TLC needs besides: symmetry, the sequence of URIs, the terms of the query |

`Mission` extends `Controller`, which extends `Snapshot`; `Recovery` extends
`MissionProperties` and `PinnedExec` extends `Mission`, each adding its own actions
and variables to all of the mission's. The others open up one step of that composition
which it takes as atomic: `RestorePublication` opens `Restore`, `ServeShutdown` and
`Deployment` open `Exit`, `Execution` and `CognitiveExecution` open what happens between
`StartCycle` and the settlement, where the mission only sees a result, a failure or a
discarded one. No operator is recursive.

### State and code

`st` is `Controller.state` and `disk` the content of `state.json`; both are
records with the fields of `State` the program decides on. `pending` is the
number of the cycle in hand (the code's `agentID:n`), `resting` says that
`next_run` is in the future, `artifacts` the recorded cycle and digest.
The memory is the result of the last artifact and needs no field. An action is
its position in the queue: the code appends and never removes, IDs are random
128-bit values and the digest is a function of immutable fields, so
`approved_digest` becomes the flag `approved`. Events, timestamps, error texts
and the JSON encoding are left out: the program takes no decision on them.

`job` is the goroutine that runs without the mutex: `running`, the epoch it
started under, and for an action the position in `executeRecord` (`get`, `send`
once absence is known, `put` once the request has left, `done`). `fatal`,
`epoch` and `stopping` are the controller's fields and the signal context.
`files` is `artifacts/`. `sent` counts the PUTs issued and `remote` is what the
destination has committed. `calls`, `interrupted`, `saveFailed` and `licensed`
are history, read by properties and by no guard.

One action of the model is what the code does between taking and releasing the
mutex, the trailing save included, or one step of the adapter. `Save` has three
outcomes: the new snapshot; an error with the old one; an error with the new one
(the directory sync failed after the rename). A crash inside `Save` is one of the
error outcomes followed by `Crash`. `StoreArtifact` has the same structure for
`PutArtifact` followed by `Save`. When an operation is abandoned by a crash before
its save, nothing durable happened and `Crash` alone describes it.

`Step` (service) and `Tick` (`run`) differ after the execution: `Step` discards a
result when the epoch moved or the context is done, and pauses the mission when
the executor failed; `Tick` looks at neither and ends the process with the cycle
pending. Hence `MustDiscard`, `CycleFailed` and `TickFails`. The CLI runs
`ActionControl` and `RunAction` on a controller of its own: the first is one
atomic action with no process, the second a process of kind `cli` that ends when
its action has settled.

The destination is modelled from `examples/write_service.py` and from what
`write_http.go` assumes of it: a record bound to an ID is committed once, and
repeating the request changes nothing. `Deliver(i)` may happen at any time after
a PUT for `i` was issued, even when the sender is gone, or never. A reply may be
lost (`RequestFails`) at any point.

### Backup and restore

In `Recovery` the mission's variables describe the instance in use; `Restore` moves
them to the restored directory. `archive` is the last backup (an older one is a
behaviour in which later backups were not taken). The queue of the archive is always a
prefix of the queue it replaces, because the queue only grows, so that a position still
names one action; what was proposed after the backup is unknown to the copy, and its
position is free for an action with a new ID: its history (`sent`, `remote`) starts
again. `Restored` keeps approvals, attempts and checks, as the code does, and turns
everything that may have been executed into `unknown`. The source is taken as stopped
when the copy is created, with its requests still in transit; letting it run until
`recover` would add nothing, because until then the copy only queries (`ReviewFirst`).
An instance that is wrongly declared fenced is outside the model.

An archive is the sequence of its entries. `Added` is the loop of `Store.Backup`, which
adds the artifacts of the snapshot one after the other and remembers which names it has
seen (`backup.go:174-193`); `Bundled` adds the inventory, which does not list itself.
`Verified` counts and compares again, as `unpack` does: the number of entries, a name
twice (`backup.go:254`), an inventory out of step with what was read, an artifact missing
or left over (`backup.go:354-370`). The limits on bytes and the files of the workspace
are left out: both sides add bytes up alike, and a directory lists a name once.

`RestorePublication` follows `backup.go:390-488`: each entry exists or not, and is
synced or not; a host crash loses any part of what is not synced, with everything
below it. `Open` by another process creates the directory and takes the lock, and
`init` may save its own mission. A step of the procedure that fails, or the end of
its process, is `Abort`, which leaves what was linked, as the code does.

### Script and manifest

`PinnedExec` adds the script file, the manifest and the executor's progress: `Inspect`
compares the file with the manifest, `Run` reads it again, compares with what was
inspected and executes. The file may change at any point. `Attest` and its pending
guard are `cmd/agentos/main.go:189-198`. A cycle is confirmed only after `Run`; every
other end of an execution is the mission's own. The three executors differ in what else
the manifest pins, which is compared once, at inspection, and left out.

`PinnedRecovery` adds what an archive says of the script. `Store.Backup` reads the script
and aborts unless it is what the manifest attests (`backup.go:114`); a restore writes the
attested bytes into its own directory; `recover` inspects again. `pinned.executed` is the
history the archive belongs to: a restore goes back to it. `since` does not go back: it is
what the original and its copies have executed after the archive was written, so that a
cycle run by the original after the backup and again by a copy is compared.

### Executions and their output

`GuestOutput` counts output in units. A WASI guest writes into the two buffers of its
worker (`wasiruntime/runtime.go`), which refuse a write beyond their limit and cancel the
guest's context; the guest may ignore the refusal and end normally before the context
stops it. The worker forwards a result only when no limit was exceeded and the guest
ended with status 0. Every other guest writes into the pipe that `os/exec` copies
into the core's buffer. `Execute` accepts what was collected when the child has ended well
and what was collected is a JSON object, which is left open, because a part of the output
may be one.

`DockerSandbox` follows `DockerPython.Execute` command by command. `clean` is an
inspection and a removal, before and after the run; each may be answered, refused, or time
out, and an `rm` whose client was killed may still be performed, as may the create request
of a killed `docker run`. `box` is the container under the mission's name, of the execution
in progress, of one that has returned (`old`), or of somebody else (`foreign`), who may
take the name whenever nobody has it. `excused` and `raced` are history: the runner died, or
its last clean was not answered; the foreign container took the name while a removal by
that name was under way. The broker's handlers are a counter against the four slots.

`Execution` runs the two together. In Docker the child process is the client, and the
guest is attached to it only while both live; elsewhere the child is the guest or its
worker. Docker executions follow one another under one name, each with new buffers.

### Evidence

`EvidenceBinding` has documents with versions: an edit of the workspace or of the stage
makes a new one, and an excerpt and the rest of a document are different parts of it. The
export opens one file after the other while the workspace may be edited; a script on the
host owns the files of the stage. `MCPSession` sends what `readMCP` sends and lets the
server answer anything: any header, any ID, any resource, notifications, or nothing
(`CallFails` stands for the deadlines and for every response that is refused for what it
contains, one message too many in a stream among them: the answer counts, `mcp.go:202`). `Retrieval` has the bytes of one document: narrow letters, separators and the
bytes of a wider letter, with offsets as in `retrieval.go:130-145`; BM25 scores are
floating point and which of the matching chunks are best is left open.

In `CognitiveExecution` the acquisition and the ranking take the place of the one step
`Collect`. The ranking is followed on one of the documents at hand, and what it says of
that document restricts the sources that are chosen (`Decides`); the other documents are
left open. The ranking works on texts already in memory, so that edits during it change
nothing and are left out (`Otherwise`).

### End of the service

`Mission` ends a process in one step. `ServeShutdown` shows what that hides. A signal
makes a goroutine that nobody waits for call `server.Close` (`cmd/agentos/server.go:54`):
it closes the listener, which lets `Serve` return (`ServeReturns`), and the connections
some time later (`CloseConnections`). serve waits for the worker only, the lock is
released (`Release`) whether the connections are closed or not, and the process still
lives for a moment, with its handlers. Snapshots are the sets of changes they contain,
enough to see that one has been overwritten; `confirmed` is what a client has read a
success for. Failures of the save are `Controller`'s subject.

`Supervision` is `backup.sh` command by command, with its trap, and what
`agentos@.service` asks of systemd: restart on failure, the limit of starts, a stop that
cancels a restart. In `Deployment` the unit's process is one of `ServeShutdown`'s, which
it signals on a stop and kills at the latest; the job owns the same lock while it captures.

## Runs

| run | configuration | question |
|---|---|---|
| `cycles` | `MCCycles.cfg` | analytic cycles with a write ahead of them: ledger of cycles, artifacts, model budget, late results, lifecycle, progress under fairness |
| `actions` | `MCActions.cfg` | the write queue: durability, reservations, licences, ledger, stranded actions |
| `restored_cycles` | `MCPinnedRecovery.cfg` | cycles and their script across edits, attestations, backups and restores |
| `restored_actions` | `MCRestoredActions.cfg` | the write queue and the budget when the snapshot is older than the destination |
| `publication` | `MCRestorePublication.cfg` | atomicity and durability of a restore |
| `deployment` | `MCDeployment.cfg` | service, supervisor and backup job: who may write when, does the service return |
| `execution` | `MCExecution.cfg` | an execution in each runtime: complete results, containers, broker, termination |
| `cognitive` | `MCCognitive.cfg` | one cognitive execution: evidence, MCP session, chunks, termination |
| `failed_save`, `stale_reject`, `new_parent`, `sole_writer` | `MCFailedSave.cfg`, `MCStaleReject.cfg`, `MCNewParent.cfg`, `MCSoleWriter.cfg` | four statements of docs and comments that the code does not keep |

**cycles** has two cycles, so that one is followed by another and the last one
completes the mission; one write action, so that the cycles also wait for the queue; a
budget of three calls for two cycles, so that a retried
cycle can exhaust it; and two results. Safety and progress are checked together.

**actions** has two actions, because the order of the queue matters and one
action may be settled while the other is pending, ahead of one cycle, so that the
mission can complete around them; two attempts, so that a retry can be the last,
and three checks, so that checks can run out before or after the attempts (the
code's 32 actions and 10 checks are the same comparisons with larger numbers).

`MaxEpoch` bounds the control commands *one process* accepts: after a crash or an
exit the count starts again, and offline commands are not bounded. In `cycles` it
is 2, enough for the pause and resume that return the mission to active within one
execution; the epoch only matters by being equal to an earlier value. Every other
counter of the mission is bounded by the code's own limits. There is no state
constraint. Deadlock is checked except where everything may come to rest: a deployment
whose events are used up, an execution and a cognitive execution that have returned, and
the two processes of `sole_writer`, which end.

**restored_cycles** has two restores, so that a restored mission can be backed up and
restored again; two cycles with different results, so that the archive may lack an
artifact that the source has stored since; and two versions of the script. Results and
versions are interchangeable (no action compares them except for equality): the only
symmetry used, and in a run without liveness. **restored_actions** has one action with a
single attempt and three checks: the reservation before the backup, the request after
it, the reconciliation of the copy and its retry all fit, ahead of a cycle with one
model call. In both an archive may have five entries, `MaxEntries`: the snapshot, the
script, two different results and the inventory meet the limit exactly, and one result
of both cycles is one entry (the code's limit of 12004 is above the 10000 artifacts, the
1000 files of a workspace and these three, so that it is the counting that is checked).
A restore rewinds budgets (`docs/RECOVERY.md:79`); `SpendingBounded` says that
nothing else does.

**publication** has one entry of the directory for the executable, two for
subdirectories and a file in each.

**deployment** has three processes and three starts in a window, the unit file's limit, so
that a failure, the job's restart and one more start fit and the next is refused; one
request, which may be in any of the processes' handlers; and five events: a job,
and four failures, interrupts or commands of the operator around it.

**execution** has limits of two units for stdout and one for stderr and three writes of up
to three units: a write may fit, fill the buffer, exceed it at once, or exceed it after
others fitted. Two slots show a broker that is full and one that drains. Docker executions
are not bounded: `clean` meets what any earlier one has left, and a foreign container may
come and go at any time.

**cognitive** has a text and another file and one edit, which may hit either at any time;
two remote documents, so that the second read can fail after the first succeeded, and a
server with one acceptable session ID, an unacceptable one and none. Two messages of a
stream are read, so that the answer may be the last that is accepted. Chunks have four
bytes and overlap by two, with characters of one and two bytes, which is the code's ratio
of overlap to the widest character at its smallest; every text of up to five characters
is ranked, long enough for three chunks.

### What the code does not keep

**failed_save** checks `FailedSaveBlocks`, which states
`docs/ARCHITECTURE.md:21`: "Erro de persistência bloqueia novas execuções". TLC
finds the counterexample: an action is executing, a control command arrives and
its save fails (`controller.go:60` sets `fatal`, the API answers 409), the action
settles and `saveAction` *assigns* the outcome of its own save to `fatal`
(`actions.go:118`), erasing the error. The refused command is now durable, and
the process goes on to execute. `NoUnsavedState` still holds, and is proved: what
the process continues with is saved.

**stale_reject**: an approved action is sent after the backup was taken; the copy
restores it as `unknown` with no attempt recorded, reconciles it as absent, `recover`
and `action-retry` make it `approved`, and `action-reject` accepts it (`actions.go:183`),
while the old request may still arrive. `docs/WRITES.md:94` says that an action that has
reserved a write cannot be marked as rejected. In one instance it cannot: that is part
of `LedgerHolds`.

**new_parent**: `RestoreBackup` creates a missing parent of the destination with
`MkdirAll` (`backup.go:396`) and never syncs the directory above it, so that a host
crash after the reported success may lose the mission, which
`docs/RECOVERY.md:51` describes as published "com fsync". File systems that commit the
creation of the ancestors with the child hide it.

**sole_writer**: between the release of the lock and the exit of the process, a
handler of the old service can save over the snapshot a second service has loaded.
`controller.go:13` calls the controller "the sole snapshot writer". A supervisor that
waits for the process to exit does not meet it; a second start by hand may. The client of
the late change may even be told that it succeeded, because the connections are closed
in a goroutine that nobody waits for, and a save of the second service undoes it. Under
the supervisor it stays: `ConfirmedDurable` is checked by `deployment` and proved.

Four more were met while modelling; no run is kept for them, because each is one step
that a reader can follow in the source:

* `docs/ARCHITECTURE.md:43` limits a result to 1 MiB. `limitedBuffer` checks in `Write`, but
  it embeds `bytes.Buffer` (`core.go:162`), and `io.Copy`, which `os/exec` uses, prefers
  the promoted `ReadFrom`: the output of a process is collected without a limit. `Copy` in
  `GuestOutput` does what the code does. The WASI worker's own buffers do bound it.
* `clean` inspects the label and removes by name (`sandbox.go:183-191`). When the name changes
  hands between the two commands, or before an `rm` that timed out is performed, a container
  without the label is removed, which `docs/SANDBOX.md:53` excludes. `ForeignKept` says
  that this is the only case: every removal of a foreign container is one that was decided
  upon before the container took the name (`raced`).
* The tokens of a chunk are taken from bytes that may begin and end inside a word
  (`retrieval.go:139`), so that a fragment of a word can match a term that no document
  contains (`docs/RETRIEVAL.md:32` speaks of terms). No document is lost by it:
  `WordsFound`, part of `RankingKept`, says so.
* A backup job that begins while the supervisor waits to restart a failed service finds it
  inactive (`deploy/backup.sh:10`), stops it and leaves it stopped, against "retomar a
  instância se estava ativa" read as the operator would (`docs/RECOVERY.md:86`).
  `ServiceReturns` is therefore about a service the job found active.

### Fairness

`FairSpec` assumes weak fairness of the worker (`StartCycle`, `StepAction`: it loops
every second, `cmd/agentos/server.go:38-53`); of the end of an execution
(`TimeoutSeconds` with `WaitDelay`, 20 s for the model, 10 s for a request:
`RequestFails` may then be the timeout); of the settlement that follows in the same
goroutine; of a process that can end; and of the clock. Success is not assumed
fair: an executor may fail for ever. Nothing is assumed of the operator, of
signals, of crashes or of delivery. `ServiceAdvances` excludes what the service
rightly waits for: a head of the queue that needs the operator, a persistence
error, a paused mission.

`DeploymentSpec` assumes that every command of the script ends (the job's
`TimeoutStartSec` interrupts it otherwise) and that the supervisor acts on its timers,
the kill after `TimeoutStopSec` among them. `ServeShutdown`'s steps are not fair there:
the unit ends a process that does not end itself. `ExecutionSpec` assumes that deadlines
expire, that what has expired is killed, and that `Execute`'s own steps are taken, each of
which has a timeout; the guest and the daemon owe nothing. `CognitiveSpec` assumes the same
of the client's requests and of the ranking; the server owes nothing. `OrphansReclaimed`
states its own condition: executions keep being begun and the daemon answers.

## Proofs

`MissionProofs` proves, for all values of the constants that satisfy
`SnapshotAssumption` and `ControllerAssumption` (natural numbers, positive limits):

| theorem | statement |
|---|---|
| `TypeCorrect` | `Spec => []TypeOK` |
| `StateIsSaved` | `Spec => []NoUnsavedState` |
| `Invariance` | `Spec => [](TypeOK /\ IInv)` |
| `PutsAreReserved` | `Spec => []PutsReserved` |
| `LedgerImplemented` | `Spec => LedgerHolds`: the mission implements `WriteLedger` |

`PutsReserved` is not inductive: that the next PUT is covered follows from what
the job remembers, not from the disk alone. `IInv` adds, in `Durability`, that
without a process memory is the disk, that without an error they agree, and that
while something runs they agree on the queue even after a failed control save
(an error cannot undo the reservation, because a control command does not touch
the queue); and in `Queue`, that a job works on an action whose in_flight marker is
durable, that a job which may still send has one reservation more than requests
sent, that an action which may be rejected was never sent, that effects come from
requests, and that a success, recorded or about to be, has its effect. Each action
preserves each part by a lemma of its own. The refinement then follows step by
step: decisions map to `Authorise` and `Reject`, `Deliver` to `Effect`,
`SettleAction` with a receipt to `Report`, and everything else, retries and
reservations included, to a stutter.

`CycleProofs` proves the rest of the mission's safety, under the same assumptions:

| theorem | statement |
|---|---|
| `CycleInvariance` | `Spec => [](TypeOK /\ CInv)` |
| `CyclesAreCounted` | `Spec => []CycleLedger` |
| `ArtifactsAreDurable` | `Spec => []ArtifactsDurable` |
| `CallsAreReserved` | `Spec => []CallsWithinBudget` |
| `MissionStaysLoadable` | `Spec => []DiskLoadable` |
| `CompletionIsSettled` | `Spec => []CompletedQueueSettled` |
| `LateResultsAreDiscarded` | `Spec => LateResultsDiscarded` |
| `PutsAreLicensed` | `Spec => EveryPutIsLicensed` |
| `LifecycleImplemented` | `Spec => LifecycleHolds`: the mission implements `Lifecycle` |

None of these is inductive, because a cycle is confirmed by a job that was begun many
steps earlier, with failed saves, control commands and operations on the queue in
between. `CInv` says what connects the two moments. `Together`: while something runs,
memory differs from disk in the status alone, and only as a control command can have
moved it. `CycleInHand`: a job whose epoch is current was not interrupted, memory is the
disk, the mission is active, and the disk announces the next cycle with a settled queue.
A job whose epoch has passed is discarded whatever it returns, which is all of
`LateResultsDiscarded`. `ActionInHand` and `Licence`: an action job works on a durable
in_flight marker and, until it has sent, holds the licence its approval gave it.
`ActiveReady` keeps an unrecovered snapshot from being active. The steps are first
classified by what they do to the snapshot (`DiskSteps`: moves of the status, the start
of a cycle, a confirmation; likewise for the queue), and each part of the invariant is
then proved for the classes.

`RecoveryProofs` proves:

| theorem | statement |
|---|---|
| `RecoveryInvariance` | `RecoverySpec => []RInv` |
| `RestoredStaysLoadable` | `RecoverySpec => []DiskLoadable` |
| `ReviewComesFirst` | `RecoverySpec => []ReviewFirst` |
| `SpendingIsBounded` | `RecoverySpec => []SpendingBounded` |
| `BackupsAreRestorable` | `RecoverySpec => []BackupRestorable` |
| `RestoredPutsAreLicensed` | `RecoverySpec => EveryPutIsLicensed` |
| `PinnedInvariance` | `PinnedRecoverySpec => []PInv` |
| `ExecutionsAreAttested` | `PinnedRecoverySpec => []RunsAttested` |
| `ScriptSurvivesRestore` | `PinnedRecoverySpec => []OneScriptAfterRestore` |
| `ConfirmedCyclesHaveRun` | `PinnedRecoverySpec => []ConfirmedCyclesRan` |
| `PinnedBackupsAreRestorable` | `PinnedRecoverySpec => []BackupRestorable` |

A restore breaks `CallsWithinBudget` and `PutsReserved`: the disk goes back, what was
spent does not. `Carry` states them relative to the restores so far (what was spent
exceeds what the disk has reserved by at most one budget per restore), and
`ArchiveSound` that what is archived could be the disk. The parts of `CInv` that speak of
the present snapshot alone hold again after a restore. With the script, `History`
relates the executions to a snapshot and a manifest, and holds of the disk with the
present manifest and of the archive with the archived one: a restore replaces one by the
other. `SinceBackup` adds what is not rewound: while the cycle in hand of the archive is
not confirmed, it stays in hand and the manifest stays as it was, so that whoever has
executed it since ran the archive's script.

`BackupsAreRestorable` is about the two sides' counting. By minimal counterexample over
the artifacts added so far, the entries are distinct and are those of the snapshot, one
for each result (`AddedNames`); then the inventory is one more, their number is the
cardinality that the reader compares, and the writer's check before the inventory keeps
the reader's limit (`WrittenIsVerified`).

`RestorePublicationProofs` proves, for any entries:

| theorem | statement |
|---|---|
| `PublicationInvariance` | `PublicationSpec => []PublicationInv` |
| `PublicationAtomic` | `PublicationSpec => []LoadableIsComplete` |
| `ReportedRestoreStays` | `ASSUME ~NewParent PROVE PublicationSpec => []ReportedIsDurable` |
| `NeverReplaced` | `PublicationSpec => NothingReplaced` |

Its invariant says what is synced at each step (`Progress`), that the marker implies
everything it refers to, synced (`Marked`), that the steps between `Own` and `Report`
hold the lock (`Locked`), and that nothing exists outside its directory (`Located`).
`~NewParent` is needed: the run `new_parent` shows the report lost otherwise.

`DeploymentProofs` proves, for any processes, commands and numbers of failures:

| theorem | statement |
|---|---|
| `ShutdownInvariance` | `ShutdownSpec => [](ShutdownTypeOK /\ SInv)` |
| `ShutdownIsOrderly` | `ShutdownSpec => []WorkerUnderLock` |
| `OnlyEscapesSpoil` | `ShutdownSpec => [](escaped = {} => SoleWriter /\ ConfirmedDurable)` |
| `DeploymentInvariance` | `DeploymentInit /\ [][DeploymentNext]_deployment => []DInv` |
| `WorkersSettleUnderLock` | `DeploymentSpec => []WorkerUnderLock` |
| `ConfirmedStays` | `DeploymentSpec => []ConfirmedDurable` |
| `BackupIsUndisturbed` | `DeploymentSpec => []CaptureUndisturbed` |
| `CaptureIsQuiescent` | `DeploymentSpec => CaptureQuiescent` |

It assumes `DeploymentAssumption`, that the job is not one of the service's processes.
Nothing is assumed of when connections close. `Locked` says that one process at most has
the lock, that who serves has it, and that it alone has a worker at work; `Faithful`, that
as long as no handler has saved without the lock, its owner knows all that is on disk, and
what has been saved, answered or not, is there. Both are needed together: the owner is
faithful because nobody else saves. Under the supervisor four facts come in: one process
at a time (`OneAlive`); that whoever lives knows all there is, so that a save without the
lock loses nothing either (`Current`); the job's lock is exactly its capture (`JobLocks`);
and a unit stopped for the job stays down unless the operator starts it (`StaysDown`), so
that no process is alive whose handler could save during the capture.

`ExecutionProofs` proves, for any limits, sizes and number of executions:

| theorem | statement |
|---|---|
| `ExecutionInvariance` | `ExecutionInit /\ [][ExecutionNext]_executionVars => [](SandboxInv /\ OutputInv)` |
| `ResultsAreComplete` | `ExecutionSpec => []ResultIsComplete` |
| `NothingIsLeft` | `ExecutionSpec => []LeavesNothing` |
| `ForeignIsKept` | `ExecutionSpec => ForeignKept` |

Before `run` there is no container of the present execution, not even one the daemon is
still creating (`CurrentInv`); one that was left to the daemon is excused by a failure of
the runner or of the last clean (`LeftInv`); what is about to be removed by name has been
seen with the label, or has taken the name since and is `raced` (`ForeignInv`). Of the
output: nothing is lost between a process and the core (`PipeInv`), and the WASI worker
holds back everything until it has accepted all of it (`WorkerInv`).

`EvidenceProofs` and `CognitiveProofs` prove, for any files, documents, limits, texts and
servers:

| theorem | statement |
|---|---|
| `SameEvidenceHolds` | `EvidenceSpec => []SameEvidence` |
| `EvidenceFirstHolds` | `EvidenceSpec => []EvidenceFirst`: without a source neither script nor model is reached |
| `CollectionRefined` | `CognitiveSpec => EvidenceSpec`: acquisition and ranking implement the one step `Collect` |
| `SameEvidenceThroughout` | `CognitiveSpec => []SameEvidence` |
| `AcquisitionInvariance` | `CognitiveSpec => []AcquisitionInv` |
| `AcquisitionIsWhole` | `CognitiveSpec => []AcquisitionKept`: one bounded attempt in one session, all documents or none |
| `RankingInvariance` | `CognitiveSpec => []RankingInv` |
| `NoWordIsLost` | `CognitiveSpec => []RankingKept`, for any document, chunk size, overlap and width of characters with `ChunkAssumption` |
| `CutsAdvance` | `CognitiveSpec => [][Cut => start < start' /\ start' <= Len(text)]_cognitiveVars` |

The invariant of the first is that the sources are of the stage that the script was given,
and of the stage itself before it was. The refinement needs of the session only
`DocsAuthorised`: what it has read are authorised resources. That the attempt is whole needs
the history index by index. `SessionInv` says how many requests there are in each phase
and for how many documents (`InPlace`), which method each has (`InOrder`), that all but
the first carry the session and the version (`InSession`; only the response to the first
can set the session), that the k-th document answered the k-th reading (`Asked`,
`Answered`), and that the last request of a finished attempt closes the session
(`Closed`). The prefixes and sets of the property follow from that at the end.

Of the ranking, `ChunkEndShape` says that a chunk's end exists, is a boundary, and unless
it is the last lies more than an overlap after its start (`Size >= 2 * Overlap` and
`Overlap >= Width` are what the code's 2048, 256 and 4 satisfy); `NextStartShape`, that the
next chunk begins less than a character's width after the beginning of the overlap. So a
word of at most `Overlap - Width + 2` bytes that ends after a chunk begins in the next
(`Covered`). From the same lemmas, `CutsAdvance` proves the safety half of `CollectionEnds`. A
document is a concatenation (`FlattenSeq`), so its regularity is an induction over its
characters. The library's induction theorems take an operator, which the provers cannot
instantiate; the proofs use minimal counterexamples instead (`MinNat`, from the
well-foundedness of the naturals), also to show that the recursive definition inside
`FlattenSeq` defines a function.

Only model-checked is liveness, out of the prover's reach: `ServiceAdvances`,
`ExecutionsEnd`, `SignalEnds`, `ServiceReturns`, `OrphansReclaimed`, `ExecutionEnds` and
`CollectionEnds`.

Every other invariant and action property of a passing run is proved.

## Not modelled

The scores of retrieval are floating-point arithmetic. The API's authentication and
decoding, the kernel's validation of a protocol, the front ends and the container flags
keep no state. The content of an execution (model prompts, scripts, WASI guests) is one
nondeterministic result or failure. Data written to the file system after it was synced is
assumed to stay, so that the detection of corrupted artifacts (`ReadArtifact`,
`backup-verify`) has nothing to detect. Size limits of archives, requests and responses
refuse, as any other error does, and are part of the actions that fail. Two hazards have no
property: an action in `retry_required` with its attempts and checks spent stays where it
is (`actions.go:178`; `ServiceAdvances` excludes it as waiting for the operator), and a
client that repeats `resume` cancels the execution each time (`controller.go:56`), which no
fairness of the code prevents.

What is left of the plan:

1. Proofs of what decreases behind the other liveness properties, as `CutsAdvance` does for
   `CollectionEnds`.
2. The publication of the archive itself, `ReadArtifact` with corrupted files.
