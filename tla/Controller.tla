----------------------------- MODULE Controller -----------------------------
(***************************************************************************)
(* One AgentOS process: the controller's mutex-protected operations, the   *)
(* worker that executes cycles and write actions outside the mutex, and    *)
(* the store it saves the snapshot to.  Each action below is what the code *)
(* does between taking and releasing the mutex, or one network step of the *)
(* write adapter, which holds no lock.                                     *)
(*                                                                         *)
(* Mission composes this module with the processes' life, the destination  *)
(* of the writes, time and the operator's offline commands.                *)
(***************************************************************************)
EXTENDS Snapshot

CONSTANT MaxEpoch   \* bound on the control commands one process accepts

ASSUME ControllerAssumption == MaxEpoch \in Nat

VARIABLES
  proc,      \* who holds the state lock: none, serve, run, or cli (one action)
  st,        \* the controller's snapshot; equal to disk when there is no process
  disk,      \* state.json
  files,     \* artifacts/, content addressed
  fatal,     \* controller.fatal is set
  epoch,     \* controller.epoch
  stopping,  \* a signal has cancelled the process's context
  job,       \* the execution under way; its kind is none when running is false
  sent,      \* sent[i]: PUT requests issued for action i
  remote,    \* the actions whose record the destination has committed
  calls,     \* model calls made over the mission's life
  (* History of the process, for the properties. *)
  interrupted,   \* a control command was accepted since the cycle started
  saveFailed,    \* a save has failed in this process
  licensed       \* actions the operator approved or retried since their last PUT

memory == <<st, fatal, epoch, job>>
network == <<sent, remote, licensed>>
vars == <<proc, st, disk, files, fatal, epoch, stopping, job, sent, remote,
          calls, interrupted, saveFailed, licensed>>

Indexes == 1..MaxActions

Idle == [kind |-> "none", epoch |-> 0, index |-> 0, write |-> FALSE,
         phase |-> "done", answer |-> "none"]

CycleJob == [Idle EXCEPT !.kind = "cycle", !.epoch = epoch]

ActionJob(i, write) ==
  [kind |-> "action", epoch |-> epoch, index |-> i, write |-> write,
   phase |-> "get", answer |-> "none"]

Jobs == [kind : {"none", "cycle", "action"}, epoch : Nat, index : Nat,
         write : BOOLEAN, phase : {"get", "send", "put", "done"},
         answer : {"none", "receipt", "absent", "error"}]

Running == job.kind # "none"

\* The job's context: Control cancels it, and so does a signal.
Cancelled == job.epoch # epoch \/ stopping

-----------------------------------------------------------------------------
(* Store.Save: a temporary file, synced and renamed over state.json.  An   *)
(* error before the rename leaves the old snapshot, one after it the new.  *)

Saved(new) == disk' = new /\ fatal' = FALSE /\ UNCHANGED saveFailed

\* Mutant: the error of a save is dropped.
SaveErrorDropped(new) == disk' \in {disk, new} /\ fatal' = FALSE /\ saveFailed' = TRUE

SaveFails(new) == disk' \in {disk, new} /\ fatal' = TRUE /\ saveFailed' = TRUE

Persist(new) == st' = new /\ (Saved(new) \/ SaveFails(new))

\* Mutant: the execution starts whether its snapshot was saved or not.
LaunchedUnsaved(new, next) == st' = new /\ (Saved(new) \/ SaveFails(new)) /\ job' = next

\* An execution starts only when the snapshot that announces it has been saved.
Launched(new, next) ==
  /\ st' = new
  /\ \/ Saved(new) /\ job' = next
     \/ SaveFails(new) /\ job' = Idle

-----------------------------------------------------------------------------
(* Controller.Control: pause, resume or cancel through the API.            *)

Control(action) ==
  /\ proc = "serve" /\ ~fatal /\ Accepts(st, action)
  /\ epoch < MaxEpoch /\ epoch' = epoch + 1
  /\ Persist(Controlled(st, action))
  /\ interrupted' = TRUE
  /\ UNCHANGED <<proc, files, stopping, job, calls, network>>

-----------------------------------------------------------------------------
(* Controller.Step and Tick: an analytic cycle.                            *)

MayStep == /\ proc \in {"serve", "run"} /\ ~stopping /\ ~fatal /\ ~Running
           /\ st.status = "active" /\ RecoveryReady(st)

\* The executor runs without the mutex.  An execution makes at most one model call,
\* counted here when it starts.
StartCycle ==
  /\ MayStep /\ Open(st) = {} /\ Due(st)
  /\ Launched(CycleStart(st), IF CycleStart(st).status = "active" THEN CycleJob ELSE Idle)
  /\ interrupted' = FALSE
  /\ calls' = IF Cognitive /\ job' # Idle THEN calls + 1 ELSE calls
  /\ UNCHANGED <<proc, files, epoch, stopping, network>>

\* Mutant: the status is compared instead of the epoch.
DiscardUnlessActive == proc = "serve" /\ (st.status # "active" \/ stopping)

\* Step discards whatever the executor returned, result or error, when authority
\* changed while it ran.  Tick, which run uses, does not look.
MustDiscard == proc = "serve" /\ Cancelled

\* Mutant: the early return leaves running set.
DiscardedStillRunning == job.kind = "cycle" /\ MustDiscard /\ UNCHANGED vars

CycleDiscarded ==
  /\ job.kind = "cycle" /\ MustDiscard
  /\ job' = Idle
  /\ UNCHANGED <<proc, st, disk, files, fatal, epoch, stopping, calls, interrupted,
                 saveFailed, network>>

\* The executor failed or timed out: the service pauses and keeps the cycle
\* pending.  Under run the process ends instead (Mission!TickFails).
CycleFailed ==
  /\ job.kind = "cycle" /\ proc = "serve" /\ ~MustDiscard
  /\ job' = Idle
  /\ st' = Paused(st)
  /\ \/ disk' = st' /\ UNCHANGED <<fatal, saveFailed>>
     \/ SaveFails(st')
  /\ UNCHANGED <<proc, files, epoch, stopping, calls, interrupted, network>>

\* Mutant: the snapshot is saved without waiting for the artifact.
StoreArtifactUnsynced(r) ==
  \/ files' = files /\ Persist(Committed(st, r))
  \/ /\ files' \in {files, files \cup {r}}
     /\ fatal' = TRUE /\ saveFailed' = TRUE /\ UNCHANGED <<st, disk>>

\* PutArtifact makes the result durable before the snapshot refers to it; a crash
\* between the two is the second save failing.
StoreArtifact(r) ==
  \/ files' = files \cup {r} /\ Persist(Committed(st, r))
  \/ /\ files' \in {files, files \cup {r}}
     /\ fatal' = TRUE /\ saveFailed' = TRUE /\ UNCHANGED <<st, disk>>

CycleCommitted(r) ==
  /\ job.kind = "cycle" /\ ~MustDiscard
  /\ job' = Idle
  /\ StoreArtifact(r)
  /\ UNCHANGED <<proc, epoch, stopping, calls, interrupted, network>>

-----------------------------------------------------------------------------
(* Controller.ActionControl: the operator's propose, approve, retry and    *)
(* reject, through the API or, with no process, through the CLI.  The CLI  *)
(* runs the same function in a process of its own and exits.               *)

\* Mutant: decisions are taken while an execution runs.
DecideWhileRunning ==
  /\ proc \in {"serve", "none"} /\ RecoveryReady(st) /\ ~fatal
  /\ st.status \notin {"cancelled", "completed"}
  /\ MaxActions > 0 /\ ValidActions(st)

MayDecide == /\ proc \in {"serve", "none"} /\ RecoveryReady(st) /\ ~fatal /\ ~Running
             /\ st.status \notin {"cancelled", "completed"}
             /\ MaxActions > 0 /\ ValidActions(st)

SaveDecision(new) ==
  \/ proc = "serve" /\ Persist(new)
  \/ /\ proc = "none" /\ disk' \in {disk, new} /\ st' = disk'
     /\ UNCHANGED <<fatal, saveFailed>>

Propose ==
  /\ MayDecide /\ Len(st.actions) < MaxActions
  /\ SaveDecision(Proposed(st))
  /\ UNCHANGED <<proc, files, epoch, stopping, job, calls, interrupted, network>>

Decide(i, command) ==
  /\ MayDecide /\ i \in DOMAIN st.actions /\ Decidable(st.actions[i], command)
  /\ SaveDecision(WithAction(st, i, Decided(st.actions[i], command)))
  /\ licensed' = IF command = "reject" THEN licensed ELSE licensed \cup {i}
  /\ UNCHANGED <<proc, files, epoch, stopping, job, calls, interrupted, sent, remote>>

-----------------------------------------------------------------------------
(* stepActionLocked: reserve, execute without the mutex, settle.           *)

StartAction(i, readOnly) ==
  LET a     == st.actions[i]
      write == AllowWrite(a, readOnly)
  IN
  /\ ValidActions(st) /\ Runnable(a, readOnly)
  /\ IF Exhausted(a, write)
     THEN Persist(PausedIfActive(st)) /\ job' = Idle
     ELSE Launched(WithAction(st, i, InFlight(a, write)), ActionJob(i, write))
  /\ UNCHANGED <<files, epoch, stopping, calls, interrupted, network>>

\* The worker's turn: the first open action, ahead of any cycle.
StepAction ==
  \E i \in DOMAIN st.actions :
    /\ MayStep /\ IsNext(st, i) /\ st.actions[i].status \notin Awaiting
    /\ StartAction(i, FALSE)
    /\ UNCHANGED proc

Answered(answer) == [job EXCEPT !.phase = "done", !.answer = answer]

\* executeRecord asks for the receipt first.
QueryFinds ==
  /\ job.kind = "action" /\ job.phase = "get" /\ job.index \in remote
  /\ job' = Answered("receipt")
  /\ UNCHANGED <<proc, st, disk, files, fatal, epoch, stopping, calls, interrupted,
                 saveFailed, network>>

QueryMisses ==
  /\ job.kind = "action" /\ job.phase = "get" /\ job.index \notin remote
  /\ job' = IF job.write THEN [job EXCEPT !.phase = "send"] ELSE Answered("absent")
  /\ UNCHANGED <<proc, st, disk, files, fatal, epoch, stopping, calls, interrupted,
                 saveFailed, network>>

\* The PUT leaves only while the context is alive; from then on the network may
\* deliver it at any time, or never.
SendPut ==
  /\ job.kind = "action" /\ job.phase = "send" /\ ~Cancelled
  /\ job' = [job EXCEPT !.phase = "put"]
  /\ sent' = [sent EXCEPT ![job.index] = @ + 1]
  /\ licensed' = licensed \ {job.index}
  /\ UNCHANGED <<proc, st, disk, files, fatal, epoch, stopping, calls, interrupted,
                 saveFailed, remote>>

\* The destination replies only after it has committed the record.
PutConfirmed ==
  /\ job.kind = "action" /\ job.phase = "put" /\ job.index \in remote
  /\ job' = Answered("receipt")
  /\ UNCHANGED <<proc, st, disk, files, fatal, epoch, stopping, calls, interrupted,
                 saveFailed, network>>

\* Transport error, timeout, cancelled context, missing token, unusable receipt.
RequestFails ==
  /\ job.kind = "action" /\ job.phase # "done"
  /\ job' = Answered("error")
  /\ UNCHANGED <<proc, st, disk, files, fatal, epoch, stopping, calls, interrupted,
                 saveFailed, network>>

\* The receipt is recorded whatever control command came meanwhile.
SettledSnapshot ==
  LET s == WithAction(st, job.index, Outcome(st.actions[job.index], job.answer))
  IN IF job.answer = "receipt" THEN s ELSE PausedIfActive(s)

SettleAction ==
  /\ job.kind = "action" /\ job.phase = "done"
  /\ job' = Idle
  /\ Persist(SettledSnapshot)
  /\ UNCHANGED <<proc, files, epoch, stopping, calls, interrupted, network>>
=============================================================================
