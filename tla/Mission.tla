------------------------------- MODULE Mission -------------------------------
(***************************************************************************)
(* A mission over its life on one host: processes that take the state lock *)
(* one after the other (serve, run, or a CLI command), the signals and     *)
(* crashes that end them, the operator's offline commands, the destination *)
(* of the writes and the passing of time.                                  *)
(***************************************************************************)
EXTENDS Controller

Init ==
  /\ proc = "none" /\ st = Fresh /\ disk = Fresh /\ files = {}
  /\ fatal = FALSE /\ epoch = 0 /\ stopping = FALSE /\ job = Idle
  /\ sent = [i \in Indexes |-> 0] /\ remote = {} /\ calls = 0
  /\ interrupted = FALSE /\ saveFailed = FALSE /\ licensed = {}

-----------------------------------------------------------------------------
(* Processes.  The file lock admits one at a time.                         *)

Start(kind) ==
  /\ proc = "none" /\ ValidActions(disk)
  /\ kind = "run" => disk.status = "active"
  /\ proc' = kind
  /\ UNCHANGED <<st, disk, files, fatal, epoch, stopping, job, calls, interrupted,
                 saveFailed, network>>

\* action-run and action-reconcile: one action of the operator's choice.
RunAction(i, readOnly) ==
  /\ proc = "none" /\ ValidActions(disk) /\ i \in DOMAIN st.actions
  /\ readOnly \/ (RecoveryReady(st) /\ st.status = "active")
  /\ proc' = "cli"
  /\ StartAction(i, readOnly)

Signal ==
  /\ proc # "none" /\ ~stopping
  /\ stopping' = TRUE
  /\ UNCHANGED <<proc, st, disk, files, fatal, epoch, job, calls, interrupted,
                 saveFailed, network>>

\* Memory is gone; the next process will load what is on disk.
Gone ==
  /\ proc' = "none" /\ st' = disk /\ fatal' = FALSE /\ epoch' = 0
  /\ stopping' = FALSE /\ job' = Idle /\ interrupted' = FALSE /\ saveFailed' = FALSE
  /\ UNCHANGED <<disk, files, calls, network>>

\* Mutant: run does not watch the signal while it sleeps.
ExitOfService ==
  /\ ~Running
  /\ \/ stopping /\ proc = "serve"
     \/ proc = "run" /\ (st.status # "active" \/ fatal)
     \/ proc = "cli"
  /\ Gone

\* The service waits for its worker; run leaves its loop; a CLI command is over.
Exit ==
  /\ ~Running
  /\ \/ stopping /\ proc # "none"
     \/ proc = "run" /\ (st.status # "active" \/ fatal)
     \/ proc = "cli"
  /\ Gone

\* Under run an executor error ends the process; the cycle stays pending.
TickFails == proc = "run" /\ job.kind = "cycle" /\ Gone

Crash == proc # "none" /\ Gone

\* pause, resume and cancel from the command line, with no service running.
OfflineControl(action) ==
  /\ proc = "none" /\ Accepts(disk, action)
  /\ disk' \in {disk, Controlled(disk, action)} /\ st' = disk'
  /\ UNCHANGED <<proc, files, fatal, epoch, stopping, job, calls, interrupted,
                 saveFailed, network>>

-----------------------------------------------------------------------------
(* The environment.                                                        *)

\* A PUT in transit arrives, whoever sent it and whatever became of the sender.
\* The destination binds the ID to one record, so a repetition changes nothing.
Deliver(i) ==
  /\ sent[i] > 0 /\ i \notin remote
  /\ remote' = remote \cup {i}
  /\ UNCHANGED <<proc, st, disk, files, fatal, epoch, stopping, job, sent, calls,
                 interrupted, saveFailed, licensed>>

\* next_run comes.
Elapse ==
  /\ st.resting \/ disk.resting
  /\ st' = [st EXCEPT !.resting = FALSE] /\ disk' = [disk EXCEPT !.resting = FALSE]
  /\ UNCHANGED <<proc, files, fatal, epoch, stopping, job, calls, interrupted,
                 saveFailed, network>>

-----------------------------------------------------------------------------
Cycles == \/ StartCycle \/ CycleDiscarded \/ CycleFailed \/ TickFails
          \/ \E r \in Results : CycleCommitted(r)

WriteAdapter == QueryFinds \/ QueryMisses \/ SendPut \/ PutConfirmed \/ RequestFails

Actions == StepAction \/ WriteAdapter \/ SettleAction

Operator == \/ \E action \in DOMAIN Transition : Control(action) \/ OfflineControl(action)
            \/ Propose
            \/ \E i \in Indexes, command \in Commands : Decide(i, command)
            \/ \E i \in Indexes, readOnly \in BOOLEAN : RunAction(i, readOnly)

Host == (\E kind \in {"serve", "run"} : Start(kind)) \/ Signal \/ Exit \/ Crash

World == (\E i \in Indexes : Deliver(i)) \/ Elapse

Next == Cycles \/ Actions \/ Operator \/ Host \/ World

Spec == Init /\ [][Next]_vars

\* Executors and requests are bounded by timeouts, the worker loops every second
\* and the clock runs.  Nothing is assumed of the operator, of crashes, of
\* signals or of the network.
Fairness ==
  /\ WF_vars(StartCycle) /\ WF_vars(StepAction)
  /\ WF_vars(CycleDiscarded \/ CycleFailed \/ TickFails)
  /\ WF_vars(RequestFails) /\ WF_vars(SettleAction)
  /\ WF_vars(Exit) /\ WF_vars(Elapse)

FairSpec == Spec /\ Fairness
=============================================================================
