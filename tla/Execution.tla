----------------------------- MODULE Execution -----------------------------
(***************************************************************************)
(* An execution of a mission in one of the three runtimes, from its start  *)
(* to what Execute returns.  On the host and in the WASI worker the child  *)
(* process is the guest, or its worker; in Docker it is the client of the  *)
(* daemon, and the guest is the container.  What the guest of a killed     *)
(* client still writes reaches nobody.                                     *)
(*                                                                         *)
(* Docker executions follow one another under one name; an execution of    *)
(* another runtime leaves nothing behind, so there is one of them.         *)
(***************************************************************************)
EXTENDS DockerSandbox, GuestOutput

executionVars == <<sandboxVars, outputVars>>

ExecutionInit == SandboxInit /\ OutputInit

Docker == runtime = "docker"

\* The client is attached to this execution's guest.
Attached == pc = "running" /\ guest = "runs" /\ box.of = "current"

\* Every execution has its own buffers, client and deadline.
NewOutput ==
  /\ guest' = "runs" /\ expired' = FALSE /\ worker' = worker
  /\ pipe' = 0 /\ copied' = 0 /\ result' = "none" /\ attempts' = 0 /\ produced' = 0
  /\ runtime' = runtime

\* The child fails: the daemon has refused, or is gone.
ClientFails == GuestEnds /\ guest' = "failed"

-----------------------------------------------------------------------------
(* Docker.                                                                 *)

DockerBegins == Docker /\ Begin /\ NewOutput

\* An execution that does not come to run its client is refused.
Prepares ==
  /\ CleanAnswers \/ CleanFails \/ Run \/ CloseBroker \/ Returns
  /\ result' = IF pc' = "close" /\ result = "none" THEN "refused" ELSE result
  /\ UNCHANGED <<runtime, guest, expired, worker, pipe, copied, attempts, produced>>

\* cmd.Run returns; what it returned is the result, whatever clean finds afterwards.
DockerReturns == ClientEnds /\ ChildReturns

Client ==
  /\ \/ ClientStarts /\ guest = "runs"
     \/ RunnerDies
     \/ Connect
  /\ UNCHANGED outputVars

BrokerServes == HandlerEnds /\ UNCHANGED outputVars

GuestLeaves == BoxEnds /\ IF Attached THEN GuestEnds ELSE UNCHANGED outputVars

GuestRemoved ==
  /\ LateRemove
  /\ IF Attached /\ box' = Empty THEN ClientFails ELSE UNCHANGED outputVars

DaemonActs ==
  /\ \/ \E whose \in {"current", "old"} : Create(whose) \/ NeverCreates(whose)
     \/ StartBox \/ ForeignLeaves \/ ForeignComes
  /\ UNCHANGED outputVars

ClientExpires == pc = "running" /\ Expire /\ UNCHANGED sandboxVars
ClientKilled == pc = "running" /\ Kill /\ UNCHANGED sandboxVars

ClientCopies ==
  /\ pc = "running"
  /\ \/ Attached /\ box.state = "started" /\ \E n \in Sizes : ProcessWrite(n)
     \/ Copy
     \/ ClientFails
  /\ UNCHANGED sandboxVars

InDocker ==
  /\ Docker
  /\ \/ Prepares \/ DockerReturns \/ Client \/ BrokerServes
     \/ GuestLeaves \/ GuestRemoved \/ DaemonActs
     \/ ClientExpires \/ ClientKilled \/ ClientCopies

-----------------------------------------------------------------------------
(* The host and the worker.                                                *)

Elsewhere ==
  /\ ~Docker
  /\ \/ WorkerRefuses
     \/ \E s \in Streams, n \in Sizes : WasiWrite(s, n)
     \/ \E n \in Sizes : ProcessWrite(n)
     \/ GuestEnds \/ Expire \/ Kill
     \/ WorkerReturns \/ Copy \/ ChildReturns
  /\ UNCHANGED sandboxVars

ExecutionNext == DockerBegins \/ InDocker \/ Elsewhere

\* Deadlines, kills and the broker's two seconds are the host's: every command of the
\* sandbox has a timeout.  The guest and the daemon owe nothing.
ExecutionFairness ==
  /\ WF_executionVars(Docker /\ (Prepares \/ DockerReturns))
  /\ WF_executionVars(Docker /\ BrokerServes)
  /\ WF_executionVars(Docker /\ ClientExpires) /\ WF_executionVars(Docker /\ ClientKilled)
  /\ WF_executionVars(~Docker /\ Expire /\ UNCHANGED sandboxVars)
  /\ WF_executionVars(~Docker /\ Kill /\ UNCHANGED sandboxVars)
  /\ WF_executionVars(~Docker /\ WorkerReturns /\ UNCHANGED sandboxVars)
  /\ WF_executionVars(~Docker /\ ChildReturns /\ UNCHANGED sandboxVars)

ExecutionSpec == ExecutionInit /\ [][ExecutionNext]_executionVars /\ ExecutionFairness

-----------------------------------------------------------------------------
\* Neither guest nor broker outlive their execution, and the guest goes first.
LeavesNothing == GuestEndsWithExecution /\ BrokerEndsWithExecution /\ GuestHasBroker

\* Execute returns, with a guest that never ends or floods its output, an unresponsive
\* daemon and a full broker, or its runner has died.
ExecutionEnds ==
  /\ pc # "returned" ~> pc = "returned"
  /\ runtime # "docker" => <>(result # "none")
=============================================================================
