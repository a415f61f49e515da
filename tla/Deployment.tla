----------------------------- MODULE Deployment -----------------------------
(***************************************************************************)
(* The deployed service: the unit of Supervision runs the processes of     *)
(* ServeShutdown one after the other, and the backup job takes the state's *)
(* lock between them.  A process lives while the unit is running or        *)
(* stopping: the supervisor signals it and, in the end, kills it.          *)
(***************************************************************************)
EXTENDS Supervision, ServeShutdown

ASSUME DeploymentAssumption == "backup" \notin Processes   \* the job holds the lock by its own name

deployment == <<supervisionVars, service>>

DeploymentInit == SupervisionInit /\ ShutdownInit

\* While it captures, the job owns the lock.
TakesLock ==
  /\ (job' = "capturing") <=> (owner = {})
  /\ owner' = IF owner = {} THEN {"backup"} ELSE owner

FreesLock == owner' = owner \ {"backup"}

OtherwiseServing ==
  UNCHANGED <<disk, phase, memory, handlers, saved, connected, worker, confirmed, escaped>>

\* Mutant: what the unit has started may outlive it (KillMode=process, SendSIGKILL=no).
LeavesProcess == UNCHANGED service

\* The process has not taken the lock, or ended, or is one of these.
EndsProcess ==
  IF \E p \in Processes : Alive(p) THEN \E p \in Processes : Gone(p) ELSE UNCHANGED service

SignalsProcess ==
  IF unit = "running" THEN \E p \in Processes : Signal(p) ELSE UNCHANGED service

-----------------------------------------------------------------------------
\* serve takes the lock, or its process ends with an error.
ServiceOpens ==
  /\ Opens
  /\ IF owner = {} THEN \E p \in Processes : Open(p) ELSE UNCHANGED service

ServiceEnds == (Crash \/ Stopped) /\ EndsProcess

ServiceSignalled == (StopUnit \/ OperatorStops) /\ SignalsProcess

JobTakesLock == Capture /\ TakesLock /\ OtherwiseServing

JobFreesLock == (Captured \/ CommandFails \/ Interrupt) /\ FreesLock /\ OtherwiseServing

Unlocked ==
  /\ Check \/ UnitStopped \/ Verified \/ Finish \/ AutoRestart \/ WindowPasses \/ OperatorStarts
  /\ UNCHANGED service

ServiceWorks ==
  /\ \E p \in Processes :
       \/ WorkerStarts(p) \/ WorkerSettles(p) \/ WorkerEnds(p)
       \/ ServeReturns(p) \/ CloseConnections(p) \/ Release(p)
       \/ \E command \in Commands : \/ Request(p, command) \/ HandlerSaves(p, command)
                                    \/ Answer(p, command)
  /\ UNCHANGED supervisionVars

DeploymentNext ==
  \/ ServiceOpens \/ ServiceEnds \/ ServiceSignalled \/ ServiceWorks
  \/ JobTakesLock \/ JobFreesLock \/ Unlocked

\* Every command of the script ends, or is interrupted after TimeoutStartSec.
Script ==
  \/ StopUnit /\ SignalsProcess
  \/ Capture /\ TakesLock /\ OtherwiseServing
  \/ Captured /\ FreesLock /\ OtherwiseServing
  \/ (UnitStopped \/ Verified \/ Finish) /\ UNCHANGED service

\* systemd acts on its timers: serve is killed after TimeoutStopSec.
Supervisor ==
  ServiceOpens \/ (Stopped /\ EndsProcess) \/ (AutoRestart /\ UNCHANGED service)

DeploymentSpec ==
  /\ DeploymentInit /\ [][DeploymentNext]_deployment
  /\ WF_deployment(Script) /\ WF_deployment(Supervisor)

-----------------------------------------------------------------------------
\* The archive holds the last snapshot the service has saved: nothing is written while
\* it is captured, not even by a handler that outlives the lock, unless the operator
\* starts the service himself (deploy/backup.sh:20-23).
CaptureQuiescent == [][job = "capturing" /\ disk' # disk => "start" \in outside]_deployment
=============================================================================
