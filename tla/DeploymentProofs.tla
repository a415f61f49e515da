-------------------------- MODULE DeploymentProofs --------------------------
(***************************************************************************)
(* Theorems about the end of the service and about the backup job: who may *)
(* write while the state's lock changes hands.  The first part is about    *)
(* the processes of ServeShutdown alone; the second composes it with the   *)
(* unit and the job of Supervision.                                        *)
(***************************************************************************)
EXTENDS Deployment, TLAPS

Phases == {"absent", "serving", "signalled", "returned", "released", "gone"}

\* The phases in which serve holds the lock.
Serving == {"serving", "signalled", "returned"}

Changes == Commands \cup Cycles

ShutdownTypeOK ==
  /\ disk \subseteq Changes /\ owner \subseteq Processes \cup {"backup"}
  /\ phase \in [Processes -> Phases]
  /\ memory \in [Processes -> SUBSET Changes]
  /\ handlers \in [Processes -> SUBSET Commands]
  /\ saved \in [Processes -> SUBSET Commands]
  /\ connected \subseteq Processes
  /\ worker \in [Processes -> {"idle", "executing", "ended"}]
  /\ confirmed \subseteq Commands /\ escaped \subseteq Commands

\* One at most has the lock; who serves has it, and it alone has a worker at work.
Locked ==
  /\ \A a, b \in owner : a = b
  /\ \A p \in Processes :
       /\ phase[p] \in Serving => owner = {p}
       /\ worker[p] = "executing" => phase[p] \in Serving

\* As long as no handler has saved without the lock, its owner knows all there is, and
\* what has been saved is on disk, answered or not.
Faithful ==
  escaped = {} => /\ SoleWriter /\ ConfirmedDurable
                  /\ \A p \in Processes : saved[p] \subseteq disk

SInv == Locked /\ Faithful

-----------------------------------------------------------------------------
NoneAlive == \A p \in Processes : ~Alive(p)

SupervisionTypeOK ==
  /\ unit \in {"inactive", "starting", "running", "stopping", "failed", "waiting"}
  /\ job \in {"idle", "checked", "stopping", "stopped", "capturing", "verifying", "leaving"}
  /\ refused \in BOOLEAN

\* Once stopped for the job, the unit stays down unless the operator starts it.
StaysDown ==
  "start" \notin outside =>
    /\ ~refused
    /\ job = "stopping" => unit \in {"stopping", "inactive", "failed"}
    /\ job \in {"stopped", "capturing", "verifying"} => unit \in {"inactive", "failed"}

\* The unit's processes live one at a time, and only while it is running or stopping.
OneAlive ==
  /\ unit \notin {"running", "stopping"} => NoneAlive
  /\ \A p, q \in Processes : Alive(p) /\ Alive(q) => p = q

\* Whoever lives knows all there is, with the lock or without.
Current ==
  /\ \A p \in Processes : /\ Alive(p) => memory[p] = disk
                          /\ saved[p] \subseteq disk
  /\ ConfirmedDurable

\* The job owns the lock while it captures, and only then.
JobLocks == job = "capturing" <=> owner = {"backup"}

DInv == /\ ShutdownTypeOK /\ SupervisionTypeOK
        /\ SInv /\ StaysDown /\ OneAlive /\ JobLocks /\ Current

-----------------------------------------------------------------------------
(* The processes, whatever starts and ends them.                           *)

\* No process has started.
LEMMA ShutdownInvInit == ShutdownInit => ShutdownTypeOK /\ SInv
BY DEF ShutdownInit, ShutdownTypeOK, SInv, Locked, Faithful, SoleWriter, Held, ConfirmedDurable,
   Phases, Serving

\* What one process does.
ProcessStep(p) ==
  \/ Open(p) \/ WorkerStarts(p) \/ WorkerSettles(p) \/ WorkerEnds(p)
  \/ Signal(p) \/ ServeReturns(p) \/ CloseConnections(p) \/ Release(p) \/ Gone(p)
  \/ \E command \in Commands : \/ Request(p, command) \/ HandlerSaves(p, command)
                               \/ Answer(p, command)

\* Every step keeps the types.
LEMMA ShutdownTypeNext ==
  ASSUME ShutdownTypeOK, NEW p \in Processes, ProcessStep(p)
  PROVE  ShutdownTypeOK'
<1>1. CASE Open(p)
  BY <1>1 DEF Open, Enter, ShutdownTypeOK, Phases, Changes
<1>2. CASE WorkerStarts(p)
  BY <1>2 DEF WorkerStarts, ShutdownTypeOK, Phases, Changes
<1>3. CASE WorkerSettles(p)
  BY <1>3 DEF WorkerSettles, Saves, ShutdownTypeOK, Phases, Changes
<1>4. CASE WorkerEnds(p)
  BY <1>4 DEF WorkerEnds, ShutdownTypeOK, Phases, Changes
<1>5. CASE Signal(p)
  BY <1>5 DEF Signal, Enter, ShutdownTypeOK, Phases, Changes
<1>6. CASE ServeReturns(p) \/ CloseConnections(p)
  BY <1>6 DEF ServeReturns, CloseConnections, Enter, ShutdownTypeOK, Phases, Changes
<1>7. CASE Release(p)
  BY <1>7 DEF Release, Enter, ShutdownTypeOK, Phases, Changes
<1>8. CASE Gone(p)
  BY <1>8 DEF Gone, Alive, ShutdownTypeOK, Phases, Changes
<1>9. ASSUME NEW command \in Commands, Request(p, command)
      PROVE  ShutdownTypeOK'
  BY <1>9 DEF Request, ShutdownTypeOK, Phases, Changes
<1>10. ASSUME NEW command \in Commands, HandlerSaves(p, command)
      PROVE  ShutdownTypeOK'
  BY <1>10 DEF HandlerSaves, Saves, Alive, Held, ShutdownTypeOK, Phases, Changes
<1>11. ASSUME NEW command \in Commands, Answer(p, command)
      PROVE  ShutdownTypeOK'
  BY <1>11 DEF Answer, ShutdownTypeOK, Phases, Changes
<1> QED BY <1>1, <1>2, <1>3, <1>4, <1>5, <1>6, <1>7, <1>8, <1>9, <1>10, <1>11 DEF ProcessStep

\* The lock changes hands only when nobody serves.
LEMMA LockedNext ==
  ASSUME ShutdownTypeOK, Locked, NEW p \in Processes, ProcessStep(p)
  PROVE  Locked'
<1>1. CASE Open(p)
  BY <1>1 DEF Open, Enter, ShutdownTypeOK, Locked, Serving, Phases
<1>2. CASE WorkerStarts(p)
  BY <1>2 DEF WorkerStarts, ShutdownTypeOK, Locked, Serving, Phases
<1>3. CASE WorkerSettles(p)
  BY <1>3 DEF WorkerSettles, Saves, ShutdownTypeOK, Locked, Serving, Phases
<1>4. CASE WorkerEnds(p)
  BY <1>4 DEF WorkerEnds, ShutdownTypeOK, Locked, Serving, Phases
<1>5. CASE Signal(p)
  BY <1>5 DEF Signal, Enter, ShutdownTypeOK, Locked, Serving, Phases
<1>6. CASE ServeReturns(p) \/ CloseConnections(p)
  BY <1>6 DEF ServeReturns, CloseConnections, Enter, ShutdownTypeOK, Locked, Serving, Phases
<1>7. CASE Release(p)
  BY <1>7 DEF Release, Enter, ShutdownTypeOK, Locked, Serving, Phases
<1>8. CASE Gone(p)
  BY <1>8 DEF Gone, Alive, ShutdownTypeOK, Locked, Serving, Phases
<1>9. ASSUME NEW command \in Commands, Request(p, command)
      PROVE  Locked'
  BY <1>9 DEF Request, ShutdownTypeOK, Locked, Serving, Phases
<1>10. ASSUME NEW command \in Commands, HandlerSaves(p, command)
      PROVE  Locked'
  BY <1>10 DEF HandlerSaves, Saves, Alive, Held, ShutdownTypeOK, Locked, Serving, Phases
<1>11. ASSUME NEW command \in Commands, Answer(p, command)
      PROVE  Locked'
  BY <1>11 DEF Answer, ShutdownTypeOK, Locked, Serving, Phases
<1> QED BY <1>1, <1>2, <1>3, <1>4, <1>5, <1>6, <1>7, <1>8, <1>9, <1>10, <1>11 DEF ProcessStep

\* Who saves under the lock adds to what is on disk.
LEMMA FaithfulNext ==
  ASSUME ShutdownTypeOK, Locked, Faithful, NEW p \in Processes, ProcessStep(p)
  PROVE  Faithful'
<1> USE DEF ShutdownTypeOK, Faithful, SoleWriter, ConfirmedDurable, Held
<1>1. CASE Open(p)
  BY <1>1 DEF Open, Enter
<1>2. CASE WorkerStarts(p)
  BY <1>2 DEF WorkerStarts
<1>3. CASE WorkerSettles(p)
  BY <1>3 DEF WorkerSettles, Saves, Locked
<1>4. CASE WorkerEnds(p)
  BY <1>4 DEF WorkerEnds
<1>5. CASE Signal(p)
  BY <1>5 DEF Signal, Enter
<1>6. CASE ServeReturns(p) \/ CloseConnections(p)
  BY <1>6 DEF ServeReturns, CloseConnections, Enter
<1>7. CASE Release(p)
  BY <1>7 DEF Release, Enter
<1>8. CASE Gone(p)
  BY <1>8 DEF Gone, Alive, Locked
<1>9. ASSUME NEW command \in Commands, Request(p, command)
      PROVE  Faithful'
  BY <1>9 DEF Request
<1>10. ASSUME NEW command \in Commands, HandlerSaves(p, command)
      PROVE  Faithful'
  BY <1>10 DEF HandlerSaves, Saves, Alive
<1>11. ASSUME NEW command \in Commands, Answer(p, command)
      PROVE  Faithful'
  BY <1>11 DEF Answer
<1> QED BY <1>1, <1>2, <1>3, <1>4, <1>5, <1>6, <1>7, <1>8, <1>9, <1>10, <1>11 DEF ProcessStep

\* A step of a process keeps the whole invariant, and so does anything else that leaves
\* the service alone.
LEMMA ProcessNext ==
  ASSUME ShutdownTypeOK, SInv, (\E p \in Processes : ProcessStep(p)) \/ UNCHANGED service
  PROVE  (ShutdownTypeOK /\ SInv)'
<1>1. ASSUME NEW p \in Processes, ProcessStep(p)
      PROVE  (ShutdownTypeOK /\ SInv)'
  BY <1>1, ShutdownTypeNext, LockedNext, FaithfulNext
  DEF SInv
<1>2. CASE UNCHANGED service
  BY <1>2 DEF service, ShutdownTypeOK, SInv, Locked, Faithful, SoleWriter, ConfirmedDurable,
     Held
<1> QED BY <1>1, <1>2

\* The inductive invariant of the services that follow one another on a state directory.
THEOREM ShutdownInvariance == ShutdownSpec => [](ShutdownTypeOK /\ SInv)
<1>1. ShutdownTypeOK /\ SInv /\ [ShutdownNext]_service => (ShutdownTypeOK /\ SInv)'
  BY ProcessNext DEF ShutdownNext, ProcessStep
<1> QED BY <1>1, ShutdownInvInit, PTL DEF ShutdownSpec

\* However services end and start, no worker settles without the lock.
THEOREM ShutdownIsOrderly == ShutdownSpec => []WorkerUnderLock
<1>1. SInv => WorkerUnderLock
  BY DEF SInv, Locked, WorkerUnderLock, Held
<1> QED BY <1>1, ShutdownInvariance, PTL

\* The handlers that outlive the lock are all that can spoil the state: as long as none has
\* saved without it, its owner is the only writer and what was confirmed is on disk.
THEOREM OnlyEscapesSpoil ==
  ShutdownSpec => [](escaped = {} => SoleWriter /\ ConfirmedDurable)
<1>1. SInv => (escaped = {} => SoleWriter /\ ConfirmedDurable)
  BY DEF SInv, Faithful
<1> QED BY <1>1, ShutdownInvariance, PTL

-----------------------------------------------------------------------------
(* The unit, its processes and the job.                                    *)

\* Each step of the deployment is a step of the unit or the job with one of a process,
\* with none, or with the job's lock.
LEMMA DeploymentSteps ==
  ASSUME [DeploymentNext]_deployment
  PROVE  \/ (\E p \in Processes : ProcessStep(p)) \/ UNCHANGED service
         \/ JobTakesLock \/ JobFreesLock
<1>1. CASE ServiceOpens
  BY <1>1 DEF ServiceOpens, ProcessStep
<1>2. CASE ServiceEnds
  BY <1>2 DEF ServiceEnds, EndsProcess, ProcessStep
<1>3. CASE ServiceSignalled
  BY <1>3 DEF ServiceSignalled, SignalsProcess, ProcessStep
<1>4. CASE ServiceWorks
  BY <1>4 DEF ServiceWorks, ProcessStep
<1>5. CASE Unlocked \/ UNCHANGED deployment
  BY <1>5 DEF Unlocked, deployment
<1> QED BY <1>1, <1>2, <1>3, <1>4, <1>5 DEF DeploymentNext

\* The job's own lock is one more owner that serves nobody.
LEMMA ServiceNext ==
  ASSUME ShutdownTypeOK, SInv, [DeploymentNext]_deployment
  PROVE  (ShutdownTypeOK /\ SInv)'
<1>1. CASE JobTakesLock
  <2>1. OtherwiseServing /\ owner' = IF owner = {} THEN {"backup"} ELSE owner
    BY <1>1 DEF JobTakesLock, TakesLock
  <2>2. \A p \in Processes : owner = {p} <=> owner' = {p}
    BY <2>1, DeploymentAssumption
  <2> QED BY <2>1, <2>2 DEF OtherwiseServing, ShutdownTypeOK, SInv, Locked, Faithful,
          SoleWriter, ConfirmedDurable, Held
<1>2. CASE JobFreesLock
  <2>1. OtherwiseServing /\ owner' = owner \ {"backup"}
    BY <1>2 DEF JobFreesLock, FreesLock
  <2>2. \A p \in Processes : owner = {p} <=> owner' = {p}
    <3>1. \A a, b \in owner : a = b
      BY DEF SInv, Locked
    <3> QED BY <2>1, <3>1, DeploymentAssumption
  <2> QED BY <2>1, <2>2 DEF OtherwiseServing, ShutdownTypeOK, SInv, Locked, Faithful,
          SoleWriter, ConfirmedDurable, Held
<1> QED BY <1>1, <1>2, DeploymentSteps, ProcessNext

\* The steps of the unit and of the job.
LEMMA SupervisionSteps ==
  ASSUME [DeploymentNext]_deployment
  PROVE  \/ Opens \/ Crash \/ AutoRestart \/ Stopped \/ WindowPasses
         \/ OperatorStarts \/ OperatorStops
         \/ Check \/ StopUnit \/ UnitStopped \/ Capture \/ Captured \/ Verified
         \/ CommandFails \/ Interrupt \/ Finish \/ UNCHANGED supervisionVars
BY DEF DeploymentNext, deployment, ServiceOpens, ServiceEnds, ServiceSignalled, ServiceWorks,
   JobTakesLock, JobFreesLock, Unlocked

\* Nobody but the operator starts the unit between the job's stop and its end.
LEMMA SupervisionNext ==
  ASSUME SupervisionTypeOK, StaysDown, [DeploymentNext]_deployment
  PROVE  (SupervisionTypeOK /\ StaysDown)'
<1> USE DEF SupervisionTypeOK, StaysDown
<1>1. CASE Opens \/ Crash \/ Stopped \/ WindowPasses
  BY <1>1 DEF Opens, Crash, Active, Stopped, WindowPasses
<1>2. CASE AutoRestart
  BY <1>2 DEF AutoRestart, Started
<1>3. CASE OperatorStarts
  BY <1>3 DEF OperatorStarts, Started
<1>4. CASE OperatorStops
  BY <1>4 DEF OperatorStops, Stopping, Active
<1>5. CASE Check
  BY <1>5 DEF Check
<1>6. CASE StopUnit
  BY <1>6 DEF StopUnit, Stopping, Active
<1>7. CASE UnitStopped
  BY <1>7 DEF UnitStopped
<1>8. CASE Capture
  <2>1. /\ job = "stopped" /\ unit' = unit /\ outside' = outside
        /\ job' \in {"leaving", "capturing"} /\ refused' \in BOOLEAN
        /\ unit \notin {"running", "stopping"} => refused' = refused
    BY <1>8 DEF Capture, Leaves
  <2> QED BY <2>1
<1>9. CASE Captured \/ Verified \/ CommandFails \/ Interrupt
  BY <1>9 DEF Captured, Verified, CommandFails, Leaves, Interrupt
<1>10. CASE Finish
  BY <1>10 DEF Finish, Resume, Started, Active
<1>11. CASE UNCHANGED supervisionVars
  BY <1>11 DEF supervisionVars
<1> QED BY <1>1, <1>2, <1>3, <1>4, <1>5, <1>6, <1>7, <1>8, <1>9, <1>10, <1>11,
           SupervisionSteps

\* What a process's step does to who is alive.
LEMMA AliveSteps ==
  ASSUME ShutdownTypeOK, NEW p \in Processes, ProcessStep(p)
  PROVE  /\ \A q \in Processes : Alive(q)' => Alive(q) \/ (Open(p) /\ q = p)
         /\ Gone(p) => ~Alive(p)'
<1> USE DEF ShutdownTypeOK, Phases, Alive
<1>1. CASE Open(p) \/ Gone(p) \/ Signal(p) \/ ServeReturns(p) \/ Release(p)
  BY <1>1 DEF Open, Gone, Signal, ServeReturns, Release, Enter
<1>2. CASE WorkerStarts(p) \/ WorkerSettles(p) \/ WorkerEnds(p) \/ CloseConnections(p)
  BY <1>2 DEF WorkerStarts, WorkerSettles, WorkerEnds, CloseConnections, Gone
<1>3. ASSUME NEW command \in Commands,
             Request(p, command) \/ HandlerSaves(p, command) \/ Answer(p, command)
      PROVE  phase' = phase
  BY <1>3 DEF Request, HandlerSaves, Answer
<1>4. CASE phase' = phase
  BY <1>4 DEF Gone
<1> QED BY <1>1, <1>2, <1>3, <1>4 DEF ProcessStep

\* A unit that ends takes its process with it; a new one finds none.
LEMMA OneAliveNext ==
  ASSUME ShutdownTypeOK, SupervisionTypeOK, OneAlive, JobLocks, [DeploymentNext]_deployment
  PROVE  OneAlive'
<1> USE DEF OneAlive, NoneAlive
<1>a. (\A q \in Processes : Alive(q)' => Alive(q)) =>
        \A p, q \in Processes : Alive(p)' /\ Alive(q)' => p = q
  OBVIOUS
<1>b. phase' = phase => \A q \in Processes : Alive(q)' <=> Alive(q)
  BY DEF Alive
<1>1. CASE ServiceOpens
  <2>1. unit = "starting" /\ unit' \in {"waiting", "running"} /\ NoneAlive
    BY <1>1 DEF ServiceOpens, Opens
  <2>2. ASSUME NEW p \in Processes, Open(p), owner = {}
        PROVE  OneAlive'
    <3>1. \A q \in Processes : Alive(q)' => q = p
      BY <2>1, <2>2, AliveSteps DEF ProcessStep
    <3>2. unit' = "running"
      <4>1. owner # {"backup"}
        BY <2>2
      <4> QED BY <1>1, <4>1 DEF ServiceOpens, Opens, JobLocks
    <3> QED BY <3>1, <3>2
  <2>3. CASE UNCHANGED service
    BY <1>b, <2>1, <2>3 DEF service
  <2> QED BY <1>1, <2>2, <2>3 DEF ServiceOpens
<1>2. CASE ServiceEnds
  <2>1. NoneAlive'
    <3>1. CASE \E p \in Processes : Alive(p)
      <4>1. PICK p \in Processes : Gone(p)
        BY <1>2, <3>1 DEF ServiceEnds, EndsProcess
      <4>2. Alive(p) /\ ~Alive(p)' /\ \A q \in Processes : Alive(q)' => Alive(q)
        BY <4>1, AliveSteps DEF ProcessStep, Gone, Open, Enter, Alive
      <4> QED BY <4>2
    <3>2. CASE NoneAlive
      BY <1>2, <1>b, <3>2 DEF ServiceEnds, EndsProcess, service
    <3> QED BY <3>1, <3>2
  <2> QED BY <2>1
<1>3. CASE ServiceSignalled
  <2>1. \A q \in Processes : Alive(q)' => Alive(q)
    <3>1. ASSUME NEW p \in Processes, Signal(p)
          PROVE  \A q \in Processes : Alive(q)' => Alive(q)
      BY <3>1 DEF Signal, Enter, Alive, ShutdownTypeOK
    <3> QED BY <1>3, <1>b, <3>1 DEF ServiceSignalled, SignalsProcess, service
  <2>2. unit \in {"running", "stopping"} => unit' \in {"running", "stopping"}
    BY <1>3 DEF ServiceSignalled, StopUnit, OperatorStops, Stopping, Active
  <2> QED BY <1>a, <2>1, <2>2
<1>4. CASE ServiceWorks
  <2>1. unit' = unit
    BY <1>4 DEF ServiceWorks, supervisionVars
  <2>2. ASSUME NEW p \in Processes, ServeReturns(p) \/ Release(p)
        PROVE  \A q \in Processes : Alive(q)' => Alive(q)
    BY <2>2 DEF ServeReturns, Release, Enter, Alive, ShutdownTypeOK
  <2>3. \A q \in Processes : Alive(q)' => Alive(q)
    BY <1>4, <1>b, <2>2 DEF ServiceWorks, WorkerStarts, WorkerSettles, WorkerEnds,
       CloseConnections, Request, HandlerSaves, Answer
  <2> QED BY <1>a, <2>1, <2>3
<1>5. CASE JobTakesLock \/ JobFreesLock
  <2>1. phase' = phase /\ unit' = unit
    BY <1>5 DEF JobTakesLock, JobFreesLock, OtherwiseServing, Capture, Captured,
       CommandFails, Interrupt
  <2> QED BY <1>b, <2>1
<1>6. CASE Unlocked
  <2>1. unit' = unit \/ unit \notin {"running", "stopping"}
    BY <1>6 DEF Unlocked, Check, UnitStopped, Verified, Finish, Resume, AutoRestart,
       WindowPasses, OperatorStarts, Active, SupervisionTypeOK
  <2>2. phase' = phase
    BY <1>6 DEF Unlocked, service
  <2> QED BY <1>b, <2>1, <2>2
<1>7. CASE UNCHANGED deployment
  BY <1>b, <1>7 DEF deployment, service, supervisionVars
<1> QED BY <1>1, <1>2, <1>3, <1>4, <1>5, <1>6, <1>7 DEF DeploymentNext

\* The job takes the lock when it begins to capture and frees it when it ends or fails.
LEMMA JobLocksNext ==
  ASSUME ShutdownTypeOK, SInv, SupervisionTypeOK, JobLocks, [DeploymentNext]_deployment
  PROVE  JobLocks'
<1> USE DEF JobLocks
<1>1. CASE JobTakesLock
  BY <1>1 DEF JobTakesLock, TakesLock, Capture
<1>2. CASE JobFreesLock
  <2>1. job' # "capturing" /\ owner' = owner \ {"backup"}
    BY <1>2 DEF JobFreesLock, FreesLock, Captured, CommandFails, Leaves, Interrupt
  <2> QED BY <2>1
<1>a. ASSUME ~JobTakesLock, ~JobFreesLock
      PROVE  (job' = "capturing") <=> (job = "capturing")
  BY <1>a DEF DeploymentNext, deployment, ServiceOpens, Opens, ServiceEnds, Crash, Stopped,
     ServiceSignalled, StopUnit, OperatorStops, ServiceWorks, Unlocked, Check, UnitStopped,
     Verified, Finish, AutoRestart, WindowPasses, OperatorStarts, supervisionVars
<1>3. CASE (\E p \in Processes : ProcessStep(p)) /\ ~JobTakesLock /\ ~JobFreesLock
  <2>2. PICK p \in Processes : ProcessStep(p)
    BY <1>3
  <2>3. p # "backup"
    BY DeploymentAssumption
  <2>4. CASE owner = {"backup"}
    <3>1. phase[p] \notin Serving
      BY <2>3, <2>4 DEF SInv, Locked
    <3>2. owner' = owner
      BY <2>2, <2>3, <2>4, <3>1
      DEF ProcessStep, Open, Enter, WorkerStarts, WorkerSettles, WorkerEnds, Signal,
          ServeReturns, CloseConnections, Release, Gone, Request, HandlerSaves, Answer, Serving
    <3> QED BY <1>3, <1>a, <3>2
  <2>5. CASE owner # {"backup"}
    <3>1. owner' # {"backup"}
      <4>1. owner' \in {owner, {p}, {}, owner \ {p}}
        BY <2>2
        DEF ProcessStep, Open, Enter, WorkerStarts, WorkerSettles, WorkerEnds, Signal,
            ServeReturns, CloseConnections, Release, Gone, Request, HandlerSaves, Answer
      <4>2. \A a, b \in owner : a = b
        BY DEF SInv, Locked
      <4> QED BY <2>3, <2>5, <4>1, <4>2
    <3> QED BY <1>3, <1>a, <2>5, <3>1
  <2> QED BY <2>4, <2>5
<1>4. CASE UNCHANGED service /\ ~JobTakesLock /\ ~JobFreesLock
  BY <1>4, <1>a DEF service
<1> QED BY <1>1, <1>2, <1>3, <1>4, DeploymentSteps

\* Nobody lives beside the process that saves or starts.
LEMMA CurrentNext ==
  ASSUME ShutdownTypeOK, SInv, OneAlive, OneAlive', Current, [DeploymentNext]_deployment
  PROVE  Current'
<1> USE DEF ShutdownTypeOK, Current, ConfirmedDurable
<1>1. ASSUME NEW p \in Processes, ProcessStep(p)
      PROVE  Current'
  <2> USE DEF Alive
  <2>1. CASE Open(p)
    BY <1>1, <2>1 DEF Open, Enter, OneAlive
  <2>2. CASE WorkerStarts(p) \/ WorkerEnds(p) \/ CloseConnections(p)
    BY <2>2 DEF WorkerStarts, WorkerEnds, CloseConnections
  <2>3. CASE WorkerSettles(p)
    <3>1. Alive(p)
      BY <2>3 DEF WorkerSettles, SInv, Locked, Serving
    <3>2. \A q \in Processes : Alive(q) => q = p
      BY <3>1 DEF OneAlive
    <3> QED BY <2>3, <3>1, <3>2 DEF WorkerSettles, Saves
  <2>4. CASE Signal(p) \/ ServeReturns(p) \/ Release(p)
    BY <2>4 DEF Signal, ServeReturns, Release, Enter
  <2>5. CASE Gone(p)
    BY <2>5 DEF Gone
  <2>6. ASSUME NEW command \in Commands, HandlerSaves(p, command)
        PROVE  Current'
    <3>1. \A q \in Processes : Alive(q) => q = p
      BY <2>6 DEF HandlerSaves, OneAlive
    <3> QED BY <2>6, <3>1 DEF HandlerSaves, Saves
  <2>7. ASSUME NEW command \in Commands, Request(p, command) \/ Answer(p, command)
        PROVE  Current'
    BY <2>7 DEF Request, Answer
  <2> QED BY <1>1, <2>1, <2>2, <2>3, <2>4, <2>5, <2>6, <2>7 DEF ProcessStep
<1>2. CASE UNCHANGED service \/ JobTakesLock \/ JobFreesLock
  BY <1>2 DEF service, JobTakesLock, JobFreesLock, OtherwiseServing, Alive
<1> QED BY <1>1, <1>2, DeploymentSteps

\* Nothing runs at first.
LEMMA DInvInit == DeploymentInit => DInv
<1> SUFFICES ASSUME DeploymentInit PROVE DInv
  OBVIOUS
<1>1. ShutdownTypeOK /\ SInv
  BY ShutdownInvInit DEF DeploymentInit
<1>2. SupervisionTypeOK /\ StaysDown /\ job # "capturing"
  BY DEF DeploymentInit, SupervisionInit, SupervisionTypeOK, StaysDown
<1>3. OneAlive /\ owner = {} /\ Current
  BY DEF DeploymentInit, ShutdownInit, OneAlive, NoneAlive, Alive, Current, ConfirmedDurable
<1> QED BY <1>1, <1>2, <1>3 DEF DInv, JobLocks

\* Every step of the deployment keeps the invariant.
LEMMA DInvNext == DInv /\ [DeploymentNext]_deployment => DInv'
BY ServiceNext, SupervisionNext, OneAliveNext, JobLocksNext, CurrentNext DEF DInv

\* The inductive invariant of the deployment, under any scheduling.
THEOREM DeploymentInvariance == DeploymentInit /\ [][DeploymentNext]_deployment => []DInv
BY DInvInit, DInvNext, PTL

\* Under the supervisor, who signals and kills at any time, workers settle under the lock.
THEOREM WorkersSettleUnderLock == DeploymentSpec => []WorkerUnderLock
<1>1. DInv => WorkerUnderLock
  BY DEF DInv, SInv, Locked, WorkerUnderLock, Held
<1> QED BY <1>1, DeploymentInvariance, PTL DEF DeploymentSpec

\* What a client has been told is done survives stops, restarts, kills and backups, with or
\* without the lock when it was saved.
THEOREM ConfirmedStays == DeploymentSpec => []ConfirmedDurable
<1>1. DInv => ConfirmedDurable
  BY DEF DInv, Current
<1> QED BY <1>1, DeploymentInvariance, PTL DEF DeploymentSpec

\* The supervisor never starts the service between the job's stop and its capture.
THEOREM BackupIsUndisturbed == DeploymentSpec => []CaptureUndisturbed
<1>1. DInv => CaptureUndisturbed
  BY DEF DInv, StaysDown, CaptureUndisturbed
<1> QED BY <1>1, DeploymentInvariance, PTL DEF DeploymentSpec

\* While the job captures nobody lives to write, unless the operator starts the service.
THEOREM CaptureIsQuiescent == DeploymentSpec => CaptureQuiescent
<1>1. DInv /\ [DeploymentNext]_deployment =>
        [job = "capturing" /\ disk' # disk => "start" \in outside]_deployment
  <2> SUFFICES ASSUME DInv, [DeploymentNext]_deployment, job = "capturing",
                      "start" \notin outside
               PROVE  disk' = disk
    OBVIOUS
  <2>1. NoneAlive
    BY DEF DInv, StaysDown, OneAlive
  <2>2. \A p \in Processes : worker[p] # "executing"
    BY <2>1 DEF DInv, SInv, Locked, Serving, NoneAlive, Alive
  <2>3. ASSUME NEW p \in Processes, ProcessStep(p) PROVE disk' = disk
    BY <2>1, <2>2, <2>3
    DEF ProcessStep, Open, WorkerStarts, WorkerSettles, WorkerEnds, Signal, ServeReturns,
        CloseConnections, Release, Gone, Request, HandlerSaves, Answer, NoneAlive
  <2> QED BY <2>3, DeploymentSteps
          DEF service, JobTakesLock, JobFreesLock, OtherwiseServing
<1> QED BY <1>1, DeploymentInvariance, PTL DEF DeploymentSpec, CaptureQuiescent
=============================================================================
