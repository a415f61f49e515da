---------------------------- MODULE MissionProofs ----------------------------
(***************************************************************************)
(* Theorems about the mission for every value of the constants.            *)
(***************************************************************************)
EXTENDS MissionProperties, TLAPS

-----------------------------------------------------------------------------
(* The functions on snapshots return snapshots.                            *)

\* A command of the operator changes the status alone (kernel.Transition).
LEMMA ControlledType ==
  ASSUME NEW s \in Snapshots, NEW action \in DOMAIN Transition
  PROVE  /\ Controlled(s, action) \in Snapshots
         /\ Controlled(s, action).actions = s.actions
<1>1. Transition[action] \in Statuses
  BY DEF Transition, Statuses
<1> QED BY <1>1 DEF Controlled, Snapshots

\* Pausing changes the status alone.
LEMMA PausedType ==
  ASSUME NEW s \in Snapshots
  PROVE  /\ Paused(s) \in Snapshots /\ PausedIfActive(s) \in Snapshots
         /\ Paused(s).actions = s.actions /\ PausedIfActive(s).actions = s.actions
BY DEF Paused, PausedIfActive, Snapshots, Statuses

\* Reserving a model call changes the counter alone.
LEMMA ReservedType ==
  ASSUME NEW s \in Snapshots
  PROVE  Reserved(s) \in Snapshots /\ Reserved(s).actions = s.actions
<1> DEFINE n == IF Cognitive THEN s.modelAttempts + 1 ELSE s.modelAttempts
<1>1. n \in Nat
  BY DEF Snapshots
<1>2. Reserved(s) = [s EXCEPT !.modelAttempts = n]
  BY DEF Reserved
<1> HIDE DEF n
<1> QED BY <1>1, <1>2 DEF Snapshots

\* What is saved before a cycle leaves the queue alone.
LEMMA CycleStartType ==
  ASSUME NEW s \in Snapshots
  PROVE  CycleStart(s) \in Snapshots /\ CycleStart(s).actions = s.actions
<1>1. /\ [s EXCEPT !.status = "completed"] \in Snapshots
      /\ [s EXCEPT !.status = "completed"].actions = s.actions
  BY DEF Snapshots, Statuses
<1>2. Begun(s) \in Snapshots /\ Begun(s).actions = s.actions
  <2> DEFINE n == IF s.pending = 0 THEN s.completed + 1 ELSE s.pending
  <2>1. n \in Nat
    BY DEF Snapshots
  <2>2. Begun(s) = [s EXCEPT !.pending = n]
    BY DEF Begun
  <2> HIDE DEF n
  <2> QED BY <2>1, <2>2 DEF Snapshots
<1>3. Paused(Begun(s)) \in Snapshots /\ Paused(Begun(s)).actions = s.actions
  BY <1>2, PausedType
<1>4. Reserved(Begun(s)) \in Snapshots /\ Reserved(Begun(s)).actions = s.actions
  BY <1>2, ReservedType
<1> QED BY <1>1, <1>3, <1>4 DEF CycleStart

\* Confirming a cycle leaves the queue alone.
LEMMA CommittedType ==
  ASSUME NEW s \in Snapshots, NEW r \in Results
  PROVE  Committed(s, r) \in Snapshots /\ Committed(s, r).actions = s.actions
<1> DEFINE artifacts == Append(s.artifacts, [cycle |-> s.completed + 1, digest |-> r])
           count == s.completed + 1
<1>1. artifacts \in Seq([cycle : Nat, digest : Results]) /\ count \in Nat
  BY DEF Snapshots
<1> DEFINE status == IF s.completed + 1 >= MaxCycles THEN "completed" ELSE s.status
<1>2. status \in Statuses
  BY DEF Snapshots, Statuses
<1>3. Committed(s, r) =
        [s EXCEPT !.artifacts = artifacts, !.completed = count, !.pending = 0,
                  !.resting = TRUE, !.status = status]
  BY DEF Committed
<1> HIDE DEF status, artifacts, count
<1>4. [s EXCEPT !.artifacts = artifacts, !.completed = count] \in Snapshots
  BY <1>1 DEF Snapshots
<1>5. \A t \in Snapshots :
        [t EXCEPT !.pending = 0, !.resting = TRUE, !.status = status] \in Snapshots
  BY <1>2 DEF Snapshots
<1> QED BY <1>3, <1>4, <1>5 DEF Snapshots

\* A proposal extends the queue by one.
LEMMA ProposedType ==
  ASSUME NEW s \in Snapshots
  PROVE  /\ Proposed(s) \in Snapshots
         /\ Proposed(s).actions = Append(s.actions, NewIntent)
<1>1. NewIntent \in Intents
  BY DEF NewIntent, Intents, ActionStatuses
<1>2. Append(s.actions, NewIntent) \in Seq(Intents)
  BY <1>1 DEF Snapshots
<1> QED BY <1>2 DEF Proposed, Snapshots

\* Replacing one action keeps the queue's length and its other actions.
LEMMA WithActionType ==
  ASSUME NEW s \in Snapshots, NEW i \in DOMAIN s.actions, NEW a \in Intents
  PROVE  /\ WithAction(s, i, a) \in Snapshots
         /\ WithAction(s, i, a).actions = [s.actions EXCEPT ![i] = a]
         /\ Len(WithAction(s, i, a).actions) = Len(s.actions)
         /\ DOMAIN WithAction(s, i, a).actions = DOMAIN s.actions
<1>1. s.actions \in Seq(Intents)
  BY DEF Snapshots
<1>2. /\ [s.actions EXCEPT ![i] = a] \in Seq(Intents)
      /\ Len([s.actions EXCEPT ![i] = a]) = Len(s.actions)
      /\ DOMAIN [s.actions EXCEPT ![i] = a] = DOMAIN s.actions
  BY <1>1
<1> QED BY <1>2 DEF WithAction, Snapshots

\* The three updates of an action yield an action.
LEMMA IntentType ==
  ASSUME NEW a \in Intents
  PROVE  /\ \A command \in Commands : Decided(a, command) \in Intents
         /\ \A write \in BOOLEAN : InFlight(a, write) \in Intents
         /\ \A answer \in {"none", "receipt", "absent", "error"} :
              Outcome(a, answer) \in Intents
<1>1. \A command \in Commands : Decided(a, command) \in Intents
  BY DEF Decided, Intents, ActionStatuses, Authorised
<1>2. ASSUME NEW write \in BOOLEAN
      PROVE  InFlight(a, write) \in Intents
  <2> DEFINE n == IF write THEN a.attempts + 1 ELSE a.attempts
             c == a.checks + 1
  <2>1. n \in Nat /\ c \in Nat
    BY DEF Intents
  <2>2. InFlight(a, write) =
          [a EXCEPT !.checks = c, !.attempts = n, !.status = "in_flight"]
    BY DEF InFlight
  <2>3. "in_flight" \in ActionStatuses
    BY DEF ActionStatuses, Authorised
  <2> HIDE DEF n, c
  <2> QED BY <2>1, <2>2, <2>3 DEF Intents
<1>3. ASSUME NEW answer \in {"none", "receipt", "absent", "error"}
      PROVE  Outcome(a, answer) \in Intents
  BY DEF Outcome, Intents, ActionStatuses, Authorised
<1> QED BY <1>1, <1>2, <1>3

\* The constant jobs are jobs, and answering a job yields a job.
LEMMA JobType ==
  ASSUME TypeOK
  PROVE  /\ Idle \in Jobs /\ CycleJob \in Jobs
         /\ \A i \in Nat, write \in BOOLEAN : ActionJob(i, write) \in Jobs
         /\ \A answer \in {"none", "receipt", "absent", "error"} : Answered(answer) \in Jobs
         /\ [job EXCEPT !.phase = "send"] \in Jobs
         /\ [job EXCEPT !.phase = "put"] \in Jobs
<1>1. Idle \in Jobs
  BY DEF Idle, Jobs
<1>2. CycleJob \in Jobs
  BY <1>1 DEF CycleJob, Jobs, TypeOK
<1>3. \A i \in Nat, write \in BOOLEAN : ActionJob(i, write) \in Jobs
  BY DEF ActionJob, Jobs, TypeOK
<1>4. \A answer \in {"none", "receipt", "absent", "error"} : Answered(answer) \in Jobs
  BY DEF Answered, Jobs, TypeOK
<1>5. /\ [job EXCEPT !.phase = "send"] \in Jobs
      /\ [job EXCEPT !.phase = "put"] \in Jobs
  BY DEF Jobs, TypeOK
<1> QED BY <1>1, <1>2, <1>3, <1>4, <1>5

-----------------------------------------------------------------------------
(* Type correctness.                                                       *)

\* The mission starts in a well-typed state.
LEMMA TypeInit == Init => TypeOK
<1> SUFFICES ASSUME Init PROVE TypeOK
  OBVIOUS
<1>1. Fresh \in Snapshots
  BY DEF Fresh, Snapshots, Statuses
<1>2. Idle \in Jobs
  BY DEF Idle, Jobs
<1> QED BY <1>1, <1>2 DEF Init, TypeOK

\* Saving a snapshot keeps the types.
LEMMA PersistType ==
  ASSUME TypeOK, NEW new \in Snapshots, Persist(new)
  PROVE  /\ st' \in Snapshots /\ disk' \in Snapshots
         /\ fatal' \in BOOLEAN /\ saveFailed' \in BOOLEAN
BY DEF TypeOK, Persist, Saved, SaveFails

\* The settled snapshot is a snapshot.
LEMMA SettledType ==
  ASSUME TypeOK
  PROVE  SettledSnapshot \in Snapshots
<1> DEFINE a == st.actions[job.index]
           s == WithAction(st, job.index, Outcome(a, job.answer))
<1>1. s \in Snapshots
  <2>1. CASE job.index \in DOMAIN st.actions
    <3>1. a \in Intents /\ job.answer \in {"none", "receipt", "absent", "error"}
      BY <2>1 DEF TypeOK, Snapshots, Jobs
    <3> QED BY <2>1, <3>1, IntentType, WithActionType DEF TypeOK
  <2>2. CASE job.index \notin DOMAIN st.actions
    <3>1. s = st
      BY <2>2 DEF WithAction, TypeOK, Snapshots
    <3> QED BY <3>1 DEF TypeOK
  <2> QED BY <2>1, <2>2
<1>2. PausedIfActive(s) \in Snapshots
  BY <1>1, PausedType
<1> QED BY <1>1, <1>2 DEF SettledSnapshot

\* Starting an action keeps the types.
LEMMA StartActionType ==
  ASSUME TypeOK, NEW i \in DOMAIN st.actions, NEW readOnly \in BOOLEAN,
         StartAction(i, readOnly), proc' \in {"none", "serve", "run", "cli"}
  PROVE  TypeOK'
<1> DEFINE a == st.actions[i]
           write == AllowWrite(a, readOnly)
           new == WithAction(st, i, InFlight(a, write))
<1>1. a \in Intents /\ i \in Nat
  BY DEF TypeOK, Snapshots
<1>2. write \in BOOLEAN
  BY DEF AllowWrite
<1>3. new \in Snapshots
  BY <1>1, <1>2, IntentType, WithActionType DEF TypeOK
<1>4. PausedIfActive(st) \in Snapshots
  BY PausedType DEF TypeOK
<1>5. /\ st' \in Snapshots /\ disk' \in Snapshots
      /\ fatal' \in BOOLEAN /\ saveFailed' \in BOOLEAN
  <2>1. CASE Exhausted(a, write)
    <3>1. Persist(PausedIfActive(st))
      BY <2>1 DEF StartAction
    <3> QED BY <1>4, <3>1, PersistType
  <2>2. CASE ~Exhausted(a, write)
    <3>1. Persist(new)
      BY <2>2 DEF StartAction, Launched, Persist
    <3> HIDE DEF new
    <3> QED BY <1>3, <3>1, PersistType
  <2> QED BY <2>1, <2>2
<1>6. job' \in Jobs
  BY <1>1, <1>2, JobType DEF StartAction, Launched
<1>7. UNCHANGED <<files, epoch, stopping, calls, interrupted, network>>
  BY DEF StartAction
<1> QED BY <1>5, <1>6, <1>7 DEF TypeOK, network

\* Every step keeps the types.
LEMMA TypeNext == TypeOK /\ [Next]_vars => TypeOK'
<1> SUFFICES ASSUME TypeOK, [Next]_vars PROVE TypeOK'
  OBVIOUS
<1> USE DEF network
<1>0. /\ Idle \in Jobs /\ CycleJob \in Jobs
      /\ \A answer \in {"none", "receipt", "absent", "error"} : Answered(answer) \in Jobs
  BY JobType
<1>1. CASE StartCycle
  <2>1. CycleStart(st) \in Snapshots
    BY CycleStartType DEF TypeOK
  <2>2. Persist(CycleStart(st)) /\ job' \in Jobs /\ calls' \in Nat
    BY <1>0, <1>1 DEF StartCycle, Launched, Persist, TypeOK
  <2>3. /\ st' \in Snapshots /\ disk' \in Snapshots
        /\ fatal' \in BOOLEAN /\ saveFailed' \in BOOLEAN
    BY <2>1, <2>2, PersistType
  <2> QED BY <1>1, <2>2, <2>3 DEF StartCycle, TypeOK
<1>2. CASE CycleDiscarded
  BY <1>0, <1>2 DEF CycleDiscarded, TypeOK
<1>3. CASE CycleFailed
  <2>1. Paused(st) \in Snapshots
    BY PausedType DEF TypeOK
  <2> QED BY <1>0, <1>3, <2>1 DEF CycleFailed, SaveFails, TypeOK
<1>4. CASE TickFails \/ Exit \/ Crash
  <2>1. Gone
    BY <1>4 DEF TickFails, Exit, Crash
  <2>2. epoch' \in Nat /\ stopping' \in BOOLEAN /\ fatal' \in BOOLEAN
    BY <2>1 DEF Gone
  <2> QED BY <1>0, <2>1, <2>2 DEF Gone, TypeOK
<1>5. ASSUME NEW r \in Results, CycleCommitted(r) PROVE TypeOK'
  <2>1. Committed(st, r) \in Snapshots
    BY CommittedType DEF TypeOK
  <2>2. Persist(Committed(st, r)) =>
          /\ st' \in Snapshots /\ disk' \in Snapshots
          /\ fatal' \in BOOLEAN /\ saveFailed' \in BOOLEAN
    BY <2>1, PersistType
  <2>3. /\ files' \subseteq Results
        /\ st' \in Snapshots /\ disk' \in Snapshots
        /\ fatal' \in BOOLEAN /\ saveFailed' \in BOOLEAN
    <3>1. CASE files' = files \cup {r} /\ Persist(Committed(st, r))
      BY <2>2, <3>1 DEF TypeOK
    <3>2. CASE /\ files' \in {files, files \cup {r}}
               /\ fatal' = TRUE /\ saveFailed' = TRUE /\ UNCHANGED <<st, disk>>
      BY <3>2 DEF TypeOK
    <3> QED BY <1>5, <3>1, <3>2 DEF CycleCommitted, StoreArtifact
  <2> QED BY <1>0, <1>5, <2>3 DEF CycleCommitted, TypeOK
<1>6. CASE StepAction
  BY <1>6, StartActionType DEF StepAction, TypeOK
<1>7. CASE WriteAdapter
  <2>1. CASE QueryFinds \/ PutConfirmed \/ RequestFails
    BY <1>0, <2>1 DEF QueryFinds, PutConfirmed, RequestFails, TypeOK
  <2>2. CASE QueryMisses
    BY <1>0, <2>2, JobType DEF QueryMisses, TypeOK
  <2>3. CASE SendPut
    <3>1. job' \in Jobs
      BY <2>3, JobType DEF SendPut
    <3>2. sent' \in [Indexes -> Nat]
      <4>1. \A i \in Indexes : sent[i] + 1 \in Nat
        BY DEF TypeOK
      <4> QED BY <2>3, <4>1 DEF SendPut, TypeOK
    <3> QED BY <2>3, <3>1, <3>2 DEF SendPut, TypeOK
  <2> QED BY <1>7, <2>1, <2>2, <2>3 DEF WriteAdapter
<1>8. CASE SettleAction
  <2>1. SettledSnapshot \in Snapshots
    BY SettledType
  <2>2. Persist(SettledSnapshot)
    BY <1>8 DEF SettleAction
  <2>3. /\ st' \in Snapshots /\ disk' \in Snapshots
        /\ fatal' \in BOOLEAN /\ saveFailed' \in BOOLEAN
    BY <2>1, <2>2, PersistType
  <2> QED BY <1>0, <1>8, <2>3 DEF SettleAction, TypeOK
<1>9. ASSUME NEW action \in DOMAIN Transition, Control(action) PROVE TypeOK'
  <2>1. Controlled(st, action) \in Snapshots
    BY ControlledType DEF TypeOK
  <2>2. Persist(Controlled(st, action)) /\ epoch' \in Nat
    BY <1>9 DEF Control, TypeOK
  <2>3. /\ st' \in Snapshots /\ disk' \in Snapshots
        /\ fatal' \in BOOLEAN /\ saveFailed' \in BOOLEAN
    BY <2>1, <2>2, PersistType
  <2> QED BY <1>9, <2>2, <2>3 DEF Control, TypeOK
<1>10. ASSUME NEW action \in DOMAIN Transition, OfflineControl(action) PROVE TypeOK'
  <2>1. Controlled(disk, action) \in Snapshots
    BY ControlledType DEF TypeOK
  <2> QED BY <1>10, <2>1 DEF OfflineControl, TypeOK
<1>11. ASSUME NEW new \in Snapshots, SaveDecision(new)
       PROVE  /\ st' \in Snapshots /\ disk' \in Snapshots
              /\ fatal' \in BOOLEAN /\ saveFailed' \in BOOLEAN
  BY <1>11, PersistType DEF SaveDecision, TypeOK
<1>12. CASE Propose
  <2>1. Proposed(st) \in Snapshots
    BY ProposedType DEF TypeOK
  <2> QED BY <1>11, <1>12, <2>1 DEF Propose, TypeOK
<1>13. ASSUME NEW i \in Indexes, NEW command \in Commands, Decide(i, command)
       PROVE  TypeOK'
  <2>1. i \in DOMAIN st.actions /\ st.actions[i] \in Intents
    BY <1>13 DEF Decide, TypeOK, Snapshots
  <2>2. WithAction(st, i, Decided(st.actions[i], command)) \in Snapshots
    BY <2>1, IntentType, WithActionType DEF TypeOK
  <2>3. licensed' \subseteq Indexes
    BY <1>13 DEF Decide, TypeOK
  <2> QED BY <1>11, <1>13, <2>2, <2>3 DEF Decide, TypeOK
<1>14. ASSUME NEW i \in Indexes, NEW readOnly \in BOOLEAN, RunAction(i, readOnly)
       PROVE  TypeOK'
  BY <1>14, StartActionType DEF RunAction
<1>15. ASSUME NEW kind \in {"serve", "run"}, Start(kind) PROVE TypeOK'
  BY <1>15 DEF Start, TypeOK
<1>16. CASE Signal
  BY <1>16 DEF Signal, TypeOK
<1>17. ASSUME NEW i \in Indexes, Deliver(i) PROVE TypeOK'
  BY <1>17 DEF Deliver, TypeOK
<1>18. CASE Elapse
  BY <1>18 DEF Elapse, TypeOK, Snapshots
<1>19. CASE UNCHANGED vars
  BY <1>19 DEF vars, TypeOK
<1> QED
  BY <1>1, <1>2, <1>3, <1>4, <1>5, <1>6, <1>7, <1>8, <1>9, <1>10, <1>12, <1>13,
     <1>14, <1>15, <1>16, <1>17, <1>18, <1>19
  DEF Next, Cycles, Actions, Operator, Host, World

\* Every variable keeps its type, whatever the worker, the operator and the
\* environment do.
THEOREM TypeCorrect == Spec => []TypeOK
BY TypeInit, TypeNext, PTL DEF Spec

-----------------------------------------------------------------------------
(* What the controller acts upon is what is on disk.                       *)

\* A state without a process holds no controller state.
NoProcess == proc = "none" => ~fatal /\ ~Running

\* During an execution only the mission's status may differ from the disk: the
\* queue is not touched while a job runs.
RunningSaved == Running => st.actions = disk.actions

Durability == NoProcess /\ NoUnsavedState /\ RunningSaved

\* Saving establishes that memory and disk agree unless fatal is set, and never
\* changes the queue when the new snapshot does not.
LEMMA PersistSaves ==
  ASSUME NEW new, Persist(new)
  PROVE  /\ NoUnsavedState'
         /\ disk' = disk \/ disk' = new
         /\ st' = new
BY DEF Persist, Saved, SaveFails, NoUnsavedState

\* The initial snapshot is on disk.
LEMMA DurabilityInit == Init => Durability
BY DEF Init, Durability, NoProcess, NoUnsavedState, RunningSaved, Running, Idle

\* Starting an action saves what it changes before the job exists.
LEMMA StartActionDurable ==
  ASSUME TypeOK, Durability, NEW i, NEW readOnly, StartAction(i, readOnly),
         ~fatal, proc' # "none"
  PROVE  Durability'
<1> DEFINE a == st.actions[i]
           write == AllowWrite(a, readOnly)
           new == WithAction(st, i, InFlight(a, write))
<1>1. CASE Exhausted(a, write)
  <2>1. Persist(PausedIfActive(st)) /\ job' = Idle
    BY <1>1 DEF StartAction
  <2> QED BY <2>1, PersistSaves
          DEF Durability, NoProcess, RunningSaved, Running, Idle
<1>2. CASE ~Exhausted(a, write)
  <2>1. Persist(new) /\ (job' # Idle => disk' = new)
    BY <1>2 DEF StartAction, Launched, Persist, Saved
  <2> HIDE DEF new
  <2> QED BY <2>1, PersistSaves
          DEF Durability, NoProcess, RunningSaved, Running, Idle
<1> QED BY <1>1, <1>2

\* Every step keeps memory and disk in agreement.
LEMMA DurabilityNext == TypeOK /\ Durability /\ [Next]_vars => Durability'
<1> SUFFICES ASSUME TypeOK, Durability, [Next]_vars PROVE Durability'
  OBVIOUS
<1> USE DEF Durability, NoProcess, NoUnsavedState, RunningSaved, Running
<1>0. Idle.kind = "none" /\ CycleJob.kind = "cycle"
  BY DEF Idle, CycleJob
<1>1. CASE StartCycle
  BY <1>0, <1>1 DEF StartCycle, Launched, MayStep, Saved, SaveFails
<1>2. CASE CycleDiscarded
  BY <1>0, <1>2 DEF CycleDiscarded
<1>3. CASE CycleFailed
  BY <1>0, <1>3 DEF CycleFailed, SaveFails
<1>4. CASE TickFails \/ Exit \/ Crash
  <2>1. Gone
    BY <1>4 DEF TickFails, Exit, Crash
  <2> QED BY <1>0, <2>1 DEF Gone
<1>5. ASSUME NEW r \in Results, CycleCommitted(r) PROVE Durability'
  <2>1. CASE Persist(Committed(st, r))
    BY <1>0, <1>5, <2>1, PersistSaves DEF CycleCommitted
  <2>2. CASE fatal' = TRUE /\ UNCHANGED <<st, disk>>
    BY <1>0, <1>5, <2>2 DEF CycleCommitted
  <2> QED BY <1>5, <2>1, <2>2 DEF CycleCommitted, StoreArtifact
<1>6. CASE StepAction
  <2>1. PICK i \in DOMAIN st.actions : StartAction(i, FALSE) /\ MayStep /\ UNCHANGED proc
    BY <1>6 DEF StepAction
  <2>2. ~fatal /\ proc' # "none"
    BY <2>1 DEF MayStep
  <2> QED BY <2>1, <2>2, StartActionDurable
<1>7. CASE WriteAdapter
  BY <1>7 DEF WriteAdapter, QueryFinds, QueryMisses, SendPut, PutConfirmed,
              RequestFails, Answered
<1>8. CASE SettleAction
  BY <1>0, <1>8, PersistSaves DEF SettleAction
<1>9. ASSUME NEW action \in DOMAIN Transition, Control(action) PROVE Durability'
  <2>1. Controlled(st, action).actions = st.actions
    BY ControlledType DEF TypeOK
  <2> QED BY <1>9, <2>1, PersistSaves DEF Control
<1>10. ASSUME NEW action \in DOMAIN Transition, OfflineControl(action) PROVE Durability'
  BY <1>10 DEF OfflineControl
<1>11. ASSUME NEW new, SaveDecision(new), MayDecide, UNCHANGED <<proc, job>>
       PROVE  Durability'
  BY <1>11, PersistSaves DEF SaveDecision, MayDecide
<1>12. CASE Propose
  BY <1>11, <1>12 DEF Propose
<1>13. ASSUME NEW i \in Indexes, NEW command \in Commands, Decide(i, command)
       PROVE  Durability'
  BY <1>11, <1>13 DEF Decide
<1>14. ASSUME NEW i \in Indexes, NEW readOnly \in BOOLEAN, RunAction(i, readOnly)
       PROVE  Durability'
  BY <1>14, StartActionDurable DEF RunAction
<1>15. ASSUME NEW kind \in {"serve", "run"}, Start(kind) PROVE Durability'
  BY <1>15 DEF Start
<1>16. CASE Signal
  BY <1>16 DEF Signal
<1>17. ASSUME NEW i \in Indexes, Deliver(i) PROVE Durability'
  BY <1>17 DEF Deliver
<1>18. CASE Elapse
  BY <1>18 DEF Elapse, TypeOK, Snapshots
<1>19. CASE UNCHANGED vars
  BY <1>19 DEF vars
<1> QED
  BY <1>1, <1>2, <1>3, <1>4, <1>5, <1>6, <1>7, <1>8, <1>9, <1>10, <1>12, <1>13,
     <1>14, <1>15, <1>16, <1>17, <1>18, <1>19
  DEF Next, Cycles, Actions, Operator, Host, World

\* As long as the controller is not blocked by a failed save, a restart finds what
\* it acts upon.
THEOREM StateIsSaved == Spec => []NoUnsavedState
<1>1. Init => TypeOK /\ Durability
  BY TypeInit, DurabilityInit
<1>2. TypeOK /\ Durability /\ [Next]_vars => (TypeOK /\ Durability)'
  BY TypeNext, DurabilityNext
<1>3. Durability => NoUnsavedState
  BY DEF Durability
<1> QED BY <1>1, <1>2, <1>3, PTL DEF Spec

-----------------------------------------------------------------------------
(* The queue on disk, the requests and the destination.                    *)

\* An action job works on a durable in_flight marker, whose reservation still
\* covers the PUT it may send.
JobReserved ==
  job.kind = "action" =>
    /\ job.index \in DOMAIN disk.actions /\ job.index \in Indexes
    /\ disk.actions[job.index].status = "in_flight"
    /\ job.write /\ job.phase \in {"get", "send"} =>
         sent[job.index] < disk.actions[job.index].attempts
    /\ job.phase = "send" => job.write
    /\ job.answer = "receipt" => job.index \in remote

\* Proposed and rejected actions have reserved no write.
Untouched ==
  \A i \in DOMAIN disk.actions :
    disk.actions[i].status \in {"proposed", "rejected"} => disk.actions[i].attempts = 0

\* Records at the destination come from a PUT of this mission.
EffectsSent == \A i \in remote : sent[i] > 0

\* A recorded success has its record at the destination.
SuccessesReal ==
  \A i \in DOMAIN disk.actions : disk.actions[i].status = "succeeded" => i \in remote

Queue == JobReserved /\ PutsReserved /\ Untouched /\ EffectsSent /\ SuccessesReal

IInv == Durability /\ Queue

\* A step that leaves the queue, the requests and the destination alone.
Quiet == /\ disk'.actions = disk.actions
         /\ UNCHANGED <<sent, remote>>
         /\ job' = job \/ job'.kind # "action"

\* Cycles, control commands and the host never touch the queue.
LEMMA QuietSteps ==
  ASSUME TypeOK, Durability,
         \/ Cycles \/ Host \/ Elapse \/ UNCHANGED vars
         \/ \E action \in DOMAIN Transition : Control(action) \/ OfflineControl(action)
  PROVE  Quiet
<1> USE DEF Quiet, network
<1>0. Idle.kind = "none" /\ CycleJob.kind = "cycle"
  BY DEF Idle, CycleJob
<1>a. (~fatal \/ Running) => st.actions = disk.actions
  BY DEF Durability, NoUnsavedState, RunningSaved
<1>1. CASE StartCycle
  <2>1. CycleStart(st).actions = disk.actions
    BY <1>1, <1>a, CycleStartType DEF StartCycle, MayStep, TypeOK
  <2>2. disk' = disk \/ disk' = CycleStart(st)
    BY <1>1 DEF StartCycle, Launched, Saved, SaveFails
  <2>3. job'.kind # "action"
    BY <1>0, <1>1 DEF StartCycle, Launched
  <2> QED BY <1>1, <2>1, <2>2, <2>3 DEF StartCycle
<1>2. CASE CycleDiscarded
  BY <1>0, <1>2 DEF CycleDiscarded
<1>3. CASE CycleFailed
  <2>1. Paused(st).actions = disk.actions
    BY <1>3, <1>a, PausedType DEF CycleFailed, Running, TypeOK
  <2> QED BY <1>0, <1>3, <2>1 DEF CycleFailed, SaveFails
<1>4. CASE TickFails \/ Exit \/ Crash
  <2>1. Gone
    BY <1>4 DEF TickFails, Exit, Crash
  <2> QED BY <1>0, <2>1 DEF Gone
<1>5. ASSUME NEW r \in Results, CycleCommitted(r) PROVE Quiet
  <2>1. Committed(st, r).actions = disk.actions
    BY <1>5, <1>a, CommittedType DEF CycleCommitted, Running, TypeOK
  <2>2. disk' = disk \/ disk' = Committed(st, r)
    BY <1>5, PersistSaves DEF CycleCommitted, StoreArtifact
  <2> QED BY <1>0, <1>5, <2>1, <2>2 DEF CycleCommitted
<1>6. ASSUME NEW action \in DOMAIN Transition, Control(action) PROVE Quiet
  <2>1. Controlled(st, action).actions = disk.actions
    BY <1>6, <1>a, ControlledType DEF Control, TypeOK
  <2>2. disk' = disk \/ disk' = Controlled(st, action)
    BY <1>6, PersistSaves DEF Control
  <2> QED BY <1>6, <2>1, <2>2 DEF Control
<1>7. ASSUME NEW action \in DOMAIN Transition, OfflineControl(action) PROVE Quiet
  <2>1. Controlled(disk, action).actions = disk.actions
    BY ControlledType DEF TypeOK
  <2> QED BY <1>7, <2>1 DEF OfflineControl
<1>8. ASSUME NEW kind \in {"serve", "run"}, Start(kind) PROVE Quiet
  BY <1>8 DEF Start
<1>9. CASE Signal
  BY <1>9 DEF Signal
<1>10. CASE Elapse
  BY <1>10 DEF Elapse, TypeOK, Snapshots
<1>11. CASE UNCHANGED vars
  BY <1>11 DEF vars
<1> QED
  BY <1>1, <1>2, <1>3, <1>4, <1>5, <1>6, <1>7, <1>8, <1>9, <1>10, <1>11
  DEF Cycles, Host

\* A quiet step keeps the queue's invariant.
LEMMA QuietQueue == Queue /\ Quiet => Queue'
BY DEF Queue, Quiet, JobReserved, PutsReserved, Untouched, EffectsSent, SuccessesReal

\* Nothing has been proposed, sent or written at first.
LEMMA QueueInit == Init => Queue
BY DEF Init, Queue, JobReserved, PutsReserved, Untouched, EffectsSent, SuccessesReal,
       Fresh, Idle

\* Starting an action reserves before it sends.
LEMMA StartActionQueue ==
  ASSUME TypeOK, TypeOK', Durability, Queue, NEW i \in DOMAIN st.actions,
         NEW readOnly \in BOOLEAN, StartAction(i, readOnly), ~fatal, ~Running
  PROVE  Queue'
<1> DEFINE a == st.actions[i]
           write == AllowWrite(a, readOnly)
           b == InFlight(a, write)
           new == WithAction(st, i, b)
<1>0. Idle.kind = "none" /\ st = disk /\ a \in Intents /\ write \in BOOLEAN
  BY DEF Idle, Durability, NoUnsavedState, TypeOK, Snapshots, AllowWrite
<1>1. UNCHANGED <<sent, remote>>
  BY DEF StartAction, network
<1>2. CASE Exhausted(a, write)
  <2>1. Persist(PausedIfActive(st)) /\ job' = Idle
    BY <1>2 DEF StartAction
  <2>2. Quiet
    BY <1>0, <1>1, <2>1, PersistSaves, PausedType DEF Quiet, TypeOK
  <2> QED BY <2>2, QuietQueue
<1>3. CASE ~Exhausted(a, write)
  <2>1. /\ b \in Intents /\ b.status = "in_flight"
        /\ b.attempts = IF write THEN a.attempts + 1 ELSE a.attempts
    BY <1>0, IntentType DEF InFlight, Intents
  <2>2. /\ new.actions = [disk.actions EXCEPT ![i] = b]
        /\ DOMAIN new.actions = DOMAIN disk.actions
    BY <1>0, <2>1, WithActionType DEF TypeOK
  <2>3. i \in Indexes /\ i \in DOMAIN disk.actions
    <3>1. Len(st.actions) <= MaxActions
      BY DEF StartAction, ValidActions
    <3>2. st.actions \in Seq(Intents)
      BY DEF TypeOK, Snapshots
    <3>3. i \in 1..Len(st.actions) /\ Len(st.actions) \in Nat
      BY <3>2
    <3> QED BY <1>0, <3>1, <3>3, SnapshotAssumption DEF Indexes
  <2>4. \/ disk' = new /\ job' = ActionJob(i, write)
        \/ (disk' = disk \/ disk' = new) /\ job' = Idle
    BY <1>3 DEF StartAction, Launched, Saved, SaveFails
  <2>5. CASE disk' = disk /\ job' = Idle
    BY <1>0, <1>1, <2>5, QuietQueue DEF Quiet
  <2>6. CASE disk' = new
    <3> HIDE DEF new, b
    <3>1. \A j \in DOMAIN disk.actions :
            disk'.actions[j] = IF j = i THEN b ELSE disk.actions[j]
      BY <2>2, <2>6
    <3>2. DOMAIN disk'.actions = DOMAIN disk.actions
      BY <2>2, <2>6
    <3>3. PutsReserved'
      BY <1>0, <1>1, <2>1, <2>3, <3>1, <3>2
      DEF Queue, PutsReserved, TypeOK, Intents
    <3>4. Untouched' /\ EffectsSent' /\ SuccessesReal'
      BY <1>1, <2>1, <3>1, <3>2 DEF Queue, Untouched, EffectsSent, SuccessesReal
    <3>5. JobReserved'
      <4>1. CASE job' = Idle
        BY <1>0, <4>1 DEF JobReserved
      <4>2. CASE job' = ActionJob(i, write)
        <5>1. sent[i] <= a.attempts
          BY <1>0, <2>3 DEF Queue, PutsReserved
        <5>2. write => sent[i] < b.attempts
          BY <1>0, <2>1, <2>3, <5>1 DEF TypeOK, Intents
        <5> QED BY <1>1, <2>1, <2>3, <3>1, <3>2, <4>2, <5>2 DEF JobReserved, ActionJob
      <4> QED BY <2>4, <4>1, <4>2
    <3> QED BY <3>3, <3>4, <3>5 DEF Queue
  <2> QED BY <2>4, <2>5, <2>6
<1> QED BY <1>2, <1>3

\* The write adapter sends at most what was reserved and believes what exists.
LEMMA WriteAdapterQueue ==
  ASSUME TypeOK, Queue, WriteAdapter
  PROVE  Queue'
<1> USE DEF network
<1>1. disk' = disk
  BY DEF WriteAdapter, QueryFinds, QueryMisses, SendPut, PutConfirmed, RequestFails
<1>2. CASE QueryFinds \/ QueryMisses \/ PutConfirmed \/ RequestFails
  <2>1. UNCHANGED <<sent, remote>>
    BY <1>2 DEF QueryFinds, QueryMisses, PutConfirmed, RequestFails
  <2>2. JobReserved'
    BY <1>1, <1>2, <2>1 DEF QueryFinds, QueryMisses, PutConfirmed, RequestFails,
       Answered, Queue, JobReserved, TypeOK, Jobs
  <2> QED BY <1>1, <2>1, <2>2
          DEF Queue, PutsReserved, Untouched, EffectsSent, SuccessesReal
<1>3. CASE SendPut
  <2>1. /\ job.index \in Indexes /\ job.index \in DOMAIN disk.actions
        /\ sent[job.index] < disk.actions[job.index].attempts
    BY <1>3 DEF SendPut, Queue, JobReserved
  <2>2. \A j \in Indexes : sent'[j] = IF j = job.index THEN sent[j] + 1 ELSE sent[j]
    BY <1>3 DEF SendPut, TypeOK
  <2>3. PutsReserved'
    <3>1. disk.actions \in Seq(Intents)
      BY DEF TypeOK, Snapshots
    <3>2. disk.actions[job.index] \in Intents
      BY <2>1, <3>1
    <3>3. disk.actions[job.index].attempts \in Nat /\ sent[job.index] \in Nat
      BY <2>1, <3>2 DEF TypeOK, Intents
    <3> QED BY <1>1, <2>1, <2>2, <3>3 DEF Queue, PutsReserved
  <2>4. EffectsSent'
    BY <1>3, <2>2 DEF SendPut, Queue, EffectsSent, TypeOK
  <2>5. JobReserved'
    BY <1>1, <1>3, <2>1 DEF SendPut, Queue, JobReserved, TypeOK, Jobs
  <2>6. Untouched' /\ SuccessesReal'
    BY <1>1, <1>3 DEF SendPut, Queue, Untouched, SuccessesReal
  <2> QED BY <2>3, <2>4, <2>5, <2>6 DEF Queue
<1> QED BY <1>2, <1>3 DEF WriteAdapter

\* Settling records the adapter's answer on the action that was in flight.
LEMMA SettleQueue ==
  ASSUME TypeOK, Durability, Queue, SettleAction
  PROVE  /\ Queue'
         /\ \/ disk'.actions = disk.actions
            \/ disk'.actions = [disk.actions EXCEPT ![job.index] =
                                  Outcome(disk.actions[job.index], job.answer)]
         /\ UNCHANGED <<sent, remote>>
<1> DEFINE a == disk.actions[job.index]
           b == Outcome(a, job.answer)
<1>1. /\ job.index \in DOMAIN disk.actions /\ st.actions = disk.actions
      /\ a \in Intents /\ job.kind = "action"
      /\ job.answer \in {"none", "receipt", "absent", "error"}
  BY DEF SettleAction, Queue, JobReserved, Durability, RunningSaved, Running,
         TypeOK, Snapshots, Jobs
<1>2. /\ b \in Intents /\ b.attempts = a.attempts
      /\ b.status = CASE job.answer = "receipt" -> "succeeded"
                      [] job.answer = "absent"  -> "retry_required"
                      [] OTHER                  -> "unknown"
  BY <1>1, IntentType DEF Outcome, Intents
<1>3. SettledSnapshot.actions = [disk.actions EXCEPT ![job.index] = b]
  BY <1>1, <1>2, WithActionType, PausedType DEF SettledSnapshot, TypeOK
<1>4. /\ disk' = disk \/ disk' = SettledSnapshot
      /\ job' = Idle /\ UNCHANGED <<sent, remote>>
  BY PersistSaves DEF SettleAction, network
<1>5. Idle.kind = "none"
  BY DEF Idle
<1>6. CASE disk' = disk
  BY <1>4, <1>5, <1>6, QuietQueue DEF Quiet
<1>7. CASE disk' = SettledSnapshot
  <2> HIDE DEF b
  <2>1. /\ DOMAIN disk'.actions = DOMAIN disk.actions
        /\ \A j \in DOMAIN disk.actions :
             disk'.actions[j] = IF j = job.index THEN b ELSE disk.actions[j]
    BY <1>3, <1>7
  <2>2. PutsReserved' /\ EffectsSent'
    BY <1>2, <1>4, <2>1 DEF Queue, PutsReserved, EffectsSent
  <2>3. Untouched'
    BY <1>2, <2>1 DEF Queue, Untouched
  <2>4. SuccessesReal'
    BY <1>1, <1>2, <1>4, <2>1 DEF Queue, SuccessesReal, JobReserved
  <2>5. JobReserved'
    BY <1>4, <1>5 DEF JobReserved
  <2>6. disk'.actions = [disk.actions EXCEPT ![job.index] = Outcome(a, job.answer)]
    BY <1>3, <1>7 DEF b
  <2> QED BY <1>4, <2>2, <2>3, <2>4, <2>5, <2>6 DEF Queue
<1> QED BY <1>3, <1>4, <1>6, <1>7

\* A decision leaves the attempts alone.
LEMMA DecidedFields ==
  ASSUME NEW a \in Intents, NEW command \in Commands
  PROVE  /\ Decided(a, command).attempts = a.attempts
         /\ Decided(a, command).status =
              IF command = "reject" THEN "rejected" ELSE "approved"
<1> DEFINE status == IF command = "reject" THEN "rejected" ELSE "approved"
           approved == a.approved \/ command = "approve"
<1>1. Decided(a, command) = [a EXCEPT !.status = status, !.approved = approved]
  BY DEF Decided
<1> HIDE DEF status, approved
<1>2. /\ Decided(a, command).attempts = a.attempts
      /\ Decided(a, command).status = status
  BY <1>1 DEF Intents
<1> QED BY <1>2 DEF status

\* What a decision of the operator leaves on disk.
LEMMA DecisionSaved ==
  ASSUME NEW new, SaveDecision(new)
  PROVE  disk' = disk \/ disk' = new
BY PersistSaves DEF SaveDecision

\* A proposal is the last action on disk, untouched.
LEMMA ProposeQueue ==
  ASSUME TypeOK, Durability, Queue, Propose
  PROVE  /\ Queue' /\ UNCHANGED <<sent, remote>>
         /\ \/ disk'.actions = disk.actions
            \/ disk'.actions = Append(disk.actions, NewIntent)
<1>1. /\ st = disk /\ ~Running /\ UNCHANGED <<sent, remote, job>>
      /\ disk.actions \in Seq(Intents)
  BY DEF Propose, MayDecide, Durability, NoUnsavedState, network, TypeOK, Snapshots
<1>2. Proposed(st).actions = Append(disk.actions, NewIntent)
  BY <1>1, ProposedType DEF TypeOK
<1>3. disk' = disk \/ disk' = Proposed(st)
  BY DecisionSaved DEF Propose
<1>4. CASE disk' = disk
  <2>1. Quiet
    BY <1>1, <1>4 DEF Quiet
  <2> QED BY <1>1, <1>4, <2>1, QuietQueue
<1>5. CASE disk' = Proposed(st)
  <2>1. NewIntent.status = "proposed" /\ NewIntent.attempts = 0
    BY DEF NewIntent
  <2>2. \A i \in DOMAIN disk'.actions :
          \/ i \in DOMAIN disk.actions /\ disk'.actions[i] = disk.actions[i]
          \/ i \notin DOMAIN disk.actions /\ disk'.actions[i] = NewIntent
    BY <1>1, <1>2, <1>5
  <2>3. DOMAIN disk.actions \subseteq DOMAIN disk'.actions
    BY <1>1, <1>2, <1>5
  <2>4. PutsReserved'
    <3> SUFFICES ASSUME NEW i \in Indexes
                 PROVE  sent[i] <= IF i \in DOMAIN disk'.actions
                                   THEN disk'.actions[i].attempts ELSE 0
      BY <1>1 DEF PutsReserved
    <3>1. sent[i] <= IF i \in DOMAIN disk.actions THEN disk.actions[i].attempts ELSE 0
      BY DEF Queue, PutsReserved
    <3> QED BY <2>1, <2>2, <2>3, <3>1
  <2>5. Untouched' /\ EffectsSent' /\ SuccessesReal'
    BY <1>1, <2>1, <2>2 DEF Queue, Untouched, EffectsSent, SuccessesReal
  <2>6. JobReserved'
    BY <1>1 DEF JobReserved, Running
  <2> QED BY <1>1, <1>2, <1>5, <2>4, <2>5, <2>6 DEF Queue
<1> QED BY <1>3, <1>4, <1>5

\* A decision moves one action's status, and a rejection only before any write.
LEMMA DecideQueue ==
  ASSUME TypeOK, Durability, Queue, NEW i \in Indexes, NEW command \in Commands,
         Decide(i, command)
  PROVE  /\ Queue' /\ UNCHANGED <<sent, remote>>
         /\ i \in DOMAIN disk.actions /\ Decidable(disk.actions[i], command)
         /\ \/ disk'.actions = disk.actions
            \/ disk'.actions = [disk.actions EXCEPT ![i] = Decided(disk.actions[i], command)]
<1> DEFINE a == disk.actions[i]
           b == Decided(a, command)
           new == WithAction(st, i, Decided(st.actions[i], command))
<1>1. /\ st = disk /\ ~Running /\ UNCHANGED <<sent, remote, job>>
      /\ i \in DOMAIN disk.actions /\ Decidable(a, command)
  BY DEF Decide, MayDecide, Durability, NoUnsavedState
<1>2. a \in Intents
  BY <1>1 DEF TypeOK, Snapshots
<1>3. /\ b \in Intents /\ b.attempts = a.attempts
      /\ b.status = IF command = "reject" THEN "rejected" ELSE "approved"
  BY <1>2, IntentType, DecidedFields
<1>4. new.actions = [disk.actions EXCEPT ![i] = b]
  BY <1>1, <1>3, WithActionType DEF TypeOK
<1>5. disk' = disk \/ disk' = new
  BY DecisionSaved DEF Decide
<1>6. CASE disk' = disk
  <2>1. Quiet
    BY <1>1, <1>6 DEF Quiet
  <2> QED BY <1>1, <1>6, <2>1, QuietQueue
<1>7. CASE disk' = new
  <2>1. disk'.actions = [disk.actions EXCEPT ![i] = Decided(disk.actions[i], command)]
    BY <1>4, <1>7
  <2> HIDE DEF b, new
  <2>2. /\ DOMAIN disk'.actions = DOMAIN disk.actions
        /\ \A j \in DOMAIN disk.actions :
             disk'.actions[j] = IF j = i THEN b ELSE disk.actions[j]
    BY <1>4, <1>7
  <2>3. PutsReserved' /\ EffectsSent'
    BY <1>1, <1>3, <2>2 DEF Queue, PutsReserved, EffectsSent
  <2>4. Untouched'
    BY <1>1, <1>3, <2>2 DEF Queue, Untouched, Decidable, Commands
  <2>5. SuccessesReal' /\ JobReserved'
    BY <1>1, <1>3, <2>2 DEF Queue, SuccessesReal, JobReserved, Running
  <2> QED BY <1>1, <2>1, <2>3, <2>4, <2>5 DEF Queue
<1> QED BY <1>5, <1>6, <1>7

\* A delivery needs a request.
LEMMA DeliverQueue ==
  ASSUME TypeOK, Queue, NEW i \in Indexes, Deliver(i)
  PROVE  Queue'
<1>1. /\ sent[i] > 0 /\ remote' = remote \cup {i} /\ UNCHANGED <<sent, disk, job>>
  BY DEF Deliver
<1> QED BY <1>1 DEF Queue, JobReserved, PutsReserved, Untouched, EffectsSent, SuccessesReal

\* Every step keeps the queue's invariant.
LEMMA QueueNext ==
  TypeOK /\ TypeOK' /\ Durability /\ Queue /\ [Next]_vars => Queue'
<1> SUFFICES ASSUME TypeOK, TypeOK', Durability, Queue, [Next]_vars PROVE Queue'
  OBVIOUS
<1>1. CASE \/ Cycles \/ Host \/ Elapse \/ UNCHANGED vars
           \/ \E action \in DOMAIN Transition : Control(action) \/ OfflineControl(action)
  BY <1>1, QuietSteps, QuietQueue
<1>2. CASE StepAction
  <2>1. PICK i \in DOMAIN st.actions : MayStep /\ StartAction(i, FALSE)
    BY <1>2 DEF StepAction
  <2>2. ~fatal /\ ~Running
    BY <2>1 DEF MayStep
  <2> QED BY <2>1, <2>2, StartActionQueue
<1>3. CASE WriteAdapter
  BY <1>3, WriteAdapterQueue
<1>4. CASE SettleAction
  BY <1>4, SettleQueue
<1>5. CASE Propose
  BY <1>5, ProposeQueue
<1>6. ASSUME NEW i \in Indexes, NEW command \in Commands, Decide(i, command)
      PROVE  Queue'
  BY <1>6, DecideQueue
<1>7. ASSUME NEW i \in Indexes, NEW readOnly \in BOOLEAN, RunAction(i, readOnly)
      PROVE  Queue'
  <2>1. i \in DOMAIN st.actions /\ StartAction(i, readOnly) /\ ~fatal /\ ~Running
    BY <1>7 DEF RunAction, Durability, NoProcess
  <2> QED BY <2>1, StartActionQueue
<1>8. ASSUME NEW i \in Indexes, Deliver(i) PROVE Queue'
  BY <1>8, DeliverQueue
<1> QED BY <1>1, <1>2, <1>3, <1>4, <1>5, <1>6, <1>7, <1>8
        DEF Next, Actions, Operator, World

\* The inductive invariant of the mission.
THEOREM Invariance == Spec => [](TypeOK /\ IInv)
<1>1. Init => TypeOK /\ IInv
  BY TypeInit, DurabilityInit, QueueInit DEF IInv
<1>2. TypeOK /\ IInv /\ [Next]_vars => (TypeOK /\ IInv)'
  BY TypeNext, DurabilityNext, QueueNext DEF IInv
<1> QED BY <1>1, <1>2, PTL DEF Spec

\* However many processes crash in between, the destination never receives more
\* requests for an action than the snapshot has reserved attempts.
THEOREM PutsAreReserved == Spec => []PutsReserved
<1>1. IInv => PutsReserved
  BY DEF IInv, Queue
<1> QED BY <1>1, Invariance, PTL

-----------------------------------------------------------------------------
(* The queue implements the write ledger.                                  *)

Au == WithStatus(Authorised)
Su == WithStatus({"succeeded"})
Re == WithStatus({"rejected"})

LedgerView == <<Au, remote, Su, Re>>

\* Replacing one action moves it alone between the sets of the ledger.
LEMMA WithStatusUpdate ==
  ASSUME NEW S, NEW i \in DOMAIN disk.actions, NEW b,
         disk'.actions = [disk.actions EXCEPT ![i] = b]
  PROVE  WithStatus(S)' = IF b.status \in S THEN WithStatus(S) \cup {i}
                                            ELSE WithStatus(S) \ {i}
<1>1. /\ DOMAIN disk'.actions = DOMAIN disk.actions
      /\ \A j \in DOMAIN disk.actions :
           disk'.actions[j] = IF j = i THEN b ELSE disk.actions[j]
  OBVIOUS
<1> QED BY <1>1 DEF WithStatus

\* Without a change of the queue or the destination the ledger stands still.
LEMMA LedgerStutter ==
  ASSUME disk'.actions = disk.actions, remote' = remote
  PROVE  UNCHANGED LedgerView
BY DEF LedgerView, Au, Su, Re, WithStatus

\* Starting an action moves it from one authorised status to another.
LEMMA StartActionLedger ==
  ASSUME TypeOK, Durability, NEW i \in DOMAIN st.actions,
         NEW readOnly \in BOOLEAN, StartAction(i, readOnly), ~fatal
  PROVE  UNCHANGED LedgerView
<1> DEFINE a == st.actions[i]
           write == AllowWrite(a, readOnly)
           b == InFlight(a, write)
           new == WithAction(st, i, b)
<1>0. st = disk /\ a \in Intents /\ write \in BOOLEAN /\ remote' = remote
  BY DEF Durability, NoUnsavedState, TypeOK, Snapshots, AllowWrite, StartAction, network
<1>1. CASE Exhausted(a, write)
  <2>1. Persist(PausedIfActive(st))
    BY <1>1 DEF StartAction
  <2>2. disk'.actions = disk.actions
    BY <1>0, <2>1, PersistSaves, PausedType DEF TypeOK
  <2> QED BY <1>0, <2>2, LedgerStutter
<1>2. CASE ~Exhausted(a, write)
  <2>1. b \in Intents /\ b.status = "in_flight"
    BY <1>0, IntentType DEF InFlight, Intents
  <2>2. new.actions = [disk.actions EXCEPT ![i] = b]
    BY <1>0, <2>1, WithActionType DEF TypeOK
  <2>3. disk' = disk \/ disk' = new
    BY <1>2 DEF StartAction, Launched, Saved, SaveFails
  <2>4. CASE disk' = disk
    BY <1>0, <2>4, LedgerStutter
  <2>5. CASE disk' = new
    <3>1. a.status \in {"approved", "in_flight", "unknown", "retry_required"}
      BY DEF StartAction, Runnable
    <3>2. i \in Au /\ i \notin Su /\ i \notin Re
      BY <1>0, <3>1 DEF Au, Su, Re, WithStatus, Authorised
    <3> HIDE DEF b, new
    <3>3. Au' = Au \cup {i} /\ Su' = Su \ {i} /\ Re' = Re \ {i}
      BY <1>0, <2>1, <2>2, <2>5, WithStatusUpdate DEF Au, Su, Re, Authorised
    <3> QED BY <1>0, <3>2, <3>3 DEF LedgerView
  <2> QED BY <2>3, <2>4, <2>5
<1> QED BY <1>1, <1>2

\* The mission starts with an empty ledger.
LEMMA LedgerInit == Init => Ledger!Init
BY DEF Init, Ledger!Init, WithStatus, Fresh

\* Every step of the mission is a step of the ledger or leaves it alone.
LEMMA LedgerNext ==
  TypeOK /\ IInv /\ [Next]_vars => [Ledger!Next]_LedgerView
<1> SUFFICES ASSUME TypeOK, IInv, [Next]_vars
             PROVE  Ledger!Next \/ UNCHANGED LedgerView
  BY DEF LedgerView
<1>0. Durability /\ Queue
  BY DEF IInv
<1>a. disk.actions \in Seq(Intents)
  BY DEF TypeOK, Snapshots
<1>1. CASE \/ Cycles \/ Host \/ Elapse \/ UNCHANGED vars
           \/ \E action \in DOMAIN Transition : Control(action) \/ OfflineControl(action)
  BY <1>0, <1>1, QuietSteps, LedgerStutter DEF Quiet
<1>2. CASE StepAction
  <2>1. PICK i \in DOMAIN st.actions : MayStep /\ StartAction(i, FALSE)
    BY <1>2 DEF StepAction
  <2>2. ~fatal
    BY <2>1 DEF MayStep
  <2> QED BY <1>0, <2>1, <2>2, StartActionLedger
<1>3. CASE WriteAdapter
  <2>1. UNCHANGED <<disk, remote>>
    BY <1>3 DEF WriteAdapter, QueryFinds, QueryMisses, SendPut, PutConfirmed,
                RequestFails, network
  <2> QED BY <2>1, LedgerStutter
<1>4. CASE SettleAction
  <2> DEFINE i == job.index
             b == Outcome(disk.actions[i], job.answer)
  <2>1. /\ i \in DOMAIN disk.actions /\ i \in Indexes /\ remote' = remote
        /\ disk.actions[i].status = "in_flight"
        /\ job.answer = "receipt" => i \in remote
    BY <1>0, <1>4, SettleQueue DEF SettleAction, Queue, JobReserved
  <2>2. i \in Au /\ i \notin Su /\ i \notin Re
    BY <2>1 DEF Au, Su, Re, WithStatus, Authorised
  <2>3. b.status = CASE job.answer = "receipt" -> "succeeded"
                     [] job.answer = "absent"  -> "retry_required"
                     [] OTHER                  -> "unknown"
    BY <1>a, <2>1 DEF Outcome, Intents
  <2>4. CASE disk'.actions = disk.actions
    BY <2>1, <2>4, LedgerStutter
  <2>5. CASE disk'.actions = [disk.actions EXCEPT ![i] = b]
    <3> HIDE DEF b, i
    <3>1. /\ Au' = Au /\ Re' = Re
          /\ Su' = IF job.answer = "receipt" THEN Su \cup {i} ELSE Su
      <4>1. \A S : WithStatus(S)' = IF b.status \in S THEN WithStatus(S) \cup {i}
                                                      ELSE WithStatus(S) \ {i}
        BY <2>1, <2>5, WithStatusUpdate
      <4>2. Au' = Au \cup {i}
        BY <2>3, <4>1 DEF Au, Authorised
      <4>3. Re' = Re \ {i}
        BY <2>3, <4>1 DEF Re
      <4>4. Su' = IF job.answer = "receipt" THEN Su \cup {i} ELSE Su \ {i}
        BY <2>3, <4>1 DEF Su
      <4> QED BY <2>2, <4>2, <4>3, <4>4
    <3>2. CASE job.answer = "receipt"
      <4>1. Ledger!Report(i)
        BY <2>1, <2>2, <3>1, <3>2 DEF Ledger!Report, Au, Su, Re
      <4> QED BY <2>1, <4>1 DEF Ledger!Next
    <3>3. CASE job.answer # "receipt"
      BY <2>1, <3>1, <3>3 DEF LedgerView
    <3> QED BY <3>2, <3>3
  <2> QED BY <1>0, <1>4, <2>4, <2>5, SettleQueue
<1>5. CASE Propose
  <2>1. remote' = remote
    BY <1>5 DEF Propose, network
  <2>2. CASE disk'.actions = disk.actions
    BY <2>1, <2>2, LedgerStutter
  <2>3. CASE disk'.actions = Append(disk.actions, NewIntent)
    <3>1. NewIntent.status = "proposed"
      BY DEF NewIntent
    <3>2. \A i : i \in DOMAIN disk'.actions <=>
                 i \in DOMAIN disk.actions \/ i = Len(disk.actions) + 1
      BY <1>a, <2>3
    <3>3. /\ \A i \in DOMAIN disk.actions : disk'.actions[i] = disk.actions[i]
          /\ disk'.actions[Len(disk.actions) + 1] = NewIntent
      BY <1>a, <2>3
    <3>4. \A S : "proposed" \notin S => WithStatus(S)' = WithStatus(S)
      BY <3>1, <3>2, <3>3 DEF WithStatus
    <3> QED BY <2>1, <3>4 DEF LedgerView, Au, Su, Re, Authorised
  <2> QED BY <1>0, <1>5, <2>2, <2>3, ProposeQueue
<1>6. ASSUME NEW i \in Indexes, NEW command \in Commands, Decide(i, command)
      PROVE  Ledger!Next \/ UNCHANGED LedgerView
  <2> DEFINE a == disk.actions[i]
             b == Decided(a, command)
  <2>1. /\ i \in DOMAIN disk.actions /\ remote' = remote /\ Decidable(a, command)
        /\ disk'.actions = disk.actions \/ disk'.actions = [disk.actions EXCEPT ![i] = b]
    BY <1>0, <1>6, DecideQueue
  <2>2. /\ a \in Intents
        /\ b.status = IF command = "reject" THEN "rejected" ELSE "approved"
    BY <1>a, <2>1, DecidedFields
  <2>3. CASE disk'.actions = disk.actions
    BY <2>1, <2>3, LedgerStutter
  <2>4. CASE disk'.actions = [disk.actions EXCEPT ![i] = b]
    <3> HIDE DEF b
    <3>1. /\ Au' = IF command = "reject" THEN Au \ {i} ELSE Au \cup {i}
          /\ Re' = IF command = "reject" THEN Re \cup {i} ELSE Re \ {i}
          /\ Su' = Su \ {i}
      <4>1. \A S : WithStatus(S)' = IF b.status \in S THEN WithStatus(S) \cup {i}
                                                      ELSE WithStatus(S) \ {i}
        BY <2>1, <2>4, WithStatusUpdate
      <4>2. Au' = IF command = "reject" THEN Au \ {i} ELSE Au \cup {i}
        BY <2>2, <4>1 DEF Au, Authorised
      <4>3. Re' = IF command = "reject" THEN Re \cup {i} ELSE Re \ {i}
        BY <2>2, <4>1 DEF Re
      <4>4. Su' = Su \ {i}
        BY <2>2, <4>1 DEF Su
      <4> QED BY <4>2, <4>3, <4>4
    <3>2. CASE command = "approve"
      <4>1. i \notin Au /\ i \notin Re /\ i \notin Su
        BY <2>1, <3>2 DEF Decidable, Au, Su, Re, WithStatus, Authorised
      <4>2. Ledger!Authorise(i)
        BY <2>1, <3>1, <3>2, <4>1 DEF Ledger!Authorise, Au, Su, Re
      <4> QED BY <4>2 DEF Ledger!Next
    <3>3. CASE command = "retry"
      <4>1. i \in Au /\ i \notin Re /\ i \notin Su
        BY <2>1, <3>3 DEF Decidable, Au, Su, Re, WithStatus, Authorised
      <4> QED BY <2>1, <3>1, <3>3, <4>1 DEF LedgerView
    <3>4. CASE command = "reject"
      <4>1. i \notin Re /\ i \notin Su /\ a.attempts = 0
        BY <2>1, <3>4 DEF Decidable, Su, Re, WithStatus
      <4>2. i \notin remote
        BY <2>1, <4>1 DEF TypeOK, IInv, Queue, PutsReserved, EffectsSent
      <4>3. Ledger!Reject(i)
        BY <2>1, <3>1, <3>4, <4>1, <4>2 DEF Ledger!Reject, Au, Su, Re
      <4> QED BY <4>3 DEF Ledger!Next
    <3> QED BY <3>2, <3>3, <3>4 DEF Commands
  <2> QED BY <2>1, <2>3, <2>4
<1>7. ASSUME NEW i \in Indexes, NEW readOnly \in BOOLEAN, RunAction(i, readOnly)
      PROVE  UNCHANGED LedgerView
  <2>1. i \in DOMAIN st.actions /\ StartAction(i, readOnly) /\ ~fatal
    BY <1>0, <1>7 DEF RunAction, Durability, NoProcess
  <2> QED BY <1>0, <2>1, StartActionLedger
<1>8. ASSUME NEW i \in Indexes, Deliver(i) PROVE Ledger!Next
  <2>1. /\ sent[i] > 0 /\ i \notin remote /\ remote' = remote \cup {i}
        /\ disk' = disk /\ sent[i] \in Nat
    BY <1>8 DEF Deliver, TypeOK
  <2>2. i \in DOMAIN disk.actions /\ disk.actions[i].attempts # 0
    BY <1>0, <2>1 DEF Queue, PutsReserved
  <2>3. disk.actions[i].status \in Authorised
    <3>0. disk.actions[i] \in Intents
      BY <1>a, <2>2
    <3>1. disk.actions[i].status \in ActionStatuses
      BY <3>0 DEF Intents
    <3> QED BY <1>0, <2>2, <3>1 DEF Queue, Untouched, ActionStatuses
  <2>4. i \in Au /\ Au' = Au /\ Su' = Su /\ Re' = Re
    BY <2>1, <2>2, <2>3 DEF Au, Su, Re, WithStatus
  <2>5. Ledger!Effect(i)
    BY <2>1, <2>4 DEF Ledger!Effect, Au, Su, Re
  <2> QED BY <2>5 DEF Ledger!Next
<1> QED BY <1>1, <1>2, <1>3, <1>4, <1>5, <1>6, <1>7, <1>8
        DEF Next, Actions, Operator, World

\* No effect without authority, no success without effect, no verdict taken back:
\* the queue on disk and the destination implement the write ledger.
THEOREM LedgerImplemented == Spec => LedgerHolds
<1>1. [Ledger!Next]_LedgerView => [Ledger!Next]_(Ledger!ledgerVars)
  BY DEF LedgerView, Ledger!ledgerVars, Au, Su, Re
<1> QED BY <1>1, LedgerInit, LedgerNext, Invariance, PTL
        DEF Spec, LedgerHolds, Ledger!Spec
=============================================================================
