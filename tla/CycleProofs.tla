----------------------------- MODULE CycleProofs -----------------------------
(***************************************************************************)
(* Theorems about the cycles, the budget and the licences of a mission.    *)
(* The lemmas say what one step of Mission does to the snapshot on disk;   *)
(* none of them needs the destination of the writes, so that they also     *)
(* hold where a restore has put an older snapshot in front of it.          *)
(***************************************************************************)
EXTENDS MissionProofs

\* The status stays, or moves between active, paused and cancelled as commands and
\* failures move it; it becomes active again only after recovery.
MayBecome(s, t) ==
  /\ \/ t.status = s.status
     \/ s.status \in {"active", "paused"} /\ t.status \in {"active", "paused", "cancelled"}
  /\ t.status = "active" => s.status = "active" \/ RecoveryReady(s)

SameProgress(s, t) ==
  /\ t.completed = s.completed /\ t.pending = s.pending /\ t.artifacts = s.artifacts
  /\ t.modelAttempts = s.modelAttempts /\ t.recovery = s.recovery

Moves(s, t) == SameProgress(s, t) /\ MayBecome(s, t)

\* While a job runs, control commands may have moved the status in memory past the
\* one on disk (their save failed); everything else is saved.
Together == Running => st = [disk EXCEPT !.status = st.status] /\ MayBecome(disk, st)

\* No snapshot is active before its recovery.
ActiveReady == /\ st.status = "active" => RecoveryReady(st)
               /\ disk.status = "active" => RecoveryReady(disk)

\* A cycle whose epoch is current works on the snapshot on disk, which announces it.
CycleInHand ==
  job.kind = "cycle" =>
    /\ proc \in {"serve", "run"} /\ job.epoch <= epoch
    /\ proc = "run" => job.epoch = epoch
    /\ job.epoch = epoch => ~interrupted /\ st = disk /\ st.status = "active"
    /\ disk.pending = disk.completed + 1 /\ disk.completed < MaxCycles
    /\ Open(disk) = {} /\ RecoveryReady(disk)

\* An action job works on a durable in_flight marker.
ActionInHand ==
  job.kind = "action" =>
    /\ job.index \in DOMAIN disk.actions /\ job.index \in Indexes
    /\ disk.actions[job.index].status = "in_flight"
    /\ job.phase = "send" => job.write
    /\ job.write => RecoveryReady(disk)

\* An approval that has not been spent, on disk or in the adapter's hands, has its
\* licence.
Licence ==
  /\ job.kind = "action" /\ job.write /\ job.phase \in {"get", "send"} =>
       job.index \in licensed
  /\ \A i \in DOMAIN disk.actions : disk.actions[i].status = "approved" => i \in licensed

-----------------------------------------------------------------------------
(* What the functions on snapshots do to the cycles and the status.        *)

\* Commands, pauses and changes of the queue leave the progress alone.
LEMMA SnapshotMoves ==
  ASSUME NEW s \in Snapshots
  PROVE  /\ Moves(s, s) /\ Moves(s, PausedIfActive(s))
         /\ s.status = "active" => Moves(s, Paused(s))
         /\ Moves(s, Proposed(s))
         /\ \A i \in DOMAIN s.actions, b \in Intents : Moves(s, WithAction(s, i, b))
         /\ \A action \in DOMAIN Transition :
              Accepts(s, action) => Moves(s, Controlled(s, action))
<1> USE DEF Moves, SameProgress, MayBecome
<1>1. Moves(s, s)
  OBVIOUS
<1>2. /\ Moves(s, PausedIfActive(s))
      /\ s.status = "active" => Moves(s, Paused(s))
  BY DEF PausedIfActive, Paused, Snapshots, RecoveryReady
<1>3. Moves(s, Proposed(s))
  BY DEF Proposed, Snapshots, RecoveryReady
<1>4. ASSUME NEW i \in DOMAIN s.actions, NEW b \in Intents
      PROVE  Moves(s, WithAction(s, i, b))
  BY DEF WithAction, Snapshots, RecoveryReady
<1>5. ASSUME NEW action \in DOMAIN Transition, Accepts(s, action)
      PROVE  Moves(s, Controlled(s, action))
  BY <1>5 DEF Controlled, Accepts, Transition, Snapshots, RecoveryReady
<1> QED BY <1>1, <1>2, <1>3, <1>4, <1>5

\* Moves compose.
LEMMA MovesTransitive ==
  ASSUME NEW s, NEW t, NEW u, Moves(s, t), Moves(t, u)
  PROVE  Moves(s, u)
BY DEF Moves, SameProgress, MayBecome, RecoveryReady

\* The start of a cycle announces it and reserves its model call, or pauses, or finds
\* the limit reached.
LEMMA CycleStartFields ==
  ASSUME NEW s \in Snapshots
  PROVE  LET t == CycleStart(s) IN
         /\ t.completed = s.completed /\ t.artifacts = s.artifacts
         /\ t.recovery = s.recovery
         /\ s.completed >= MaxCycles =>
              /\ t.status = "completed" /\ t.pending = s.pending
              /\ t.modelAttempts = s.modelAttempts
         /\ s.completed < MaxCycles =>
              /\ t.status \in {s.status, "paused"}
              /\ t.pending = (IF s.pending = 0 THEN s.completed + 1 ELSE s.pending)
         /\ \/ t.modelAttempts = s.modelAttempts
            \/ /\ Cognitive /\ s.modelAttempts < MaxCalls
               /\ t.modelAttempts = s.modelAttempts + 1
         /\ t.status = "active" =>
              /\ s.completed < MaxCycles
              /\ Cognitive => t.modelAttempts = s.modelAttempts + 1
<1> DEFINE n == IF s.pending = 0 THEN s.completed + 1 ELSE s.pending
           m == IF Cognitive THEN s.modelAttempts + 1 ELSE s.modelAttempts
           b == [s EXCEPT !.pending = n]
<1>0. n \in Nat /\ m \in Nat /\ s.completed \in Nat /\ s.modelAttempts \in Nat
  BY DEF Snapshots
<1>1. Begun(s) = b
  BY DEF Begun
<1>2. Reserved(b) = [b EXCEPT !.modelAttempts = m]
  BY DEF Reserved, Snapshots
<1>3. BudgetExhausted(s) <=> Cognitive /\ ~(s.modelAttempts < MaxCalls)
  BY <1>0, SnapshotAssumption DEF BudgetExhausted
<1>4. CASE s.completed >= MaxCycles
  BY <1>0, <1>4, SnapshotAssumption DEF CycleStart, Snapshots
<1>5. CASE s.completed < MaxCycles /\ BudgetExhausted(s)
  <2>1. CycleStart(s) = [b EXCEPT !.status = "paused"]
    BY <1>0, <1>1, <1>5, SnapshotAssumption DEF CycleStart, Paused
  <2> HIDE DEF n, m
  <2>2. CycleStart(s) = [s EXCEPT !.pending = n, !.status = "paused"]
    BY <2>1
  <2> QED BY <1>0, <1>5, <2>2, SnapshotAssumption DEF Snapshots, n
<1>6. CASE s.completed < MaxCycles /\ ~BudgetExhausted(s)
  <2>1. CycleStart(s) = [b EXCEPT !.modelAttempts = m]
    BY <1>0, <1>1, <1>2, <1>6, SnapshotAssumption DEF CycleStart
  <2> HIDE DEF n, m
  <2>2. /\ CycleStart(s).pending = n /\ CycleStart(s).modelAttempts = m
        /\ CycleStart(s).status = s.status /\ CycleStart(s).completed = s.completed
        /\ CycleStart(s).artifacts = s.artifacts /\ CycleStart(s).recovery = s.recovery
    BY <2>1 DEF Snapshots
  <2> QED BY <1>0, <1>3, <1>6, <2>2, SnapshotAssumption DEF n, m
<1> QED BY <1>0, <1>4, <1>5, <1>6, SnapshotAssumption

\* Confirming appends one artifact and clears the pending cycle.
LEMMA CommittedFields ==
  ASSUME NEW s \in Snapshots, NEW r \in Results
  PROVE  LET t == Committed(s, r) IN
         /\ t.completed = s.completed + 1 /\ t.pending = 0
         /\ t.artifacts = Append(s.artifacts, [cycle |-> s.completed + 1, digest |-> r])
         /\ t.modelAttempts = s.modelAttempts /\ t.recovery = s.recovery
         /\ t.status = IF s.completed + 1 >= MaxCycles THEN "completed" ELSE s.status
<1> DEFINE artifacts == Append(s.artifacts, [cycle |-> s.completed + 1, digest |-> r])
           count == s.completed + 1
           status == IF s.completed + 1 >= MaxCycles THEN "completed" ELSE s.status
<1>1. Committed(s, r) =
        [s EXCEPT !.artifacts = artifacts, !.completed = count, !.pending = 0,
                  !.resting = TRUE, !.status = status]
  BY DEF Committed
<1> HIDE DEF status, artifacts, count
<1>2. /\ Committed(s, r).completed = count /\ Committed(s, r).pending = 0
      /\ Committed(s, r).artifacts = artifacts /\ Committed(s, r).status = status
      /\ Committed(s, r).modelAttempts = s.modelAttempts
      /\ Committed(s, r).recovery = s.recovery
  BY <1>1 DEF Snapshots
<1> QED BY <1>2 DEF status, artifacts, count

-----------------------------------------------------------------------------
(* What a step does to the snapshot on disk.                               *)

\* Where the code acts on its snapshot without a failed save, that is the disk's.
LEMMA StateOnDisk ==
  ASSUME TypeOK, Durability, Together, CycleInHand
  PROVE  /\ ~fatal => st = disk
         /\ proc = "none" => st = disk /\ ~Running
         /\ Running => st.actions = disk.actions /\ Moves(disk, st)
         /\ job.kind = "cycle" /\ ~MustDiscard => st = disk /\ st.status = "active" /\ ~interrupted
<1>1. Running => st.actions = disk.actions /\ Moves(disk, st)
  BY DEF Together, Moves, SameProgress, TypeOK, Snapshots
<1>2. job.kind = "cycle" /\ ~MustDiscard => job.epoch = epoch
  BY DEF MustDiscard, Cancelled, CycleInHand
<1> QED BY <1>1, <1>2 DEF Durability, NoProcess, NoUnsavedState, CycleInHand

\* Starting an action moves the mission at most to paused.
LEMMA StartActionMoves ==
  ASSUME TypeOK, NEW i \in DOMAIN st.actions, NEW readOnly \in BOOLEAN,
         StartAction(i, readOnly), st = disk
  PROVE  Moves(disk, disk') /\ Moves(disk, st')
<1> DEFINE a == st.actions[i]
           write == AllowWrite(a, readOnly)
           new == WithAction(st, i, InFlight(a, write))
<1>1. a \in Intents /\ write \in BOOLEAN
  BY DEF TypeOK, Snapshots, AllowWrite
<1>2. Moves(disk, new) /\ Moves(disk, PausedIfActive(st)) /\ Moves(disk, disk)
  BY <1>1, IntentType, SnapshotMoves DEF TypeOK
<1>3. /\ st' \in {new, PausedIfActive(st)}
      /\ disk' \in {disk, new, PausedIfActive(st)}
  <2> HIDE DEF new
  <2> QED BY DEF StartAction, Launched, Persist, Saved, SaveFails, new
<1> HIDE DEF new
<1> QED BY <1>2, <1>3

\* The step confirms the cycle in hand, whose epoch is current.
ConfirmsCycle(r) ==
  /\ CycleCommitted(r) /\ job.kind = "cycle" /\ ~interrupted
  /\ st = disk /\ disk.status = "active"
  /\ disk' = Committed(disk, r) /\ files' = files \cup {r}

\* The step starts a cycle, whether or not it is executed.
StartsCycle == StartCycle /\ st = disk /\ disk' = CycleStart(disk)

\* Cycles alone move the progress on disk.
LEMMA DiskSteps ==
  ASSUME TypeOK, Durability, Together, CycleInHand, [Next]_vars
  PROVE  \/ Moves(disk, disk') /\ ~(StartCycle /\ job' # Idle)
         \/ StartsCycle
         \/ \E r \in Results : ConfirmsCycle(r)
<1> DEFINE Goal == \/ Moves(disk, disk') /\ ~(StartCycle /\ job' # Idle)
                   \/ StartsCycle
                   \/ \E r \in Results : ConfirmsCycle(r)
<1> USE DEF network
<1>0. /\ disk \in Snapshots /\ st \in Snapshots /\ Moves(disk, disk)
      /\ Idle.kind = "none" /\ CycleJob.kind = "cycle"
  BY SnapshotMoves DEF TypeOK, Idle, CycleJob
<1>a. StartCycle => ~Running /\ ~fatal /\ st = disk
  BY DEF StartCycle, MayStep, Durability, NoUnsavedState
<1>1. CASE StartCycle
  <2>1. st = disk /\ ((disk' = disk /\ job' = Idle) \/ disk' = CycleStart(disk))
    BY <1>a, <1>1 DEF StartCycle, Launched, Saved, SaveFails
  <2> QED BY <1>0, <1>1, <2>1 DEF StartsCycle
<1>2. CASE disk' = disk /\ ~StartCycle
  BY <1>0, <1>2
<1>3. CASE CycleDiscarded \/ TickFails \/ WriteAdapter \/ Exit \/ Crash
  <2>1. disk' = disk
    BY <1>3 DEF CycleDiscarded, TickFails, WriteAdapter, QueryFinds, QueryMisses,
       SendPut, PutConfirmed, RequestFails, Exit, Crash, Gone
  <2> QED BY <1>1, <1>2, <2>1
<1>4. CASE CycleFailed
  <2>1. st = disk /\ st.status = "active" /\ Running
    BY <1>4, StateOnDisk DEF CycleFailed, Running
  <2>2. disk' = disk \/ disk' = Paused(disk)
    BY <1>4, <2>1 DEF CycleFailed, SaveFails
  <2> QED BY <1>0, <1>a, <2>1, <2>2, SnapshotMoves
<1>5. ASSUME NEW r \in Results, CycleCommitted(r) PROVE Goal
  <2>1. /\ job.kind = "cycle" /\ st = disk /\ st.status = "active" /\ ~interrupted
    BY <1>5, StateOnDisk DEF CycleCommitted
  <2>2. \/ disk' = Committed(disk, r) /\ files' = files \cup {r}
        \/ disk' = disk
    BY <1>5, <2>1, PersistSaves DEF CycleCommitted, StoreArtifact
  <2> QED BY <1>1, <1>2, <1>5, <2>1, <2>2 DEF ConfirmsCycle
<1>6. ASSUME NEW i \in DOMAIN st.actions, NEW readOnly \in BOOLEAN,
             StartAction(i, readOnly), st = disk
      PROVE  Goal
  <2>1. Moves(disk, disk')
    BY <1>6, StartActionMoves
  <2>2. job' = Idle \/ job'.kind = "action"
    BY <1>6 DEF StartAction, Launched, ActionJob
  <2>3. StartCycle => job' = Idle
    BY <1>0, <2>2 DEF StartCycle, Launched
  <2> QED BY <2>1, <2>3
<1>7. CASE StepAction
  <2>1. st = disk
    BY <1>7, StateOnDisk DEF StepAction, MayStep
  <2> QED BY <1>6, <1>7, <2>1 DEF StepAction
<1>8. ASSUME NEW i \in Indexes, NEW readOnly \in BOOLEAN, RunAction(i, readOnly)
      PROVE  Goal
  BY <1>6, <1>8, StateOnDisk DEF RunAction
<1>9. CASE SettleAction
  <2>1. Running /\ Moves(disk, st)
    BY <1>9, StateOnDisk DEF SettleAction, Running
  <2>2. Moves(st, SettledSnapshot)
    <3> DEFINE s == WithAction(st, job.index, Outcome(st.actions[job.index], job.answer))
    <3>1. s \in Snapshots /\ Moves(st, s)
      <4>1. CASE job.index \in DOMAIN st.actions
        <5>1. st.actions[job.index] \in Intents
              /\ job.answer \in {"none", "receipt", "absent", "error"}
          BY <4>1 DEF TypeOK, Snapshots, Jobs
        <5> QED BY <1>0, <4>1, <5>1, IntentType, WithActionType, SnapshotMoves
      <4>2. CASE job.index \notin DOMAIN st.actions
        <5>1. s = st
          BY <4>2 DEF WithAction, TypeOK, Snapshots
        <5> QED BY <1>0, <5>1, SnapshotMoves
      <4> QED BY <4>1, <4>2
    <3>2. Moves(s, PausedIfActive(s))
      BY <3>1, SnapshotMoves
    <3>3. Moves(st, PausedIfActive(s))
      BY <3>1, <3>2, MovesTransitive
    <3> QED BY <3>1, <3>3 DEF SettledSnapshot
  <2>3. Moves(disk, SettledSnapshot)
    BY <2>1, <2>2, MovesTransitive
  <2>4. disk' = disk \/ disk' = SettledSnapshot
    BY <1>9, PersistSaves DEF SettleAction
  <2> QED BY <1>0, <1>a, <2>1, <2>3, <2>4
<1>10. ASSUME NEW action \in DOMAIN Transition, Control(action) PROVE Goal
  <2>1. st = disk /\ Accepts(disk, action) /\ job' = job
    BY <1>10, StateOnDisk DEF Control
  <2>2. disk' = disk \/ disk' = Controlled(disk, action)
    BY <1>10, <2>1, PersistSaves DEF Control
  <2>3. StartCycle => job' = Idle
    BY <1>0, <1>a, <2>1 DEF StartCycle, Launched, Running
  <2> QED BY <1>0, <2>1, <2>2, <2>3, SnapshotMoves
<1>11. ASSUME NEW action \in DOMAIN Transition, OfflineControl(action) PROVE Goal
  <2>1. disk' = disk \/ disk' = Controlled(disk, action)
    BY <1>11 DEF OfflineControl
  <2>2. ~StartCycle
    BY <1>11 DEF OfflineControl, StartCycle, MayStep
  <2> QED BY <1>0, <1>11, <2>1, <2>2, SnapshotMoves DEF OfflineControl
<1>12. ASSUME NEW new, SaveDecision(new), Moves(disk, new), UNCHANGED job PROVE Goal
  <2>1. disk' = disk \/ disk' = new
    BY <1>12, DecisionSaved
  <2>2. StartCycle => job' = Idle
    BY <1>0, <1>a, <1>12 DEF StartCycle, Launched, Running
  <2> QED BY <1>0, <1>12, <2>1, <2>2
<1>13. CASE Propose
  <2>1. st = disk
    BY <1>13, StateOnDisk DEF Propose, MayDecide
  <2> QED BY <1>0, <1>12, <1>13, <2>1, SnapshotMoves DEF Propose
<1>14. ASSUME NEW i \in Indexes, NEW command \in Commands, Decide(i, command)
       PROVE  Goal
  <2>1. st = disk /\ i \in DOMAIN disk.actions /\ disk.actions[i] \in Intents
    BY <1>14, StateOnDisk DEF Decide, MayDecide, TypeOK, Snapshots
  <2>2. Moves(disk, WithAction(disk, i, Decided(disk.actions[i], command)))
    BY <1>0, <2>1, IntentType, SnapshotMoves
  <2> QED BY <1>12, <1>14, <2>1, <2>2 DEF Decide
<1>15. CASE \/ \E kind \in {"serve", "run"} : Start(kind)
            \/ Signal \/ (\E i \in Indexes : Deliver(i)) \/ UNCHANGED vars
  <2>1. disk' = disk
    BY <1>15 DEF Start, Signal, Deliver, vars
  <2> QED BY <1>1, <1>2, <2>1
<1>16. CASE Elapse
  <2>1. Moves(disk, disk') /\ disk' = [disk EXCEPT !.resting = FALSE] /\ job' = job
    BY <1>16 DEF Elapse, Moves, SameProgress, MayBecome, TypeOK, Snapshots
  <2>2. StartCycle => job' = Idle
    BY <1>0, <1>a, <2>1 DEF StartCycle, Launched, Running
  <2> QED BY <2>1, <2>2
<1> QED
  BY <1>1, <1>3, <1>4, <1>5, <1>7, <1>8, <1>9, <1>10, <1>11, <1>13, <1>14, <1>15, <1>16
  DEF Next, Cycles, Actions, Operator, Host, World

-----------------------------------------------------------------------------
(* What a step does to the queue on disk.                                  *)

Answers == {"none", "receipt", "absent", "error"}

Proposes == /\ Propose /\ ~Running /\ disk.status \notin {"cancelled", "completed"}
            /\ ValidActions(disk) /\ Len(disk.actions) < MaxActions
            /\ disk'.actions = Append(disk.actions, NewIntent)

\* The step replaces action i by b.
Decides(i, b) ==
  /\ ~Running /\ disk.status \notin {"cancelled", "completed"}
  /\ \E command \in Commands :
       /\ Decide(i, command) /\ Decidable(disk.actions[i], command)
       /\ b = Decided(disk.actions[i], command)

Starts(i, b) ==
  /\ ~Running /\ ~fatal /\ st = disk
  /\ \E readOnly \in BOOLEAN :
       LET write == AllowWrite(disk.actions[i], readOnly) IN
       /\ StartAction(i, readOnly) /\ Runnable(disk.actions[i], readOnly)
       /\ ~Exhausted(disk.actions[i], write)
       /\ b = InFlight(disk.actions[i], write)

Settles(i, b) ==
  /\ SettleAction /\ i = job.index /\ disk.actions[i].status = "in_flight"
  /\ b = Outcome(disk.actions[i], job.answer)

Replaces(i, b) == /\ Decides(i, b) \/ Starts(i, b) \/ Settles(i, b)
                  /\ disk'.actions = [disk.actions EXCEPT ![i] = b]

\* An action that is started leaves an in_flight marker or nothing.
LEMMA StartActionSteps ==
  ASSUME TypeOK, NEW i \in DOMAIN st.actions, NEW readOnly \in BOOLEAN,
         StartAction(i, readOnly), ~fatal, ~Running, st = disk
  PROVE  \/ disk'.actions = disk.actions
         \/ \E b \in Intents : i \in Indexes /\ Replaces(i, b)
<1> DEFINE a == disk.actions[i]
           write == AllowWrite(a, readOnly)
           b == InFlight(a, write)
           new == WithAction(st, i, b)
<1>1. a \in Intents /\ write \in BOOLEAN
  BY DEF TypeOK, Snapshots, AllowWrite
<1>2. CASE Exhausted(a, write)
  <2>1. Persist(PausedIfActive(st))
    BY <1>2 DEF StartAction
  <2> QED BY <2>1, PersistSaves, PausedType DEF TypeOK
<1>3. CASE ~Exhausted(a, write)
  <2>1. b \in Intents
    BY <1>1, IntentType
  <2>2. new.actions = [disk.actions EXCEPT ![i] = b]
    BY <2>1, WithActionType DEF TypeOK
  <2>3. disk' = new \/ disk' = disk
    BY <1>3 DEF StartAction, Launched, Saved, SaveFails
  <2>4. i \in Indexes
    <3>1. Len(st.actions) <= MaxActions
      BY DEF StartAction, ValidActions
    <3>2. st.actions \in Seq(Intents)
      BY DEF TypeOK, Snapshots
    <3>3. i \in 1..Len(st.actions) /\ Len(st.actions) \in Nat
      BY <3>2
    <3> QED BY <3>1, <3>3, SnapshotAssumption DEF Indexes
  <2>5. Runnable(a, readOnly)
    BY DEF StartAction
  <2>6. Starts(i, b)
    BY <1>3, <2>5 DEF Starts
  <2> QED BY <2>1, <2>2, <2>3, <2>4, <2>6 DEF Replaces
<1> QED BY <1>2, <1>3

\* The queue grows by proposals; decisions, starts and answers replace one action.
LEMMA QueueSteps ==
  ASSUME TypeOK, Durability, ActionInHand, [Next]_vars
  PROVE  \/ disk'.actions = disk.actions
         \/ Proposes
         \/ \E i \in DOMAIN disk.actions \cap Indexes, b \in Intents : Replaces(i, b)
<1> DEFINE Goal == \/ disk'.actions = disk.actions
                   \/ Proposes
                   \/ \E i \in DOMAIN disk.actions \cap Indexes, b \in Intents : Replaces(i, b)
<1>0. /\ ~fatal => st = disk
      /\ proc = "none" => ~fatal /\ ~Running
  BY DEF Durability, NoUnsavedState, NoProcess
<1>1. CASE \/ Cycles \/ Host \/ Elapse \/ UNCHANGED vars
           \/ \E action \in DOMAIN Transition : Control(action) \/ OfflineControl(action)
  BY <1>1, QuietSteps DEF Quiet
<1>2. ASSUME NEW i \in DOMAIN st.actions, NEW readOnly \in BOOLEAN,
             StartAction(i, readOnly), ~fatal, ~Running
      PROVE  Goal
  BY <1>0, <1>2, StartActionSteps
<1>3. CASE StepAction
  BY <1>2, <1>3 DEF StepAction, MayStep
<1>4. ASSUME NEW i \in Indexes, NEW readOnly \in BOOLEAN, RunAction(i, readOnly)
      PROVE  Goal
  BY <1>0, <1>2, <1>4 DEF RunAction
<1>5. CASE WriteAdapter \/ \E i \in Indexes : Deliver(i)
  <2>1. disk' = disk
    BY <1>5 DEF WriteAdapter, QueryFinds, QueryMisses, SendPut, PutConfirmed,
                RequestFails, Deliver
  <2> QED BY <2>1
<1>6. CASE SettleAction
  <2> DEFINE i == job.index
             b == Outcome(disk.actions[i], job.answer)
  <2>1. /\ i \in DOMAIN disk.actions /\ i \in Indexes
        /\ disk.actions[i].status = "in_flight"
    BY <1>6 DEF SettleAction, ActionInHand
  <2>2. st.actions = disk.actions
    BY <1>6 DEF SettleAction, Durability, RunningSaved, Running
  <2>3. disk.actions[i] \in Intents /\ job.answer \in Answers
    BY <2>1 DEF TypeOK, Snapshots, Jobs, Answers
  <2>4. b \in Intents
    BY <2>3, IntentType DEF Answers
  <2>5. SettledSnapshot.actions = [disk.actions EXCEPT ![i] = b]
    BY <2>1, <2>2, <2>4, WithActionType, PausedType DEF SettledSnapshot, TypeOK
  <2>6. disk' = disk \/ disk' = SettledSnapshot
    BY <1>6, PersistSaves DEF SettleAction
  <2>7. Settles(i, b)
    BY <1>6, <2>1 DEF Settles
  <2> HIDE DEF b
  <2> QED BY <2>1, <2>4, <2>5, <2>6, <2>7 DEF Replaces
<1>7. CASE Propose
  <2>1. st = disk /\ ~Running /\ Proposed(disk).actions = Append(disk.actions, NewIntent)
    BY <1>0, <1>7, ProposedType DEF Propose, MayDecide, TypeOK
  <2>2. disk' = disk \/ disk' = Proposed(disk)
    BY <1>7, <2>1, DecisionSaved DEF Propose
  <2> QED BY <1>7, <2>1, <2>2 DEF Proposes, Propose, MayDecide
<1>8. ASSUME NEW i \in Indexes, NEW command \in Commands, Decide(i, command)
      PROVE  Goal
  <2> DEFINE b == Decided(disk.actions[i], command)
             new == WithAction(disk, i, b)
  <2>1. /\ st = disk /\ ~Running /\ i \in DOMAIN disk.actions
        /\ disk.status \notin {"cancelled", "completed"}
        /\ Decidable(disk.actions[i], command)
    BY <1>0, <1>8 DEF Decide, MayDecide
  <2>2. disk.actions[i] \in Intents
    BY <2>1 DEF TypeOK, Snapshots
  <2>3. b \in Intents
    BY <2>2, IntentType
  <2>4. new.actions = [disk.actions EXCEPT ![i] = b]
    BY <2>1, <2>3, WithActionType DEF TypeOK
  <2>5. disk' = disk \/ disk' = new
    BY <1>8, <2>1, DecisionSaved DEF Decide
  <2>6. Decides(i, b)
    BY <1>8, <2>1 DEF Decides
  <2> HIDE DEF b, new
  <2> QED BY <2>1, <2>3, <2>4, <2>5, <2>6 DEF Replaces
<1> QED BY <1>1, <1>3, <1>4, <1>5, <1>6, <1>7, <1>8
        DEF Next, Actions, Operator, World

-----------------------------------------------------------------------------
(* What a step does to the job.                                            *)

LaunchesCycle ==
  /\ StartsCycle /\ job' = CycleJob /\ st' = disk' /\ disk'.status = "active"
  /\ ~interrupted' /\ UNCHANGED <<proc, epoch, licensed>> /\ proc \in {"serve", "run"}
  /\ disk.status = "active" /\ Open(disk) = {} /\ RecoveryReady(disk)

LaunchesAction(i, readOnly) ==
  LET write == AllowWrite(disk.actions[i], readOnly)
      b     == InFlight(disk.actions[i], write)
  IN
  /\ i \in DOMAIN disk.actions /\ i \in Indexes /\ b \in Intents
  /\ job' = ActionJob(i, write) /\ (write => RecoveryReady(disk))
  /\ disk' = WithAction(disk, i, b) /\ st' = disk' /\ UNCHANGED licensed

\* The job is kept while the operator, a signal, a delivery or the clock moves.
KeepsJob ==
  /\ Running /\ UNCHANGED <<job, proc, licensed>>
  /\ \/ \E action \in DOMAIN Transition : Control(action)
     \/ UNCHANGED <<epoch, interrupted>> /\ (UNCHANGED <<st, disk>> \/ Elapse)

\* A network step moves the job through its phases and writes nothing to disk.
LEMMA AdapterSteps ==
  ASSUME TypeOK, WriteAdapter
  PROVE  /\ job.kind = "action" /\ job'.kind = "action"
         /\ job'.index = job.index /\ job'.write = job.write
         /\ UNCHANGED <<proc, st, disk, files, epoch, calls, interrupted>>
         /\ \/ /\ job.phase = "get" /\ job'.phase = "send" /\ job.write
               /\ UNCHANGED licensed
            \/ SendPut /\ job'.phase = "put" /\ licensed' = licensed \ {job.index}
            \/ job'.phase = "done" /\ UNCHANGED licensed
<1> USE DEF network
<1>0. job \in Jobs
  BY DEF TypeOK
<1>1. ASSUME NEW answer \in {"none", "receipt", "absent", "error"}
      PROVE  LET next == Answered(answer) IN
             /\ next.kind = job.kind /\ next.index = job.index /\ next.write = job.write
             /\ next.phase = "done"
  BY <1>0 DEF Answered, Jobs
<1>2. CASE QueryFinds \/ PutConfirmed
  BY <1>1, <1>2 DEF QueryFinds, PutConfirmed
<1>3. CASE RequestFails
  BY <1>1, <1>3 DEF RequestFails
<1>4. CASE QueryMisses
  BY <1>0, <1>1, <1>4 DEF QueryMisses, Jobs
<1>5. CASE SendPut
  <2>1. job' = [job EXCEPT !.phase = "put"]
    BY <1>5 DEF SendPut
  <2> QED BY <1>0, <1>5, <2>1 DEF SendPut, Jobs
<1> QED BY <1>2, <1>3, <1>4, <1>5 DEF WriteAdapter

\* The launch of an action leaves its marker on disk.
LEMMA StartActionLaunches ==
  ASSUME TypeOK, NEW i \in DOMAIN st.actions, NEW readOnly \in BOOLEAN,
         StartAction(i, readOnly), st = disk, readOnly \/ RecoveryReady(disk), ~Running
  PROVE  ~Running' \/ LaunchesAction(i, readOnly)
<1> DEFINE a == disk.actions[i]
           write == AllowWrite(a, readOnly)
           b == InFlight(a, write)
<1>1. a \in Intents /\ write \in BOOLEAN /\ (write => ~readOnly)
  BY DEF TypeOK, Snapshots, AllowWrite
<1>2. CASE Exhausted(a, write)
  BY <1>2 DEF StartAction, Running, Idle
<1>3. CASE ~Exhausted(a, write)
  <2>1. b \in Intents
    BY <1>1, IntentType
  <2>2. i \in Indexes
    <3>1. Len(st.actions) <= MaxActions
      BY DEF StartAction, ValidActions
    <3>2. st.actions \in Seq(Intents)
      BY DEF TypeOK, Snapshots
    <3>3. i \in 1..Len(st.actions) /\ Len(st.actions) \in Nat
      BY <3>2
    <3> QED BY <3>1, <3>3, SnapshotAssumption DEF Indexes
  <2>3. \/ job' = Idle
        \/ /\ st' = WithAction(disk, i, b) /\ disk' = st'
           /\ job' = ActionJob(i, write)
    BY <1>3 DEF StartAction, Launched, Saved
  <2>4. UNCHANGED licensed
    BY DEF StartAction, network
  <2> QED BY <1>1, <2>1, <2>2, <2>3, <2>4 DEF LaunchesAction, Running, Idle
<1> QED BY <1>2, <1>3

\* A job exists because it was launched in a snapshot that is on disk, or is kept.
LEMMA JobSteps ==
  ASSUME TypeOK, Durability, [Next]_vars
  PROVE  \/ ~Running'
         \/ LaunchesCycle
         \/ \E i \in Indexes, readOnly \in BOOLEAN : LaunchesAction(i, readOnly)
         \/ WriteAdapter
         \/ KeepsJob
<1> DEFINE Goal == \/ ~Running'
                   \/ LaunchesCycle
                   \/ \E i \in Indexes, readOnly \in BOOLEAN : LaunchesAction(i, readOnly)
                   \/ WriteAdapter
                   \/ KeepsJob
<1> USE DEF network
<1>0. /\ ~fatal => st = disk
      /\ proc = "none" => ~fatal /\ ~Running
      /\ Idle.kind = "none"
  BY DEF Durability, NoUnsavedState, NoProcess, Idle
<1>1. CASE StartCycle
  <2>1. st = disk
    BY <1>0, <1>1 DEF StartCycle, MayStep
  <2>2. CASE job' = Idle
    BY <1>0, <2>2 DEF Running
  <2>3. CASE job' # Idle
    <3>1. Saved(CycleStart(st)) /\ st' = CycleStart(st) /\ job' = CycleJob
          /\ CycleStart(st).status = "active"
      BY <1>1, <2>3 DEF StartCycle, Launched
    <3>2. disk' = CycleStart(disk) /\ st' = disk' /\ disk'.status = "active"
      BY <2>1, <3>1 DEF Saved
    <3>3. /\ ~interrupted' /\ UNCHANGED <<proc, epoch, licensed>> /\ MayStep
          /\ Open(disk) = {}
      BY <1>1, <2>1 DEF StartCycle
    <3>4. StartsCycle
      BY <1>1, <2>1, <3>2 DEF StartsCycle
    <3> QED BY <2>1, <3>1, <3>2, <3>3, <3>4 DEF LaunchesCycle, MayStep
  <2> QED BY <2>2, <2>3
<1>2. CASE \/ CycleDiscarded \/ CycleFailed \/ TickFails \/ SettleAction \/ Exit \/ Crash
           \/ \E r \in Results : CycleCommitted(r)
  BY <1>0, <1>2 DEF CycleDiscarded, CycleFailed, TickFails, SettleAction, Exit, Crash,
                    Gone, CycleCommitted, Running
<1>3. CASE StepAction
  <2>1. PICK i \in DOMAIN st.actions : MayStep /\ StartAction(i, FALSE)
    BY <1>3 DEF StepAction
  <2>2. st = disk /\ RecoveryReady(disk) /\ ~Running
    BY <1>0, <2>1 DEF MayStep
  <2>3. ~Running' \/ LaunchesAction(i, FALSE)
    BY <2>1, <2>2, StartActionLaunches
  <2> QED BY <2>3 DEF LaunchesAction
<1>4. ASSUME NEW i \in Indexes, NEW readOnly \in BOOLEAN, RunAction(i, readOnly)
      PROVE  Goal
  <2>1. /\ i \in DOMAIN st.actions /\ StartAction(i, readOnly) /\ ~Running
        /\ st = disk /\ (readOnly \/ RecoveryReady(disk))
    BY <1>0, <1>4 DEF RunAction
  <2> QED BY <2>1, StartActionLaunches
<1>5. ASSUME NEW action \in DOMAIN Transition, Control(action) PROVE Goal
  BY <1>5 DEF Control, KeepsJob, Running
<1>6. CASE \/ \E action \in DOMAIN Transition : OfflineControl(action)
           \/ \E kind \in {"serve", "run"} : Start(kind)
  BY <1>0, <1>6 DEF OfflineControl, Start, Running
<1>7. CASE Propose \/ \E i \in Indexes, command \in Commands : Decide(i, command)
  BY <1>7 DEF Propose, Decide, MayDecide, Running
<1>8. CASE Signal \/ (\E i \in Indexes : Deliver(i)) \/ Elapse \/ UNCHANGED vars
  <2>1. /\ UNCHANGED <<job, proc, licensed, epoch, interrupted>>
        /\ UNCHANGED <<st, disk>> \/ Elapse
    BY <1>8 DEF Signal, Deliver, Elapse, vars
  <2> QED BY <2>1 DEF KeepsJob, Running
<1> QED BY <1>1, <1>2, <1>3, <1>4, <1>5, <1>6, <1>7, <1>8
        DEF Next, Cycles, Actions, Operator, Host, World

-----------------------------------------------------------------------------
(* The invariants of the job in hand.                                      *)

InHand == Together /\ ActiveReady /\ CycleInHand /\ ActionInHand

\* Neither a job nor an action exists at first.
LEMMA InHandInit == Init => InHand /\ Licence
BY DEF Init, InHand, Together, ActiveReady, CycleInHand, ActionInHand, Licence, Idle,
       Running, Fresh, RecoveryReady

\* What a control command during an execution leaves.
LEMMA ControlMoves ==
  ASSUME TypeOK, Durability, Together, CycleInHand, NEW action \in DOMAIN Transition,
         Control(action)
  PROVE  /\ st = disk /\ Moves(disk, st')
         /\ st' = Controlled(disk, action) /\ (disk' = disk \/ disk' = st')
<1>1. st = disk /\ Accepts(disk, action)
  BY StateOnDisk DEF Control
<1>2. st' = Controlled(disk, action) /\ (disk' = disk \/ disk' = st')
  BY <1>1, PersistSaves DEF Control
<1> QED BY <1>1, <1>2, SnapshotMoves DEF TypeOK

\* Memory and disk differ at most in the status while a job runs.
LEMMA TogetherNext ==
  ASSUME TypeOK, TypeOK', Durability, Together, CycleInHand, [Next]_vars
  PROVE  Together'
<1>1. CASE ~Running'
  BY <1>1 DEF Together
<1>2. CASE st' = disk'
  <2>1. st' = [disk' EXCEPT !.status = st'.status]
    BY <1>2 DEF TypeOK, Snapshots
  <2> QED BY <1>2, <2>1 DEF Together, MayBecome
<1>3. CASE WriteAdapter
  BY <1>3 DEF WriteAdapter, QueryFinds, QueryMisses, SendPut, PutConfirmed,
     RequestFails, Together, Running
<1>4. ASSUME NEW action \in DOMAIN Transition, Control(action) PROVE Together'
  <2>1. /\ st = disk /\ Moves(disk, st') /\ st' = Controlled(disk, action)
        /\ disk' = disk \/ disk' = st'
    BY <1>4, ControlMoves
  <2>2. st' = [disk EXCEPT !.status = st'.status]
    BY <2>1 DEF Controlled, TypeOK, Snapshots
  <2>3. CASE disk' = disk
    BY <2>1, <2>2, <2>3 DEF Together, Moves
  <2> QED BY <1>2, <2>1, <2>3
<1>5. CASE KeepsJob
  <2>1. CASE UNCHANGED <<st, disk>>
    BY <1>5, <2>1 DEF KeepsJob, Together, Running
  <2>2. CASE Elapse
    <3>1. /\ st' = [st EXCEPT !.resting = FALSE] /\ disk' = [disk EXCEPT !.resting = FALSE]
          /\ st = [disk EXCEPT !.status = st.status] /\ MayBecome(disk, st)
      BY <1>5, <2>2 DEF KeepsJob, Elapse, Together
    <3> QED BY <3>1 DEF Together, MayBecome, RecoveryReady, TypeOK, Snapshots
  <2> QED BY <1>4, <1>5, <2>1, <2>2 DEF KeepsJob
<1> QED BY <1>1, <1>2, <1>3, <1>5, JobSteps DEF LaunchesCycle, LaunchesAction

\* A restored snapshot is not activated before it is recovered.
LEMMA ActiveReadyNext ==
  ASSUME TypeOK, TypeOK', Durability, Together, CycleInHand, ActiveReady, [Next]_vars
  PROVE  ActiveReady'
<1> USE DEF ActiveReady
<1>a. disk \in Snapshots /\ st \in Snapshots
  BY DEF TypeOK
<1>b. \A s, t : Moves(s, t) /\ (s.status = "active" => RecoveryReady(s)) =>
                  (t.status = "active" => RecoveryReady(t))
  BY DEF Moves, SameProgress, MayBecome, RecoveryReady
<1>1. disk'.status = "active" => RecoveryReady(disk')
  <2>1. CASE Moves(disk, disk')
    BY <1>b, <2>1
  <2>2. CASE StartsCycle
    BY <1>a, <2>2, CycleStartFields DEF StartsCycle, StartCycle, MayStep, RecoveryReady
  <2>3. ASSUME NEW r \in Results, ConfirmsCycle(r)
        PROVE  disk'.status = "active" => RecoveryReady(disk')
    BY <1>a, <2>3, CommittedFields DEF ConfirmsCycle, RecoveryReady
  <2> QED BY <2>1, <2>2, <2>3, DiskSteps
<1>2. CASE ~fatal'
  <2>1. st' = disk'
    BY <1>2, DurabilityNext DEF Durability, NoUnsavedState
  <2> QED BY <1>1, <2>1
<1>3. CASE Moves(st, st')
  BY <1>1, <1>3, <1>b
<1>4. CASE Moves(disk, st')
  BY <1>1, <1>4, <1>b
<1>5. CASE st' = st
  BY <1>1, <1>5
<1>6. CASE StartCycle
  <2>1. st' = CycleStart(st) /\ RecoveryReady(st)
    BY <1>6 DEF StartCycle, Launched, MayStep
  <2> QED BY <1>1, <1>a, <2>1, CycleStartFields DEF RecoveryReady
<1>7. CASE CycleDiscarded \/ WriteAdapter
  BY <1>5, <1>7 DEF CycleDiscarded, WriteAdapter, QueryFinds, QueryMisses,
     SendPut, PutConfirmed, RequestFails
<1>8. CASE CycleFailed
  <2>1. st' = Paused(st)
    BY <1>8 DEF CycleFailed
  <2> QED BY <1>1, <1>a, <2>1 DEF Paused, Snapshots
<1>9. CASE TickFails \/ Exit \/ Crash
  BY <1>2, <1>9 DEF TickFails, Exit, Crash, Gone
<1>10. ASSUME NEW r \in Results, CycleCommitted(r) PROVE ActiveReady'
  <2>1. st' = Committed(st, r) \/ st' = st
    BY <1>10, PersistSaves DEF CycleCommitted, StoreArtifact
  <2>2. Committed(st, r).status = "active" => RecoveryReady(Committed(st, r))
    BY <1>a, CommittedFields DEF RecoveryReady
  <2> QED BY <1>1, <2>1, <2>2
<1>11. ASSUME NEW i \in DOMAIN st.actions, NEW readOnly \in BOOLEAN,
              StartAction(i, readOnly), st = disk
       PROVE  ActiveReady'
  BY <1>4, <1>11, StartActionMoves
<1>12. CASE StepAction
  BY <1>11, <1>12, StateOnDisk DEF StepAction, MayStep
<1>13. ASSUME NEW i \in Indexes, NEW readOnly \in BOOLEAN, RunAction(i, readOnly)
       PROVE  ActiveReady'
  BY <1>11, <1>13, StateOnDisk DEF RunAction
<1>14. CASE SettleAction
  <2>1. st' = SettledSnapshot
    BY <1>14, PersistSaves DEF SettleAction
  <2>2. SettledSnapshot.recovery = st.recovery /\ SettledSnapshot.status \in {st.status, "paused"}
    BY <1>a DEF SettledSnapshot, PausedIfActive, Paused, WithAction, Snapshots
  <2> QED BY <1>1, <2>1, <2>2 DEF RecoveryReady
<1>15. ASSUME NEW action \in DOMAIN Transition, Control(action) PROVE ActiveReady'
  BY <1>4, <1>15, ControlMoves
<1>16. ASSUME NEW new, SaveDecision(new), ~fatal, Moves(st, new) PROVE ActiveReady'
  <2>1. st' = new \/ st' = disk'
    BY <1>16, PersistSaves DEF SaveDecision
  <2> QED BY <1>1, <1>3, <1>16, <2>1
<1>17. CASE Propose
  BY <1>16, <1>17, <1>a, SnapshotMoves DEF Propose, MayDecide
<1>18. ASSUME NEW i \in Indexes, NEW command \in Commands, Decide(i, command)
       PROVE  ActiveReady'
  <2>0. i \in DOMAIN st.actions
    BY <1>18 DEF Decide
  <2>1. i \in DOMAIN st.actions /\ st.actions[i] \in Intents
    BY <1>a, <2>0 DEF Snapshots
  <2>2. Moves(st, WithAction(st, i, Decided(st.actions[i], command)))
    BY <1>a, <2>1, IntentType, SnapshotMoves
  <2> QED BY <1>16, <1>18, <2>2 DEF Decide, MayDecide
<1>19. ASSUME NEW action \in DOMAIN Transition, OfflineControl(action) PROVE ActiveReady'
  BY <1>1, <1>19 DEF OfflineControl
<1>20. CASE \/ \E kind \in {"serve", "run"} : Start(kind)
            \/ Signal \/ (\E i \in Indexes : Deliver(i)) \/ UNCHANGED vars
  BY <1>5, <1>20 DEF Start, Signal, Deliver, vars
<1>21. CASE Elapse
  BY <1>1, <1>21, <1>a DEF Elapse, Snapshots, RecoveryReady
<1> QED
  BY <1>6, <1>7, <1>8, <1>9, <1>10, <1>12, <1>13, <1>14, <1>15, <1>17, <1>18, <1>19,
     <1>20, <1>21
  DEF Next, Cycles, Actions, Operator, Host, World

-----------------------------------------------------------------------------
(* The ledger of the cycles, as a property of any snapshot.                *)

Counted(s) ==
  /\ Len(s.artifacts) = s.completed /\ s.completed <= MaxCycles
  /\ \A n \in DOMAIN s.artifacts : s.artifacts[n].cycle = n
  /\ s.pending \in {0, s.completed + 1}
  /\ (s.status = "completed") = (s.completed = MaxCycles)

\* Only the worker counts.
LEMMA CountedMoves ==
  ASSUME NEW s, NEW t, Counted(s), Moves(s, t)
  PROVE  Counted(t)
BY DEF Counted, Moves, SameProgress, MayBecome

\* An active mission has a cycle left, and starting it announces the next number.
LEMMA CountedStart ==
  ASSUME NEW s \in Snapshots, Counted(s), s.status = "active"
  PROVE  /\ Counted(CycleStart(s)) /\ s.completed < MaxCycles
         /\ CycleStart(s).pending = s.completed + 1
         /\ CycleStart(s).status \in {"active", "paused"}
<1>1. s.completed < MaxCycles /\ s.completed \in Nat
  BY SnapshotAssumption DEF Counted, Snapshots
<1>2. CycleStart(s).pending = IF s.pending = 0 THEN s.completed + 1 ELSE s.pending
  BY <1>1, CycleStartFields
<1>3. CycleStart(s).pending = s.completed + 1
  BY <1>1, <1>2 DEF Counted
<1>4. /\ CycleStart(s).completed = s.completed /\ CycleStart(s).artifacts = s.artifacts
      /\ CycleStart(s).status \in {"active", "paused"}
  BY <1>1, CycleStartFields
<1>5. Counted(CycleStart(s))
  BY <1>1, <1>3, <1>4 DEF Counted
<1> QED BY <1>1, <1>3, <1>4, <1>5

\* Confirming adds the next cycle, and completes the mission at its limit.
LEMMA CountedCommit ==
  ASSUME NEW s \in Snapshots, NEW r \in Results, Counted(s), s.status = "active"
  PROVE  Counted(Committed(s, r))
<1> DEFINE t == Committed(s, r)
           a == [cycle |-> s.completed + 1, digest |-> r]
<1>1. /\ s.completed < MaxCycles /\ s.completed \in Nat /\ MaxCycles \in Nat
      /\ s.artifacts \in Seq([cycle : Nat, digest : Results])
  BY SnapshotAssumption DEF Counted, Snapshots
<1>2. /\ t.completed = s.completed + 1 /\ t.pending = 0
      /\ t.artifacts = Append(s.artifacts, a)
      /\ t.status = IF s.completed + 1 >= MaxCycles THEN "completed" ELSE "active"
  BY CommittedFields
<1>3. a.cycle = s.completed + 1
  OBVIOUS
<1> HIDE DEF t, a
<1>4. /\ Len(t.artifacts) = Len(s.artifacts) + 1
      /\ DOMAIN t.artifacts = 1..Len(s.artifacts) + 1
      /\ \A n \in DOMAIN s.artifacts : t.artifacts[n] = s.artifacts[n]
      /\ t.artifacts[Len(s.artifacts) + 1] = a
      /\ DOMAIN s.artifacts = 1..Len(s.artifacts)
  BY <1>1, <1>2
<1>5. \A n \in DOMAIN t.artifacts : t.artifacts[n].cycle = n
  BY <1>1, <1>3, <1>4 DEF Counted
<1>6. Len(t.artifacts) = t.completed /\ t.completed <= MaxCycles
  BY <1>1, <1>2, <1>4 DEF Counted
<1>7. (t.status = "completed") = (t.completed = MaxCycles)
  BY <1>1, <1>2
<1> QED BY <1>2, <1>5, <1>6, <1>7 DEF Counted, t

\* Nothing has been confirmed at first.
LEMMA CountedInit == Init => Counted(disk)
<1>1. Counted(Fresh)
  BY SnapshotAssumption DEF Counted, Fresh
<1> QED BY <1>1 DEF Init

\* Every step keeps the ledger of the cycles.
LEMMA CountedNext ==
  ASSUME TypeOK, Durability, Together, CycleInHand, Counted(disk), [Next]_vars
  PROVE  Counted(disk')
<1>1. CASE Moves(disk, disk')
  BY <1>1, CountedMoves
<1>2. CASE StartsCycle
  BY <1>2, CountedStart DEF StartsCycle, StartCycle, MayStep, TypeOK
<1>3. ASSUME NEW r \in Results, ConfirmsCycle(r) PROVE Counted(disk')
  BY <1>3, CountedCommit DEF ConfirmsCycle, TypeOK
<1> QED BY <1>1, <1>2, <1>3, DiskSteps

-----------------------------------------------------------------------------
(* The job in hand, continued.                                             *)

\* A cycle is announced on disk before it runs, and a control command outdates it.
LEMMA CycleInHandNext ==
  ASSUME TypeOK, TypeOK', Durability, Together, CycleInHand, Counted(disk), [Next]_vars
  PROVE  CycleInHand'
<1>a. disk \in Snapshots /\ job \in Jobs /\ epoch \in Nat
  BY DEF TypeOK
<1>1. CASE ~Running'
  BY <1>1 DEF CycleInHand, Running
<1>2. CASE LaunchesCycle
  <2>1. /\ disk' = CycleStart(disk) /\ disk.status = "active" /\ st' = disk'
        /\ disk'.status = "active" /\ job' = CycleJob /\ ~interrupted'
        /\ UNCHANGED <<proc, epoch>> /\ proc \in {"serve", "run"}
        /\ Open(disk) = {} /\ RecoveryReady(disk)
    BY <1>2 DEF LaunchesCycle, StartsCycle
  <2>2. /\ disk'.pending = disk.completed + 1 /\ disk'.completed = disk.completed
        /\ disk.completed < MaxCycles /\ disk'.recovery = disk.recovery
    BY <1>a, <2>1, CountedStart, CycleStartFields
  <2>3. Open(disk') = {}
    BY <1>a, <2>1, CycleStartType DEF Open
  <2>4. job'.epoch = epoch' /\ epoch' \in Nat
    BY <1>a, <2>1 DEF CycleJob, Idle
  <2> QED BY <2>1, <2>2, <2>3, <2>4 DEF CycleInHand, RecoveryReady
<1>3. CASE \/ \E i \in Indexes, readOnly \in BOOLEAN : LaunchesAction(i, readOnly)
           \/ WriteAdapter
  <2>1. job'.kind = "action"
    BY <1>3, AdapterSteps DEF LaunchesAction, ActionJob
  <2> QED BY <2>1 DEF CycleInHand
<1>4. CASE KeepsJob /\ job.kind = "cycle"
  <2>1. /\ UNCHANGED <<job, proc>> /\ job.epoch <= epoch
        /\ disk.pending = disk.completed + 1 /\ disk.completed < MaxCycles
        /\ Open(disk) = {} /\ RecoveryReady(disk)
    BY <1>4 DEF KeepsJob, CycleInHand
  <2>2. ASSUME NEW action \in DOMAIN Transition, Control(action) PROVE CycleInHand'
    <3>1. epoch' = epoch + 1 /\ proc = "serve"
      BY <2>2 DEF Control
    <3>2. Moves(disk, disk') /\ disk'.actions = disk.actions
      BY <2>2, <1>a, ControlMoves, SnapshotMoves, ControlledType
    <3>3. Open(disk') = {}
      BY <2>1, <3>2 DEF Open
    <3>4. job'.epoch <= epoch' /\ job'.epoch # epoch'
      BY <1>a, <2>1, <3>1 DEF Jobs
    <3> QED BY <2>1, <3>1, <3>2, <3>3, <3>4
            DEF CycleInHand, Moves, SameProgress, RecoveryReady
  <2>3. CASE UNCHANGED <<epoch, interrupted, st, disk>>
    BY <2>1, <2>3 DEF CycleInHand
  <2>4. CASE UNCHANGED <<epoch, interrupted>> /\ Elapse
    <3>1. /\ st' = [st EXCEPT !.resting = FALSE] /\ disk' = [disk EXCEPT !.resting = FALSE]
      BY <2>4 DEF Elapse
    <3>2. /\ Moves(disk, disk') /\ disk'.actions = disk.actions
          /\ st'.status = st.status /\ (st = disk => st' = disk')
      BY <3>1 DEF TypeOK, Snapshots, Moves, SameProgress, MayBecome
    <3>3. Open(disk') = {}
      BY <2>1, <3>2 DEF Open
    <3> QED BY <1>4, <2>1, <2>4, <3>2, <3>3 DEF CycleInHand, Moves, SameProgress, RecoveryReady
  <2> QED BY <1>4, <2>2, <2>3, <2>4 DEF KeepsJob
<1>5. CASE KeepsJob /\ job.kind # "cycle"
  BY <1>5 DEF KeepsJob, CycleInHand
<1> QED BY <1>1, <1>2, <1>3, <1>4, <1>5, JobSteps

\* The updates of one action, field by field.
LEMMA IntentFields ==
  ASSUME NEW a \in Intents
  PROVE  /\ \A write \in BOOLEAN :
              LET b == InFlight(a, write) IN
              /\ b.status = "in_flight" /\ b.checks = a.checks + 1
              /\ b.attempts = IF write THEN a.attempts + 1 ELSE a.attempts
              /\ b.approved = a.approved /\ b.receipt = a.receipt
         /\ \A answer \in Answers :
              LET b == Outcome(a, answer) IN
              /\ b.status \in {"succeeded", "retry_required", "unknown"}
              /\ (b.status = "succeeded") = (answer = "receipt")
              /\ b.checks = a.checks /\ b.attempts = a.attempts
              /\ b.approved = a.approved
              /\ b.receipt = (a.receipt \/ answer = "receipt")
         /\ \A command \in Commands :
              LET b == Decided(a, command) IN
              /\ b.status = IF command = "reject" THEN "rejected" ELSE "approved"
              /\ b.checks = a.checks /\ b.attempts = a.attempts
              /\ b.approved = (a.approved \/ command = "approve")
              /\ b.receipt = a.receipt
<1>1. ASSUME NEW write \in BOOLEAN
      PROVE  LET b == InFlight(a, write) IN
             /\ b.status = "in_flight" /\ b.checks = a.checks + 1
             /\ b.attempts = IF write THEN a.attempts + 1 ELSE a.attempts
             /\ b.approved = a.approved /\ b.receipt = a.receipt
  <2> DEFINE n == IF write THEN a.attempts + 1 ELSE a.attempts
             c == a.checks + 1
  <2>1. InFlight(a, write) =
          [a EXCEPT !.checks = c, !.attempts = n, !.status = "in_flight"]
    BY DEF InFlight
  <2> HIDE DEF n, c
  <2>2. LET b == InFlight(a, write) IN
        /\ b.status = "in_flight" /\ b.checks = c /\ b.attempts = n
        /\ b.approved = a.approved /\ b.receipt = a.receipt
    BY <2>1 DEF Intents
  <2> QED BY <2>2 DEF n, c
<1>2. ASSUME NEW answer \in Answers
      PROVE  LET b == Outcome(a, answer) IN
             /\ b.status \in {"succeeded", "retry_required", "unknown"}
             /\ (b.status = "succeeded") = (answer = "receipt")
             /\ b.checks = a.checks /\ b.attempts = a.attempts
             /\ b.approved = a.approved
             /\ b.receipt = (a.receipt \/ answer = "receipt")
  <2> DEFINE status == CASE answer = "receipt" -> "succeeded"
                         [] answer = "absent"  -> "retry_required"
                         [] OTHER              -> "unknown"
             receipt == a.receipt \/ answer = "receipt"
  <2>1. Outcome(a, answer) = [a EXCEPT !.status = status, !.receipt = receipt]
    BY DEF Outcome
  <2>2. /\ status \in {"succeeded", "retry_required", "unknown"}
        /\ (status = "succeeded") = (answer = "receipt")
    BY DEF Answers
  <2> HIDE DEF status, receipt
  <2>3. LET b == Outcome(a, answer) IN
        /\ b.status = status /\ b.receipt = receipt
        /\ b.checks = a.checks /\ b.attempts = a.attempts /\ b.approved = a.approved
    BY <2>1 DEF Intents
  <2> QED BY <2>2, <2>3 DEF receipt
<1>3. ASSUME NEW command \in Commands
      PROVE  LET b == Decided(a, command) IN
             /\ b.status = IF command = "reject" THEN "rejected" ELSE "approved"
             /\ b.checks = a.checks /\ b.attempts = a.attempts
             /\ b.approved = (a.approved \/ command = "approve")
             /\ b.receipt = a.receipt
  <2> DEFINE status == IF command = "reject" THEN "rejected" ELSE "approved"
             approved == a.approved \/ command = "approve"
  <2>1. Decided(a, command) = [a EXCEPT !.status = status, !.approved = approved]
    BY DEF Decided
  <2> HIDE DEF status, approved
  <2>2. LET b == Decided(a, command) IN
        /\ b.status = status /\ b.approved = approved
        /\ b.checks = a.checks /\ b.attempts = a.attempts /\ b.receipt = a.receipt
    BY <2>1 DEF Intents
  <2> QED BY <2>2 DEF status, approved
<1> QED BY <1>1, <1>2, <1>3

\* What happens during an execution leaves the queue and the recovery flag on disk.
LEMMA KeepsJobDisk ==
  ASSUME TypeOK, Durability, KeepsJob
  PROVE  disk'.actions = disk.actions /\ disk'.recovery = disk.recovery
<1>1. CASE UNCHANGED disk
  BY <1>1
<1>2. CASE Elapse
  BY <1>2 DEF Elapse, TypeOK, Snapshots
<1>3. ASSUME NEW action \in DOMAIN Transition, Control(action)
      PROVE  disk'.actions = disk.actions /\ disk'.recovery = disk.recovery
  <2>1. st = disk /\ Accepts(disk, action)
    BY <1>3 DEF Control, Durability, NoUnsavedState
  <2>2. disk' = disk \/ disk' = Controlled(disk, action)
    BY <1>3, <2>1, PersistSaves DEF Control
  <2> QED BY <2>1, <2>2, ControlledType, SnapshotMoves DEF TypeOK, Moves, SameProgress
<1> QED BY <1>1, <1>2, <1>3 DEF KeepsJob

\* An action job works on a marker that stays on disk until it is settled.
LEMMA ActionInHandNext ==
  ASSUME TypeOK, TypeOK', Durability, ActionInHand, [Next]_vars
  PROVE  ActionInHand'
<1>1. CASE ~Running'
  BY <1>1 DEF ActionInHand, Running
<1>2. CASE LaunchesCycle
  BY <1>2 DEF LaunchesCycle, CycleJob, Idle, ActionInHand
<1>3. ASSUME NEW i \in Indexes, NEW readOnly \in BOOLEAN, LaunchesAction(i, readOnly)
      PROVE  ActionInHand'
  <2> DEFINE write == AllowWrite(disk.actions[i], readOnly)
             b == InFlight(disk.actions[i], write)
             new == WithAction(disk, i, b)
  <2>1. /\ i \in DOMAIN disk.actions /\ b \in Intents /\ job' = ActionJob(i, write)
        /\ disk' = new /\ (write => RecoveryReady(disk)) /\ disk.actions[i] \in Intents
    BY <1>3 DEF LaunchesAction, TypeOK, Snapshots
  <2>2. b.status = "in_flight"
    BY <2>1, IntentFields DEF AllowWrite
  <2>3. /\ new.actions = [disk.actions EXCEPT ![i] = b]
        /\ DOMAIN new.actions = DOMAIN disk.actions
        /\ new.recovery = disk.recovery
    BY <2>1, WithActionType, SnapshotMoves DEF TypeOK, Moves, SameProgress
  <2> HIDE DEF b, new
  <2>4. new.actions[i].status = "in_flight"
    BY <2>1, <2>2, <2>3
  <2>5. job'.index = i /\ job'.write = write /\ job'.phase = "get"
    BY <2>1 DEF ActionJob
  <2> HIDE DEF write
  <2> QED BY <2>1, <2>3, <2>4, <2>5 DEF ActionInHand, RecoveryReady
<1>4. CASE WriteAdapter
  BY <1>4, AdapterSteps DEF ActionInHand
<1>5. CASE KeepsJob
  BY <1>5, KeepsJobDisk DEF KeepsJob, ActionInHand, RecoveryReady
<1> QED BY <1>1, <1>2, <1>3, <1>4, <1>5, JobSteps

-----------------------------------------------------------------------------
(* Licences.                                                               *)

\* An approval keeps its licence until the request it allows.
LEMMA LicenceNext ==
  ASSUME TypeOK, TypeOK', Durability, ActionInHand, Licence, [Next]_vars
  PROVE  Licence'
<1> DEFINE Job == job.kind = "action" /\ job.write /\ job.phase \in {"get", "send"} =>
                    job.index \in licensed
           Approved == \A i \in DOMAIN disk.actions :
                         disk.actions[i].status = "approved" => i \in licensed
<1>a. /\ Job /\ Approved /\ (Licence' <=> Job' /\ Approved')
      /\ ~fatal => st = disk
      /\ proc = "none" => st = disk
      /\ disk.actions \in Seq(Intents)
  BY DEF Licence, Durability, NoUnsavedState, NoProcess, TypeOK, Snapshots
<1>b. licensed \subseteq licensed' \/ SendPut
  BY DEF Next, Cycles, StartCycle, CycleDiscarded, CycleFailed, TickFails, Gone,
     CycleCommitted, Actions, StepAction, StartAction, WriteAdapter, QueryFinds,
     QueryMisses, PutConfirmed, RequestFails, SettleAction, Operator, Control,
     OfflineControl, Propose, Decide, RunAction, Host, Start, Signal, Exit, Crash, World,
     Deliver, Elapse, vars, network
<1>1. Job'
  <2>1. CASE ~Running'
    BY <2>1 DEF Running
  <2>2. CASE LaunchesCycle
    BY <2>2 DEF LaunchesCycle, CycleJob, Idle
  <2>3. ASSUME NEW i \in Indexes, NEW readOnly \in BOOLEAN, LaunchesAction(i, readOnly)
        PROVE  Job'
    <3>1. /\ i \in DOMAIN disk.actions /\ licensed' = licensed
          /\ job' = ActionJob(i, AllowWrite(disk.actions[i], readOnly))
      BY <2>3 DEF LaunchesAction
    <3>2. job'.write => disk.actions[i].status = "approved"
      BY <3>1 DEF ActionJob, AllowWrite
    <3>3. job'.index = i
      BY <3>1 DEF ActionJob
    <3> QED BY <1>a, <3>1, <3>2, <3>3
  <2>4. CASE WriteAdapter
    BY <1>a, <2>4, AdapterSteps
  <2>5. CASE KeepsJob
    BY <1>a, <2>5 DEF KeepsJob
  <2> QED BY <2>1, <2>2, <2>3, <2>4, <2>5, JobSteps
<1>2. Approved'
  <2>1. CASE SendPut
    <3>1. disk' = disk /\ licensed' = licensed \ {job.index} /\ job.kind = "action"
      BY <2>1 DEF SendPut
    <3>2. disk.actions[job.index].status = "in_flight"
      BY <3>1 DEF ActionInHand
    <3> QED BY <1>a, <3>1, <3>2
  <2>2. CASE licensed \subseteq licensed' /\ disk'.actions = disk.actions
    BY <1>a, <2>2
  <2>3. CASE licensed \subseteq licensed' /\ Proposes
    <3>1. disk'.actions = Append(disk.actions, NewIntent) /\ NewIntent.status = "proposed"
      BY <2>3 DEF Proposes, NewIntent
    <3>2. \A i \in DOMAIN disk'.actions :
            \/ i \in DOMAIN disk.actions /\ disk'.actions[i] = disk.actions[i]
            \/ disk'.actions[i] = NewIntent
      BY <1>a, <3>1
    <3> QED BY <1>a, <2>3, <3>1, <3>2
  <2>4. ASSUME NEW i \in DOMAIN disk.actions, NEW b \in Intents, Replaces(i, b),
               licensed \subseteq licensed'
        PROVE  Approved'
    <3>0. disk.actions[i] \in Intents /\ job \in Jobs
      BY <1>a DEF TypeOK
    <3>1. /\ DOMAIN disk'.actions = DOMAIN disk.actions
          /\ \A j \in DOMAIN disk.actions :
               disk'.actions[j] = IF j = i THEN b ELSE disk.actions[j]
      BY <2>4 DEF Replaces
    <3>2. b.status = "approved" => i \in licensed'
      <4>1. CASE Decides(i, b)
        <5>1. PICK command \in Commands :
                Decide(i, command) /\ b = Decided(disk.actions[i], command)
          BY <4>1 DEF Decides
        <5>2. b.status = IF command = "reject" THEN "rejected" ELSE "approved"
          BY <3>0, <5>1, IntentFields
        <5> QED BY <5>1, <5>2 DEF Decide
      <4>2. CASE Starts(i, b)
        <5>1. PICK readOnly \in BOOLEAN :
                b = InFlight(disk.actions[i], AllowWrite(disk.actions[i], readOnly))
          BY <4>2 DEF Starts
        <5>2. AllowWrite(disk.actions[i], readOnly) \in BOOLEAN
          BY DEF AllowWrite
        <5> QED BY <3>0, <5>1, <5>2, IntentFields
      <4>3. CASE Settles(i, b)
        <5>1. b = Outcome(disk.actions[i], job.answer) /\ job.answer \in Answers
          BY <3>0, <4>3 DEF Settles, Jobs, Answers
        <5> QED BY <3>0, <5>1, IntentFields
      <4> QED BY <2>4, <4>1, <4>2, <4>3 DEF Replaces
    <3> QED BY <1>a, <2>4, <3>1, <3>2
  <2> QED BY <1>b, <2>1, <2>2, <2>3, <2>4, QueueSteps
<1> QED BY <1>a, <1>1, <1>2

\* Only SendPut issues a request.
LEMMA OnlySendPut == ASSUME [Next]_vars PROVE sent' = sent \/ SendPut
BY DEF Next, Cycles, StartCycle, CycleDiscarded, CycleFailed, TickFails, Gone,
   CycleCommitted, Actions, StepAction, StartAction, WriteAdapter, QueryFinds,
   QueryMisses, PutConfirmed, RequestFails, SettleAction, Operator, Control,
   OfflineControl, Propose, Decide, RunAction, Host, Start, Signal, Exit, Crash, World,
   Deliver, Elapse, vars, network

\* A request is sent for an action with a licence.
LEMMA SendsLicensed ==
  ASSUME TypeOK, ActionInHand, Licence, [Next]_vars, NEW i \in Indexes, sent'[i] > sent[i]
  PROVE  i \in licensed
<1>1. sent[i] \in Nat
  BY DEF TypeOK
<1>2. SendPut
  BY <1>1, OnlySendPut
<1>3. sent' = [sent EXCEPT ![job.index] = @ + 1]
  BY <1>2 DEF SendPut
<1>4. i = job.index
  BY <1>1, <1>3 DEF TypeOK
<1>5. job.kind = "action" /\ job.phase = "send" /\ job.write
  BY <1>2 DEF SendPut, ActionInHand
<1> QED BY <1>4, <1>5 DEF Licence

-----------------------------------------------------------------------------
(* The queue on disk stays valid.                                          *)

ValidAction(a) ==
  /\ a.attempts <= MaxAttempts /\ a.checks <= MaxChecks
  /\ a.status \in Authorised => a.approved
  /\ a.receipt = (a.status = "succeeded")

\* Replacing one action by a valid one keeps the queue valid.
LEMMA ValidReplacement ==
  ASSUME NEW s \in Snapshots, NEW t, NEW i \in DOMAIN s.actions, NEW b \in Intents,
         ValidActions(s), ValidAction(b), t.actions = [s.actions EXCEPT ![i] = b]
  PROVE  ValidActions(t)
<1>1. s.actions \in Seq(Intents)
  BY DEF Snapshots
<1>2. /\ Len(t.actions) = Len(s.actions) /\ DOMAIN t.actions = DOMAIN s.actions
      /\ \A j \in DOMAIN s.actions : t.actions[j] = IF j = i THEN b ELSE s.actions[j]
  BY <1>1
<1> QED BY <1>2 DEF ValidActions, ValidAction

\* What the runner may do to an action of a valid queue leaves it valid.
LEMMA ValidReplaced ==
  ASSUME TypeOK, ValidActions(disk), NEW i \in DOMAIN disk.actions, NEW b \in Intents,
         Replaces(i, b)
  PROVE  ValidAction(b)
<1> DEFINE a == disk.actions[i]
<1>1. a \in Intents /\ ValidAction(a)
  BY DEF TypeOK, Snapshots, ValidActions, ValidAction
<1>2. CASE Decides(i, b)
  <2>1. PICK command \in Commands : Decidable(a, command) /\ b = Decided(a, command)
    BY <1>2 DEF Decides
  <2>2. /\ b.status = IF command = "reject" THEN "rejected" ELSE "approved"
        /\ b.checks = a.checks /\ b.attempts = a.attempts
        /\ b.approved = (a.approved \/ command = "approve")
        /\ b.receipt = a.receipt
    BY <1>1, <2>1, IntentFields
  <2>3. a.status # "succeeded" /\ (command = "retry" => a.status = "retry_required")
    BY <2>1 DEF Decidable, Commands
  <2>4. command \in {"approve", "retry", "reject"}
    BY DEF Commands
  <2> QED BY <1>1, <2>2, <2>3, <2>4 DEF ValidAction, Authorised
<1>3. CASE Starts(i, b)
  <2>1. PICK readOnly \in BOOLEAN :
          /\ Runnable(a, readOnly) /\ ~Exhausted(a, AllowWrite(a, readOnly))
          /\ b = InFlight(a, AllowWrite(a, readOnly))
    BY <1>3 DEF Starts
  <2> DEFINE write == AllowWrite(a, readOnly)
  <2>2. write \in BOOLEAN
    BY DEF AllowWrite
  <2> HIDE DEF write
  <2>3. /\ b.status = "in_flight" /\ b.checks = a.checks + 1
        /\ b.attempts = IF write THEN a.attempts + 1 ELSE a.attempts
        /\ b.approved = a.approved /\ b.receipt = a.receipt
    BY <1>1, <2>1, <2>2, IntentFields DEF write
  <2>4. a.status \in {"approved", "in_flight", "unknown", "retry_required"}
    BY <2>1 DEF Runnable
  <2>5. a.checks < MaxChecks /\ (write => a.attempts < MaxAttempts)
    BY <1>1, <2>1, SnapshotAssumption DEF Exhausted, Intents, write
  <2>6. b.checks <= MaxChecks /\ b.attempts <= MaxAttempts
    BY <1>1, <2>3, <2>5, SnapshotAssumption DEF ValidAction, Intents
  <2>7. a.approved /\ a.receipt = FALSE
    BY <1>1, <2>4 DEF ValidAction, Authorised, Intents
  <2>8. b.approved /\ b.receipt = FALSE /\ (b.status = "succeeded") = FALSE
    BY <2>3, <2>7
  <2> QED BY <2>6, <2>8 DEF ValidAction
<1>4. CASE Settles(i, b)
  <2>1. b = Outcome(a, job.answer) /\ job.answer \in Answers /\ a.status = "in_flight"
    BY <1>4 DEF Settles, TypeOK, Jobs, Answers
  <2>2. /\ b.status \in {"succeeded", "retry_required", "unknown"}
        /\ (b.status = "succeeded") = (job.answer = "receipt")
        /\ b.checks = a.checks /\ b.attempts = a.attempts
        /\ b.approved = a.approved
        /\ b.receipt = (a.receipt \/ job.answer = "receipt")
    BY <1>1, <2>1, IntentFields
  <2>3. a.approved /\ ~a.receipt
    BY <1>1, <2>1 DEF ValidAction, Authorised, Intents
  <2> QED BY <1>1, <2>2, <2>3 DEF ValidAction, Authorised
<1> QED BY <1>2, <1>3, <1>4 DEF Replaces

\* A queue at the code's limits is loadable.
LEMMA LoadableInit == Init => DiskLoadable
BY SnapshotAssumption DEF Init, DiskLoadable, ValidActions, Fresh

\* Every step leaves a queue that the runner loads.
LEMMA LoadableNext ==
  ASSUME TypeOK, Durability, ActionInHand, DiskLoadable, [Next]_vars
  PROVE  DiskLoadable'
<1>1. CASE disk'.actions = disk.actions
  BY <1>1 DEF DiskLoadable, ValidActions
<1>2. CASE Proposes
  <2>1. /\ disk.actions \in Seq(Intents) /\ Len(disk.actions) < MaxActions
        /\ disk'.actions = Append(disk.actions, NewIntent)
    BY <1>2 DEF Proposes, TypeOK, Snapshots
  <2>2. ValidAction(NewIntent)
    <3>1. /\ NewIntent.attempts = 0 /\ NewIntent.checks = 0
          /\ NewIntent.status \notin Authorised
          /\ NewIntent.receipt = FALSE /\ (NewIntent.status = "succeeded") = FALSE
      BY DEF NewIntent, Authorised
    <3>2. 0 <= MaxAttempts /\ 0 <= MaxChecks
      BY SnapshotAssumption
    <3>3. NewIntent.receipt = (NewIntent.status = "succeeded")
      BY <3>1, Zenon
    <3> QED BY <3>1, <3>2, <3>3, Zenon DEF ValidAction
  <2>3. /\ Len(disk'.actions) = Len(disk.actions) + 1
        /\ \A i \in DOMAIN disk'.actions :
             \/ i \in DOMAIN disk.actions /\ disk'.actions[i] = disk.actions[i]
             \/ disk'.actions[i] = NewIntent
    BY <2>1
  <2>4. Len(disk'.actions) <= MaxActions
    BY <2>1, <2>3, SnapshotAssumption
  <2>5. \A i \in DOMAIN disk.actions : ValidAction(disk.actions[i])
    BY DEF DiskLoadable, ValidActions, ValidAction
  <2> QED BY <2>2, <2>3, <2>4, <2>5 DEF DiskLoadable, ValidActions, ValidAction
<1>3. ASSUME NEW i \in DOMAIN disk.actions, NEW b \in Intents, Replaces(i, b)
      PROVE  DiskLoadable'
  <2>1. ValidAction(b) /\ disk'.actions = [disk.actions EXCEPT ![i] = b]
    BY <1>3, ValidReplaced DEF DiskLoadable, Replaces
  <2> QED BY <2>1, ValidReplacement DEF DiskLoadable, TypeOK
<1> QED BY <1>1, <1>2, <1>3, QueueSteps

-----------------------------------------------------------------------------
(* Completion, artifacts and budget.                                       *)

\* A completed mission has nothing open, and stays so.
LEMMA SettledNext ==
  ASSUME TypeOK, Durability, Together, CycleInHand, ActionInHand, Counted(disk),
         CompletedQueueSettled, [Next]_vars
  PROVE  CompletedQueueSettled'
<1> SUFFICES ASSUME disk'.status = "completed" PROVE Open(disk') = {}
  BY DEF CompletedQueueSettled
<1>1. disk.actions \in Seq(Intents) /\ disk \in Snapshots
  BY DEF TypeOK, Snapshots
<1>2. CASE disk.status = "completed"
  <2>1. Open(disk) = {}
    BY <1>2 DEF CompletedQueueSettled
  <2>2. CASE disk'.actions = disk.actions
    BY <2>1, <2>2 DEF Open
  <2>3. CASE Proposes
    BY <1>2, <2>3 DEF Proposes
  <2>4. ASSUME NEW i \in DOMAIN disk.actions, NEW b \in Intents, Replaces(i, b)
        PROVE  FALSE
    <3>1. disk.actions[i].status \in Settled
      BY <2>1 DEF Open
    <3>2. disk.actions[i].status \notin Settled
      BY <1>2, <2>4 DEF Replaces, Decides, Starts, Settles, Runnable, Settled
    <3> QED BY <3>1, <3>2
  <2> QED BY <2>2, <2>3, <2>4, QueueSteps
<1>3. CASE disk.status # "completed"
  <2>1. ~Moves(disk, disk')
    BY <1>3 DEF Moves, MayBecome
  <2>2. ~StartsCycle
    BY <1>1, CountedStart DEF StartsCycle, StartCycle, MayStep
  <2>3. PICK r \in Results : ConfirmsCycle(r)
    BY <2>1, <2>2, DiskSteps
  <2>4. Open(disk) = {} /\ disk' = Committed(disk, r)
    BY <2>3 DEF ConfirmsCycle, CycleInHand
  <2> QED BY <1>1, <2>4, CommittedType DEF Open
<1> QED BY <1>2, <1>3

\* The store only grows, and the artifact is in it before the snapshot is saved.
LEMMA ArtifactsNext ==
  ASSUME TypeOK, Durability, Together, CycleInHand, ArtifactsDurable, [Next]_vars
  PROVE  ArtifactsDurable'
<1>1. disk.artifacts \in Seq([cycle : Nat, digest : Results]) /\ disk.completed \in Nat
  BY DEF TypeOK, Snapshots
<1>2. files \subseteq files'
  BY DEF Next, Cycles, StartCycle, CycleDiscarded, CycleFailed, TickFails, Gone,
     CycleCommitted, StoreArtifact, Actions, StepAction, StartAction, WriteAdapter,
     QueryFinds, QueryMisses, SendPut, PutConfirmed, RequestFails, SettleAction, Operator,
     Control, OfflineControl, Propose, Decide, RunAction, Host, Start, Signal, Exit, Crash,
     World, Deliver, Elapse, vars
<1>3. CASE disk'.artifacts = disk.artifacts
  BY <1>2, <1>3 DEF ArtifactsDurable
<1>4. ASSUME NEW r \in Results, ConfirmsCycle(r) PROVE ArtifactsDurable'
  <2> DEFINE a == [cycle |-> disk.completed + 1, digest |-> r]
  <2>1. disk'.artifacts = Append(disk.artifacts, a) /\ r \in files'
    BY <1>4, CommittedFields DEF ConfirmsCycle, TypeOK
  <2>2. a \in [cycle : Nat, digest : Results] /\ a.digest = r
    BY <1>1
  <2> HIDE DEF a
  <2>3. \A n \in DOMAIN disk'.artifacts :
          \/ n \in DOMAIN disk.artifacts /\ disk'.artifacts[n] = disk.artifacts[n]
          \/ disk'.artifacts[n] = a
    BY <1>1, <2>1, <2>2
  <2> QED BY <1>2, <2>1, <2>2, <2>3 DEF ArtifactsDurable
<1>5. Moves(disk, disk') \/ StartsCycle => disk'.artifacts = disk.artifacts
  BY CycleStartFields DEF Moves, SameProgress, StartsCycle, TypeOK
<1> QED BY <1>3, <1>4, <1>5, DiskSteps

\* A call is reserved on disk before it is made, and only within the budget.
LEMMA BudgetSteps ==
  ASSUME TypeOK, Durability, Together, CycleInHand, [Next]_vars
  PROVE  \/ calls' = calls /\ disk'.modelAttempts = disk.modelAttempts
         \/ /\ disk.modelAttempts < MaxCalls /\ calls' \in {calls, calls + 1}
            /\ disk'.modelAttempts = disk.modelAttempts + 1
<1>1. disk \in Snapshots /\ Idle.kind = "none"
  BY DEF TypeOK, Idle
<1>2. calls' = calls \/ (StartCycle /\ job' # Idle /\ Cognitive /\ calls' = calls + 1)
  BY DEF Next, Cycles, StartCycle, CycleDiscarded, CycleFailed, TickFails, Gone,
     CycleCommitted, Actions, StepAction, StartAction, WriteAdapter,
     QueryFinds, QueryMisses, SendPut, PutConfirmed, RequestFails, SettleAction, Operator,
     Control, OfflineControl, Propose, Decide, RunAction, Host, Start, Signal, Exit, Crash,
     World, Deliver, Elapse, vars
<1>3. CASE Moves(disk, disk') /\ ~(StartCycle /\ job' # Idle)
  BY <1>2, <1>3 DEF Moves, SameProgress
<1>4. CASE StartsCycle
  <2>1. \/ disk'.modelAttempts = disk.modelAttempts
        \/ /\ Cognitive /\ disk.modelAttempts < MaxCalls
           /\ disk'.modelAttempts = disk.modelAttempts + 1
    BY <1>1, <1>4, CycleStartFields DEF StartsCycle
  <2>2. CASE calls' = calls
    BY <2>1, <2>2
  <2>3. CASE Cognitive /\ job' # Idle /\ calls' = calls + 1
    <3>1. disk'.status = "active"
      BY <1>4, <2>3 DEF StartsCycle, StartCycle, Launched
    <3>2. disk'.modelAttempts = disk.modelAttempts + 1
      BY <1>1, <1>4, <2>3, <3>1, CycleStartFields DEF StartsCycle
    <3>3. disk.modelAttempts \in Nat
      BY <1>1 DEF Snapshots
    <3> QED BY <2>1, <2>3, <3>2, <3>3
  <2> QED BY <1>2, <2>2, <2>3
<1>5. ASSUME NEW r \in Results, ConfirmsCycle(r)
      PROVE  calls' = calls /\ disk'.modelAttempts = disk.modelAttempts
  <2>1. disk'.modelAttempts = disk.modelAttempts
    BY <1>1, <1>5, CommittedFields DEF ConfirmsCycle
  <2>2. ~StartCycle
    BY <1>5 DEF ConfirmsCycle, StartCycle, MayStep, Running
  <2> QED BY <1>2, <2>1, <2>2
<1> QED BY <1>3, <1>4, <1>5, DiskSteps

-----------------------------------------------------------------------------
(* The inductive invariant and what follows from it.                       *)

CInv == /\ Durability /\ InHand /\ Licence /\ Counted(disk) /\ DiskLoadable
        /\ CompletedQueueSettled /\ ArtifactsDurable /\ CallsWithinBudget

\* No cycle, artifact or call exists at first.
LEMMA CInvInit == Init => TypeOK /\ CInv
<1>1. Init => ArtifactsDurable
  BY DEF Init, ArtifactsDurable, Fresh
<1>2. Init => CallsWithinBudget
  BY SnapshotAssumption DEF Init, CallsWithinBudget, Fresh
<1>3. Init => CompletedQueueSettled
  BY DEF Init, CompletedQueueSettled, Fresh
<1> QED BY <1>1, <1>2, <1>3, TypeInit, DurabilityInit, InHandInit, CountedInit,
           LoadableInit DEF CInv

\* Every step keeps the invariant.
LEMMA CInvNext == TypeOK /\ CInv /\ [Next]_vars => (TypeOK /\ CInv)'
<1> SUFFICES ASSUME TypeOK, CInv, [Next]_vars PROVE TypeOK' /\ CInv'
  OBVIOUS
<1>0. /\ Durability /\ Together /\ ActiveReady /\ CycleInHand /\ ActionInHand
      /\ Licence /\ Counted(disk) /\ DiskLoadable
      /\ CompletedQueueSettled /\ ArtifactsDurable /\ CallsWithinBudget
  BY DEF CInv, InHand
<1>1. TypeOK' /\ Durability'
  BY <1>0, TypeNext, DurabilityNext
<1>2. InHand'
  BY <1>0, <1>1, TogetherNext, ActiveReadyNext, CycleInHandNext, ActionInHandNext
  DEF InHand
<1>3. Licence'
  BY <1>0, <1>1, LicenceNext
<1>4. Counted(disk')
  BY <1>0, CountedNext
<1>5. DiskLoadable' /\ CompletedQueueSettled'
  BY <1>0, LoadableNext, SettledNext
<1>6. ArtifactsDurable' /\ CallsWithinBudget'
  BY <1>0, ArtifactsNext, BudgetSteps, SnapshotAssumption
  DEF CallsWithinBudget, TypeOK, Snapshots
<1> QED BY <1>1, <1>2, <1>3, <1>4, <1>5, <1>6 DEF CInv

\* The inductive invariant of the cycles, the budget and the licences.
THEOREM CycleInvariance == Spec => [](TypeOK /\ CInv)
BY CInvInit, CInvNext, PTL DEF Spec

\* Cycles are confirmed in order, one artifact each, and none is lost or counted
\* twice, whatever fails or is repeated.
THEOREM CyclesAreCounted == Spec => []CycleLedger
<1>1. CInv => CycleLedger
  BY DEF CInv, Counted, CycleLedger
<1> QED BY <1>1, CycleInvariance, PTL

\* The snapshot never refers to an artifact that a crash could have lost.
THEOREM ArtifactsAreDurable == Spec => []ArtifactsDurable
<1>1. CInv => ArtifactsDurable
  BY DEF CInv
<1> QED BY <1>1, CycleInvariance, PTL

\* However many processes crash in between, model calls stay within the reservations
\* on disk and those within the budget.
THEOREM CallsAreReserved == Spec => []CallsWithinBudget
<1>1. CInv => CallsWithinBudget
  BY DEF CInv
<1> QED BY <1>1, CycleInvariance, PTL

\* No sequence of failures and commands leaves the mission unloadable.
THEOREM MissionStaysLoadable == Spec => []DiskLoadable
<1>1. CInv => DiskLoadable
  BY DEF CInv
<1> QED BY <1>1, CycleInvariance, PTL

\* No proposal slips in while the last cycle is executing.
THEOREM CompletionIsSettled == Spec => []CompletedQueueSettled
<1>1. CInv => CompletedQueueSettled
  BY DEF CInv
<1> QED BY <1>1, CycleInvariance, PTL

\* A cycle that was executing when a control command was accepted is never confirmed.
THEOREM LateResultsAreDiscarded == Spec => LateResultsDiscarded
<1>1. TypeOK /\ CInv /\ [Next]_vars => [disk'.completed > disk.completed => ~interrupted]_vars
  <2> SUFFICES ASSUME TypeOK, CInv, [Next]_vars, disk'.completed > disk.completed
               PROVE  ~interrupted
    OBVIOUS
  <2>1. disk \in Snapshots /\ disk.completed \in Nat
    BY DEF TypeOK, Snapshots
  <2>2. ~Moves(disk, disk')
    BY <2>1 DEF Moves, SameProgress
  <2>3. ~StartsCycle
    BY <2>1, CycleStartFields DEF StartsCycle
  <2> QED BY <2>2, <2>3, DiskSteps DEF CInv, InHand, ConfirmsCycle
<1> QED BY <1>1, CycleInvariance, PTL DEF Spec, LateResultsDiscarded

\* No restart, late answer or reconciliation sends without the operator's decision.
THEOREM PutsAreLicensed == Spec => EveryPutIsLicensed
<1>1. TypeOK /\ CInv /\ [Next]_vars =>
        [\A i \in Indexes : sent'[i] > sent[i] => i \in licensed]_vars
  BY SendsLicensed DEF CInv, InHand
<1> QED BY <1>1, CycleInvariance, PTL DEF Spec, EveryPutIsLicensed

-----------------------------------------------------------------------------
(* The mission on disk implements the lifecycle.                           *)

LifecycleView == <<disk.status, disk.completed>>

\* A mission starts active with nothing confirmed.
LEMMA LifecycleInit == Init => Promise!Init
BY DEF Init, Promise!Init, Fresh

\* Every step of the mission is a step of the lifecycle or leaves it alone.
LEMMA LifecycleNext == TypeOK /\ CInv /\ [Next]_vars => [Promise!Next]_LifecycleView
<1> SUFFICES ASSUME TypeOK, CInv, [Next]_vars
             PROVE  Promise!Next \/ UNCHANGED LifecycleView
  OBVIOUS
<1>0. disk \in Snapshots /\ disk.completed \in Nat /\ Counted(disk) /\ MaxCycles \in Nat
  BY SnapshotAssumption DEF TypeOK, Snapshots, CInv
<1>1. CASE disk'.completed = disk.completed /\ MayBecome(disk, disk')
  BY <1>1 DEF MayBecome, LifecycleView, Promise!Next, Promise!Pause, Promise!Resume,
              Promise!Cancel
<1>2. CASE StartsCycle
  <2>1. /\ disk.status = "active" /\ disk'.status \in {"active", "paused"}
        /\ disk'.completed = disk.completed
    BY <1>0, <1>2, CountedStart, CycleStartFields DEF StartsCycle, StartCycle, MayStep
  <2> QED BY <1>1, <2>1 DEF MayBecome
<1>3. ASSUME NEW r \in Results, ConfirmsCycle(r) PROVE Promise!Confirm
  <2>1. /\ disk.status = "active" /\ disk'.completed = disk.completed + 1
        /\ disk'.status = IF disk.completed + 1 >= MaxCycles THEN "completed" ELSE "active"
    BY <1>0, <1>3, CommittedFields DEF ConfirmsCycle
  <2>2. disk.completed < MaxCycles
    BY <1>0, <2>1 DEF Counted
  <2> QED BY <1>0, <2>1, <2>2 DEF Promise!Confirm
<1> QED BY <1>1, <1>2, <1>3, DiskSteps DEF CInv, InHand, Moves, SameProgress, Promise!Next

\* The mission on disk moves only as the lifecycle promised to the operator allows:
\* terminal statuses are never left, and cycles are confirmed one by one to the limit.
THEOREM LifecycleImplemented == Spec => LifecycleHolds
<1>1. [Promise!Next]_LifecycleView => [Promise!Next]_(Promise!lifecycleVars)
  BY DEF LifecycleView, Promise!lifecycleVars
<1> QED BY <1>1, LifecycleInit, LifecycleNext, CycleInvariance, PTL
        DEF Spec, LifecycleHolds, Promise!Spec
=============================================================================
