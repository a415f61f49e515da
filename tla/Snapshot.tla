------------------------------ MODULE Snapshot ------------------------------
(***************************************************************************)
(* The durable mission snapshot (state.json) and the pure functions the    *)
(* runner applies to it: the mission state machine of internal/kernel, the *)
(* action queue of internal/core/actions.go and the model-call budget of   *)
(* internal/core/cognition.go.  No variables: Controller and Mission hold  *)
(* one snapshot in memory and one on disk.                                 *)
(*                                                                         *)
(* An action is known by its position in the queue: the code appends and   *)
(* never removes or edits the identity, and a random 128-bit ID stands for *)
(* that position.  A digest is a function of the immutable fields, so the  *)
(* exact approval of a digest is a flag of the action.                     *)
(***************************************************************************)
EXTENDS Integers, Sequences

CONSTANTS
  Results,      \* what an execution can return, as content digests
  MaxCycles,    \* protocol.max_cycles
  Cognitive,    \* is a model configured (state.cognition)?
  MaxCalls,     \* cognition.max_calls, the persistent budget
  MaxActions,   \* 32 in the code; 0 stands for no write policy
  MaxAttempts,  \* writes.max_attempts
  MaxChecks     \* 10 in the code

ASSUME SnapshotAssumption ==
  /\ MaxCycles \in Nat \ {0}
  /\ Cognitive \in BOOLEAN
  /\ MaxCalls \in Nat \ {0}
  /\ MaxActions \in Nat
  /\ MaxAttempts \in Nat \ {0}
  /\ MaxChecks \in Nat \ {0}

Statuses == {"active", "paused", "cancelled", "completed"}

\* Mutant: the queue forgets that a rejected action is over.
SettledBySuccess == {"succeeded"}

Settled == {"succeeded", "rejected"}
Awaiting == {"proposed", "retry_required"}
Authorised == {"approved", "in_flight", "unknown", "retry_required", "succeeded"}
ActionStatuses == Authorised \cup {"proposed", "rejected"}

Intents == [status : ActionStatuses, approved : BOOLEAN, attempts : Nat,
            checks : Nat, receipt : BOOLEAN]

\* pending is the number of the cycle in hand, 0 when there is none; resting
\* says that next_run lies in the future.  Memory is the last artifact's result.
Snapshots == [status : Statuses, completed : Nat, pending : Nat,
              resting : BOOLEAN, artifacts : Seq([cycle : Nat, digest : Results]),
              actions : Seq(Intents), modelAttempts : Nat,
              recovery : {"none", "review", "ready"}]

Fresh == [status |-> "active", completed |-> 0, pending |-> 0, resting |-> FALSE,
          artifacts |-> <<>>, actions |-> <<>>, modelAttempts |-> 0,
          recovery |-> "none"]

-----------------------------------------------------------------------------
(* The mission's status.                                                   *)

RecoveryReady(s) == s.recovery # "review"

\* The status each operator command leads to, from active or paused only.
Transition == [pause |-> "paused", resume |-> "active", cancel |-> "cancelled"]

\* Mutant: the terminal test forgets cancelled.
AcceptsAfterCancel(s, action) ==
  s.status # "completed" /\ (action = "resume" => RecoveryReady(s))

\* Mutant: resume does not ask whether a restored mission was recovered.
AcceptsUnready(s, action) == s.status \in {"active", "paused"}

Accepts(s, action) ==
  /\ s.status \in {"active", "paused"}
  /\ action = "resume" => RecoveryReady(s)

\* Mutant: the command's own name is saved as the status.
ControlledByName(s, action) == [s EXCEPT !.status = action]

Controlled(s, action) == [s EXCEPT !.status = Transition[action]]

Paused(s) == [s EXCEPT !.status = "paused"]

PausedIfActive(s) == IF s.status = "active" THEN Paused(s) ELSE s

Due(s) == s.status = "active" /\ ~s.resting

-----------------------------------------------------------------------------
(* Analytic cycles.                                                        *)

BudgetExhausted(s) == Cognitive /\ s.modelAttempts >= MaxCalls

Reserved(s) == [s EXCEPT !.modelAttempts = IF Cognitive THEN @ + 1 ELSE @]

Begun(s) == [s EXCEPT !.pending = IF @ = 0 THEN s.completed + 1 ELSE @]

\* What the worker saves before it executes a cycle.  The mission stays active
\* only when the cycle is to be executed.
CycleStart(s) ==
  IF s.completed >= MaxCycles THEN [s EXCEPT !.status = "completed"]
  ELSE IF BudgetExhausted(s) THEN Paused(Begun(s))
  ELSE Reserved(Begun(s))

\* Mutant: the commit forgets to clear the pending cycle.
CommittedStillPending(s, r) ==
  [s EXCEPT !.artifacts = Append(@, [cycle |-> s.completed + 1, digest |-> r]),
            !.completed = @ + 1, !.resting = TRUE,
            !.status = IF s.completed + 1 >= MaxCycles THEN "completed" ELSE @]

Committed(s, r) ==
  [s EXCEPT !.artifacts = Append(@, [cycle |-> s.completed + 1, digest |-> r]),
            !.completed = @ + 1, !.pending = 0, !.resting = TRUE,
            !.status = IF s.completed + 1 >= MaxCycles THEN "completed" ELSE @]

-----------------------------------------------------------------------------
(* The queue of write actions.                                             *)

Open(s) == {i \in DOMAIN s.actions : s.actions[i].status \notin Settled}

IsNext(s, i) == i \in Open(s) /\ \A j \in Open(s) : i <= j

NewIntent == [status |-> "proposed", approved |-> FALSE, attempts |-> 0,
              checks |-> 0, receipt |-> FALSE]

\* The snapshot the runner agrees to load and to act upon.
ValidActions(s) ==
  /\ Len(s.actions) <= MaxActions
  /\ \A i \in DOMAIN s.actions :
       LET a == s.actions[i] IN
       /\ a.attempts <= MaxAttempts /\ a.checks <= MaxChecks
       /\ a.status \in Authorised => a.approved
       /\ a.receipt = (a.status = "succeeded")

Proposed(s) == [s EXCEPT !.actions = Append(@, NewIntent)]

WithAction(s, i, a) == [s EXCEPT !.actions = [@ EXCEPT ![i] = a]]

Commands == {"approve", "retry", "reject"}

\* Mutant: an approved action is rejected whatever it has already reserved.
DecidableWhateverAttempts(a, command) ==
  CASE command = "approve" -> a.status = "proposed"
    [] command = "retry"   -> /\ a.status = "retry_required"
                              /\ a.attempts < MaxAttempts /\ a.checks < MaxChecks
    [] command = "reject"  -> a.status \in {"proposed", "approved"}

Decidable(a, command) ==
  CASE command = "approve" -> a.status = "proposed"
    [] command = "retry"   -> /\ a.status = "retry_required"
                              /\ a.attempts < MaxAttempts /\ a.checks < MaxChecks
    [] command = "reject"  -> a.status \in {"proposed", "approved"} /\ a.attempts = 0

\* Mutant: the approval does not record the reviewed digest.
DecidedWithoutDigest(a, command) ==
  [a EXCEPT !.status = IF command = "reject" THEN "rejected" ELSE "approved"]

Decided(a, command) ==
  [a EXCEPT !.status = IF command = "reject" THEN "rejected" ELSE "approved",
            !.approved = @ \/ command = "approve"]

Runnable(a, readOnly) ==
  \/ a.status \in {"approved", "in_flight", "unknown"}
  \/ readOnly /\ a.status = "retry_required"

\* Mutant: an interrupted action is written again without the operator.
AllowWriteOnRestart(a, readOnly) == ~readOnly /\ a.status \in {"approved", "in_flight"}

AllowWrite(a, readOnly) == ~readOnly /\ a.status = "approved"

Exhausted(a, write) == a.checks >= MaxChecks \/ (write /\ a.attempts >= MaxAttempts)

\* Mutant: the write is not reserved before it is sent.
InFlightUnreserved(a, write) == [a EXCEPT !.checks = @ + 1, !.status = "in_flight"]

InFlight(a, write) ==
  [a EXCEPT !.checks = @ + 1, !.attempts = IF write THEN @ + 1 ELSE @,
            !.status = "in_flight"]

Outcome(a, answer) ==
  [a EXCEPT !.status = CASE answer = "receipt" -> "succeeded"
                         [] answer = "absent"  -> "retry_required"
                         [] OTHER              -> "unknown",
            !.receipt = @ \/ answer = "receipt"]
=============================================================================
