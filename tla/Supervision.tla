----------------------------- MODULE Supervision -----------------------------
(***************************************************************************)
(* The deployment: one service unit, its supervisor, and the job that      *)
(* stops the service, captures a backup and starts it again (backup.sh).   *)
(* systemd is external; what the unit files ask of it is modelled.  The    *)
(* operator may start and stop the service at any time, the service may    *)
(* fail at any time, and the job may fail at every command or be           *)
(* interrupted, by its own timeout too.                                    *)
(***************************************************************************)
EXTENDS Naturals

CONSTANTS
  Burst,      \* StartLimitBurst: starts within StartLimitIntervalSec
  MaxEvents   \* bound: jobs, failures, and what the operator or the clock does

ASSUME SupervisionAssumption == Burst \in Nat \ {0} /\ MaxEvents \in Nat

VARIABLES
  unit,     \* the service: "inactive", "starting", "running", "stopping", "failed", or
            \* "waiting" to be restarted
  starts,   \* starts in the current window
  job,      \* where backup.sh is
  restart,  \* its variable
  result,   \* its exit status
  refused,  \* backup found the state locked
  outside,  \* history: what happened to the job and around it: "start", "stop", "interrupt"
  events    \* history: bounded events so far

supervisionVars == <<unit, starts, job, restart, result, refused, outside, events>>

SupervisionInit ==
  /\ unit \in {"inactive", "starting"} /\ starts = 0
  /\ job = "idle" /\ restart = FALSE /\ result = 0 /\ refused = FALSE
  /\ outside = {} /\ events = 0

Event == events < MaxEvents /\ events' = events + 1

\* Type=simple: a unit is active as soon as its process exists.
Active(s) == s \in {"starting", "running"}

\* A start beyond the limit leaves the unit failed.
Started ==
  IF starts < Burst
  THEN unit' = "starting" /\ starts' = starts + 1
  ELSE unit' = "failed" /\ UNCHANGED starts

\* A stop also cancels a restart that waits.
Stopping == unit' = CASE Active(unit)     -> "stopping"
                      [] unit = "waiting" -> "inactive"
                      [] OTHER            -> unit

-----------------------------------------------------------------------------
(* The service and its supervisor.                                         *)

\* serve takes the state's lock, or ends with an error while backup holds it.
Opens ==
  /\ unit = "starting"
  /\ unit' = IF job = "capturing" THEN "waiting" ELSE "running"
  /\ UNCHANGED <<starts, job, restart, result, refused, outside, events>>

\* serve ends with an error, or is killed: Restart=on-failure.
Crash ==
  /\ Active(unit) /\ Event
  /\ unit' = "waiting"
  /\ UNCHANGED <<starts, job, restart, result, refused, outside>>

\* RestartSec later.
AutoRestart ==
  /\ unit = "waiting" /\ Started
  /\ UNCHANGED <<job, restart, result, refused, outside, events>>

\* Within TimeoutStopSec, by itself or killed with its control group.
Stopped ==
  /\ unit = "stopping" /\ unit' = "inactive"
  /\ UNCHANGED <<starts, job, restart, result, refused, outside, events>>

WindowPasses ==
  /\ starts > 0 /\ Event
  /\ starts' = 0
  /\ UNCHANGED <<unit, job, restart, result, refused, outside>>

OperatorStarts ==
  /\ unit \in {"inactive", "waiting", "failed"} /\ Event /\ Started
  /\ outside' = outside \cup {"start"}
  /\ UNCHANGED <<job, restart, result, refused>>

OperatorStops ==
  /\ Event /\ Stopping
  /\ outside' = outside \cup {"stop"}
  /\ UNCHANGED <<starts, job, restart, result, refused>>

-----------------------------------------------------------------------------
(* backup.sh, started by the timer.                                        *)

Check ==
  /\ job = "idle" /\ Event
  /\ job' = "checked" /\ restart' = Active(unit)
  /\ result' = 0 /\ refused' = FALSE /\ outside' = {}
  /\ UNCHANGED <<unit, starts>>

\* Mutant: only a service found active is stopped.
StopActive ==
  /\ job = "checked" /\ job' = "stopping"
  /\ IF restart THEN Stopping ELSE UNCHANGED unit
  /\ UNCHANGED <<starts, restart, result, refused, outside, events>>

StopUnit ==
  /\ job = "checked" /\ job' = "stopping"
  /\ Stopping
  /\ UNCHANGED <<starts, restart, result, refused, outside, events>>

\* Mutant: systemctl stop --no-block.
UnitTold ==
  /\ job = "stopping"
  /\ job' = "stopped"
  /\ UNCHANGED <<unit, starts, restart, result, refused, outside, events>>

\* systemctl stop returns when the service has stopped.
UnitStopped ==
  /\ job = "stopping" /\ unit # "stopping"
  /\ job' = "stopped"
  /\ UNCHANGED <<unit, starts, restart, result, refused, outside, events>>

\* Mutant: without the trap, set -e ends the script at once.
LeavesUntrapped == job' = "idle" /\ result' = 1

\* set -e: a command that fails ends the script, through the trap.
Leaves == job' = "leaving" /\ result' = 1

\* OfflineBackup takes the state's lock or fails; a service that is stopping may
\* have released it already.
Capture ==
  /\ job = "stopped"
  /\ \/ unit \in {"running", "stopping"} /\ Leaves /\ refused' = TRUE
     \/ unit # "running" /\ job' = "capturing" /\ UNCHANGED <<result, refused>>
  /\ UNCHANGED <<unit, starts, restart, outside, events>>

Captured ==
  /\ job = "capturing" /\ job' = "verifying"
  /\ UNCHANGED <<unit, starts, restart, result, refused, outside, events>>

Verified ==
  /\ job = "verifying" /\ job' = "leaving"
  /\ UNCHANGED <<unit, starts, restart, result, refused, outside, events>>

CommandFails ==
  /\ job \in {"stopping", "stopped", "capturing", "verifying"} /\ Event
  /\ Leaves
  /\ UNCHANGED <<unit, starts, restart, refused, outside>>

\* TERM or INT: from the operator, or from systemd after TimeoutStartSec.
Interrupt ==
  /\ job # "idle" /\ Event
  /\ job' = "leaving" /\ restart' = FALSE /\ result' = 1
  /\ outside' = outside \cup {"interrupt"}
  /\ UNCHANGED <<unit, starts, refused>>

\* The supervisor starts a unit that is stopping only when it has stopped.
Resume ==
  IF restart /\ ~Active(unit)
  THEN unit # "stopping" /\ Started
  ELSE UNCHANGED <<unit, starts>>

\* finish: a service that cannot be started is the job's failure.
Finish ==
  /\ job = "leaving" /\ job' = "idle"
  /\ Resume
  /\ result' = IF restart /\ unit' = "failed" THEN 1 ELSE result
  /\ UNCHANGED <<restart, refused, outside, events>>

-----------------------------------------------------------------------------
(* Properties.                                                             *)

\* "Explicit stop suppresses supervisor restart while acquiring the state lock": the
\* backup finds the state locked only when the operator started the service himself.
CaptureUndisturbed == refused => "start" \in outside

\* A service that the job found active is started again whatever fails in between,
\* unless the job is interrupted, the operator stops the service, or the supervisor's
\* limit refuses the start (deploy/backup.sh:11-19).
ServiceReturns ==
  job = "stopping" /\ restart ~>
    Active(unit) \/ unit = "failed" \/ outside \cap {"stop", "interrupt"} # {}
=============================================================================
