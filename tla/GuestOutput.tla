----------------------------- MODULE GuestOutput -----------------------------
(***************************************************************************)
(* How the output of one execution reaches the core.  A guest writes to    *)
(* its standard streams; a WASI guest writes into the bounded buffers of   *)
(* the agentos-wasi worker, which forwards them only when it accepts them, *)
(* and every other guest straight into the pipe that a goroutine of        *)
(* os/exec copies into the core's limitedBuffer.                           *)
(*                                                                         *)
(* Output is counted in units; whether what was collected is a JSON object *)
(* is left open, because a prefix of the output may be one.                *)
(***************************************************************************)
EXTENDS Naturals

CONSTANTS
  Runtimes,      \* subset of {"wasi", "process", "docker"}: "process" is Python on the host
  Limit,         \* 1 MiB of stdout, for the worker and for the core
  StderrLimit,   \* the worker's limit for stderr
  MaxWrites      \* bound: writes the guest attempts

ASSUME OutputAssumption ==
  /\ Runtimes \subseteq {"wasi", "process", "docker"}
  /\ Limit \in Nat /\ StderrLimit \in Nat /\ MaxWrites \in Nat

Sizes == 1..Limit + 1
Streams == {"stdout", "stderr"}
LimitOf(s) == IF s = "stdout" THEN Limit ELSE StderrLimit

VARIABLES
  runtime,     \* of the mission's manifest
  guest,       \* "runs", "ended" (exit status 0) or "failed"
  expired,     \* the execution's context is done: its deadline, or a cancellation
  worker,      \* the WASI worker's two buffers, and whether it still runs
  pipe,        \* stdout of the child process, not yet copied
  copied,      \* length of the core's buffer
  result,      \* what Execute returns: "none" yet, "refused" or "accepted"
  attempts,    \* history: writes attempted
  produced     \* history: everything the guest wrote or tried to write to stdout

outputVars == <<runtime, guest, expired, worker, pipe, copied, result, attempts, produced>>

OutputInit ==
  /\ runtime \in Runtimes
  /\ guest = "runs" /\ expired = FALSE
  /\ worker = [length |-> [s \in Streams |-> 0], exceeded |-> [s \in Streams |-> FALSE],
               exit |-> "running"]
  /\ pipe = 0 /\ copied = 0 /\ result = "none"
  /\ attempts = 0 /\ produced = 0

-----------------------------------------------------------------------------
\* The envelope, the policy, the module's digest, its imports: a job that is not as it
\* should be is refused before the guest starts.
WorkerRefuses ==
  /\ runtime = "wasi" /\ guest = "runs" /\ attempts = 0 /\ result = "none"
  /\ guest' = "failed" /\ worker' = [worker EXCEPT !.exit = "error"]
  /\ UNCHANGED <<runtime, expired, pipe, copied, result, attempts, produced>>

Produces(s, n) ==
  /\ guest = "runs" /\ result = "none" /\ attempts < MaxWrites
  /\ attempts' = attempts + 1
  /\ produced' = IF s = "stdout" THEN produced + n ELSE produced

\* output.Write: once exceeded, nothing is kept any more.
Buffered(s, n) ==
  IF worker.exceeded[s] \/ n > LimitOf(s) - worker.length[s]
  THEN worker' = [worker EXCEPT !.exceeded[s] = TRUE]
  ELSE worker' = [worker EXCEPT !.length[s] = @ + n]

\* The guest sees an error for a refused write and may ignore it: the context that
\* the refusal cancels stops the guest some time later.
WasiWrite(s, n) ==
  /\ runtime = "wasi" /\ worker.exit = "running"
  /\ Produces(s, n) /\ Buffered(s, n)
  /\ UNCHANGED <<runtime, guest, expired, pipe, copied, result>>

\* stderr of a process is collected in the same way and never looked at.
ProcessWrite(n) ==
  /\ runtime # "wasi"
  /\ Produces("stdout", n) /\ pipe' = pipe + n
  /\ UNCHANGED <<runtime, guest, expired, worker, copied, result>>

\* By itself, by a trap, or because the context is done.
GuestEnds ==
  /\ guest = "runs"
  /\ guest' \in {"ended", "failed"}
  /\ UNCHANGED <<runtime, expired, worker, pipe, copied, result, attempts, produced>>

\* The deadline, the same for the core and for the worker, or the mission's cancellation.
Expire ==
  /\ ~expired /\ result = "none"
  /\ expired' = TRUE
  /\ UNCHANGED <<runtime, guest, worker, pipe, copied, result, attempts, produced>>

\* Mutant: the worker's limits stop a guest, its deadline does not.
KillExceeding ==
  /\ guest = "runs" /\ \E s \in Streams : worker.exceeded[s]
  /\ guest' = "failed"
  /\ UNCHANGED <<runtime, expired, worker, pipe, copied, result, attempts, produced>>

\* The kill of the process group, or the runtime closing its module: on a deadline, and
\* in the worker also after a refused write.
Kill ==
  /\ guest = "runs" /\ (expired \/ \E s \in Streams : worker.exceeded[s])
  /\ guest' = "failed"
  /\ UNCHANGED <<runtime, expired, worker, pipe, copied, result, attempts, produced>>

-----------------------------------------------------------------------------
\* Mutant: only the error of the guest decides, as if a guest that ignores a refused
\* write could not end normally.
WorkerChecksError == guest = "ended"

\* Run: the limits first, then the context, then the guest's own end.
WorkerAccepts ==
  /\ \A s \in Streams : ~worker.exceeded[s]
  /\ guest = "ended"

\* The worker writes an accepted result to its stdout and exits, or exits with an error.
\* It may also be killed, or find its own context done.
WorkerReturns ==
  /\ runtime = "wasi" /\ worker.exit = "running" /\ guest # "runs"
  /\ \/ /\ WorkerAccepts
        /\ worker' = [worker EXCEPT !.exit = "ok"]
        /\ pipe' = pipe + worker.length["stdout"]
     \/ /\ worker' = [worker EXCEPT !.exit = "error"]
        /\ UNCHANGED pipe
  /\ UNCHANGED <<runtime, guest, expired, copied, result, attempts, produced>>

\* io.Copy takes some of the pipe.  limitedBuffer embeds bytes.Buffer, whose ReadFrom it
\* promotes; io.Copy prefers ReadFrom to Write, so the check in Write is not reached.
Copy ==
  /\ result = "none"
  /\ \E n \in 1..pipe : pipe' = pipe - n /\ copied' = copied + n
  /\ UNCHANGED <<runtime, guest, expired, worker, result, attempts, produced>>

ChildExited == IF runtime = "wasi" THEN worker.exit # "running" ELSE guest # "runs"
ChildSucceeded == IF runtime = "wasi" THEN worker.exit = "ok" ELSE guest = "ended"

\* cmd.Run returns when the child has exited and its output is copied; when WaitDelay
\* ends the copy, with an error.  What was collected must be a JSON object.
ProcessReturns ==
  /\ ChildExited
  /\ \/ ChildSucceeded /\ pipe = 0 /\ copied > 0 /\ result' = "accepted"
     \/ result' = "refused"

ChildReturns ==
  /\ result = "none" /\ ProcessReturns
  /\ UNCHANGED <<runtime, guest, expired, worker, pipe, copied, attempts, produced>>

-----------------------------------------------------------------------------
\* A result is all the guest wrote, and never the part of it that fitted: a guest that
\* was refused a write, or was cut short, has no result, even when it ends normally and
\* what it wrote before is a JSON object (wasiruntime/runtime.go:80, docs/WASI.md:58).
ResultIsComplete ==
  result = "accepted" => guest = "ended" /\ pipe = 0 /\ copied = produced
=============================================================================
