--------------------------- MODULE ServeShutdown ---------------------------
(***************************************************************************)
(* The end of the service: a signal cancels the context, server.Close      *)
(* closes the listener in a goroutine of its own, Serve returns, serve     *)
(* waits for the worker, main releases the state lock and the process      *)
(* exits.  Nobody waits for the rest of server.Close: the connections are  *)
(* closed at some time after Serve has returned, if at all, and handlers   *)
(* run until the exit.  Another service may start on the same state as     *)
(* soon as the lock is free.                                               *)
(*                                                                         *)
(* A snapshot is the set of the changes it contains; Save replaces the     *)
(* file by the whole of it.  Serve returns only because the listener was   *)
(* closed: Accept retries the errors of an open one.  Mission has the same *)
(* processes one after the other, with all they do, and their handlers end *)
(* with them.                                                              *)
(***************************************************************************)
EXTENDS Naturals

CONSTANTS
  Processes,  \* services started on one state directory
  Commands,   \* requests that change the snapshot: control and actions
  Cycles      \* changes the worker makes

ASSUME ChangesAssumption == Commands \cap Cycles = {}

VARIABLES
  disk,      \* state.json
  owner,     \* who holds the lock
  phase,     \* of each process: absent, serving, signalled, returned,
             \* released, gone
  memory,    \* the snapshot in the process's controller
  handlers,  \* its handlers that have not taken the controller's mutex yet
  saved,     \* its handlers that have saved and not answered
  connected, \* the processes whose connections are open
  worker,    \* its worker: idle, executing or ended
  confirmed, \* history: commands whose client has read a success
  escaped    \* history: commands saved by a process without the lock

service == <<disk, owner, phase, memory, handlers, saved, connected, worker, confirmed, escaped>>

Held(p) == owner = {p}

ShutdownInit ==
  /\ disk = {} /\ owner = {}
  /\ phase = [p \in Processes |-> "absent"]
  /\ memory = [p \in Processes |-> {}]
  /\ handlers = [p \in Processes |-> {}] /\ saved = [p \in Processes |-> {}]
  /\ worker = [p \in Processes |-> "idle"]
  /\ connected = {} /\ confirmed = {} /\ escaped = {}

Enter(p, from, to) == phase[p] = from /\ phase' = [phase EXCEPT ![p] = to]

Alive(p) == phase[p] \notin {"absent", "gone"}

\* The controller changes its snapshot and saves it, under its mutex.
Saves(p, change) ==
  /\ memory' = [memory EXCEPT ![p] = @ \cup {change}]
  /\ disk' = memory'[p]

-----------------------------------------------------------------------------
Open(p) ==
  /\ owner = {} /\ owner' = {p}
  /\ Enter(p, "absent", "serving")
  /\ memory' = [memory EXCEPT ![p] = disk] /\ connected' = connected \cup {p}
  /\ UNCHANGED <<disk, handlers, saved, worker, confirmed, escaped>>

\* A request has been read; its handler is about to call the controller.
Request(p, command) ==
  /\ p \in connected
  /\ \A q \in Processes : command \notin memory[q] \cup handlers[q]
  /\ handlers' = [handlers EXCEPT ![p] = @ \cup {command}]
  /\ UNCHANGED <<disk, owner, phase, memory, saved, connected, worker, confirmed, escaped>>

\* Control and ActionControl look at the controller's state only.
HandlerSaves(p, command) ==
  /\ Alive(p) /\ command \in handlers[p]
  /\ Saves(p, command)
  /\ handlers' = [handlers EXCEPT ![p] = @ \ {command}]
  /\ saved' = [saved EXCEPT ![p] = @ \cup {command}]
  /\ escaped' = IF Held(p) THEN escaped ELSE escaped \cup {command}
  /\ UNCHANGED <<owner, phase, connected, worker, confirmed>>

\* The client reads the answer if the connection is still open.
Answer(p, command) ==
  /\ command \in saved[p]
  /\ saved' = [saved EXCEPT ![p] = @ \ {command}]
  /\ confirmed' = IF p \in connected THEN confirmed \cup {command} ELSE confirmed
  /\ UNCHANGED <<disk, owner, phase, memory, handlers, connected, worker, escaped>>

WorkerStarts(p) ==
  /\ phase[p] = "serving" /\ worker[p] = "idle"
  /\ worker' = [worker EXCEPT ![p] = "executing"]
  /\ UNCHANGED <<disk, owner, phase, memory, handlers, saved, connected, confirmed, escaped>>

\* The execution is over: it is settled, or discarded after a signal.
WorkerSettles(p) ==
  /\ worker[p] = "executing"
  /\ \/ \E cycle \in Cycles : Saves(p, cycle)
     \/ UNCHANGED <<disk, memory>>
  /\ worker' = [worker EXCEPT ![p] = "idle"]
  /\ UNCHANGED <<owner, phase, handlers, saved, connected, confirmed, escaped>>

WorkerEnds(p) ==
  /\ phase[p] \in {"signalled", "returned"} /\ worker[p] = "idle"
  /\ worker' = [worker EXCEPT ![p] = "ended"]
  /\ UNCHANGED <<disk, owner, phase, memory, handlers, saved, connected, confirmed, escaped>>

Signal(p) ==
  /\ Enter(p, "serving", "signalled")
  /\ UNCHANGED <<disk, owner, memory, handlers, saved, connected, worker, confirmed, escaped>>

\* The listener is closed; server.Close has yet to close the connections.
ServeReturns(p) ==
  /\ Enter(p, "signalled", "returned")
  /\ UNCHANGED <<disk, owner, memory, handlers, saved, connected, worker, confirmed, escaped>>

\* The rest of server.Close, in a goroutine that nobody waits for.
CloseConnections(p) ==
  /\ phase[p] \in {"returned", "released"} /\ p \in connected
  /\ connected' = connected \ {p}
  /\ UNCHANGED <<disk, owner, phase, memory, handlers, saved, worker, confirmed, escaped>>

\* Mutant: the worker's end is not awaited.
ReleaseAtOnce(p) ==
  /\ Enter(p, "returned", "released")
  /\ owner' = {}
  /\ UNCHANGED <<disk, memory, handlers, saved, connected, worker, confirmed, escaped>>

\* serve returns when the worker has ended; main closes the store.
Release(p) ==
  /\ worker[p] = "ended" /\ Enter(p, "returned", "released")
  /\ owner' = {}
  /\ UNCHANGED <<disk, memory, handlers, saved, connected, worker, confirmed, escaped>>

\* The end of the process, also by a crash, takes its handlers with it.
Gone(p) ==
  /\ Alive(p) /\ phase' = [phase EXCEPT ![p] = "gone"]
  /\ owner' = owner \ {p}
  /\ handlers' = [handlers EXCEPT ![p] = {}] /\ saved' = [saved EXCEPT ![p] = {}]
  /\ connected' = connected \ {p} /\ worker' = [worker EXCEPT ![p] = "ended"]
  /\ UNCHANGED <<disk, memory, confirmed, escaped>>

ShutdownNext ==
  \E p \in Processes :
    \/ Open(p) \/ WorkerStarts(p) \/ WorkerSettles(p) \/ WorkerEnds(p)
    \/ Signal(p) \/ ServeReturns(p) \/ CloseConnections(p) \/ Release(p) \/ Gone(p)
    \/ \E command \in Commands : \/ Request(p, command) \/ HandlerSaves(p, command)
                                 \/ Answer(p, command)

ShutdownSpec == ShutdownInit /\ [][ShutdownNext]_service

-----------------------------------------------------------------------------
\* The worker never settles into a snapshot that another process may own: serve waits
\* for it before the lock is released (cmd/agentos/server.go:58).
WorkerUnderLock == \A p \in Processes : worker[p] = "executing" => Held(p)

\* What a client has been told is done is on disk and stays there, over stops, restarts
\* and kills, also when its handler saved after the lock was released: whoever saves has
\* loaded it (internal/core/controller.go:41-58, cmd/agentos/server.go:54-62).
ConfirmedDurable == confirmed \subseteq disk

\* "Controller is the sole snapshot writer" (controller.go:13): while a process owns
\* the state, nothing is on disk but what its own controller has loaded or saved.
SoleWriter == \A p \in Processes : Held(p) => disk = memory[p]
=============================================================================
