---------------------------- MODULE DockerSandbox ----------------------------
(***************************************************************************)
(* The executions of one mission in Docker, one after the other: staging,  *)
(* the broker, the container under the mission's name, its reclaim, and    *)
(* what a killed client or a crashed runner leaves with the daemon.        *)
(*                                                                         *)
(* The daemon is known by how sandbox.go uses it.  It keeps one container  *)
(* per name.  A request whose client was killed may still be performed,    *)
(* later or never.  `docker run` creates and starts with two requests, the *)
(* second sent when the first was answered; --rm removes what has ended.   *)
(*                                                                         *)
(* Whether a container belongs to the execution in progress or to one that *)
(* has returned ("old") is all that is kept of its execution.              *)
(***************************************************************************)
EXTENDS Naturals

CONSTANT
  Slots        \* 4: connections the broker serves at once

ASSUME SandboxAssumption == Slots \in Nat \ {0}

Empty == [of |-> "nobody", state |-> "absent"]
VARIABLES
  pc,          \* where Execute is; "returned" between executions
  box,         \* the container under the mission's name
  creating,    \* executions whose create request the daemon still has
  removing,    \* the daemon still has an rm whose client was killed
  listening,   \* the broker's listener is open
  handlers,    \* connections the broker is serving
  excused,     \* history: since the container was created, its execution died or could not clean
  raced        \* history: the foreign container took the name while a removal was under way

sandboxVars == <<pc, box, creating, removing, listening, handlers, excused, raced>>
daemonVars == <<box, creating, removing, raced>>
brokerVars == <<listening, handlers>>

SandboxInit ==
  /\ pc = "returned"
  /\ box \in {Empty, [of |-> "foreign", state |-> "started"]}
  /\ creating = {} /\ removing = FALSE
  /\ listening = FALSE /\ handlers = 0 /\ excused = FALSE /\ raced = FALSE

Goes(from, to) == pc = from /\ pc' = to

\* Nobody has the name.
Vacated == box' = Empty /\ raced' = FALSE

-----------------------------------------------------------------------------
\* Inspection of the script and image, staging and the broker.  When one of them fails
\* nothing has been asked of the daemon.
Begin ==
  /\ Goes("returned", "inspect")
  /\ listening' = TRUE
  /\ UNCHANGED <<daemonVars, handlers, excused>>

\* Mutant: only a container that runs is looked for.
LabelledRunning == box.of \in {"current", "old"} /\ box.state = "started"

\* Mutant: any container under the name is taken for the mission's.
LabelledByName == box # Empty

\* The container carries the mission's label.
Labelled == box.of \in {"current", "old"}

\* clean, before and after the run.  docker inspect fails when there is no such container
\* and when the daemon does not answer; the code cannot tell, and removes nothing.
InspectFails(from, to, last) ==
  /\ Goes(from, to)
  /\ excused' = (excused \/ (last /\ Labelled))
  /\ UNCHANGED <<daemonVars, brokerVars>>

\* The label decides.  A collision ends the execution; the last clean's error is ignored.
InspectAnswers(from, to) ==
  /\ box # Empty
  /\ Goes(from, IF Labelled THEN to ELSE "close")
  /\ UNCHANGED <<daemonVars, brokerVars, excused>>

\* docker rm -f removes whatever has the name now.
RemoveAnswers(from, to) ==
  /\ Goes(from, to)
  /\ Vacated
  /\ UNCHANGED <<creating, removing, brokerVars, excused>>

\* The daemon refuses, or the five seconds pass and it may still obey.
RemoveFails(from, last) ==
  /\ Goes(from, "close")
  /\ removing' \in {removing, TRUE}
  /\ excused' = (excused \/ last)
  /\ UNCHANGED <<box, creating, raced, brokerVars>>

Run ==
  /\ Goes("run", "running")
  /\ creating' = creating \cup {"current"}
  /\ UNCHANGED <<box, removing, raced, brokerVars, excused>>

\* The answer to the create request reaches the client, which asks for the start.
ClientStarts ==
  /\ pc = "running" /\ box = [of |-> "current", state |-> "created"]
  /\ box' = [box EXCEPT !.state = "starting"]
  /\ UNCHANGED <<pc, creating, removing, raced, brokerVars, excused>>

\* Mutant: after a timeout the deferred functions do not include clean.
ClientEndsUncleaned ==
  /\ Goes("running", "close")
  /\ UNCHANGED <<daemonVars, brokerVars, excused>>

\* cmd.Run returns: an answer of the daemon, the timeout or a cancellation.  Only the
\* client is killed; what it has asked for stays with the daemon.
ClientEnds ==
  /\ Goes("running", "last inspect")
  /\ UNCHANGED <<daemonVars, brokerVars, excused>>

-----------------------------------------------------------------------------
(* The broker: closeBroker closes the listener and waits for the handlers. *)

CloseBroker ==
  /\ Goes("close", "drain")
  /\ listening' = FALSE
  /\ UNCHANGED <<daemonVars, handlers, excused>>

Elapsed(whose) == IF whose = "current" THEN "old" ELSE whose
BoxElapses == box' = [box EXCEPT !.of = Elapsed(@)]
CreatingElapses == creating' = {Elapsed(o) : o \in creating}

\* The stage is removed and Execute returns.
Returns ==
  /\ Goes("drain", "returned") /\ handlers = 0
  /\ BoxElapses /\ CreatingElapses
  /\ UNCHANGED <<removing, raced, brokerVars, excused>>

\* A fifth connection is closed at once.
Connect ==
  /\ listening /\ box = [of |-> "current", state |-> "started"]
  /\ handlers < Slots /\ handlers' = handlers + 1
  /\ UNCHANGED <<pc, daemonVars, listening, excused>>

\* The client was answered, is gone, or has been silent for two seconds.
HandlerEnds ==
  /\ handlers > 0 /\ handlers' = handlers - 1
  /\ UNCHANGED <<pc, daemonVars, listening, excused>>

\* SIGKILL of the runner, a crash: no deferred function runs.
RunnerDies ==
  /\ pc # "returned" /\ pc' = "returned"
  /\ BoxElapses /\ CreatingElapses
  /\ listening' = FALSE /\ handlers' = 0 /\ excused' = TRUE
  /\ UNCHANGED <<removing, raced>>

-----------------------------------------------------------------------------
(* The daemon.                                                             *)

\* A name is given once; the loser of a conflict hears of it through ClientEnds.
Create(whose) ==
  /\ whose \in creating /\ creating' = creating \ {whose}
  /\ IF box = Empty
     THEN box' = [of |-> whose, state |-> "created"] /\ excused' = FALSE
     ELSE UNCHANGED <<box, excused>>
  /\ UNCHANGED <<pc, removing, raced, brokerVars>>

NeverCreates(whose) ==
  /\ whose \in creating /\ creating' = creating \ {whose}
  /\ UNCHANGED <<pc, box, removing, raced, brokerVars, excused>>

StartBox ==
  /\ box.state = "starting" /\ box' = [box EXCEPT !.state = "started"]
  /\ UNCHANGED <<pc, creating, removing, raced, brokerVars, excused>>

\* The guest ends and --rm takes the container away.
BoxEnds ==
  /\ box.state = "started" /\ box.of # "foreign" /\ Vacated
  /\ UNCHANGED <<pc, creating, removing, brokerVars, excused>>

LateRemove ==
  /\ removing /\ removing' = FALSE
  /\ Vacated \/ UNCHANGED <<box, raced>>
  /\ UNCHANGED <<pc, creating, brokerVars, excused>>

ForeignLeaves ==
  /\ box.of = "foreign" /\ Vacated
  /\ UNCHANGED <<pc, creating, removing, brokerVars, excused>>

\* A removal by name was decided upon, or left with the daemon, and is not done.
RemovalUnderWay == removing \/ pc \in {"remove", "last remove"}

\* A container that has nothing to do with the mission is given its name, at any time.
ForeignComes ==
  /\ box = Empty /\ box' = [of |-> "foreign", state |-> "started"]
  /\ raced' = RemovalUnderWay
  /\ UNCHANGED <<pc, creating, removing, brokerVars, excused>>

-----------------------------------------------------------------------------
CleanAnswers ==
  \/ InspectAnswers("inspect", "remove") \/ InspectAnswers("last inspect", "last remove")
  \/ RemoveAnswers("remove", "run") \/ RemoveAnswers("last remove", "close")
CleanFails ==
  \/ InspectFails("inspect", "run", FALSE) \/ InspectFails("last inspect", "close", TRUE)
  \/ RemoveFails("remove", FALSE) \/ RemoveFails("last remove", TRUE)

-----------------------------------------------------------------------------
\* The guest of an execution that has returned does not run, unless its runner died or
\* its last clean was not answered ("Timeout/cancelamento normal remove apenas o
\* container identificado", docs/SANDBOX.md:52): a create request that is performed late
\* leaves a container, but not one that runs.
GuestEndsWithExecution == box = [of |-> "old", state |-> "started"] => excused

\* The guest of the execution in progress has its broker: the container goes first, then
\* the socket (the order of the deferred functions, sandbox.go:177 and 196).
GuestHasBroker == box = [of |-> "current", state |-> "started"] => listening \/ excused

\* "O socket termina junto com a execução" (docs/SANDBOX.md:40): no handler survives it.
BrokerEndsWithExecution == pc = "returned" => ~listening /\ handlers = 0

\* A container without the mission's label is not touched, although it has its name: "a
\* próxima execução da mesma identidade remove somente esse container se o rótulo
\* corresponder" (docs/SANDBOX.md:53).  clean inspects and removes by name, in two commands
\* (sandbox.go:183-191), so the promise fails in one case, and in no other: the container
\* took the name after the removal had been decided upon, between the two commands or
\* while a removal whose client was killed was still with the daemon.
ForeignKept == [][box.of = "foreign" /\ box' # box => ForeignLeaves \/ raced]_sandboxVars

\* Orphans are reclaimed, whether they run, were created late or never started, as long
\* as executions are begun, the daemon answers the commands of clean and the runner lives
\* to see the answers (docs/SANDBOX.md:53).
Orphan == box.of = "old"
Unanswered ==
  \/ CleanFails /\ box # Empty
  \/ pc \in {"inspect", "remove"} /\ pc' = "returned"
OrphansReclaimed ==
  <>[][~Unanswered]_sandboxVars /\ []<>(pc = "inspect") => []<>~Orphan
=============================================================================
