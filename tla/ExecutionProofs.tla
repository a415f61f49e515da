--------------------------- MODULE ExecutionProofs ---------------------------
(***************************************************************************)
(* Theorems about one execution: what the sandbox leaves behind, whose     *)
(* container it touches, and that what is accepted is all the guest wrote, *)
(* for every limit and any number of executions.                           *)
(***************************************************************************)
EXTENDS Execution, TLAPS

-----------------------------------------------------------------------------
(* The sandbox.                                                            *)

\* From the run on, an execution may have a container; before, it has none.
Asked == {"running", "last inspect", "last remove", "close", "drain"}

Boxes == [of : {"nobody", "current", "old", "foreign"},
          state : {"absent", "created", "starting", "started"}]

SandboxTypeOK ==
  /\ pc \in Asked \cup {"returned", "inspect", "remove", "run"}
  /\ box \in Boxes
  /\ creating \subseteq {"current", "old"}
  /\ removing \in BOOLEAN /\ listening \in BOOLEAN /\ handlers \in Nat /\ excused \in BOOLEAN
  /\ raced \in BOOLEAN

\* The broker listens until the execution is over, and its connections are waited for.
BrokerInv ==
  /\ listening <=> pc \notin {"returned", "drain"}
  /\ pc = "returned" => handlers = 0

\* Before an execution asks for its container there is none of it.
CurrentInv ==
  "current" \in creating \/ box.of = "current" => pc \in Asked

\* A container that was started and has been left to the daemon is excused.
LeftInv ==
  /\ box.state \in {"starting", "started"}
  /\ box.of = "old" \/ (box.of = "current" /\ pc \in {"close", "drain"})
  => excused

\* What is about to be removed is the mission's, or has taken its name since.
ForeignInv ==
  /\ box.of = "foreign" => box.state = "started"
  /\ raced = FALSE /\ RemovalUnderWay => box.of # "foreign"

SandboxInv == SandboxTypeOK /\ BrokerInv /\ CurrentInv /\ LeftInv /\ ForeignInv

-----------------------------------------------------------------------------
(* The output.                                                             *)

Exits == {"running", "ok", "error"}
Buffers == [length : [Streams -> Nat], exceeded : [Streams -> BOOLEAN], exit : Exits]

OutputTypeOK ==
  /\ runtime \in Runtimes
  /\ guest \in {"runs", "ended", "failed"} /\ expired \in BOOLEAN
  /\ worker \in Buffers
  /\ pipe \in Nat /\ copied \in Nat /\ produced \in Nat /\ attempts \in Nat
  /\ result \in {"none", "refused", "accepted"}

\* Nothing is lost between a process and the core.
PipeInv == runtime # "wasi" => pipe + copied = produced

\* The worker holds back everything until it has accepted all of it.
WorkerInv ==
  runtime = "wasi" =>
    /\ ~worker.exceeded["stdout"] => worker.length["stdout"] = produced
    /\ IF worker.exit = "ok"
       THEN guest = "ended" /\ ~worker.exceeded["stdout"]
              /\ pipe + copied = worker.length["stdout"]
       ELSE pipe + copied = 0

AcceptedInv ==
  result = "accepted" => ChildSucceeded /\ guest = "ended" /\ pipe = 0

OutputInv == OutputTypeOK /\ PipeInv /\ WorkerInv /\ AcceptedInv

-----------------------------------------------------------------------------
(* The sandbox's steps.                                                    *)

SandboxStep ==
  \/ Begin \/ CleanAnswers \/ CleanFails \/ Run \/ CloseBroker \/ ClientEnds
  \/ Returns \/ RunnerDies \/ ClientStarts \/ StartBox \/ Connect \/ HandlerEnds
  \/ \E whose \in {"current", "old"} : Create(whose) \/ NeverCreates(whose)
  \/ BoxEnds \/ LateRemove \/ ForeignLeaves \/ ForeignComes
  \/ UNCHANGED sandboxVars

\* Each step of the execution is a step of the sandbox.
LEMMA SandboxSteps == ASSUME [ExecutionNext]_executionVars PROVE SandboxStep
BY DEF ExecutionNext, executionVars, SandboxStep, DockerBegins, InDocker, Prepares,
   DockerReturns, Client, BrokerServes, GuestLeaves, GuestRemoved, DaemonActs,
   ClientExpires, ClientKilled, ClientCopies, Elsewhere

\* No container has been asked for.
LEMMA SandboxInvInit == SandboxInit => SandboxInv
<1> SUFFICES ASSUME SandboxInit PROVE SandboxInv
  OBVIOUS
<1>1. /\ box.of \in {"nobody", "foreign"} /\ box.state \in {"absent", "started"}
      /\ box \in [of : {"nobody", "foreign"}, state : {"absent", "started"}]
      /\ box.of = "foreign" => box.state = "started"
  BY DEF SandboxInit, Empty
<1>2. SandboxTypeOK
  BY <1>1 DEF SandboxInit, SandboxTypeOK, Boxes, Asked
<1>3. BrokerInv /\ CurrentInv /\ LeftInv /\ ForeignInv
  BY <1>1 DEF SandboxInit, BrokerInv, CurrentInv, LeftInv, ForeignInv, RemovalUnderWay, Asked
<1> QED BY <1>2, <1>3 DEF SandboxInv

Places == Asked \cup {"returned", "inspect", "remove", "run"}

\* What the commands of clean do: an inspection finds the container or not, a removal is
\* performed, refused, or left to the daemon.
LEMMA CleanSteps ==
  ASSUME SandboxTypeOK, CleanAnswers \/ CleanFails
  PROVE  /\ UNCHANGED <<creating, listening, handlers>>
         /\ \/ /\ box.of \in {"current", "old"} /\ UNCHANGED <<box, removing, excused, raced>>
               /\ \/ pc = "inspect" /\ pc' = "remove"
                  \/ pc = "last inspect" /\ pc' = "last remove"
            \/ /\ box.of \notin {"current", "old"} /\ UNCHANGED <<box, removing, excused, raced>>
               /\ pc \in {"inspect", "last inspect"} /\ pc' = "close"
            \/ /\ box' = Empty /\ raced' = FALSE /\ UNCHANGED <<removing, excused>>
               /\ \/ pc = "remove" /\ pc' = "run"
                  \/ pc = "last remove" /\ pc' = "close"
            \/ /\ UNCHANGED <<box, removing, raced>>
               /\ \/ pc = "inspect" /\ pc' = "run" /\ excused' = excused
                  \/ /\ pc = "last inspect" /\ pc' = "close"
                     /\ box.of \in {"current", "old"} => excused' = TRUE
                     /\ excused' \in {excused, TRUE}
            \/ /\ UNCHANGED <<box, raced>> /\ removing' \in {removing, TRUE} /\ pc' = "close"
               /\ \/ pc = "remove" /\ excused' = excused
                  \/ pc = "last remove" /\ excused' = TRUE
<1>1. ASSUME NEW from, NEW to, InspectAnswers(from, to)
      PROVE  /\ UNCHANGED <<creating, listening, handlers, box, removing, excused, raced>>
             /\ pc = from
             /\ \/ box.of \in {"current", "old"} /\ pc' = to
                \/ box.of \notin {"current", "old"} /\ pc' = "close"
  BY <1>1 DEF InspectAnswers, Goes, Labelled, daemonVars, brokerVars
<1>2. ASSUME NEW from, NEW to, RemoveAnswers(from, to)
      PROVE  /\ UNCHANGED <<creating, listening, handlers, removing, excused>>
             /\ pc = from /\ pc' = to /\ box' = Empty /\ raced' = FALSE
  BY <1>2 DEF RemoveAnswers, Goes, Vacated, brokerVars
<1>3. ASSUME NEW from, NEW to, NEW last \in BOOLEAN, InspectFails(from, to, last)
      PROVE  /\ UNCHANGED <<creating, listening, handlers, box, removing, raced>>
             /\ pc = from /\ pc' = to
             /\ ~last => excused' = excused
             /\ last /\ box.of \in {"current", "old"} => excused' = TRUE
             /\ excused' \in {excused, TRUE}
  <2>1. excused' = (excused \/ (last /\ Labelled)) /\ excused \in BOOLEAN
    BY <1>3 DEF InspectFails, SandboxTypeOK, Boxes
  <2>2. Labelled \in BOOLEAN /\ (box.of \in {"current", "old"} => Labelled)
    BY DEF Labelled
  <2>3. /\ ~last => excused' = excused
        /\ last /\ box.of \in {"current", "old"} => excused' = TRUE
        /\ excused' \in {excused, TRUE}
    BY <2>1, <2>2, Zenon
  <2> QED BY <1>3, <2>3 DEF InspectFails, Goes, daemonVars, brokerVars
<1>4. ASSUME NEW from, NEW last \in BOOLEAN, RemoveFails(from, last)
      PROVE  /\ UNCHANGED <<creating, listening, handlers, box, raced>>
             /\ pc = from /\ pc' = "close" /\ removing' \in {removing, TRUE}
             /\ ~last => excused' = excused
             /\ last => excused' = TRUE
  <2>1. excused' = (excused \/ last) /\ excused \in BOOLEAN
    BY <1>4 DEF RemoveFails, SandboxTypeOK, Boxes
  <2>2. (~last => excused' = excused) /\ (last => excused' = TRUE)
    BY <2>1, Zenon
  <2> QED BY <1>4, <2>2 DEF RemoveFails, Goes, brokerVars
<1>5. CASE CleanAnswers
  BY <1>1, <1>2, <1>5 DEF CleanAnswers
<1>6. CASE CleanFails
  BY <1>3, <1>4, <1>6 DEF CleanFails
<1> QED BY <1>5, <1>6

\* The container and the requests of an execution that is over.
LEMMA ElapsedFields ==
  ASSUME SandboxTypeOK, BoxElapses, CreatingElapses
  PROVE  /\ box'.state = box.state
         /\ box'.of = IF box.of = "current" THEN "old" ELSE box.of
         /\ creating' \subseteq {"old"}
         /\ box' \in Boxes
BY DEF SandboxTypeOK, Boxes, BoxElapses, CreatingElapses, Elapsed

\* Every step keeps the invariant: the broker is closed before the execution returns, and
\* drained; what the last clean finds started it removes, or it is excused; what clean has
\* inspected keeps its name until it is removed.
LEMMA SandboxStepKeeps ==
  ASSUME SandboxInv, SandboxStep
  PROVE  SandboxInv'
<1> USE DEF SandboxInv
<1>1. CASE Begin
  <2>1. /\ pc = "returned" /\ pc' = "inspect" /\ listening' = TRUE
        /\ UNCHANGED <<box, creating, removing, handlers, excused, raced>>
    BY <1>1 DEF Begin, Goes, daemonVars
  <2>2. SandboxTypeOK'
    BY <2>1 DEF SandboxTypeOK, Boxes, Asked
  <2>3. BrokerInv' /\ CurrentInv'
    BY <2>1 DEF SandboxTypeOK, Boxes, BrokerInv, CurrentInv, Asked
  <2>4. LeftInv' /\ ForeignInv'
    BY <2>1 DEF SandboxTypeOK, Boxes, CurrentInv, LeftInv, ForeignInv, RemovalUnderWay, Asked
  <2> QED BY <2>2, <2>3, <2>4
<1>2. CASE CleanAnswers \/ CleanFails
  <2>0. UNCHANGED <<creating, listening, handlers>>
    BY <1>2, CleanSteps
  <2>1. /\ box' = box \/ box' = Empty
        /\ pc \in {"inspect", "remove", "last inspect", "last remove"}
        /\ pc' \in {"remove", "run", "last remove", "close"}
    BY <1>2, CleanSteps
  <2>2. SandboxTypeOK'
    <3>1. removing' \in BOOLEAN /\ excused' \in BOOLEAN /\ raced' \in BOOLEAN
      BY <1>2, CleanSteps DEF SandboxTypeOK, Boxes
    <3>2. box' \in Boxes
      <4>1. Empty \in Boxes /\ box \in Boxes
        BY DEF SandboxTypeOK, Boxes, Empty
      <4> QED BY <2>1, <4>1
    <3> QED BY <2>0, <2>1, <3>1, <3>2 DEF SandboxTypeOK, Boxes, Asked
  <2>3. BrokerInv'
    BY <2>0, <2>1 DEF BrokerInv
  <2>4. CurrentInv'
    <3>1. pc \in {"inspect", "remove"} \/ pc' \in {"last remove", "close"}
      BY <1>2, CleanSteps
    <3>2. Empty.of # "current"
      BY DEF Empty
    <3> QED BY <2>0, <2>1, <3>1, <3>2 DEF CurrentInv, Asked
  <2>5. LeftInv'
    <3>1. \/ box' = Empty
          \/ /\ box' = box
             /\ \/ box.of = "current" => pc' \notin {"close", "drain"}
                \/ box.of = "current" => excused' = TRUE
             /\ excused' \in {excused, TRUE}
      BY <1>2, CleanSteps DEF CurrentInv, Asked
    <3>2. SUFFICES ASSUME box'.state \in {"starting", "started"},
                          \/ box'.of = "old"
                          \/ box'.of = "current" /\ pc' \in {"close", "drain"}
                   PROVE  excused'
      BY DEF LeftInv
    <3>3. Empty.state = "absent"
      BY DEF Empty
    <3>4. CASE box.of = "old"
      <4>1. excused /\ excused' \in {excused, TRUE}
        BY <3>1, <3>2, <3>3, <3>4 DEF LeftInv
      <4> QED BY <4>1
    <3>5. CASE box.of # "old"
      BY <3>1, <3>2, <3>3, <3>5
    <3> QED BY <3>4, <3>5
  <2>6. ForeignInv'
    <3>1. Empty.of = "nobody"
      BY DEF Empty
    <3>2. CASE box' = Empty \/ (box' = box /\ box.of \in {"current", "old"})
      BY <3>1, <3>2 DEF ForeignInv
    <3>3. CASE UNCHANGED <<box, removing, raced>> /\ pc' \notin {"remove", "last remove"}
      BY <3>3 DEF ForeignInv, RemovalUnderWay
    <3>4. CASE UNCHANGED <<box, raced>> /\ pc \in {"remove", "last remove"}
      BY <3>4 DEF ForeignInv, RemovalUnderWay
    <3> QED BY <1>2, <3>2, <3>3, <3>4, CleanSteps
  <2> QED BY <2>2, <2>3, <2>4, <2>5, <2>6
<1>3. CASE Run
  <2>1. /\ pc = "run" /\ pc' = "running" /\ creating' = creating \cup {"current"}
        /\ UNCHANGED <<box, removing, listening, handlers, excused, raced>>
    BY <1>3 DEF Run, Goes, brokerVars
  <2>2. SandboxTypeOK'
    BY <2>1 DEF SandboxTypeOK, Boxes, Asked
  <2>3. BrokerInv' /\ CurrentInv'
    BY <2>1 DEF SandboxTypeOK, Boxes, BrokerInv, CurrentInv, Asked
  <2>4. LeftInv' /\ ForeignInv'
    BY <2>1 DEF SandboxTypeOK, Boxes, CurrentInv, LeftInv, ForeignInv, RemovalUnderWay, Asked
  <2> QED BY <2>2, <2>3, <2>4
<1>4. CASE CloseBroker
  <2>1. /\ pc = "close" /\ pc' = "drain" /\ listening' = FALSE
        /\ UNCHANGED <<box, creating, removing, handlers, excused, raced>>
    BY <1>4 DEF CloseBroker, Goes, daemonVars
  <2>2. SandboxTypeOK'
    BY <2>1 DEF SandboxTypeOK, Boxes, Asked
  <2>3. BrokerInv' /\ CurrentInv'
    BY <2>1 DEF SandboxTypeOK, Boxes, BrokerInv, CurrentInv, Asked
  <2>4. LeftInv' /\ ForeignInv'
    BY <2>1 DEF SandboxTypeOK, Boxes, CurrentInv, LeftInv, ForeignInv, RemovalUnderWay, Asked
  <2> QED BY <2>2, <2>3, <2>4
<1>5. CASE ClientEnds
  <2>1. /\ pc = "running" /\ pc' = "last inspect"
        /\ UNCHANGED <<box, creating, removing, listening, handlers, excused, raced>>
    BY <1>5 DEF ClientEnds, Goes, daemonVars, brokerVars
  <2>2. SandboxTypeOK'
    BY <2>1 DEF SandboxTypeOK, Boxes, Asked
  <2>3. BrokerInv' /\ CurrentInv'
    BY <2>1 DEF SandboxTypeOK, Boxes, BrokerInv, CurrentInv, Asked
  <2>4. LeftInv' /\ ForeignInv'
    BY <2>1 DEF SandboxTypeOK, Boxes, CurrentInv, LeftInv, ForeignInv, RemovalUnderWay, Asked
  <2> QED BY <2>2, <2>3, <2>4
<1>6. CASE Returns
  <2>1. /\ pc = "drain" /\ pc' = "returned" /\ handlers = 0 /\ BoxElapses /\ CreatingElapses
        /\ UNCHANGED <<removing, listening, handlers, excused, raced>>
    BY <1>6 DEF Returns, Goes, brokerVars
  <2>2. SandboxTypeOK'
    BY <2>1, ElapsedFields DEF SandboxTypeOK, Boxes, Asked
  <2>3. BrokerInv' /\ CurrentInv'
    BY <2>1, ElapsedFields DEF SandboxTypeOK, Boxes, BrokerInv, CurrentInv, Asked
  <2>4. LeftInv' /\ ForeignInv'
    BY <2>1, ElapsedFields
    DEF SandboxTypeOK, Boxes, CurrentInv, LeftInv, ForeignInv, RemovalUnderWay, Asked
  <2> QED BY <2>2, <2>3, <2>4
<1>7. CASE RunnerDies
  <2>1. /\ pc' = "returned" /\ BoxElapses /\ CreatingElapses /\ UNCHANGED <<removing, raced>>
        /\ listening' = FALSE /\ handlers' = 0 /\ excused' = TRUE
    BY <1>7 DEF RunnerDies
  <2>2. SandboxTypeOK'
    BY <2>1, ElapsedFields DEF SandboxTypeOK, Boxes, Asked
  <2>3. BrokerInv' /\ CurrentInv'
    BY <2>1, ElapsedFields DEF SandboxTypeOK, Boxes, BrokerInv, CurrentInv, Asked
  <2>4. LeftInv' /\ ForeignInv'
    BY <2>1, ElapsedFields
    DEF SandboxTypeOK, Boxes, CurrentInv, LeftInv, ForeignInv, RemovalUnderWay, Asked
  <2> QED BY <2>2, <2>3, <2>4
<1>8. CASE ClientStarts
  <2>1. /\ pc = "running" /\ box.of = "current" /\ box' = [box EXCEPT !.state = "starting"]
        /\ UNCHANGED <<pc, creating, removing, listening, handlers, excused, raced>>
    BY <1>8 DEF ClientStarts, brokerVars
  <2>2. SandboxTypeOK'
    BY <2>1 DEF SandboxTypeOK, Boxes, Asked
  <2>3. BrokerInv' /\ CurrentInv'
    BY <2>1 DEF SandboxTypeOK, Boxes, BrokerInv, CurrentInv, Asked
  <2>4. LeftInv' /\ ForeignInv'
    BY <2>1 DEF SandboxTypeOK, Boxes, CurrentInv, LeftInv, ForeignInv, RemovalUnderWay, Asked
  <2> QED BY <2>2, <2>3, <2>4
<1>9. CASE StartBox
  <2>1. /\ box.state = "starting" /\ box' = [box EXCEPT !.state = "started"]
        /\ UNCHANGED <<pc, creating, removing, listening, handlers, excused, raced>>
    BY <1>9 DEF StartBox, brokerVars
  <2>2. SandboxTypeOK'
    BY <2>1 DEF SandboxTypeOK, Boxes, Asked
  <2>3. BrokerInv' /\ CurrentInv'
    BY <2>1 DEF SandboxTypeOK, Boxes, BrokerInv, CurrentInv, Asked
  <2>4. LeftInv' /\ ForeignInv'
    BY <2>1 DEF SandboxTypeOK, Boxes, CurrentInv, LeftInv, ForeignInv, RemovalUnderWay, Asked
  <2> QED BY <2>2, <2>3, <2>4
<1>10. CASE Connect
  <2>1. /\ pc \notin {"returned", "drain"} /\ handlers' \in Nat
        /\ UNCHANGED <<pc, box, creating, removing, listening, excused, raced>>
    BY <1>10 DEF Connect, daemonVars, SandboxTypeOK, Boxes, BrokerInv
  <2>2. SandboxTypeOK'
    BY <2>1 DEF SandboxTypeOK, Boxes, Asked
  <2>3. BrokerInv' /\ CurrentInv'
    BY <2>1 DEF SandboxTypeOK, Boxes, BrokerInv, CurrentInv, Asked
  <2>4. LeftInv' /\ ForeignInv'
    BY <2>1 DEF SandboxTypeOK, Boxes, CurrentInv, LeftInv, ForeignInv, RemovalUnderWay, Asked
  <2> QED BY <2>2, <2>3, <2>4
<1>11. CASE HandlerEnds
  <2>1. /\ handlers # 0 /\ handlers' \in Nat
        /\ UNCHANGED <<pc, box, creating, removing, listening, excused, raced>>
    BY <1>11 DEF HandlerEnds, daemonVars, SandboxTypeOK, Boxes
  <2>2. SandboxTypeOK'
    BY <2>1 DEF SandboxTypeOK, Boxes, Asked
  <2>3. BrokerInv' /\ CurrentInv'
    BY <2>1 DEF SandboxTypeOK, Boxes, BrokerInv, CurrentInv, Asked
  <2>4. LeftInv' /\ ForeignInv'
    BY <2>1 DEF SandboxTypeOK, Boxes, CurrentInv, LeftInv, ForeignInv, RemovalUnderWay, Asked
  <2> QED BY <2>2, <2>3, <2>4
<1>12. ASSUME NEW whose \in {"current", "old"}, Create(whose) \/ NeverCreates(whose)
       PROVE  SandboxInv'
  <2>1. /\ whose \in creating /\ creating' = creating \ {whose}
        /\ UNCHANGED <<pc, removing, raced, listening, handlers>>
        /\ \/ box' = [of |-> whose, state |-> "created"] /\ excused' = FALSE
           \/ UNCHANGED <<box, excused>>
    BY <1>12 DEF Create, NeverCreates, brokerVars
  <2>2. box' \in Boxes
    BY <2>1 DEF SandboxTypeOK, Boxes
  <2>3. excused' \in BOOLEAN /\ creating' \subseteq {"current", "old"}
    BY <2>1 DEF SandboxTypeOK, Boxes
  <2>4. SandboxTypeOK'
    BY <2>1, <2>2, <2>3 DEF SandboxTypeOK, Boxes
  <2>5. BrokerInv'
    BY <2>1 DEF BrokerInv
  <2>6. CurrentInv'
    BY <2>1 DEF CurrentInv
  <2>7. LeftInv'
    BY <2>1 DEF LeftInv
  <2>8. ForeignInv'
    <3>1. CASE box' = [of |-> whose, state |-> "created"]
      <4>1. box'.of # "foreign"
        BY <3>1
      <4> QED BY <4>1 DEF ForeignInv
    <3>2. CASE box' = box
      BY <2>1, <3>2 DEF ForeignInv, RemovalUnderWay
    <3> QED BY <2>1, <3>1, <3>2
  <2> QED BY <2>4, <2>5, <2>6, <2>7, <2>8
<1>13. CASE BoxEnds
  <2>1. /\ box.of # "foreign" /\ box' = Empty /\ raced' = FALSE
        /\ UNCHANGED <<pc, creating, removing, listening, handlers, excused>>
    BY <1>13 DEF BoxEnds, Vacated, brokerVars
  <2>2. SandboxTypeOK'
    BY <2>1 DEF SandboxTypeOK, Boxes, Asked, Empty
  <2>3. BrokerInv' /\ CurrentInv'
    BY <2>1 DEF SandboxTypeOK, Boxes, BrokerInv, CurrentInv, Asked, Empty
  <2>4. LeftInv' /\ ForeignInv'
    BY <2>1 DEF SandboxTypeOK, Boxes, CurrentInv, LeftInv, ForeignInv, Asked, Empty
  <2> QED BY <2>2, <2>3, <2>4
<1>14. CASE LateRemove
  <2>1. /\ removing' = FALSE /\ (UNCHANGED <<box, raced>> \/ (box' = Empty /\ raced' = FALSE))
        /\ UNCHANGED <<pc, creating, listening, handlers, excused>>
    BY <1>14 DEF LateRemove, Vacated, brokerVars
  <2>2. Empty \in Boxes /\ box \in Boxes /\ Empty.of = "nobody" /\ Empty.state = "absent"
    BY DEF SandboxTypeOK, Boxes, Empty
  <2>3. SandboxTypeOK'
    <3>1. box' \in Boxes
      BY <2>1, <2>2
    <3> QED BY <2>1, <3>1 DEF SandboxTypeOK
  <2>4. BrokerInv' /\ CurrentInv'
    BY <2>1, <2>2 DEF BrokerInv, CurrentInv
  <2>5. LeftInv'
    BY <2>1, <2>2 DEF LeftInv
  <2>6. ForeignInv'
    <3>1. box'.of = "foreign" => UNCHANGED <<box, raced>> /\ box'.state = "started"
      BY <2>1, <2>2 DEF ForeignInv
    <3> QED BY <2>1, <3>1 DEF ForeignInv, RemovalUnderWay
  <2> QED BY <2>3, <2>4, <2>5, <2>6
<1>15. CASE ForeignLeaves
  <2>1. /\ box' = Empty /\ raced' = FALSE
        /\ UNCHANGED <<pc, creating, removing, listening, handlers, excused>>
    BY <1>15 DEF ForeignLeaves, Vacated, brokerVars
  <2>2. SandboxTypeOK'
    BY <2>1 DEF SandboxTypeOK, Boxes, Asked, Empty
  <2>3. BrokerInv' /\ CurrentInv'
    BY <2>1 DEF SandboxTypeOK, Boxes, BrokerInv, CurrentInv, Asked, Empty
  <2>4. LeftInv' /\ ForeignInv'
    BY <2>1 DEF SandboxTypeOK, Boxes, CurrentInv, LeftInv, ForeignInv, Asked, Empty
  <2> QED BY <2>2, <2>3, <2>4
<1>16. CASE ForeignComes
  <2>1. /\ box' = [of |-> "foreign", state |-> "started"]
        /\ raced' = RemovalUnderWay
        /\ UNCHANGED <<pc, creating, removing, listening, handlers, excused>>
    BY <1>16 DEF ForeignComes, brokerVars
  <2>2. /\ RemovalUnderWay \in BOOLEAN /\ RemovalUnderWay' = RemovalUnderWay
    BY <2>1 DEF RemovalUnderWay
  <2>3. box' \in Boxes /\ box'.of = "foreign" /\ box'.state = "started"
    BY <2>1 DEF Boxes
  <2>4. SandboxTypeOK'
    BY <2>1, <2>2, <2>3 DEF SandboxTypeOK
  <2>5. BrokerInv' /\ CurrentInv'
    BY <2>1, <2>3 DEF SandboxTypeOK, Boxes, BrokerInv, CurrentInv, Asked
  <2>6. LeftInv'
    BY <2>1, <2>3 DEF LeftInv
  <2>7. ForeignInv'
    <3>1. ~(raced' = FALSE /\ RemovalUnderWay')
      BY <2>1, <2>2, Zenon
    <3> QED BY <2>3, <3>1 DEF ForeignInv
  <2> QED BY <2>4, <2>5, <2>6, <2>7
<1>17. CASE UNCHANGED sandboxVars
  <2>1. /\ UNCHANGED <<pc, box, creating, removing, listening, handlers, excused, raced>>
    BY <1>17 DEF sandboxVars
  <2>2. SandboxTypeOK'
    BY <2>1 DEF SandboxTypeOK, Boxes, Asked
  <2>3. BrokerInv' /\ CurrentInv'
    BY <2>1 DEF SandboxTypeOK, Boxes, BrokerInv, CurrentInv, Asked
  <2>4. LeftInv' /\ ForeignInv'
    BY <2>1 DEF SandboxTypeOK, Boxes, CurrentInv, LeftInv, ForeignInv, RemovalUnderWay, Asked
  <2> QED BY <2>2, <2>3, <2>4
<1> QED BY <1>1, <1>2, <1>3, <1>4, <1>5, <1>6, <1>7, <1>8, <1>9, <1>10, <1>11, <1>12,
           <1>13, <1>14, <1>15, <1>16, <1>17
        DEF SandboxStep

\* The invariant of the sandbox.
LEMMA SandboxInvNext == SandboxInv /\ [ExecutionNext]_executionVars => SandboxInv'
BY SandboxSteps, SandboxStepKeeps

-----------------------------------------------------------------------------
(* The output's steps.                                                     *)

OutputStep ==
  \/ runtime = "docker" /\ NewOutput
  \/ result' \in {result, "refused"} /\ (result' # result => result = "none")
       /\ UNCHANGED <<runtime, guest, expired, worker, pipe, copied, attempts, produced>>
  \/ GuestEnds \/ Expire \/ Kill \/ WorkerRefuses \/ WorkerReturns \/ Copy \/ ChildReturns
  \/ \E s \in Streams, n \in Sizes : WasiWrite(s, n)
  \/ \E n \in Sizes : ProcessWrite(n)

\* Each step of the execution is a step of its output.
LEMMA OutputSteps == ASSUME [ExecutionNext]_executionVars PROVE OutputStep
<1>1. CASE UNCHANGED outputVars
  BY <1>1 DEF outputVars, OutputStep
<1>2. CASE DockerBegins
  BY <1>2 DEF DockerBegins, Docker, OutputStep
<1>3. CASE Prepares
  BY <1>3 DEF Prepares, OutputStep
<1>4. CASE InDocker /\ ~Prepares
  BY <1>1, <1>4
  DEF InDocker, DockerReturns, Client, BrokerServes, GuestLeaves, GuestRemoved, DaemonActs,
      ClientExpires, ClientKilled, ClientCopies, ClientFails, OutputStep
<1>5. CASE Elsewhere
  BY <1>5 DEF Elsewhere, OutputStep
<1> QED BY <1>1, <1>2, <1>3, <1>4, <1>5 DEF ExecutionNext, executionVars

\* Nothing has been written.
LEMMA OutputInvInit == OutputInit => OutputInv
<1> SUFFICES ASSUME OutputInit PROVE OutputInv
  OBVIOUS
<1>1. /\ worker \in Buffers /\ worker.exit = "running"
      /\ worker.length["stdout"] = 0
  BY DEF OutputInit, Buffers, Exits, Streams
<1>2. OutputTypeOK
  BY <1>1 DEF OutputInit, OutputTypeOK
<1> QED BY <1>1, <1>2 DEF OutputInit, OutputInv, PipeInv, WorkerInv, AcceptedInv

\* What a write does to the worker's buffers.
LEMMA BufferedFields ==
  ASSUME worker \in Buffers, NEW s \in Streams, NEW n \in Nat, Buffered(s, n)
  PROVE  /\ worker' \in Buffers /\ worker'.exit = worker.exit
         /\ worker'.exceeded["stdout"] = FALSE =>
              /\ worker.exceeded["stdout"] = FALSE
              /\ worker'.length["stdout"] = IF s = "stdout" THEN worker.length["stdout"] + n
                                                            ELSE worker.length["stdout"]
<1> DEFINE more == [worker.length EXCEPT ![s] = @ + n]
           over == [worker.exceeded EXCEPT ![s] = TRUE]
<1>1. /\ worker.length \in [Streams -> Nat] /\ worker.exceeded \in [Streams -> BOOLEAN]
      /\ more \in [Streams -> Nat] /\ over \in [Streams -> BOOLEAN]
      /\ "stdout" \in Streams
  BY DEF Buffers, Streams
<1>2. CASE worker.exceeded[s] \/ n > LimitOf(s) - worker.length[s]
  <2>1. worker' = [worker EXCEPT !.exceeded = over]
    BY <1>2 DEF Buffered
  <2>2. over["stdout"] = FALSE => worker.exceeded["stdout"] = FALSE /\ s # "stdout"
    BY <1>1
  <2> HIDE DEF over
  <2> QED BY <1>1, <2>1, <2>2 DEF Buffers
<1>3. CASE ~(worker.exceeded[s] \/ n > LimitOf(s) - worker.length[s])
  <2>1. worker' = [worker EXCEPT !.length = more]
    BY <1>3 DEF Buffered
  <2>2. more["stdout"] = IF s = "stdout" THEN worker.length["stdout"] + n
                                         ELSE worker.length["stdout"]
    BY <1>1
  <2> HIDE DEF more
  <2> QED BY <1>1, <2>1, <2>2 DEF Buffers
<1> QED BY <1>2, <1>3

\* Every step keeps the invariant: what is copied was in the pipe, what the worker forwards
\* it has accepted, and what it has accepted is all it was given.
LEMMA OutputStepKeeps ==
  ASSUME OutputInv, OutputStep
  PROVE  OutputInv'
<1> USE DEF OutputInv
<1>0. /\ worker \in Buffers /\ worker.exit \in Exits /\ worker.length["stdout"] \in Nat
      /\ pipe \in Nat /\ copied \in Nat /\ produced \in Nat
  BY DEF OutputTypeOK, Buffers, Streams
<1>1. CASE runtime = "docker" /\ NewOutput
  <2>1. /\ runtime' = "docker" /\ runtime' = runtime /\ worker' = worker /\ result' = "none"
        /\ pipe' = 0 /\ copied' = 0 /\ produced' = 0 /\ attempts' = 0
        /\ guest' = "runs" /\ expired' = FALSE
    BY <1>1 DEF NewOutput
  <2>2. OutputTypeOK'
    BY <2>1 DEF OutputTypeOK
  <2>3. PipeInv' /\ WorkerInv' /\ AcceptedInv'
    BY <2>1 DEF PipeInv, WorkerInv, AcceptedInv
  <2> QED BY <2>2, <2>3
<1>2. CASE /\ result' \in {result, "refused"} /\ (result' # result => result = "none")
           /\ UNCHANGED <<runtime, guest, expired, worker, pipe, copied, attempts, produced>>
  BY <1>2 DEF OutputTypeOK, PipeInv, WorkerInv, AcceptedInv, ChildSucceeded
<1>3. CASE GuestEnds \/ Kill
  <2>1. /\ guest = "runs" /\ guest' \in {"ended", "failed"}
        /\ UNCHANGED <<runtime, expired, worker, pipe, copied, result, attempts, produced>>
    BY <1>3 DEF GuestEnds, Kill
  <2> QED BY <2>1 DEF OutputTypeOK, PipeInv, WorkerInv, AcceptedInv, ChildSucceeded
<1>4. CASE Expire
  BY <1>4 DEF Expire, OutputTypeOK, PipeInv, WorkerInv, AcceptedInv, ChildSucceeded
<1>5. CASE WorkerRefuses
  <2>1. /\ worker' \in Buffers /\ worker'.exit = "error"
        /\ worker'.exceeded = worker.exceeded /\ worker'.length = worker.length
    BY <1>0, <1>5 DEF WorkerRefuses, Buffers, Exits
  <2>2. /\ runtime = "wasi" /\ guest = "runs" /\ guest' = "failed" /\ result = "none"
        /\ UNCHANGED <<runtime, expired, pipe, copied, result, attempts, produced>>
    BY <1>5 DEF WorkerRefuses
  <2> QED BY <2>1, <2>2 DEF OutputTypeOK, PipeInv, WorkerInv, AcceptedInv
<1>6. CASE WorkerReturns
  <2>1. /\ runtime = "wasi" /\ worker.exit = "running" /\ pipe + copied = 0
        /\ UNCHANGED <<runtime, guest, expired, copied, result, attempts, produced>>
    BY <1>6 DEF WorkerReturns, WorkerInv
  <2>2. result # "accepted"
    BY <2>1 DEF AcceptedInv, ChildSucceeded
  <2>3. \/ /\ WorkerAccepts /\ worker' = [worker EXCEPT !.exit = "ok"]
           /\ pipe' = pipe + worker.length["stdout"]
        \/ worker' = [worker EXCEPT !.exit = "error"] /\ pipe' = pipe
    BY <1>6 DEF WorkerReturns
  <2>4. /\ worker' \in Buffers /\ pipe' \in Nat
        /\ worker'.exceeded = worker.exceeded /\ worker'.length = worker.length
        /\ \/ /\ worker'.exit = "ok" /\ guest = "ended" /\ ~worker.exceeded["stdout"]
              /\ pipe' + copied = worker.length["stdout"]
           \/ worker'.exit = "error" /\ pipe' = pipe
    <3>1. WorkerAccepts => guest = "ended" /\ ~worker.exceeded["stdout"]
      BY DEF WorkerAccepts, Streams
    <3>2. CASE /\ WorkerAccepts /\ worker' = [worker EXCEPT !.exit = "ok"]
               /\ pipe' = pipe + worker.length["stdout"]
      <4>1. pipe = 0 /\ copied = 0
        BY <1>0, <2>1
      <4>2. /\ worker' \in Buffers /\ worker'.exit = "ok"
            /\ worker'.exceeded = worker.exceeded /\ worker'.length = worker.length
        BY <1>0, <3>2 DEF Buffers, Exits
      <4> QED BY <1>0, <3>1, <3>2, <4>1, <4>2
    <3>3. CASE worker' = [worker EXCEPT !.exit = "error"] /\ pipe' = pipe
      BY <1>0, <3>3 DEF Buffers, Exits
    <3> QED BY <2>3, <3>2, <3>3
  <2>5. OutputTypeOK' /\ PipeInv' /\ AcceptedInv'
    BY <2>1, <2>2, <2>4 DEF OutputTypeOK, PipeInv, AcceptedInv
  <2>6. WorkerInv'
    BY <2>1, <2>4 DEF WorkerInv
  <2> QED BY <2>5, <2>6
<1>7. CASE Copy
  <2>1. /\ result = "none" /\ pipe' \in Nat /\ copied' \in Nat
        /\ pipe' + copied' = pipe + copied
        /\ UNCHANGED <<runtime, guest, expired, worker, result, attempts, produced>>
    BY <1>0, <1>7 DEF Copy
  <2> QED BY <2>1 DEF OutputTypeOK, PipeInv, WorkerInv, AcceptedInv
<1>8. CASE ChildReturns
  <2>1. /\ result = "none"
        /\ UNCHANGED <<runtime, guest, expired, worker, pipe, copied, attempts, produced>>
        /\ result' = "refused" \/ (result' = "accepted" /\ ChildSucceeded /\ pipe = 0)
    BY <1>8 DEF ChildReturns, ProcessReturns
  <2>2. ChildSucceeded => guest = "ended"
    BY DEF ChildSucceeded, WorkerInv
  <2> QED BY <2>1, <2>2
          DEF OutputTypeOK, PipeInv, WorkerInv, AcceptedInv, ChildSucceeded
<1>9. ASSUME NEW s \in Streams, NEW n \in Sizes, WasiWrite(s, n)
      PROVE  OutputInv'
  <2>1. /\ runtime = "wasi" /\ worker.exit = "running" /\ guest = "runs" /\ result = "none"
        /\ produced' = IF s = "stdout" THEN produced + n ELSE produced
        /\ attempts' = attempts + 1 /\ Buffered(s, n) /\ n \in Nat
        /\ UNCHANGED <<runtime, guest, expired, pipe, copied, result>>
    BY <1>9, OutputAssumption DEF WasiWrite, Produces, Sizes
  <2>2. /\ worker' \in Buffers /\ worker'.exit = "running"
        /\ worker'.exceeded["stdout"] = FALSE =>
             /\ worker.exceeded["stdout"] = FALSE
             /\ worker'.length["stdout"] = IF s = "stdout" THEN worker.length["stdout"] + n
                                                           ELSE worker.length["stdout"]
    BY <1>0, <2>1, BufferedFields
  <2>3. produced' \in Nat /\ attempts' \in Nat
    BY <1>0, <2>1 DEF OutputTypeOK
  <2>4. worker'.exceeded["stdout"] \in BOOLEAN /\ worker.exceeded["stdout"] \in BOOLEAN
    BY <1>0, <2>2 DEF Buffers, Streams
  <2>5. ~worker'.exceeded["stdout"] => worker'.length["stdout"] = produced'
    <3>1. worker.exceeded["stdout"] = FALSE => worker.length["stdout"] = produced
      BY <2>1 DEF WorkerInv
    <3> QED BY <2>1, <2>2, <2>4, <3>1
  <2> QED BY <2>1, <2>2, <2>3, <2>5 DEF OutputTypeOK, PipeInv, WorkerInv, AcceptedInv
<1>10. ASSUME NEW n \in Sizes, ProcessWrite(n)
       PROVE  OutputInv'
  <2>1. /\ runtime # "wasi" /\ result = "none"
        /\ produced' = produced + n /\ pipe' = pipe + n /\ n \in Nat
        /\ attempts' = attempts + 1
        /\ UNCHANGED <<runtime, guest, expired, worker, copied, result>>
    BY <1>10, OutputAssumption DEF ProcessWrite, Produces, Sizes
  <2>2. produced' \in Nat /\ pipe' \in Nat /\ attempts' \in Nat
    BY <1>0, <2>1 DEF OutputTypeOK
  <2>3. pipe' + copied = produced'
    BY <1>0, <2>1 DEF PipeInv
  <2> QED BY <2>1, <2>2, <2>3 DEF OutputTypeOK, PipeInv, WorkerInv, AcceptedInv
<1> QED BY <1>1, <1>2, <1>3, <1>4, <1>5, <1>6, <1>7, <1>8, <1>9, <1>10 DEF OutputStep

\* The invariant of the output.
LEMMA OutputInvNext == OutputInv /\ [ExecutionNext]_executionVars => OutputInv'
BY OutputSteps, OutputStepKeeps

-----------------------------------------------------------------------------
(* Theorems.                                                               *)

\* The inductive invariant of the executions, under any scheduling.
THEOREM ExecutionInvariance ==
  ExecutionInit /\ [][ExecutionNext]_executionVars => [](SandboxInv /\ OutputInv)
BY SandboxInvInit, OutputInvInit, SandboxInvNext, OutputInvNext, PTL DEF ExecutionInit

\* A result is all the guest wrote, in every runtime.
THEOREM ResultsAreComplete == ExecutionSpec => []ResultIsComplete
<1>1. OutputInv => ResultIsComplete
  <2> SUFFICES ASSUME OutputInv, result = "accepted" PROVE ResultIsComplete
    BY DEF ResultIsComplete
  <2>1. /\ guest = "ended" /\ pipe = 0 /\ ChildSucceeded
        /\ copied \in Nat /\ PipeInv /\ WorkerInv
    BY DEF OutputInv, AcceptedInv, OutputTypeOK
  <2>2. copied = produced
    BY <2>1 DEF PipeInv, WorkerInv, ChildSucceeded
  <2> QED BY <2>1, <2>2 DEF ResultIsComplete
<1> QED BY <1>1, ExecutionInvariance, PTL DEF ExecutionSpec

\* Neither the guest nor the broker outlives its execution, unless the runner died or the
\* last clean was not answered.
THEOREM NothingIsLeft == ExecutionSpec => []LeavesNothing
<1>1. SandboxInv => LeavesNothing
  <2> SUFFICES ASSUME SandboxInv PROVE LeavesNothing
    OBVIOUS
  <2>1. GuestEndsWithExecution
    BY DEF SandboxInv, LeftInv, GuestEndsWithExecution
  <2>2. BrokerEndsWithExecution
    BY DEF SandboxInv, BrokerInv, BrokerEndsWithExecution
  <2>3. GuestHasBroker
    <3> SUFFICES ASSUME box = [of |-> "current", state |-> "started"], ~listening
                 PROVE  excused
      BY DEF GuestHasBroker
    <3>1. pc \in Asked /\ pc \in {"returned", "drain"}
      BY DEF SandboxInv, CurrentInv, BrokerInv
    <3> QED BY <3>1 DEF SandboxInv, LeftInv, Asked
  <2> QED BY <2>1, <2>2, <2>3 DEF LeavesNothing
<1> QED BY <1>1, ExecutionInvariance, PTL DEF ExecutionSpec

\* A container that is not the mission's is touched only when it took the name after a
\* removal by that name had been decided upon, whatever is asked of the daemon and however
\* late it obeys.
THEOREM ForeignIsKept == ExecutionSpec => ForeignKept
<1>1. SandboxInv /\ [ExecutionNext]_executionVars =>
        [box.of = "foreign" /\ box' # box => ForeignLeaves \/ raced]_sandboxVars
  <2> SUFFICES ASSUME SandboxInv, [ExecutionNext]_executionVars,
                      box.of = "foreign", box' # box, raced # TRUE
               PROVE  ForeignLeaves
    OBVIOUS
  <2>1. /\ box.state = "started" /\ raced = FALSE
    BY DEF SandboxInv, ForeignInv, SandboxTypeOK
  <2>2. /\ removing = FALSE /\ pc \notin {"remove", "last remove"}
    BY <2>1 DEF SandboxInv, SandboxTypeOK, ForeignInv, RemovalUnderWay
  <2>3. CASE CleanAnswers \/ CleanFails
    BY <2>2, <2>3, CleanSteps DEF SandboxInv
  <2>4. CASE Returns \/ RunnerDies
    <3>1. box' = [box EXCEPT !.of = Elapsed(@)] /\ box \in Boxes
      BY <2>4 DEF Returns, RunnerDies, BoxElapses, SandboxInv, SandboxTypeOK
    <3>2. box' = box
      BY <3>1 DEF Elapsed, Boxes
    <3> QED BY <3>2
  <2>5. CASE ClientStarts \/ StartBox \/ BoxEnds
    BY <2>1, <2>5 DEF ClientStarts, StartBox, BoxEnds
  <2>6. CASE LateRemove \/ ForeignComes
    <3>1. ~LateRemove
      BY <2>2 DEF LateRemove
    <3>2. ~ForeignComes
      BY DEF ForeignComes, Empty
    <3> QED BY <2>6, <3>1, <3>2
  <2>7. ASSUME NEW whose \in {"current", "old"}, Create(whose) \/ NeverCreates(whose)
        PROVE  FALSE
    BY <2>7 DEF Create, NeverCreates, Empty
  <2>8. CASE \/ Begin \/ Run \/ CloseBroker \/ ClientEnds \/ Connect \/ HandlerEnds
             \/ UNCHANGED sandboxVars
    BY <2>8 DEF Begin, Run, CloseBroker, ClientEnds, Connect, HandlerEnds, daemonVars,
       sandboxVars
  <2> QED BY <2>3, <2>4, <2>5, <2>6, <2>7, <2>8, SandboxSteps DEF SandboxStep
<1> QED BY <1>1, ExecutionInvariance, PTL DEF ExecutionSpec, ForeignKept
=============================================================================
