-------------------------- MODULE MissionProperties --------------------------
(***************************************************************************)
(* What makes a mission correct, over every interleaving of the worker,    *)
(* the operator, the network, failing saves, signals and crashes.          *)
(***************************************************************************)
EXTENDS Mission

\* The type of every variable.
TypeOK ==
  /\ proc \in {"none", "serve", "run", "cli"}
  /\ st \in Snapshots /\ disk \in Snapshots
  /\ files \subseteq Results
  /\ fatal \in BOOLEAN /\ epoch \in Nat /\ stopping \in BOOLEAN
  /\ job \in Jobs
  /\ sent \in [Indexes -> Nat] /\ remote \subseteq Indexes /\ calls \in Nat
  /\ interrupted \in BOOLEAN /\ saveFailed \in BOOLEAN /\ licensed \subseteq Indexes

\* As long as the controller accepts work, what it shows and acts upon is what a
\* restart would find: every mutation is followed by a save, and a failed save
\* blocks the controller (fatal).
NoUnsavedState == ~fatal => st = disk

\* The snapshot on disk confirms the cycles 1..completed in order, one artifact
\* each, has at most the next one pending, and is completed exactly at the limit,
\* so that a repeated cycle keeps its identifier and none is lost or counted twice.
CycleLedger ==
  /\ Len(disk.artifacts) = disk.completed /\ disk.completed <= MaxCycles
  /\ \A n \in DOMAIN disk.artifacts : disk.artifacts[n].cycle = n
  /\ disk.pending \in {0, disk.completed + 1}
  /\ (disk.status = "completed") = (disk.completed = MaxCycles)

\* Whatever step a crash or an error interrupts, the artifacts the snapshot refers
\* to are in the store: PutArtifact precedes the save that mentions it.
ArtifactsDurable ==
  \A n \in DOMAIN disk.artifacts : disk.artifacts[n].digest \in files

\* Model calls, counted over every process the mission has had, never outnumber the
\* reservations on disk, nor those the budget: reserveModel is saved before Execute.
CallsWithinBudget == calls <= disk.modelAttempts /\ disk.modelAttempts <= MaxCalls

\* PUT requests issued for an action, over every process, never outnumber the
\* attempts reserved on disk: the in_flight marker is saved before the network.
PutsReserved ==
  \A i \in Indexes :
    sent[i] <= IF i \in DOMAIN disk.actions THEN disk.actions[i].attempts ELSE 0

\* The runner never writes a snapshot that decodeState or validateActions would
\* refuse: no sequence of failures and commands leaves the mission unloadable.
DiskLoadable == ValidActions(disk)

\* A mission completes only with its queue settled: no proposal slips in while the
\* last cycle is executing, where nobody could decide it any more.
CompletedQueueSettled == disk.status = "completed" => Open(disk) = {}

\* "Resultados tardios nao sao confirmados" (README.md:75): a cycle that was
\* executing when a control command was accepted is never confirmed, not even when
\* the mission was resumed before the old executor returned.
LateResultsDiscarded == [][disk'.completed > disk.completed => ~interrupted]_vars

\* Each PUT spends one explicit approval or retry of the operator: no restart, late
\* answer or reconciliation ever sends again on its own (WRITES.md:73).
EveryPutIsLicensed ==
  [][\A i \in Indexes : sent'[i] > sent[i] => i \in licensed]_vars

-----------------------------------------------------------------------------
(* The abstract specifications, seen through the snapshot on disk.         *)

Promise == INSTANCE Lifecycle
             WITH Limit <- MaxCycles, status <- disk.status, confirmed <- disk.completed

\* The mission on disk only moves as the lifecycle promised to the operator allows.
LifecycleHolds == Promise!Spec

WithStatus(S) == {i \in DOMAIN disk.actions : disk.actions[i].status \in S}

Ledger == INSTANCE WriteLedger
            WITH Ids <- Indexes, authorised <- WithStatus(Authorised),
                 effects <- remote, succeeded <- WithStatus({"succeeded"}),
                 rejected <- WithStatus({"rejected"})

\* The queue on disk and the records at the destination move as the ledger allows:
\* effects need authority, successes need effects, verdicts are final.
LedgerHolds == Ledger!Spec

-----------------------------------------------------------------------------
(* Liveness, under Mission!Fairness.                                       *)

AwaitingOperator == \E i \in Open(st) : IsNext(st, i) /\ st.actions[i].status \in Awaiting

Serving == /\ proc = "serve" /\ ~stopping /\ ~fatal /\ st.status = "active"
           /\ ~AwaitingOperator

\* A service with an active mission and nothing to ask the operator never idles for
\* ever: it confirms the next cycle, or pauses, or is stopped.
ServiceAdvances ==
  \A n \in 0..MaxCycles - 1 :
    (Serving /\ disk.completed = n) ~> (~Serving \/ disk.completed > n)

\* Every execution is over some day, so that the operator's actions, refused while
\* one runs, are accepted again.
ExecutionsEnd == Running ~> ~Running

\* A signalled process ends: the service waits for its worker, which cannot hang.
SignalEnds == stopping ~> (proc = "none")

-----------------------------------------------------------------------------
\* "Erro de persistencia bloqueia novas execucoes" (ARCHITECTURE.md:21): after a
\* failed save, this process starts no execution.
FailedSaveBlocks == [][saveFailed /\ proc' = proc /\ ~Running => job'.kind = "none"]_vars
=============================================================================
