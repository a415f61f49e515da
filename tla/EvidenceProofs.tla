--------------------------- MODULE EvidenceProofs ---------------------------
(***************************************************************************)
(* Two invariants of EvidenceBinding, for every set of files and any       *)
(* number of edits.                                                        *)
(***************************************************************************)
EXTENDS EvidenceBinding, TLAPS

Supports(files) == \A d \in sources : d.name \in Files => files[d.name] = d.version

\* Between the collection of the sources and the start of the script nobody edits the
\* stage; a script that edits it was given what the sources were taken from.
EvidenceInv ==
  /\ progress = "collected" => Supports(stage)
  /\ progress \in {"running", "executed", "asked", "accepted"} => Supports(view)
  /\ progress \in {"collected", "running", "executed", "asked", "accepted"} => sources # {}

\* What is collected comes from the stage, or was never in the workspace.
LEMMA CollectedFromStage ==
  ASSUME NEW remote \in SUBSET [name : Remote, version : Versions],
         CollectSources \/ RetrieveSources(remote)
  PROVE  \A d \in sources' : d.name \in Files => stage[d.name] = d.version
<1>1. CASE CollectSources
  BY <1>1 DEF CollectSources, TextsOfStage
<1>2. CASE RetrieveSources(remote)
  <2>1. sources' \subseteq TextsOfStage \cup remote
    BY <1>2 DEF RetrieveSources
  <2>2. \A d \in remote : d.name \notin Files
    BY EvidenceAssumption
  <2> QED
    BY <2>1, <2>2 DEF TextsOfStage
<1> QED
  BY <1>1, <1>2

LEMMA EvidenceInvInit == EvidenceInit => EvidenceInv
BY DEF EvidenceInit, EvidenceInv

LEMMA EvidenceInvStep == EvidenceInv /\ [EvidenceNext]_evidenceVars => EvidenceInv'
<1> SUFFICES ASSUME EvidenceInv, [EvidenceNext]_evidenceVars
             PROVE  EvidenceInv'
  OBVIOUS
<1> USE DEF EvidenceInv, Supports, Moves
<1>1. ASSUME NEW f \in Files, EditWorkspace(f) PROVE EvidenceInv'
  BY <1>1 DEF EditWorkspace, Edited
<1>2. ASSUME NEW f \in Files, ScriptEditsStage(f) PROVE EvidenceInv'
  BY <1>2 DEF ScriptEditsStage, Edited
<1>3. ASSUME NEW f \in Files, Export(f) PROVE EvidenceInv'
  BY <1>3 DEF Export
<1>4. CASE List
  BY <1>4 DEF List
<1>5. ASSUME NEW remote \in SUBSET [name : Remote, version : Versions],
             Collect(CollectSources) \/ Collect(RetrieveSources(remote))
      PROVE  EvidenceInv'
  <2>1. progress = "exporting" /\ progress' = (IF sources' = {} THEN "failed" ELSE "collected")
        /\ UNCHANGED <<stage, view, claims>>
    BY <1>5 DEF Collect
  <2>2. Supports(stage)'
    BY <1>5, <2>1, CollectedFromStage DEF Collect
  <2> QED
    BY <2>1, <2>2
<1>6. CASE RunScript
  BY <1>6 DEF RunScript
<1>7. CASE ScriptEnds
  BY <1>7 DEF ScriptEnds
<1>8. CASE CallModel
  BY <1>8 DEF CallModel
<1>9. CASE Accept
  BY <1>9 DEF Accept
<1>10. CASE Fails
  BY <1>10 DEF Fails
<1>11. CASE UNCHANGED evidenceVars
  BY <1>11 DEF evidenceVars
<1> QED
  BY <1>1, <1>2, <1>3, <1>4, <1>5, <1>6, <1>7, <1>8, <1>9, <1>10, <1>11 DEF EvidenceNext

LEMMA EvidenceInvariant == EvidenceSpec => []EvidenceInv
BY EvidenceInvInit, EvidenceInvStep, PTL DEF EvidenceSpec

\* The model is shown what the script was given, of every workspace under any edits
\* (CognitiveExecutor.Execute).
THEOREM SameEvidenceHolds == EvidenceSpec => []SameEvidence
<1>1. EvidenceInv => SameEvidence
  BY DEF EvidenceInv, SameEvidence, Supports
<1> QED
  BY <1>1, EvidenceInvariant, PTL

\* No script and no request without evidence (collectSources, rankSources).
THEOREM EvidenceFirstHolds == EvidenceSpec => []EvidenceFirst
<1>1. EvidenceInv => EvidenceFirst
  BY DEF EvidenceInv, EvidenceFirst
<1> QED
  BY <1>1, EvidenceInvariant, PTL

=============================================================================
