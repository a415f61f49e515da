--------------------------- MODULE EvidenceBinding ---------------------------
(***************************************************************************)
(* One execution of CognitiveExecutor: it exports the workspace file by    *)
(* file into a stage, takes the excerpts from the stage or from a          *)
(* retrieval, lets the script work on the stage, calls the model once and  *)
(* accepts an analysis whose quotes the excerpts contain.                  *)
(*                                                                         *)
(* Meanwhile the files of the workspace are edited, and a script on the    *)
(* host may rewrite the stage.                                             *)
(***************************************************************************)
EXTENDS Naturals, FiniteSets

CONSTANTS
  Files,       \* regular, visible files of the first level
  TextFiles,   \* those of them that may be evidence: .txt, .md, .csv, .json
  Remote,      \* documents the MCP client may return
  MaxSources,  \* 8 excerpts
  MaxEdits,    \* bound: edits of the workspace or of the stage
  Absent

ASSUME EvidenceAssumption ==
  /\ TextFiles \subseteq Files /\ Remote \cap Files = {}
  /\ MaxSources \in Nat \ {0} /\ MaxEdits \in Nat

\* A version of a document has a beginning, which an excerpt keeps, and a rest.
Versions == 0..MaxEdits
Documents == [name : Files \cup Remote, version : Versions]
Quotes == [of : Documents, part : {"excerpt", "rest"}]
Claims == [source : Documents, quote : Quotes]

VARIABLES
  workspace,  \* version of each file, Absent when there is none
  edits,      \* history: edits so far
  progress,   \* where Execute is
  entries,    \* listed files, still to be exported
  stage,      \* version of each exported file, Absent when not exported
  sources,    \* the documents whose excerpts support the analysis
  view,       \* history: the stage the script was given
  claims      \* the claims of the accepted analysis

evidenceVars == <<workspace, edits, progress, entries, stage, sources, view, claims>>

NoFiles == [f \in Files |-> Absent]

EvidenceInit ==
  /\ workspace \in [Files -> {0, Absent}] /\ edits = 0
  /\ progress = "starting" /\ entries = {} /\ stage = NoFiles
  /\ sources = {} /\ view = NoFiles /\ claims = {}

Moves(from, to) == progress = from /\ progress' = to

-----------------------------------------------------------------------------
(* Whoever shares the files.                                               *)

Edited(files, f) ==
  /\ edits < MaxEdits /\ edits' = edits + 1
  /\ \E v \in {edits + 1, Absent} : files' = [files EXCEPT ![f] = v]

\* An editor replaces, creates or deletes a file of the workspace.
EditWorkspace(f) ==
  /\ Edited(workspace, f)
  /\ UNCHANGED <<progress, entries, stage, sources, view, claims>>

\* A script on the host owns the files of the stage.
ScriptEditsStage(f) ==
  /\ progress = "running" /\ Edited(stage, f)
  /\ UNCHANGED <<workspace, progress, entries, sources, view, claims>>

-----------------------------------------------------------------------------
(* Execute.                                                                *)

\* One listing; what appears later is not exported.
List ==
  /\ Moves("starting", "exporting")
  /\ entries' = {f \in Files : workspace[f] # Absent}
  /\ UNCHANGED <<workspace, edits, stage, sources, view, claims>>

\* A file is opened and read whole; one that has gone fails the export.
Export(f) ==
  /\ progress = "exporting" /\ f \in entries
  /\ IF workspace[f] = Absent
     THEN progress' = "failed" /\ UNCHANGED <<entries, stage>>
     ELSE /\ entries' = entries \ {f} /\ stage' = [stage EXCEPT ![f] = workspace[f]]
          /\ UNCHANGED progress
  /\ UNCHANGED <<workspace, edits, sources, view, claims>>

\* Mutant: the excerpts are read from the mission's workspace.
TextsOfWorkspace ==
  {d \in Documents : d.name \in TextFiles /\ workspace[d.name] = d.version}

TextsOfStage == {d \in Documents : d.name \in TextFiles /\ stage[d.name] = d.version}

\* collectSources: the first eight texts, whichever they are.
CollectSources ==
  /\ sources' \in {some \in SUBSET TextsOfStage :
       Cardinality(some) = IF Cardinality(TextsOfStage) > MaxSources
                           THEN MaxSources ELSE Cardinality(TextsOfStage)}

\* retrieveSources: the best chunks of the texts and of the remote documents.
RetrieveSources(remote) ==
  sources' \in {some \in SUBSET (TextsOfStage \cup remote) : Cardinality(some) <= MaxSources}

\* No text, or no chunk that matches the mission, ends the attempt here.
Collect(collection) ==
  /\ progress = "exporting" /\ entries = {}
  /\ collection
  /\ progress' = IF sources' = {} THEN "failed" ELSE "collected"
  /\ UNCHANGED <<workspace, edits, entries, stage, view, claims>>

RunScript ==
  /\ Moves("collected", "running")
  /\ view' = stage
  /\ UNCHANGED <<workspace, edits, entries, stage, sources, claims>>

ScriptEnds ==
  /\ Moves("running", "executed")
  /\ UNCHANGED <<workspace, edits, entries, stage, sources, view, claims>>

CallModel ==
  /\ Moves("executed", "asked")
  /\ UNCHANGED <<workspace, edits, entries, stage, sources, view, claims>>

\* validateAnalysis: the claim names a source and quotes its excerpt.
Supported(claim) ==
  /\ claim.source \in sources
  /\ claim.quote.of = claim.source /\ claim.quote.part = "excerpt"

\* A response other than one complete answer with one to eight supported claims fails.
Accept ==
  /\ Moves("asked", "accepted")
  /\ claims' \in (SUBSET {c \in Claims : Supported(c)}) \ {{}}
  /\ UNCHANGED <<workspace, edits, entries, stage, sources, view>>

\* A limit of the export, an I/O error, a remote document that cannot be read, a script
\* that fails, a response that is not accepted, or the end of the context.
Fails ==
  /\ progress \notin {"accepted", "failed"} /\ progress' = "failed"
  /\ UNCHANGED <<workspace, edits, entries, stage, sources, view, claims>>

EvidenceNext ==
  \/ \E f \in Files : EditWorkspace(f) \/ ScriptEditsStage(f) \/ Export(f)
  \/ Collect(CollectSources)
  \/ \E remote \in SUBSET [name : Remote, version : Versions] : Collect(RetrieveSources(remote))
  \/ List \/ RunScript \/ ScriptEnds \/ CallModel \/ Accept \/ Fails

EvidenceSpec == EvidenceInit /\ [][EvidenceNext]_evidenceVars

-----------------------------------------------------------------------------
(* Properties.                                                             *)

\* What the model is shown of the workspace is what the script worked on, whoever edits
\* the workspace during the export or the stage during the execution.
SameEvidence ==
  progress \in {"asked", "accepted"} =>
    \A d \in sources : d.name \in Files => view[d.name] = d.version

\* Without evidence neither the script runs nor the model is called.
EvidenceFirst ==
  progress \in {"running", "executed", "asked", "accepted"} => sources # {}

=============================================================================
