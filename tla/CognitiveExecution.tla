------------------------- MODULE CognitiveExecution -------------------------
(***************************************************************************)
(* One execution of CognitiveExecutor with all it does for its evidence:   *)
(* the export of EvidenceBinding, the acquisition of remote documents of   *)
(* MCPSession and the ranking of Retrieval.  The last two take their       *)
(* places in Collect.                                                      *)
(*                                                                         *)
(* The ranking is followed on one of the documents, whose text is          *)
(* arbitrary; what the others contribute to the sources is left open.      *)
(***************************************************************************)
EXTENDS EvidenceBinding, MCPSession, Retrieval

VARIABLES
  configured,  \* the retrieval of the mission: "excerpts" (none), "lexical", "mcp"
  followed     \* the document whose text is ranked, Absent when none is

cognitiveVars ==
  <<evidenceVars, sessionVars, retrievalVars, configured, followed>>

CognitiveInit ==
  /\ EvidenceInit /\ MCPInit /\ RetrievalInit
  /\ configured \in {"excerpts", "lexical", "mcp"} /\ followed = Absent

\* The workspace has been exported; the script has not been started.
Collecting == progress = "exporting" /\ entries = {}

\* readMCP is called between the reading of the stage and the ranking.
Acquiring == configured = "mcp" /\ Collecting /\ phase # "done"

\* The documents of a complete acquisition, whose version is never looked at.
Acquired ==
  IF outcome = "documents" THEN [name : {docs[k].uri : k \in DOMAIN docs}, version : {0}] ELSE {}

Available == TextsOfStage \cup Acquired

ASSUME AcquisitionAssumption == Remote = ToSet(URIs)

-----------------------------------------------------------------------------
Acquires(step) ==
  /\ Acquiring /\ step
  /\ UNCHANGED <<evidenceVars, retrievalVars, configured, followed>>

\* The deferred close has run.
AcquisitionFails ==
  /\ Collecting /\ phase = "done" /\ outcome = "error" /\ Fails
  /\ UNCHANGED <<sessionVars, retrievalVars, configured, followed>>

BeginsRanking ==
  /\ Collecting /\ configured # "excerpts" /\ ~Acquiring /\ outcome # "error"
  /\ Ranks
  /\ followed' \in Available
  /\ UNCHANGED <<evidenceVars, sessionVars, configured>>

Rank ==
  /\ Cut \/ Fail \/ Select
  /\ UNCHANGED <<evidenceVars, sessionVars, configured, followed>>

RankingCancelled ==
  /\ Cancelled
  /\ UNCHANGED <<evidenceVars, sessionVars, configured, followed>>

\* What the ranking of the one document says of the sources.
Decides ==
  /\ ranking = "selected" => sources' # {}
  /\ ranking \in {"no_sources", "no_match"} => followed \notin sources'
  /\ ranking \in {"too_many", "cancelled"} => sources' = {}

\* collectSources, or rankSources over all that is there; without a document it fails.
CollectsExcerpts ==
  /\ configured = "excerpts" /\ Collect(CollectSources)
  /\ UNCHANGED <<sessionVars, retrievalVars, configured, followed>>

CollectsRanked ==
  /\ configured # "excerpts" /\ ~Acquiring /\ outcome # "error"
  /\ Available = {} \/ ranking # "none"
  /\ Collect(RetrieveSources(Acquired))
  /\ IF Available = {} THEN sources' = {} ELSE Decides
  /\ Ranked /\ followed' = Absent
  /\ UNCHANGED <<sessionVars, configured>>

\* The end of the context also ends an acquisition or a ranking, by its own failure.  The
\* ranking works on texts it has in memory: edits while it lasts are left out.
Otherwise ==
  /\ text = <<>>
  /\ \/ \E f \in Files : EditWorkspace(f) \/ ScriptEditsStage(f) \/ Export(f)
     \/ List \/ RunScript \/ ScriptEnds \/ CallModel \/ Accept
     \/ Fails /\ ~Acquiring
  /\ UNCHANGED <<sessionVars, retrievalVars, configured, followed>>

CognitiveNext ==
  \/ Acquires(Client) \/ Acquires(Server) \/ AcquisitionFails
  \/ BeginsRanking \/ Rank \/ RankingCancelled \/ CollectsExcerpts \/ CollectsRanked
  \/ Otherwise

\* The client's timeouts are its own and of the server nothing is assumed; the rest is
\* sequential code.
CognitiveFairness ==
  /\ WF_cognitiveVars(Acquires(Initialize)) /\ WF_cognitiveVars(Acquires(CallFails))
  /\ WF_cognitiveVars(Acquires(Close)) /\ WF_cognitiveVars(AcquisitionFails)
  /\ WF_cognitiveVars(BeginsRanking) /\ WF_cognitiveVars(Rank)
  /\ WF_cognitiveVars(CollectsExcerpts) /\ WF_cognitiveVars(CollectsRanked)

CognitiveSpec == CognitiveInit /\ [][CognitiveNext]_cognitiveVars /\ CognitiveFairness

-----------------------------------------------------------------------------
\* One acquisition is one bounded attempt in one session, which is closed; it returns all
\* the documents or none, and only then are any of them sources.
AcquisitionKept ==
  /\ AttemptIsBounded /\ OneSession /\ AcceptedSessionClosed /\ DocumentsComplete
  /\ \A d \in sources : d.name \in Remote => outcome = "documents" /\ phase = "done"

\* Chunks are whole, and no word is lost between them.
RankingKept == ExcerptsAligned /\ WordsFound

\* With any server, and any text, the collection ends: the rounding of a chunk's end and
\* of the next one's start never meet.
CollectionEnds == Collecting ~> ~Collecting
=============================================================================
