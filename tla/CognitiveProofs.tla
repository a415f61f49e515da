-------------------------- MODULE CognitiveProofs --------------------------
(***************************************************************************)
(* A cognitive execution with its acquisition and its ranking implements   *)
(* EvidenceBinding, where the collection is one step: what is proved there *)
(* of the evidence holds of the whole execution.  Of the acquisition, that *)
(* it is one bounded attempt in one session, with all documents or none;   *)
(* of the ranking, that chunks are whole and lose no word between them.    *)
(***************************************************************************)
EXTENDS CognitiveExecution, EvidenceProofs, WellFoundedInduction

\* What has been read is a list of authorised resources.
DocsAuthorised == docs \in Seq([uri : ToSet(URIs), id : Nat]) /\ next \in Nat

LEMMA DocsAuthorisedInit == CognitiveInit => DocsAuthorised
BY DEF CognitiveInit, MCPInit, DocsAuthorised

LEMMA SessionStep ==
  ASSUME DocsAuthorised, Client \/ Server
  PROVE  DocsAuthorised'
<1> USE DEF DocsAuthorised
<1>1. CASE Client
  <2>1. CASE Initialize
    BY <2>1 DEF Initialize, Call, Send
  <2>2. CASE Notify
    BY <2>2 DEF Notify, Send
  <2>3. CASE Read
    BY <2>3 DEF Read, Call, Send
  <2>4. CASE CallFails
    BY <2>4 DEF CallFails, Failing
  <2>5. CASE Close
    BY <2>5 DEF Close
  <2> QED
    BY <1>1, <2>1, <2>2, <2>3, <2>4, <2>5 DEF Client
<1>2. CASE Server
  <2>1. ASSUME NEW header \in Sessions \cup {None, BadSession},
               Headers(header) \/ HeadersRefused(header)
        PROVE  DocsAuthorised'
    BY <2>1 DEF Headers, HeadersRefused, Failing
  <2>2. CASE Notified \/ ServerNotifies
    BY <2>2 DEF Notified, ServerNotifies
  <2>3. ASSUME NEW id \in 0..next, Initialized(id)
        PROVE  DocsAuthorised'
    BY <2>3 DEF Initialized
  <2>4. ASSUME NEW id \in 0..next, NEW uri \in ToSet(URIs), Document(id, uri)
        PROVE  DocsAuthorised'
    <3>1. docs' = Append(docs, [uri |-> uri, id |-> id]) /\ next' = next
      BY <2>4 DEF Document
    <3>2. [uri |-> uri, id |-> id] \in [uri : ToSet(URIs), id : Nat]
      OBVIOUS
    <3> QED
      BY <3>1, <3>2
  <2> QED
    BY <1>2, <2>1, <2>2, <2>3, <2>4 DEF Server
<1> QED
  BY <1>1, <1>2

\* Every step of the execution is a step of EvidenceBinding, or leaves its state alone.
LEMMA CognitiveStep ==
  ASSUME DocsAuthorised, [CognitiveNext]_cognitiveVars
  PROVE  DocsAuthorised' /\ [EvidenceNext]_evidenceVars
<1>1. CASE Acquires(Client) \/ Acquires(Server)
  BY <1>1, SessionStep DEF Acquires
<1>2. CASE AcquisitionFails
  BY <1>2 DEF AcquisitionFails, EvidenceNext, sessionVars, DocsAuthorised
<1>3. CASE BeginsRanking \/ Rank \/ RankingCancelled
  BY <1>3 DEF BeginsRanking, Rank, RankingCancelled, sessionVars, DocsAuthorised
<1>4. CASE CollectsExcerpts
  BY <1>4 DEF CollectsExcerpts, EvidenceNext, sessionVars, DocsAuthorised
<1>5. CASE CollectsRanked
  <2>1. Acquired \in SUBSET [name : Remote, version : Versions]
    <3>1. ASSUME NEW k \in DOMAIN docs  PROVE  docs[k].uri \in Remote
      <4> DEFINE Resources == [uri : Remote, id : Nat]
      <4>1. docs \in Seq(Resources)
        BY AcquisitionAssumption DEF DocsAuthorised
      <4>2. DOMAIN docs = 1..Len(docs) /\ docs \in [1..Len(docs) -> Resources]
        <5> HIDE DEF Resources
        <5> QED
          BY <4>1
      <4>3. docs[k] \in Resources
        <5> HIDE DEF Resources
        <5> QED
          BY <3>1, <4>2
      <4> QED
        BY <4>3
    <3>2. 0 \in Versions
      BY EvidenceAssumption DEF Versions
    <3> QED
      BY <3>1, <3>2 DEF Acquired
  <2>2. Collect(RetrieveSources(Acquired)) /\ UNCHANGED sessionVars
    BY <1>5 DEF CollectsRanked
  <2> QED
    BY <2>1, <2>2 DEF EvidenceNext, sessionVars, DocsAuthorised
<1>6. CASE Otherwise
  BY <1>6 DEF Otherwise, EvidenceNext, sessionVars, DocsAuthorised
<1>7. CASE UNCHANGED cognitiveVars
  BY <1>7 DEF cognitiveVars, sessionVars, DocsAuthorised
<1> QED
  BY <1>1, <1>2, <1>3, <1>4, <1>5, <1>6, <1>7 DEF CognitiveNext

\* The detailed execution implements the one whose collection is a single step
\* (CognitiveExecutor.Execute, retrieveSources, readMCP and rankSources).
THEOREM CollectionRefined == CognitiveSpec => EvidenceSpec
<1>1. CognitiveInit => EvidenceInit /\ DocsAuthorised
  BY DocsAuthorisedInit DEF CognitiveInit
<1>2. DocsAuthorised /\ [CognitiveNext]_cognitiveVars
        => DocsAuthorised' /\ [EvidenceNext]_evidenceVars
  BY CognitiveStep
<1> QED
  BY <1>1, <1>2, PTL DEF CognitiveSpec, EvidenceSpec

\* The model is shown what the script was given, of every workspace, under any edits and
\* whatever the server and the ranking do.
THEOREM SameEvidenceThroughout == CognitiveSpec => []SameEvidence
BY CollectionRefined, SameEvidenceHolds, PTL

-----------------------------------------------------------------------------
(* The acquisition: the requests so far are a function of the phase and of *)
(* the documents, index by index.                                          *)

Names == {"initialize", "initialized", "read", "delete"}

Requests ==
  [method : Names, id : Nat,
   uri : ToSet(URIs) \cup {None}, session : Sessions \cup {None}, version : BOOLEAN]

SessionTypeOK ==
  /\ phase \in {"initialize", "notify", "read", "closing", "done"}
  /\ awaiting \in {"nothing", "headers", "body"}
  /\ session \in Sessions \cup {None}
  /\ initialized \in BOOLEAN
  /\ requests \in Seq(Requests)
  /\ DocsAuthorised

\* The requests but for the one that closes the session.
Attempted == IF phase = "done" /\ Closes THEN Len(requests) - 1 ELSE Len(requests)

Out == IF awaiting = "nothing" THEN 0 ELSE 1

\* How far the attempt is.  No response has been looked at before the first headers.
InPlace ==
  /\ phase = "initialize" =>
       /\ Len(requests) = Out /\ Len(docs) = 0 /\ outcome = "none"
       /\ initialized = FALSE /\ (awaiting # "body" => session = None)
  /\ phase = "notify" =>
       Len(requests) = 1 + Out /\ Len(docs) = 0 /\ outcome = "none" /\ initialized = TRUE
  /\ phase = "read" =>
       /\ Len(requests) = 2 + Len(docs) + Out /\ Len(docs) < Len(URIs)
       /\ outcome = "none" /\ initialized = TRUE
  /\ phase \in {"closing", "done"} => awaiting = "nothing" /\ outcome \in {"documents", "error"}

InOrder ==
  /\ Attempted \in 0..2 + Len(URIs)
  /\ session # None => Attempted >= 1
  /\ \A k \in 1..Attempted : requests[k].method = Profile[k]

InSession ==
  \A k \in 1..Attempted :
    /\ requests[k].session = IF k = 1 THEN None ELSE session
    /\ k > 1 => requests[k].version = TRUE

Asked ==
  phase = "read" /\ awaiting # "nothing" =>
    requests[Len(requests)].id = next /\ requests[Len(requests)].uri = Wanted

\* The k-th document answered the k-th reading.
Answered ==
  /\ Len(docs) > 0 => Attempted >= 2 + Len(docs)
  /\ outcome = "documents" => Len(docs) = Len(URIs)
  /\ \A k \in 1..Len(docs) :
       /\ k <= Len(URIs) /\ docs[k].uri = URIs[k]
       /\ requests[2 + k].id = docs[k].id /\ requests[2 + k].uri = docs[k].uri

Closed ==
  phase = "done" /\ Closes =>
    /\ Len(requests) > 0
    /\ requests[Len(requests)].method = "delete"
    /\ requests[Len(requests)].session = session

SessionInv ==
  /\ SessionTypeOK /\ InPlace /\ InOrder /\ InSession /\ Asked /\ Answered /\ Closed

LEMMA Appending ==
  ASSUME NEW S, NEW s \in Seq(S), NEW e \in S
  PROVE  /\ Append(s, e) \in Seq(S) /\ Len(Append(s, e)) = Len(s) + 1
         /\ Append(s, e)[Len(s) + 1] = e
         /\ \A k \in 1..Len(s) : Append(s, e)[k] = s[k]
OBVIOUS

LEMMA Joining ==
  ASSUME NEW S, NEW s \in Seq(S), NEW t \in Seq(S)
  PROVE  /\ s \o t \in Seq(S) /\ Len(s \o t) = Len(s) + Len(t)
         /\ \A k \in 1..Len(s) + Len(t) :
              (s \o t)[k] = IF k <= Len(s) THEN s[k] ELSE t[k - Len(s)]
OBVIOUS

LEMMA PrefixByIndex ==
  ASSUME NEW S, NEW s \in Seq(S), NEW t \in Seq(S), Len(s) <= Len(t),
         \A k \in 1..Len(s) : s[k] = t[k]
  PROVE  IsPrefix(s, t)
BY DEF IsPrefix

\* The order of the methods.
LEMMA ProfileShape ==
  /\ Profile \in Seq(Names) /\ Len(Profile) = 2 + Len(URIs) /\ Len(URIs) \in Nat
  /\ Profile[1] = "initialize" /\ Profile[2] = "initialized"
  /\ \A k \in 3..2 + Len(URIs) : Profile[k] = "read"
<1> DEFINE head == <<"initialize", "initialized">>
           tail == [k \in DOMAIN URIs |-> "read"]
<1>1. URIs \in Seq(ToSet(URIs))
  BY MCPAssumption
<1>2. DOMAIN URIs = 1..Len(URIs) /\ Len(URIs) \in Nat
  BY <1>1
<1>3. tail \in Seq(Names) /\ Len(tail) = Len(URIs) /\ \A k \in 1..Len(URIs) : tail[k] = "read"
  <2>1. tail \in [1..Len(URIs) -> Names]
    BY <1>2 DEF Names
  <2>2. \A k \in 1..Len(URIs) : tail[k] = "read"
    BY <1>2
  <2> HIDE DEF tail
  <2> QED
    BY <1>2, <2>1, <2>2
<1>4. head \in Seq(Names) /\ Len(head) = 2 /\ head[1] = "initialize" /\ head[2] = "initialized"
  BY DEF Names
<1>5. Profile = head \o tail
  BY DEF Profile
<1> HIDE DEF head, tail
<1>6. /\ head \o tail \in Seq(Names) /\ Len(head \o tail) = Len(head) + Len(tail)
      /\ \A k \in 1..Len(head) + Len(tail) :
           (head \o tail)[k] = IF k <= Len(head) THEN head[k] ELSE tail[k - Len(head)]
  BY <1>3, <1>4, Joining
<1> QED
  BY <1>2, <1>3, <1>4, <1>5, <1>6


LEMMA SessionInvInit == CognitiveInit => SessionInv
<1> SUFFICES ASSUME MCPInit PROVE SessionInv
  BY DEF CognitiveInit
<1>1. requests = <<>> /\ docs = <<>> /\ Len(requests) = 0 /\ Len(docs) = 0
  BY DEF MCPInit
<1>2. SessionTypeOK
  <2>1. requests \in Seq(Requests) /\ DocsAuthorised
    BY <1>1 DEF MCPInit, DocsAuthorised
  <2> QED
    BY <2>1 DEF MCPInit, SessionTypeOK
<1>3. Attempted = 0 /\ Out = 0
  BY <1>1 DEF MCPInit, Attempted, Out
<1>4. InPlace /\ Asked /\ Closed
  BY <1>1, <1>3 DEF MCPInit, InPlace, Asked, Closed
<1>5. InOrder /\ InSession /\ Answered
  BY <1>1, <1>3, ProfileShape DEF MCPInit, InOrder, InSession, Answered
<1> QED
  BY <1>2, <1>4, <1>5 DEF SessionInv

\* A request is appended; what was sent before stays.
LEMMA Sending ==
  ASSUME SessionInv, NEW method \in Names, NEW id \in Nat, NEW uri \in ToSet(URIs) \cup {None},
         requests' = Append(requests, Request(method, id, uri))
  PROVE  /\ requests' \in Seq(Requests) /\ Len(requests') = Len(requests) + 1
         /\ \A k \in 1..Len(requests) : requests'[k] = requests[k]
         /\ requests'[Len(requests) + 1] = Request(method, id, uri)
<1>1. Request(method, id, uri) \in Requests
  BY DEF SessionInv, SessionTypeOK, Request, Requests
<1>2. requests \in Seq(Requests)
  BY DEF SessionInv, SessionTypeOK
<1> QED
  BY <1>1, <1>2, Appending

\* Each step of the client and of the server preserves it.
LEMMA StepInitialize ==
  ASSUME SessionInv, Initialize
  PROVE  SessionInv'
<1>1. /\ phase = "initialize" /\ awaiting = "nothing" /\ awaiting' = "headers"
      /\ next' = next + 1 /\ UNCHANGED <<phase, session, initialized, docs, outcome>>
      /\ requests' = Append(requests, Request("initialize", next + 1, None))
  BY DEF Initialize, Call, Send
<1>2. /\ Len(requests) = 0 /\ Len(docs) = 0 /\ outcome = "none"
      /\ initialized = FALSE /\ session = None /\ next \in Nat
  BY <1>1 DEF SessionInv, SessionTypeOK, InPlace, Out, DocsAuthorised
<1>3. /\ requests' \in Seq(Requests) /\ Len(requests') = 1
      /\ requests'[1].method = "initialize" /\ requests'[1].session = None
  <2>1. requests'[1] = Request("initialize", next + 1, None) /\ requests' \in Seq(Requests)
        /\ Len(requests') = 1
    BY <1>1, <1>2, Sending DEF Names
  <2> QED
    BY <1>2, <2>1 DEF Request
<1>4. Attempted' = 1 /\ Out' = 1
  BY <1>1, <1>3 DEF Attempted, Out
<1>5. SessionTypeOK'
  BY <1>1, <1>2, <1>3, SessionStep DEF SessionInv, SessionTypeOK, Client
<1>6. InPlace' /\ Asked' /\ Closed'
  BY <1>1, <1>2, <1>3, <1>4 DEF InPlace, Asked, Closed
<1>7. InOrder' /\ InSession' /\ Answered'
  BY <1>1, <1>2, <1>3, <1>4, ProfileShape DEF InOrder, InSession, Answered
<1> QED
  BY <1>5, <1>6, <1>7 DEF SessionInv

LEMMA StepNotify ==
  ASSUME SessionInv, Notify
  PROVE  SessionInv'
<1>1. /\ phase = "notify" /\ awaiting = "nothing" /\ awaiting' = "headers"
      /\ UNCHANGED <<phase, next, session, initialized, docs, outcome>>
      /\ requests' = Append(requests, Request("initialized", 0, None))
  BY DEF Notify, Send
<1>2. /\ Len(requests) = 1 /\ Len(docs) = 0 /\ outcome = "none" /\ initialized = TRUE
      /\ Attempted = 1
  BY <1>1 DEF SessionInv, InPlace, Out, Attempted
<1>3. /\ requests' \in Seq(Requests) /\ Len(requests') = 2 /\ requests'[1] = requests[1]
      /\ requests'[2] = Request("initialized", 0, None)
  BY <1>1, <1>2, Sending DEF Names
<1>4. /\ requests'[2].method = "initialized" /\ requests'[2].session = session
      /\ requests'[2].version = TRUE
  BY <1>2, <1>3 DEF Request
<1>5. requests[1].method = Profile[1] /\ requests[1].session = None
  BY <1>2 DEF SessionInv, InOrder, InSession
<1>6. Attempted' = 2 /\ Out' = 1
  BY <1>1, <1>3 DEF Attempted, Out
<1>7. SessionTypeOK'
  BY <1>1, <1>3, SessionStep DEF SessionInv, SessionTypeOK, Client
<1>8. InPlace' /\ Asked' /\ Closed'
  BY <1>1, <1>2, <1>3, <1>6 DEF InPlace, Asked, Closed
<1>9. InOrder' /\ Answered'
  BY <1>1, <1>2, <1>3, <1>4, <1>5, <1>6, ProfileShape DEF InOrder, Answered
<1>10. InSession'
  BY <1>1, <1>3, <1>4, <1>5, <1>6 DEF InSession
<1> QED
  BY <1>7, <1>8, <1>9, <1>10 DEF SessionInv

LEMMA StepRead ==
  ASSUME SessionInv, Read
  PROVE  SessionInv'
<1> DEFINE n == Len(requests)
<1>1. /\ phase = "read" /\ awaiting = "nothing" /\ awaiting' = "headers"
      /\ next' = next + 1 /\ UNCHANGED <<phase, session, initialized, docs, outcome>>
      /\ requests' = Append(requests, Request("read", next + 1, Wanted))
  BY DEF Read, Call, Send
<1>2. /\ n = 2 + Len(docs) /\ Len(docs) < Len(URIs) /\ Len(docs) \in Nat
      /\ outcome = "none" /\ initialized = TRUE /\ Attempted = n /\ next \in Nat
  BY <1>1 DEF SessionInv, SessionTypeOK, InPlace, Out, Attempted, DocsAuthorised
<1>3. Wanted \in ToSet(URIs)
  BY <1>2, ProfileShape, MCPAssumption DEF Wanted, ToSet
<1>4. /\ requests' \in Seq(Requests) /\ Len(requests') = n + 1
      /\ \A k \in 1..n : requests'[k] = requests[k]
      /\ requests'[n + 1] = Request("read", next + 1, Wanted)
  BY <1>1, <1>2, <1>3, Sending DEF Names
<1>5. /\ requests'[n + 1].method = "read" /\ requests'[n + 1].session = session
      /\ requests'[n + 1].version = TRUE /\ requests'[n + 1].id = next + 1
      /\ requests'[n + 1].uri = Wanted
  BY <1>2, <1>4 DEF Request
<1>6. Attempted' = n + 1 /\ Out' = 1 /\ Wanted' = Wanted
  BY <1>1, <1>4 DEF Attempted, Out, Wanted
<1>7. SessionTypeOK'
  BY <1>1, <1>4, SessionStep DEF SessionInv, SessionTypeOK, Client
<1>8. InPlace' /\ Asked' /\ Closed'
  BY <1>1, <1>2, <1>4, <1>5, <1>6 DEF InPlace, Asked, Closed
<1>9. InOrder'
  <2>1. ASSUME NEW k \in 1..n + 1  PROVE  requests'[k].method = Profile[k]
    BY <1>2, <1>4, <1>5, ProfileShape DEF SessionInv, InOrder
  <2> QED
    BY <1>1, <1>2, <1>6, <2>1, ProfileShape DEF InOrder
<1>10. InSession'
  <2>1. ASSUME NEW k \in 1..n + 1
        PROVE  /\ requests'[k].session = IF k = 1 THEN None ELSE session
               /\ k > 1 => requests'[k].version = TRUE
    BY <1>2, <1>4, <1>5 DEF SessionInv, InSession
  <2> QED
    BY <1>1, <1>6, <2>1 DEF InSession
<1>11. Answered'
  <2>1. ASSUME NEW k \in 1..Len(docs)  PROVE  requests'[2 + k] = requests[2 + k]
    BY <1>2, <1>4
  <2> QED
    BY <1>1, <1>2, <1>6, <2>1 DEF SessionInv, Answered
<1> QED
  BY <1>7, <1>8, <1>9, <1>10, <1>11 DEF SessionInv

\* A failing call leaves all it has sent and read; the session may have been opened.
LEMMA StepFailing ==
  ASSUME SessionInv, phase \in {"initialize", "notify", "read"}, Failing
  PROVE  SessionInv'
<1>1. /\ phase' = "closing" /\ awaiting' = "nothing" /\ outcome' = "error"
      /\ UNCHANGED <<next, session, initialized, docs, requests>>
  BY DEF Failing
<1>2. Attempted = Len(requests) /\ Attempted' = Len(requests)
  BY <1>1 DEF Attempted
<1>3. SessionTypeOK'
  BY <1>1 DEF SessionInv, SessionTypeOK, DocsAuthorised
<1>4. InPlace' /\ Asked' /\ Closed'
  BY <1>1 DEF InPlace, Asked, Closed
<1>5. InOrder' /\ InSession' /\ Answered'
  BY <1>1, <1>2 DEF SessionInv, InOrder, InSession, Answered
<1> QED
  BY <1>3, <1>4, <1>5 DEF SessionInv

\* Only the response to the first request can set the session.
LEMMA StepHeaders ==
  ASSUME SessionInv, NEW header \in Sessions \cup {None, BadSession}, Headers(header)
  PROVE  SessionInv'
<1>1. /\ awaiting = "headers" /\ awaiting' = "body" /\ phase \in {"initialize", "read"}
      /\ session' = IF header = None THEN session ELSE header
      /\ UNCHANGED <<phase, next, initialized, docs, outcome, requests>>
  BY DEF Headers, SessionInv, SessionTypeOK, InPlace
<1>2. header = None \/ (header # BadSession /\ (initialized = TRUE => header = session))
  <2>1. header = None \/ (header # BadSession /\ (initialized => header = session))
    BY DEF Headers, AcceptsSession
  <2>2. ASSUME initialized = TRUE  PROVE initialized
    BY <2>2
  <2> QED
    BY <2>1, <2>2, Zenon
<1>3. /\ phase = "initialize" => Len(requests) = 1 /\ initialized = FALSE
      /\ phase = "read" => initialized = TRUE
      /\ Len(requests) \in Nat /\ Len(requests) >= 1
  <2>1. Len(requests) \in Nat /\ Len(docs) \in Nat
    BY DEF SessionInv, SessionTypeOK, DocsAuthorised
  <2> QED
    BY <1>1, <2>1 DEF SessionInv, InPlace, Out
<1>4. phase = "read" => session' = session
  BY <1>1, <1>2, <1>3
<1>5. /\ Attempted = Len(requests) /\ Attempted' = Len(requests)
      /\ Out = 1 /\ Out' = 1 /\ Wanted' = Wanted
  BY <1>1 DEF Attempted, Out, Wanted
<1>6. SessionTypeOK'
  BY <1>1, <1>2 DEF SessionInv, SessionTypeOK, DocsAuthorised
<1>7. InPlace' /\ Asked' /\ Closed'
  BY <1>1, <1>5 DEF SessionInv, InPlace, Asked, Closed
<1>8. InOrder' /\ Answered'
  BY <1>1, <1>3, <1>5 DEF SessionInv, InOrder, Answered
<1>9. InSession'
  BY <1>1, <1>3, <1>4, <1>5 DEF SessionInv, InSession
<1> QED
  BY <1>6, <1>7, <1>8, <1>9 DEF SessionInv

LEMMA StepNotified ==
  ASSUME SessionInv, Notified
  PROVE  SessionInv'
<1>1. /\ awaiting = "headers" /\ awaiting' = "nothing" /\ phase = "notify" /\ phase' = "read"
      /\ UNCHANGED <<next, session, initialized, docs, outcome, requests>>
  BY DEF Notified
<1>2. /\ Attempted = Len(requests) /\ Attempted' = Len(requests) /\ Out = 1 /\ Out' = 0
      /\ Len(requests) = 2 /\ Len(docs) = 0 /\ Len(URIs) > 0
  <2>1. URIs \in Seq(ToSet(URIs)) /\ URIs # <<>>
    BY MCPAssumption
  <2>2. Len(URIs) > 0
    BY <2>1
  <2> QED
    BY <1>1, <2>2 DEF Attempted, Out, SessionInv, InPlace
<1>3. SessionTypeOK'
  BY <1>1 DEF SessionInv, SessionTypeOK, DocsAuthorised
<1>4. InPlace' /\ Asked' /\ Closed'
  BY <1>1, <1>2 DEF SessionInv, InPlace, Asked, Closed
<1>5. InOrder' /\ InSession' /\ Answered'
  BY <1>1, <1>2 DEF SessionInv, InOrder, InSession, Answered
<1> QED
  BY <1>3, <1>4, <1>5 DEF SessionInv

LEMMA StepServerNotifies ==
  ASSUME SessionInv, ServerNotifies
  PROVE  SessionInv'
<1>1. UNCHANGED <<phase, awaiting, next, session, initialized, docs, outcome, requests>>
  BY DEF ServerNotifies
<1> QED
  BY <1>1 DEF SessionInv, SessionTypeOK, DocsAuthorised, InPlace, InOrder, InSession, Asked,
              Answered, Closed, Attempted, Out, Wanted, Closes

LEMMA StepInitialized ==
  ASSUME SessionInv, NEW id \in 0..next, Initialized(id)
  PROVE  SessionInv'
<1>1. /\ phase = "initialize" /\ phase' = "notify" /\ awaiting = "body" /\ awaiting' = "nothing"
      /\ initialized' = TRUE /\ UNCHANGED <<next, session, docs, outcome, requests>>
  BY DEF Initialized, Event
<1>2. /\ Attempted = Len(requests) /\ Attempted' = Len(requests) /\ Out = 1 /\ Out' = 0
      /\ Len(requests) = 1 /\ Len(docs) = 0
  BY <1>1 DEF Attempted, Out, SessionInv, InPlace
<1>3. SessionTypeOK'
  BY <1>1 DEF SessionInv, SessionTypeOK, DocsAuthorised
<1>4. InPlace' /\ Asked' /\ Closed'
  BY <1>1, <1>2 DEF SessionInv, InPlace, Asked, Closed
<1>5. InOrder' /\ InSession' /\ Answered'
  BY <1>1, <1>2 DEF SessionInv, InOrder, InSession, Answered
<1> QED
  BY <1>3, <1>4, <1>5 DEF SessionInv

\* The document answers the last request, which is its own reading.
LEMMA StepDocument ==
  ASSUME SessionInv, NEW id \in 0..next, NEW uri \in ToSet(URIs), Document(id, uri)
  PROVE  SessionInv'
<1> DEFINE m == Len(docs)
           doc == [uri |-> uri, id |-> id]
<1>1. /\ phase = "read" /\ awaiting = "body" /\ awaiting' = "nothing"
      /\ id = next /\ uri = Wanted /\ docs' = Append(docs, doc)
      /\ UNCHANGED <<next, session, initialized, requests>>
  BY DEF Document, Event, Answers
<1>2. \/ Len(docs') = Len(URIs) /\ phase' = "closing" /\ outcome' = "documents"
      \/ Len(docs') # Len(URIs) /\ UNCHANGED <<phase, outcome>>
  BY DEF Document
<1>3. /\ Len(requests) = 3 + m /\ m < Len(URIs) /\ m \in Nat
      /\ outcome = "none" /\ initialized = TRUE /\ next \in Nat
      /\ Attempted = Len(requests) /\ Attempted' = Len(requests) /\ Out' = 0
  <2>1. m \in Nat
    BY DEF SessionInv, SessionTypeOK, DocsAuthorised
  <2>2. Attempted = Len(requests) /\ Attempted' = Len(requests) /\ Out' = 0 /\ Out = 1
    BY <1>1, <1>2 DEF Attempted, Out
  <2> QED
    BY <1>1, <2>1, <2>2 DEF SessionInv, SessionTypeOK, DocsAuthorised, InPlace
<1>4. /\ Len(docs') = m + 1 /\ docs'[m + 1] = doc
      /\ \A k \in 1..m : docs'[k] = docs[k]
  <2>1. doc \in [uri : ToSet(URIs), id : Nat] /\ docs \in Seq([uri : ToSet(URIs), id : Nat])
    BY <1>1, <1>3 DEF SessionInv, SessionTypeOK, DocsAuthorised
  <2> QED
    BY <1>1, <2>1, Appending
<1>5. requests[3 + m].id = id /\ requests[3 + m].uri = uri /\ uri = URIs[m + 1]
  BY <1>1, <1>3 DEF SessionInv, Asked, Wanted
<1>6. SessionTypeOK'
  <2>1. DocsAuthorised'
    <3>1. id \in 0..next /\ Server
      BY DEF Server
    <3> QED
      BY <3>1, SessionStep DEF SessionInv, SessionTypeOK
  <2> QED
    BY <1>1, <1>2, <2>1 DEF SessionInv, SessionTypeOK
<1>7. InPlace' /\ Asked' /\ Closed'
  BY <1>1, <1>2, <1>3, <1>4 DEF SessionInv, InPlace, Asked, Closed
<1>8. InOrder' /\ InSession'
  BY <1>1, <1>3 DEF SessionInv, InOrder, InSession
<1>9. Answered'
  <2>1. ASSUME NEW k \in 1..m + 1
        PROVE  /\ k <= Len(URIs) /\ docs'[k].uri = URIs[k]
               /\ requests[2 + k].id = docs'[k].id /\ requests[2 + k].uri = docs'[k].uri
    <3>1. CASE k = m + 1
      <4>1. docs'[k].uri = uri /\ docs'[k].id = id
        BY <1>4, <3>1
      <4> QED
        BY <1>3, <1>5, <3>1, <4>1
    <3>2. CASE k <= m
      BY <1>3, <1>4, <3>2 DEF SessionInv, Answered
    <3> QED
      BY <1>3, <3>1, <3>2
  <2> QED
    BY <1>1, <1>2, <1>3, <1>4, <2>1 DEF Answered
<1> QED
  BY <1>6, <1>7, <1>8, <1>9 DEF SessionInv

LEMMA StepClose ==
  ASSUME SessionInv, Close
  PROVE  SessionInv'
<1> DEFINE n == Len(requests)
<1>1. /\ phase = "closing" /\ phase' = "done" /\ Closes' = Closes
      /\ requests' = IF Closes THEN Append(requests, Request("delete", 0, None)) ELSE requests
      /\ UNCHANGED <<awaiting, next, session, initialized, docs, outcome>>
  BY DEF Close, Closes
<1>2. Attempted = n /\ n \in Nat /\ 0 \in Nat /\ "delete" \in Names
  BY <1>1 DEF Attempted, SessionInv, SessionTypeOK, Names
<1>3. /\ requests' \in Seq(Requests) /\ Attempted' = n
      /\ \A k \in 1..n : requests'[k] = requests[k]
      /\ Closes => /\ Len(requests') = n + 1
                   /\ requests'[n + 1].method = "delete" /\ requests'[n + 1].session = session
  <2>1. CASE Closes
    <3>1. /\ requests' \in Seq(Requests) /\ Len(requests') = n + 1
          /\ \A k \in 1..n : requests'[k] = requests[k]
          /\ requests'[n + 1] = Request("delete", 0, None)
      BY <1>1, <1>2, <2>1, Sending
    <3> QED
      BY <1>1, <1>2, <2>1, <3>1 DEF Attempted, Request
  <2>2. CASE ~Closes
    BY <1>1, <1>2, <2>2 DEF Attempted, SessionInv, SessionTypeOK
  <2> QED
    BY <2>1, <2>2
<1>4. SessionTypeOK'
  BY <1>1, <1>3 DEF SessionInv, SessionTypeOK, DocsAuthorised
<1>5. InPlace' /\ Asked' /\ Closed'
  BY <1>1, <1>2, <1>3 DEF SessionInv, InPlace, Asked, Closed
<1>6. InOrder' /\ InSession'
  BY <1>1, <1>2, <1>3 DEF SessionInv, InOrder, InSession
<1>7. Answered'
  <2>1. Len(docs) \in Nat
    BY DEF SessionInv, SessionTypeOK, DocsAuthorised
  <2>2. ASSUME NEW k \in 1..Len(docs)  PROVE  requests'[2 + k] = requests[2 + k]
    BY <1>2, <1>3, <2>1 DEF SessionInv, Answered
  <2> QED
    BY <1>1, <1>2, <1>3, <2>1, <2>2 DEF SessionInv, Answered
<1> QED
  BY <1>4, <1>5, <1>6, <1>7 DEF SessionInv

LEMMA AcquisitionStep ==
  ASSUME SessionInv, Client \/ Server
  PROVE  SessionInv'
<1>1. CASE CallFails
  BY <1>1, StepFailing DEF CallFails
<1>2. ASSUME NEW header \in Sessions \cup {None, BadSession}, HeadersRefused(header)
      PROVE  SessionInv'
  <2>1. phase \in {"initialize", "notify", "read"} /\ Failing
    BY <1>2 DEF HeadersRefused, SessionInv, SessionTypeOK, InPlace
  <2> QED
    BY <2>1, StepFailing
<1>3. ASSUME NEW id \in 0..next, Initialized(id)
      PROVE  SessionInv'
  BY <1>3, StepInitialized
<1>4. ASSUME NEW id \in 0..next, NEW uri \in ToSet(URIs), Document(id, uri)
      PROVE  SessionInv'
  BY <1>4, StepDocument
<1> QED
  BY <1>1, <1>2, <1>3, <1>4, StepInitialize, StepNotify, StepRead, StepClose, StepHeaders,
     StepNotified, StepServerNotifies DEF Client, Server

\* The documents become sources only when there are all of them and the session is closed.
FromAcquisition ==
  /\ configured # "mcp" => phase = "initialize"
  /\ \A d \in sources : d.name \in Remote => outcome = "documents" /\ phase = "done"

AcquisitionInv == SessionInv /\ FromAcquisition

LEMMA AcquisitionInvInit == CognitiveInit => AcquisitionInv
BY SessionInvInit DEF CognitiveInit, EvidenceInit, MCPInit, AcquisitionInv, FromAcquisition

LEMMA AcquisitionInvStep ==
  ASSUME AcquisitionInv, [CognitiveNext]_cognitiveVars
  PROVE  AcquisitionInv'
<1>1. ASSUME UNCHANGED sessionVars  PROVE SessionInv'
  <2>1. SessionInv
    BY DEF AcquisitionInv
  <2> QED
    BY <1>1, <2>1 DEF SessionInv, SessionTypeOK, DocsAuthorised, InPlace, InOrder, InSession, Asked,
              Answered, Closed, Attempted, Out, Wanted, Closes, sessionVars
<1>2. CASE Acquires(Client) \/ Acquires(Server)
  <2>1. /\ configured = "mcp" /\ phase # "done" /\ (Client \/ Server)
        /\ UNCHANGED <<configured, sources>>
    BY <1>2 DEF Acquires, Acquiring, evidenceVars
  <2>2. FromAcquisition'
    BY <2>1 DEF AcquisitionInv, FromAcquisition
  <2> QED
    BY <2>1, <2>2, AcquisitionStep DEF AcquisitionInv
<1>3. ASSUME UNCHANGED <<sessionVars, configured>>,
             \A d \in sources' : d \in sources \/ d.name \in Files
                                 \/ (outcome = "documents" /\ phase = "done")
      PROVE  AcquisitionInv'
  <2>1. FromAcquisition'
    BY <1>3, EvidenceAssumption DEF AcquisitionInv, FromAcquisition, sessionVars
  <2> QED
    BY <1>1, <1>3, <2>1 DEF AcquisitionInv
<1>4. CASE CollectsExcerpts
  <2>1. UNCHANGED <<sessionVars, configured>> /\ sources' \subseteq TextsOfStage
    BY <1>4 DEF CollectsExcerpts, Collect, CollectSources
  <2>2. \A d \in sources' : d.name \in Files
    BY <2>1, EvidenceAssumption DEF TextsOfStage
  <2> QED
    BY <1>3, <2>1, <2>2
<1>5. CASE CollectsRanked
  <2>1. /\ UNCHANGED <<sessionVars, configured>> /\ sources' \subseteq TextsOfStage \cup Acquired
        /\ configured # "mcp" \/ phase = "done"
    BY <1>5 DEF CollectsRanked, Collect, RetrieveSources, Acquiring, Collecting
  <2>2. outcome # "documents" => Acquired = {}
    BY DEF Acquired
  <2>3. outcome = "documents" => phase = "done"
    BY <2>1 DEF AcquisitionInv, FromAcquisition, SessionInv, InPlace
  <2>4. \A d \in TextsOfStage : d.name \in Files
    BY EvidenceAssumption DEF TextsOfStage
  <2>5. \A d \in sources' : d.name \in Files \/ (outcome = "documents" /\ phase = "done")
    BY <2>1, <2>2, <2>3, <2>4
  <2> QED
    BY <1>3, <2>1, <2>5
<1>6. CASE \/ AcquisitionFails \/ BeginsRanking \/ Rank \/ RankingCancelled \/ Otherwise
           \/ UNCHANGED cognitiveVars
  <2>1. UNCHANGED <<sessionVars, configured, sources>>
    BY <1>6 DEF AcquisitionFails, BeginsRanking, Rank, RankingCancelled, Otherwise, cognitiveVars,
                evidenceVars, Fails, EditWorkspace, ScriptEditsStage, Export, List, RunScript,
                ScriptEnds, CallModel, Accept
  <2> QED
    BY <1>3, <2>1
<1> QED
  BY <1>2, <1>4, <1>5, <1>6 DEF CognitiveNext

\* The inductive invariant of the acquisition (readMCP and retrieveSources).
THEOREM AcquisitionInvariance == CognitiveSpec => []AcquisitionInv
BY AcquisitionInvInit, AcquisitionInvStep, PTL DEF CognitiveSpec

\* What the attempt has sent, index by index, as the prefixes and sets of the property.
LEMMA AcquisitionIsKept == AcquisitionInv => AcquisitionKept
<1> SUFFICES ASSUME AcquisitionInv  PROVE AcquisitionKept
  OBVIOUS
<1> DEFINE n == Len(requests)
<1>1. SessionInv
  BY DEF AcquisitionInv
<1>2. requests \in Seq(Requests) /\ n \in Nat /\ DOMAIN requests = 1..n
  BY <1>1 DEF SessionInv, SessionTypeOK
<1>3. \A k \in 1..n : requests[k] \in Requests
  BY <1>2
<1>4. /\ Methods \in Seq(Names) /\ Len(Methods) = n
      /\ \A k \in 1..n : Methods[k] = requests[k].method
  <2>1. \A k \in 1..n : requests[k].method \in Names
    BY <1>3 DEF Requests
  <2>2. Methods \in [1..n -> Names] /\ \A k \in 1..n : Methods[k] = requests[k].method
    BY <1>2, <2>1 DEF Methods
  <2> QED
    BY <1>2, <2>2
<1>5. Attempted \in Nat /\ Attempted <= 2 + Len(URIs)
  BY <1>1, ProfileShape DEF SessionInv, InOrder
<1>6. AttemptIsBounded
  <2>1. CASE phase = "done" /\ Closes
    <3>1. n = Attempted + 1 /\ Methods # <<>> /\ Last(Methods) = "delete"
      BY <1>1, <1>2, <1>4, <1>5, <2>1 DEF Attempted, SessionInv, Closed, Last
    <3>2. /\ Front(Methods) \in Seq(Names) /\ Len(Front(Methods)) = Attempted
          /\ \A k \in 1..Attempted : Front(Methods)[k] = Methods[k]
      BY <1>4, <1>5, <3>1 DEF Front
    <3>3. \A k \in 1..Attempted : Front(Methods)[k] = Profile[k]
      BY <1>1, <1>4, <1>5, <3>1, <3>2 DEF SessionInv, InOrder
    <3>4. IsPrefix(Front(Methods), Profile)
      BY <1>5, <3>2, <3>3, PrefixByIndex, ProfileShape
    <3> QED
      BY <3>1, <3>4 DEF AttemptIsBounded
  <2>2. CASE ~(phase = "done" /\ Closes)
    <3>1. n = Attempted
      BY <2>2 DEF Attempted
    <3>2. \A k \in 1..n : Methods[k] = Profile[k]
      BY <1>1, <1>4, <3>1 DEF SessionInv, InOrder
    <3>3. IsPrefix(Methods, Profile)
      BY <1>4, <1>5, <3>1, <3>2, PrefixByIndex, ProfileShape
    <3> QED
      BY <3>3 DEF AttemptIsBounded
  <2> QED
    BY <2>1, <2>2
<1>7. OneSession
  <2>1. ASSUME NEW k \in 1..n
        PROVE  /\ requests[k].session = IF k = 1 THEN None ELSE session
               /\ requests[k].method \in {"initialized", "read"} => requests[k].version = TRUE
    <3>1. CASE k <= Attempted
      <4>1. k \in 1..Attempted
        BY <1>5, <3>1
      <4>2. requests[k].method = Profile[k] /\ Profile[1] = "initialize"
        BY <1>1, <4>1, ProfileShape DEF SessionInv, InOrder
      <4>3. /\ requests[k].session = IF k = 1 THEN None ELSE session
            /\ k > 1 => requests[k].version = TRUE
        BY <1>1, <4>1 DEF SessionInv, InSession
      <4>4. k = 1 => requests[k].method = "initialize"
        BY <4>2
      <4>5. k = 1 \/ k > 1
        OBVIOUS
      <4> QED
        BY <4>3, <4>4, <4>5, Zenon
    <3>2. CASE k > Attempted
      <4>1. phase = "done" /\ Closes /\ n = Attempted + 1 /\ k = n
        <5>1. ~(phase = "done" /\ Closes) => Attempted = n
          BY DEF Attempted
        <5>2. phase = "done" /\ Closes => Attempted = n - 1
          BY DEF Attempted
        <5>3. k <= n /\ n \in Nat /\ k \in Nat
          BY <1>2
        <5> QED
          BY <1>5, <3>2, <5>1, <5>2, <5>3
      <4>2. k > 1
        BY <1>1, <1>5, <4>1 DEF SessionInv, InOrder, Closes
      <4>3. requests[k].session = session /\ requests[k].method = "delete"
        BY <1>1, <4>1 DEF SessionInv, Closed
      <4> QED
        BY <4>2, <4>3
    <3>3. k <= Attempted \/ k > Attempted
      BY <1>5
    <3> QED
      BY <3>1, <3>2, <3>3, Zenon
  <2> QED
    BY <1>2, <2>1, Zenon DEF OneSession
<1>8. AcceptedSessionClosed
  <2> SUFFICES ASSUME phase = "done"
               PROVE  session # None <=>
                        /\ requests # <<>>
                        /\ Last(requests).method = "delete" /\ Last(requests).session = session
    BY DEF AcceptedSessionClosed
  <2>1. CASE session # None
    <3>1. n > 0 /\ requests[n].method = "delete" /\ requests[n].session = session
      BY <1>1, <2>1 DEF SessionInv, Closed, Closes
    <3> QED
      BY <1>2, <2>1, <3>1 DEF Last
  <2>2. CASE session = None
    <3> SUFFICES ASSUME requests # <<>>, Last(requests).method = "delete"  PROVE FALSE
      BY <2>2
    <3>1. n = Attempted /\ n >= 1
      BY <1>2, <2>2 DEF Attempted, Closes
    <3>2. Profile[n] = "delete"
      BY <1>1, <1>2, <3>1 DEF SessionInv, InOrder, Last
    <3>3. n = 1 \/ n = 2 \/ n \in 3..2 + Len(URIs)
      BY <1>2, <1>5, <3>1, ProfileShape
    <3> QED
      BY <3>2, <3>3, ProfileShape
  <2> QED
    BY <2>1, <2>2
<1>9. DocumentsComplete
  <2> SUFFICES ASSUME outcome = "documents"
               PROVE  /\ [k \in DOMAIN docs |-> docs[k].uri] = URIs
                      /\ \A k \in DOMAIN docs : \E r \in ToSet(requests) :
                           r.method = "read" /\ r.id = docs[k].id /\ r.uri = docs[k].uri
    BY DEF DocumentsComplete
  <2>1. Len(docs) = Len(URIs) /\ DOMAIN docs = 1..Len(docs) /\ Len(docs) \in Nat
    BY <1>1 DEF SessionInv, SessionTypeOK, DocsAuthorised, Answered
  <2>2. URIs \in Seq(ToSet(URIs))
    BY MCPAssumption
  <2>3. [k \in DOMAIN docs |-> docs[k].uri] = URIs
    BY <1>1, <2>1, <2>2 DEF SessionInv, Answered
  <2>4. ASSUME NEW k \in DOMAIN docs
        PROVE  \E r \in ToSet(requests) :
                 r.method = "read" /\ r.id = docs[k].id /\ r.uri = docs[k].uri
    <3>1. k \in 1..Len(docs) /\ 2 + k \in 1..Attempted /\ Attempted <= n
      BY <1>1, <1>2, <1>5, <2>1 DEF SessionInv, Answered, Attempted
    <3>2. /\ requests[2 + k].id = docs[k].id /\ requests[2 + k].uri = docs[k].uri
          /\ requests[2 + k].method = Profile[2 + k]
      BY <1>1, <3>1 DEF SessionInv, Answered, InOrder
    <3>3. Profile[2 + k] = "read"
      BY <2>1, <3>1, ProfileShape
    <3>4. requests[2 + k] \in ToSet(requests)
      BY <1>2, <1>5, <3>1 DEF ToSet
    <3> QED
      BY <3>2, <3>3, <3>4
  <2> QED
    BY <2>3, <2>4
<1> QED
  BY <1>6, <1>7, <1>8, <1>9 DEF AcquisitionInv, FromAcquisition, AcquisitionKept

\* Whatever the server answers and whichever call fails, an acquisition is one bounded attempt
\* in one session, which is closed; it returns all the documents or none, and only a complete
\* and closed one yields sources (readMCP, post, callMCP, close, retrieveSources).
THEOREM AcquisitionIsWhole == CognitiveSpec => []AcquisitionKept
BY AcquisitionInvariance, AcquisitionIsKept, PTL

-----------------------------------------------------------------------------
(* The ranking: texts, by induction over their characters.                 *)

\* Induction in the form of minimal counterexamples, which needs no operator parameter.
LEMMA MinNat ==
  ASSUME NEW S \in SUBSET Nat, S # {}
  PROVE \E m \in S : \A k \in S : m <= k
<1> DEFINE R == OpToRel(<, Nat)
<1>1. IsWellFoundedOn(R, Nat)
  BY NatLessThanWellFounded
<1>2. R = {ss \in Nat \X Nat : ss[1] < ss[2]}
  BY DEF OpToRel
<1> HIDE DEF R
<1>3. PICK x \in S : \A y \in S : ~(<<y,x>> \in R)
  BY <1>1, WFMin
<1>4. \A y \in S : ~ (y < x)
  BY <1>2, <1>3
<1> QED
  BY <1>4

LEMMA MaxNat ==
  ASSUME NEW n \in Nat, NEW S \in SUBSET (0..n), S # {}
  PROVE \E m \in S : \A k \in S : k <= m
<1> DEFINE T == {n - k : k \in S}
<1>1. T \in SUBSET Nat /\ T # {}
  <2>1. \A k \in S : n - k \in Nat
    OBVIOUS
  <2>2. PICK k \in S : TRUE
    OBVIOUS
  <2>3. n - k \in T
    OBVIOUS
  <2> QED
    BY <2>1, <2>3
<1>2. PICK m \in T : \A k \in T : m <= k
  <2> HIDE DEF T
  <2> QED
    BY <1>1, MinNat
<1>3. PICK e \in S : m = n - e
  BY <1>2
<1>4. ASSUME NEW k \in S PROVE k <= e
  <2>1. m <= n - k
   BY <1>2
  <2> QED
    BY <2>1, <1>3
<1> QED
  BY <1>4

\* FlattenSeq is what its recursive definition says.
LEMMA FlattenDef ==
  ASSUME NEW seqs, NEW n \in Nat, n = Len(seqs), n > 0
  PROVE \E f : /\ f = [i \in 1..n |-> IF i = 1 THEN seqs[i] ELSE f[i-1] \o seqs[i]]
               /\ FlattenSeq(seqs) = f[n]
<1> DEFINE flatten[i \in 1..Len(seqs)] == IF i = 1 THEN seqs[i] ELSE flatten[i-1] \o seqs[i]
           Def(f,m) == f = [i \in 1..m |-> IF i = 1 THEN seqs[i] ELSE f[i-1] \o seqs[i]]
<1>1. FlattenSeq(seqs) = flatten[n]
  BY DEF FlattenSeq
<1>2. \E f : Def(f,n)
  <2> DEFINE Bad == {m \in Nat : ~ \E f : Def(f,m)}
  <2>1. SUFFICES ASSUME Bad # {} PROVE FALSE
    <3> HIDE DEF Def
    <3> QED
      OBVIOUS
  <2>2. PICK m \in Bad : \A k \in Bad : m <= k
    <3> HIDE DEF Bad
    <3>1. Bad \in SUBSET Nat BY DEF Bad
    <3> QED
      BY <2>1, <3>1, MinNat
  <2>3. CASE m = 0
    <3>1. Def([i \in 1..0 |-> 0], 0)
       OBVIOUS
    <3> QED
      BY <2>3, <3>1
  <2>4. CASE m # 0
    <3>1. m-1 \in Nat /\ m \in Nat /\ ~(m <= m-1)
       BY <2>4
    <3>2. PICK g : Def(g,m-1)
       BY <3>1, <2>2
    <3> DEFINE last == IF m = 1 THEN seqs[m] ELSE g[m - 1] \o seqs[m]
               h == [i \in 1..m |-> IF i = m THEN last ELSE g[i]]
    <3>3. Def(h,m)
      <4>1. ASSUME NEW i \in 1..m PROVE h[i] = IF i = 1 THEN seqs[i] ELSE h[i-1] \o seqs[i]
        <5>1. i \in 1..m-1 => g[i] = IF i = 1 THEN seqs[i] ELSE g[i-1] \o seqs[i]
          BY <3>1, <3>2
        <5>2. i \in 1..m-1 \/ i = m
          BY <3>1
        <5>3. i # 1 => i-1 \in 1..m-1 /\ i-1 # m
          BY <3>1
        <5> QED
          BY <5>1, <5>2, <5>3
      <4> QED
        BY <4>1
    <3> QED
      BY <3>3, <2>2
  <2> QED
    BY <2>3, <2>4
<1>3. Def(flatten, n)
  BY <1>2
<1> QED
  BY <1>1, <1>3

Bytes == {"a", "-", "w", "."}

\* A text: every byte belongs to a character that begins less than Width bytes before it.
Regular(t) ==
  /\ t \in Seq(Bytes) /\ Len(t) > 0
  /\ \A j \in 1..Len(t) : \E k \in 1..j : j - k < Width /\ t[k] # "."

LEMMA ChunkConstants ==
  /\ Size \in Nat /\ Overlap \in Nat /\ Width \in Nat /\ Width > 0
  /\ Size >= 2 * Overlap /\ Overlap >= Width
BY ChunkAssumption

LEMMA RuneRegular == ASSUME NEW r \in Runes PROVE Regular(r)
<1>0. Width \in Nat /\ Width > 0
  BY ChunkConstants
<1>1. CASE r = <<"a">>
  BY <1>0, <1>1 DEF Regular, Bytes
<1>2. CASE r = <<"-">>
  <2>1. r \in Seq(Bytes) /\ Len(r) = 1 /\ r[1] = "-" /\ "-" # "."
    BY <1>2 DEF Bytes
  <2> QED
    BY <1>0, <2>1 DEF Regular
<1>3. CASE r = Wide
  <2> DEFINE rest == [i \in 1..Width - 1 |-> "."]
  <2>1. rest \in Seq(Bytes) /\ Len(rest) = Width - 1
    <3>1. rest \in [1..Width-1 -> Bytes] /\ Width - 1 \in Nat
      BY <1>0 DEF Bytes
    <3> HIDE DEF rest
    <3> QED
      BY <3>1
  <2>2. <<"w">> \in Seq(Bytes) /\ Len(<<"w">>) = 1 /\ <<"w">>[1] = "w"
    BY DEF Bytes
  <2>3. r = <<"w">> \o rest
    BY <1>3 DEF Wide
  <2> HIDE DEF rest
  <2>4. r \in Seq(Bytes) /\ Len(r) = Width /\ r[1] = "w"
    BY <1>0, <2>1, <2>2, <2>3
  <2>5. ASSUME NEW j \in 1..Len(r) PROVE j - 1 < Width /\ 1 \in 1..j
    BY <2>4, <1>0
  <2> QED
    BY <1>0, <2>4, <2>5 DEF Regular
<1> QED
  BY <1>1, <1>2, <1>3 DEF Runes

\* Characters after characters are characters.
LEMMA ConcatRegular ==
  ASSUME NEW s, NEW t, Regular(s), Regular(t)
  PROVE  Regular(s \o t)
<1>1. s \in Seq(Bytes) /\ t \in Seq(Bytes) /\ Len(s) \in Nat /\ Len(t) \in Nat /\ Len(s) > 0
  BY DEF Regular
<1>2. /\ s \o t \in Seq(Bytes) /\ Len(s \o t) = Len(s) + Len(t)
      /\ \A k \in 1..Len(s) + Len(t) :
              (s \o t)[k] = IF k <= Len(s) THEN s[k] ELSE t[k - Len(s)]
  BY <1>1
<1>3. ASSUME NEW j \in 1..Len(s) + Len(t)
      PROVE  \E k \in 1..j : j - k < Width /\ (s \o t)[k] # "."
  <2>1. CASE j <= Len(s)
    <3>1. PICK k \in 1..j : j - k < Width /\ s[k] # "."
      BY <1>1, <2>1 DEF Regular
    <3> QED
      BY <1>1, <1>2, <2>1, <3>1
  <2>2. CASE j > Len(s)
    <3>0. j - Len(s) \in 1..Len(t)
      BY <1>1, <2>2
    <3>1. PICK k \in 1..j - Len(s) : (j - Len(s)) - k < Width /\ t[k] # "."
      BY <3>0 DEF Regular
    <3>2. k + Len(s) \in 1..j /\ j - (k + Len(s)) < Width /\ (s \o t)[k + Len(s)] # "."
      BY <1>1, <1>2, <2>2, <3>0, <3>1, ChunkConstants
    <3> QED
      BY <3>2
  <2> QED
    BY <1>1, <2>1, <2>2
<1> DEFINE u == s \o t
<1> HIDE DEF u
<1>4. u \in Seq(Bytes) /\ Len(u) = Len(s) + Len(t) /\ Len(u) > 0
  BY <1>1, <1>2 DEF u
<1>5. ASSUME NEW j \in 1..Len(u)  PROVE  \E k \in 1..j : j - k < Width /\ u[k] # "."
  BY <1>3, <1>4 DEF u
<1>6. Regular(u)
  BY <1>4, <1>5 DEF Regular
<1> QED
  BY <1>6 DEF u

\* Every document is a text, however many characters it has.
LEMMA TextsRegular == ASSUME NEW t \in Texts PROVE Regular(t)
<1>1. PICK runes \in SeqOf(Runes, MaxRunes) \ {<<>>} : t = FlattenSeq(runes)
  BY DEF Texts
<1>2. PICK n \in Nat : runes \in [1..n -> Runes]
  BY <1>1, ChunkAssumption DEF SeqOf
<1>3. Len(runes) = n /\ n > 0
  BY <1>1, <1>2
<1>4. PICK f : /\ f = [i \in 1..n |-> IF i = 1 THEN runes[i] ELSE f[i-1] \o runes[i]]
               /\ FlattenSeq(runes) = f[n]
  BY <1>3, FlattenDef
<1> DEFINE Bad == {i \in 1..n : ~Regular(f[i])}
<1>5. ASSUME Bad # {} PROVE FALSE
  <2>1. PICK m \in Bad : \A k \in Bad : m <= k
    <3>1. Bad \in SUBSET Nat
      OBVIOUS
    <3> HIDE DEF Bad
    <3> QED
      BY <1>5, <3>1, MinNat
  <2>2. CASE m = 1
    <3>1. f[m] = runes[1] /\ runes[1] \in Runes
      BY <1>2, <1>3, <1>4, <2>2
    <3> QED
      BY <3>1, RuneRegular
  <2>3. CASE m # 1
    <3>1. m - 1 \in 1..n /\ m \in 1..n /\ ~(m <= m - 1)
      BY <2>3
    <3>2. Regular(f[m - 1])
      BY <2>1, <3>1
    <3>3. Regular(runes[m])
      BY <1>2, <3>1, RuneRegular
    <3>4. f[m] = f[m - 1] \o runes[m]
      BY <1>4, <2>3, <3>1
    <3> QED
      BY <3>2, <3>3, <3>4, ConcatRegular
  <2> QED
    BY <2>2, <2>3
<1>6. Regular(f[n])
  BY <1>3, <1>5
<1> QED
  BY <1>1, <1>4, <1>6

-----------------------------------------------------------------------------
(* Where chunks begin and end.                                             *)

\* A boundary is never further than the widest character, before or after.
LEMMA BoundaryBehind ==
  ASSUME Regular(text), NEW i \in 0..Len(text)
  PROVE  \E k \in 0..i : i - k < Width /\ Boundary(k)
<1>1. CASE i = Len(text)
  BY <1>1, ChunkConstants DEF Boundary
<1>2. CASE i < Len(text)
  <2>1. i + 1 \in 1..Len(text)
    BY <1>2
  <2>2. PICK k \in 1..i + 1 : (i + 1) - k < Width /\ text[k] # "."
    BY <2>1 DEF Regular
  <2>3. k - 1 \in 0..i /\ i - (k - 1) < Width /\ (k - 1) + 1 = k
    BY <2>2, ChunkConstants
  <2> QED
    BY <2>2, <2>3 DEF Boundary, RuneStart
<1> QED
  BY <1>1, <1>2

LEMMA BoundaryAhead ==
  ASSUME Regular(text), NEW i \in 0..Len(text)
  PROVE  \E k \in i..Len(text) : k < i + Width /\ Boundary(k)
<1>0. Len(text) \in Nat
  BY DEF Regular
<1>1. CASE i + Width > Len(text)
  BY <1>0, <1>1, ChunkConstants DEF Boundary
<1>2. CASE i + Width <= Len(text)
  <2>1. i + Width \in 1..Len(text)
    BY <1>0, <1>2, ChunkConstants
  <2>2. PICK k \in 1..i + Width : (i + Width) - k < Width /\ text[k] # "."
    BY <2>1 DEF Regular
  <2>3. k - 1 \in i..Len(text) /\ k - 1 < i + Width /\ (k - 1) + 1 = k
    BY <1>0, <1>2, <2>2, ChunkConstants
  <2> QED
    BY <2>2, <2>3 DEF Boundary, RuneStart
<1> QED
  BY <1>0, <1>1, <1>2, ChunkConstants

\* A chunk ends at a boundary, and unless it is the last more than an overlap after its start.
LEMMA ChunkEndShape ==
  ASSUME Regular(text), NEW from \in Nat, from < Len(text)
  PROVE  /\ ChunkEnd(from) \in from + 1..Len(text) /\ Boundary(ChunkEnd(from))
         /\ ChunkEnd(from) <= from + Size
         /\ ChunkEnd(from) # Len(text) => ChunkEnd(from) > from + Overlap
<1> DEFINE limit == IF from + Size > Len(text) THEN Len(text) ELSE from + Size
           Ends(e) == Boundary(e) /\ \A k \in e + 1..limit : ~Boundary(k)
           S == {e \in 0..limit : Boundary(e)}
<1>0. Len(text) \in Nat
  BY DEF Regular
<1>1. limit \in 0..Len(text) /\ limit > from /\ limit <= from + Size
  BY <1>0, ChunkConstants
<1>2. PICK b \in 0..limit : limit - b < Width /\ Boundary(b)
  <2> HIDE DEF limit
  <2> QED
    BY <1>1, BoundaryBehind
<1>3. \E e \in 0..limit : Ends(e)
  <2>1. S \in SUBSET (0..limit) /\ S # {}
    BY <1>2
  <2>2. PICK m \in S : \A k \in S : k <= m
    <3>1. limit \in Nat
      BY <1>0, <1>1
    <3> HIDE DEF S, limit
    <3> QED
      BY <2>1, <3>1, MaxNat
  <2>3. ASSUME NEW k \in m + 1..limit  PROVE ~Boundary(k)
    <3> HIDE DEF limit
    <3> QED
      BY <1>0, <1>1, <2>2, <2>3
  <2> QED
    BY <2>2, <2>3
<1>4. ChunkEnd(from) = CHOOSE e \in 0..limit : Ends(e)
  BY DEF ChunkEnd
<1> DEFINE end == ChunkEnd(from)
<1>5. end \in 0..limit /\ Ends(end)
  <2> HIDE DEF limit, Ends
  <2> QED
    BY <1>3, <1>4
<1> HIDE DEF end
<1>6. end >= b
  <2> SUFFICES ASSUME end < b  PROVE FALSE
    BY <1>0, <1>1, <1>5
  <2>1. b \in end + 1..limit
    BY <1>0, <1>1, <1>2, <1>5
  <2> QED
    BY <1>2, <1>5, <2>1
<1>7. limit = Len(text) => end = Len(text)
  <2> SUFFICES ASSUME limit = Len(text), end # Len(text)  PROVE FALSE
    OBVIOUS
  <2>1. limit \in end + 1..limit
    BY <1>0, <1>1, <1>5
  <2> QED
    BY <1>5, <2>1 DEF Boundary
<1>8. limit # Len(text) => limit = from + Size
  OBVIOUS
<1>9. limit # Len(text) => end > from + Overlap
  <2> HIDE DEF limit
  <2> QED
    BY <1>0, <1>1, <1>2, <1>5, <1>6, <1>8, ChunkConstants
<1>10. end > from
  <2> HIDE DEF limit
  <2> QED
    BY <1>0, <1>1, <1>5, <1>7, <1>9, ChunkConstants
<1> QED
  <2>1. /\ end \in from + 1..Len(text) /\ Boundary(end) /\ end <= from + Size
        /\ end # Len(text) => end > from + Overlap
    <3> HIDE DEF limit
    <3>1. Boundary(end)
      BY <1>5
    <3> QED
      BY <1>0, <1>1, <1>5, <1>7, <1>9, <1>10, <3>1, ChunkConstants
  <2> QED
    BY <2>1 DEF end

\* The next chunk begins at a character, less than its width after the overlap's beginning.
LEMMA NextStartShape ==
  ASSUME Regular(text), NEW end \in Nat, end > Overlap, end < Len(text), Boundary(end)
  PROVE  /\ NextStart(end) \in end - Overlap..end /\ Boundary(NextStart(end))
         /\ NextStart(end) < end - Overlap + Width
<1> DEFINE first == end - Overlap
           Starts(s) == /\ s = end \/ RuneStart(s)
                        /\ \A k \in first..s - 1 : ~RuneStart(k)
           S == {s \in first..end : s = end \/ RuneStart(s)}
<1>0. /\ Len(text) \in Nat /\ first \in Nat /\ first <= end /\ first \in 0..Len(text)
      /\ first + Width <= end
  BY ChunkConstants DEF Regular
<1>1. PICK b \in first..Len(text) : b < first + Width /\ Boundary(b)
  <2> HIDE DEF first
  <2> QED
    BY <1>0, BoundaryAhead
<1>2. b \in first..end - 1 /\ RuneStart(b) /\ b \in Nat
  <2> HIDE DEF first
  <2> QED
    BY <1>0, <1>1, ChunkConstants DEF Boundary
<1>3. \E s \in first..end : Starts(s)
  <2>1. S \in SUBSET Nat /\ S # {}
    BY <1>0, <1>2
  <2>2. PICK m \in S : \A k \in S : m <= k
    <3> HIDE DEF S
    <3> QED
      BY <2>1, MinNat
  <2>3. ASSUME NEW k \in first..m - 1  PROVE ~RuneStart(k)
    <3>1. k \in first..end /\ ~(m <= k)
      BY <1>0, <2>2
    <3> QED
      BY <2>2, <3>1
  <2> QED
    BY <2>2, <2>3
<1>4. NextStart(end) = CHOOSE s \in first..end : Starts(s)
  BY DEF NextStart
<1> DEFINE next0 == NextStart(end)
<1>5. next0 \in first..end /\ Starts(next0)
  <2> HIDE DEF first, Starts
  <2> QED
    BY <1>3, <1>4
<1> HIDE DEF next0
<1>6. next0 <= b
  <2> SUFFICES ASSUME next0 > b  PROVE FALSE
    BY <1>0, <1>2, <1>5
  <2>1. b \in first..next0 - 1
    BY <1>0, <1>2, <1>5
  <2> QED
    BY <1>2, <1>5, <2>1
<1>7. RuneStart(next0)
  <2>1. next0 # end
    BY <1>0, <1>2, <1>5, <1>6
  <2> QED
    BY <1>5, <2>1
<1> QED
  <2>1. next0 \in end - Overlap..end /\ Boundary(next0) /\ next0 < end - Overlap + Width
    BY <1>0, <1>1, <1>2, <1>5, <1>6, <1>7, ChunkConstants DEF Boundary
  <2> QED
    BY <2>1 DEF next0

-----------------------------------------------------------------------------
(* No word is lost between two chunks.                                     *)

\* The bytes from a up to b are a word of the document.
Word(a, b) ==
  /\ a < b /\ \A k \in a + 1..b : text[k] # "-"
  /\ a = 0 \/ text[a] = "-"
  /\ b = Len(text) \/ text[b + 1] = "-"

\* The longest word that the overlap is sure to keep whole.
Longest == Overlap - Width + 2

\* The words that begin before the next chunk are terms of a candidate.
Covered ==
  \A a, b \in 0..Len(text) :
    Word(a, b) /\ b - a <= Longest /\ a < start =>
      \E c \in candidates : SubSeq(text, a + 1, b) \in Terms(c[1], c[2])

Chunks ==
  \A c \in candidates :
    /\ c[1] \in 0..Len(text) /\ c[2] \in 0..Len(text)
    /\ c[1] < c[2] /\ c[2] - c[1] <= Size
    /\ Boundary(c[1]) /\ Boundary(c[2])

RankingInv ==
  /\ text = <<>> => start = 0 /\ candidates = {} /\ ranking = "none"
  /\ text # <<>> => 
       /\ Regular(text) /\ start \in 0..Len(text) /\ Boundary(start)
       /\ Chunks /\ Covered
  /\ ranking \in {"no_sources", "no_match"} =>
       text # <<>> /\ start = Len(text) /\ Matching = {}

\* A word that a chunk holds whole is one of its terms.
LEMMA WordIsTerm ==
  ASSUME Len(text) \in Nat, NEW i \in Nat, NEW j \in 0..Len(text),
         NEW a \in i..j, NEW b \in i..j, Word(a, b)
  PROVE  SubSeq(text, a + 1, b) \in Terms(i, j)
<1> DEFINE Spans ==
             {s \in (i..j) \X (i..j) :
                /\ s[1] < s[2] /\ \A k \in s[1] + 1..s[2] : text[k] # "-"
                /\ s[1] = i \/ text[s[1]] = "-"
                /\ s[2] = j \/ text[s[2] + 1] = "-"}
           span == <<a, b>>
<1>1. span \in Spans
  <2>1. a = i \/ text[a] = "-"
    BY DEF Word
  <2>2. b = j \/ text[b + 1] = "-"
    BY DEF Word
  <2> QED
    BY <2>1, <2>2 DEF Word
<1>2. SubSeq(text, a + 1, b) = SubSeq(text, span[1] + 1, span[2])
  OBVIOUS
<1>3. Terms(i, j) = {SubSeq(text, s[1] + 1, s[2]) : s \in Spans}
  BY DEF Terms
<1> HIDE DEF Spans, span
<1> QED
  BY <1>1, <1>2, <1>3

\* A term of the whole document is a word.
LEMMA TermIsWord ==
  ASSUME Len(text) \in Nat, NEW word \in Terms(0, Len(text))
  PROVE  \E a, b \in 0..Len(text) : Word(a, b) /\ word = SubSeq(text, a + 1, b)
BY DEF Word, Terms

LEMMA RankingCut ==
  ASSUME RankingInv, Cut
  PROVE  RankingInv'
<1> DEFINE end == ChunkEnd(start)
           chunk == <<start, end>>
           found == IF Terms(start, end) = {} THEN candidates ELSE candidates \cup {chunk}
<1>1. /\ ranking = "none" /\ start < Len(text) /\ candidates' = found
      /\ ranking' \in {"too_many", "none"}
      /\ start' = IF LastChunk(end) THEN Len(text) ELSE NextStart(end)
      /\ text' = text
  BY DEF Cut
<1>2. text # <<>>
  BY <1>1 DEF RankingInv
<1>3. /\ Regular(text) /\ start \in Nat /\ Boundary(start) /\ Chunks /\ Covered
      /\ Len(text) \in Nat
  BY <1>1, <1>2 DEF RankingInv, Regular
<1>4. \A i : Boundary(i)' <=> Boundary(i)
  BY <1>1 DEF Boundary, RuneStart
<1>5. \A i, j : Terms(i, j)' = Terms(i, j)
  BY <1>1 DEF Terms
<1>6. \A a, b : Word(a, b)' <=> Word(a, b)
  BY <1>1 DEF Word
<1>7. /\ end \in start + 1..Len(text) /\ Boundary(end) /\ end <= start + Size
      /\ end # Len(text) => end > start + Overlap
  BY <1>1, <1>3, ChunkEndShape
<1> HIDE DEF end
<1>8. end # Len(text) =>
        /\ start' \in end - Overlap..end /\ Boundary(start') /\ start' < end - Overlap + Width
  <2> SUFFICES ASSUME end # Len(text)
               PROVE  /\ start' \in end - Overlap..end /\ Boundary(start')
                      /\ start' < end - Overlap + Width
    OBVIOUS
  <2>1. end \in Nat /\ end > Overlap /\ end < Len(text) /\ start' = NextStart(end)
    BY <1>1, <1>3, <1>7, ChunkConstants DEF LastChunk
  <2> QED
    BY <1>3, <1>7, <2>1, NextStartShape
<1>9. start' \in 0..Len(text) /\ Boundary(start') /\ (end = Len(text) => start' = Len(text))
  <2>1. CASE end = Len(text)
    BY <1>1, <1>3, <2>1 DEF LastChunk, Boundary
  <2>2. CASE end # Len(text)
    BY <1>3, <1>7, <1>8, <2>2, ChunkConstants
  <2> QED
    BY <2>1, <2>2
<1>10. \A c \in candidates : c \in candidates'
  BY <1>1
<1>11. Chunks'
  <2>1. ASSUME NEW c \in candidates'
        PROVE  /\ c[1] \in 0..Len(text) /\ c[2] \in 0..Len(text)
               /\ c[1] < c[2] /\ c[2] - c[1] <= Size
               /\ Boundary(c[1]) /\ Boundary(c[2])
    <3>1. CASE c \in candidates
      BY <1>3, <3>1 DEF Chunks
    <3>2. CASE c = chunk
      <4>1. c[1] = start /\ c[2] = end
        BY <3>2
      <4>2. Boundary(c[1]) /\ Boundary(c[2])
        BY <1>3, <1>7, <4>1
      <4> QED
        BY <1>1, <1>3, <1>7, <4>1, <4>2, ChunkConstants
    <3> QED
      BY <1>1, <2>1, <3>1, <3>2
  <2> QED
    BY <1>1, <1>4, <2>1 DEF Chunks
<1>12. Covered'
  <2>1. ASSUME NEW a \in 0..Len(text), NEW b \in 0..Len(text),
               Word(a, b), b - a <= Longest, a < start'
        PROVE  \E c \in candidates' : SubSeq(text, a + 1, b) \in Terms(c[1], c[2])
    <3>1. CASE a < start
      <4>1. PICK c \in candidates : SubSeq(text, a + 1, b) \in Terms(c[1], c[2])
        BY <1>3, <2>1, <3>1 DEF Covered
      <4> QED
        BY <1>10, <4>1
    <3>2. CASE a >= start
      <4>1. b <= end
        <5>1. CASE end = Len(text)
          BY <1>3, <5>1
        <5>2. CASE end # Len(text)
          BY <1>3, <1>7, <1>8, <2>1, <5>2, ChunkConstants DEF Longest
        <5> QED
          BY <5>1, <5>2
      <4>2. /\ end \in 0..Len(text) /\ a \in start..end /\ b \in start..end
        BY <1>3, <1>7, <2>1, <3>2, <4>1 DEF Word
      <4>3. SubSeq(text, a + 1, b) \in Terms(start, end)
        BY <1>3, <2>1, <4>2, WordIsTerm
      <4>4. chunk \in candidates' /\ chunk[1] = start /\ chunk[2] = end
        BY <1>1, <4>3
      <4> QED
        <5> HIDE DEF chunk
        <5> QED
          BY <4>3, <4>4
    <3> QED
      BY <1>3, <3>1, <3>2
  <2> QED
    BY <1>1, <1>5, <1>6, <2>1 DEF Covered, Longest
<1> QED
  BY <1>1, <1>2, <1>3, <1>4, <1>9, <1>11, <1>12 DEF RankingInv

\* What does not change the document or its chunks keeps them; a failure has looked at all.
LEMMA RankingKeeps ==
  ASSUME RankingInv, UNCHANGED <<text, start, candidates>>, ranking' # "none" => text # <<>>,
         ranking' \in {"no_sources", "no_match"} =>
           text # <<>> /\ start = Len(text) /\ Matching = {}
  PROVE  RankingInv'
<1>1. \A i : Boundary(i)' <=> Boundary(i)
  BY DEF Boundary, RuneStart
<1>2. \A i, j : Terms(i, j)' = Terms(i, j)
  BY DEF Terms
<1>3. \A a, b : Word(a, b)' <=> Word(a, b)
  BY DEF Word
<1>4. Chunks' <=> Chunks
  BY <1>1 DEF Chunks
<1>5. Covered' <=> Covered
  BY <1>2, <1>3 DEF Covered
<1>6. Matching' = Matching
  BY <1>2 DEF Matching, Matches
<1> QED
  BY <1>1, <1>4, <1>5, <1>6 DEF RankingInv

LEMMA RankingFails ==
  ASSUME RankingInv, Fail
  PROVE  RankingInv'
<1>1. Matching = {}
  BY DEF Fail, Matching
<1> QED
  BY <1>1, RankingKeeps DEF Fail

LEMMA RankingSelects ==
  ASSUME RankingInv, Select \/ Cancelled
  PROVE  RankingInv'
<1>1. /\ UNCHANGED <<text, start, candidates>> /\ ranking' \in {"selected", "cancelled"}
  BY DEF Select, Cancelled
<1>2. text # <<>>
  <2>1. CASE Select
    BY <2>1 DEF Select
  <2>2. CASE Cancelled
    BY <2>2 DEF Cancelled, RankingInv
  <2> QED
    BY <2>1, <2>2
<1> QED
  BY <1>1, <1>2, RankingKeeps

LEMMA RankingUnchanged ==
  ASSUME RankingInv, UNCHANGED retrievalVars
  PROVE  RankingInv'
BY RankingKeeps DEF RankingInv, retrievalVars

\* A document is ranked from its beginning, with nothing left of the one before.
LEMMA RankingBegins ==
  ASSUME RankingInv, Ranks
  PROVE  RankingInv'
<1>1. /\ text' \in Texts /\ start' = 0 /\ candidates' = {} /\ ranking' = "none"
  BY DEF Ranks, RankingInv
<1>2. Regular(text')
  BY <1>1, TextsRegular
<1>3. text' # <<>> /\ Len(text') \in Nat /\ Len(text') > 0
  BY <1>2 DEF Regular
<1>4. Boundary(start)'
  <2>1. text'[1] # "."
    <3>1. \E k \in 1..1 : text'[k] # "."
      BY <1>2, <1>3 DEF Regular
    <3> QED
      BY <3>1
  <2> QED
    BY <1>1, <2>1 DEF Boundary, RuneStart
<1>5. Chunks' /\ Covered'
  BY <1>1 DEF Chunks, Covered
<1> QED
  BY <1>1, <1>2, <1>3, <1>4, <1>5 DEF RankingInv

LEMMA RankingEnds ==
  ASSUME Ranked
  PROVE  RankingInv'
BY DEF Ranked, RankingInv

LEMMA RankingIsKept == RankingInv => ExcerptsAligned /\ WordsFound
<1> SUFFICES ASSUME RankingInv  PROVE ExcerptsAligned /\ WordsFound
  OBVIOUS
<1>1. ExcerptsAligned
  BY DEF RankingInv, Chunks, ExcerptsAligned
<1>2. ASSUME ranking \in {"no_sources", "no_match"},
             NEW word \in Terms(0, Len(text)) \cap Query
      PROVE  Len(word) > Longest
  <2>1. Regular(text) /\ Covered /\ start = Len(text) /\ Matching = {}
    BY <1>2 DEF RankingInv
  <2>2. Len(text) \in Nat /\ text \in Seq(Bytes)
    BY <2>1 DEF Regular
  <2>3. PICK a, b \in 0..Len(text) : Word(a, b) /\ word = SubSeq(text, a + 1, b)
    BY <2>2, TermIsWord
  <2>4. a < b /\ a < start
    BY <2>1, <2>2, <2>3 DEF Word
  <2>5. Len(word) = b - a
    BY <2>2, <2>3, <2>4
  <2>6. ASSUME b - a <= Longest  PROVE FALSE
    <3>1. PICK c \in candidates : word \in Terms(c[1], c[2])
      BY <2>1, <2>3, <2>4, <2>6 DEF Covered
    <3>2. c \in Matching
      BY <3>1 DEF Matching, Matches
    <3> QED
      BY <2>1, <3>2
  <2> QED
    BY <2>5, <2>6, ChunkConstants DEF Longest
<1> QED
  BY <1>1, <1>2 DEF WordsFound, Longest

-----------------------------------------------------------------------------
(* The ranking as part of an execution.                                    *)

LEMMA RankingInvInit == CognitiveInit => RankingInv
BY DEF CognitiveInit, RetrievalInit, RankingInv

LEMMA RankingInvStep ==
  ASSUME RankingInv, [CognitiveNext]_cognitiveVars
  PROVE  RankingInv'
<1>1. CASE BeginsRanking
  BY <1>1, RankingBegins DEF BeginsRanking
<1>2. CASE Rank \/ RankingCancelled
  BY <1>2, RankingCut, RankingFails, RankingSelects DEF Rank, RankingCancelled
<1>3. CASE CollectsRanked
  BY <1>3, RankingEnds DEF CollectsRanked
<1>4. CASE \/ Acquires(Client) \/ Acquires(Server) \/ AcquisitionFails \/ CollectsExcerpts
           \/ Otherwise \/ UNCHANGED cognitiveVars
  <2>1. UNCHANGED retrievalVars
    BY <1>4 DEF Acquires, AcquisitionFails, CollectsExcerpts, Otherwise, cognitiveVars
  <2> QED
    BY <2>1, RankingUnchanged
<1> QED
  BY <1>1, <1>2, <1>3, <1>4 DEF CognitiveNext

\* The inductive invariant of the ranking (rankSources).
THEOREM RankingInvariance == CognitiveSpec => []RankingInv
BY RankingInvInit, RankingInvStep, PTL DEF CognitiveSpec

\* Whatever the document and the sizes, chunks split no character and stay within the limit,
\* and a document with a word of the query that the overlap can keep whole is never reported
\* as without a match (rankSources, chunk boundaries and terms).
THEOREM NoWordIsLost == CognitiveSpec => []RankingKept
BY RankingInvariance, RankingIsKept, PTL DEF RankingKept

\* Every chunk begins after the one before: the rounding of a chunk's end and of the next
\* one's start never meet, so that a document of n bytes has at most n chunks (rankSources).
THEOREM CutsAdvance ==
  CognitiveSpec => [][Cut => start < start' /\ start' <= Len(text)]_cognitiveVars
<1>1. ASSUME RankingInv, Cut  PROVE start < start' /\ start' <= Len(text)
  <2> DEFINE end == ChunkEnd(start)
  <2>1. /\ start < Len(text) /\ text # <<>>
        /\ start' = IF LastChunk(end) THEN Len(text) ELSE NextStart(end)
    BY <1>1 DEF Cut, RankingInv
  <2>2. Regular(text) /\ start \in Nat /\ Len(text) \in Nat
    BY <1>1, <2>1 DEF RankingInv, Regular
  <2>3. /\ end \in start + 1..Len(text) /\ Boundary(end)
        /\ end # Len(text) => end > start + Overlap
    BY <2>1, <2>2, ChunkEndShape
  <2> HIDE DEF end
  <2>4. CASE end = Len(text)
    BY <2>1, <2>2, <2>4 DEF LastChunk
  <2>5. CASE end # Len(text)
    <3>1. end \in Nat /\ end > Overlap /\ end < Len(text) /\ start' = NextStart(end)
      BY <2>1, <2>2, <2>3, <2>5, ChunkConstants DEF LastChunk
    <3>2. start' \in end - Overlap..end
      BY <2>2, <2>3, <3>1, NextStartShape
    <3> QED
      BY <2>2, <2>3, <2>5, <3>1, <3>2, ChunkConstants
  <2> QED
    BY <2>4, <2>5
<1>2. RankingInv /\ [CognitiveNext]_cognitiveVars =>
        [Cut => start < start' /\ start' <= Len(text)]_cognitiveVars
  BY <1>1
<1> QED
  BY <1>2, RankingInvariance, PTL DEF CognitiveSpec

=============================================================================
