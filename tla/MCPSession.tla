------------------------------ MODULE MCPSession ------------------------------
(***************************************************************************)
(* One acquisition of documents from an MCP server: readMCP, its POSTs and *)
(* the deferred close.  The server answers anything: other statuses, other *)
(* or invalid sessions, streams of notifications, answers to another       *)
(* request, content of another resource; its answers may also be lost.     *)
(*                                                                         *)
(* The endpoint, the bearer token, redirects and the size limits are left  *)
(* out: they refuse a response as any other error does.                    *)
(***************************************************************************)
EXTENDS Naturals, Sequences, SequencesExt

CONSTANTS
  URIs,        \* the authorised resources, a sequence without repetition
  Sessions,    \* session IDs the client accepts as text
  None,        \* no session header
  BadSession,  \* a header with an ID too long or not printable
  MaxEvents    \* 32: messages read from one stream, the answer among them

ASSUME MCPAssumption ==
  /\ URIs \in Seq(ToSet(URIs)) /\ IsInjective(URIs) /\ URIs # <<>>
  /\ {None, BadSession} \cap Sessions = {} /\ None # BadSession
  /\ MaxEvents \in Nat \ {0}

VARIABLES
  phase,       \* "initialize", "notify", "read", "closing" or "done"
  awaiting,    \* "nothing": no request is out; "headers" or "body" of the response
  next,        \* c.next, the last request ID
  session,     \* c.session
  initialized, \* c.initialized
  events,      \* messages read from the response at hand; 0 when there is none
  docs,        \* the documents accepted: URI, and the request they answered
  outcome,     \* what readMCP returns: "none" yet, "documents" or "error"
  requests     \* history: every request sent, in order

sessionVars == <<phase, awaiting, next, session, initialized, events, docs, outcome, requests>>

MCPInit ==
  /\ phase = "initialize" /\ awaiting = "nothing"
  /\ next = 0 /\ session = None /\ initialized = FALSE
  /\ events = 0 /\ docs = <<>> /\ outcome = "none" /\ requests = <<>>

-----------------------------------------------------------------------------
\* headers(): what every request carries of the client's state.
Request(method, id, uri) ==
  [method |-> method, id |-> id, uri |-> uri, session |-> session, version |-> initialized]

Send(method, id, uri) ==
  /\ awaiting = "nothing" /\ awaiting' = "headers"
  /\ requests' = Append(requests, Request(method, id, uri)) /\ UNCHANGED events

Call(method, uri) == next' = next + 1 /\ Send(method, next + 1, uri)

Wanted == URIs[Len(docs) + 1]

Initialize ==
  /\ phase = "initialize" /\ Call("initialize", None)
  /\ UNCHANGED <<phase, session, initialized, docs, outcome>>

Notify ==
  /\ phase = "notify" /\ Send("initialized", 0, None)
  /\ UNCHANGED <<phase, next, session, initialized, docs, outcome>>

Read ==
  /\ phase = "read" /\ Call("read", Wanted)
  /\ UNCHANGED <<phase, session, initialized, docs, outcome>>

Failing ==
  /\ phase' = "closing" /\ awaiting' = "nothing" /\ outcome' = "error"
  /\ events' = 0
  /\ UNCHANGED <<next, session, initialized, docs, requests>>

\* A deadline of 10 s for a request and of 30 s for them all, a lost connection, a status
\* other than 200 or 202, a body that is no message, a request from the server, an error.
CallFails == phase \in {"initialize", "notify", "read"} /\ Failing

-----------------------------------------------------------------------------
\* post: a header may set the session until the client is initialized.
AcceptsSession(header) ==
  \/ header = None
  \/ header # BadSession /\ (initialized => header = session)

Headers(header) ==
  /\ awaiting = "headers" /\ phase # "notify"
  /\ AcceptsSession(header)
  /\ session' = IF header = None THEN session ELSE header
  /\ awaiting' = "body"
  /\ UNCHANGED <<phase, next, initialized, events, docs, outcome, requests>>

HeadersRefused(header) ==
  /\ awaiting = "headers" /\ phase # "notify"
  /\ ~AcceptsSession(header) /\ Failing

\* 202: neither a header nor a body is looked at.
Notified ==
  /\ awaiting = "headers" /\ phase = "notify"
  /\ awaiting' = "nothing" /\ phase' = "read"
  /\ UNCHANGED <<next, session, initialized, events, docs, outcome, requests>>

\* A message is read.  The answer counts as the notifications do: when it is one too many
\* it is not looked at.
Event == awaiting = "body" /\ events < MaxEvents

\* A notification in the stream is skipped.
ServerNotifies ==
  /\ Event /\ events' = events + 1
  /\ UNCHANGED <<phase, awaiting, next, session, initialized, docs, outcome, requests>>

\* Mutant: any result in the stream is taken for the answer.
AnswersAnything(id) == id \in 0..next

\* decodeMCP: the message's ID is that of the request.
Answers(id) == id = next

Initialized(id) ==
  /\ phase = "initialize" /\ Event /\ Answers(id)
  /\ initialized' = TRUE /\ phase' = "notify" /\ awaiting' = "nothing" /\ events' = 0
  /\ UNCHANGED <<next, session, docs, outcome, requests>>

\* The only content of the result is the resource that was asked for.
Document(id, uri) ==
  /\ phase = "read" /\ Event /\ Answers(id) /\ uri = Wanted
  /\ docs' = Append(docs, [uri |-> uri, id |-> id])
  /\ awaiting' = "nothing" /\ events' = 0
  /\ IF Len(docs') = Len(URIs)
     THEN phase' = "closing" /\ outcome' = "documents"
     ELSE UNCHANGED <<phase, outcome>>
  /\ UNCHANGED <<next, session, initialized, requests>>

-----------------------------------------------------------------------------
Closes == session # None

\* The deferred close: one DELETE, whose answer changes nothing, with two seconds of its own.
Close ==
  /\ phase = "closing" /\ phase' = "done"
  /\ requests' = IF Closes THEN Append(requests, Request("delete", 0, None)) ELSE requests
  /\ UNCHANGED <<awaiting, next, session, initialized, events, docs, outcome>>

Client == Initialize \/ Notify \/ Read \/ CallFails \/ Close
Server ==
  \/ \E header \in Sessions \cup {None, BadSession} : Headers(header) \/ HeadersRefused(header)
  \/ Notified \/ ServerNotifies
  \/ \E id \in 0..next : Initialized(id) \/ \E uri \in ToSet(URIs) : Document(id, uri)

-----------------------------------------------------------------------------
Methods == [k \in DOMAIN requests |-> requests[k].method]
Profile == <<"initialize", "initialized">> \o [k \in DOMAIN URIs |-> "read"]

\* "Cada reserva permite no máximo uma inicialização, uma notificação, oito leituras e uma
\* tentativa de encerrar sessão" (docs/RETRIEVAL.md:68), in this order, whatever failed.
AttemptIsBounded ==
  \/ IsPrefix(Methods, Profile)
  \/ Methods # <<>> /\ Last(Methods) = "delete" /\ IsPrefix(Front(Methods), Profile)

\* After initialisation no response changes the session: every request of the attempt
\* carries the one the server opened it with, and the negotiated version (mcp.go:116-128).
OneSession ==
  \A k \in DOMAIN requests :
    /\ requests[k].session = IF k = 1 THEN None ELSE session
    /\ requests[k].method \in {"initialized", "read"} => requests[k].version

\* A session the client has accepted is closed, also when the call that opened it failed
\* afterwards, and no other session is (mcp.go:66, docs/RETRIEVAL.md:47).
AcceptedSessionClosed ==
  phase = "done" =>
    (session # None <=>
       /\ requests # <<>>
       /\ Last(requests).method = "delete" /\ Last(requests).session = session)

\* Documents are returned only when every authorised resource has been read, each from
\* the answer to its own request (docs/RETRIEVAL.md:30: no partial or old sources).
DocumentsComplete ==
  outcome = "documents" =>
    /\ [k \in DOMAIN docs |-> docs[k].uri] = URIs
    /\ \A k \in DOMAIN docs : \E r \in ToSet(requests) :
         r.method = "read" /\ r.id = docs[k].id /\ r.uri = docs[k].uri
=============================================================================
