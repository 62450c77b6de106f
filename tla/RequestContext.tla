--------------------------- MODULE RequestContext ----------------------------
(***************************************************************************)
(* The request id and the log context of concurrent HTTP requests.         *)
(* RequestIdMiddleware reads or generates an id, the tenant dependency     *)
(* reads or generates one again, error envelopes carry the first and the   *)
(* 202 body the second.  Both are bound into structlog's contextvars: each *)
(* asyncio task has a context of its own, copied from the task that        *)
(* created it.  The server runs a request in one task (outer), and         *)
(* call_next runs the application in a second (inner).                     *)
(***************************************************************************)
EXTENDS FiniteSets

CONSTANTS
    Requests,       \* HTTP requests
    ClientIds,      \* the non-empty X-Request-Id values clients send
    EmptyId,        \* the header is sent, with no value
    NoId            \* no header, no id in a body, no id bound

VARIABLES
    sent,           \* [Requests -> ...], the X-Request-Id of each request
    phase,          \* how far each request is
    outcome,        \* how the application ended it, NoId before
    stateId,        \* request.state.request_id
    ctxId,          \* TenantContext.request_id
    outer,          \* contextvars of the server's task of a request
    inner,          \* contextvars of the application's task of a request
    metaId,         \* meta.request_id of the response body
    headerId,       \* X-Request-Id of the response
    logs            \* the log lines written: who wrote it, its context

vars == <<sent, phase, outcome, stateId, ctxId, outer, inner, metaId, headerId,
          logs>>

Phases == {"idle", "arrived", "dispatched", "handling", "ended", "done"}
Outcomes == {"plain", "error", "accepted", "exception"}

\* uuid7 ids are fresh: they are named after the code that generates them.
Generated == {"middleware", "dependency"} \X Requests

Ids == ClientIds \union {EmptyId, NoId} \union Generated

ASSUME IdsAssumption ==
    /\ EmptyId \notin ClientIds \union Generated
    /\ NoId \notin ClientIds \union {EmptyId} \union Generated

\* What is bound: the request id, and the tenant_id and user_id of a request.
Contexts == [request_id : Ids, owner : Requests \union {NoId}]

Clean == [request_id |-> NoId, owner |-> NoId]

Init ==
    /\ sent \in [Requests -> ClientIds \union {EmptyId, NoId}]
    /\ phase = [r \in Requests |-> "idle"]
    /\ outcome = [r \in Requests |-> NoId]
    /\ stateId = [r \in Requests |-> NoId]
    /\ ctxId = [r \in Requests |-> NoId]
    /\ outer = [r \in Requests |-> Clean]
    /\ inner = [r \in Requests |-> Clean]
    /\ metaId = [r \in Requests |-> NoId]
    /\ headerId = [r \in Requests |-> NoId]
    /\ logs = {}

-----------------------------------------------------------------------------
\* Mutant of MiddlewareId: only an absent header is replaced.
MiddlewareIdIfAbsent(r) ==
    IF sent[r] = NoId THEN <<"middleware", r>> ELSE sent[r]

\* headers.get(...) or str(uuid7()): an empty header counts as absent.
MiddlewareId(r) ==
    IF sent[r] \in {NoId, EmptyId} THEN <<"middleware", r>> ELSE sent[r]

\* x_request_id if it is not None: an empty header is kept.
DependencyId(r) ==
    IF sent[r] = NoId THEN <<"dependency", r>> ELSE sent[r]

\* Mutant of BindRequestContext: one context for the whole process.
BindEverywhere(r, id) ==
    [q \in Requests |-> [request_id |-> id, owner |-> r]]

\* bind_request_context in the application's task of r.
BindRequestContext(r, id) ==
    [inner EXCEPT ![r] = [request_id |-> id, owner |-> r]]

Move(r, from, to) ==
    /\ phase[r] = from
    /\ phase' = [phase EXCEPT ![r] = to]
    /\ UNCHANGED <<sent, outcome>>

\* The application ends r: the dependency does, or the use case after it.
End(r, how) ==
    /\ phase[r] \in {"dispatched", "handling"}
    /\ phase' = [phase EXCEPT ![r] = "ended"]
    /\ outcome' = [outcome EXCEPT ![r] = how]
    /\ UNCHANGED <<sent, stateId, ctxId, outer, inner, headerId, logs>>

-----------------------------------------------------------------------------
\* The server starts a task for r.  On a connection that pipelines requests it
\* is created by the task that has just finished the request before.
Arrive(r) ==
    /\ Move(r, "idle", "arrived")
    /\ \E context \in {Clean} \union {outer[q] : q \in {p \in Requests : phase[p] = "done"}} :
          outer' = [outer EXCEPT ![r] = context]
    /\ UNCHANGED <<stateId, ctxId, inner, metaId, headerId, logs>>

\* The middleware sets and binds the id and calls the application.
Dispatch(r) ==
    /\ Move(r, "arrived", "dispatched")
    /\ stateId' = [stateId EXCEPT ![r] = MiddlewareId(r)]
    /\ outer' = [outer EXCEPT ![r].request_id = MiddlewareId(r)]
    /\ inner' = [inner EXCEPT ![r] = outer'[r]]
    /\ UNCHANGED <<ctxId, metaId, headerId, logs>>

\* An answer without meta: the health check, and FastAPI's own refusals (404,
\* 422), which may also follow the tenant dependency.
AnswerPlainly(r) ==
    /\ End(r, "plain")
    /\ UNCHANGED metaId

\* require_tenant_context succeeds.
BuildTenantContext(r) ==
    /\ Move(r, "dispatched", "handling")
    /\ ctxId' = [ctxId EXCEPT ![r] = DependencyId(r)]
    /\ inner' = BindRequestContext(r, DependencyId(r))
    /\ UNCHANGED <<stateId, outer, metaId, headerId, logs>>

\* The use case logs a line; merge_contextvars adds what its task has bound.
Log(r) ==
    /\ phase[r] = "handling"
    /\ logs' = logs \union {[by |-> r, context |-> inner[r]]}
    /\ UNCHANGED <<sent, phase, outcome, stateId, ctxId, outer, inner, metaId, headerId>>

\* Mutant of RaiseRagError: the envelope echoes the header that was sent.
RaiseRagErrorEchoingHeader(r) ==
    /\ End(r, "error")
    /\ metaId' = [metaId EXCEPT ![r] = sent[r]]

\* The dependency or the use case raises RagError: rag_error_handler answers.
RaiseRagError(r) ==
    /\ End(r, "error")
    /\ metaId' = [metaId EXCEPT ![r] = stateId[r]]

Accept(r) ==
    /\ phase[r] = "handling"
    /\ End(r, "accepted")
    /\ metaId' = [metaId EXCEPT ![r] = ctxId[r]]

\* Any other exception leaves the application, through call_next.
RaiseUnhandled(r) ==
    /\ End(r, "exception")
    /\ UNCHANGED metaId

\* call_next returned: the context is cleared and the header set.
Respond(r) ==
    /\ outcome[r] # "exception"
    /\ Move(r, "ended", "done")
    /\ outer' = [outer EXCEPT ![r] = Clean]
    /\ headerId' = [headerId EXCEPT ![r] = stateId[r]]
    /\ UNCHANGED <<stateId, ctxId, inner, metaId, logs>>

\* Mutant of Propagate: clear_contextvars is not in a finally block.
PropagateUncleared(r) ==
    /\ outcome[r] = "exception"
    /\ Move(r, "ended", "done")
    /\ UNCHANGED <<stateId, ctxId, outer, inner, metaId, headerId, logs>>

\* call_next raised: the finally block clears the context, the header is not
\* set, and the server's outermost handler answers 500.
Propagate(r) ==
    /\ outcome[r] = "exception"
    /\ Move(r, "ended", "done")
    /\ outer' = [outer EXCEPT ![r] = Clean]
    /\ UNCHANGED <<stateId, ctxId, inner, metaId, headerId, logs>>

Next ==
    \E r \in Requests :
        \/ Arrive(r)          \/ Dispatch(r)        \/ AnswerPlainly(r)
        \/ BuildTenantContext(r)                    \/ Log(r)
        \/ RaiseRagError(r)   \/ Accept(r)          \/ RaiseUnhandled(r)
        \/ Respond(r)         \/ Propagate(r)

Spec == Init /\ [][Next]_vars

-----------------------------------------------------------------------------
\* Every variable has the shape the code gives it; the id in request.state is
\* never empty.
TypeOK ==
    /\ sent \in [Requests -> ClientIds \union {EmptyId, NoId}]
    /\ phase \in [Requests -> Phases]
    /\ outcome \in [Requests -> Outcomes \union {NoId}]
    /\ stateId \in [Requests -> Ids \ {EmptyId}]
    /\ ctxId \in [Requests -> Ids]
    /\ outer \in [Requests -> Contexts]
    /\ inner \in [Requests -> Contexts]
    /\ metaId \in [Requests -> Ids]
    /\ headerId \in [Requests -> Ids]
    /\ logs \subseteq [by : Requests, context : Contexts]

\* A log line carries the tenant and user of the request that wrote it, and the
\* id its client sent, however the requests interleave and share connections.
LogsNameTheirRequest ==
    \A line \in logs :
        /\ line.context.owner = line.by
        /\ sent[line.by] \in ClientIds => line.context.request_id = sent[line.by]

\* Every error envelope carries the id of its response's header, whichever code
\* raised it; so does the 202 of a client that sent an id of its own.
EnvelopeMatchesHeader ==
    \A r \in Requests :
        /\ phase[r] = "done"
        /\ \/ outcome[r] = "error"
           \/ outcome[r] = "accepted" /\ sent[r] \in ClientIds
        => headerId[r] # NoId /\ metaId[r] = headerId[r]

\* No response leaves an identifier behind: a request that reuses the task of
\* an earlier one, answered or failed, starts with nothing bound.
NothingInherited ==
    \A r \in Requests : phase[r] = "arrived" => outer[r] = Clean

-----------------------------------------------------------------------------
(***************************************************************************)
(* The inductive invariant.                                                *)
(***************************************************************************)

\* Outside a dispatch the server's task has nothing bound.
BoundOnlyInDispatch ==
    \A r \in Requests :
        phase[r] \in {"idle", "arrived", "done"} => outer[r] = Clean

\* Which of the two ids each place carries.
IdsMatchPhase ==
    \A r \in Requests :
        /\ phase[r] \in {"dispatched", "handling", "ended", "done"}
              => stateId[r] = MiddlewareId(r)
        /\ phase[r] = "handling" =>
              /\ ctxId[r] = DependencyId(r)
              /\ inner[r] = [request_id |-> DependencyId(r), owner |-> r]
        /\ phase[r] \in {"ended", "done"} /\ outcome[r] = "error"
              => metaId[r] = stateId[r]
        /\ phase[r] \in {"ended", "done"} /\ outcome[r] = "accepted"
              => metaId[r] = DependencyId(r)
        /\ phase[r] = "done" /\ outcome[r] # "exception"
              => headerId[r] = stateId[r]

ContextInv ==
    /\ TypeOK
    /\ BoundOnlyInDispatch
    /\ IdsMatchPhase
    /\ LogsNameTheirRequest
=============================================================================
