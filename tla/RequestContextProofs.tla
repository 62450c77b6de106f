------------------------ MODULE RequestContextProofs -------------------------
(***************************************************************************)
(* ContextInv is an inductive invariant of RequestContext, for any number  *)
(* of requests and any client ids, and its safety properties follow.       *)
(***************************************************************************)
EXTENDS RequestContext, TLAPS

\* The middleware always has an id that is neither absent nor empty
\* (headers.get(...) or str(uuid7())).
LEMMA MiddlewareIdIsReal ==
    ASSUME TypeOK, NEW r \in Requests
    PROVE  MiddlewareId(r) \in ClientIds \union Generated
BY DEF TypeOK, MiddlewareId, Generated

\* What the dependency generates or takes over is an id.
LEMMA DependencyIdType ==
    ASSUME TypeOK, NEW r \in Requests
    PROVE  DependencyId(r) \in Ids
BY DEF TypeOK, DependencyId, Generated, Ids

\* The initial states satisfy the invariant.
LEMMA ContextInvInit == Init => ContextInv
<1> SUFFICES ASSUME Init PROVE ContextInv
  OBVIOUS
<1>1. Clean \in Contexts
  BY DEF Clean, Contexts, Ids
<1>2. TypeOK
  <2>1. NoId \in Ids \ {EmptyId}
    BY IdsAssumption DEF Ids
  <2>. QED
    BY <1>1, <2>1 DEF Init, TypeOK, Phases
<1>3. BoundOnlyInDispatch
  BY DEF Init, BoundOnlyInDispatch
<1>4. IdsMatchPhase
  BY DEF Init, IdsMatchPhase
<1>5. LogsNameTheirRequest
  BY DEF Init, LogsNameTheirRequest
<1>. QED
  BY <1>2, <1>3, <1>4, <1>5 DEF ContextInv

\* A move of r that starts outside a dispatch binds nothing: the context it may
\* copy from a finished request is clean.
LEMMA ArriveStep ==
    ASSUME ContextInv, NEW r \in Requests, Arrive(r)
    PROVE  ContextInv'
<1> USE DEF ContextInv, Arrive, Move
<1>1. outer' = [outer EXCEPT ![r] = Clean]
  BY DEF BoundOnlyInDispatch
<1>2. Clean \in Contexts
  BY DEF Clean, Contexts, Ids
<1>3. TypeOK'
  BY <1>1, <1>2 DEF TypeOK, Phases
<1>4. BoundOnlyInDispatch'
  BY <1>1 DEF TypeOK, BoundOnlyInDispatch
<1>5. IdsMatchPhase'
  BY DEF TypeOK, IdsMatchPhase, MiddlewareId, DependencyId
<1>6. LogsNameTheirRequest'
  BY DEF LogsNameTheirRequest
<1>. QED
  BY <1>3, <1>4, <1>5, <1>6

\* The middleware binds its own id only.
LEMMA DispatchStep ==
    ASSUME ContextInv, NEW r \in Requests, Dispatch(r)
    PROVE  ContextInv'
<1> USE DEF ContextInv, Dispatch, Move
<1>1. MiddlewareId(r) \in Ids \ {EmptyId}
  BY MiddlewareIdIsReal, IdsAssumption DEF Ids
<1>2. [outer[r] EXCEPT !.request_id = MiddlewareId(r)] \in Contexts
  BY <1>1 DEF TypeOK, Contexts
<1>3. outer' \in [Requests -> Contexts] /\ outer'[r] \in Contexts
  BY <1>2 DEF TypeOK
<1>4. inner' \in [Requests -> Contexts]
  BY <1>3 DEF TypeOK
<1>5. TypeOK'
  BY <1>1, <1>3, <1>4 DEF TypeOK, Phases
<1>6. BoundOnlyInDispatch'
  BY DEF TypeOK, BoundOnlyInDispatch
<1>7. IdsMatchPhase'
  BY DEF TypeOK, IdsMatchPhase, MiddlewareId, DependencyId
<1>8. LogsNameTheirRequest'
  BY DEF LogsNameTheirRequest
<1>. QED
  BY <1>5, <1>6, <1>7, <1>8

\* The dependency binds its id and the caller in the application's task only.
LEMMA BuildTenantContextStep ==
    ASSUME ContextInv, NEW r \in Requests, BuildTenantContext(r)
    PROVE  ContextInv'
<1> USE DEF ContextInv, BuildTenantContext, Move, BindRequestContext
<1>1. DependencyId(r) \in Ids
  BY DependencyIdType
<1>2. [request_id |-> DependencyId(r), owner |-> r] \in Contexts
  BY <1>1 DEF Contexts
<1>3. TypeOK'
  BY <1>1, <1>2 DEF TypeOK, Phases
<1>4. BoundOnlyInDispatch'
  BY DEF TypeOK, BoundOnlyInDispatch
<1>5. IdsMatchPhase'
  BY DEF TypeOK, IdsMatchPhase, MiddlewareId, DependencyId
<1>6. LogsNameTheirRequest'
  BY DEF LogsNameTheirRequest
<1>. QED
  BY <1>3, <1>4, <1>5, <1>6

\* A log line takes the context of the task that writes it.
LEMMA LogStep ==
    ASSUME ContextInv, NEW r \in Requests, Log(r)
    PROVE  ContextInv'
<1> USE DEF ContextInv, Log
<1>1. TypeOK'
  BY DEF TypeOK
<1>2. BoundOnlyInDispatch'
  BY DEF BoundOnlyInDispatch
<1>3. IdsMatchPhase'
  BY DEF IdsMatchPhase, MiddlewareId, DependencyId
<1>4. LogsNameTheirRequest'
  <2>1. inner[r] = [request_id |-> DependencyId(r), owner |-> r]
    BY DEF IdsMatchPhase
  <2>2. sent[r] \in ClientIds => DependencyId(r) = sent[r]
    BY IdsAssumption DEF DependencyId
  <2>. QED
    BY <2>1, <2>2 DEF LogsNameTheirRequest
<1>. QED
  BY <1>1, <1>2, <1>3, <1>4

\* However the application ends, its body carries the id of the code that
\* built it.
LEMMA EndStep ==
    ASSUME ContextInv, NEW r \in Requests,
           \/ AnswerPlainly(r) \/ RaiseRagError(r) \/ Accept(r) \/ RaiseUnhandled(r)
    PROVE  ContextInv'
<1> USE DEF ContextInv, AnswerPlainly, RaiseRagError, Accept, RaiseUnhandled, End
<1>1. TypeOK'
  BY DEF TypeOK, Phases, Outcomes
<1>2. BoundOnlyInDispatch'
  BY DEF TypeOK, BoundOnlyInDispatch
<1>3. IdsMatchPhase'
  <2>1. \A q \in Requests : /\ MiddlewareId(q)' = MiddlewareId(q)
                            /\ DependencyId(q)' = DependencyId(q)
    BY DEF MiddlewareId, DependencyId
  <2>2. phase \in [Requests -> Phases] /\ metaId \in [Requests -> Ids]
    BY DEF TypeOK
  <2>3. CASE AnswerPlainly(r)
    BY <2>1, <2>2, <2>3 DEF TypeOK, IdsMatchPhase
  <2>4. CASE RaiseRagError(r)
    BY <2>1, <2>2, <2>4 DEF TypeOK, IdsMatchPhase
  <2>5. CASE Accept(r)
    BY <2>1, <2>2, <2>5 DEF TypeOK, IdsMatchPhase
  <2>6. CASE RaiseUnhandled(r)
    BY <2>1, <2>2, <2>6 DEF TypeOK, IdsMatchPhase
  <2>. QED
    BY <2>3, <2>4, <2>5, <2>6
<1>4. LogsNameTheirRequest'
  BY DEF LogsNameTheirRequest
<1>. QED
  BY <1>1, <1>2, <1>3, <1>4

\* Both ways out of the middleware clear the context; one sets the header.
LEMMA LeaveStep ==
    ASSUME ContextInv, NEW r \in Requests, Respond(r) \/ Propagate(r)
    PROVE  ContextInv'
<1> USE DEF ContextInv, Respond, Propagate, Move
<1>1. Clean \in Contexts
  BY DEF Clean, Contexts, Ids
<1>2. TypeOK'
  BY <1>1 DEF TypeOK, Phases
<1>3. BoundOnlyInDispatch'
  BY DEF TypeOK, BoundOnlyInDispatch
<1>4. IdsMatchPhase'
  BY DEF TypeOK, IdsMatchPhase, MiddlewareId, DependencyId
<1>5. LogsNameTheirRequest'
  BY DEF LogsNameTheirRequest
<1>. QED
  BY <1>2, <1>3, <1>4, <1>5

\* A step that changes nothing keeps the invariant.
LEMMA ContextStutter == ContextInv /\ UNCHANGED vars => ContextInv'
<1> SUFFICES ASSUME ContextInv, UNCHANGED vars PROVE ContextInv'
  OBVIOUS
<1> USE DEF ContextInv, vars
<1>1. TypeOK'
  BY DEF TypeOK
<1>2. BoundOnlyInDispatch'
  BY DEF BoundOnlyInDispatch
<1>3. IdsMatchPhase'
  BY DEF IdsMatchPhase, MiddlewareId, DependencyId
<1>4. LogsNameTheirRequest'
  BY DEF LogsNameTheirRequest
<1>. QED
  BY <1>1, <1>2, <1>3, <1>4

\* Every reachable state satisfies the invariant: each context holds what its
\* own request bound, and each id is where its code put it.
THEOREM ContextCorrect == Spec => []ContextInv
<1>1. Init => ContextInv
  BY ContextInvInit
<1>2. ContextInv /\ [Next]_vars => ContextInv'
  <2> SUFFICES ASSUME ContextInv, [Next]_vars PROVE ContextInv'
    OBVIOUS
  <2>1. CASE UNCHANGED vars
    BY <2>1, ContextStutter
  <2>2. CASE Next
    <3>1. PICK r \in Requests :
             \/ Arrive(r) \/ Dispatch(r) \/ AnswerPlainly(r) \/ BuildTenantContext(r)
             \/ Log(r) \/ RaiseRagError(r) \/ Accept(r) \/ RaiseUnhandled(r)
             \/ Respond(r) \/ Propagate(r)
      BY <2>2 DEF Next
    <3>. QED
      BY <3>1, ArriveStep, DispatchStep, BuildTenantContextStep, LogStep, EndStep,
         LeaveStep
  <2>. QED
    BY <2>1, <2>2
<1>. QED
  BY <1>1, <1>2, PTL DEF Spec

\* Every variable keeps its shape; the id in request.state is never empty,
\* whatever header the client sent.
THEOREM ContextTypes == Spec => []TypeOK
<1>1. ContextInv => TypeOK
  BY DEF ContextInv
<1>. QED
  BY <1>1, ContextCorrect, PTL

\* Log lines never mix up requests, however many share the event loop.
THEOREM LogsCorrect == Spec => []LogsNameTheirRequest
<1>1. ContextInv => LogsNameTheirRequest
  BY DEF ContextInv
<1>. QED
  BY <1>1, ContextCorrect, PTL

\* Every error envelope carries the id of its response's header.
THEOREM EnvelopeCorrect == Spec => []EnvelopeMatchesHeader
<1>1. ContextInv => EnvelopeMatchesHeader
  <2> SUFFICES ASSUME ContextInv, NEW r \in Requests, phase[r] = "done",
                      \/ outcome[r] = "error"
                      \/ outcome[r] = "accepted" /\ sent[r] \in ClientIds
               PROVE  headerId[r] # NoId /\ metaId[r] = headerId[r]
    BY DEF EnvelopeMatchesHeader
  <2>1. headerId[r] = stateId[r] /\ stateId[r] = MiddlewareId(r)
    BY DEF ContextInv, IdsMatchPhase
  <2>2. MiddlewareId(r) # NoId
    BY MiddlewareIdIsReal, IdsAssumption DEF ContextInv
  <2>3. CASE outcome[r] = "error"
    BY <2>1, <2>2, <2>3 DEF ContextInv, IdsMatchPhase
  <2>4. CASE outcome[r] = "accepted" /\ sent[r] \in ClientIds
    <3>1. metaId[r] = DependencyId(r)
      BY <2>4 DEF ContextInv, IdsMatchPhase
    <3>2. DependencyId(r) = MiddlewareId(r)
      BY <2>4, IdsAssumption DEF DependencyId, MiddlewareId
    <3>. QED
      BY <2>1, <2>2, <3>1, <3>2
  <2>. QED
    BY <2>3, <2>4
<1>. QED
  BY <1>1, ContextCorrect, PTL

\* No request starts with an identifier of an earlier one.
THEOREM InheritanceCorrect == Spec => []NothingInherited
<1>1. ContextInv => NothingInherited
  BY DEF ContextInv, BoundOnlyInDispatch, NothingInherited
<1>. QED
  BY <1>1, ContextCorrect, PTL
=============================================================================
