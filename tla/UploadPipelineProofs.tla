------------------------ MODULE UploadPipelineProofs -------------------------
(***************************************************************************)
(* UploadInv is an inductive invariant of UploadPipeline, for every set of *)
(* requests, every set of inputs and every configuration; the safety       *)
(* properties follow from it, and with it UploadPipeline implements        *)
(* UploadContract.                                                         *)
(***************************************************************************)
EXTENDS UploadImplementsContract, TLAPS

-----------------------------------------------------------------------------
(***************************************************************************)
(* Answers.                                                                *)
(***************************************************************************)
AdmissionCodes ==
    {"UNPROCESSABLE", "UNAUTHORIZED", "INVALID_REQUEST", "FORBIDDEN",
     "UNSUPPORTED_MEDIA_TYPE", "PAYLOAD_TOO_LARGE"}

\* A check that refuses does so with a 4xx code other than 409 (the table of
\* checks in require_tenant_context, upload_document and execute).
LEMMA AdmissionCode ==
    ASSUME NEW in, NEW i \in 1..Len(AdmissionChecks(in))
    PROVE  AdmissionChecks(in)[i].code \in AdmissionCodes
<1> DEFINE H == HeaderChecks(in)
           F == FormChecks(in)
           B == FileChecks(in)
           S == {H[j] : j \in 1..4} \union {F[j] : j \in 1..2} \union {B[j] : j \in 1..4}
<1>1. /\ Len(H) = 4 /\ H \in Seq(S)
      /\ Len(F) = 2 /\ F \in Seq(S)
      /\ Len(B) = 4 /\ B \in Seq(S)
  <2>1. Len(H) = 4 /\ H \in Seq({H[j] : j \in 1..4})
    BY DEF HeaderChecks
  <2>2. Len(F) = 2 /\ F \in Seq({F[j] : j \in 1..2})
    BY DEF FormChecks
  <2>3. Len(B) = 4 /\ B \in Seq({B[j] : j \in 1..4})
    BY DEF FileChecks
  <2> HIDE DEF H, F, B
  <2>. QED
    BY <2>1, <2>2, <2>3
<1>2. \A c \in S : c.code \in AdmissionCodes
  <2>1. \A j \in 1..4 : H[j].code \in AdmissionCodes
    BY DEF HeaderChecks, AdmissionCodes
  <2>2. \A j \in 1..2 : F[j].code \in AdmissionCodes
    BY DEF FormChecks, AdmissionCodes
  <2>3. \A j \in 1..4 : B[j].code \in AdmissionCodes
    BY DEF FileChecks, AdmissionCodes
  <2> HIDE DEF H, F, B
  <2>. QED
    BY <2>1, <2>2, <2>3
<1>3. AdmissionChecks(in) = H \o F \o B
  BY DEF AdmissionChecks
<1> HIDE DEF H, F, B, S
<1>4. AdmissionChecks(in) \in Seq(S)
  BY <1>1, <1>3
<1>. QED
  BY <1>2, <1>4

\* The parts of an answer are what it was built from.
LEMMA AnswerParts ==
    ASSUME NEW code \in Codes, NEW retryable \in BOOLEAN
    PROVE  /\ Answer(code, retryable).code = code
           /\ Answer(code, retryable).status = HttpStatus[code]
           /\ Answer(code, retryable).retryable = retryable
           /\ Answer(code, retryable) \in Answers
  BY DEF Answer, Answers, Codes, HttpStatus

\* The status map of domain/errors.py at the codes the handler gives.
LEMMA Statuses ==
    /\ "ACCEPTED" \in Codes
    /\ "DUPLICATE_FILE" \in Codes
    /\ "INTERNAL_ERROR" \in Codes
    /\ "UNHANDLED" \in Codes
    /\ "INVALID_REQUEST" \in AdmissionCodes
    /\ "DUPLICATE_FILE" \notin AdmissionCodes
    /\ AdmissionCodes \subseteq Codes
    /\ HttpStatus["ACCEPTED"] = 202
    /\ HttpStatus["DUPLICATE_FILE"] = 409
    /\ HttpStatus["INTERNAL_ERROR"] = 500
    /\ HttpStatus["UNHANDLED"] = 500
    /\ \A code \in AdmissionCodes : HttpStatus[code] \in 400..499
  BY DEF Codes, HttpStatus, AdmissionCodes

\* Two requests carry the same file exactly when their sentinel keys agree.
LEMMA SameFileIsSameKey ==
    ASSUME NEW q, NEW r
    PROVE  SameFile(q, r) <=> HashKey(input[q]) = HashKey(input[r])
  BY DEF SameFile, HashKey

\* The sentinel key of a request is one docHash is defined on.
LEMMA KeyOfInput ==
    ASSUME TypeOK, NEW r \in Requests
    PROVE  HashKey(input[r]) \in HashKeys
  BY DEF TypeOK, HashKeys

-----------------------------------------------------------------------------
(***************************************************************************)
(* Type correctness.                                                       *)
(***************************************************************************)

\* Moving a request along keeps step and answer well-typed.
LEMMA GotoType ==
    ASSUME TypeOK, NEW r \in Requests, NEW from, NEW to \in Steps, Goto(r, from, to)
    PROVE  /\ step' \in [Requests -> Steps]
           /\ answer' \in [Requests -> Answers \union {NoAnswer}]
  BY DEF TypeOK, Goto

\* So does answering it.
LEMMA ReplyType ==
    ASSUME TypeOK, NEW r \in Requests, NEW from, NEW code \in Codes,
           NEW retryable \in BOOLEAN, Reply(r, from, Answer(code, retryable))
    PROVE  /\ step' \in [Requests -> Steps]
           /\ answer' \in [Requests -> Answers \union {NoAnswer}]
  BY AnswerParts DEF TypeOK, Reply, Steps

\* So does the code between the duplicate check and the first write.
LEMMA PrepareType ==
    ASSUME TypeOK, NEW r \in Requests, NEW from, Prepare(r, from)
    PROVE  /\ step' \in [Requests -> Steps]
           /\ answer' \in [Requests -> Answers \union {NoAnswer}]
<1>1. CASE \E code \in Codes : Reply(r, from, Answer(code, FALSE))
  BY <1>1, ReplyType
<1>2. CASE Goto(r, from, "putOriginal")
  BY <1>2, GotoType DEF Steps, Running
<1>. QED
  BY <1>1, <1>2, Statuses DEF Prepare

\* Type correctness is preserved by every step of the handler.
LEMMA TypeStep == TypeOK /\ [Next]_vars => TypeOK'
<1> SUFFICES ASSUME TypeOK, [Next]_vars PROVE TypeOK'
  OBVIOUS
<1> USE DEF stores, history
<1>1. ASSUME NEW r \in Requests, Refuse(r) PROVE TypeOK'
  <2>1. /\ step' \in [Requests -> Steps]
        /\ answer' \in [Requests -> Answers \union {NoAnswer}]
    <3>1. PICK i \in 1..Len(AdmissionChecks(input[r])) :
             Reply(r, "idle", Answer(AdmissionChecks(input[r])[i].code, FALSE))
      BY <1>1 DEF Refuse
    <3>2. AdmissionChecks(input[r])[i].code \in Codes
      BY AdmissionCode, Statuses
    <3>. QED
      BY <3>1, <3>2, ReplyType
  <2>. QED
    BY <2>1, <1>1 DEF Refuse, TypeOK
<1>2. ASSUME NEW r \in Requests, Admit(r) PROVE TypeOK'
  <2>1. /\ step' \in [Requests -> Steps]
        /\ answer' \in [Requests -> Answers \union {NoAnswer}]
    BY <1>2, PrepareType, GotoType, ReplyType DEF Admit, Steps, Running
  <2>. QED
    BY <2>1, <1>2 DEF Admit, TypeOK
<1>3. ASSUME NEW r \in Requests, Proceed(r) PROVE TypeOK'
  <2>1. HashKey(input[r]) \in HashKeys
    BY KeyOfInput
  <2>2. /\ step' \in [Requests -> Steps]
        /\ answer' \in [Requests -> Answers \union {NoAnswer}]
    <3>1. CASE FindDuplicate(r)
      <4>1. Reply(r, "lookup", Answer("DUPLICATE_FILE", FALSE))
        BY <3>1 DEF FindDuplicate
      <4>. QED
        BY <4>1, ReplyType, Statuses
    <3>2. CASE FindNoDuplicate(r) \/ FindDuplicateFails(r)
      BY <3>2, PrepareType DEF FindNoDuplicate, FindDuplicateFails
    <3>3. CASE PutOriginalFails(r) \/ PutJobFails(r) \/ PublishFails(r) \/ Accept(r)
      BY <3>3, GotoType, ReplyType, Statuses
      DEF PutOriginalFails, PutJobFails, PublishFails, Accept
    <3>4. CASE \/ PutOriginal(r) \/ PutDocHash(r) \/ PutDocHashFails(r) \/ PutJob(r)
               \/ CacheJob(r) \/ CacheJobFails(r) \/ Publish(r)
      BY <3>4, GotoType, ReplyType DEF PutOriginal, PutDocHash, PutDocHashFails, PutJob,
                            CacheJob, CacheJobFails, Publish, Steps, Running
    <3>. QED
      BY <1>3, <3>1, <3>2, <3>3, <3>4 DEF Proceed
  <2>3. /\ original' \in SUBSET Requests
        /\ jobs' \in SUBSET Requests
        /\ jobCache' \in SUBSET Requests
        /\ queue' \in SUBSET Requests
        /\ faulted' \in SUBSET Requests
        /\ UNCHANGED <<input, seen>>
    BY <1>3 DEF TypeOK, Proceed, Fault, FindDuplicate, FindNoDuplicate,
                FindDuplicateFails, PutOriginal, PutOriginalFails, PutDocHash,
                PutDocHashFails, PutJob, PutJobFails, CacheJob, CacheJobFails,
                Publish, PublishFails, Accept
  <2>4. docHash' \in [HashKeys -> Requests \union {NoDoc}]
    BY <1>3, <2>1 DEF TypeOK, Proceed, FindDuplicate, FindNoDuplicate,
                FindDuplicateFails, PutOriginal, PutOriginalFails, PutDocHash,
                PutDocHashFails, PutJob, PutJobFails, CacheJob, CacheJobFails,
                Publish, PublishFails, Accept
  <2>5. HashKeys' = HashKeys
    BY DEF HashKeys, HashKey
  <2>. QED
    BY <2>2, <2>3, <2>4, <2>5 DEF TypeOK
<1>4. ASSUME NEW r \in Requests, Crash(r) PROVE TypeOK'
  BY <1>4 DEF Crash, TypeOK, Steps
<1>5. ASSUME NEW r \in Requests, ExpireCache(r) PROVE TypeOK'
  BY <1>5 DEF ExpireCache, TypeOK
<1>6. CASE UNCHANGED vars
  BY <1>6 DEF vars, TypeOK
<1>. QED
  BY <1>1, <1>2, <1>3, <1>4, <1>5, <1>6 DEF Next, Receive

\* The initial values are well-typed.
LEMMA TypeInit == Init => TypeOK
  BY DEF Init, TypeOK, Steps

\* Every variable keeps the shape the code gives it, whatever the requests, the
\* inputs and the configuration are.
THEOREM TypeCorrect == Spec => []TypeOK
  BY TypeInit, TypeStep, PTL DEF Spec

-----------------------------------------------------------------------------
(***************************************************************************)
(* What a step of one request does to the others, and to itself.           *)
(***************************************************************************)
Act(r) == Receive(r) \/ Proceed(r) \/ Crash(r) \/ ExpireCache(r)

\* The effect of an answer on the request and on the others.
LEMMA ReplyEffect ==
    ASSUME TypeOK, NEW r \in Requests, NEW from, NEW code \in Codes,
           NEW retryable \in BOOLEAN, Reply(r, from, Answer(code, retryable))
    PROVE  /\ step[r] = from
           /\ step'[r] = "answered"
           /\ answer'[r] = Answer(code, retryable)
           /\ answer'[r].code = code
           /\ answer'[r].status = HttpStatus[code]
           /\ \A q \in Requests \ {r} : step'[q] = step[q] /\ answer'[q] = answer[q]
  BY AnswerParts DEF TypeOK, Reply

\* The effect of moving a request along.
LEMMA GotoEffect ==
    ASSUME TypeOK, NEW r \in Requests, NEW from, NEW to, Goto(r, from, to)
    PROVE  /\ step[r] = from
           /\ step'[r] = to
           /\ answer' = answer
           /\ \A q \in Requests \ {r} : step'[q] = step[q]
  BY DEF TypeOK, Goto

\* Prepare refuses the request, fails on it or lets it write.
LEMMA PrepareEffect ==
    ASSUME TypeOK, NEW r \in Requests, NEW from, Prepare(r, from)
    PROVE  /\ step[r] = from
           /\ \/ /\ step'[r] = "answered"
                 /\ \E code \in {"INVALID_REQUEST", "UNHANDLED"} :
                       answer'[r] = Answer(code, FALSE)
              \/ step'[r] = "putOriginal" /\ answer' = answer
           /\ \A q \in Requests \ {r} : step'[q] = step[q] /\ answer'[q] = answer[q]
<1>1. CASE \E code \in {"INVALID_REQUEST", "UNHANDLED"} : Reply(r, from, Answer(code, FALSE))
  <2>1. PICK code \in {"INVALID_REQUEST", "UNHANDLED"} : Reply(r, from, Answer(code, FALSE))
    BY <1>1
  <2>2. code \in Codes
    BY Statuses
  <2>. QED
    BY <2>1, <2>2, ReplyEffect
<1>2. CASE Goto(r, from, "putOriginal")
  BY <1>2, GotoEffect
<1>. QED
  BY <1>1, <1>2 DEF Prepare

\* A request is received by a refusal, or is admitted to one of two steps.
LEMMA ReceiveEffect ==
    ASSUME TypeOK, NEW r \in Requests, Receive(r)
    PROVE  /\ step[r] = "idle"
           /\ \/ /\ step'[r] = "answered"
                 /\ \E code \in AdmissionCodes \union {"UNHANDLED"} :
                       answer'[r] = Answer(code, FALSE)
              \/ step'[r] = "putOriginal" /\ answer' = answer /\ input[r].overwrite
              \/ step'[r] = "lookup" /\ answer' = answer
           /\ seen' = [seen EXCEPT ![r] = {q \in Requests : step[q] = "answered"}]
           /\ UNCHANGED <<input, original, docHash, jobs, jobCache, queue, faulted>>
           /\ \A q \in Requests \ {r} : step'[q] = step[q] /\ answer'[q] = answer[q]
<1>1. CASE Refuse(r)
  <2>1. PICK i \in 1..Len(AdmissionChecks(input[r])) :
           Reply(r, "idle", Answer(AdmissionChecks(input[r])[i].code, FALSE))
    BY <1>1 DEF Refuse
  <2>2. AdmissionChecks(input[r])[i].code \in AdmissionCodes
    BY AdmissionCode
  <2>3. AdmissionChecks(input[r])[i].code \in Codes
    BY <2>2, Statuses
  <2>4. /\ step[r] = "idle"
        /\ step'[r] = "answered"
        /\ answer'[r] = Answer(AdmissionChecks(input[r])[i].code, FALSE)
        /\ \A q \in Requests \ {r} : step'[q] = step[q] /\ answer'[q] = answer[q]
    BY <2>1, <2>3, ReplyEffect
  <2>. QED
    BY <1>1, <2>2, <2>4 DEF Refuse, stores
<1>2. CASE Admit(r)
  <2>1. CASE input[r].overwrite
    <3>1. Prepare(r, "idle")
      BY <1>2, <2>1 DEF Admit
    <3>2. /\ step[r] = "idle"
          /\ \/ /\ step'[r] = "answered"
                /\ \E code \in {"INVALID_REQUEST", "UNHANDLED"} :
                      answer'[r] = Answer(code, FALSE)
             \/ step'[r] = "putOriginal" /\ answer' = answer
          /\ \A q \in Requests \ {r} : step'[q] = step[q] /\ answer'[q] = answer[q]
      BY <3>1, PrepareEffect
    <3>3. {"INVALID_REQUEST", "UNHANDLED"} \subseteq AdmissionCodes \union {"UNHANDLED"}
      BY Statuses
    <3>. QED
      BY <1>2, <2>1, <3>2, <3>3 DEF Admit, stores
  <2>2. CASE ~input[r].overwrite
    <3>1. Goto(r, "idle", "lookup")
      BY <1>2, <2>2 DEF Admit
    <3>. QED
      BY <1>2, <3>1, GotoEffect DEF Admit, stores
  <2>. QED
    BY <2>1, <2>2
<1>. QED
  BY <1>1, <1>2 DEF Receive

\* A running request that is answered ends in one of the answers of the code.
LEMMA ReplyEnds ==
    ASSUME TypeOK, NEW r \in Requests, NEW from \in Running, NEW code \in Codes,
           NEW retryable \in BOOLEAN, Reply(r, from, Answer(code, retryable))
    PROVE  /\ \A q \in Requests \ {r} : step'[q] = step[q] /\ answer'[q] = answer[q]
           /\ step[r] \in Running
           /\ step'[r] = "answered"
           /\ \E c \in Codes : answer'[r] \in {Answer(c, FALSE), Answer(c, TRUE)}
<1>1. /\ \A q \in Requests \ {r} : step'[q] = step[q] /\ answer'[q] = answer[q]
      /\ step[r] = from
      /\ step'[r] = "answered"
      /\ answer'[r] = Answer(code, retryable)
  BY ReplyEffect
<1>2. CASE retryable = FALSE
  BY <1>1, <1>2
<1>3. CASE retryable = TRUE
  BY <1>1, <1>3
<1>. QED
  BY <1>2, <1>3

\* How the coroutine of a received request moves: whom it answers and where it
\* goes, the stores left aside.
LEMMA ProceedEffect ==
    ASSUME TypeOK, NEW r \in Requests, Proceed(r)
    PROVE  /\ \A q \in Requests \ {r} : step'[q] = step[q] /\ answer'[q] = answer[q]
           /\ \/ /\ step[r] \in Running
                 /\ step'[r] = "answered"
                 /\ \E code \in Codes :
                       answer'[r] \in {Answer(code, FALSE), Answer(code, TRUE)}
              \/ /\ answer' = answer
                 /\ <<step[r], step'[r]>> \in
                      {<<"lookup", "putOriginal">>, <<"putOriginal", "putDocHash">>,
                       <<"putDocHash", "putJob">>, <<"putJob", "cacheJob">>,
                       <<"cacheJob", "publish">>, <<"publish", "return">>}
<1>1. CASE FindDuplicate(r)
  <2>1. Reply(r, "lookup", Answer("DUPLICATE_FILE", FALSE))
    BY <1>1 DEF FindDuplicate
  <2>2. "DUPLICATE_FILE" \in Codes /\ "lookup" \in Running
    BY Statuses DEF Running
  <2>. QED
    BY <2>1, <2>2, ReplyEnds
<1>2. CASE FindNoDuplicate(r) \/ FindDuplicateFails(r)
  <2>1. Prepare(r, "lookup")
    BY <1>2 DEF FindNoDuplicate, FindDuplicateFails
  <2>2. {"INVALID_REQUEST", "UNHANDLED"} \subseteq Codes
    BY Statuses
  <2>. QED
    BY <2>1, <2>2, PrepareEffect DEF Running
<1>3. CASE PutOriginalFails(r) \/ PutJobFails(r) \/ PublishFails(r)
  <2>1. PICK from \in Running : Reply(r, from, Answer("INTERNAL_ERROR", TRUE))
    BY <1>3 DEF PutOriginalFails, PutJobFails, PublishFails, Running
  <2>2. "INTERNAL_ERROR" \in Codes
    BY Statuses
  <2>. QED
    BY <2>1, <2>2, ReplyEnds
<1>4. CASE Accept(r)
  <2>1. Reply(r, "return", Answer("ACCEPTED", FALSE))
    BY <1>4 DEF Accept
  <2>2. "ACCEPTED" \in Codes /\ "return" \in Running
    BY Statuses DEF Running
  <2>. QED
    BY <2>1, <2>2, ReplyEnds
<1>5. CASE \/ PutOriginal(r) \/ PutDocHash(r) \/ PutDocHashFails(r) \/ PutJob(r)
           \/ CacheJob(r) \/ CacheJobFails(r) \/ Publish(r)
  BY <1>5, GotoEffect DEF PutOriginal, PutDocHash, PutDocHashFails, PutJob,
                          CacheJob, CacheJobFails, Publish
<1>. QED
  BY <1>1, <1>2, <1>3, <1>4, <1>5 DEF Proceed

\* The stores and histories a running request may write: its own entries, and
\* the sentinel of its file, which only the sentinel write touches.
LEMMA ProceedWrites ==
    ASSUME TypeOK, NEW r \in Requests, Proceed(r)
    PROVE  /\ original' \in {original, original \union {r}}
           /\ jobs' \in {jobs, jobs \union {r}}
           /\ jobCache' \in {jobCache, jobCache \union {r}}
           /\ queue' \in {queue, queue \union {r}}
           /\ faulted' \in {faulted, faulted \union {r}}
           /\ \/ docHash' = docHash
              \/ /\ step[r] = "putDocHash"
                 /\ docHash' = [docHash EXCEPT ![HashKey(input[r])] = r]
           /\ UNCHANGED <<input, seen>>
  BY DEF Proceed, Fault, Goto, stores, history, FindDuplicate, FindNoDuplicate,
         FindDuplicateFails, PutOriginal, PutOriginalFails, PutDocHash,
         PutDocHashFails, PutJob, PutJobFails, CacheJob, CacheJobFails,
         Publish, PublishFails, Accept

\* A step of r changes nothing of any other request (but for the cache entries
\* that expire with that of r), never removes an original,
\* a job or a message, and never clears a sentinel.
LEMMA OnlyActorMoves ==
    ASSUME TypeOK, NEW r \in Requests, Act(r)
    PROVE  /\ UNCHANGED input
           /\ \A q \in Requests \ {r} :
                 /\ step'[q] = step[q] /\ answer'[q] = answer[q] /\ seen'[q] = seen[q]
                 /\ q \in original' <=> q \in original
                 /\ q \in jobs' <=> q \in jobs
                 /\ q \in queue' <=> q \in queue
                 /\ q \in faulted' <=> q \in faulted
                 /\ q \in jobCache' => q \in jobCache
           /\ original \subseteq original' /\ jobs \subseteq jobs'
           /\ queue \subseteq queue' /\ faulted \subseteq faulted'
           /\ \A k \in HashKeys :
                 \/ docHash'[k] = docHash[k]
                 \/ step[r] = "putDocHash" /\ k = HashKey(input[r]) /\ docHash'[k] = r
<1>1. CASE Receive(r)
  BY <1>1, ReceiveEffect DEF TypeOK
<1>2. CASE Proceed(r)
  <2>1. \A q \in Requests \ {r} : step'[q] = step[q] /\ answer'[q] = answer[q]
    BY <1>2, ProceedEffect
  <2>2. \A k \in HashKeys :
           \/ docHash'[k] = docHash[k]
           \/ step[r] = "putDocHash" /\ k = HashKey(input[r]) /\ docHash'[k] = r
    BY <1>2, ProceedWrites DEF TypeOK
  <2>3. /\ original' \in {original, original \union {r}}
        /\ jobs' \in {jobs, jobs \union {r}}
        /\ jobCache' \in {jobCache, jobCache \union {r}}
        /\ queue' \in {queue, queue \union {r}}
        /\ faulted' \in {faulted, faulted \union {r}}
        /\ UNCHANGED <<input, seen>>
    BY <1>2, ProceedWrites
  <2>. QED
    BY <2>1, <2>2, <2>3
<1>3. CASE Crash(r)
  BY <1>3 DEF Crash, stores, history, TypeOK
<1>4. CASE ExpireCache(r)
  BY <1>4 DEF ExpireCache, history
<1>. QED
  BY <1>1, <1>2, <1>3, <1>4 DEF Act

-----------------------------------------------------------------------------
(***************************************************************************)
(* The parts of the inductive invariant, one lemma each.                   *)
(***************************************************************************)

\* The durability levels stay layered: a job is put only after its original, a
\* message is sent and a cache entry made only after the job.
LEMMA StoresStep ==
    ASSUME UploadInv, NEW r \in Requests, Act(r)
    PROVE  StoresAreLayered'
<1> USE DEF UploadInv, StoresAreLayered, WritesMatchStep
<1>1. CASE Receive(r)
  BY <1>1, ReceiveEffect
<1>2. CASE Proceed(r)
  <2>1. CASE \/ FindDuplicate(r) \/ FindNoDuplicate(r) \/ FindDuplicateFails(r)
             \/ PutDocHash(r) \/ PutDocHashFails(r) \/ Accept(r)
    BY <2>1 DEF FindDuplicate, FindNoDuplicate, FindDuplicateFails, PutDocHash,
                PutDocHashFails, Accept, stores
  <2>2. CASE PutOriginal(r) \/ PutOriginalFails(r)
    BY <2>2 DEF PutOriginal, PutOriginalFails
  <2>3. CASE PutJob(r) \/ PutJobFails(r)
    BY <2>3 DEF PutJob, PutJobFails, Goto, Reply
  <2>4. CASE CacheJob(r) \/ CacheJobFails(r)
    BY <2>4 DEF CacheJob, CacheJobFails, Goto
  <2>5. CASE Publish(r) \/ PublishFails(r)
    BY <2>5 DEF Publish, PublishFails, Goto, Reply
  <2>. QED
    BY <1>2, <2>1, <2>2, <2>3, <2>4, <2>5 DEF Proceed
<1>3. CASE Crash(r)
  BY <1>3 DEF Crash, stores
<1>4. CASE ExpireCache(r)
  BY <1>4 DEF ExpireCache
<1>. QED
  BY <1>1, <1>2, <1>3, <1>4 DEF Act

\* A step leaves no new trace of another request.
LEMMA NoTraceOfOthers ==
    ASSUME TypeOK, NEW r \in Requests, Act(r), NEW q \in Requests \ {r}, LeftTrace(q)'
    PROVE  LeftTrace(q)
<1>1. /\ q \in original' <=> q \in original
      /\ q \in jobs' <=> q \in jobs
      /\ q \in queue' <=> q \in queue
      /\ q \in jobCache' => q \in jobCache
  BY OnlyActorMoves
<1>2. \A k \in HashKeys : docHash'[k] = docHash[k] \/ docHash'[k] = r
  BY OnlyActorMoves
<1>. QED
  BY <1>1, <1>2 DEF LeftTrace

\* A request that has not reached its first write leaves no trace by being
\* received, looked up, refused or lost.
LEMMA NoTraceBeforeWriting ==
    ASSUME UploadInv, NEW r \in Requests, Act(r), step[r] \in {"idle", "lookup"}
    PROVE  ~LeftTrace(r)'
<1>1. ~LeftTrace(r)
  BY DEF UploadInv, WritesMatchStep
<1>2. UNCHANGED stores
  <2>1. CASE Receive(r)
    BY <2>1, ReceiveEffect DEF UploadInv, stores
  <2>2. CASE FindDuplicate(r) \/ FindNoDuplicate(r) \/ FindDuplicateFails(r)
    BY <2>2 DEF FindDuplicate, FindNoDuplicate, FindDuplicateFails
  <2>3. CASE Crash(r)
    BY <2>3 DEF Crash
  <2>4. ~ExpireCache(r)
    BY <1>1 DEF ExpireCache, LeftTrace
  <2>5. CASE Proceed(r)
    BY <2>5, <2>2 DEF Proceed, PutOriginal, PutOriginalFails, PutDocHash,
       PutDocHashFails, PutJob, PutJobFails, CacheJob, CacheJobFails, Publish,
       PublishFails, Accept, Goto, Reply
  <2>. QED
    BY <2>1, <2>3, <2>4, <2>5 DEF Act
<1>. QED
  BY <1>1, <1>2 DEF LeftTrace, stores

\* The writes behind a coroutine match its position after every step.
LEMMA WritesStep ==
    ASSUME UploadInv, NEW r \in Requests, Act(r)
    PROVE  WritesMatchStep'
<1>1. TypeOK
  BY DEF UploadInv
<1>2. ASSUME NEW q \in Requests \ {r}
      PROVE  WritesMatchStep!(q)'
  <2>1. LeftTrace(q)' => LeftTrace(q)
    BY <1>1, NoTraceOfOthers
  <2>2. /\ step'[q] = step[q]
        /\ q \in original' <=> q \in original
        /\ q \in jobs' <=> q \in jobs
        /\ q \in queue' <=> q \in queue
    BY <1>1, OnlyActorMoves
  <2>. QED
    BY <2>1, <2>2 DEF UploadInv, WritesMatchStep
<1>3. WritesMatchStep!(r)'
  <2>1. CASE step'[r] \in {"answered", "crashed"}
    BY <2>1
  <2>2. CASE Receive(r) /\ step'[r] # "answered"
    <3>1. step'[r] \in {"lookup", "putOriginal"} /\ ~LeftTrace(r)'
      BY <2>2, <1>1, ReceiveEffect, NoTraceBeforeWriting
    <3>. QED
      BY <3>1
  <2>3. CASE Proceed(r) /\ step'[r] # "answered"
    <3> USE DEF UploadInv, WritesMatchStep
    <3>1. CASE FindDuplicate(r) \/ FindNoDuplicate(r) \/ FindDuplicateFails(r)
      <4>1. step[r] = "lookup"
        BY <3>1 DEF FindDuplicate, FindNoDuplicate, FindDuplicateFails, Prepare, Goto, Reply
      <4>2. step'[r] = "putOriginal" /\ ~LeftTrace(r)'
        BY <2>3, <4>1, <1>1, ProceedEffect, NoTraceBeforeWriting
      <4>. QED
        BY <4>2
    <3>2. CASE PutOriginal(r)
      <4>1. /\ step[r] = "putOriginal" /\ step'[r] = "putDocHash"
            /\ r \in original' /\ UNCHANGED jobs
        BY <3>2, <1>1, GotoEffect DEF PutOriginal
      <4>. QED
        BY <4>1 DEF LeftTrace
    <3>3. CASE PutDocHash(r) \/ PutDocHashFails(r)
      <4>1. /\ step[r] = "putDocHash" /\ step'[r] = "putJob"
            /\ UNCHANGED <<original, jobs>>
        BY <3>3, <1>1, GotoEffect DEF PutDocHash, PutDocHashFails
      <4>. QED
        BY <4>1
    <3>4. CASE PutJob(r)
      <4>1. /\ step[r] = "putJob" /\ step'[r] = "cacheJob"
            /\ r \in jobs' /\ UNCHANGED <<original, queue>>
        BY <3>4, <1>1, GotoEffect DEF PutJob
      <4>. QED
        BY <4>1 DEF StoresAreLayered
    <3>5. CASE CacheJob(r) \/ CacheJobFails(r)
      <4>1. /\ step[r] = "cacheJob" /\ step'[r] = "publish"
            /\ UNCHANGED <<original, jobs, queue>>
        BY <3>5, <1>1, GotoEffect DEF CacheJob, CacheJobFails
      <4>. QED
        BY <4>1
    <3>6. CASE Publish(r)
      <4>1. /\ step[r] = "publish" /\ step'[r] = "return"
            /\ r \in queue' /\ UNCHANGED <<original, jobs>>
        BY <3>6, <1>1, GotoEffect DEF Publish
      <4>. QED
        BY <4>1
    <3>7. CASE PutOriginalFails(r) \/ PutJobFails(r) \/ PublishFails(r) \/ Accept(r)
      BY <2>3, <3>7 DEF PutOriginalFails, PutJobFails, PublishFails, Accept, Reply, TypeOK
    <3>. QED
      BY <2>3, <3>1, <3>2, <3>3, <3>4, <3>5, <3>6, <3>7 DEF Proceed
  <2>4. CASE ExpireCache(r)
    BY <2>4, <1>1, OnlyActorMoves DEF ExpireCache, UploadInv, WritesMatchStep, LeftTrace, history
  <2>5. CASE Crash(r)
    BY <2>5, <2>1, <1>1 DEF Crash, TypeOK
  <2>. QED
    BY <2>1, <2>2, <2>3, <2>4, <2>5 DEF Act
<1>. QED
  BY <1>2, <1>3 DEF WritesMatchStep

\* What a step can say to the caller of the request it is of: nothing new, a
\* refusal before the first write, a duplicate, an internal error or a 202.
LEMMA NewAnswer ==
    ASSUME TypeOK, NEW r \in Requests, Act(r)
    PROVE  \/ answer'[r] = answer[r]
           \/ /\ step[r] \in {"idle", "lookup"}
              /\ \E code \in AdmissionCodes \union {"UNHANDLED"} :
                    answer'[r] = Answer(code, FALSE)
           \/ FindDuplicate(r) /\ answer'[r] = Answer("DUPLICATE_FILE", FALSE)
           \/ answer'[r] = Answer("INTERNAL_ERROR", TRUE)
           \/ step[r] = "return" /\ answer'[r] = Answer("ACCEPTED", FALSE)
<1>1. CASE Receive(r)
  BY <1>1, ReceiveEffect
<1>2. CASE Proceed(r)
  <2>1. CASE FindDuplicate(r)
    BY <2>1 DEF FindDuplicate, Reply, TypeOK
  <2>2. CASE FindNoDuplicate(r) \/ FindDuplicateFails(r)
    <3>1. Prepare(r, "lookup")
      BY <2>2 DEF FindNoDuplicate, FindDuplicateFails
    <3>2. {"INVALID_REQUEST", "UNHANDLED"} \subseteq AdmissionCodes \union {"UNHANDLED"}
      BY Statuses
    <3>. QED
      BY <3>1, <3>2, PrepareEffect
  <2>3. CASE PutOriginalFails(r) \/ PutJobFails(r) \/ PublishFails(r)
    BY <2>3 DEF PutOriginalFails, PutJobFails, PublishFails, Reply, TypeOK
  <2>4. CASE Accept(r)
    BY <2>4 DEF Accept, Reply, TypeOK
  <2>5. CASE \/ PutOriginal(r) \/ PutDocHash(r) \/ PutDocHashFails(r) \/ PutJob(r)
             \/ CacheJob(r) \/ CacheJobFails(r) \/ Publish(r)
    BY <2>5 DEF PutOriginal, PutDocHash, PutDocHashFails, PutJob,
                CacheJob, CacheJobFails, Publish, Goto
  <2>. QED
    BY <1>2, <2>1, <2>2, <2>3, <2>4, <2>5 DEF Proceed
<1>3. CASE Crash(r) \/ ExpireCache(r)
  BY <1>3 DEF Crash, ExpireCache
<1>. QED
  BY <1>1, <1>2, <1>3 DEF Act

\* Code and status of each of them.
LEMMA NewAnswerIs ==
    ASSUME TypeOK, NEW r \in Requests, Act(r)
    PROVE  \/ answer'[r] = answer[r]
           \/ /\ step[r] \in {"idle", "lookup"}
              /\ answer'[r].code # "DUPLICATE_FILE"
              /\ answer'[r].status # 202
           \/ FindDuplicate(r) /\ answer'[r].status = 409
           \/ answer'[r].code = "INTERNAL_ERROR" /\ answer'[r].status = 500
           \/ /\ step[r] = "return"
              /\ answer'[r].code = "ACCEPTED"
              /\ answer'[r].status = 202
<1>1. CASE answer'[r] = answer[r]
  BY <1>1
<1>2. CASE /\ step[r] \in {"idle", "lookup"}
           /\ \E code \in AdmissionCodes \union {"UNHANDLED"} :
                 answer'[r] = Answer(code, FALSE)
  <2>1. PICK code \in AdmissionCodes \union {"UNHANDLED"} :
           answer'[r] = Answer(code, FALSE)
    BY <1>2
  <2>2. code \in Codes /\ code # "DUPLICATE_FILE" /\ HttpStatus[code] # 202
    BY Statuses
  <2>3. answer'[r].code = code /\ answer'[r].status = HttpStatus[code]
    BY <2>1 DEF Answer
  <2>. QED
    BY <1>2, <2>2, <2>3
<1>3. CASE FindDuplicate(r) /\ answer'[r] = Answer("DUPLICATE_FILE", FALSE)
  <2>1. "DUPLICATE_FILE" \in Codes /\ HttpStatus["DUPLICATE_FILE"] = 409
    BY Statuses
  <2>. QED
    BY <1>3, <2>1 DEF Answer
<1>4. CASE answer'[r] = Answer("INTERNAL_ERROR", TRUE)
  <2>1. "INTERNAL_ERROR" \in Codes /\ HttpStatus["INTERNAL_ERROR"] = 500
    BY Statuses
  <2>. QED
    BY <1>4, <2>1 DEF Answer
<1>5. CASE step[r] = "return" /\ answer'[r] = Answer("ACCEPTED", FALSE)
  <2>1. "ACCEPTED" \in Codes /\ HttpStatus["ACCEPTED"] = 202
    BY Statuses
  <2>. QED
    BY <1>5, <2>1 DEF Answer
<1>6. \/ answer'[r] = answer[r]
      \/ /\ step[r] \in {"idle", "lookup"}
         /\ \E code \in AdmissionCodes \union {"UNHANDLED"} :
               answer'[r] = Answer(code, FALSE)
      \/ FindDuplicate(r) /\ answer'[r] = Answer("DUPLICATE_FILE", FALSE)
      \/ answer'[r] = Answer("INTERNAL_ERROR", TRUE)
      \/ step[r] = "return" /\ answer'[r] = Answer("ACCEPTED", FALSE)
  BY NewAnswer
<1>. QED
  BY <1>6, <1>1, <1>2, <1>3, <1>4, <1>5

\* An answered request stays answered, with the same answer.
LEMMA AnswersAreFinal ==
    ASSUME TypeOK, NEW r \in Requests, Act(r), NEW q \in Requests, step[q] = "answered"
    PROVE  step'[q] = "answered" /\ answer'[q] = answer[q]
<1>1. CASE q # r
  BY <1>1, OnlyActorMoves
<1>2. CASE q = r
  <2>1. ~Receive(r)
    BY <1>2, ReceiveEffect
  <2>2. ~Proceed(r) /\ ~Crash(r)
    BY <1>2, ProceedEffect DEF Running, Crash
  <2>. QED
    BY <1>2, <2>1, <2>2 DEF Act, ExpireCache
<1>. QED
  BY <1>1, <1>2

\* Only an answered request has an answer, after every step.
LEMMA AnswersStep ==
    ASSUME UploadInv, NEW r \in Requests, Act(r)
    PROVE  AnswerMatchesStep'
<1>1. TypeOK /\ AnswerMatchesStep
  BY DEF UploadInv
<1>2. ASSUME NEW q \in Requests \ {r}
      PROVE  AnswerMatchesStep!(q)'
  <2>1. step'[q] = step[q] /\ answer'[q] = answer[q]
    BY <1>1, OnlyActorMoves
  <2>. QED
    BY <1>1, <2>1 DEF AnswerMatchesStep
<1>3. AnswerMatchesStep!(r)'
  <2>1. CASE Receive(r)
    <3>1. AdmissionCodes \union {"UNHANDLED"} \subseteq Codes
      BY Statuses
    <3>2. step[r] = "idle" => answer[r] = NoAnswer
      BY <1>1 DEF AnswerMatchesStep
    <3>. QED
      BY <1>1, <2>1, <3>1, <3>2, ReceiveEffect
  <2>2. CASE Proceed(r)
    <3>1. step[r] \in Running => answer[r] = NoAnswer
      BY <1>1 DEF AnswerMatchesStep, Running
    <3>. QED
      BY <1>1, <2>2, <3>1, ProceedEffect DEF Running
  <2>3. CASE Crash(r)
    BY <1>1, <2>3 DEF Crash, AnswerMatchesStep, TypeOK, Running
  <2>4. CASE ExpireCache(r)
    BY <1>1, <2>4 DEF ExpireCache, AnswerMatchesStep
  <2>. QED
    BY <2>1, <2>2, <2>3, <2>4 DEF Act
<1>. QED
  BY <1>2, <1>3 DEF AnswerMatchesStep

\* A sentinel is written for a stored original and never for another file.
LEMMA GenuineStep ==
    ASSUME UploadInv, NEW r \in Requests, Act(r)
    PROVE  SentinelsAreGenuine'
<1>1. TypeOK /\ SentinelsAreGenuine /\ WritesMatchStep
  BY DEF UploadInv
<1>2. /\ UNCHANGED input
      /\ original \subseteq original'
      /\ \A k \in HashKeys :
            \/ docHash'[k] = docHash[k]
            \/ step[r] = "putDocHash" /\ k = HashKey(input[r]) /\ docHash'[k] = r
  BY <1>1, OnlyActorMoves
<1>3. step[r] = "putDocHash" => r \in original
  BY <1>1 DEF WritesMatchStep
<1>4. HashKeys' = HashKeys
  BY DEF HashKeys, HashKey
<1>5. ASSUME NEW k \in HashKeys, docHash'[k] # NoDoc
      PROVE  docHash'[k] \in original' /\ HashKey(input'[docHash'[k]]) = k
  BY <1>1, <1>2, <1>3, <1>5 DEF SentinelsAreGenuine
<1>. QED
  BY <1>4, <1>5 DEF SentinelsAreGenuine, HashKey

\* Whoever is told 202 by a step had sent its message before it.
LEMMA AcceptedNow ==
    ASSUME UploadInv, NEW r \in Requests, Act(r), Accepted(r)'
    PROVE  Accepted(r) \/ step[r] = "return"
<1>1. TypeOK
  BY DEF UploadInv
<1>2. CASE FindDuplicate(r) /\ answer'[r].status = 409
  BY <1>2 DEF Accepted
<1>. QED
  BY <1>1, <1>2, NewAnswerIs DEF Accepted

\* An accepted request is an answered one.
LEMMA AcceptedIsAnswered ==
    ASSUME UploadInv, NEW q \in Requests, Accepted(q)
    PROVE  step[q] = "answered"
<1>1. NoAnswer.status # 202
  BY DEF NoAnswer
<1>2. step[q] # "answered" => answer[q] = NoAnswer
  BY DEF UploadInv, AnswerMatchesStep
<1>. QED
  BY <1>1, <1>2 DEF Accepted

\* After every step the sentinel of an unfaulted upload past its write exists:
\* the write makes it exist, and no later one clears it.
LEMMA SentinelStep ==
    ASSUME UploadInv, NEW r \in Requests, Act(r)
    PROVE  SentinelIsWritten'
<1>1. TypeOK /\ SentinelIsWritten
  BY DEF UploadInv
<1>2. /\ UNCHANGED input
      /\ faulted \subseteq faulted'
      /\ \A k \in HashKeys :
            \/ docHash'[k] = docHash[k]
            \/ step[r] = "putDocHash" /\ k = HashKey(input[r]) /\ docHash'[k] = r
  BY <1>1, OnlyActorMoves
<1>3. \A k \in HashKeys : docHash[k] # NoDoc => docHash'[k] # NoDoc
  BY <1>2, ConstantsAssumption
<1>4. ASSUME NEW q \in Requests \ faulted,
             \/ Accepted(q)
             \/ step[q] \in {"putJob", "cacheJob", "publish", "return"}
      PROVE  docHash'[HashKey(input[q])] # NoDoc
  BY <1>1, <1>3, <1>4, KeyOfInput DEF SentinelIsWritten
<1>5. ASSUME NEW q \in Requests \ faulted',
             \/ Accepted(q)'
             \/ step'[q] \in {"putJob", "cacheJob", "publish", "return"}
      PROVE  docHash'[HashKey(input[q])] # NoDoc
  <2>1. CASE q # r
    <3>1. step'[q] = step[q] /\ answer'[q] = answer[q]
      BY <1>1, <2>1, OnlyActorMoves
    <3>. QED
      BY <1>2, <1>4, <1>5, <3>1 DEF Accepted
  <2>2. CASE q = r /\ Accepted(r)'
    <3>1. Accepted(r) \/ step[r] = "return"
      BY <2>2, AcceptedNow
    <3>. QED
      BY <1>2, <1>4, <1>5, <2>2, <3>1
  <2>3. CASE q = r /\ step'[r] \in {"putJob", "cacheJob", "publish", "return"}
    <3>1. CASE Receive(r) \/ Crash(r)
      BY <1>1, <2>3, <3>1, ReceiveEffect DEF Crash, TypeOK
    <3>2. CASE PutDocHash(r)
      <4>1. HashKey(input[r]) \in HashKeys
        BY <1>1, KeyOfInput
      <4>. QED
        BY <1>1, <2>3, <3>2, <4>1, ConstantsAssumption DEF PutDocHash, TypeOK
    <3>3. CASE PutDocHashFails(r)
      BY <1>5, <2>3, <3>3 DEF PutDocHashFails, Fault
    <3>4. CASE Proceed(r) /\ step[r] # "putDocHash"
      <4>1. step[r] \in {"putJob", "cacheJob", "publish"}
        BY <1>1, <2>3, <3>4, ProceedEffect
      <4>. QED
        BY <1>2, <1>4, <1>5, <2>3, <4>1
    <3>5. CASE Proceed(r) /\ step[r] = "putDocHash"
      BY <3>2, <3>3, <3>5 DEF Proceed, Prepare, Goto, Reply, FindDuplicate,
         FindNoDuplicate, FindDuplicateFails, PutOriginal, PutOriginalFails, PutJob,
         PutJobFails, CacheJob, CacheJobFails, Publish, PublishFails, Accept
    <3>6. CASE ExpireCache(r)
      BY <1>2, <1>4, <1>5, <2>3, <3>6 DEF ExpireCache
    <3>. QED
      BY <3>1, <3>4, <3>5, <3>6 DEF Act
  <2>. QED
    BY <1>5, <2>1, <2>2, <2>3
<1>. QED
  BY <1>2, <1>5 DEF SentinelIsWritten, HashKey

\* The requests answered when one was received stay answered.
LEMMA SeenStep ==
    ASSUME UploadInv, NEW r \in Requests, Act(r)
    PROVE  SeenAreAnswered'
<1>1. TypeOK /\ SeenAreAnswered
  BY DEF UploadInv
<1>2. ASSUME NEW p \in Requests, NEW q \in seen'[p]
      PROVE  step'[q] = "answered"
  <2>1. CASE p # r \/ ~Receive(r)
    <3>1. seen'[p] = seen[p]
      BY <1>1, <2>1, OnlyActorMoves, ProceedWrites DEF Act, Crash, ExpireCache, history
    <3>. QED
      BY <1>1, <1>2, <3>1, AnswersAreFinal DEF SeenAreAnswered, TypeOK
  <2>2. CASE p = r /\ Receive(r)
    <3>1. q \in Requests /\ step[q] = "answered"
      <4>1. seen' = [seen EXCEPT ![r] = {x \in Requests : step[x] = "answered"}]
        BY <1>1, <2>2, ReceiveEffect
      <4>2. seen'[r] = {x \in Requests : step[x] = "answered"}
        BY <1>1, <4>1 DEF TypeOK
      <4>. QED
        BY <1>2, <2>2, <4>2
    <3>. QED
      BY <1>1, <3>1, AnswersAreFinal
  <2>. QED
    BY <2>1, <2>2
<1>. QED
  BY <1>2 DEF SeenAreAnswered

\* An unfaulted upload gets past the duplicate check only while no unfaulted
\* upload of the file was accepted before it was received.
LEMMA PassedStep ==
    ASSUME UploadInv, NEW r \in Requests, Act(r)
    PROVE  PassedDuplicateCheck'
<1>1. /\ TypeOK /\ SeenAreAnswered /\ PassedDuplicateCheck /\ SentinelIsWritten
      /\ AnswerMatchesStep
  BY DEF UploadInv
<1>2. UNCHANGED input /\ faulted \subseteq faulted'
  BY <1>1, OnlyActorMoves
<1>3. ASSUME NEW p \in Requests \ faulted', ~input[p].overwrite,
             Accepted(p)' \/ step'[p] \in Running \ {"lookup"},
             NEW q \in seen'[p], Accepted(q)', SameFile(q, p)
      PROVE  q \in faulted'
  <2>1. CASE /\ seen'[p] = seen[p]
             /\ Accepted(p) \/ step[p] \in Running \ {"lookup"}
    <3>1. q \in Requests /\ step[q] = "answered"
      BY <1>1, <1>3, <2>1 DEF SeenAreAnswered, TypeOK
    <3>2. Accepted(q)
      BY <1>1, <1>3, <3>1, AnswersAreFinal DEF Accepted
    <3>. QED
      BY <1>1, <1>2, <1>3, <2>1, <3>2 DEF PassedDuplicateCheck
  <2>2. CASE p # r
    <3>1. seen'[p] = seen[p] /\ step'[p] = step[p] /\ answer'[p] = answer[p]
      BY <1>1, <2>2, OnlyActorMoves
    <3>. QED
      BY <1>3, <2>1, <3>1 DEF Accepted
  <2>3. CASE p = r /\ Receive(r)
    <3>1. step[r] = "idle" /\ (step'[r] \in {"answered", "lookup"})
      BY <1>1, <1>3, <2>3, ReceiveEffect
    <3>2. ~Accepted(r)'
      <4>1. ~Accepted(r)
        BY <3>1, AcceptedIsAnswered
      <4>. QED
        BY <3>1, <4>1, AcceptedNow
    <3>. QED
      BY <1>3, <2>3, <3>1, <3>2 DEF Running
  <2>4. CASE p = r /\ Proceed(r)
    <3>1. UNCHANGED seen
      BY <1>1, <2>4, ProceedWrites
    <3>2. CASE step[r] # "lookup"
      <4>1. step[r] \in Running \ {"lookup"}
        BY <1>1, <2>4, <3>2, ProceedEffect DEF Running
      <4>. QED
        BY <2>1, <2>4, <3>1, <4>1
    <3>3. CASE step[r] = "lookup"
      <4>1. ~Accepted(r)'
        <5>1. ~Accepted(r)
          BY <3>3, AcceptedIsAnswered
        <5>. QED
          BY <3>3, <5>1, AcceptedNow
      <4>2. step'[r] # "answered"
        BY <1>3, <2>4, <4>1 DEF Running
      <4>3. ~FindDuplicate(r)
        BY <1>1, <4>2 DEF FindDuplicate, Reply, TypeOK
      <4>4. ~FindDuplicateFails(r)
        BY <1>3, <2>4 DEF FindDuplicateFails, Fault
      <4>5. FindNoDuplicate(r)
        BY <2>4, <3>3, <4>3, <4>4 DEF Proceed, Goto, Reply, PutOriginal,
           PutOriginalFails, PutDocHash, PutDocHashFails, PutJob, PutJobFails,
           CacheJob, CacheJobFails, Publish, PublishFails, Accept
      <4>6. docHash[HashKey(input[q])] = NoDoc
        BY <1>3, <2>4, <4>5, SameFileIsSameKey DEF FindNoDuplicate
      <4>7. q \in Requests /\ Accepted(q)
        <5>1. q \in Requests /\ step[q] = "answered"
          BY <1>1, <1>3, <2>4, <3>1 DEF SeenAreAnswered, TypeOK
        <5>. QED
          BY <1>1, <1>3, <5>1, AnswersAreFinal DEF Accepted
      <4>8. q \in faulted
        BY <1>1, <4>6, <4>7 DEF SentinelIsWritten
      <4>. QED
        BY <1>2, <4>8
    <3>. QED
      BY <3>2, <3>3
  <2>5. CASE p = r /\ Crash(r)
    <3>1. step'[r] = "crashed" /\ UNCHANGED <<answer, seen>>
      BY <1>1, <2>5 DEF Crash, TypeOK, history
    <3>. QED
      BY <1>3, <2>1, <2>5, <3>1 DEF Running, Accepted
  <2>6. CASE p = r /\ ExpireCache(r)
    BY <1>3, <2>1, <2>6 DEF ExpireCache, history, Accepted
  <2>. QED
    BY <2>2, <2>3, <2>4, <2>5, <2>6 DEF Act
<1>. QED
  BY <1>2, <1>3 DEF PassedDuplicateCheck, SameFile

\* A request is turned down only before the first write, and nothing is written for
\* an answered request.
LEMMA RefusalStep ==
    ASSUME UploadInv, NEW r \in Requests, Act(r)
    PROVE  RefusalLeavesNothing'
<1>1. TypeOK /\ RefusalLeavesNothing /\ AnswerMatchesStep
  BY DEF UploadInv
<1>2. ASSUME NEW q \in Requests, TurnedDown(answer'[q]), LeftTrace(q)'
      PROVE  FALSE
  <2>1. CASE q # r
    <3>1. answer'[q] = answer[q] /\ LeftTrace(q)
      BY <1>1, <1>2, <2>1, OnlyActorMoves, NoTraceOfOthers
    <3>. QED
      BY <1>1, <1>2, <3>1 DEF RefusalLeavesNothing
  <2>2. CASE q = r
    <3>1. step[r] \notin {"idle", "lookup"}
      BY <1>2, <2>2, NoTraceBeforeWriting
    <3>2. ~FindDuplicate(r)
      BY <3>1 DEF FindDuplicate, Reply
    <3>3. answer'[r] = answer[r]
      <4>1. /\ answer'[r].status = 500 => answer'[r].code # "INTERNAL_ERROR"
            /\ answer'[r].status = 202 => answer'[r].code # "ACCEPTED"
        BY <1>2, <2>2 DEF TurnedDown
      <4>. QED
        BY <1>1, <3>1, <3>2, <4>1, NewAnswerIs
    <3>4. step[r] = "answered"
      <4>1. ~TurnedDown(NoAnswer)
        BY DEF NoAnswer, TurnedDown
      <4>2. step[r] # "answered" => answer[r] = NoAnswer
        BY <1>1 DEF AnswerMatchesStep
      <4>. QED
        BY <1>2, <2>2, <3>3, <4>1, <4>2
    <3>5. ExpireCache(r)
      <4>1. ~Receive(r)
        BY <1>1, <3>4, ReceiveEffect
      <4>2. ~Proceed(r) /\ ~Crash(r)
        BY <1>1, <3>4, ProceedEffect DEF Running, Crash
      <4>. QED
        BY <4>1, <4>2 DEF Act
    <3>6. LeftTrace(r)
      BY <3>5 DEF ExpireCache, LeftTrace
    <3>. QED
      BY <1>1, <1>2, <2>2, <3>3, <3>6 DEF RefusalLeavesNothing
  <2>. QED
    BY <2>1, <2>2
<1>. QED
  BY <1>2 DEF RefusalLeavesNothing

\* A 202 is answered only past the last write, and the writes stay.
LEMMA DurableStep ==
    ASSUME UploadInv, NEW r \in Requests, Act(r)
    PROVE  AcceptedIsDurable'
<1>1. TypeOK /\ AcceptedIsDurable /\ WritesMatchStep
  BY DEF UploadInv
<1>2. /\ original \subseteq original' /\ jobs \subseteq jobs' /\ queue \subseteq queue'
      /\ \A q \in Requests \ {r} : answer'[q] = answer[q]
  BY <1>1, OnlyActorMoves
<1>3. ASSUME NEW q \in Requests, Accepted(q)'
      PROVE  q \in original \intersect jobs \intersect queue
  <2>1. CASE Accepted(q)
    BY <1>1, <2>1 DEF AcceptedIsDurable
  <2>2. CASE q # r
    BY <1>2, <1>3, <2>1, <2>2 DEF Accepted
  <2>3. CASE q = r
    <3>1. Accepted(r) \/ step[r] = "return"
      BY <1>3, <2>3, AcceptedNow
    <3>. QED
      BY <1>1, <2>1, <2>3, <3>1 DEF WritesMatchStep
  <2>. QED
    BY <2>2, <2>3
<1>. QED
  BY <1>2, <1>3 DEF AcceptedIsDurable

\* A 409 is answered only when the sentinel of the file names another upload,
\* whose original stays.
LEMMA DuplicateStep ==
    ASSUME UploadInv, NEW r \in Requests, Act(r)
    PROVE  DuplicateIsGenuine'
<1>1. TypeOK /\ DuplicateIsGenuine /\ SentinelsAreGenuine /\ WritesMatchStep
  BY DEF UploadInv
<1>2. /\ UNCHANGED input /\ original \subseteq original'
      /\ \A q \in Requests \ {r} : answer'[q] = answer[q]
  BY <1>1, OnlyActorMoves
<1>3. ASSUME NEW p \in Requests, answer'[p].code = "DUPLICATE_FILE"
      PROVE  \E q \in original \ {p} : SameFile(q, p)
  <2>1. CASE answer'[p] = answer[p]
    BY <1>1, <1>3, <2>1 DEF DuplicateIsGenuine
  <2>2. CASE p = r /\ FindDuplicate(r)
    <3> DEFINE k == HashKey(input[r])
    <3>1. k \in HashKeys
      BY <1>1, KeyOfInput
    <3>2. docHash[k] # NoDoc /\ step[r] = "lookup"
      BY <2>2 DEF FindDuplicate, Reply
    <3>3. docHash[k] \in original /\ HashKey(input[docHash[k]]) = k
      BY <1>1, <3>1, <3>2 DEF SentinelsAreGenuine
    <3>4. docHash[k] # r
      BY <1>1, <3>1, <3>2 DEF WritesMatchStep, LeftTrace
    <3>5. SameFile(docHash[k], r)
      BY <3>3, SameFileIsSameKey
    <3>. QED
      BY <2>2, <3>3, <3>4, <3>5
  <2>3. CASE p # r
    BY <1>2, <2>1, <2>3
  <2>4. CASE p = r /\ answer'[r] # answer[r] /\ ~FindDuplicate(r)
    BY <1>1, <1>3, <2>4, NewAnswerIs
  <2>. QED
    BY <2>1, <2>2, <2>3, <2>4
<1>. QED
  BY <1>2, <1>3 DEF DuplicateIsGenuine, SameFile

-----------------------------------------------------------------------------
(***************************************************************************)
(* The inductive invariant and what follows from it.                       *)
(***************************************************************************)

\* Nothing is stored and nobody answered at first.
LEMMA InvInit == Init => UploadInv
<1> SUFFICES ASSUME Init PROVE UploadInv
  OBVIOUS
<1>1. TypeOK
  BY TypeInit
<1>2. \A r \in Requests :
         /\ step[r] = "idle"
         /\ answer[r] = NoAnswer
         /\ seen[r] = {}
         /\ ~LeftTrace(r)
  BY ConstantsAssumption DEF Init, LeftTrace
<1>3. NoAnswer.status = 0 /\ NoAnswer.code = "NONE" /\ ~TurnedDown(NoAnswer)
  BY DEF NoAnswer, TurnedDown
<1>4. WritesMatchStep /\ AnswerMatchesStep /\ StoresAreLayered /\ SeenAreAnswered
  BY <1>2 DEF Init, WritesMatchStep, AnswerMatchesStep, StoresAreLayered, SeenAreAnswered
<1>5. SentinelsAreGenuine
  BY DEF Init, SentinelsAreGenuine
<1>6. SentinelIsWritten /\ PassedDuplicateCheck
  BY <1>2, <1>3 DEF SentinelIsWritten, PassedDuplicateCheck, Accepted, Running
<1>7. RefusalLeavesNothing /\ AcceptedIsDurable /\ DuplicateIsGenuine
  BY <1>2, <1>3 DEF RefusalLeavesNothing, AcceptedIsDurable, DuplicateIsGenuine, Accepted
<1>. QED
  BY <1>1, <1>4, <1>5, <1>6, <1>7 DEF UploadInv

\* Every step preserves it.
LEMMA InvStep == UploadInv /\ [Next]_vars => UploadInv'
<1> SUFFICES ASSUME UploadInv, [Next]_vars PROVE UploadInv'
  OBVIOUS
<1>1. TypeOK'
  BY TypeStep DEF UploadInv
<1>2. ASSUME NEW r \in Requests, Act(r) PROVE UploadInv'
  <2>1. WritesMatchStep' /\ AnswerMatchesStep' /\ StoresAreLayered'
    BY <1>2, WritesStep, AnswersStep, StoresStep
  <2>2. SentinelsAreGenuine' /\ SentinelIsWritten'
    BY <1>2, GenuineStep, SentinelStep
  <2>3. PassedDuplicateCheck' /\ SeenAreAnswered'
    BY <1>2, PassedStep, SeenStep
  <2>4. RefusalLeavesNothing' /\ AcceptedIsDurable' /\ DuplicateIsGenuine'
    BY <1>2, RefusalStep, DurableStep, DuplicateStep
  <2>. QED
    BY <1>1, <2>1, <2>2, <2>3, <2>4 DEF UploadInv
<1>3. CASE UNCHANGED vars
  <2> USE <1>3 DEF vars, UploadInv
  <2>1. WritesMatchStep' /\ AnswerMatchesStep' /\ StoresAreLayered'
    BY DEF WritesMatchStep, AnswerMatchesStep, StoresAreLayered, LeftTrace
  <2>2. SentinelsAreGenuine' /\ SentinelIsWritten'
    BY DEF SentinelsAreGenuine, SentinelIsWritten, Accepted, HashKey
  <2>3. PassedDuplicateCheck' /\ SeenAreAnswered'
    BY DEF PassedDuplicateCheck, SeenAreAnswered, Accepted, SameFile
  <2>4. RefusalLeavesNothing'
    BY DEF RefusalLeavesNothing, TurnedDown, LeftTrace
  <2>5. AcceptedIsDurable'
    BY DEF AcceptedIsDurable, Accepted
  <2>6. DuplicateIsGenuine'
    BY DEF DuplicateIsGenuine, SameFile
  <2>. QED
    BY <1>1, <2>1, <2>2, <2>3, <2>4, <2>5, <2>6
<1>. QED
  BY <1>2, <1>3 DEF Next, Act

\* The position of each coroutine determines which of its writes the stores
\* hold, whatever the others do, fail or crash at.
THEOREM UploadCorrect == Spec => []UploadInv
  BY InvInit, InvStep, PTL DEF Spec

\* A 4xx leaves nothing behind, for every set of inputs and requests.
THEOREM RefusalCorrect == Spec => []RefusalLeavesNothing
<1>1. UploadInv => RefusalLeavesNothing
  BY DEF UploadInv
<1>. QED
  BY <1>1, UploadCorrect, PTL

\* A 202 finds the original, the job and the message in the stores for ever.
THEOREM AcceptanceCorrect == Spec => []AcceptedIsDurable
<1>1. UploadInv => AcceptedIsDurable
  BY DEF UploadInv
<1>. QED
  BY <1>1, UploadCorrect, PTL

\* No message and no cache entry is visible before what it refers to.
THEOREM MessagesCorrect == Spec => []MessageIsProcessable
<1>1. UploadInv => MessageIsProcessable
  BY DEF UploadInv, StoresAreLayered, MessageIsProcessable
<1>. QED
  BY <1>1, UploadCorrect, PTL

\* A 409 is always caused by a stored upload of the same file and tenant.
THEOREM DuplicateCorrect == Spec => []DuplicateIsGenuine
<1>1. UploadInv => DuplicateIsGenuine
  BY DEF UploadInv
<1>. QED
  BY <1>1, UploadCorrect, PTL

\* Without a store failure of their own, of two uploads of a file sent one after
\* the other the second is not accepted unless it asks to overwrite.
THEOREM RepeatCorrect == Spec => []RepeatIsRefused
<1>1. UploadInv => RepeatIsRefused
  BY DEF UploadInv, PassedDuplicateCheck, RepeatIsRefused
<1>. QED
  BY <1>1, UploadCorrect, PTL

-----------------------------------------------------------------------------
(***************************************************************************)
(* The mapping.                                                            *)
(***************************************************************************)

\* What each status means to the caller.
LEMMA Meanings ==
    /\ ReplyMeant(0) = "none"
    /\ ReplyMeant(202) = "accepted"
    /\ ReplyMeant(409) = "duplicate"
    /\ ReplyMeant(500) = "failed"
    /\ \A status \in 400..499 \ {409} : ReplyMeant(status) = "refused"
  BY DEF ReplyMeant

\* The level of an upload is read off the stores that hold it.
LEMMA LevelOf ==
    ASSUME StoresAreLayered, NEW r \in Requests
    PROVE  /\ r \in queue => DurableLevel(r) = "queued"
           /\ r \in jobs /\ r \notin queue => DurableLevel(r) = "registered"
           /\ r \in original /\ r \notin jobs => DurableLevel(r) = "stored"
           /\ r \notin original => DurableLevel(r) = "nothing"
  BY DEF StoresAreLayered, DurableLevel

\* A request still running, or not yet received, has been told nothing.
LEMMA ToldNothing ==
    ASSUME UploadInv, NEW r \in Requests, step[r] \notin {"answered", "crashed"}
    PROVE  ReplyTo(r) = "none"
<1>1. answer[r] = NoAnswer /\ NoAnswer.status = 0
  BY DEF UploadInv, AnswerMatchesStep, NoAnswer
<1>. QED
  BY <1>1, Meanings DEF ReplyTo

\* The same after a step.
LEMMA StillToldNothing ==
    ASSUME UploadInv, NEW r \in Requests, Act(r), step'[r] \notin {"answered", "crashed"}
    PROVE  ReplyTo(r)' = "none"
<1>1. answer'[r] = NoAnswer /\ NoAnswer.status = 0
  BY AnswersStep DEF AnswerMatchesStep, NoAnswer
<1>. QED
  BY <1>1, Meanings DEF ReplyTo

\* A step of one request is invisible in the level and the reply of another.
LEMMA OthersUnchanged ==
    ASSUME UploadInv, NEW r \in Requests, Act(r), NEW q \in Requests \ {r}
    PROVE  DurableLevel(q)' = DurableLevel(q) /\ ReplyTo(q)' = ReplyTo(q)
<1>1. /\ step'[q] = step[q] /\ answer'[q] = answer[q]
      /\ q \in original' <=> q \in original
      /\ q \in jobs' <=> q \in jobs
      /\ q \in queue' <=> q \in queue
  BY OnlyActorMoves DEF UploadInv
<1>. QED
  BY <1>1 DEF DurableLevel, ReplyTo

\* A step that leaves the level and the reply of its own request alone is a
\* stutter of the contract.
LEMMA Stutters ==
    ASSUME UploadInv, NEW r \in Requests, Act(r),
           DurableLevel(r)' = DurableLevel(r), ReplyTo(r)' = ReplyTo(r)
    PROVE  UNCHANGED Contract!vars
<1>1. UNCHANGED input
  BY OnlyActorMoves DEF UploadInv
<1>2. \A q \in Requests : DurableLevel(q)' = DurableLevel(q) /\ ReplyTo(q)' = ReplyTo(q)
  BY OthersUnchanged
<1>3. UNCHANGED [q \in Requests |-> <<input[q].tenant, input[q].body>>]
  BY <1>1
<1>4. UNCHANGED [q \in Requests |-> DurableLevel(q)]
  BY <1>2
<1>5. UNCHANGED [q \in Requests |-> ReplyTo(q)]
  BY <1>2
<1>. QED
  BY <1>3, <1>4, <1>5 DEF Contract!vars

\* What a visible step does, in the variables of the contract.
LEMMA Visible ==
    ASSUME UploadInv, NEW r \in Requests, Act(r)
    PROVE  /\ UNCHANGED [q \in Requests |-> <<input[q].tenant, input[q].body>>]
           /\ [q \in Requests |-> DurableLevel(q)]' =
                [[q \in Requests |-> DurableLevel(q)] EXCEPT ![r] = DurableLevel(r)']
           /\ [q \in Requests |-> ReplyTo(q)]' =
                [[q \in Requests |-> ReplyTo(q)] EXCEPT ![r] = ReplyTo(r)']
<1>1. UNCHANGED input
  BY OnlyActorMoves DEF UploadInv
<1>2. \A q \in Requests \ {r} :
         DurableLevel(q)' = DurableLevel(q) /\ ReplyTo(q)' = ReplyTo(q)
  BY OthersUnchanged
<1>3. UNCHANGED [q \in Requests |-> <<input[q].tenant, input[q].body>>]
  BY <1>1
<1>4. [q \in Requests |-> DurableLevel(q)]' =
         [[q \in Requests |-> DurableLevel(q)] EXCEPT ![r] = DurableLevel(r)']
  BY <1>2
<1>5. [q \in Requests |-> ReplyTo(q)]' =
         [[q \in Requests |-> ReplyTo(q)] EXCEPT ![r] = ReplyTo(r)']
  BY <1>2
<1>. QED
  BY <1>3, <1>4, <1>5

-----------------------------------------------------------------------------
(***************************************************************************)
(* From what a step does to the level and the reply of its request to the  *)
(* action of the contract.                                                 *)
(***************************************************************************)

\* A write while the caller waits.
LEMMA IsGrow ==
    ASSUME UploadInv, NEW r \in Requests, Act(r),
           ReplyTo(r) = "none", ReplyTo(r)' = "none",
           Contract!Grows(DurableLevel(r), DurableLevel(r)')
    PROVE  Contract!Grow(r)
<1>1. UNCHANGED [q \in Requests |-> ReplyTo(q)]
  BY Visible
<1>2. DurableLevel(r)' \in Contract!DurableLevels
  BY DEF Contract!DurableLevels, DurableLevel
<1>. QED
  BY <1>1, <1>2, Visible DEF Contract!Grow

\* An answer that leaves the stores alone.
LEMMA IsTell ==
    ASSUME UploadInv, NEW r \in Requests, Act(r),
           ReplyTo(r) = "none", DurableLevel(r)' = DurableLevel(r)
    PROVE  /\ Contract!Tell(r, ReplyTo(r)')
           /\ UNCHANGED [q \in Requests |-> DurableLevel(q)]
<1>1. UNCHANGED [q \in Requests |-> DurableLevel(q)]
  BY Visible
<1>. QED
  BY <1>1, Visible DEF Contract!Tell

\* A failure, after which at most one more level is durable.
LEMMA IsFail ==
    ASSUME UploadInv, NEW r \in Requests, Act(r),
           ReplyTo(r) = "none", ReplyTo(r)' = "failed",
           \/ DurableLevel(r)' = DurableLevel(r)
           \/ Contract!Grows(DurableLevel(r), DurableLevel(r)')
    PROVE  Contract!Fail(r)
<1>1. Contract!Tell(r, "failed")
  BY Visible DEF Contract!Tell
<1>2. CASE DurableLevel(r)' = DurableLevel(r)
  BY <1>1, <1>2, IsTell DEF Contract!Fail
<1>3. CASE Contract!Grows(DurableLevel(r), DurableLevel(r)')
  <2>1. DurableLevel(r)' \in Contract!DurableLevels
    BY DEF Contract!DurableLevels, DurableLevel
  <2>. QED
    BY <1>1, <1>3, <2>1, Visible DEF Contract!Fail
<1>. QED
  BY <1>2, <1>3

\* The status of an answer decides the reply.
LEMMA ReplyOfAnswer ==
    ASSUME UploadInv, NEW r \in Requests, NEW from, NEW code, NEW retryable,
           Reply(r, from, Answer(code, retryable))
    PROVE  ReplyTo(r)' = ReplyMeant(HttpStatus[code])
<1>1. step'[r] = "answered" /\ answer'[r] = Answer(code, retryable)
  BY DEF UploadInv, TypeOK, Reply
<1>2. answer'[r].status = HttpStatus[code]
  BY <1>1 DEF Answer
<1>. QED
  BY <1>1, <1>2 DEF ReplyTo

\* Answering leaves the contract's level alone when the stores stay.
LEMMA SameStores ==
    ASSUME NEW r \in Requests, UNCHANGED <<original, jobs, queue>>
    PROVE  DurableLevel(r)' = DurableLevel(r)
  BY DEF DurableLevel

\* A refusal before the first write is one the contract allows.
LEMMA IsRefuse ==
    ASSUME UploadInv, NEW r \in Requests, Act(r), step[r] \in {"idle", "lookup"},
           UNCHANGED <<original, jobs, queue>>, step'[r] = "answered",
           \E code \in AdmissionCodes \union {"UNHANDLED"} :
               answer'[r] = Answer(code, FALSE)
    PROVE  Contract!Refuse(r) \/ Contract!Fail(r)
<1>1. ReplyTo(r) = "none"
  BY ToldNothing
<1>2. DurableLevel(r)' = DurableLevel(r)
  BY SameStores
<1>3. DurableLevel(r) = "nothing"
  <2>1. StoresAreLayered /\ r \notin original
    BY DEF UploadInv, WritesMatchStep, LeftTrace
  <2>. QED
    BY <2>1, LevelOf
<1>4. PICK code \in AdmissionCodes \union {"UNHANDLED"} : answer'[r] = Answer(code, FALSE)
  OBVIOUS
<1>5. ReplyTo(r)' = ReplyMeant(HttpStatus[code])
  <2>1. answer'[r].status = HttpStatus[code]
    BY <1>4 DEF Answer
  <2>. QED
    BY <2>1 DEF ReplyTo
<1>6. CASE code = "UNHANDLED"
  <2>1. ReplyTo(r)' = "failed"
    BY <1>5, <1>6, Statuses, Meanings
  <2>. QED
    BY <1>1, <1>2, <2>1, IsFail
<1>7. CASE code \in AdmissionCodes
  <2>1. HttpStatus[code] \in 400..499 \ {409}
    BY <1>7 DEF HttpStatus, AdmissionCodes
  <2>2. ReplyTo(r)' = "refused"
    BY <1>5, <2>1, Meanings
  <2>3. /\ Contract!Tell(r, "refused")
        /\ UNCHANGED [q \in Requests |-> DurableLevel(q)]
    BY <1>1, <1>2, <2>2, IsTell
  <2>. QED
    BY <1>3, <2>3 DEF Contract!Refuse
<1>. QED
  BY <1>4, <1>6, <1>7

-----------------------------------------------------------------------------
(***************************************************************************)
(* The refinement.                                                         *)
(***************************************************************************)

\* The handler starts where the contract does.
LEMMA RefinesInit == Init => Contract!Init
<1> SUFFICES ASSUME Init PROVE Contract!Init
  OBVIOUS
<1>1. UploadInv
  BY InvInit
<1>2. ASSUME NEW r \in Requests
      PROVE  DurableLevel(r) = "nothing" /\ ReplyTo(r) = "none"
  BY <1>1, ToldNothing, LevelOf DEF Init, StoresAreLayered
<1>. QED
  BY <1>2 DEF Contract!Init

\* Every step of the handler is a step of the contract, or invisible in it.
LEMMA RefinesStep ==
    ASSUME UploadInv, NEW r \in Requests, Act(r)
    PROVE  [Contract!Next]_Contract!vars
<1>1. TypeOK /\ StoresAreLayered /\ WritesMatchStep /\ AnswerMatchesStep /\ UploadInv'
  <2>1. Next
    BY DEF Next, Act
  <2>. QED
    BY <2>1, InvStep DEF UploadInv
<1>2. ASSUME \/ Contract!Grow(r) \/ Contract!Accept(r) \/ Contract!Refuse(r)
             \/ Contract!RefuseDuplicate(r) \/ Contract!Fail(r) \/ Contract!Lose(r)
      PROVE  Contract!Next
  BY <1>2 DEF Contract!Next
<1>3. ASSUME UNCHANGED <<original, jobs, queue>>,
             step[r] \notin {"answered", "crashed"}, step'[r] \notin {"answered", "crashed"}
      PROVE  UNCHANGED Contract!vars
  <2>1. ReplyTo(r) = "none" /\ ReplyTo(r)' = "none"
    BY <1>3, ToldNothing, StillToldNothing
  <2>. QED
    BY <1>3, <2>1, SameStores, Stutters
<1>4. CASE Receive(r) \/ FindNoDuplicate(r) \/ FindDuplicateFails(r)
  <2>1. /\ step[r] \in {"idle", "lookup"}
        /\ UNCHANGED <<original, jobs, queue>>
        /\ \/ /\ step'[r] = "answered"
              /\ \E code \in AdmissionCodes \union {"UNHANDLED"} :
                    answer'[r] = Answer(code, FALSE)
           \/ step'[r] \in {"lookup", "putOriginal"}
    <3>1. CASE Receive(r)
      BY <1>1, <3>1, ReceiveEffect
    <3>2. CASE FindNoDuplicate(r) \/ FindDuplicateFails(r)
      <4>1. Prepare(r, "lookup") /\ UNCHANGED <<original, jobs, queue>>
        BY <3>2 DEF FindNoDuplicate, FindDuplicateFails, stores
      <4>2. {"INVALID_REQUEST", "UNHANDLED"} \subseteq AdmissionCodes \union {"UNHANDLED"}
        BY Statuses
      <4>. QED
        BY <1>1, <4>1, <4>2, PrepareEffect
    <3>. QED
      BY <1>4, <3>1, <3>2
  <2>2. CASE step'[r] = "answered"
    BY <1>2, <2>1, <2>2, IsRefuse
  <2>3. CASE step'[r] # "answered"
    BY <1>3, <2>1, <2>3
  <2>. QED
    BY <2>2, <2>3
<1>5. CASE FindDuplicate(r)
  <2>1. Reply(r, "lookup", Answer("DUPLICATE_FILE", FALSE)) /\ UNCHANGED stores
    BY <1>5 DEF FindDuplicate
  <2>2. ReplyTo(r) = "none" /\ ReplyTo(r)' = "duplicate"
    <3>1. "DUPLICATE_FILE" \in Codes /\ HttpStatus["DUPLICATE_FILE"] = 409
      BY Statuses
    <3>2. ReplyTo(r)' = ReplyMeant(HttpStatus["DUPLICATE_FILE"])
      <4>1. Reply(r, "lookup", Answer("DUPLICATE_FILE", FALSE))
        BY <2>1
      <4>. QED
        BY <4>1, ReplyOfAnswer
    <3>3. step[r] = "lookup"
      BY <2>1 DEF Reply
    <3>. QED
      BY <3>1, <3>2, <3>3, Meanings, ToldNothing
  <2>3. DurableLevel(r) = "nothing" /\ DurableLevel(r)' = DurableLevel(r)
    BY <1>1, <2>1, LevelOf, SameStores DEF Reply, WritesMatchStep, LeftTrace, stores
  <2>4. \E q \in Requests \ {r} :
           /\ <<input[q].tenant, input[q].body>> = <<input[r].tenant, input[r].body>>
           /\ DurableLevel(q) # "nothing"
    <3>1. answer'[r].code = "DUPLICATE_FILE"
      BY <1>1, <2>1 DEF Reply, Answer, TypeOK
    <3>2. PICK q \in original' \ {r} : SameFile(q, r)'
      BY <1>1, <3>1 DEF UploadInv, DuplicateIsGenuine
    <3>3. q \in original /\ q \in Requests /\ SameFile(q, r)
      BY <1>1, <1>5, <3>2 DEF FindDuplicate, stores, SameFile, TypeOK
    <3>4. DurableLevel(q) # "nothing"
      BY <3>3 DEF DurableLevel
    <3>. QED
      BY <3>2, <3>3, <3>4 DEF SameFile
  <2>5. /\ Contract!Tell(r, "duplicate")
        /\ UNCHANGED [q \in Requests |-> DurableLevel(q)]
    BY <2>2, <2>3, IsTell
  <2>. QED
    BY <1>2, <2>3, <2>4, <2>5 DEF Contract!RefuseDuplicate
<1>6. CASE \/ PutDocHash(r) \/ PutDocHashFails(r) \/ CacheJob(r) \/ CacheJobFails(r)
  <2>1. /\ UNCHANGED <<original, jobs, queue>>
        /\ step[r] \in {"putDocHash", "cacheJob"}
        /\ step'[r] \in {"putJob", "publish"}
    BY <1>1, <1>6 DEF PutDocHash, PutDocHashFails, CacheJob, CacheJobFails, Goto, TypeOK
  <2>. QED
    BY <1>3, <2>1
<1>7. CASE PutOriginal(r) \/ PutJob(r) \/ Publish(r)
  <2>1. /\ step[r] \in {"putOriginal", "putJob", "publish"}
        /\ step'[r] \in {"putDocHash", "cacheJob", "return"}
    BY <1>1, <1>7 DEF PutOriginal, PutJob, Publish, Goto, TypeOK
  <2>2. Contract!Grows(DurableLevel(r), DurableLevel(r)')
    <3>1. CASE PutOriginal(r)
      <4>1. r \notin original /\ r \notin jobs' /\ r \in original'
        BY <1>1, <3>1 DEF PutOriginal, Goto, WritesMatchStep, LeftTrace
      <4>. QED
        BY <1>1, <4>1, LevelOf DEF UploadInv, DurableLevel, StoresAreLayered, Contract!Grows
    <3>2. CASE PutJob(r)
      <4>1. r \in original /\ r \notin jobs /\ r \in jobs' /\ r \notin queue'
        BY <1>1, <3>2 DEF PutJob, Goto, WritesMatchStep, StoresAreLayered
      <4>. QED
        BY <1>1, <4>1, LevelOf DEF DurableLevel, StoresAreLayered, Contract!Grows
    <3>3. CASE Publish(r)
      <4>1. r \in jobs /\ r \notin queue /\ r \in queue'
        BY <1>1, <3>3 DEF Publish, Goto, WritesMatchStep
      <4>. QED
        BY <1>1, <4>1, LevelOf DEF DurableLevel, Contract!Grows
    <3>. QED
      BY <1>7, <3>1, <3>2, <3>3
  <2>3. ReplyTo(r) = "none" /\ ReplyTo(r)' = "none"
    BY <2>1, ToldNothing, StillToldNothing
  <2>. QED
    BY <1>2, <2>2, <2>3, IsGrow
<1>8. CASE PutOriginalFails(r) \/ PutJobFails(r) \/ PublishFails(r)
  <2>1. PICK from \in {"putOriginal", "putJob", "publish"} :
           Reply(r, from, Answer("INTERNAL_ERROR", TRUE))
    BY <1>8 DEF PutOriginalFails, PutJobFails, PublishFails
  <2>2. ReplyTo(r) = "none"
    BY <2>1, ToldNothing DEF Reply
  <2>3. ReplyTo(r)' = "failed"
    <3>1. ReplyTo(r)' = ReplyMeant(HttpStatus["INTERNAL_ERROR"])
      BY <2>1, ReplyOfAnswer
    <3>. QED
      BY <3>1, Statuses, Meanings
  <2>4. \/ DurableLevel(r)' = DurableLevel(r)
        \/ Contract!Grows(DurableLevel(r), DurableLevel(r)')
    <3>1. CASE PutOriginalFails(r)
      <4>1. r \notin original /\ r \notin jobs' /\ r \notin queue' /\ r \notin jobs /\ r \notin queue
        BY <1>1, <3>1 DEF PutOriginalFails, Reply, WritesMatchStep, LeftTrace
      <4>. QED
        BY <4>1 DEF DurableLevel, Contract!Grows
    <3>2. CASE PutJobFails(r)
      <4>1. /\ r \in original /\ r \in original' /\ r \notin jobs
            /\ r \notin queue /\ r \notin queue'
        BY <1>1, <3>2 DEF PutJobFails, Reply, WritesMatchStep, StoresAreLayered
      <4>. QED
        BY <4>1 DEF DurableLevel, Contract!Grows
    <3>3. CASE PublishFails(r)
      <4>1. r \in jobs /\ r \in jobs' /\ r \notin queue
        BY <1>1, <3>3 DEF PublishFails, Reply, WritesMatchStep
      <4>. QED
        BY <4>1 DEF DurableLevel, Contract!Grows
    <3>. QED
      BY <1>8, <3>1, <3>2, <3>3
  <2>. QED
    BY <1>2, <2>2, <2>3, <2>4, IsFail
<1>9. CASE Accept(r)
  <2>1. Reply(r, "return", Answer("ACCEPTED", FALSE)) /\ UNCHANGED stores
    BY <1>9 DEF Accept
  <2>2. ReplyTo(r) = "none" /\ ReplyTo(r)' = "accepted"
    <3>1. "ACCEPTED" \in Codes /\ HttpStatus["ACCEPTED"] = 202
      BY Statuses
    <3>2. ReplyTo(r)' = ReplyMeant(HttpStatus["ACCEPTED"])
      <4>1. Reply(r, "return", Answer("ACCEPTED", FALSE))
        BY <2>1
      <4>. QED
        BY <4>1, ReplyOfAnswer
    <3>3. step[r] = "return"
      BY <2>1 DEF Reply
    <3>. QED
      BY <3>1, <3>2, <3>3, Meanings, ToldNothing
  <2>3. DurableLevel(r) = "queued" /\ DurableLevel(r)' = DurableLevel(r)
    BY <1>1, <2>1, LevelOf, SameStores DEF Reply, WritesMatchStep, stores
  <2>4. /\ Contract!Tell(r, "accepted")
        /\ UNCHANGED [q \in Requests |-> DurableLevel(q)]
    BY <2>2, <2>3, IsTell
  <2>. QED
    BY <1>2, <2>3, <2>4 DEF Contract!Accept
<1>10. CASE Crash(r)
  <2>1. step[r] \in Running /\ step'[r] = "crashed" /\ UNCHANGED <<original, jobs, queue>>
    BY <1>1, <1>10 DEF Crash, stores, TypeOK
  <2>2. ReplyTo(r) = "none" /\ ReplyTo(r)' = "lost"
    BY <2>1, ToldNothing DEF Running, ReplyTo
  <2>3. /\ Contract!Tell(r, "lost")
        /\ UNCHANGED [q \in Requests |-> DurableLevel(q)]
    BY <2>1, <2>2, IsTell, SameStores
  <2>. QED
    BY <1>2, <2>3 DEF Contract!Lose
<1>11. CASE ExpireCache(r)
  BY <1>11, Stutters DEF ExpireCache, DurableLevel, ReplyTo
<1>. QED
  BY <1>4, <1>5, <1>6, <1>7, <1>8, <1>9, <1>10, <1>11 DEF Act, Proceed

\* The handler implements the contract.
THEOREM UploadImplements == Spec => ContractSpec
<1>1. UploadInv /\ [Next]_vars => [Contract!Next]_Contract!vars
  <2>1. CASE Next
    BY <2>1, RefinesStep DEF Next, Act
  <2>2. CASE UNCHANGED vars
    BY <2>2 DEF vars, Contract!vars, DurableLevel, ReplyTo
  <2>. QED
    BY <2>1, <2>2
<1>. QED
  BY <1>1, RefinesInit, UploadCorrect, PTL DEF Spec, ContractSpec, Contract!Spec
=============================================================================
