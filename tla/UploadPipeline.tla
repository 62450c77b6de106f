--------------------------- MODULE UploadPipeline ----------------------------
(***************************************************************************)
(* POST /internal/documents/upload: many requests run                      *)
(* UploadDocumentUseCase.execute concurrently against one S3 bucket, one   *)
(* Redis and one indexing queue.  The coroutine of a request gives up      *)
(* control only where it awaits a store, so one action is the store call   *)
(* together with the code that runs up to the next await.                  *)
(*                                                                         *)
(* A request is a member of Requests.  The doc_id and job_id generated for *)
(* it are fresh (uuid7), so the request itself names its document and job. *)
(* A client's retry is another request with an equal input.                *)
(***************************************************************************)
EXTENDS UploadAdmission

CONSTANTS
    Requests,       \* upload requests that may ever arrive
    Inputs,         \* what a request may carry, records read by UploadAdmission
    NoDoc,          \* no document, the value of a doc_hash key never written
    StoresFail,     \* TRUE when S3, Redis and SQS calls may raise InfraError
    ServersCrash    \* TRUE when a server process may die with its requests

ASSUME ConstantsAssumption ==
    /\ NoDoc \notin Requests
    /\ StoresFail \in BOOLEAN
    /\ ServersCrash \in BOOLEAN

VARIABLES
    input,          \* [Requests -> Inputs], what each request carries
    step,           \* where the coroutine of each request is
    answer,         \* what each request was answered, NoAnswer before
    original,       \* documents whose original file is in S3
    docHash,        \* doc_hash sentinel keys in S3: the doc_id they hold
    jobs,           \* jobs whose JSON is in S3
    jobCache,       \* jobs whose JSON is in Redis, not yet expired
    queue,          \* jobs a message of the indexing queue names
    faulted,        \* history: requests that met an InfraError of a store
    seen            \* history: requests answered when each one was received

stores == <<original, docHash, jobs, jobCache, queue>>
history == <<faulted, seen>>
vars == <<input, step, answer, original, docHash, jobs, jobCache, queue,
          faulted, seen>>

Running == {"lookup", "putOriginal", "putDocHash", "putJob", "cacheJob",
            "publish", "return"}
Steps == Running \union {"idle", "answered", "crashed"}

NoAnswer == [code |-> "NONE", status |-> 0, retryable |-> FALSE]

\* Mutant of HashKey: the tenant is forgotten.
HashKeyOfBody(in) == <<in.body>>

\* {tenant_id}/doc_hash/{sha256}.json, SHA-256 taken to be injective.
HashKey(in) == <<in.tenant, in.body>>
HashKeys == {HashKey(in) : in \in Inputs}

Init ==
    /\ input \in [Requests -> Inputs]
    /\ step = [r \in Requests |-> "idle"]
    /\ answer = [r \in Requests |-> NoAnswer]
    /\ original = {}
    /\ docHash = [k \in HashKeys |-> NoDoc]
    /\ jobs = {}
    /\ jobCache = {}
    /\ queue = {}
    /\ faulted = {}
    /\ seen = [r \in Requests |-> {}]

-----------------------------------------------------------------------------
(***************************************************************************)
(* Moves of one request.                                                   *)
(***************************************************************************)
Goto(r, from, to) ==
    /\ step[r] = from
    /\ step' = [step EXCEPT ![r] = to]
    /\ UNCHANGED answer

Reply(r, from, a) ==
    /\ step[r] = from
    /\ step' = [step EXCEPT ![r] = "answered"]
    /\ answer' = [answer EXCEPT ![r] = a]

\* A store call raises InfraError.
Fault(r) ==
    /\ StoresFail
    /\ faulted' = faulted \union {r}
    /\ UNCHANGED seen

\* The code between the duplicate check and the first write: the Document is
\* built and its coherence checked, then the extension is looked up.
Prepare(r, from) ==
    \/ /\ ~DocumentCoherent(input[r])
       /\ Reply(r, from, Answer("INVALID_REQUEST", FALSE))
    \/ /\ DocumentCoherent(input[r])
       /\ input[r].mime \notin MimeToExt
       /\ Reply(r, from, Answer("UNHANDLED", FALSE))
    \/ /\ DocumentCoherent(input[r])
       /\ input[r].mime \in MimeToExt
       /\ Goto(r, from, "putOriginal")

\* One of the checks of UploadAdmission refuses the request.
Refuse(r) ==
    /\ step[r] = "idle"
    /\ \E i \in 1..Len(AdmissionChecks(input[r])) :
          /\ RefusedBy(input[r], i)
          /\ Reply(r, "idle", Answer(AdmissionChecks(input[r])[i].code, FALSE))
    /\ seen' = [seen EXCEPT ![r] = {q \in Requests : step[q] = "answered"}]
    /\ UNCHANGED <<input, stores, faulted>>

\* All of them pass; overwrite_if_duplicate skips the duplicate check.
Admit(r) ==
    /\ step[r] = "idle"
    /\ Admitted(input[r])
    /\ IF input[r].overwrite THEN Prepare(r, "idle") ELSE Goto(r, "idle", "lookup")
    /\ seen' = [seen EXCEPT ![r] = {q \in Requests : step[q] = "answered"}]
    /\ UNCHANGED <<input, stores, faulted>>

-----------------------------------------------------------------------------
(***************************************************************************)
(* The duplicate check: HEAD of the sentinel key.                          *)
(***************************************************************************)
FindDuplicate(r) ==
    /\ docHash[HashKey(input[r])] # NoDoc
    /\ Reply(r, "lookup", Answer("DUPLICATE_FILE", FALSE))
    /\ UNCHANGED <<input, stores, history>>

FindNoDuplicate(r) ==
    /\ docHash[HashKey(input[r])] = NoDoc
    /\ Prepare(r, "lookup")
    /\ UNCHANGED <<input, stores, history>>

\* Any InfraError is taken to mean that the file is new.
FindDuplicateFails(r) ==
    /\ Prepare(r, "lookup")
    /\ Fault(r)
    /\ UNCHANGED <<input, stores>>

-----------------------------------------------------------------------------
(***************************************************************************)
(* The writes, in order.  A call that raises may have taken effect: the    *)
(* store performed it and the response was lost.                           *)
(***************************************************************************)
PutOriginal(r) ==
    /\ Goto(r, "putOriginal", "putDocHash")
    /\ original' = original \union {r}
    /\ UNCHANGED <<input, docHash, jobs, jobCache, queue, history>>

PutOriginalFails(r) ==
    /\ Reply(r, "putOriginal", Answer("INTERNAL_ERROR", TRUE))
    /\ original' \in {original, original \union {r}}
    /\ Fault(r)
    /\ UNCHANGED <<input, docHash, jobs, jobCache, queue>>

\* Mutant of PutDocHash: a flag is written instead of the doc_id.
PutFlag(r) ==
    /\ Goto(r, "putDocHash", "putJob")
    /\ docHash' = [docHash EXCEPT ![HashKey(input[r])] = TRUE]
    /\ UNCHANGED <<input, original, jobs, jobCache, queue, history>>

\* Mutant of PutDocHash: a sentinel found at the write is answered with 409,
\* the original already being stored.
PutDocHashIfAbsent(r) ==
    /\ IF docHash[HashKey(input[r])] = NoDoc
       THEN /\ Goto(r, "putDocHash", "putJob")
            /\ docHash' = [docHash EXCEPT ![HashKey(input[r])] = r]
       ELSE /\ Reply(r, "putDocHash", Answer("DUPLICATE_FILE", FALSE))
            /\ UNCHANGED docHash
    /\ UNCHANGED <<input, original, jobs, jobCache, queue, history>>

\* Mutant of PutDocHash: the sentinel is written for overwriting uploads only.
PutDocHashWhenOverwriting(r) ==
    /\ Goto(r, "putDocHash", "putJob")
    /\ docHash' = IF input[r].overwrite
                  THEN [docHash EXCEPT ![HashKey(input[r])] = r] ELSE docHash
    /\ UNCHANGED <<input, original, jobs, jobCache, queue, history>>

PutDocHash(r) ==
    /\ Goto(r, "putDocHash", "putJob")
    /\ docHash' = [docHash EXCEPT ![HashKey(input[r])] = r]
    /\ UNCHANGED <<input, original, jobs, jobCache, queue, history>>

\* Only a warning is logged; the upload goes on.
PutDocHashFails(r) ==
    /\ Goto(r, "putDocHash", "putJob")
    /\ docHash' \in {docHash, [docHash EXCEPT ![HashKey(input[r])] = r]}
    /\ Fault(r)
    /\ UNCHANGED <<input, original, jobs, jobCache, queue>>

\* Mutant of PutJob: the job is put in Redis only.
PutJobInCache(r) ==
    /\ Goto(r, "putJob", "cacheJob")
    /\ jobCache' = jobCache \union {r}
    /\ UNCHANGED <<input, original, docHash, jobs, queue, history>>

PutJob(r) ==
    /\ Goto(r, "putJob", "cacheJob")
    /\ jobs' = jobs \union {r}
    /\ UNCHANGED <<input, original, docHash, jobCache, queue, history>>

PutJobFails(r) ==
    /\ Reply(r, "putJob", Answer("INTERNAL_ERROR", TRUE))
    /\ jobs' \in {jobs, jobs \union {r}}
    /\ Fault(r)
    /\ UNCHANGED <<input, original, docHash, jobCache, queue>>

\* Mutant of CacheJob: 202 is answered before the message is sent.
CacheJobAndAccept(r) ==
    /\ Reply(r, "cacheJob", Answer("ACCEPTED", FALSE))
    /\ jobCache' = jobCache \union {r}
    /\ UNCHANGED <<input, original, docHash, jobs, queue, history>>

CacheJob(r) ==
    /\ Goto(r, "cacheJob", "publish")
    /\ jobCache' = jobCache \union {r}
    /\ UNCHANGED <<input, original, docHash, jobs, queue, history>>

\* Only a warning is logged; readers of the job fall back to S3.
CacheJobFails(r) ==
    /\ Goto(r, "cacheJob", "publish")
    /\ jobCache' \in {jobCache, jobCache \union {r}}
    /\ Fault(r)
    /\ UNCHANGED <<input, original, docHash, jobs, queue>>

Publish(r) ==
    /\ Goto(r, "publish", "return")
    /\ queue' = queue \union {r}
    /\ UNCHANGED <<input, original, docHash, jobs, jobCache, history>>

\* Mutant of PublishFails: only a warning is logged.
PublishFailureIgnored(r) ==
    /\ Goto(r, "publish", "return")
    /\ queue' \in {queue, queue \union {r}}
    /\ Fault(r)
    /\ UNCHANGED <<input, original, docHash, jobs, jobCache>>

\* Mutant of PublishFails: registering and sending are retried without a bound.
PublishRetried(r) ==
    /\ Goto(r, "publish", "putJob")
    /\ queue' \in {queue, queue \union {r}}
    /\ Fault(r)
    /\ UNCHANGED <<input, original, docHash, jobs, jobCache>>

PublishFails(r) ==
    /\ Reply(r, "publish", Answer("INTERNAL_ERROR", TRUE))
    /\ queue' \in {queue, queue \union {r}}
    /\ Fault(r)
    /\ UNCHANGED <<input, original, docHash, jobs, jobCache>>

Accept(r) ==
    /\ Reply(r, "return", Answer("ACCEPTED", FALSE))
    /\ UNCHANGED <<input, stores, history>>

-----------------------------------------------------------------------------
(***************************************************************************)
(* The environment.                                                        *)
(***************************************************************************)

\* The server process dies and the connection is cut; nothing resumes r.
Crash(r) ==
    /\ ServersCrash
    /\ step[r] \in Running
    /\ step' = [step EXCEPT ![r] = "crashed"]
    /\ UNCHANGED <<input, answer, stores, history>>

\* The TTL of a cached job, job_cache_ttl_s, runs out, together with those of
\* other jobs that were cached in the same second.
ExpireCache(r) ==
    /\ r \in jobCache
    /\ \E others \in SUBSET jobCache : jobCache' = jobCache \ ({r} \union others)
    /\ UNCHANGED <<input, step, answer, original, docHash, jobs, queue, history>>

Receive(r) == Refuse(r) \/ Admit(r)

\* What the coroutine of a received request does next.
Proceed(r) ==
    \/ FindDuplicate(r)  \/ FindNoDuplicate(r)  \/ FindDuplicateFails(r)
    \/ PutOriginal(r)    \/ PutOriginalFails(r)
    \/ PutDocHash(r)     \/ PutDocHashFails(r)
    \/ PutJob(r)         \/ PutJobFails(r)
    \/ CacheJob(r)       \/ CacheJobFails(r)
    \/ Publish(r)        \/ PublishFails(r)
    \/ Accept(r)

Next ==
    \E r \in Requests : Receive(r) \/ Proceed(r) \/ Crash(r) \/ ExpireCache(r)

Spec == Init /\ [][Next]_vars

\* The event loop resumes every coroutine whose await has completed, and every
\* store call completes or raises.  Arrivals, crashes and expiry are not fair.
Fairness == \A r \in Requests : WF_vars(Proceed(r))

FairSpec == Spec /\ Fairness

-----------------------------------------------------------------------------
(***************************************************************************)
(* Properties.                                                             *)
(***************************************************************************)
SameFile(q, r) ==
    /\ input[q].tenant = input[r].tenant
    /\ input[q].body = input[r].body

Accepted(r) == answer[r].status = 202

LeftTrace(r) ==
    \/ r \in original \union jobs \union jobCache \union queue
    \/ \E k \in HashKeys : docHash[k] = r

\* Every variable has the shape the code gives it.
TypeOK ==
    /\ input \in [Requests -> Inputs]
    /\ step \in [Requests -> Steps]
    /\ answer \in [Requests -> Answers \union {NoAnswer}]
    /\ original \in SUBSET Requests
    /\ docHash \in [HashKeys -> Requests \union {NoDoc}]
    /\ jobs \in SUBSET Requests
    /\ jobCache \in SUBSET Requests
    /\ queue \in SUBSET Requests
    /\ faulted \in SUBSET Requests
    /\ seen \in [Requests -> SUBSET Requests]

\* A 4xx, or the exception no handler maps: a whitelisted MIME type without an
\* extension.
TurnedDown(a) == a.status \in 400..499 \/ a.code = "UNHANDLED"

\* A request that is turned down has left no object, key or message in any
\* store: every check and every lookup that can end it runs before the first
\* write of execute.
RefusalLeavesNothing ==
    \A r \in Requests : TurnedDown(answer[r]) => ~LeftTrace(r)

\* A 202 promises that indexing will find everything: the original, the job
\* JSON and a message, whatever the cache and the sentinel write did.
AcceptedIsDurable ==
    \A r \in Requests : Accepted(r) => r \in original \intersect jobs \intersect queue

\* At no moment, crashes and lost responses included, can a worker receive a
\* message whose job JSON or original is missing, or a reader be served from
\* Redis a job that S3, the source of truth, does not hold.
MessageIsProcessable ==
    /\ queue \subseteq jobs \intersect original
    /\ jobCache \subseteq jobs

\* A 409 is never caused by another tenant or another file: some other upload
\* of the same file by the same tenant has its original stored.
DuplicateIsGenuine ==
    \A r \in Requests : answer[r].code = "DUPLICATE_FILE" =>
        \E q \in original \ {r} : SameFile(q, r)

\* An upload received after the same file was accepted is not accepted again
\* without overwrite_if_duplicate, unless a store failed one of the two calls
\* (the sentinel write of the first, the HEAD of the second).
RepeatIsRefused ==
    \A r \in Requests : \A q \in seen[r] :
        Accepted(q) /\ Accepted(r) /\ SameFile(q, r)
            => input[r].overwrite \/ q \in faulted \/ r \in faulted

\* Every received upload is answered, unless its server dies: no store failure
\* leaves the coroutine waiting.
EveryUploadSettles ==
    \A r \in Requests :
        step[r] \in Running ~> step[r] \in {"answered", "crashed"}

-----------------------------------------------------------------------------
(***************************************************************************)
(* What the documents say and the code does not do.                        *)
(***************************************************************************)

\* docs/03 section 6: uploading a file of the same SHA-256 again is answered
\* 409, and proceeds only under the explicit overwrite option.
OneUploadPerFile ==
    \A q, r \in Requests :
        q # r /\ Accepted(q) /\ Accepted(r) /\ SameFile(q, r)
            => input[q].overwrite \/ input[r].overwrite

\* docs/06 section 1.4: a retryable answer invites the client to send the
\* request again.  The repetition is refused as a duplicate only when the file
\* is queued for indexing, or an upload of it is still running.
RetryIsNotADuplicate ==
    \A r \in Requests : \A q \in seen[r] :
        answer[q].retryable /\ SameFile(q, r) /\ answer[r].code = "DUPLICATE_FILE"
            => \E p \in Requests : /\ SameFile(p, r)
                                   /\ p \in queue \/ step[p] \in Running

-----------------------------------------------------------------------------
(***************************************************************************)
(* The inductive invariant: what the position of each coroutine says of    *)
(* the stores.                                                             *)
(***************************************************************************)

\* The writes a request has behind it at each step, and those it has not.
WritesMatchStep ==
    \A r \in Requests :
        /\ step[r] \in {"idle", "lookup", "putOriginal"} => ~LeftTrace(r)
        /\ step[r] \in {"putDocHash", "putJob", "cacheJob", "publish", "return"}
              => r \in original
        /\ step[r] \in {"putDocHash", "putJob"} => r \notin jobs
        /\ step[r] \in {"cacheJob", "publish", "return"} => r \in jobs
        /\ step[r] \in {"cacheJob", "publish"} => r \notin queue
        /\ step[r] = "return" => r \in queue

\* Only an answered request has an answer, and it is one the code can give.
AnswerMatchesStep ==
    \A r \in Requests :
        /\ step[r] # "answered" => answer[r] = NoAnswer
        /\ step[r] = "answered" =>
              \E code \in Codes : answer[r] \in {Answer(code, FALSE), Answer(code, TRUE)}

\* A level of durability never lacks the one below.
StoresAreLayered == queue \subseteq jobs /\ jobs \subseteq original /\ jobCache \subseteq jobs

\* A sentinel names a stored upload of the file its key is for.
SentinelsAreGenuine ==
    \A k \in HashKeys : docHash[k] # NoDoc =>
        docHash[k] \in original /\ HashKey(input[docHash[k]]) = k

\* Past its write the sentinel of an upload that met no fault exists, also when
\* another upload of the file has since pointed it elsewhere.
SentinelIsWritten ==
    \A r \in Requests \ faulted :
        Accepted(r) \/ step[r] \in {"putJob", "cacheJob", "publish", "return"}
            => docHash[HashKey(input[r])] # NoDoc

\* An upload that passed the duplicate check unfaulted was received before any
\* unfaulted upload of the file was accepted.
PassedDuplicateCheck ==
    \A r \in Requests \ faulted :
        /\ ~input[r].overwrite
        /\ Accepted(r) \/ step[r] \in Running \ {"lookup"}
        => \A q \in seen[r] : Accepted(q) /\ SameFile(q, r) => q \in faulted

SeenAreAnswered == \A r \in Requests : \A q \in seen[r] : step[q] = "answered"

UploadInv ==
    /\ TypeOK
    /\ WritesMatchStep
    /\ AnswerMatchesStep
    /\ StoresAreLayered
    /\ SentinelsAreGenuine
    /\ SentinelIsWritten
    /\ PassedDuplicateCheck
    /\ SeenAreAnswered
    /\ RefusalLeavesNothing
    /\ AcceptedIsDurable
    /\ DuplicateIsGenuine
=============================================================================
