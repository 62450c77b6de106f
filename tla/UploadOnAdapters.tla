-------------------------- MODULE UploadOnAdapters ---------------------------
(***************************************************************************)
(* UploadDocumentUseCase on the three in-memory adapters, the stack the    *)
(* repository runs it on, and a consumer of its queue.  UploadPipeline     *)
(* says which stores an upload has reached; here every store call is the   *)
(* adapter's own operation on the keys, values, TTL and deduplication id   *)
(* that execute passes to it, and UploadPipeline is what has to come out.  *)
(* A request names its doc_id and job_id, as in UploadPipeline.            *)
(***************************************************************************)
EXTENDS UploadAdmission

CONSTANTS
    Requests, Inputs, NoDoc, StoresFail, ServersCrash,  \* of UploadPipeline
    Consumers,                  \* receive from the indexing queue
    CacheTtl,                   \* job_cache_ttl_s
    MaxTime,                    \* bound on the clock of Redis
    NoObject, NoValue, None     \* of the adapters

VARIABLES
    input, step, answer, faulted, seen,     \* of UploadPipeline
    objects,                                \* of FakeS3
    store, now,                             \* of FakeRedis
    queues, inFlight, dedupId, attempt, sentTo, holding, log, handed, deleted   \* of FakeSqs

redis == <<store, now>>
sqs == <<queues, inFlight, dedupId, attempt, sentTo, holding, log, handed, deleted>>
adapters == <<objects, redis, sqs>>
vars == <<input, step, answer, faulted, seen, adapters>>

Tenants == {in.tenant : in \in Inputs}
Files == {in.body : in \in Inputs}

-----------------------------------------------------------------------------
(***************************************************************************)
(* What is written where.                                                  *)
(***************************************************************************)

\* Mutant of OriginalKey: the doc_id is left out of the path.
OriginalKeyOfTenant(r) == <<input[r].tenant, "documents", CHOOSE q \in Requests : TRUE>>

OriginalKey(r) == <<input[r].tenant, "documents", r>>
DocHashKey(r) == <<input[r].tenant, "doc_hash", input[r].body>>
JobKey(tenant, job) == <<tenant, "jobs", job>>

S3Keys == (Tenants \X {"documents", "jobs"} \X Requests)
          \union (Tenants \X {"doc_hash"} \X Files)

Stages == {"parsing", "chunking", "embedding", "indexing"}

\* The Job of an upload, whose JSON goes to S3 and to Redis.
JobOf(r) ==
    [job_id    |-> r,
     doc_id    |-> r,
     tenant_id |-> input[r].tenant,
     status    |-> "QUEUED",
     s3_path   |-> OriginalKey(r),
     stages    |-> [stage \in Stages |-> "PENDING"],
     attempts  |-> 0]

Jobs ==
    [job_id : Requests, doc_id : Requests, tenant_id : Tenants, status : {"QUEUED"},
     s3_path : S3Keys, stages : [Stages -> {"PENDING"}], attempts : {0}]

\* The body of its SQS message.
MessageOf(r) ==
    [job_id |-> r, doc_id |-> r, tenant_id |-> input[r].tenant,
     s3_path |-> OriginalKey(r), attempt |-> 0]

\* Mutant of DedupIdOf: the id is that of the file's first upload.
DedupIdOfFile(r) == CHOOSE q \in Requests : input[q].body = input[r].body

DedupIdOf(r) == r

-----------------------------------------------------------------------------
(***************************************************************************)
(* The adapters.  A client of S3 is a request with the tenant of its ctx;  *)
(* an object remembers who wrote it, which says what it contains.          *)
(***************************************************************************)
S3 == INSTANCE FakeS3 WITH
    Clients <- Requests \X Tenants,
    TenantOf <- [c \in Requests \X Tenants |-> c[2]],
    RecordKeys <- {}, FileKeys <- S3Keys,
    TenantPrefix <- [k \in S3Keys |-> k[1]],
    Parts <- 1,
    target <- [c \in Requests \X Tenants |-> None],
    etag <- [c \in Requests \X Tenants |-> None],
    body <- [c \in Requests \X Tenants |-> None],
    receiving <- [c \in Requests \X Tenants |-> None],
    updated <- {}

Redis == INSTANCE FakeRedis WITH
    Keys <- Requests, Clients <- Requests, Commands <- {}, NoTtl <- None,
    MaxBatch <- 0, MaxValue <- 0,
    batch <- [c \in Requests |-> << >>],
    reply <- [c \in Requests |-> <<NoValue>>]

Sqs == INSTANCE FakeSqs WITH
    Messages <- Requests, Queues <- {"indexing"}, DedupIds <- Requests,
    MaxMessages <- 1,
    deadline <- [m \in Requests |-> None]

\* The request that wrote the object at a key.
Writer(b, tenant) == CHOOSE r \in Requests : <<r, tenant>> \in b.marks
WriterAt(k) == Writer(objects[k], k[1])

Cached(r) == Redis!IsAlive(store[r])

Sent(r) == Sqs!StateOf(r) \notin {"unsent", "dropped"}

\* Which stores an upload has reached, read off the adapters.
Originals == {r \in Requests : S3!Exists(OriginalKey(r))}
Registered == {r \in Requests : S3!Exists(JobKey(input[r].tenant, r))}
CachedJobs == {r \in Requests : Cached(r)}
SentJobs == {r \in Requests : Sent(r)}
SentinelAt(k) == IF S3!Exists(k) THEN WriterAt(k) ELSE NoDoc
Sentinels ==
    [h \in {<<in.tenant, in.body>> : in \in Inputs} |->
        SentinelAt(<<h[1], "doc_hash", h[2]>>)]

P == INSTANCE UploadPipeline WITH
    original <- Originals, docHash <- Sentinels, jobs <- Registered,
    jobCache <- CachedJobs, queue <- SentJobs

\* An entry expires after it was made, and what stands for nothing is nothing
\* the adapters hold.
ASSUME AdaptersAssumption ==
    /\ CacheTtl \in Nat \ {0}
    /\ NoDoc \notin Requests
    /\ NoObject \notin S3!Bodies
    /\ NoValue \notin [value : Jobs, expires : Nat]
    /\ None \notin Nat \union {"indexing"}

-----------------------------------------------------------------------------
Init ==
    /\ input \in [Requests -> Inputs]
    /\ step = [r \in Requests |-> "idle"]
    /\ answer = [r \in Requests |-> P!NoAnswer]
    /\ faulted = {}
    /\ seen = [r \in Requests |-> {}]
    /\ objects = [k \in S3Keys |-> NoObject]
    /\ store = [r \in Requests |-> NoValue]
    /\ now = 0
    /\ queues = [q \in {"indexing"} |-> << >>]
    /\ inFlight = {}
    /\ dedupId = [m \in Requests |-> None]
    /\ attempt = [m \in Requests |-> 1]
    /\ sentTo = [m \in Requests |-> None]
    /\ holding = [c \in Consumers |-> {}]
    /\ log = [q \in {"indexing"} |-> << >>]
    /\ handed = [q \in {"indexing"} |-> << >>]
    /\ deleted = {}

\* The store calls of execute.
Put(r, k) ==
    /\ S3!PutObject(<<r, input[r].tenant>>, k)
    /\ UNCHANGED <<redis, sqs>>

\* Mutant of CacheSet: no TTL is passed.
CacheSetForGood(r) ==
    /\ Redis!Set(r, r, JobOf(r), None)
    /\ UNCHANGED <<objects, sqs>>

CacheSet(r) ==
    /\ Redis!Set(r, r, JobOf(r), CacheTtl)
    /\ UNCHANGED <<objects, sqs>>

SendMessage(r) ==
    /\ Sqs!Send(r, "indexing", DedupIdOf(r))
    /\ UNCHANGED <<objects, redis>>

\* A call returns and the coroutine goes on; or it raises, after its effect or
\* instead of it, and the coroutine goes on, or answers 500.
Returns(r, call, from, to) ==
    /\ P!Goto(r, from, to)
    /\ call
    /\ UNCHANGED <<input, faulted, seen>>

Raises(r, call) ==
    /\ call \/ UNCHANGED adapters
    /\ P!Fault(r)
    /\ UNCHANGED input

Survives(r, call, from, to) == P!Goto(r, from, to) /\ Raises(r, call)

Fails(r, call, from) ==
    P!Reply(r, from, Answer("INTERNAL_ERROR", TRUE)) /\ Raises(r, call)

-----------------------------------------------------------------------------
Receive(r) ==
    /\ UNCHANGED adapters
    /\ P!Refuse(r) \/ P!Admit(r)

CheckDuplicate(r) ==
    /\ IF S3!Exists(DocHashKey(r))
       THEN P!Reply(r, "lookup", Answer("DUPLICATE_FILE", FALSE))
       ELSE P!Prepare(r, "lookup")
    /\ UNCHANGED <<input, adapters, faulted, seen>>

CheckDuplicateFails(r) ==
    /\ P!Prepare(r, "lookup")
    /\ P!Fault(r)
    /\ UNCHANGED <<input, adapters>>

StoreOriginal(r) ==
    \/ Returns(r, Put(r, OriginalKey(r)), "putOriginal", "putDocHash")
    \/ Fails(r, Put(r, OriginalKey(r)), "putOriginal")

StoreDocHash(r) ==
    \/ Returns(r, Put(r, DocHashKey(r)), "putDocHash", "putJob")
    \/ Survives(r, Put(r, DocHashKey(r)), "putDocHash", "putJob")

StoreJob(r) ==
    \/ Returns(r, Put(r, JobKey(input[r].tenant, r)), "putJob", "cacheJob")
    \/ Fails(r, Put(r, JobKey(input[r].tenant, r)), "putJob")

CacheJob(r) ==
    \/ Returns(r, CacheSet(r), "cacheJob", "publish")
    \/ Survives(r, CacheSet(r), "cacheJob", "publish")

Publish(r) ==
    \/ Returns(r, SendMessage(r), "publish", "return")
    \/ Fails(r, SendMessage(r), "publish")

Accept(r) ==
    /\ P!Reply(r, "return", Answer("ACCEPTED", FALSE))
    /\ UNCHANGED <<input, adapters, faulted, seen>>

Crash(r) ==
    /\ UNCHANGED adapters
    /\ P!Crash(r)

\* The clock of Redis; entries of one second expire together.
Tick ==
    /\ Redis!AdvanceTime
    /\ UNCHANGED <<input, step, answer, faulted, seen, objects, sqs>>

\* A consumer of the queue receives a message, and deletes one it is done with.
Consume(c) ==
    /\ \/ queues["indexing"] # << >> /\ Sqs!Receive(c, "indexing", 1)
       \/ \E m \in Requests : Sqs!Delete(c, m)
    /\ UNCHANGED <<input, step, answer, faulted, seen, objects, redis>>

Next ==
    \/ \E r \in Requests :
          \/ Receive(r) \/ CheckDuplicate(r) \/ CheckDuplicateFails(r)
          \/ StoreOriginal(r) \/ StoreDocHash(r) \/ StoreJob(r)
          \/ CacheJob(r) \/ Publish(r) \/ Accept(r) \/ Crash(r)
    \/ Tick
    \/ \E c \in Consumers : Consume(c)

Spec == Init /\ [][Next]_vars

-----------------------------------------------------------------------------
(***************************************************************************)
(* Properties.                                                             *)
(***************************************************************************)

\* Key layout, TTL and deduplication make of the three adapters what
\* UploadPipeline takes them to be: each upload adds its own document, job,
\* cache entry and message, replaces at most the sentinel of its file, and
\* loses none of them to another upload, to the clock or to a consumer.
PipelineSpec == P!Spec

\* Whoever receives a message, at any time, finds by the names in it the job
\* JSON, by the s3_path of that the original, and in it the bytes that were
\* submitted with the upload, whatever was uploaded or overwritten since.
MessageLeadsToFile ==
    \A r \in Requests : Sent(r) =>
        LET jobKey == JobKey(MessageOf(r).tenant_id, MessageOf(r).job_id)
            path == JobOf(WriterAt(jobKey)).s3_path
        IN  /\ S3!Exists(jobKey) /\ S3!Exists(path)
            /\ path = MessageOf(r).s3_path
            /\ input[WriterAt(path)].body = input[r].body
            /\ input[WriterAt(path)].tenant = input[r].tenant

\* What Redis serves of a job is what S3, the source of truth, holds of it, and
\* is gone CacheTtl seconds after it was put there.
CacheAgreesWithTruth ==
    \A r \in Requests : Cached(r) =>
        LET jobKey == JobKey(input[r].tenant, r)
        IN  /\ S3!Exists(jobKey)
            /\ store[r].value = JobOf(WriterAt(jobKey))
            /\ store[r].expires # None /\ store[r].expires <= now + CacheTtl
=============================================================================
