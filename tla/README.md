# WITIVE Knowledge AI — TLA+ verification project

This directory models the document service of the repository in TLA+, checks
the models with TLC on small instances and proves their main invariants with
TLAPS for every value of the constants. `PROJECT.json` lists the components,
runs, mutants, source lines, findings, hazards and theorems in machine-readable
form.

Paths below are relative to the repository root; `src/app/...` is the
application package, `tests/fakes/...` its in-memory adapters.

## 1. Inventory of the system

The service is a FastAPI application. In the state of this repository one
endpoint does real work: `POST /internal/documents/upload`. The indexing worker
and the query pipeline are described in `docs/` only. The stores are Python
protocols (`src/app/infra`); their only implementations are the in-memory
adapters of `tests/fakes`, which the tests wire in. Secrets are rotated by the
procedure of `docs/operations/sop/secret-rotation.md` while several processes of
the service run.

| component | code | state | operations | interacts with |
|---|---|---|---|---|
| upload endpoint | `api/documents.py` | none | parse the form, call the use case, answer 202 | tenant dependency, use case |
| tenant dependency | `api/_dependencies.py`, `domain/tenant.py` | contextvars | check the secret, parse role and level, build `TenantContext`, bind log context | settings, logging |
| upload use case | `pipeline/upload.py` | local variables of one coroutine | validate, look for a duplicate, put original, sentinel and job JSON, cache the job, send the message | S3, Redis, SQS |
| error envelope | `domain/errors.py`, `api/_error_handlers.py` | none | error code to status and JSON | `request.state` |
| request ids, log context | `api/_middleware.py`, `platform/logging.py` | `request.state`, contextvars of each task | generate or read the id, bind, clear, set header | everything that logs |
| S3 adapter | `infra/s3.py`, `tests/fakes/fake_s3.py` | objects by key | put, get, head, conditional put, list, copy, multipart | use case, future worker |
| SQS adapter | `infra/sqs.py`, `tests/fakes/fake_sqs.py` | lists of waiting messages, messages in flight | send, receive, delete, change visibility | use case, future worker |
| Redis adapter | `infra/redis.py`, `tests/fakes/fake_redis.py` | entries with an expiry, a clock | get, set, delete, incr, pipeline | use case, future query pipeline |
| Neo4j adapter | `infra/neo4j.py`, `tests/fakes/fake_neo4j.py` | documents, versions, chunks, the links among them | upsert each of them, read versions, swap the current version | future worker and query pipeline |
| Pinecone adapter | `infra/pinecone.py`, `tests/fakes/fake_pinecone.py`, `_filter.py` | vectors by tenant | upsert, query with filter, update metadata, delete | access ranks, future worker and query pipeline |
| embeddings | `infra/embeddings.py`, `tests/fakes/fake_embeddings.py` | none | text to vector | nothing yet |
| access ranks | `domain/access.py` | none | rank of a level, lowest rank of a list | metadata and filters of vectors |
| document, job, audit, parsed records | `domain/*.py` | none (frozen) | coherence check of `Document`; (de)serialisation of `Job` | use case |
| settings | `platform/config.py` | cached for the life of the process | parse | everything; the operator, through redeployment |
| health endpoint | `api/health.py` | none | constant answer | settings |

Hard behaviour, and where it is:

- *Interleaving.* The coroutines of concurrent uploads give up control at every
  awaited store call. The duplicate check (a HEAD) and the write it protects
  (a put) are different awaits.
- *Partial failure.* Five writes follow each other; some failures end the
  upload, some only log a warning. A failing call may have taken effect. Nothing
  is undone and nothing resumes a request whose server died.
- *Retry.* The three store failures that end an upload are answered with
  `retryable: true`; the client's retry meets what the first attempt left.
- *Ambient state.* The request id and tenant are bound in contextvars, which
  are copied from task to task and shared by consecutive requests of one.
- *Stale reads.* The S3 protocol returns a body and its ETag from two calls;
  expired Redis entries stay in the table; `get_versions` and `query` return
  copies whose fields a client may write back; every process goes on accepting
  the secrets it read when it started.
- *Order of steps.* A version is staged chunk by chunk before the one call that
  shows it; a filter has to be applied before the k best are taken; a rotation
  has to wait for servers and callers in the right order.

What makes each part correct: an upload leaves nothing behind when refused and
everything when accepted; a message never precedes what it refers to; a 409 is
always about the same file of the same tenant; log lines and envelopes carry
their own request's identifiers; an acknowledged update of an S3 record is never
lost and no partial file is visible; queue messages are delivered once, in
order, and never lost; Redis shows no expired entry and runs a pipeline as one;
a document has one current version and is seen changing as a whole; a search
answers with what its caller may see, and all of it; nobody is refused while
secrets are rotated, and a retired secret never returns.

## 2. Modules

| module | kind | models |
|---|---|---|
| `UploadAdmission` | operators | the checks before the first store call, the error table and the envelope |
| `UploadPipeline` | state machine | the upload use case: one action per awaited call, with failure, lost response, crash |
| `UploadContract` | abstract spec | what the endpoint promises, without steps and stores |
| `UploadImplementsContract` | refinement | mapping of `UploadPipeline` to `UploadContract` |
| `UploadInputs`, `MCUploadPipeline` | TLC instance | requests and settings of the upload runs |
| `UploadPipelineProofs` | proofs | invariants; refinement of the contract |
| `UploadOnAdapters` | composition | the use case calling `FakeS3`, `FakeRedis` and `FakeSqs`, and a consumer; refines `UploadPipeline` |
| `MCUploadOnAdapters`, `UploadOnAdaptersProofs` | TLC instance, proofs | |
| `SecretRotation` | state machine | servers with cached settings, callers and the operator of a rotation |
| `MCSecretRotation`, `SecretRotationProofs` | TLC instance, proofs | |
| `RequestContext` | state machine | request ids and contextvars of interleaved requests |
| `MCRequestContext`, `RequestContextProofs` | TLC instance, proofs | |
| `FakeS3` | state machine | the in-memory object store and conditional updates |
| `MCFakeS3` | TLC instance | |
| `SqsContract` | abstract spec | the `SqsAdapter` protocol |
| `FakeSqs` | state machine | the in-memory queue, refining `SqsContract` |
| `MCFakeSqs`, `FakeSqsProofs` | TLC instance, proofs | |
| `RedisContract` | abstract spec | the `RedisAdapter` and `RedisPipeline` protocols |
| `FakeRedis`, `MCFakeRedis` | state machine, TLC instance | the in-memory Redis, refining `RedisContract` |
| `StoreProofs` | proofs | about `FakeS3`, and about `FakeRedis` as its instance `Redis` |
| `VersionGraph` | state machine | the in-memory Neo4j: versions staged and swapped by several clients |
| `MCVersionGraph`, `VersionGraphProofs` | TLC instance, proofs | |
| `VectorIndex` | state machine | the in-memory Pinecone, for any filter |
| `MetadataFilter`, `AccessRanks` | operators | the filter language (`_filter.py`); ranks of levels |
| `VectorSearch` | composition | index, filter and ranks: who is answered what |
| `MCVectorIndex`, `VectorIndexProofs` | TLC instance, proofs | |

Operators called "Mutant of X" are alternatives to X that a plausible slip in
the code would give. Nothing uses them; substituting one for X must make the
property that `PROJECT.json` pairs it with fail, which shows that the property
depends on the code.

### 2.1 Upload

A request is a member of `Requests`. Its `doc_id` and `job_id` are fresh
`uuid7`s, so the request names its document, job and message. `input[r]` is what
it carries: validity of the headers and form, secret, role, level, tenant, MIME
type, body (content, file signature, offset of the signature, size), overwrite
flag and audience. SHA-256 is taken to be injective: the sentinel key is tenant
and body.

`UploadAdmission` has one operator per check and lists them, in the order of the
code, as `HeaderChecks`, `FormChecks` and `FileChecks`; the first that fails
refuses. FastAPI's own 422 precedes the dependency's checks for headers and
follows them for the form. `UploadPipeline` then has one action per awaited call:

| step | awaited call | success | failure |
|---|---|---|---|
| `lookup` | HEAD of the sentinel | 409 when found | any `InfraError`: taken to be new |
| `putOriginal` | put of the file | go on | 500, retryable |
| `putDocHash` | put of the sentinel | go on | warning, go on |
| `putJob` | put of the job JSON | go on | 500, retryable |
| `cacheJob` | Redis set with TTL | go on | warning, go on |
| `publish` | SQS send | go on | 500, retryable |
| `return` | none | 202 | none |

Each failing write is two outcomes: without effect, and with it (the response
was lost). An ambiguous call has taken effect by the time the exception is seen,
or never does. `Crash` ends a running request anywhere; one crash per request
covers the death of a process with all its requests. `ExpireCache` is the TTL of
the Redis copies, several of which may end at once. A retry by a client is another request with an equal input.
The history variables `faulted` and `seen` record which requests met a store
failure and which were answered when a request was received; no action reads
them.

`UploadContract` keeps one level of durability per upload (`nothing`, `stored`,
`registered`, `queued`) that only grows, one level at a time and only before the
reply, and says at which level each reply may be given. Sentinel and cache are
invisible in it.

`UploadPipeline` keeps sets of stored things. `UploadOnAdapters` replaces them by
the adapters' own state: every store call is an operation of `FakeS3`,
`FakeRedis` or `FakeSqs` on the key, value, TTL and deduplication id that
`execute` passes. An object remembers which request wrote it, so that the JSON
of a job and the bytes of a file can be told from others. A consumer receives
and deletes messages meanwhile and the clock of Redis advances. Reading the sets
of `UploadPipeline` off the adapters is the refinement `PipelineSpec`: it fails
if two keys coincide, a TTL is missing, or the queue drops a message because two
uploads share a deduplication id.

### 2.2 Request context

Per request: the header sent, its phase, `request.state.request_id`,
`TenantContext.request_id`, the contextvars of the server's task and of the task
that `call_next` starts (a copy), the ids in the response's body and header, and
the log lines written. `Arrive` may inherit the context of the task of a finished
request, as on a connection that pipelines requests. `MiddlewareId` and
`DependencyId` differ as the code does: the one replaces an empty header, the
other keeps it. An unhandled exception passes `call_next`: the `finally` block
clears the context, the header is not set.

### 2.3 Stores

`FakeS3` models every method of the in-memory adapter that changes an object. A
body is the set of clients whose upload or update it carries and the number of
its parts. `multipart_upload` is the only method that awaits (each chunk), so it
is several actions. Conditional updates follow `put_object_conditional`: HEAD for
the ETag, GET for the body, conditional put, start over on a conflict; the
response may be lost. The tenant prefix check guards every action. No worker in
the repository performs such updates yet. `infra/s3.py` asks for the ETag of a
HEAD but does not prescribe that it precede the GET: that order is an assumption
about callers, and `NoLostUpdate` shows what it buys (its mutant swaps the two).
Without an ETag (`if_match=None`) the conditional put is `put_object`; its
NOT_FOUND cannot follow a HEAD that found the record, since nothing deletes
objects. Records are created once, as the upload creates a job JSON.
`list_objects` only reads; media types are left out.

`FakeSqs` has the waiting list of each queue and the single table of messages in
flight. A message keeps its receipt handle for life, so the message stands for
the handle. The visibility timeout is recorded and never read, as in the code:
nothing returns a message to its queue. The history `handed` records what was
handed out, in the order of the calls and of each batch. Deduplication looks at
waiting messages only: a repetition after the first receive is queued again, as
the docstring of `_has_dedup` says, and no property speaks of it.

`VersionGraph` has the nodes and links of one tenant. A client holds its last
answer to `get_versions` and may write the `is_current` it read back with
`upsert_version`, or name the version it read as current as the predecessor; in
between, others call. `Promote` and `Unstage` are the two halves of
`swap_version`, one action. The history variables `swapped`, `relinked` and
`upset` record what the properties except: a stale flag written back, a swap to
a version that is not there, a version relinked after it had been swapped in.

`VectorIndex` has the metadata of the vectors of each tenant; `Passes`, what a
filter says of metadata (`yes`, `no`, or an exception), is a constant, which the
instance sets to `EvalNode` of `MetadataFilter`. `_eval_node` calls itself for
nested clauses; `EvalNode` is unrolled to three levels of `$and` and `$or`, which
is how deep the search's filter nests, and TLC stops with an error on a filter
that is deeper. Scores are an order on ids. A
client may write back metadata it was answered. `VectorSearch` adds the filter
of `build_pinecone_filter`, which only docs/07 section 3.1 has (the query
pipeline that will ask with it is not written): live, not archived, current or
of the version asked for, and a branch per access level, those for departments
and levels only for a caller who has any. `MaySee` and `Searchable` say the same
rights without filters and ranks, EXECUTIVE included. `ServedExactly` asks for
the `top_k` of the very call, best first to be taken, and that no search raises:
without the guard on the caller's level, `$lte None` would.

`FakeRedis` keeps `[value, expires]` entries, live or not. `Get` removes dead
ones, `Incr` reads them as 0 and keeps their expiry, and `PipelineIncr`, the
pipeline's own code, does not ask. `Outcomes` is the state after each command of
a pipeline. Values are numbers; the contents of other keys are opaque. Of the
commands only that TTLs are positive is assumed (`CommandsAssumption`): counters
may have one, as `dup:{user_id}:{sha256}` of docs/04 does. `ContractSpec` is then
violated (section 4). `ContractButForSpent` says what remains: each step is one of
the contract's but an increment of a spent key, one whose entry has expired. A
single such increment answers 1 and changes nothing that can be seen
(`SpentStaysSpent`); a pipeline with some is wrong about those keys and right
about every other (`OthersAsPromised`).

### 2.4 Secret rotation

`settings[s]` is what the cached `get_settings` returns in process `s`;
`Restart` reads the configuration anew and takes the requests of its process
with it, whose connections are cut. `Check` is the comparison of
`require_tenant_context` with either secret. The operator's steps (add the new
secret as secondary, redeploy, switch the callers, promote, clear, redeploy) and
the callers are external: they are the procedure of
`docs/operations/sop/secret-rotation.md`, section 2. Servers restart at any
moment, so any mixture of old and new settings occurs. The rollback of the SOP's
section 7, which sets the old secret again, is not modelled, nor are restarts of
callers whose slot for the secondary secret was emptied; `RetiredStaysRefused`
is about rotations that are carried through.

## 3. Runs

| run | question | instance | distinct states | result |
|---|---|---|---|---|
| `upload` | is every refusal before the first write; are the stores consistent at every moment; is the contract implemented; is every upload answered | 2 requests, 22 inputs: each check at its boundary; failures, lost responses, crashes, expiry; fairness | 175 989 | holds |
| `upload_on_adapters` | do keys, TTL and deduplication make of the adapters what the pipeline model takes them to be | 2 requests, 5 inputs, 1 consumer, TTL and clock of 1 second | 368 529 | holds |
| `request_context` | do ids and log contexts stay with their request | 3 requests, header present, empty or absent | 91 881 | holds |
| `secret_rotation` | is nobody refused during a rotation, no retired secret accepted | 3 servers, 2 callers, 2 rotations | 360 | holds |
| `version_graph` | is there one current version, is staging hidden, no cycle of SUPERSEDES, are changes seen as a whole | 2 documents, one with a version of 1 and a version of 2 chunks; 2 clients | 234 384 | holds |
| `vector_index` | do searches answer exactly what may be seen; tenants, archived flags, refused batches | 2 vectors, 2 clients of a tenant and foreign records, 6 kinds of access | 36 103 | holds |
| `s3_objects` | are updates, uploads and tenants safe from each other | 2 tenants, 3 clients, 4 keys, 2 parts | 670 320 | holds |
| `sqs_refines` | single delivery, order, deduplication, no loss | 3 messages, 2 queues, 2 consumers, batches of 2 | 37 721 | holds |
| `redis_refines` | does the adapter implement the protocol, but for expired counters | 1 client, 2 counters, one with a TTL, pipelines of 3 commands, clock of 2 | 162 690 | holds |
| `upload_race` | one accepted upload per file | 2 equal uploads | | violated |
| `upload_retry` | a retry is not refused as a duplicate of a lost upload | 2 equal uploads, failures | | violated |
| `redis_counters` | does it for counters that expire | 2 clients, 1 counter with a TTL | | violated |

Bounds. Every property of the upload relates at most two requests, or two and
the stores they share; a third is needed only where one sentinel is overwritten
while another request reads it, and `DuplicateCorrect` proves that case for any
number. The inputs cover every check with a passing and a failing value, at the
boundary where it has one (size, offset of the signature, length of the name).
On the adapters five inputs suffice, since the checks are those of the other
run: one file with and without overwrite, the same from another tenant, another
file, one that is refused; one consumer can receive one message while the other
waits, and one tick separates an entry that lives from one that is dead.
Three requests let one inherit a context while two others run. Two parts make a
multipart upload interruptible, two clients of a tenant race for one record, the
third is of the other tenant. Three messages let a batch of two leave one
behind. Redis: a counter without expiry (an epoch) and one that is set with a TTL
of one second, which the clock passes; pipelines of three set, increment and
increment again. One client suffices, each method being atomic and a queued
command invisible; `RedisRefines` covers any number.
Three servers can run on the settings of three different steps at once, and the
second rotation starts with what the first has left. Two versions of one
document replace each other both ways, the third belongs to a document that must
not be touched; one client's read is stale when the other has swapped. A version
of two chunks can be seen in part, one of two and one of one chunk mixed, which
`SeenChangesAsAWhole` excludes (its mutants unstage one chunk only, or those of
the whole document). The constraint `OneAfterTheOther` keeps the run small: the
two clients hold answers at the same time only while the second document is not
touched; the theorems have no such constraint. Vectors: a caller of a middle
level, in a department and named on a board document, and one without level and
departments who asks for the older version; levels below, above, unknown and
mixed; versions staged, live, current and not. One tenant of the two has clients
here, which try to write the other's id; `VectorTenants` proves that tenants stay
apart for any number. Symmetry is used in runs of
invariants and refinement, over requests, messages, consumers and clients that
no definition tells apart, and never with a liveness property.

`CHECK_DEADLOCK FALSE`: requests and messages are finitely many, and the stores
stop at their bounds; when all is done nothing happens, which is not an error.
Graph, vector index and rotation are checked for deadlock.

Fairness. `FairSpec` of the upload assumes weak fairness of `Proceed(r)`, for
each request: the event loop resumes every coroutine whose await has completed,
and every store call completes or raises (the protocols prescribe timeouts).
Arrivals, crashes and expiry are not fair. A request whose server died counts as
settled. Nothing else is assumed fair: of the rotation, the stores and the
indexes, no step is one that the code schedules.

The inductive invariants of section 5 were checked with the same instances
before they were proved; the runs list only the properties a reader wants.

## 4. What the runs found

Violated by what the code does, with a run that shows it:

1. `upload_race`: both HEADs run before either sentinel is written; both uploads
   of one file are accepted (`pipeline/upload.py:228`), where docs/03 wants 409.
2. `upload_retry`: the sentinel outlives a failed job registration or send
   (`upload.py:278`); the retry the 500 invites is refused with 409, although
   the file will never be indexed.
3. `redis_counters`: once the TTL of a counter is over, `incr` answers 1 but keeps
   the expiry that has passed (`tests/fakes/fake_redis.py:293`), so that the key
   it says it created does not exist; in a pipeline, `incr` counts on from the dead
   value (155). The docstrings promise a key created at 1 (`fake_redis.py:278`,
   `infra/redis.py:158-164`), and docs/04 (438, 450) lists an INCR counter with a
   TTL of 60 seconds.

Seen while modelling, without a run of their own:

- Middleware and dependency each generate an id when the client sent none, and
  treat an empty header differently (`api/_middleware.py:43`,
  `api/_dependencies.py:116`), so that the header and the body of a 202 differ;
  docs/06 (47) speaks of one id, echoed or generated.
- The whitelist of MIME types is configuration, the table of extensions code; a
  type in the first only ends in a `KeyError` (`upload.py:257`), which the
  docstring of `execute` (194-197) does not announce. `RefusalLeavesNothing`
  covers it: the exception comes before the first write.
- The 16-byte head (`upload.py:399`) cannot hold a byte order mark and
  `<!doctype html`, against the comment at line 417.
- `update_metadata` merges (`fake_pinecone.py:205`), where the protocol speaks of
  replacement metadata (`infra/pinecone.py:196`): a field that is to go stays.
- A swap to a version that is not there demotes the current one and promotes
  none (`fake_neo4j.py:279`); an `upsert_version` that writes back what was read
  overwrites `is_current` (223), where docs/04 section 2.5 sets it to false on
  every match; a version linked again after it was swapped in can close a cycle
  of SUPERSEDES (233). The properties of `VersionGraph` name these exceptions.
- Re-indexing a chunk of the current version hides it until the next swap.
- After a failed send the original stays under `documents/`; docs/03 section 2.3
  asks for a `failed-sqs/` prefix no code writes.
- The 500 answers of the upload are retryable; the table of docs/06 section 1.4
  says they are not.
- A 500 for an unhandled exception has no `X-Request-Id`
  (`api/_middleware.py:55`), against the docstring at line 29.
- A failed sentinel write or HEAD lets an accepted file be accepted again
  (`upload.py:279`, `450`); `RepeatIsRefused` shows that only these two can.
- `FakeSqs` reports attempt 2 for a first delivery (`fake_sqs.py:135`); the
  protocol counts from 1. The model has the code's values, 1 before and 2 after
  the receive. An unknown queue URL returns an empty list (130), where
  the docstring announces an error (128).

## 5. Proofs

All theorems hold for any set of requests, inputs, tenants, clients, keys and
any number of parts; nothing is bounded.

| theorem | statement | from |
|---|---|---|
| `UploadPipelineProofs!TypeCorrect` | `Spec => []TypeOK` | |
| `UploadCorrect` | `Spec => []UploadInv` | inductive |
| `RefusalCorrect`, `AcceptanceCorrect`, `DuplicateCorrect`, `MessagesCorrect`, `RepeatCorrect` | the five safety properties of the upload | `UploadInv` |
| `UploadImplements` | `Spec => ContractSpec` | `UploadInv` |
| `RequestContextProofs!ContextCorrect` | `Spec => []ContextInv` | inductive |
| `LogsCorrect`, `EnvelopeCorrect`, `InheritanceCorrect` | the three safety properties of ids | `ContextInv` |
| `ContextTypes` | `Spec => []TypeOK` | `ContextInv` |
| `StoreProofs!S3Correct` | `Spec => []S3Inv` | inductive |
| `S3Types`, `UpdatesCorrect`, `ObjectsCorrect`, `TenantsCorrect` | types and the three safety properties of the object store | `S3Inv` |
| `RedisRefines` | `Redis!CommandsAssumption` gives `Redis!Spec => Redis!ContractButForSpent` | `RedisInv`, inductive |
| `UploadOnAdaptersProofs!AdaptersCorrect` | `Spec => []AdaptersInv` | inductive |
| `MessagesLead`, `CacheAgrees` | the two safety properties of the upload on its adapters | `AdaptersInv` |
| `AdaptersRefine` | `Spec => PipelineSpec` | `AdaptersInv` |
| `FakeSqsProofs!SqsCorrect` | `Spec => []SqsInv` | inductive |
| `SqsTypes`, `SqsOrder`, `SqsOneHolder`, `SqsDuplicates` | types and the three safety properties of the queue | `SqsInv` |
| `SqsRefines` | `Spec => ContractSpec` | `SqsInv` |
| `SecretRotationProofs!RotationCorrect` | `Spec => []RotationInv` | inductive |
| `RotationTypes`, `RotationKeepsCallers`, `RotationRetires` | types; nobody refused; retired secrets stay refused | `RotationInv` |
| `VersionGraphProofs!GraphInvariant` | `Spec => []IInv` | inductive |
| `GraphTypes`, `SwapLeavesOneCurrent`, `StagedIsHidden` | types; one current version; staged is hidden | `IInv` |
| `ChainsEnd` | `Spec => []SupersedesIsAcyclic` | `ChainInv`, inductive under `IInv` |
| `SeenAsAWhole` | `Spec => SeenChangesAsAWhole` | `IInv`, `ChainInv` |
| `VectorIndexProofs!VectorInvariant` | `Spec => []IInv` | inductive |
| `VectorTypes`, `VectorTenants`, `VectorArchived`, `VectorsComeFromUpserts` | types; tenants; archived flags; the action property of refused calls and deletions | `IInv` |
| `SearchServes` | `Spec => ServedExactly` | `IInv`, `FilterIsMaySee` |

*Upload.* None of the properties is inductive: that a 202 implies a stored job
needs to know what the coroutine has written before it answers. `UploadInv` ties
the step of each request to the stores (`WritesMatchStep`), the layers of the
stores to each other (`StoresAreLayered`), each sentinel to a stored upload of
its file (`SentinelsAreGenuine`), and, for `RepeatIsRefused`, says that a past
unfaulted write of a sentinel stays visible (`SentinelIsWritten`) and that who
passed the check was received too early to see it (`PassedDuplicateCheck`). The
step lemmas first show what any step of any request may change (`ProceedEffect`,
`ProceedWrites`, `OnlyActorMoves`, `StoresStep`), then one conjunct each.

*Refinement.* `RefinesStep` maps every action, under `UploadInv`, to `Grow`, a
reply or a stutter; `Fail` is the one abstract step that may reply and grow, for
a lost response.

*Upload on the adapters.* The sets of `UploadPipeline` are read off tables that
other uploads, the clock and a consumer change too. `AdaptersInv` says that they
cannot be confused: every object was written by a request for which its key is
one of three (`ObjectsHaveWriters`), which with the layout of the keys
(`KeysDiffer`) makes originals and jobs private and shares sentinels only among
equal files of a tenant; what a request has behind it is at its keys
(`KeysMatchStep`); an entry of Redis, dead or alive, is the job of its key and
came after the JSON in S3 (`EntriesAreJobs`); and every message has a
deduplication id of its own, so that none is ever dropped (`MessagesAreKept`).
With `AdaptersRefine`, the theorems of `UploadPipelineProofs`, which hold for all
constants, are theorems about the adapters' tables as they are read there; this
last step is an instantiation that is not itself checked.

*Context.* `ContextInv` adds that outside a dispatch the server's task has
nothing bound (`BoundOnlyInDispatch`), which makes inheritance harmless, and says
which id each place holds in each phase (`IdsMatchPhase`).

*Object store.* `NoLostUpdate` rests on `ReadsAreOrdered`: a client's ETag is of
a version no newer than the body it read, and that body of one no newer than the
record. When the ETags match, all three are one version, so the put adds a mark
and drops none. This needs marks of a record never to shrink, which the same
argument gives.

*Redis.* What a caller sees of a store is `Seen`. `CommandAgrees` shows that a
command on a store and the contract's command on what is seen of it agree, reply
included, unless the command increments a spent key. The runs of a pipeline are
recursive functions on both sides. That they exist is shown by a least
counterexample (`OutcomesDefined`, `PerformedDefined`), and that they agree after
every command, on all keys but the spent ones that were incremented, by another:
the library's induction theorems are not usable here, a least element of a set of
numbers is.

*Queue.* What a send and a receive do to one list is proved of sequences first:
what was handed out followed by what waits is the log, after an `Append` to both
(`AppendKeepsOrder`) and after a batch has moved from the one to the other
(`ReceiveSplits`, `ConcatAssociative`); a list stays without repetition and
without twins (`AppendKeeps`, `AppendKeepsApart`, `TailKeeps`). `PlacesAreDisjoint` is
the strengthening: a message waits in the queue it was sent to, once, or is in
flight, or deleted, and what a consumer holds is in flight. The refinement reads
the place of each message off the tables and maps a send, a receive and a
deletion to the contract's; all else is a stutter.

*Rotation.* `NobodyIsRefused` is a history, so the invariant has to say why the
next check succeeds: the process a request was sent to accepts it
(`RequestsAreWelcome`), because callers use one of the secrets of the phase
(`CallersMatchPhase`) and servers run on settings at most two steps old
(`SettingsMatchPhase`), which all overlap in that secret.

*Graph.* `Linked` says that HAS_VERSION reaches every version there is, so that a
swap demotes every other; `ReadWasSwapped`, that a flag read as current was once
swapped in, so that writing it back shows nothing that was only staged. That
SUPERSEDES has no cycle needs more: only versions that were swapped in are
superseded (`SupersededWasSwapped`). A cycle closed by linking `v` to `prev` would
leave, without the versions that were never swapped in, `v` among them, a set that
is closed under SUPERSEDES already before the step. A swap shows every chunk of
its version because HAS_CHUNK reaches every chunk there is (`ChunksLinked`).

*Vectors.* The check of `tenant_id` on upserts and updates, with the merge
keeping the fields that are not named (`MergedFlag`), keeps tenants apart and
archived flags in agreement with the history, for any filter. For the filter of
the search, `FilterOutcome` follows `EvalNode` down to single conditions, and
`RanksDecide` shows that comparing the lowest rank of the allowed levels with the
caller's is the rule on levels itself, unknown levels and empty lists included;
together they give `FilterIsMaySee`, for any levels, departments, users and
metadata, and with it that the filter never raises.

Assumptions: `NoDoc`, `NoId`, `EmptyId`, `NoObject`, `NoSecret`, `NoVersion`,
`NoVector` and `None` differ from real values; a file has at least one part and
a receive at least one message; a TTL is positive; a version belongs to one
document and a chunk to one version; what is written to the index has a tenant,
and a Boolean `archived` flag where it has one; what the search looks at has the
fields docs/04 section 1.3 lists, with lists that are not null, and a vector that
is open to levels carries the rank that `min_level_rank` gives them. TLC
evaluates them in the runs.

Only model-checked: `EveryUploadSettles`, liveness under fairness, which the
prover does not reach.

## 6. Not modelled

- Workers and query pipeline: there is no code.
- Production wiring of the use case: `_get_upload_use_case` raises `RuntimeError`
  outside the tests; the models start from a wired use case.
- uuid7, SHA-256, JSON, MIME parsing, gzip, Starlette and the ASGI server: taken
  as freshness, injectivity, or as environment actions.
- Embeddings: a pure function of a text, used by nothing yet; cosine similarity
  over reals is out of TLC's reach, so that scores are an order.
- Audit and parsed records: frozen data without behaviour.
- Job: only its registration (QUEUED, all stages PENDING). No code moves a job on
  or reads its JSON back.
- Rotation: the rollback of section 7 of the SOP.
- Settings: parsing of the environment; of the values, those that the models
  have as constants (secrets, whitelist, size limit, TTL).
- Neo4j: `run_read`, `run_write` and `run_in_transaction` (raw Cypher, answered
  with stubs by the fake), `get_chunks`, and properties other than `is_current`
  and `staging`. Normalisation of departments.
- Error codes of the query pipeline: nothing raises them.

## 7. Plan

Done, in this order: admission checks, upload pipeline, contract and refinement,
their proofs; request context and proofs; object store and proofs; queue; Redis;
version graph and proofs; vector index, filter and ranks, and proofs; the upload
on the adapters; secret rotation and proofs; proofs about the queue.

Then: proofs about the upload on the adapters, about the search and about Redis,
with which every safety and action property and every refinement of the passing
runs is a theorem.

Next: workers, when the repository has them: job transitions as conditional
updates of `FakeS3`, consumption and redelivery on `FakeSqs`, staging and swap on
`VersionGraph`, composed as `UploadOnAdapters` is.
