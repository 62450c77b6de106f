----------------------- MODULE UploadOnAdaptersProofs -------------------------
(***************************************************************************)
(* AdaptersInv is an inductive invariant of UploadOnAdapters, and          *)
(* UploadOnAdapters implements UploadPipeline, for every set of requests,  *)
(* inputs and consumers, every TTL and every bound on the clock.           *)
(***************************************************************************)
EXTENDS UploadOnAdapters, SequenceTheorems, TLAPS

-----------------------------------------------------------------------------
(***************************************************************************)
(* The inductive invariant: what the keys, the entries and the places of   *)
(* messages say of the uploads they belong to.                             *)
(***************************************************************************)

\* The variables the uploads share with the adapters have their shapes.
Shapes ==
    /\ input \in [Requests -> Inputs] /\ DOMAIN step = Requests
    /\ objects \in [S3Keys -> S3!Bodies \union {NoObject}]
    /\ DOMAIN store = Requests /\ now \in Nat
    /\ queues \in [{"indexing"} -> Seq(Requests)]
    /\ DOMAIN dedupId = Requests
    /\ sentTo \in [Requests -> {"indexing", None}]

\* The object at k is the one that r puts there.
WrittenBy(k, r) ==
    /\ objects[k] = S3!Whole({<<r, k[1]>>})
    /\ k \in {OriginalKey(r), DocHashKey(r), JobKey(input[r].tenant, r)}

ObjectsHaveWriters == \A k \in S3Keys : S3!Exists(k) => \E r \in Requests : WrittenBy(k, r)

\* What a request has behind it is at its own keys.
KeysMatchStep ==
    \A r \in Requests :
        /\ step[r] \in {"putDocHash", "putJob", "cacheJob", "publish"}
              => S3!Exists(OriginalKey(r))
        /\ step[r] \in {"cacheJob", "publish"} => S3!Exists(JobKey(input[r].tenant, r))

\* An entry of Redis, expired or not, is the job of its key.
EntriesAreJobs ==
    \A r \in Requests : store[r] # NoValue =>
        /\ S3!Exists(JobKey(input[r].tenant, r))
        /\ \E expires \in 0..(now + CacheTtl) :
              store[r] = [value |-> JobOf(r), expires |-> expires]

\* A message is one of the queue under its own deduplication id, so no send is
\* taken for a duplicate; and it was sent after its job and its original.
MessagesAreKept ==
    /\ \A i \in DOMAIN queues["indexing"] :
          LET m == queues["indexing"][i]
          IN  sentTo[m] # None /\ dedupId[m] = DedupIdOf(m)
    /\ \A m \in Requests : sentTo[m] # None =>
          /\ Sqs!StateOf(m) # "dropped"
          /\ S3!Exists(OriginalKey(m)) /\ S3!Exists(JobKey(input[m].tenant, m))

AdaptersInv ==
    /\ Shapes
    /\ ObjectsHaveWriters
    /\ KeysMatchStep
    /\ EntriesAreJobs
    /\ MessagesAreKept

-----------------------------------------------------------------------------
(***************************************************************************)
(* The key layout: no two uploads share the key of an original or a job,   *)
(* and no key of one kind is a key of another.                             *)
(***************************************************************************)
LEMMA KeysAreKeys ==
    ASSUME Shapes, NEW r \in Requests
    PROVE  /\ OriginalKey(r) \in S3Keys /\ OriginalKey(r)[1] = input[r].tenant
           /\ DocHashKey(r) \in S3Keys /\ DocHashKey(r)[1] = input[r].tenant
           /\ JobKey(input[r].tenant, r) \in S3Keys
           /\ JobKey(input[r].tenant, r)[1] = input[r].tenant
<1>1. input[r].tenant \in Tenants /\ input[r].body \in Files
  BY DEF Shapes, Tenants, Files
<1>. QED
  BY <1>1 DEF OriginalKey, DocHashKey, JobKey, S3Keys

LEMMA KeysDiffer ==
    ASSUME NEW q \in Requests, NEW r \in Requests
    PROVE  /\ OriginalKey(q) = OriginalKey(r) => q = r
           /\ JobKey(input[q].tenant, q) = JobKey(input[r].tenant, r) => q = r
           /\ DocHashKey(q) = DocHashKey(r)
                 => input[q].tenant = input[r].tenant /\ input[q].body = input[r].body
           /\ OriginalKey(q) # DocHashKey(r)
           /\ OriginalKey(q) # JobKey(input[r].tenant, r)
           /\ JobKey(input[q].tenant, q) # DocHashKey(r)
  BY DEF OriginalKey, DocHashKey, JobKey

\* An object that one request wrote has that request as its writer.
LEMMA TheWriter ==
    ASSUME NEW r \in Requests, NEW t
    PROVE  /\ Writer(S3!Whole({<<r, t>>}), t) = r
           /\ S3!Whole({<<r, t>>}).marks = {<<r, t>>}
<1>1. S3!Whole({<<r, t>>}).marks = {<<r, t>>}
  BY DEF S3!Whole
<1>2. \A q \in Requests : <<q, t>> \in {<<r, t>>} <=> q = r
  OBVIOUS
<1>. QED
  BY <1>1, <1>2 DEF Writer

\* The object at the key of an original or a job was put there by its upload,
\* the one at a sentinel key by an upload of the file.
LEMMA WriterOf ==
    ASSUME Shapes, ObjectsHaveWriters, NEW r \in Requests
    PROVE  /\ S3!Exists(OriginalKey(r)) => WriterAt(OriginalKey(r)) = r
           /\ S3!Exists(JobKey(input[r].tenant, r)) => WriterAt(JobKey(input[r].tenant, r)) = r
           /\ S3!Exists(DocHashKey(r)) => WriterAt(DocHashKey(r)) \in Requests
<1>1. ASSUME NEW k \in S3Keys, S3!Exists(k)
      PROVE  \E q \in Requests : WrittenBy(k, q) /\ WriterAt(k) = q
  <2>1. PICK q \in Requests : WrittenBy(k, q)
    BY <1>1 DEF ObjectsHaveWriters
  <2>2. WriterAt(k) = q
    BY <2>1, TheWriter DEF WriterAt, WrittenBy
  <2>. QED
    BY <2>1, <2>2
<1>2. ASSUME NEW q \in Requests, WrittenBy(OriginalKey(r), q) PROVE q = r
  BY <1>2, KeysDiffer DEF WrittenBy
<1>3. ASSUME NEW q \in Requests, WrittenBy(JobKey(input[r].tenant, r), q) PROVE q = r
  BY <1>3, KeysDiffer DEF WrittenBy
<1>. QED
  BY <1>1, <1>2, <1>3, KeysAreKeys

-----------------------------------------------------------------------------
(***************************************************************************)
(* The properties follow from the invariant.                               *)
(***************************************************************************)
LEMMA InvImpliesMessages == AdaptersInv => MessageLeadsToFile
<1> SUFFICES ASSUME AdaptersInv, NEW r \in Requests, Sent(r)
             PROVE  LET jobKey == JobKey(MessageOf(r).tenant_id, MessageOf(r).job_id)
                        path == JobOf(WriterAt(jobKey)).s3_path
                    IN  /\ S3!Exists(jobKey) /\ S3!Exists(path)
                        /\ path = MessageOf(r).s3_path
                        /\ input[WriterAt(path)].body = input[r].body
                        /\ input[WriterAt(path)].tenant = input[r].tenant
  BY DEF MessageLeadsToFile
<1>1. sentTo[r] # None
  BY DEF Sent, Sqs!StateOf
<1>2. S3!Exists(OriginalKey(r)) /\ S3!Exists(JobKey(input[r].tenant, r))
  BY <1>1 DEF AdaptersInv, MessagesAreKept
<1>3. WriterAt(OriginalKey(r)) = r /\ WriterAt(JobKey(input[r].tenant, r)) = r
  BY <1>2, WriterOf DEF AdaptersInv
<1>4. /\ MessageOf(r).tenant_id = input[r].tenant /\ MessageOf(r).job_id = r
      /\ MessageOf(r).s3_path = OriginalKey(r) /\ JobOf(r).s3_path = OriginalKey(r)
  BY DEF MessageOf, JobOf
<1>. QED
  BY <1>2, <1>3, <1>4

LEMMA InvImpliesCache == AdaptersInv => CacheAgreesWithTruth
<1> SUFFICES ASSUME AdaptersInv, NEW r \in Requests, Cached(r)
             PROVE  LET jobKey == JobKey(input[r].tenant, r)
                    IN  /\ S3!Exists(jobKey)
                        /\ store[r].value = JobOf(WriterAt(jobKey))
                        /\ store[r].expires # None /\ store[r].expires <= now + CacheTtl
  BY DEF CacheAgreesWithTruth
<1>1. S3!Exists(JobKey(input[r].tenant, r))
  BY DEF AdaptersInv, EntriesAreJobs, Cached, Redis!IsAlive
<1>2. PICK expires \in 0..(now + CacheTtl) :
         store[r] = [value |-> JobOf(r), expires |-> expires]
  BY DEF AdaptersInv, EntriesAreJobs, Cached, Redis!IsAlive
<1>3. WriterAt(JobKey(input[r].tenant, r)) = r
  BY <1>1, WriterOf DEF AdaptersInv
<1>4. expires # None /\ expires <= now + CacheTtl
  BY AdaptersAssumption DEF AdaptersInv, Shapes
<1>. QED
  BY <1>1, <1>2, <1>3, <1>4

-----------------------------------------------------------------------------
(***************************************************************************)
(* What each store call does to the adapters, and to what UploadPipeline   *)
(* sees of them.                                                           *)
(***************************************************************************)

\* The part of the invariant that is about the adapters.
StoresInv == Shapes /\ ObjectsHaveWriters /\ EntriesAreJobs /\ MessagesAreKept

\* Nothing of an upload is lost from S3.
Grown == \A k \in S3Keys : S3!Exists(k) => S3!Exists(k)'

\* What UploadPipeline sees depends on the adapters and on what was submitted.
LEMMA SameView ==
    ASSUME UNCHANGED input
    PROVE  /\ UNCHANGED objects => UNCHANGED <<Originals, Registered, Sentinels>>
           /\ UNCHANGED redis => UNCHANGED CachedJobs
           /\ UNCHANGED sqs => UNCHANGED SentJobs
<1>1. ASSUME UNCHANGED objects PROVE UNCHANGED <<Originals, Registered, Sentinels>>
  BY <1>1 DEF Originals, Registered, Sentinels, SentinelAt, OriginalKey, JobKey, S3!Exists, WriterAt
<1>2. ASSUME UNCHANGED redis PROVE UNCHANGED CachedJobs
  BY <1>2 DEF redis, CachedJobs, Cached, Redis!IsAlive
<1>3. ASSUME UNCHANGED sqs PROVE UNCHANGED SentJobs
  BY <1>3 DEF sqs, SentJobs, Sent, Sqs!StateOf
<1>. QED
  BY <1>1, <1>2, <1>3

\* The sentinels depend on the objects at sentinel keys.
LEMMA SentinelsSame ==
    ASSUME \A h \in {<<in.tenant, in.body>> : in \in Inputs} :
              objects'[<<h[1], "doc_hash", h[2]>>] = objects[<<h[1], "doc_hash", h[2]>>]
    PROVE  UNCHANGED Sentinels
  BY DEF Sentinels, SentinelAt, WriterAt, S3!Exists

\* put_object of a request at one of its keys: that object is new, the others stay.
LEMMA PutEffect ==
    ASSUME Shapes, NEW r \in Requests, UNCHANGED input,
           NEW k \in {OriginalKey(r), DocHashKey(r), JobKey(input[r].tenant, r)}, Put(r, k)
    PROVE  /\ k \in S3Keys /\ k[1] = input[r].tenant
           /\ objects' \in [S3Keys -> S3!Bodies \union {NoObject}]
           /\ objects'[k] = S3!Whole({<<r, k[1]>>}) /\ objects'[k] # NoObject
           /\ \A j \in S3Keys \ {k} : objects'[j] = objects[j]
           /\ UNCHANGED <<redis, sqs>>
<1>1. k \in S3Keys /\ k[1] = input[r].tenant
  BY KeysAreKeys
<1>2. /\ objects' = [objects EXCEPT ![k] = S3!Whole({<<r, input[r].tenant>>})]
      /\ UNCHANGED <<redis, sqs>>
  BY DEF Put, S3!PutObject, S3!Store
<1>3. S3!Whole({<<r, input[r].tenant>>}) \in S3!Bodies
  <2>1. input[r].tenant \in Tenants
    BY DEF Shapes, Tenants
  <2>. QED
    BY <2>1 DEF S3!Whole, S3!Bodies
<1>4. S3!Whole({<<r, input[r].tenant>>}) # NoObject
  BY <1>3, AdaptersAssumption
<1>. QED
  BY <1>1, <1>2, <1>3, <1>4 DEF Shapes

\* The keys of requests do not move.
LEMMA SameKeys ==
    ASSUME UNCHANGED input
    PROVE  \A q \in Requests :
              /\ OriginalKey(q)' = OriginalKey(q)
              /\ DocHashKey(q)' = DocHashKey(q)
              /\ JobKey(input[q].tenant, q)' = JobKey(input[q].tenant, q)
              /\ JobOf(q)' = JobOf(q)
  BY DEF OriginalKey, DocHashKey, JobKey, JobOf

\* The invariant of the adapters outlives every put of a request.
LEMMA PutKeeps ==
    ASSUME StoresInv, NEW r \in Requests, UNCHANGED input, DOMAIN step' = Requests,
           NEW k \in {OriginalKey(r), DocHashKey(r), JobKey(input[r].tenant, r)}, Put(r, k)
    PROVE  /\ StoresInv' /\ Grown
           /\ k = OriginalKey(r) => S3!Exists(OriginalKey(r))'
           /\ k = JobKey(input[r].tenant, r) => S3!Exists(JobKey(input[r].tenant, r))'
<1>1. /\ k \in S3Keys /\ k[1] = input[r].tenant
      /\ objects' \in [S3Keys -> S3!Bodies \union {NoObject}]
      /\ objects'[k] = S3!Whole({<<r, k[1]>>}) /\ objects'[k] # NoObject
      /\ \A j \in S3Keys \ {k} : objects'[j] = objects[j]
      /\ UNCHANGED <<redis, sqs>>
  BY PutEffect DEF StoresInv
<1>2. Grown
  BY <1>1 DEF Grown, S3!Exists
<1>3. Shapes'
  BY <1>1 DEF StoresInv, Shapes, redis, sqs
<1>4. ObjectsHaveWriters'
  <2> SUFFICES ASSUME NEW j \in S3Keys, objects'[j] # NoObject
               PROVE  \E q \in Requests : WrittenBy(j, q)'
    BY DEF ObjectsHaveWriters, S3!Exists
  <2>1. CASE j = k
    BY <1>1, <2>1, SameKeys DEF WrittenBy
  <2>2. CASE j # k
    <3>1. PICK q \in Requests : WrittenBy(j, q)
      BY <1>1, <2>2 DEF StoresInv, ObjectsHaveWriters, S3!Exists
    <3>. QED
      BY <1>1, <2>2, <3>1, SameKeys DEF WrittenBy
  <2>. QED
    BY <2>1, <2>2
<1>5. \A q \in Requests :
         /\ S3!Exists(OriginalKey(q)) => S3!Exists(OriginalKey(q))'
         /\ S3!Exists(JobKey(input[q].tenant, q)) => S3!Exists(JobKey(input[q].tenant, q))'
  BY <1>2, SameKeys, KeysAreKeys DEF StoresInv, Grown, S3!Exists
<1>6. EntriesAreJobs'
  BY <1>1, <1>5, SameKeys DEF StoresInv, EntriesAreJobs, redis
<1>7. MessagesAreKept'
  BY <1>1, <1>5 DEF StoresInv, MessagesAreKept, sqs, Sqs!StateOf
<1>8. /\ k = OriginalKey(r) => S3!Exists(OriginalKey(r))'
      /\ k = JobKey(input[r].tenant, r) => S3!Exists(JobKey(input[r].tenant, r))'
  BY <1>1, SameKeys DEF S3!Exists
<1>. QED
  BY <1>2, <1>3, <1>4, <1>6, <1>7, <1>8 DEF StoresInv

\* The put of an original adds its upload to those stored.
LEMMA PutOriginalView ==
    ASSUME StoresInv, NEW r \in Requests, UNCHANGED input, Put(r, OriginalKey(r))
    PROVE  /\ Originals' = Originals \union {r}
           /\ UNCHANGED <<Sentinels, Registered, CachedJobs, SentJobs>>
<1> DEFINE k == OriginalKey(r)
<1>1. /\ k \in S3Keys
      /\ objects'[k] # NoObject
      /\ \A j \in S3Keys \ {k} : objects'[j] = objects[j]
      /\ UNCHANGED <<redis, sqs>>
  BY PutEffect DEF StoresInv
<1>2. \A q \in Requests :
         /\ OriginalKey(q) \in S3Keys /\ JobKey(input[q].tenant, q) \in S3Keys
         /\ OriginalKey(q) = k => q = r
         /\ JobKey(input[q].tenant, q) # k
  BY KeysAreKeys, KeysDiffer DEF StoresInv
<1>3. Originals' = Originals \union {r}
  BY <1>1, <1>2, SameKeys DEF Originals, S3!Exists
<1>4. UNCHANGED Registered
  BY <1>1, <1>2, SameKeys DEF Registered, S3!Exists
<1>5. UNCHANGED Sentinels
  <2>1. ASSUME NEW h \in {<<in.tenant, in.body>> : in \in Inputs}
        PROVE  objects'[<<h[1], "doc_hash", h[2]>>] = objects[<<h[1], "doc_hash", h[2]>>]
    <3>1. <<h[1], "doc_hash", h[2]>> \in S3Keys
      BY DEF S3Keys, Tenants, Files
    <3>2. <<h[1], "doc_hash", h[2]>> # k
      BY DEF OriginalKey
    <3>. QED
      BY <1>1, <3>1, <3>2
  <2>. QED
    BY <2>1, SentinelsSame
<1>. QED
  BY <1>1, <1>3, <1>4, <1>5, SameView

\* The put of a job JSON adds its upload to those registered.
LEMMA PutJobView ==
    ASSUME StoresInv, NEW r \in Requests, UNCHANGED input,
           Put(r, JobKey(input[r].tenant, r))
    PROVE  /\ Registered' = Registered \union {r}
           /\ UNCHANGED <<Sentinels, Originals, CachedJobs, SentJobs>>
<1> DEFINE k == JobKey(input[r].tenant, r)
<1>1. /\ k \in S3Keys
      /\ objects'[k] # NoObject
      /\ \A j \in S3Keys \ {k} : objects'[j] = objects[j]
      /\ UNCHANGED <<redis, sqs>>
  BY PutEffect DEF StoresInv
<1>2. \A q \in Requests :
         /\ OriginalKey(q) \in S3Keys /\ JobKey(input[q].tenant, q) \in S3Keys
         /\ JobKey(input[q].tenant, q) = k => q = r
         /\ OriginalKey(q) # k
  BY KeysAreKeys, KeysDiffer DEF StoresInv
<1>3. Registered' = Registered \union {r}
  BY <1>1, <1>2, SameKeys DEF Registered, S3!Exists
<1>4. UNCHANGED Originals
  BY <1>1, <1>2, SameKeys DEF Originals, S3!Exists
<1>5. UNCHANGED Sentinels
  <2>1. ASSUME NEW h \in {<<in.tenant, in.body>> : in \in Inputs}
        PROVE  objects'[<<h[1], "doc_hash", h[2]>>] = objects[<<h[1], "doc_hash", h[2]>>]
    <3>1. <<h[1], "doc_hash", h[2]>> \in S3Keys
      BY DEF S3Keys, Tenants, Files
    <3>2. <<h[1], "doc_hash", h[2]>> # k
      BY DEF JobKey
    <3>. QED
      BY <1>1, <3>1, <3>2
  <2>. QED
    BY <2>1, SentinelsSame
<1>. QED
  BY <1>1, <1>3, <1>4, <1>5, SameView

\* The put of a sentinel points that of the file to its upload.
LEMMA PutDocHashView ==
    ASSUME StoresInv, NEW r \in Requests, UNCHANGED input, Put(r, DocHashKey(r))
    PROVE  /\ Sentinels' = [Sentinels EXCEPT ![P!HashKey(input[r])] = r]
           /\ UNCHANGED <<Originals, Registered, CachedJobs, SentJobs>>
<1> DEFINE k == DocHashKey(r)
           H == {<<in.tenant, in.body>> : in \in Inputs}
           f == P!HashKey(input[r])
<1>1. /\ k \in S3Keys /\ k[1] = input[r].tenant
      /\ objects'[k] = S3!Whole({<<r, k[1]>>}) /\ objects'[k] # NoObject
      /\ \A j \in S3Keys \ {k} : objects'[j] = objects[j]
      /\ UNCHANGED <<redis, sqs>>
  BY PutEffect DEF StoresInv
<1>2. \A q \in Requests :
         /\ OriginalKey(q) \in S3Keys \ {k}
         /\ JobKey(input[q].tenant, q) \in S3Keys \ {k}
  BY KeysAreKeys, KeysDiffer DEF StoresInv
<1>3. UNCHANGED <<Originals, Registered>>
  BY <1>1, <1>2, SameKeys DEF Originals, Registered, S3!Exists
<1>4. f \in H /\ <<f[1], "doc_hash", f[2]>> = k
  BY DEF StoresInv, Shapes, DocHashKey, P!HashKey
<1>5. Writer(objects'[k], k[1]) = r
  BY <1>1, TheWriter
<1>6. SentinelAt(k)' = r
  BY <1>1, <1>5, SameKeys DEF SentinelAt, WriterAt, S3!Exists
<1>7. ASSUME NEW h \in H, h # f
      PROVE  objects'[<<h[1], "doc_hash", h[2]>>] = objects[<<h[1], "doc_hash", h[2]>>]
  <2>1. <<h[1], "doc_hash", h[2]>> \in S3Keys
    BY DEF S3Keys, Tenants, Files
  <2>2. <<h[1], "doc_hash", h[2]>> # k
    BY <1>7 DEF DocHashKey, P!HashKey
  <2>. QED
    BY <1>1, <2>1, <2>2
<1>8. Sentinels' = [Sentinels EXCEPT ![f] = r]
  <2>1. Sentinels = [h \in H |-> SentinelAt(<<h[1], "doc_hash", h[2]>>)]
    BY DEF Sentinels
  <2>2. Sentinels' = [h \in H |-> IF h = f THEN r ELSE Sentinels[h]]
    BY <1>1, <1>4, <1>5, <1>7 DEF Sentinels, SentinelAt, WriterAt, S3!Exists
  <2> HIDE DEF H, f
  <2>. QED
    BY <2>1, <2>2, <1>4
<1>. QED
  BY <1>1, <1>3, <1>8, SameView

-----------------------------------------------------------------------------
\* The entry that a job is given in Redis.
LEMMA EntryOfJob ==
    ASSUME Shapes, NEW r \in Requests
    PROVE  /\ Redis!Entry(JobOf(r), CacheTtl)
                 = [value |-> JobOf(r), expires |-> now + CacheTtl]
           /\ Redis!Entry(JobOf(r), CacheTtl) # NoValue
           /\ Redis!Entry(JobOf(r), CacheTtl).expires = now + CacheTtl
           /\ now < now + CacheTtl /\ now + CacheTtl \in Nat
<1>1. now \in Nat /\ CacheTtl \in Nat \ {0} /\ CacheTtl # None
  BY AdaptersAssumption DEF Shapes
<1>2. Redis!Entry(JobOf(r), CacheTtl) = [value |-> JobOf(r), expires |-> now + CacheTtl]
  BY <1>1 DEF Redis!Entry
<1>3. JobOf(r) \in Jobs
  <2>1. input[r].tenant \in Tenants /\ OriginalKey(r) \in S3Keys
    BY KeysAreKeys DEF Shapes, Tenants
  <2>. QED
    BY <2>1 DEF JobOf, Jobs
<1>4. [value |-> JobOf(r), expires |-> now + CacheTtl] \in [value : Jobs, expires : Nat]
  BY <1>1, <1>3
<1>. QED
  BY <1>1, <1>2, <1>4, AdaptersAssumption

\* The SET of a job in Redis adds it to those cached, for CacheTtl seconds.
LEMMA CacheSetView ==
    ASSUME StoresInv, NEW r \in Requests, UNCHANGED input, CacheSet(r)
    PROVE  /\ CachedJobs' = CachedJobs \union {r}
           /\ UNCHANGED <<Originals, Sentinels, Registered, SentJobs>>
<1>1. /\ UNCHANGED <<objects, sqs>> /\ now' = now
      /\ store' = [store EXCEPT ![r] = Redis!Entry(JobOf(r), CacheTtl)]
  BY DEF CacheSet, Redis!Set
<1>2. /\ Redis!Entry(JobOf(r), CacheTtl) # NoValue
      /\ Redis!Entry(JobOf(r), CacheTtl).expires = now + CacheTtl
      /\ now < now + CacheTtl
  BY EntryOfJob DEF StoresInv
<1>3. DOMAIN store = Requests
  BY DEF StoresInv, Shapes
<1>4. CachedJobs' = CachedJobs \union {r}
  BY <1>1, <1>2, <1>3 DEF CachedJobs, Cached, Redis!IsAlive
<1>. QED
  BY <1>1, <1>4, SameView

\* The invariant of the adapters outlives the SET of a job that S3 holds.
LEMMA CacheSetKeeps ==
    ASSUME StoresInv, NEW r \in Requests, UNCHANGED input, DOMAIN step' = Requests,
           S3!Exists(JobKey(input[r].tenant, r)), CacheSet(r)
    PROVE  StoresInv' /\ Grown
<1>1. /\ UNCHANGED <<objects, sqs>> /\ now' = now
      /\ store' = [store EXCEPT ![r] = Redis!Entry(JobOf(r), CacheTtl)]
  BY DEF CacheSet, Redis!Set
<1>2. Shapes' /\ Grown
  BY <1>1 DEF StoresInv, Shapes, Grown, S3!Exists, sqs
<1>3. ObjectsHaveWriters'
  BY <1>1, SameKeys DEF StoresInv, ObjectsHaveWriters, WrittenBy, S3!Exists
<1>4. EntriesAreJobs'
  <2> SUFFICES ASSUME NEW q \in Requests, store'[q] # NoValue
               PROVE  /\ S3!Exists(JobKey(input[q].tenant, q))
                      /\ \E expires \in 0..(now + CacheTtl) :
                            store'[q] = [value |-> JobOf(q), expires |-> expires]
    BY <1>1, SameKeys DEF EntriesAreJobs, S3!Exists
  <2>1. CASE q = r
    <3>1. store'[q] = [value |-> JobOf(q), expires |-> now + CacheTtl]
      BY <1>1, <2>1, EntryOfJob DEF StoresInv, Shapes
    <3>2. now + CacheTtl \in 0..(now + CacheTtl)
      BY EntryOfJob DEF StoresInv
    <3>. QED
      BY <2>1, <3>1, <3>2
  <2>2. CASE q # r
    <3>1. store'[q] = store[q]
      BY <1>1, <2>2 DEF StoresInv, Shapes
    <3>. QED
      BY <3>1 DEF StoresInv, EntriesAreJobs
  <2>. QED
    BY <2>1, <2>2
<1>5. MessagesAreKept'
  BY <1>1, SameKeys DEF StoresInv, MessagesAreKept, sqs, Sqs!StateOf, S3!Exists
<1>. QED
  BY <1>2, <1>3, <1>4, <1>5 DEF StoresInv

-----------------------------------------------------------------------------
\* Nothing that was sent is dropped, so what was sent is in one of the tables.
LEMMA SentIsSent ==
    /\ MessagesAreKept => SentJobs = {q \in Requests : sentTo[q] # None}
    /\ MessagesAreKept' => SentJobs' = {q \in Requests : sentTo'[q] # None}
<1>1. ASSUME MessagesAreKept PROVE SentJobs = {q \in Requests : sentTo[q] # None}
  BY <1>1 DEF MessagesAreKept, SentJobs, Sent, Sqs!StateOf
<1>2. ASSUME MessagesAreKept' PROVE SentJobs' = {q \in Requests : sentTo'[q] # None}
  BY <1>2 DEF MessagesAreKept, SentJobs, Sent, Sqs!StateOf
<1>. QED
  BY <1>1, <1>2

\* The place of a message that is not dropped, read off the tables.
LEMMA NotDropped ==
    ASSUME Shapes, NEW q \in Requests, sentTo[q] # None
    PROVE  Sqs!StateOf(q) # "dropped"
              <=> q \in Sqs!Range(queues["indexing"]) \union inFlight \union deleted
  BY DEF Shapes, Sqs!StateOf

LEMMA NotDroppedNext ==
    ASSUME Shapes', NEW q \in Requests, sentTo'[q] # None
    PROVE  (Sqs!StateOf(q) # "dropped")'
              <=> q \in Sqs!Range(queues'["indexing"]) \union inFlight' \union deleted'
  BY DEF Shapes, Sqs!StateOf

\* The send of a request is never taken for a duplicate.
LEMMA SendAppends ==
    ASSUME StoresInv, NEW r \in Requests, SendMessage(r)
    PROVE  /\ sentTo[r] = None
           /\ sentTo' = [sentTo EXCEPT ![r] = "indexing"]
           /\ dedupId' = [dedupId EXCEPT ![r] = DedupIdOf(r)]
           /\ queues' = [queues EXCEPT !["indexing"] = Append(@, r)]
           /\ UNCHANGED <<objects, redis, inFlight, deleted>>
<1>1. /\ sentTo[r] = None
      /\ sentTo' = [sentTo EXCEPT ![r] = "indexing"]
      /\ dedupId' = [dedupId EXCEPT ![r] = DedupIdOf(r)]
      /\ UNCHANGED <<objects, redis, inFlight, deleted>>
      /\ IF DedupIdOf(r) # None /\ Sqs!HasDedup("indexing", DedupIdOf(r))
         THEN UNCHANGED <<queues, log>>
         ELSE queues' = [queues EXCEPT !["indexing"] = Append(@, r)]
  BY DEF SendMessage, Sqs!Send
<1>2. ~Sqs!HasDedup("indexing", DedupIdOf(r))
  <2>1. ASSUME NEW i \in DOMAIN queues["indexing"]
        PROVE  dedupId[queues["indexing"][i]] # DedupIdOf(r)
    BY <1>1 DEF StoresInv, MessagesAreKept, DedupIdOf
  <2>. QED
    BY <2>1 DEF Sqs!HasDedup, Sqs!Range
<1>. QED
  BY <1>1, <1>2

\* The send adds its upload to those sent.
LEMMA SendKeeps ==
    ASSUME StoresInv, NEW r \in Requests, UNCHANGED input, DOMAIN step' = Requests,
           S3!Exists(OriginalKey(r)), S3!Exists(JobKey(input[r].tenant, r)),
           SendMessage(r)
    PROVE  /\ StoresInv' /\ Grown
           /\ SentJobs' = SentJobs \union {r}
           /\ UNCHANGED <<Originals, Sentinels, Registered, CachedJobs>>
<1> DEFINE s == queues["indexing"]
<1>1. /\ sentTo[r] = None
      /\ sentTo' = [sentTo EXCEPT ![r] = "indexing"]
      /\ dedupId' = [dedupId EXCEPT ![r] = DedupIdOf(r)]
      /\ queues' = [queues EXCEPT !["indexing"] = Append(s, r)]
      /\ UNCHANGED <<objects, redis, inFlight, deleted>>
  BY SendAppends
<1>2. /\ s \in Seq(Requests) /\ queues'["indexing"] = Append(s, r)
      /\ DOMAIN s = 1..Len(s) /\ DOMAIN Append(s, r) = 1..(Len(s) + 1)
      /\ \A i \in 1..Len(s) : Append(s, r)[i] = s[i]
      /\ Append(s, r)[Len(s) + 1] = r
      /\ Append(s, r) \in Seq(Requests)
  BY <1>1, AppendProperties DEF StoresInv, Shapes
<1>3. Shapes' /\ Grown
  <2>1. sentTo' \in [Requests -> {"indexing", None}] /\ DOMAIN dedupId' = Requests
    BY <1>1 DEF StoresInv, Shapes
  <2>2. queues' \in [{"indexing"} -> Seq(Requests)]
    BY <1>1, <1>2 DEF StoresInv, Shapes
  <2>. QED
    BY <1>1, <2>1, <2>2 DEF StoresInv, Shapes, Grown, S3!Exists, redis
<1>4. ObjectsHaveWriters'
  BY <1>1, SameKeys DEF StoresInv, ObjectsHaveWriters, WrittenBy, S3!Exists
<1>5. EntriesAreJobs'
  BY <1>1, SameKeys DEF StoresInv, EntriesAreJobs, redis, S3!Exists
<1>6. sentTo'[r] = "indexing" /\ \A q \in Requests \ {r} : sentTo'[q] = sentTo[q]
  BY <1>1 DEF StoresInv, Shapes
<1>7. MessagesAreKept'
  <2>1. ASSUME NEW i \in 1..(Len(s) + 1)
        PROVE  /\ sentTo'[Append(s, r)[i]] # None
               /\ dedupId'[Append(s, r)[i]] = DedupIdOf(Append(s, r)[i])
    <3>1. CASE i = Len(s) + 1
      BY <1>1, <1>2, <3>1, AdaptersAssumption DEF StoresInv, Shapes
    <3>2. CASE i \in 1..Len(s)
      <4>1. s[i] \in Requests /\ sentTo[s[i]] # None /\ dedupId[s[i]] = DedupIdOf(s[i])
        BY <1>2, <3>2 DEF StoresInv, MessagesAreKept
      <4>2. s[i] # r
        BY <1>1, <4>1
      <4>. QED
        BY <1>1, <1>2, <3>2, <4>1, <4>2 DEF StoresInv, Shapes
    <3>. QED
      BY <1>2, <3>1, <3>2
  <2>2. ASSUME NEW q \in Requests, sentTo'[q] # None
        PROVE  /\ (Sqs!StateOf(q) # "dropped")'
               /\ S3!Exists(OriginalKey(q)) /\ S3!Exists(JobKey(input[q].tenant, q))
    <3>1. Sqs!Range(s) \subseteq Sqs!Range(Append(s, r)) /\ r \in Sqs!Range(Append(s, r))
      BY <1>2 DEF Sqs!Range
    <3>2. CASE q = r
      BY <1>2, <1>3, <2>2, <3>1, <3>2, NotDroppedNext
    <3>3. CASE q # r
      <4>1. /\ Sqs!StateOf(q) # "dropped" /\ sentTo[q] # None
            /\ S3!Exists(OriginalKey(q)) /\ S3!Exists(JobKey(input[q].tenant, q))
        BY <1>6, <2>2, <3>3 DEF StoresInv, MessagesAreKept
      <4>2. q \in Sqs!Range(s) \union inFlight \union deleted
        BY <4>1, NotDropped DEF StoresInv
      <4>. QED
        BY <1>1, <1>2, <1>3, <2>2, <3>1, <4>1, <4>2, NotDroppedNext
    <3>. QED
      BY <3>2, <3>3
  <2>3. \A q \in Requests : /\ S3!Exists(OriginalKey(q))' <=> S3!Exists(OriginalKey(q))
                            /\ S3!Exists(JobKey(input[q].tenant, q))'
                                  <=> S3!Exists(JobKey(input[q].tenant, q))
    BY <1>1, SameKeys DEF S3!Exists
  <2>. QED
    BY <1>2, <2>1, <2>2, <2>3 DEF MessagesAreKept, DedupIdOf
<1>8. SentJobs' = SentJobs \union {r}
  BY <1>6, <1>7, SentIsSent, AdaptersAssumption DEF StoresInv
<1>. QED
  BY <1>1, <1>3, <1>4, <1>5, <1>7, <1>8, SameView DEF StoresInv

-----------------------------------------------------------------------------
(***************************************************************************)
(* The clock and the consumers.                                            *)
(***************************************************************************)

\* As time passes entries expire, and nothing else changes.
LEMMA TickKeeps ==
    ASSUME StoresInv, Tick
    PROVE  /\ StoresInv' /\ Grown
           /\ CachedJobs' \subseteq CachedJobs
           /\ UNCHANGED <<Originals, Sentinels, Registered, SentJobs>>
<1>1. now' = now + 1 /\ UNCHANGED <<input, step, objects, store, sqs>>
  BY DEF Tick, Redis!AdvanceTime
<1>2. now \in Nat /\ CacheTtl \in Nat
  BY AdaptersAssumption DEF StoresInv, Shapes
<1>3. Shapes' /\ Grown
  BY <1>1, <1>2 DEF StoresInv, Shapes, Grown, S3!Exists, sqs
<1>4. ObjectsHaveWriters'
  BY <1>1, SameKeys DEF StoresInv, ObjectsHaveWriters, WrittenBy, S3!Exists
<1>5. EntriesAreJobs'
  <2>1. 0..(now + CacheTtl) \subseteq 0..(now' + CacheTtl)
    BY <1>1, <1>2
  <2>. QED
    BY <1>1, <2>1, SameKeys DEF StoresInv, EntriesAreJobs, S3!Exists
<1>6. MessagesAreKept'
  BY <1>1, SameKeys DEF StoresInv, MessagesAreKept, sqs, Sqs!StateOf, S3!Exists
<1>7. CachedJobs' \subseteq CachedJobs
  <2> SUFFICES ASSUME NEW q \in Requests, Cached(q)' PROVE Cached(q)
    BY DEF CachedJobs
  <2>1. store[q] # NoValue /\ (store[q].expires # None => now + 1 < store[q].expires)
    BY <1>1 DEF Cached, Redis!IsAlive
  <2>2. store[q].expires \in 0..(now + CacheTtl)
    <3>1. PICK expires \in 0..(now + CacheTtl) :
             store[q] = [value |-> JobOf(q), expires |-> expires]
      BY <2>1 DEF StoresInv, EntriesAreJobs
    <3>. QED
      BY <3>1
  <2>3. store[q].expires # None => now < store[q].expires
    BY <1>2, <2>1, <2>2
  <2>. QED
    BY <2>1, <2>3 DEF Cached, Redis!IsAlive
<1>. QED
  BY <1>1, <1>3, <1>4, <1>5, <1>6, <1>7, SameView DEF StoresInv

\* What one receive takes from a list and what it leaves.
LEMMA OneTaken ==
    ASSUME NEW s \in Seq(Requests), s # << >>,
           NEW n, n = IF 1 < Len(s) THEN 1 ELSE Len(s)
    PROVE  LET head == SubSeq(s, 1, n)
               rest == SubSeq(s, 1 + 1, Len(s))
           IN  /\ rest \in Seq(Requests)
               /\ \A i \in DOMAIN rest : i + 1 \in DOMAIN s /\ rest[i] = s[i + 1]
               /\ Sqs!Range(s) \subseteq Sqs!Range(head) \union Sqs!Range(rest)
<1> DEFINE head == SubSeq(s, 1, n)
           rest == SubSeq(s, 1 + 1, Len(s))
<1>1. Len(s) \in Nat /\ Len(s) >= 1 /\ n = 1 /\ \A i \in 1..Len(s) : s[i] \in Requests
  <2>1. Len(s) \in Nat /\ Len(s) # 0
    BY EmptySeq
  <2>. QED
    BY <2>1
<1>2. Len(head) = 1 /\ head[1] = s[1] /\ DOMAIN head = 1..1
  BY <1>1, SubSeqProperties
<1>3. /\ rest \in Seq(Requests) /\ Len(rest) = Len(s) - 1 /\ DOMAIN rest = 1..(Len(s) - 1)
      /\ \A i \in 1..(Len(s) - 1) : rest[i] = s[i + 1]
  BY <1>1, SubSeqProperties
<1> HIDE DEF head, rest
<1>4. Sqs!Range(s) \subseteq Sqs!Range(head) \union Sqs!Range(rest)
  <2> SUFFICES ASSUME NEW i \in 1..Len(s)
               PROVE  s[i] \in Sqs!Range(head) \union Sqs!Range(rest)
    BY <1>1 DEF Sqs!Range
  <2>1. CASE i = 1
    BY <1>2, <2>1 DEF Sqs!Range
  <2>2. CASE i # 1
    <3>1. i - 1 \in 1..(Len(s) - 1) /\ rest[i - 1] = s[i]
      BY <1>1, <1>3, <2>2
    <3>. QED
      BY <1>3, <3>1 DEF Sqs!Range
  <2>. QED
    BY <2>1, <2>2
<1>. QED
  BY <1>1, <1>3, <1>4 DEF head, rest

\* A consumer moves messages between the tables, and loses none.
LEMMA ConsumeKeeps ==
    ASSUME StoresInv, NEW c \in Consumers, Consume(c)
    PROVE  /\ StoresInv' /\ Grown
           /\ UNCHANGED <<Originals, Sentinels, Registered, CachedJobs, SentJobs>>
<1> DEFINE s == queues["indexing"]
           here == Sqs!Range(s) \union inFlight \union deleted
<1>1. UNCHANGED <<input, step, objects, redis, sentTo, dedupId>>
  BY DEF Consume, Sqs!Receive, Sqs!Hand, Sqs!Delete
<1>2. s \in Seq(Requests) /\ queues \in [{"indexing"} -> Seq(Requests)]
  BY DEF StoresInv, Shapes
<1>3. /\ queues' \in [{"indexing"} -> Seq(Requests)]
      /\ \A i \in DOMAIN queues'["indexing"] :
            \E j \in DOMAIN s : queues'["indexing"][i] = s[j]
      /\ here \subseteq Sqs!Range(queues'["indexing"]) \union inFlight' \union deleted'
  <2>1. CASE s # << >> /\ Sqs!Receive(c, "indexing", 1)
    <3> DEFINE n == IF 1 < Len(s) THEN 1 ELSE Len(s)
               head == SubSeq(s, 1, n)
               rest == SubSeq(s, 1 + 1, Len(s))
    <3>1. /\ queues' = [queues EXCEPT !["indexing"] = rest]
          /\ inFlight' = inFlight \union Sqs!Range(head)
          /\ deleted' = deleted
      BY <2>1 DEF Sqs!Receive, Sqs!Hand, Sqs!Rest, Sqs!Taken
    <3>2. /\ rest \in Seq(Requests)
          /\ \A i \in DOMAIN rest : i + 1 \in DOMAIN s /\ rest[i] = s[i + 1]
          /\ Sqs!Range(s) \subseteq Sqs!Range(head) \union Sqs!Range(rest)
      BY <1>2, <2>1, OneTaken
    <3> HIDE DEF head, rest
    <3>3. queues'["indexing"] = rest
      BY <1>2, <3>1
    <3>. QED
      BY <1>2, <3>1, <3>2, <3>3
  <2>2. CASE \E m \in Requests : Sqs!Delete(c, m)
    <3>1. PICK m \in Requests : Sqs!Delete(c, m)
      BY <2>2
    <3>2. UNCHANGED queues /\ inFlight' = inFlight \ {m} /\ deleted' = deleted \union {m}
      BY <3>1 DEF Sqs!Delete
    <3>. QED
      BY <1>2, <3>2
  <2>. QED
    BY <2>1, <2>2 DEF Consume
<1>4. Shapes' /\ Grown
  BY <1>1, <1>3 DEF StoresInv, Shapes, Grown, S3!Exists, redis
<1>5. ObjectsHaveWriters'
  BY <1>1, SameKeys DEF StoresInv, ObjectsHaveWriters, WrittenBy, S3!Exists
<1>6. EntriesAreJobs'
  BY <1>1, SameKeys DEF StoresInv, EntriesAreJobs, redis, S3!Exists
<1>7. MessagesAreKept'
  <2>1. ASSUME NEW i \in DOMAIN queues'["indexing"]
        PROVE  LET m == queues'["indexing"][i]
               IN  sentTo[m] # None /\ dedupId[m] = DedupIdOf(m)
    BY <1>3, <2>1 DEF StoresInv, MessagesAreKept
  <2>2. ASSUME NEW q \in Requests, sentTo[q] # None
        PROVE  /\ (Sqs!StateOf(q) # "dropped")'
               /\ S3!Exists(OriginalKey(q)) /\ S3!Exists(JobKey(input[q].tenant, q))
    <3>1. /\ Sqs!StateOf(q) # "dropped"
          /\ S3!Exists(OriginalKey(q)) /\ S3!Exists(JobKey(input[q].tenant, q))
      BY <2>2 DEF StoresInv, MessagesAreKept
    <3>2. q \in here
      BY <2>2, <3>1, NotDropped DEF StoresInv
    <3>. QED
      BY <1>1, <1>3, <1>4, <2>2, <3>1, <3>2, NotDroppedNext
  <2>3. \A q \in Requests : /\ S3!Exists(OriginalKey(q))' <=> S3!Exists(OriginalKey(q))
                            /\ S3!Exists(JobKey(input[q].tenant, q))'
                                  <=> S3!Exists(JobKey(input[q].tenant, q))
    BY <1>1, SameKeys DEF S3!Exists
  <2>. QED
    BY <1>1, <2>1, <2>2, <2>3 DEF MessagesAreKept, DedupIdOf
<1>8. UNCHANGED SentJobs
  BY <1>1, <1>7, SentIsSent DEF StoresInv
<1>. QED
  BY <1>1, <1>4, <1>5, <1>6, <1>7, <1>8, SameView DEF StoresInv

-----------------------------------------------------------------------------
(***************************************************************************)
(* The steps of a request.                                                 *)
(***************************************************************************)

\* How a request moves along, is answered, or is prepared for its first write.
LEMMA Moves ==
    ASSUME Shapes, NEW r \in Requests, NEW from
    PROVE  /\ \A to : P!Goto(r, from, to) => step'[r] = to
           /\ \A a : P!Reply(r, from, a) => step'[r] = "answered"
           /\ P!Prepare(r, from) => step'[r] \in {"answered", "putOriginal"}
           /\ \/ \E to : P!Goto(r, from, to)
              \/ \E a : P!Reply(r, from, a)
              \/ P!Prepare(r, from)
              => /\ step[r] = from /\ DOMAIN step' = Requests
                 /\ \A q \in Requests \ {r} : step'[q] = step[q]
<1>1. DOMAIN step = Requests
  BY DEF Shapes
<1>2. ASSUME NEW to, P!Goto(r, from, to)
      PROVE  /\ step[r] = from /\ step'[r] = to /\ DOMAIN step' = Requests
             /\ \A q \in Requests \ {r} : step'[q] = step[q]
  BY <1>1, <1>2 DEF P!Goto
<1>3. ASSUME NEW a, P!Reply(r, from, a)
      PROVE  /\ step[r] = from /\ step'[r] = "answered" /\ DOMAIN step' = Requests
             /\ \A q \in Requests \ {r} : step'[q] = step[q]
  BY <1>1, <1>3 DEF P!Reply
<1>4. ASSUME P!Prepare(r, from)
      PROVE  (\E a : P!Reply(r, from, a)) \/ P!Goto(r, from, "putOriginal")
  BY <1>4 DEF P!Prepare
<1>. QED
  BY <1>2, <1>3, <1>4

\* A step that leaves the adapters alone leaves all that is seen of them.
LEMMA NothingKeeps ==
    ASSUME StoresInv, UNCHANGED input, DOMAIN step' = Requests, UNCHANGED adapters
    PROVE  /\ StoresInv' /\ Grown
           /\ UNCHANGED <<Originals, Sentinels, Registered, CachedJobs, SentJobs>>
<1>1. UNCHANGED <<objects, redis, sqs>>
  BY DEF adapters
<1>2. Shapes' /\ Grown
  BY <1>1 DEF StoresInv, Shapes, Grown, S3!Exists, redis, sqs
<1>3. ObjectsHaveWriters'
  BY <1>1, SameKeys DEF StoresInv, ObjectsHaveWriters, WrittenBy, S3!Exists
<1>4. EntriesAreJobs'
  BY <1>1, SameKeys DEF StoresInv, EntriesAreJobs, redis, S3!Exists
<1>5. MessagesAreKept'
  BY <1>1, SameKeys DEF StoresInv, MessagesAreKept, sqs, Sqs!StateOf, S3!Exists
<1>. QED
  BY <1>1, <1>2, <1>3, <1>4, <1>5, SameView DEF StoresInv

\* The steps of the others stay behind their writes.
LEMMA KeysStillMatch ==
    ASSUME Shapes, KeysMatchStep, NEW r \in Requests, UNCHANGED input, Grown,
           \A q \in Requests \ {r} : step'[q] = step[q],
           step'[r] \in {"putDocHash", "putJob", "cacheJob", "publish"}
              => S3!Exists(OriginalKey(r)) \/ S3!Exists(OriginalKey(r))',
           step'[r] \in {"cacheJob", "publish"}
              => \/ S3!Exists(JobKey(input[r].tenant, r))
                 \/ S3!Exists(JobKey(input[r].tenant, r))'
    PROVE  KeysMatchStep'
<1>1. \A q \in Requests :
         /\ S3!Exists(OriginalKey(q)) => S3!Exists(OriginalKey(q))'
         /\ S3!Exists(JobKey(input[q].tenant, q)) => S3!Exists(JobKey(input[q].tenant, q))'
  BY SameKeys, KeysAreKeys DEF Grown, S3!Exists
<1>. QED
  BY <1>1 DEF KeysMatchStep

\* The sentinel that the duplicate check looks up.
LEMMA SentinelOfFile ==
    ASSUME StoresInv, NEW r \in Requests
    PROVE  S3!Exists(DocHashKey(r)) <=> Sentinels[P!HashKey(input[r])] # NoDoc
<1> DEFINE f == P!HashKey(input[r])
<1>1. f \in {<<in.tenant, in.body>> : in \in Inputs} /\ <<f[1], "doc_hash", f[2]>> = DocHashKey(r)
  BY DEF StoresInv, Shapes, DocHashKey, P!HashKey
<1>2. Sentinels[f] = SentinelAt(DocHashKey(r))
  BY <1>1 DEF Sentinels
<1>3. S3!Exists(DocHashKey(r)) => WriterAt(DocHashKey(r)) \in Requests
  BY WriterOf DEF StoresInv
<1>. QED
  BY <1>2, <1>3, AdaptersAssumption DEF SentinelAt

\* The answers are those of UploadPipeline.
LEMMA SameAnswers == \A code, retryable : P!Answer(code, retryable) = Answer(code, retryable)
  BY DEF P!Answer, Answer, P!HttpStatus, HttpStatus

\* What each step keeps and is.
Follows == AdaptersInv' /\ P!Next

\* Arrival, with all the checks.
LEMMA ReceiveFollows ==
    ASSUME AdaptersInv, NEW r \in Requests, Receive(r)
    PROVE  Follows
<1>1. P!Receive(r) /\ UNCHANGED adapters /\ UNCHANGED input
  BY DEF Receive, P!Receive, P!Refuse, P!Admit
<1>2. /\ step'[r] \in {"answered", "putOriginal", "lookup"} /\ DOMAIN step' = Requests
      /\ \A q \in Requests \ {r} : step'[q] = step[q]
  <2>1. \/ \E a : P!Reply(r, "idle", a)
        \/ P!Prepare(r, "idle")
        \/ P!Goto(r, "idle", "lookup")
    BY DEF Receive, P!Refuse, P!Admit
  <2>. QED
    BY <2>1, Moves DEF AdaptersInv
<1>3. StoresInv' /\ Grown
  BY <1>1, <1>2, NothingKeeps DEF AdaptersInv, StoresInv
<1>4. KeysMatchStep'
  BY <1>1, <1>2, <1>3, KeysStillMatch DEF AdaptersInv
<1>. QED
  BY <1>1, <1>3, <1>4 DEF AdaptersInv, StoresInv, P!Next, Follows

\* The duplicate check, answered by S3 or not.
LEMMA CheckFollows ==
    ASSUME AdaptersInv, NEW r \in Requests, CheckDuplicate(r) \/ CheckDuplicateFails(r)
    PROVE  Follows
<1>1. UNCHANGED adapters /\ UNCHANGED input
  BY DEF CheckDuplicate, CheckDuplicateFails
<1>2. /\ step'[r] \in {"answered", "putOriginal"} /\ DOMAIN step' = Requests
      /\ \A q \in Requests \ {r} : step'[q] = step[q]
  <2>1. (\E a : P!Reply(r, "lookup", a)) \/ P!Prepare(r, "lookup")
    BY DEF CheckDuplicate, CheckDuplicateFails
  <2>. QED
    BY <2>1, Moves DEF AdaptersInv
<1>3. StoresInv /\ StoresInv' /\ Grown
  BY <1>1, <1>2, NothingKeeps DEF AdaptersInv, StoresInv
<1>4. UNCHANGED P!stores
  BY <1>1, <1>2, <1>3, NothingKeeps DEF P!stores
<1>5. KeysMatchStep'
  BY <1>1, <1>2, <1>3, KeysStillMatch DEF AdaptersInv
<1>6. P!Proceed(r)
  <2>1. CASE CheckDuplicate(r) /\ S3!Exists(DocHashKey(r))
    <3>1. P!Reply(r, "lookup", Answer("DUPLICATE_FILE", FALSE))
      BY <2>1 DEF CheckDuplicate
    <3>2. Sentinels[P!HashKey(input[r])] # NoDoc
      BY <1>3, <2>1, SentinelOfFile
    <3>3. P!FindDuplicate(r)
      BY <1>4, <2>1, <3>1, <3>2, SameAnswers DEF CheckDuplicate, P!FindDuplicate, P!history
    <3>. QED
      BY <3>3 DEF P!Proceed
  <2>2. CASE CheckDuplicate(r) /\ ~S3!Exists(DocHashKey(r))
    <3>1. P!Prepare(r, "lookup")
      BY <2>2 DEF CheckDuplicate
    <3>2. Sentinels[P!HashKey(input[r])] = NoDoc
      BY <1>3, <2>2, SentinelOfFile
    <3>3. P!FindNoDuplicate(r)
      BY <1>4, <2>2, <3>1, <3>2 DEF CheckDuplicate, P!FindNoDuplicate, P!history
    <3>. QED
      BY <3>3 DEF P!Proceed
  <2>3. CASE CheckDuplicateFails(r)
    <3>1. P!FindDuplicateFails(r)
      BY <1>4, <2>3 DEF CheckDuplicateFails, P!FindDuplicateFails
    <3>. QED
      BY <3>1 DEF P!Proceed
  <2>. QED
    BY <2>1, <2>2, <2>3
<1>. QED
  BY <1>3, <1>5, <1>6 DEF AdaptersInv, StoresInv, P!Next, Follows

\* The original: stored, not stored, or stored with the response lost.
LEMMA StoreOriginalFollows ==
    ASSUME AdaptersInv, NEW r \in Requests, StoreOriginal(r)
    PROVE  Follows
<1> DEFINE call == Put(r, OriginalKey(r))
<1>1. /\ UNCHANGED input /\ step[r] = "putOriginal" /\ step'[r] \in {"answered", "putDocHash"}
      /\ \A q \in Requests \ {r} : step'[q] = step[q]
      /\ DOMAIN step' = Requests
      /\ step'[r] = "putDocHash" => call
  <2>1. CASE Returns(r, call, "putOriginal", "putDocHash")
    BY <2>1, Moves DEF Returns, AdaptersInv
  <2>2. CASE Fails(r, call, "putOriginal")
    BY <2>2, Moves DEF Fails, Raises, AdaptersInv
  <2>. QED
    BY <2>1, <2>2 DEF StoreOriginal
<1>2. /\ StoresInv
  BY <1>1 DEF AdaptersInv, StoresInv, KeysMatchStep
<1>3. ASSUME call
      PROVE  /\ StoresInv' /\ Grown /\ S3!Exists(OriginalKey(r))'
             /\ Originals' = Originals \union {r}
             /\ UNCHANGED <<Sentinels, Registered, CachedJobs, SentJobs>>
  BY <1>1, <1>2, <1>3, PutKeeps, PutOriginalView
<1>4. ASSUME UNCHANGED adapters
      PROVE  /\ StoresInv' /\ Grown
             /\ UNCHANGED <<Originals, Sentinels, Registered, CachedJobs, SentJobs>>
  BY <1>1, <1>2, <1>4, NothingKeeps
<1>5. call \/ UNCHANGED adapters
  BY DEF StoreOriginal, Returns, Fails, Raises
<1> HIDE DEF call
<1>6. KeysMatchStep'
  BY <1>1, <1>2, <1>3, <1>4, <1>5, KeysStillMatch DEF AdaptersInv
<1>7. P!Proceed(r)
  <2>1. CASE Returns(r, call, "putOriginal", "putDocHash")
    <3>1. P!PutOriginal(r)
      BY <1>3, <2>1 DEF Returns, P!PutOriginal, P!history
    <3>. QED
      BY <3>1 DEF P!Proceed
  <2>2. CASE Fails(r, call, "putOriginal")
    <3>1. P!PutOriginalFails(r)
      BY <1>3, <1>4, <2>2, SameAnswers DEF Fails, Raises, P!PutOriginalFails
    <3>. QED
      BY <3>1 DEF P!Proceed
  <2>. QED
    BY <2>1, <2>2 DEF StoreOriginal, call
<1>. QED
  BY <1>3, <1>4, <1>5, <1>6, <1>7 DEF AdaptersInv, StoresInv, P!Next, Follows

\* The sentinel, after which the upload goes on in any case.
LEMMA StoreDocHashFollows ==
    ASSUME AdaptersInv, NEW r \in Requests, StoreDocHash(r)
    PROVE  Follows
<1> DEFINE call == Put(r, DocHashKey(r))
<1>1. /\ UNCHANGED input /\ step[r] = "putDocHash" /\ step'[r] \in {"putJob"}
      /\ \A q \in Requests \ {r} : step'[q] = step[q]
      /\ DOMAIN step' = Requests
  <2>1. CASE Returns(r, call, "putDocHash", "putJob")
    BY <2>1, Moves DEF Returns, AdaptersInv
  <2>2. CASE Survives(r, call, "putDocHash", "putJob")
    BY <2>2, Moves DEF Survives, Raises, AdaptersInv
  <2>. QED
    BY <2>1, <2>2 DEF StoreDocHash
<1>2. /\ StoresInv
      /\ S3!Exists(OriginalKey(r))
  BY <1>1 DEF AdaptersInv, StoresInv, KeysMatchStep
<1>3. ASSUME call
      PROVE  /\ StoresInv' /\ Grown
             /\ Sentinels' = [Sentinels EXCEPT ![P!HashKey(input[r])] = r]
             /\ UNCHANGED <<Originals, Registered, CachedJobs, SentJobs>>
  BY <1>1, <1>2, <1>3, PutKeeps, PutDocHashView
<1>4. ASSUME UNCHANGED adapters
      PROVE  /\ StoresInv' /\ Grown
             /\ UNCHANGED <<Originals, Sentinels, Registered, CachedJobs, SentJobs>>
  BY <1>1, <1>2, <1>4, NothingKeeps
<1>5. call \/ UNCHANGED adapters
  BY DEF StoreDocHash, Returns, Survives, Raises
<1> HIDE DEF call
<1>6. KeysMatchStep'
  BY <1>1, <1>2, <1>3, <1>4, <1>5, KeysStillMatch DEF AdaptersInv
<1>7. P!Proceed(r)
  <2>1. CASE Returns(r, call, "putDocHash", "putJob")
    <3>1. P!PutDocHash(r)
      BY <1>3, <2>1 DEF Returns, P!PutDocHash, P!history
    <3>. QED
      BY <3>1 DEF P!Proceed
  <2>2. CASE Survives(r, call, "putDocHash", "putJob")
    <3>1. P!PutDocHashFails(r)
      BY <1>3, <1>4, <2>2 DEF Survives, Raises, P!PutDocHashFails
    <3>. QED
      BY <3>1 DEF P!Proceed
  <2>. QED
    BY <2>1, <2>2 DEF StoreDocHash, call
<1>. QED
  BY <1>3, <1>4, <1>5, <1>6, <1>7 DEF AdaptersInv, StoresInv, P!Next, Follows

\* The job JSON.
LEMMA StoreJobFollows ==
    ASSUME AdaptersInv, NEW r \in Requests, StoreJob(r)
    PROVE  Follows
<1> DEFINE call == Put(r, JobKey(input[r].tenant, r))
<1>1. /\ UNCHANGED input /\ step[r] = "putJob" /\ step'[r] \in {"answered", "cacheJob"}
      /\ \A q \in Requests \ {r} : step'[q] = step[q]
      /\ DOMAIN step' = Requests
      /\ step'[r] = "cacheJob" => call
  <2>1. CASE Returns(r, call, "putJob", "cacheJob")
    BY <2>1, Moves DEF Returns, AdaptersInv
  <2>2. CASE Fails(r, call, "putJob")
    BY <2>2, Moves DEF Fails, Raises, AdaptersInv
  <2>. QED
    BY <2>1, <2>2 DEF StoreJob
<1>2. /\ StoresInv
      /\ S3!Exists(OriginalKey(r))
  BY <1>1 DEF AdaptersInv, StoresInv, KeysMatchStep
<1>3. ASSUME call
      PROVE  /\ StoresInv' /\ Grown /\ S3!Exists(JobKey(input[r].tenant, r))'
             /\ Registered' = Registered \union {r}
             /\ UNCHANGED <<Sentinels, Originals, CachedJobs, SentJobs>>
  BY <1>1, <1>2, <1>3, PutKeeps, PutJobView
<1>4. ASSUME UNCHANGED adapters
      PROVE  /\ StoresInv' /\ Grown
             /\ UNCHANGED <<Originals, Sentinels, Registered, CachedJobs, SentJobs>>
  BY <1>1, <1>2, <1>4, NothingKeeps
<1>5. call \/ UNCHANGED adapters
  BY DEF StoreJob, Returns, Fails, Raises
<1> HIDE DEF call
<1>6. KeysMatchStep'
  BY <1>1, <1>2, <1>3, <1>4, <1>5, KeysStillMatch DEF AdaptersInv
<1>7. P!Proceed(r)
  <2>1. CASE Returns(r, call, "putJob", "cacheJob")
    <3>1. P!PutJob(r)
      BY <1>3, <2>1 DEF Returns, P!PutJob, P!history
    <3>. QED
      BY <3>1 DEF P!Proceed
  <2>2. CASE Fails(r, call, "putJob")
    <3>1. P!PutJobFails(r)
      BY <1>3, <1>4, <2>2, SameAnswers DEF Fails, Raises, P!PutJobFails
    <3>. QED
      BY <3>1 DEF P!Proceed
  <2>. QED
    BY <2>1, <2>2 DEF StoreJob, call
<1>. QED
  BY <1>3, <1>4, <1>5, <1>6, <1>7 DEF AdaptersInv, StoresInv, P!Next, Follows

\* The cache, after which the upload goes on in any case.
LEMMA CacheJobFollows ==
    ASSUME AdaptersInv, NEW r \in Requests, CacheJob(r)
    PROVE  Follows
<1> DEFINE call == CacheSet(r)
<1>1. /\ UNCHANGED input /\ step[r] = "cacheJob" /\ step'[r] \in {"publish"}
      /\ \A q \in Requests \ {r} : step'[q] = step[q]
      /\ DOMAIN step' = Requests
  <2>1. CASE Returns(r, call, "cacheJob", "publish")
    BY <2>1, Moves DEF Returns, AdaptersInv
  <2>2. CASE Survives(r, call, "cacheJob", "publish")
    BY <2>2, Moves DEF Survives, Raises, AdaptersInv
  <2>. QED
    BY <2>1, <2>2 DEF CacheJob
<1>2. /\ StoresInv
      /\ S3!Exists(OriginalKey(r))
      /\ S3!Exists(JobKey(input[r].tenant, r))
  BY <1>1 DEF AdaptersInv, StoresInv, KeysMatchStep
<1>3. ASSUME call
      PROVE  /\ StoresInv' /\ Grown
             /\ CachedJobs' = CachedJobs \union {r}
             /\ UNCHANGED <<Originals, Sentinels, Registered, SentJobs>>
  BY <1>1, <1>2, <1>3, CacheSetKeeps, CacheSetView
<1>4. ASSUME UNCHANGED adapters
      PROVE  /\ StoresInv' /\ Grown
             /\ UNCHANGED <<Originals, Sentinels, Registered, CachedJobs, SentJobs>>
  BY <1>1, <1>2, <1>4, NothingKeeps
<1>5. call \/ UNCHANGED adapters
  BY DEF CacheJob, Returns, Survives, Raises
<1> HIDE DEF call
<1>6. KeysMatchStep'
  BY <1>1, <1>2, <1>3, <1>4, <1>5, KeysStillMatch DEF AdaptersInv
<1>7. P!Proceed(r)
  <2>1. CASE Returns(r, call, "cacheJob", "publish")
    <3>1. P!CacheJob(r)
      BY <1>3, <2>1 DEF Returns, P!CacheJob, P!history
    <3>. QED
      BY <3>1 DEF P!Proceed
  <2>2. CASE Survives(r, call, "cacheJob", "publish")
    <3>1. P!CacheJobFails(r)
      BY <1>3, <1>4, <2>2 DEF Survives, Raises, P!CacheJobFails
    <3>. QED
      BY <3>1 DEF P!Proceed
  <2>. QED
    BY <2>1, <2>2 DEF CacheJob, call
<1>. QED
  BY <1>3, <1>4, <1>5, <1>6, <1>7 DEF AdaptersInv, StoresInv, P!Next, Follows

\* The message.
LEMMA PublishFollows ==
    ASSUME AdaptersInv, NEW r \in Requests, Publish(r)
    PROVE  Follows
<1> DEFINE call == SendMessage(r)
<1>1. /\ UNCHANGED input /\ step[r] = "publish" /\ step'[r] \in {"answered", "return"}
      /\ \A q \in Requests \ {r} : step'[q] = step[q]
      /\ DOMAIN step' = Requests
      /\ step'[r] = "return" => call
  <2>1. CASE Returns(r, call, "publish", "return")
    BY <2>1, Moves DEF Returns, AdaptersInv
  <2>2. CASE Fails(r, call, "publish")
    BY <2>2, Moves DEF Fails, Raises, AdaptersInv
  <2>. QED
    BY <2>1, <2>2 DEF Publish
<1>2. /\ StoresInv
      /\ S3!Exists(OriginalKey(r))
      /\ S3!Exists(JobKey(input[r].tenant, r))
  BY <1>1 DEF AdaptersInv, StoresInv, KeysMatchStep
<1>3. ASSUME call
      PROVE  /\ StoresInv' /\ Grown
             /\ SentJobs' = SentJobs \union {r}
             /\ UNCHANGED <<Originals, Sentinels, Registered, CachedJobs>>
  BY <1>1, <1>2, <1>3, SendKeeps
<1>4. ASSUME UNCHANGED adapters
      PROVE  /\ StoresInv' /\ Grown
             /\ UNCHANGED <<Originals, Sentinels, Registered, CachedJobs, SentJobs>>
  BY <1>1, <1>2, <1>4, NothingKeeps
<1>5. call \/ UNCHANGED adapters
  BY DEF Publish, Returns, Fails, Raises
<1> HIDE DEF call
<1>6. KeysMatchStep'
  BY <1>1, <1>2, <1>3, <1>4, <1>5, KeysStillMatch DEF AdaptersInv
<1>7. P!Proceed(r)
  <2>1. CASE Returns(r, call, "publish", "return")
    <3>1. P!Publish(r)
      BY <1>3, <2>1 DEF Returns, P!Publish, P!history
    <3>. QED
      BY <3>1 DEF P!Proceed
  <2>2. CASE Fails(r, call, "publish")
    <3>1. P!PublishFails(r)
      BY <1>3, <1>4, <2>2, SameAnswers DEF Fails, Raises, P!PublishFails
    <3>. QED
      BY <3>1 DEF P!Proceed
  <2>. QED
    BY <2>1, <2>2 DEF Publish, call
<1>. QED
  BY <1>3, <1>4, <1>5, <1>6, <1>7 DEF AdaptersInv, StoresInv, P!Next, Follows

\* The answer of an accepted upload, and the end of a server process.
LEMMA EndFollows ==
    ASSUME AdaptersInv, NEW r \in Requests, Accept(r) \/ Crash(r)
    PROVE  Follows
<1>1. UNCHANGED adapters /\ UNCHANGED input
  BY DEF Accept, Crash, P!Crash
<1>2. /\ step'[r] \in {"answered", "crashed"} /\ DOMAIN step' = Requests
      /\ \A q \in Requests \ {r} : step'[q] = step[q]
  <2>1. CASE Accept(r)
    BY <2>1, Moves DEF Accept, AdaptersInv
  <2>2. CASE Crash(r)
    BY <2>2 DEF Crash, P!Crash, AdaptersInv, Shapes
  <2>. QED
    BY <2>1, <2>2
<1>3. StoresInv' /\ Grown
  BY <1>1, <1>2, NothingKeeps DEF AdaptersInv, StoresInv
<1>4. KeysMatchStep'
  BY <1>1, <1>2, <1>3, KeysStillMatch DEF AdaptersInv
<1>5. P!Proceed(r) \/ P!Crash(r)
  <2>1. CASE Accept(r)
    <3>1. UNCHANGED P!stores
      BY <1>1, <1>2, NothingKeeps DEF P!stores, AdaptersInv, StoresInv
    <3>2. P!Accept(r)
      BY <2>1, <3>1, SameAnswers DEF Accept, P!Accept, P!history
    <3>. QED
      BY <3>2 DEF P!Proceed
  <2>2. CASE Crash(r)
    BY <2>2 DEF Crash
  <2>. QED
    BY <2>1, <2>2
<1>. QED
  BY <1>3, <1>4, <1>5 DEF AdaptersInv, StoresInv, P!Next, Follows

-----------------------------------------------------------------------------
(***************************************************************************)
(* The theorems.                                                           *)
(***************************************************************************)

\* Nothing is in the adapters, or in the stores of UploadPipeline, at first.
LEMMA Initially == Init => AdaptersInv /\ P!Init
<1> SUFFICES ASSUME Init PROVE AdaptersInv /\ P!Init
  OBVIOUS
<1>1. Shapes
  BY AdaptersAssumption DEF Init, Shapes
<1>2. \A k \in S3Keys : ~S3!Exists(k)
  BY DEF Init, S3!Exists
<1>3. ObjectsHaveWriters /\ KeysMatchStep /\ EntriesAreJobs
  BY <1>2 DEF Init, ObjectsHaveWriters, KeysMatchStep, EntriesAreJobs
<1>4. MessagesAreKept
  BY DEF Init, MessagesAreKept
<1>5. Originals = {} /\ Registered = {}
  BY <1>1, <1>2, KeysAreKeys DEF Originals, Registered
<1>6. CachedJobs = {} /\ SentJobs = {}
  BY DEF Init, CachedJobs, Cached, Redis!IsAlive, SentJobs, Sent, Sqs!StateOf
<1>7. Sentinels = [k \in P!HashKeys |-> NoDoc]
  <2>1. ASSUME NEW h \in {<<in.tenant, in.body>> : in \in Inputs}
        PROVE  SentinelAt(<<h[1], "doc_hash", h[2]>>) = NoDoc
    <3>1. <<h[1], "doc_hash", h[2]>> \in S3Keys
      BY DEF S3Keys, Tenants, Files
    <3>. QED
      BY <1>2, <3>1 DEF SentinelAt
  <2>. QED
    BY <2>1 DEF Sentinels, P!HashKeys, P!HashKey
<1>. QED
  BY <1>1, <1>3, <1>4, <1>5, <1>6, <1>7 DEF Init, P!Init, AdaptersInv

\* Every step keeps the invariant and is one of UploadPipeline, or invisible
\* in it.
LEMMA Steps == AdaptersInv /\ [Next]_vars => AdaptersInv' /\ [P!Next]_P!vars
<1> SUFFICES ASSUME AdaptersInv, [Next]_vars PROVE AdaptersInv' /\ [P!Next]_P!vars
  OBVIOUS
<1>1. ASSUME NEW r \in Requests,
             \/ Receive(r) \/ CheckDuplicate(r) \/ CheckDuplicateFails(r)
             \/ StoreOriginal(r) \/ StoreDocHash(r) \/ StoreJob(r)
             \/ CacheJob(r) \/ Publish(r) \/ Accept(r) \/ Crash(r)
      PROVE  Follows
  BY <1>1, ReceiveFollows, CheckFollows, StoreOriginalFollows, StoreDocHashFollows,
     StoreJobFollows, CacheJobFollows, PublishFollows, EndFollows
<1>2. StoresInv
  BY DEF AdaptersInv, StoresInv
<1>3. ASSUME StoresInv', Grown, UNCHANGED <<input, step>>
      PROVE  AdaptersInv'
  <2>1. KeysMatchStep'
    <3>1. \A q \in Requests :
             /\ S3!Exists(OriginalKey(q)) => S3!Exists(OriginalKey(q))'
             /\ S3!Exists(JobKey(input[q].tenant, q)) => S3!Exists(JobKey(input[q].tenant, q))'
      BY <1>2, <1>3, SameKeys, KeysAreKeys DEF StoresInv, Grown, S3!Exists
    <3>. QED
      BY <1>3, <3>1 DEF AdaptersInv, KeysMatchStep
  <2>. QED
    BY <1>3, <2>1 DEF AdaptersInv, StoresInv
<1>4. CASE Tick
  <2>1. /\ StoresInv' /\ Grown /\ CachedJobs' \subseteq CachedJobs
        /\ UNCHANGED <<Originals, Sentinels, Registered, SentJobs>>
        /\ UNCHANGED <<input, step, answer, faulted, seen>>
    BY <1>2, <1>4, TickKeeps DEF Tick
  <2>2. CASE CachedJobs' = CachedJobs
    BY <1>3, <2>1, <2>2 DEF P!vars
  <2>3. CASE CachedJobs' # CachedJobs
    <3>1. PICK r \in CachedJobs : r \notin CachedJobs'
      BY <2>1, <2>3
    <3>2. CachedJobs' = CachedJobs \ ({r} \union (CachedJobs \ CachedJobs'))
      BY <2>1, <3>1
    <3>3. P!ExpireCache(r) /\ r \in Requests
      BY <2>1, <3>1, <3>2 DEF P!ExpireCache, P!history, CachedJobs
    <3>. QED
      BY <1>3, <2>1, <3>3 DEF P!Next
  <2>. QED
    BY <2>2, <2>3
<1>5. CASE \E c \in Consumers : Consume(c)
  <2>1. /\ StoresInv' /\ Grown
        /\ UNCHANGED <<Originals, Sentinels, Registered, CachedJobs, SentJobs>>
        /\ UNCHANGED <<input, step, answer, faulted, seen>>
    BY <1>2, <1>5, ConsumeKeeps DEF Consume
  <2>. QED
    BY <1>3, <2>1 DEF P!vars
<1>6. CASE UNCHANGED vars
  <2>1. UNCHANGED <<input, step, answer, faulted, seen, adapters>>
    BY <1>6 DEF vars
  <2>2. /\ StoresInv' /\ Grown
        /\ UNCHANGED <<Originals, Sentinels, Registered, CachedJobs, SentJobs>>
    <3>1. DOMAIN step' = Requests
      BY <1>2, <2>1 DEF StoresInv, Shapes
    <3>. QED
      BY <1>2, <2>1, <3>1, NothingKeeps
  <2>. QED
    BY <1>3, <2>1, <2>2 DEF P!vars
<1>. QED
  BY <1>1, <1>4, <1>5, <1>6 DEF Next, Follows

\* The tables of the adapters say of each upload what its step says.
THEOREM AdaptersCorrect == Spec => []AdaptersInv
  BY Initially, Steps, PTL DEF Spec

\* A received message leads to the bytes that were submitted with it: the keys
\* that execute builds are never shared by two uploads or two kinds of objects.
THEOREM MessagesLead == Spec => []MessageLeadsToFile
  BY AdaptersCorrect, InvImpliesMessages, PTL

\* What Redis serves of a job is what S3 holds of it, for CacheTtl seconds.
THEOREM CacheAgrees == Spec => []CacheAgreesWithTruth
  BY AdaptersCorrect, InvImpliesCache, PTL

\* On its adapters the handler is the UploadPipeline that the other theorems
\* are about: every store call has the effect that module gives it.
THEOREM AdaptersRefine == Spec => PipelineSpec
  BY AdaptersCorrect, Initially, Steps, PTL DEF Spec, PipelineSpec, P!Spec
=============================================================================
