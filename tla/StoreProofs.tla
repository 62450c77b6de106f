------------------------------ MODULE StoreProofs -----------------------------
(***************************************************************************)
(* Proofs about the stores that jobs are kept in.  The invariants of       *)
(* FakeS3, for any clients, keys, tenants and number of parts; and that    *)
(* FakeRedis, here the instance Redis, implements RedisContract but for    *)
(* increments of expired entries, for any keys, clients and commands.      *)
(***************************************************************************)
EXTENDS FakeS3, Sequences, WellFoundedInduction, TLAPS

\* Equal ETags are ETags of equal bodies.
LEMMA ETagInjective == \A a, b : ETag(a) = ETag(b) => a = b
  BY DEF ETag

\* NoObject is not a body, None not a key: what exists has marks and parts.
LEMMA ObjectType ==
    ASSUME TypeOK, NEW k \in Keys, Exists(k)
    PROVE  objects[k] \in Bodies /\ objects[k].marks \subseteq Clients
  BY DEF TypeOK, Exists, Bodies

\* A whole body is a body.
LEMMA WholeType ==
    ASSUME NEW marks \in SUBSET Clients
    PROVE  /\ Whole(marks) \in Bodies
           /\ Whole(marks) # NoObject
           /\ Whole(marks).marks = marks
           /\ Whole(marks).parts = Parts
  BY S3Assumption DEF Whole, Bodies

LEMMA S3Init == Init => S3Inv
  <1> SUFFICES ASSUME Init PROVE S3Inv
    OBVIOUS
  <1>1. TypeOK
    BY DEF Init, TypeOK
  <1>2. \A k \in Keys : ~Exists(k)
    BY DEF Init, Exists
  <1>3. \A c \in Clients : target[c] = None /\ body[c] = None /\ receiving[c] = None
    BY DEF Init
  <1>4. updated = {}
    BY DEF Init
  <1> QED
    BY <1>1, <1>2, <1>3, <1>4
    DEF S3Inv, NoLostUpdate, ObjectsAreWhole, BodiesStayInTenant, ReadsAreOrdered,
        UploadsAreChecked

-----------------------------------------------------------------------------
(***************************************************************************)
(* Steps that store a body.  A file may be replaced by any whole body of   *)
(* its tenant; a record only by one that has the marks it had.             *)
(***************************************************************************)

\* What a stored body must be for the part of the invariant about objects.
LEMMA StoreKeepsObjects ==
    ASSUME TypeOK, ObjectsAreWhole, BodiesStayInTenant,
           NEW k \in Keys, NEW marks \in SUBSET Clients,
           \A c \in marks : May(c, k),
           Store(k, Whole(marks))
    PROVE  /\ objects' \in [Keys -> Bodies \union {NoObject}]
           /\ ObjectsAreWhole'
           /\ BodiesStayInTenant'
           /\ Exists(k)' /\ objects'[k].marks = marks
           /\ \A j \in Keys \ {k} : objects'[j] = objects[j]
  <1>1. /\ Whole(marks) \in Bodies
        /\ Whole(marks) # NoObject
        /\ Whole(marks).marks = marks
        /\ Whole(marks).parts = Parts
    BY WholeType
  <1>2. objects' = [objects EXCEPT ![k] = Whole(marks)]
    BY DEF Store
  <1>3. /\ objects' \in [Keys -> Bodies \union {NoObject}]
        /\ objects'[k] = Whole(marks)
        /\ \A j \in Keys \ {k} : objects'[j] = objects[j]
    BY <1>1, <1>2 DEF TypeOK
  <1>4. ObjectsAreWhole'
    BY <1>1, <1>3 DEF ObjectsAreWhole, Exists
  <1>5. BodiesStayInTenant'
    BY <1>1, <1>3 DEF BodiesStayInTenant, Exists, May
  <1> QED
    BY <1>1, <1>3, <1>4, <1>5 DEF Exists

\* Storing a file disturbs no update of a record.
LEMMA FilesApart ==
    ASSUME S3Inv, NEW k \in FileKeys,
           \A j \in Keys \ {k} : objects'[j] = objects[j],
           UNCHANGED <<target, etag, body, updated>>
    PROVE  NoLostUpdate' /\ ReadsAreOrdered'
  <1>1. \A j \in RecordKeys : j \in Keys /\ objects'[j] = objects[j]
    BY S3Assumption DEF Keys
  <1>2. NoLostUpdate'
    BY <1>1 DEF S3Inv, NoLostUpdate, Exists
  <1>3. \A c \in Clients : target[c] # None => target[c] \in RecordKeys
    BY DEF S3Inv, TypeOK
  <1>4. ReadsAreOrdered'
    BY <1>1, <1>3 DEF S3Inv, ReadsAreOrdered, Exists, May
  <1> QED
    BY <1>2, <1>4

\* A record whose marks only grow keeps every update and every order of reads.
LEMMA RecordsGrow ==
    ASSUME TypeOK, NoLostUpdate, NEW k \in RecordKeys,
           Exists(k)', Exists(k) => objects[k].marks \subseteq objects'[k].marks,
           \A j \in Keys \ {k} : objects'[j] = objects[j],
           NEW c \in Clients, NEW j \in RecordKeys, <<c, j>> \in updated
    PROVE  Exists(j)' /\ c \in objects'[j].marks
  <1>1. Exists(j) /\ c \in objects[j].marks
    BY DEF NoLostUpdate
  <1>2. CASE j = k
    BY <1>1, <1>2
  <1>3. CASE j # k
    BY <1>1, <1>3 DEF Exists, Keys
  <1> QED
    BY <1>2, <1>3

\* The reads of a client that has not moved stay in order.
LEMMA ReadsKeep ==
    ASSUME TypeOK, ReadsAreOrdered, NEW k \in RecordKeys,
           Exists(k)', Exists(k) => objects[k].marks \subseteq objects'[k].marks,
           \A j \in Keys \ {k} : objects'[j] = objects[j],
           NEW c \in Clients, NEW t \in RecordKeys, target[c] = t
    PROVE  /\ May(c, t) /\ Exists(t)'
           /\ \E b \in Bodies :
                 /\ etag[c] = ETag(b)
                 /\ body[c] # None => b.marks \subseteq body[c].marks
                 /\ b.marks \subseteq objects'[t].marks
           /\ body[c] # None => body[c].marks \subseteq objects'[t].marks
  <1>1. t # None
    BY S3Assumption DEF Keys
  <1>2. /\ May(c, t) /\ Exists(t)
        /\ body[c] # None => body[c].marks \subseteq objects[t].marks
    BY <1>1 DEF ReadsAreOrdered
  <1>3. PICK b \in Bodies :
            /\ etag[c] = ETag(b)
            /\ body[c] # None => b.marks \subseteq body[c].marks
            /\ b.marks \subseteq objects[t].marks
    BY <1>1 DEF ReadsAreOrdered
  <1>4. Exists(t)' /\ objects[t].marks \subseteq objects'[t].marks
    <2>1. CASE t = k
      BY <1>2, <2>1
    <2>2. CASE t # k
      BY <1>2, <2>2 DEF Exists, Keys
    <2> QED
      BY <2>1, <2>2
  <1> QED
    BY <1>2, <1>3, <1>4

\* So the order of reads survives a step that lets one record grow, if the
\* clients it does not leave alone have nothing read.
LEMMA ReadsOfOthers ==
    ASSUME TypeOK, ReadsAreOrdered, NEW k \in RecordKeys,
           Exists(k)', Exists(k) => objects[k].marks \subseteq objects'[k].marks,
           \A j \in Keys \ {k} : objects'[j] = objects[j],
           \A c \in Clients :
              \/ target'[c] = None /\ body'[c] = None
              \/ target'[c] = target[c] /\ etag'[c] = etag[c] /\ body'[c] = body[c]
    PROVE  ReadsAreOrdered'
  <1> SUFFICES ASSUME NEW c \in Clients
               PROVE  /\ target'[c] # None =>
                            /\ May(c, target'[c]) /\ objects'[target'[c]] # NoObject
                            /\ \E b \in Bodies :
                                  /\ etag'[c] = ETag(b)
                                  /\ body'[c] # None => b.marks \subseteq body'[c].marks
                                  /\ b.marks \subseteq objects'[target'[c]].marks
                      /\ body'[c] # None =>
                            /\ target'[c] # None
                            /\ body'[c].marks \subseteq objects'[target'[c]].marks
    BY DEF ReadsAreOrdered, May, Exists
  <1>1. CASE target'[c] = None /\ body'[c] = None
    BY <1>1
  <1>2. CASE target'[c] = target[c] /\ etag'[c] = etag[c] /\ body'[c] = body[c]
    <2>1. CASE target[c] = None
      <3>1. body[c] = None
        BY <2>1 DEF ReadsAreOrdered
      <3> QED
        BY <1>2, <2>1, <3>1
    <2>2. CASE target[c] # None
      <3>1. target[c] \in RecordKeys
        BY <2>2 DEF TypeOK
      <3> QED
        BY <1>2, <2>2, <3>1, ReadsKeep DEF Exists
    <2> QED
      BY <2>1, <2>2
  <1> QED
    BY <1>1, <1>2

-----------------------------------------------------------------------------
(***************************************************************************)
(* One lemma per kind of step.                                             *)
(***************************************************************************)

\* put_object, copy_object and the end of a multipart upload replace a file.
LEMMA FileStep ==
    ASSUME S3Inv, NEW k \in FileKeys, NEW marks \in SUBSET Clients,
           \A c \in marks : May(c, k), Store(k, Whole(marks)),
           UNCHANGED <<target, etag, body, updated>>,
           receiving' \in [Clients -> [key : FileKeys, parts : 0..Parts] \union {None}],
           \A c \in Clients : receiving'[c] # None => receiving'[c] = receiving[c]
    PROVE  S3Inv'
  <1>1. k \in Keys
    BY DEF Keys
  <1>2. /\ objects' \in [Keys -> Bodies \union {NoObject}]
        /\ ObjectsAreWhole'
        /\ BodiesStayInTenant'
        /\ \A j \in Keys \ {k} : objects'[j] = objects[j]
    BY <1>1, StoreKeepsObjects DEF S3Inv
  <1>3. NoLostUpdate' /\ ReadsAreOrdered'
    BY <1>2, FilesApart
  <1>4. UploadsAreChecked'
    BY DEF S3Inv, UploadsAreChecked, May
  <1>5. TypeOK'
    BY <1>2 DEF S3Inv, TypeOK
  <1> QED
    BY <1>2, <1>3, <1>4, <1>5 DEF S3Inv

\* A step that touches neither the objects nor the reads of a record.
LEMMA ReceivingStep ==
    ASSUME S3Inv, UNCHANGED <<objects, target, etag, body, updated>>,
           receiving' \in [Clients -> [key : FileKeys, parts : 0..Parts] \union {None}],
           \A c \in Clients : receiving'[c] # None => May(c, receiving'[c].key)
    PROVE  S3Inv'
  <1>1. TypeOK'
    BY DEF S3Inv, TypeOK
  <1>2. NoLostUpdate' /\ ObjectsAreWhole' /\ BodiesStayInTenant'
    BY DEF S3Inv, NoLostUpdate, ObjectsAreWhole, BodiesStayInTenant, Exists, May
  <1>3. ReadsAreOrdered'
    BY DEF S3Inv, ReadsAreOrdered, Exists, May
  <1>4. UploadsAreChecked'
    BY DEF UploadsAreChecked, May
  <1> QED
    BY <1>1, <1>2, <1>3, <1>4 DEF S3Inv

\* A record is created with no marks where there was no object.
LEMMA CreateStep ==
    ASSUME S3Inv, NEW c \in Clients, NEW k \in Keys, CreateRecord(c, k)
    PROVE  S3Inv'
  <1>1. /\ k \in RecordKeys /\ ~Exists(k) /\ Store(k, Whole({}))
        /\ UNCHANGED <<target, etag, body, receiving, updated>>
    BY DEF CreateRecord
  <1>2. {} \in SUBSET Clients /\ \A d \in {} : May(d, k)
    OBVIOUS
  <1>3. /\ objects' \in [Keys -> Bodies \union {NoObject}]
        /\ ObjectsAreWhole'
        /\ BodiesStayInTenant'
        /\ Exists(k)'
        /\ \A j \in Keys \ {k} : objects'[j] = objects[j]
    BY <1>1, <1>2, StoreKeepsObjects DEF S3Inv
  <1>4. TypeOK'
    BY <1>1, <1>3 DEF S3Inv, TypeOK
  <1>5. NoLostUpdate'
    BY <1>1, <1>3, RecordsGrow DEF S3Inv, NoLostUpdate
  <1>6. ReadsAreOrdered'
    BY <1>1, <1>3, ReadsOfOthers DEF S3Inv
  <1>7. UploadsAreChecked'
    BY <1>1 DEF S3Inv, UploadsAreChecked, May
  <1> QED
    BY <1>3, <1>4, <1>5, <1>6, <1>7 DEF S3Inv

\* HEAD reads the newest version; the body is still to be read.
LEMMA HeadStep ==
    ASSUME S3Inv, NEW c \in Clients, NEW k \in Keys, HeadObject(c, k)
    PROVE  S3Inv'
  <1>1. /\ target[c] = None /\ k \in RecordKeys /\ May(c, k) /\ Exists(k)
        /\ target' = [target EXCEPT ![c] = k]
        /\ etag' = [etag EXCEPT ![c] = ETag(objects[k])]
        /\ UNCHANGED <<objects, body, receiving, updated>>
    BY DEF HeadObject
  <1>2. body[c] = None
    BY <1>1 DEF S3Inv, ReadsAreOrdered
  <1>3. objects[k] \in Bodies
    BY <1>1, ObjectType DEF S3Inv
  <1>4. TypeOK'
    BY <1>1, <1>3 DEF S3Inv, TypeOK
  <1>5. NoLostUpdate' /\ ObjectsAreWhole' /\ BodiesStayInTenant' /\ UploadsAreChecked'
    BY <1>1 DEF S3Inv, NoLostUpdate, ObjectsAreWhole, BodiesStayInTenant,
                UploadsAreChecked, Exists, May
  <1>6. target'[c] = k /\ etag'[c] = ETag(objects[k]) /\ body'[c] = None
    BY <1>1, <1>2 DEF S3Inv, TypeOK
  <1>7. \A d \in Clients \ {c} : target'[d] = target[d] /\ etag'[d] = etag[d]
    BY <1>1 DEF S3Inv, TypeOK
  <1>8. ReadsAreOrdered'
    BY <1>1, <1>3, <1>6, <1>7 DEF S3Inv, ReadsAreOrdered, Exists, May
  <1> QED
    BY <1>4, <1>5, <1>8 DEF S3Inv

\* GET reads a version no older than the one of the ETag.
LEMMA GetStep ==
    ASSUME S3Inv, NEW c \in Clients, GetObject(c)
    PROVE  S3Inv'
  <1>1. /\ target[c] # None
        /\ body' = [body EXCEPT ![c] = objects[target[c]]]
        /\ UNCHANGED <<objects, target, etag, receiving, updated>>
    BY DEF GetObject
  <1>2. target[c] \in RecordKeys /\ Exists(target[c])
    BY <1>1 DEF S3Inv, TypeOK, ReadsAreOrdered
  <1>3. objects[target[c]] \in Bodies
    BY <1>2, ObjectType DEF S3Inv, Keys
  <1>4. TypeOK'
    BY <1>1, <1>3 DEF S3Inv, TypeOK
  <1>5. NoLostUpdate' /\ ObjectsAreWhole' /\ BodiesStayInTenant' /\ UploadsAreChecked'
    BY <1>1 DEF S3Inv, NoLostUpdate, ObjectsAreWhole, BodiesStayInTenant,
                UploadsAreChecked, Exists, May
  <1>6. body'[c] = objects[target[c]]
    BY <1>1 DEF S3Inv, TypeOK
  <1>7. \A d \in Clients \ {c} : body'[d] = body[d]
    BY <1>1 DEF S3Inv, TypeOK
  <1>8. ReadsAreOrdered'
    BY <1>1, <1>2, <1>6, <1>7 DEF S3Inv, ReadsAreOrdered, Exists, May
  <1> QED
    BY <1>4, <1>5, <1>8 DEF S3Inv

\* A client that forgets has nothing read, the others keep what they have.
LEMMA ForgetEffect ==
    ASSUME TypeOK, NEW c \in Clients, Forget(c)
    PROVE  /\ target' \in [Clients -> RecordKeys \union {None}]
           /\ etag' \in [Clients -> {ETag(b) : b \in Bodies} \union {None}]
           /\ body' \in [Clients -> Bodies \union {None}]
           /\ receiving' = receiving
           /\ \A d \in Clients :
                 \/ target'[d] = None /\ body'[d] = None
                 \/ target'[d] = target[d] /\ etag'[d] = etag[d] /\ body'[d] = body[d]
  BY DEF TypeOK, Forget

\* The ETag of the record is the one of HEAD: its version is the one whose body
\* was read, so the marks of the record are those of the body.
LEMMA MatchMeansUnchanged ==
    ASSUME S3Inv, NEW c \in Clients, NEW k \in RecordKeys, target[c] = k,
           body[c] # None, Matches(c)
    PROVE  body[c].marks = objects[k].marks
  <1>1. k # None
    BY S3Assumption DEF Keys
  <1>2. PICK b \in Bodies :
            /\ etag[c] = ETag(b)
            /\ b.marks \subseteq body[c].marks
            /\ body[c].marks \subseteq objects[k].marks
    BY <1>1 DEF S3Inv, ReadsAreOrdered
  <1>3. b = objects[k]
    BY <1>2, ETagInjective DEF Matches
  <1> QED
    BY <1>2, <1>3

\* A conditional put that succeeds adds one mark to those of the record.
LEMMA PutConditionalStep ==
    ASSUME S3Inv, NEW c \in Clients, PutConditional(c)
    PROVE  S3Inv'
  <1> DEFINE k == target[c]
             marks == body[c].marks \union {c}
  <1>1. /\ body[c] # None /\ Matches(c) /\ Store(k, Whole(marks)) /\ Forget(c)
        /\ updated' \in {updated, updated \union {<<c, k>>}}
    BY DEF PutConditional
  <1>2. k \in RecordKeys /\ k \in Keys /\ May(c, k) /\ Exists(k) /\ k # None
    BY <1>1 DEF S3Inv, TypeOK, ReadsAreOrdered, Keys
  <1>3. body[c].marks = objects[k].marks
    BY <1>1, <1>2, MatchMeansUnchanged
  <1>4. marks \in SUBSET Clients /\ \A d \in marks : May(d, k)
    BY <1>2, <1>3, ObjectType DEF S3Inv, BodiesStayInTenant
  <1>5. objects[k].marks \subseteq marks /\ c \in marks
    BY <1>3
  <1>6. PICK j \in RecordKeys : j = k
    BY <1>2
  <1> HIDE DEF k, marks
  <1>7. /\ objects' \in [Keys -> Bodies \union {NoObject}]
        /\ ObjectsAreWhole'
        /\ BodiesStayInTenant'
        /\ Exists(j)' /\ objects'[j].marks = marks
        /\ \A i \in Keys \ {j} : objects'[i] = objects[i]
    BY <1>1, <1>2, <1>4, <1>6, StoreKeepsObjects DEF S3Inv
  <1>8. objects[j].marks \subseteq objects'[j].marks
    BY <1>5, <1>6, <1>7
  <1>9. /\ target' \in [Clients -> RecordKeys \union {None}]
        /\ etag' \in [Clients -> {ETag(b) : b \in Bodies} \union {None}]
        /\ body' \in [Clients -> Bodies \union {None}]
        /\ receiving' = receiving
        /\ \A d \in Clients :
              \/ target'[d] = None /\ body'[d] = None
              \/ target'[d] = target[d] /\ etag'[d] = etag[d] /\ body'[d] = body[d]
    BY <1>1, ForgetEffect DEF S3Inv
  <1>10. TypeOK'
    BY <1>1, <1>2, <1>7, <1>9 DEF S3Inv, TypeOK
  <1>11. NoLostUpdate'
    <2> SUFFICES ASSUME NEW d \in Clients, NEW i \in RecordKeys, <<d, i>> \in updated'
                 PROVE  Exists(i)' /\ d \in objects'[i].marks
      BY DEF NoLostUpdate, Exists
    <2>1. CASE <<d, i>> \in updated
      BY <1>7, <1>8, <2>1, RecordsGrow DEF S3Inv
    <2>2. CASE <<d, i>> \notin updated
      BY <1>1, <1>5, <1>6, <1>7, <2>2
    <2> QED
      BY <2>1, <2>2
  <1>12. ReadsAreOrdered'
    BY <1>7, <1>8, <1>9, ReadsOfOthers DEF S3Inv
  <1>13. UploadsAreChecked'
    BY <1>9 DEF S3Inv, UploadsAreChecked, May
  <1> QED
    BY <1>7, <1>10, <1>11, <1>12, <1>13 DEF S3Inv

\* A conflict writes nothing.
LEMMA PutConflictsStep ==
    ASSUME S3Inv, NEW c \in Clients, PutConflicts(c)
    PROVE  S3Inv'
  <1>1. Forget(c) /\ UNCHANGED <<objects, updated>>
    BY DEF PutConflicts
  <1>2. /\ target' \in [Clients -> RecordKeys \union {None}]
        /\ etag' \in [Clients -> {ETag(b) : b \in Bodies} \union {None}]
        /\ body' \in [Clients -> Bodies \union {None}]
        /\ receiving' = receiving
        /\ \A d \in Clients :
              \/ target'[d] = None /\ body'[d] = None
              \/ target'[d] = target[d] /\ etag'[d] = etag[d] /\ body'[d] = body[d]
    BY <1>1, ForgetEffect DEF S3Inv
  <1>3. TypeOK'
    BY <1>1, <1>2 DEF S3Inv, TypeOK
  <1>4. NoLostUpdate' /\ ObjectsAreWhole' /\ BodiesStayInTenant' /\ UploadsAreChecked'
    BY <1>1, <1>2 DEF S3Inv, NoLostUpdate, ObjectsAreWhole, BodiesStayInTenant,
                      UploadsAreChecked, Exists, May
  <1>5. ReadsAreOrdered'
    BY <1>1, <1>2 DEF S3Inv, ReadsAreOrdered, Exists, May
  <1> QED
    BY <1>3, <1>4, <1>5 DEF S3Inv

\* A file that is copied came from the tenant of its key.
LEMMA CopyStep ==
    ASSUME S3Inv, NEW c \in Clients, NEW src \in Keys, NEW dst \in Keys,
           CopyObject(c, src, dst)
    PROVE  S3Inv'
  <1>1. /\ May(c, src) /\ May(c, dst) /\ dst \in FileKeys /\ Exists(src)
        /\ Store(dst, objects[src])
        /\ UNCHANGED <<target, etag, body, receiving, updated>>
    BY DEF CopyObject
  <1>2. /\ objects[src] \in Bodies /\ objects[src].marks \in SUBSET Clients
        /\ objects[src].parts = Parts
    BY <1>1, ObjectType DEF S3Inv, ObjectsAreWhole
  <1>3. objects[src] = Whole(objects[src].marks)
    BY <1>2 DEF Whole, Bodies
  <1>4. \A d \in objects[src].marks : May(d, dst)
    BY <1>1, <1>2 DEF S3Inv, BodiesStayInTenant, May
  <1>5. /\ receiving' \in [Clients -> [key : FileKeys, parts : 0..Parts] \union {None}]
        /\ \A d \in Clients : receiving'[d] # None => receiving'[d] = receiving[d]
    BY <1>1 DEF S3Inv, TypeOK
  <1>6. Store(dst, Whole(objects[src].marks))
    BY <1>1, <1>3
  <1> QED
    BY <1>1, <1>2, <1>4, <1>5, <1>6, FileStep

LEMMA PutStep ==
    ASSUME S3Inv, NEW c \in Clients, NEW k \in Keys, PutObject(c, k)
    PROVE  S3Inv'
  <1>1. /\ May(c, k) /\ k \in FileKeys /\ Store(k, Whole({c}))
        /\ UNCHANGED <<target, etag, body, receiving, updated>>
    BY DEF PutObject
  <1>2. {c} \in SUBSET Clients /\ \A d \in {c} : May(d, k)
    BY <1>1
  <1>3. /\ receiving' \in [Clients -> [key : FileKeys, parts : 0..Parts] \union {None}]
        /\ \A d \in Clients : receiving'[d] # None => receiving'[d] = receiving[d]
    BY <1>1 DEF S3Inv, TypeOK
  <1> QED
    BY <1>1, <1>2, <1>3, FileStep

\* Only an upload whose every part was received is stored.
LEMMA CompleteStep ==
    ASSUME S3Inv, NEW c \in Clients, CompleteMultipart(c)
    PROVE  S3Inv'
  <1>1. /\ receiving[c] # None /\ receiving[c].parts = Parts
        /\ Store(receiving[c].key, [marks |-> {c}, parts |-> receiving[c].parts])
        /\ receiving' = [receiving EXCEPT ![c] = None]
        /\ UNCHANGED <<target, etag, body, updated>>
    BY DEF CompleteMultipart
  <1>2. PICK k \in FileKeys : k = receiving[c].key
    BY <1>1 DEF S3Inv, TypeOK
  <1>3. Store(k, Whole({c})) /\ May(c, k)
    BY <1>1, <1>2 DEF S3Inv, UploadsAreChecked, Whole
  <1>4. {c} \in SUBSET Clients /\ \A d \in {c} : May(d, k)
    BY <1>3
  <1>5. /\ receiving' \in [Clients -> [key : FileKeys, parts : 0..Parts] \union {None}]
        /\ \A d \in Clients : receiving'[d] # None => receiving'[d] = receiving[d]
    BY <1>1 DEF S3Inv, TypeOK
  <1> QED
    BY <1>1, <1>3, <1>4, <1>5, FileStep

\* A multipart upload begins, receives a part or is aborted: nothing is stored.
LEMMA MultipartStep ==
    ASSUME S3Inv, NEW c \in Clients,
           \/ \E k \in Keys : BeginMultipart(c, k)
           \/ ReceivePart(c)
           \/ AbortMultipart(c)
    PROVE  S3Inv'
  <1>1. CASE \E k \in Keys : BeginMultipart(c, k)
    <2>1. PICK k \in FileKeys :
              /\ May(c, k) /\ receiving' = [receiving EXCEPT ![c] = [key |-> k, parts |-> 0]]
              /\ UNCHANGED <<objects, target, etag, body, updated>>
      BY <1>1 DEF BeginMultipart
    <2>2. [key |-> k, parts |-> 0] \in [key : FileKeys, parts : 0..Parts]
      BY S3Assumption
    <2>3. /\ receiving' \in [Clients -> [key : FileKeys, parts : 0..Parts] \union {None}]
          /\ \A d \in Clients : receiving'[d] # None => May(d, receiving'[d].key)
      BY <2>1, <2>2 DEF S3Inv, TypeOK, UploadsAreChecked
    <2> QED
      BY <2>1, <2>3, ReceivingStep
  <1>2. CASE ReceivePart(c)
    <2>1. /\ receiving[c] # None /\ receiving[c].parts < Parts
          /\ receiving' = [receiving EXCEPT ![c].parts = @ + 1]
          /\ UNCHANGED <<objects, target, etag, body, updated>>
      BY <1>2 DEF ReceivePart
    <2>2. receiving[c] \in [key : FileKeys, parts : 0..Parts]
      BY <2>1 DEF S3Inv, TypeOK
    <2>3. receiving[c].parts + 1 \in 0..Parts
      BY <2>1, <2>2, S3Assumption
    <2>4. /\ receiving'[c] = [receiving[c] EXCEPT !.parts = @ + 1]
          /\ \A d \in Clients \ {c} : receiving'[d] = receiving[d]
      BY <2>1 DEF S3Inv, TypeOK
    <2>5. /\ receiving'[c] \in [key : FileKeys, parts : 0..Parts]
          /\ receiving'[c].key = receiving[c].key
      BY <2>2, <2>3, <2>4
    <2>6. /\ receiving' \in [Clients -> [key : FileKeys, parts : 0..Parts] \union {None}]
          /\ \A d \in Clients : receiving'[d] # None => May(d, receiving'[d].key)
      BY <2>1, <2>4, <2>5 DEF S3Inv, TypeOK, UploadsAreChecked
    <2> QED
      BY <2>1, <2>6, ReceivingStep
  <1>3. CASE AbortMultipart(c)
    <2>1. /\ receiving' = [receiving EXCEPT ![c] = None]
          /\ UNCHANGED <<objects, target, etag, body, updated>>
      BY <1>3 DEF AbortMultipart
    <2>2. /\ receiving' \in [Clients -> [key : FileKeys, parts : 0..Parts] \union {None}]
          /\ \A d \in Clients : receiving'[d] # None => May(d, receiving'[d].key)
      BY <2>1 DEF S3Inv, TypeOK, UploadsAreChecked
    <2> QED
      BY <2>1, <2>2, ReceivingStep
  <1> QED
    BY <1>1, <1>2, <1>3

LEMMA S3Stutter == S3Inv /\ UNCHANGED vars => S3Inv'
  <1> SUFFICES ASSUME S3Inv, UNCHANGED vars PROVE S3Inv'
    OBVIOUS
  <1>1. UNCHANGED <<objects, target, etag, body, receiving, updated>>
    BY DEF vars
  <1>2. /\ receiving' \in [Clients -> [key : FileKeys, parts : 0..Parts] \union {None}]
        /\ \A d \in Clients : receiving'[d] # None => May(d, receiving'[d].key)
    BY <1>1 DEF S3Inv, TypeOK, UploadsAreChecked
  <1> QED
    BY <1>1, <1>2, ReceivingStep

-----------------------------------------------------------------------------
(***************************************************************************)
(* The theorems.                                                           *)
(***************************************************************************)

\* S3Inv is inductive: what each client has read is ordered, every object is
\* whole and of its tenant, and no acknowledged update is missing.
THEOREM S3Correct == Spec => []S3Inv
  <1>1. S3Inv /\ [Next]_vars => S3Inv'
    <2> SUFFICES ASSUME S3Inv, [Next]_vars PROVE S3Inv'
      OBVIOUS
    <2>1. ASSUME NEW c \in Clients, NEW k \in Keys, PutObject(c, k) PROVE S3Inv'
      BY <2>1, PutStep
    <2>2. ASSUME NEW c \in Clients, NEW k \in Keys, CreateRecord(c, k) PROVE S3Inv'
      BY <2>2, CreateStep
    <2>3. ASSUME NEW c \in Clients, NEW k \in Keys, HeadObject(c, k) PROVE S3Inv'
      BY <2>3, HeadStep
    <2>4. ASSUME NEW c \in Clients, NEW src \in Keys, NEW dst \in Keys,
                 CopyObject(c, src, dst)
          PROVE  S3Inv'
      BY <2>4, CopyStep
    <2>5. ASSUME NEW c \in Clients, GetObject(c) PROVE S3Inv'
      BY <2>5, GetStep
    <2>6. ASSUME NEW c \in Clients, PutConditional(c) PROVE S3Inv'
      BY <2>6, PutConditionalStep
    <2>7. ASSUME NEW c \in Clients, PutConflicts(c) PROVE S3Inv'
      BY <2>7, PutConflictsStep
    <2>8. ASSUME NEW c \in Clients, CompleteMultipart(c) PROVE S3Inv'
      BY <2>8, CompleteStep
    <2>9. ASSUME NEW c \in Clients,
                 \/ \E k \in Keys : BeginMultipart(c, k)
                 \/ ReceivePart(c)
                 \/ AbortMultipart(c)
          PROVE  S3Inv'
      BY <2>9, MultipartStep
    <2>10. CASE UNCHANGED vars
      BY <2>10, S3Stutter
    <2> QED
      BY <2>1, <2>2, <2>3, <2>4, <2>5, <2>6, <2>7, <2>8, <2>9, <2>10 DEF Next
  <1> QED
    BY S3Init, <1>1, PTL DEF Spec

\* Every variable keeps its shape; no upload under way counts more parts than
\* the file has.
THEOREM S3Types == Spec => []TypeOK
  <1>1. S3Inv => TypeOK
    BY DEF S3Inv
  <1> QED
    BY S3Correct, <1>1, PTL

\* An acknowledged conditional write of a record is never lost.
THEOREM UpdatesCorrect == Spec => []NoLostUpdate
  <1>1. S3Inv => NoLostUpdate
    BY DEF S3Inv
  <1> QED
    BY S3Correct, <1>1, PTL

\* A multipart upload is visible as a whole or not at all.
THEOREM ObjectsCorrect == Spec => []ObjectsAreWhole
  <1>1. S3Inv => ObjectsAreWhole
    BY DEF S3Inv
  <1> QED
    BY S3Correct, <1>1, PTL

\* No sequence of puts and copies moves a body to another tenant.
THEOREM TenantsCorrect == Spec => []BodiesStayInTenant
  <1>1. S3Inv => BodiesStayInTenant
    BY DEF S3Inv
  <1> QED
    BY S3Correct, <1>1, PTL

-----------------------------------------------------------------------------
(***************************************************************************)
(* Redis.                                                                  *)
(***************************************************************************)

CONSTANTS
    CacheKeys,      \* the keys of Redis; its clients are those of S3
    Commands, NoTtl, NoValue, MaxBatch, MaxValue, MaxTime

VARIABLES store, now, batch, reply

Redis == INSTANCE FakeRedis WITH Keys <- CacheKeys

Entries == [value : Int, expires : Nat \union {NoTtl}]

\* A store of entries.
Stored(s) == s \in [CacheKeys -> Entries \union {NoValue}]

\* What every step keeps.
RedisInv ==
    /\ Stored(store)
    /\ now \in Nat
    /\ batch \in [Clients -> Seq(Commands)]
    /\ DOMAIN reply = Clients

\* What a caller sees of a store.
Seen(s) == [k \in CacheKeys |-> IF Redis!IsAlive(s[k]) THEN s[k] ELSE NoValue]

\* The steps that ContractButForSpent allows.
Promised ==
    \/ Redis!Contract!Next
    \/ \E c \in Clients : Redis!SpentStaysSpent(c) \/ Redis!OthersAsPromised(c)

\* A key is clean when no expired entry is kept at it.
Clean(s, k) == s[k] = NoValue \/ Redis!IsAlive(s[k])

\* What the callers keep to, in the terms of this module.
LEMMA CommandShape ==
    ASSUME Redis!CommandsAssumption, NEW cmd \in Commands
    PROVE  /\ cmd.op \in {"set", "delete", "incr"}
           /\ cmd.key \in CacheKeys /\ cmd.value \in Int
           /\ cmd.ttl \in (Nat \ {0}) \union {NoTtl}
           /\ NoTtl \notin Nat /\ NoValue \notin Entries
  BY DEF Redis!CommandsAssumption, Entries

\* On the keys of K, entries db are what is seen of store s.
Alike(K, s, db) == Stored(s) /\ Stored(db) /\ \A k \in K : db[k] = Seen(s)[k]

\* A command on s and the same on db keep the two alike on K, and give the same
\* answer if it is about a key of K; and clean keys stay clean.
KeptAlike(K, s, replies, db, promises, cmd) ==
    \E s2, db2 : \E answer, promise \in Int \union {NoValue} :
        /\ Redis!ExecuteCommand(<<s, replies>>, cmd) = <<s2, Append(replies, answer)>>
        /\ Redis!Contract!Perform(<<db, promises>>, cmd) = <<db2, Append(promises, promise)>>
        /\ Alike(K, s2, db2)
        /\ cmd.key \in K => answer = promise
        /\ \A k \in CacheKeys : Clean(s, k) => Clean(s2, k)

\* A command keeps them alike unless it increments a key of K in which an expired
\* entry is kept.
LEMMA CommandAgrees ==
    ASSUME Redis!CommandsAssumption, now \in Nat, NEW K \in SUBSET CacheKeys,
           NEW s, NEW replies, NEW db, NEW promises, Alike(K, s, db),
           NEW cmd \in Commands, cmd.op = "incr" /\ cmd.key \in K => Clean(s, cmd.key)
    PROVE  KeptAlike(K, s, replies, db, promises, cmd)
<1>1. Stored(s) /\ Stored(db) /\ \A k \in K : db[k] = Seen(s)[k]
  BY DEF Alike
<1> DEFINE k == cmd.key
<1>2. k \in CacheKeys
  BY CommandShape
<1>3. CASE cmd.op = "set"
  <2> DEFINE e == Redis!Entry(cmd.value, cmd.ttl)
             s2 == [s EXCEPT ![k] = e]
             db2 == [db EXCEPT ![k] = e]
  <2>1. e \in Entries /\ Redis!IsAlive(e)
    BY CommandShape DEF Redis!Entry, Redis!IsAlive, Entries
  <2>2. Redis!ExecuteCommand(<<s, replies>>, cmd) = <<s2, Append(replies, NoValue)>>
    BY <1>3 DEF Redis!ExecuteCommand
  <2>3. Redis!Contract!Perform(<<db, promises>>, cmd) = <<db2, Append(promises, NoValue)>>
    BY <1>3 DEF Redis!Contract!Perform, Redis!Contract!Entry, Redis!Entry
  <2> HIDE DEF e
  <2>4. /\ Stored(s2) /\ Stored(db2)
        /\ \A j \in K : db2[j] = Seen(s2)[j]
        /\ \A j \in CacheKeys : Clean(s, j) => Clean(s2, j)
    BY <2>1, <1>2, <1>1 DEF Stored, Seen, Clean
  <2> HIDE DEF s2, db2
  <2> QED
    BY <2>2, <2>3, <2>4 DEF KeptAlike, Alike
<1>4. CASE cmd.op = "delete"
  <2> DEFINE s2 == [s EXCEPT ![k] = NoValue]
             db2 == [db EXCEPT ![k] = NoValue]
  <2>1. ~Redis!IsAlive(NoValue)
    BY DEF Redis!IsAlive
  <2>2. Redis!ExecuteCommand(<<s, replies>>, cmd) = <<s2, Append(replies, NoValue)>>
    BY <1>4 DEF Redis!ExecuteCommand
  <2>3. Redis!Contract!Perform(<<db, promises>>, cmd) = <<db2, Append(promises, NoValue)>>
    BY <1>4 DEF Redis!Contract!Perform
  <2>4. /\ Stored(s2) /\ Stored(db2)
        /\ \A j \in K : db2[j] = Seen(s2)[j]
        /\ \A j \in CacheKeys : Clean(s, j) => Clean(s2, j)
    BY <2>1, <1>2, <1>1 DEF Stored, Seen, Clean
  <2> HIDE DEF s2, db2
  <2> QED
    BY <2>2, <2>3, <2>4 DEF KeptAlike, Alike
<1>5. CASE cmd.op = "incr"
  <2> DEFINE e == Redis!PipelineIncr(s[k])
             d == Redis!Contract!Incremented(db[k])
             s2 == [s EXCEPT ![k] = e]
             db2 == [db EXCEPT ![k] = d]
  <2>1. /\ s[k] \in Entries \union {NoValue} /\ db[k] \in Entries \union {NoValue}
        /\ NoValue \notin Entries
    BY <1>2, <1>1, CommandShape DEF Stored
  <2>2. e \in Entries /\ d \in Entries
    BY <2>1 DEF Redis!PipelineIncr, Redis!Contract!Incremented, Redis!Contract!Entry, Entries
  <2>3. Clean(s, k) => Redis!IsAlive(e)
    BY <2>1 DEF Clean, Redis!PipelineIncr, Redis!IsAlive, Entries
  <2>4. k \in K => d = e
    <3>1. SUFFICES ASSUME k \in K PROVE d = e
      OBVIOUS
    <3>2. Clean(s, k) /\ db[k] = Seen(s)[k]
      BY <1>1, <1>5, <3>1
    <3>3. db[k] = s[k]
      BY <1>2, <3>2 DEF Clean, Seen, Redis!IsAlive
    <3> QED
      BY <2>1, <3>3
         DEF Redis!PipelineIncr, Redis!Contract!Incremented, Redis!Contract!Entry
  <2> HIDE DEF e, d
  <2>5. Redis!ExecuteCommand(<<s, replies>>, cmd) = <<s2, Append(replies, e.value)>>
    BY <1>5 DEF Redis!ExecuteCommand, e
  <2>6. Redis!Contract!Perform(<<db, promises>>, cmd) = <<db2, Append(promises, d.value)>>
    BY <1>5 DEF Redis!Contract!Perform, d
  <2>7. e.value \in Int /\ d.value \in Int
    BY <2>2 DEF Entries
  <2>8. /\ Stored(s2) /\ Stored(db2)
        /\ \A j \in K : db2[j] = Seen(s2)[j]
        /\ \A j \in CacheKeys : Clean(s, j) => Clean(s2, j)
    <3>1. Stored(s2) /\ Stored(db2)
      BY <1>2, <1>1, <2>2 DEF Stored
    <3>2. \A j \in CacheKeys : j # k => s2[j] = s[j] /\ db2[j] = db[j]
      BY <1>1 DEF Stored
    <3>3. s2[k] = e /\ db2[k] = d
      BY <1>2, <1>1 DEF Stored
    <3>4. ASSUME NEW j \in CacheKeys, Clean(s, j) PROVE Clean(s2, j)
      BY <2>3, <3>2, <3>3, <3>4 DEF Clean
    <3>5. ASSUME NEW j \in K PROVE db2[j] = Seen(s2)[j]
      <4>1. CASE j = k
        BY <1>5, <2>3, <2>4, <3>3, <3>5, <4>1 DEF Seen
      <4>2. CASE j # k
        BY <1>1, <3>2, <3>5, <4>2 DEF Seen
      <4> QED
        BY <4>1, <4>2
    <3> QED
      BY <3>1, <3>4, <3>5
  <2> HIDE DEF s2, db2
  <2> QED
    BY <2>4, <2>5, <2>6, <2>7, <2>8 DEF KeptAlike, Alike
<1> QED
  BY <1>3, <1>4, <1>5, CommandShape

\* A set of naturals has a least element.
LEMMA LeastNatural ==
    ASSUME NEW S \in SUBSET Nat, S # {}
    PROVE  \E x \in S : \A y \in S : x <= y
<1>1. PICK x \in S : \A y \in S : <<y, x>> \notin OpToRel(<, Nat)
  BY NatLessThanWellFounded, WFMin
<1>2. ASSUME NEW y \in S PROVE x <= y
  <2>1. <<y, x>> \in Nat \X Nat /\ <<y, x>>[1] = y /\ <<y, x>>[2] = x
    OBVIOUS
  <2>2. ~(y < x)
    BY <1>1, <2>1 DEF OpToRel
  <2> QED
    BY <2>2
<1> QED
  BY <1>2

\* The recursive function of a pipeline exists: there is one up to each command.
LEMMA OutcomesDefined ==
    ASSUME NEW cmds \in Seq(Commands)
    PROVE  Redis!Outcomes(cmds) =
               [i \in 0..Len(cmds) |->
                   IF i = 0 THEN <<store, << >>>>
                   ELSE Redis!ExecuteCommand(Redis!Outcomes(cmds)[i - 1], cmds[i])]
<1> DEFINE Upto(f, n) ==
        f = [i \in 0..n |-> IF i = 0 THEN <<store, << >>>>
                            ELSE Redis!ExecuteCommand(f[i - 1], cmds[i])]
           Bad == {n \in 0..Len(cmds) : ~\E f : Upto(f, n)}
<1>1. Bad = {}
  <2>1. SUFFICES ASSUME Bad # {} PROVE FALSE
    OBVIOUS
  <2>2. PICK n \in Bad : \A m \in Bad : n <= m
    <3>1. Bad \in SUBSET Nat
      OBVIOUS
    <3> HIDE DEF Bad
    <3> QED
      BY <2>1, <3>1, LeastNatural
  <2>3. CASE n = 0
    <3>1. Upto([i \in 0..0 |-> <<store, << >>>>], 0)
      OBVIOUS
    <3> QED
      BY <2>2, <2>3, <3>1
  <2>4. CASE n # 0
    <3>1. n \in Nat /\ n - 1 \in 0..Len(cmds) /\ n - 1 \notin Bad
      <4>1. Len(cmds) \in Nat /\ n \in 0..Len(cmds)
        OBVIOUS
      <4>2. n \in Nat /\ n - 1 \in 0..Len(cmds) /\ ~(n <= n - 1)
        BY <2>4, <4>1
      <4> HIDE DEF Bad
      <4> QED
        BY <2>2, <4>2
    <3>2. PICK g : Upto(g, n - 1)
      BY <3>1
    <3> DEFINE f == [i \in 0..n |->
                       IF i = n THEN Redis!ExecuteCommand(g[n - 1], cmds[n]) ELSE g[i]]
    <3>3. \A i \in 0..(n - 1) : f[i] = g[i]
      BY <3>1
    <3>4. ASSUME NEW i \in 0..n
          PROVE  f[i] = IF i = 0 THEN <<store, << >>>>
                        ELSE Redis!ExecuteCommand(f[i - 1], cmds[i])
      <4>1. CASE i = n
        <5>1. i # 0 /\ n - 1 \in 0..(n - 1) /\ f[n - 1] = g[n - 1]
          BY <2>4, <3>1, <3>3, <4>1
        <5>2. f[i] = Redis!ExecuteCommand(g[n - 1], cmds[n])
          BY <4>1
        <5> HIDE DEF f
        <5> QED
          BY <4>1, <5>1, <5>2
      <4>2. CASE i # n
        <5>1. i \in 0..(n - 1) /\ f[i] = g[i]
          BY <3>1, <3>3, <4>2
        <5>2. i # 0 => i - 1 \in 0..(n - 1) /\ f[i - 1] = g[i - 1]
          BY <3>1, <3>3, <5>1
        <5>3. g[i] = IF i = 0 THEN <<store, << >>>>
                     ELSE Redis!ExecuteCommand(g[i - 1], cmds[i])
          BY <3>2, <5>1
        <5> HIDE DEF f
        <5> QED
          BY <5>1, <5>2, <5>3
      <4> QED
        BY <4>1, <4>2
    <3>5. Upto(f, n)
      BY <3>4
    <3> QED
      BY <2>2, <3>5
  <2> QED
    BY <2>3, <2>4
<1>2. PICK f : Upto(f, Len(cmds))
  BY <1>1
<1>3. Redis!Outcomes(cmds) = CHOOSE g : Upto(g, Len(cmds))
  BY DEF Redis!Outcomes
<1> HIDE DEF Upto
<1>4. Upto(Redis!Outcomes(cmds), Len(cmds))
  BY <1>2, <1>3
<1> QED
  BY <1>4 DEF Upto

\* The contract's function exists for the same reason.
LEMMA PerformedDefined ==
    ASSUME NEW cmds \in Seq(Commands)
    PROVE  Redis!Contract!Performed(cmds) =
               [i \in 0..Len(cmds) |->
                   IF i = 0 THEN <<Redis!Live, << >>>>
                   ELSE Redis!Contract!Perform(Redis!Contract!Performed(cmds)[i - 1], cmds[i])]
<1> DEFINE Upto(f, n) ==
        f = [i \in 0..n |-> IF i = 0 THEN <<Redis!Live, << >>>>
                            ELSE Redis!Contract!Perform(f[i - 1], cmds[i])]
           Bad == {n \in 0..Len(cmds) : ~\E f : Upto(f, n)}
<1>1. Bad = {}
  <2>1. SUFFICES ASSUME Bad # {} PROVE FALSE
    OBVIOUS
  <2>2. PICK n \in Bad : \A m \in Bad : n <= m
    <3>1. Bad \in SUBSET Nat
      OBVIOUS
    <3> HIDE DEF Bad
    <3> QED
      BY <2>1, <3>1, LeastNatural
  <2>3. CASE n = 0
    <3>1. Upto([i \in 0..0 |-> <<Redis!Live, << >>>>], 0)
      OBVIOUS
    <3> QED
      BY <2>2, <2>3, <3>1
  <2>4. CASE n # 0
    <3>1. n \in Nat /\ n - 1 \in 0..Len(cmds) /\ n - 1 \notin Bad
      <4>1. Len(cmds) \in Nat /\ n \in 0..Len(cmds)
        OBVIOUS
      <4>2. n \in Nat /\ n - 1 \in 0..Len(cmds) /\ ~(n <= n - 1)
        BY <2>4, <4>1
      <4> HIDE DEF Bad
      <4> QED
        BY <2>2, <4>2
    <3>2. PICK g : Upto(g, n - 1)
      BY <3>1
    <3> DEFINE f == [i \in 0..n |->
                       IF i = n THEN Redis!Contract!Perform(g[n - 1], cmds[n]) ELSE g[i]]
    <3>3. \A i \in 0..(n - 1) : f[i] = g[i]
      BY <3>1
    <3>4. ASSUME NEW i \in 0..n
          PROVE  f[i] = IF i = 0 THEN <<Redis!Live, << >>>>
                        ELSE Redis!Contract!Perform(f[i - 1], cmds[i])
      <4>1. CASE i = n
        <5>1. i # 0 /\ n - 1 \in 0..(n - 1) /\ f[n - 1] = g[n - 1]
          BY <2>4, <3>1, <3>3, <4>1
        <5>2. f[i] = Redis!Contract!Perform(g[n - 1], cmds[n])
          BY <4>1
        <5> HIDE DEF f
        <5> QED
          BY <4>1, <5>1, <5>2
      <4>2. CASE i # n
        <5>1. i \in 0..(n - 1) /\ f[i] = g[i]
          BY <3>1, <3>3, <4>2
        <5>2. i # 0 => i - 1 \in 0..(n - 1) /\ f[i - 1] = g[i - 1]
          BY <3>1, <3>3, <5>1
        <5>3. g[i] = IF i = 0 THEN <<Redis!Live, << >>>>
                     ELSE Redis!Contract!Perform(g[i - 1], cmds[i])
          BY <3>2, <5>1
        <5> HIDE DEF f
        <5> QED
          BY <5>1, <5>2, <5>3
      <4> QED
        BY <4>1, <4>2
    <3>5. Upto(f, n)
      BY <3>4
    <3> QED
      BY <2>2, <3>5
  <2> QED
    BY <2>3, <2>4
<1>2. PICK f : Upto(f, Len(cmds))
  BY <1>1
<1>3. Redis!Contract!Performed(cmds) = CHOOSE g : Upto(g, Len(cmds))
  BY DEF Redis!Contract!Performed
<1> HIDE DEF Upto
<1>4. Upto(Redis!Contract!Performed(cmds), Len(cmds))
  BY <1>2, <1>3
<1> QED
  BY <1>4 DEF Upto

\* The outcomes of a pipeline, seen by a caller, are those of the contract for
\* every key that is not spoilt.
LEMMA PipelineAgrees ==
    ASSUME Redis!CommandsAssumption, now \in Nat, Stored(store), NEW cmds \in Seq(Commands)
    PROVE  LET done == Redis!Outcomes(cmds)[Len(cmds)]
               promised == Redis!Contract!Performed(cmds)[Len(cmds)]
           IN  /\ Stored(done[1]) /\ Stored(promised[1])
               /\ done[2] \in Seq(Int \union {NoValue}) /\ promised[2] \in Seq(Int \union {NoValue})
               /\ Len(done[2]) = Len(cmds) /\ Len(promised[2]) = Len(cmds)
               /\ \A k \in CacheKeys \ Redis!SpoiltBy(cmds) : promised[1][k] = Seen(done[1])[k]
               /\ \A i \in 1..Len(cmds) :
                     cmds[i].key \notin Redis!SpoiltBy(cmds) => done[2][i] = promised[2][i]
<1> DEFINE D == Redis!Outcomes(cmds)
           H == Redis!Contract!Performed(cmds)
           K == CacheKeys \ Redis!SpoiltBy(cmds)
           Replies == Seq(Int \union {NoValue})
           Agree(i) == \E s, answers, db, promises :
                          /\ D[i] = <<s, answers>> /\ H[i] = <<db, promises>>
                          /\ Alike(K, s, db)
                          /\ answers \in Replies /\ promises \in Replies
                          /\ Len(answers) = i /\ Len(promises) = i
                          /\ \A j \in 1..i : cmds[j].key \in K => answers[j] = promises[j]
                          /\ \A k \in CacheKeys : Clean(store, k) => Clean(s, k)
           Bad == {i \in 0..Len(cmds) : ~Agree(i)}
<1>0. /\ Len(cmds) \in Nat /\ DOMAIN cmds = 1..Len(cmds)
      /\ \A i \in 1..Len(cmds) : cmds[i] \in Commands /\ cmds[i].key \in CacheKeys
  BY CommandShape
<1>1. \A i \in 1..Len(cmds) :
         cmds[i].op = "incr" /\ cmds[i].key \in K => Clean(store, cmds[i].key)
  BY <1>0 DEF Redis!SpoiltBy, Redis!Spent, Clean
<1>2. D[0] = <<store, << >>>> /\ H[0] = <<Seen(store), << >>>>
  <2>1. 0 \in 0..Len(cmds)
    BY <1>0
  <2>2. D[0] = <<store, << >>>>
    BY <2>1, OutcomesDefined
  <2>3. H[0] = <<Redis!Live, << >>>>
    BY <2>1, PerformedDefined
  <2>4. Redis!Live = Seen(store)
    BY DEF Redis!Live, Seen
  <2> QED
    BY <2>2, <2>3, <2>4
<1>3. ASSUME NEW i \in 1..Len(cmds)
      PROVE  /\ D[i] = Redis!ExecuteCommand(D[i - 1], cmds[i])
             /\ H[i] = Redis!Contract!Perform(H[i - 1], cmds[i])
  BY <1>0, OutcomesDefined, PerformedDefined
<1> HIDE DEF D, H
<1>4. K \in SUBSET CacheKeys
  OBVIOUS
<1> HIDE DEF K
<1>5. Agree(0)
  <2>1. Stored(Seen(store))
    BY DEF Stored, Seen
  <2>2. Alike(K, store, Seen(store))
    BY <2>1 DEF Alike
  <2>3. << >> \in Replies /\ Len(<< >>) = 0 /\ \A j \in 1..0 : FALSE
    OBVIOUS
  <2> HIDE DEF Replies
  <2> QED
    BY <1>2, <2>2, <2>3
<1>6. ASSUME NEW i \in 1..Len(cmds), Agree(i - 1) PROVE Agree(i)
  <2>1. PICK s, answers, db, promises :
           /\ D[i - 1] = <<s, answers>> /\ H[i - 1] = <<db, promises>>
           /\ Alike(K, s, db)
           /\ answers \in Replies /\ promises \in Replies
           /\ Len(answers) = i - 1 /\ Len(promises) = i - 1
           /\ \A j \in 1..(i - 1) : cmds[j].key \in K => answers[j] = promises[j]
           /\ \A k \in CacheKeys : Clean(store, k) => Clean(s, k)
    BY <1>6
  <2>2. PICK cmd \in Commands : cmd = cmds[i]
    BY <1>0
  <2>3. cmd.op = "incr" /\ cmd.key \in K => Clean(s, cmd.key)
    BY <1>0, <1>1, <2>1, <2>2
  <2>4. PICK s2, db2, answer, promise :
           /\ answer \in Int \union {NoValue} /\ promise \in Int \union {NoValue}
           /\ Redis!ExecuteCommand(<<s, answers>>, cmd) = <<s2, Append(answers, answer)>>
           /\ Redis!Contract!Perform(<<db, promises>>, cmd) = <<db2, Append(promises, promise)>>
           /\ Alike(K, s2, db2)
           /\ cmd.key \in K => answer = promise
           /\ \A k \in CacheKeys : Clean(s, k) => Clean(s2, k)
    <3>1. KeptAlike(K, s, answers, db, promises, cmd)
      BY <1>4, <2>1, <2>3, CommandAgrees
    <3> QED
      BY <3>1 DEF KeptAlike
  <2> DEFINE answers2 == Append(answers, answer)
             promises2 == Append(promises, promise)
  <2>5. /\ answers2 \in Replies /\ promises2 \in Replies
        /\ Len(answers2) = i /\ Len(promises2) = i
        /\ answers2[i] = answer /\ promises2[i] = promise
        /\ \A j \in 1..(i - 1) : answers2[j] = answers[j] /\ promises2[j] = promises[j]
    <3>1. i \in Nat /\ i - 1 \in Nat /\ i - 1 + 1 = i
      BY <1>0
    <3> QED
      BY <2>1, <2>4, <3>1
  <2> HIDE DEF answers2, promises2
  <2>6. ASSUME NEW j \in 1..i, cmds[j].key \in K PROVE answers2[j] = promises2[j]
    <3>1. j = i \/ j \in 1..(i - 1)
      BY <1>0
    <3> QED
      BY <2>1, <2>2, <2>4, <2>5, <2>6, <3>1
  <2>7. D[i] = <<s2, answers2>> /\ H[i] = <<db2, promises2>>
    BY <1>3, <2>1, <2>2, <2>4 DEF answers2, promises2
  <2>8. \A k \in CacheKeys : Clean(store, k) => Clean(s2, k)
    BY <2>1, <2>4
  <2> HIDE DEF Replies
  <2> QED
    BY <2>4, <2>5, <2>6, <2>7, <2>8
<1> HIDE DEF Agree
<1>7. Bad = {}
  <2>1. SUFFICES ASSUME Bad # {} PROVE FALSE
    OBVIOUS
  <2>2. PICK i \in Bad : \A j \in Bad : i <= j
    <3>1. Bad \in SUBSET Nat
      BY <1>0
    <3> HIDE DEF Bad
    <3> QED
      BY <2>1, <3>1, LeastNatural
  <2>3. i # 0 /\ i \in 1..Len(cmds)
    BY <1>0, <1>5
  <2>4. i - 1 \in 0..Len(cmds) /\ ~(i <= i - 1)
    BY <1>0, <2>3
  <2>5. Agree(i - 1)
    BY <2>2, <2>4
  <2> QED
    BY <1>6, <2>3, <2>5
<1>8. PICK s, answers, db, promises :
         /\ D[Len(cmds)] = <<s, answers>> /\ H[Len(cmds)] = <<db, promises>>
         /\ Alike(K, s, db)
         /\ answers \in Replies /\ promises \in Replies
         /\ Len(answers) = Len(cmds) /\ Len(promises) = Len(cmds)
         /\ \A j \in 1..Len(cmds) : cmds[j].key \in K => answers[j] = promises[j]
  <2>1. Agree(Len(cmds))
    BY <1>0, <1>7
  <2> QED
    BY <2>1 DEF Agree
<1>9. \A k \in CacheKeys : k \notin Redis!SpoiltBy(cmds) => k \in K
  BY DEF K
<1>10. \A j \in 1..Len(cmds) :
          cmds[j].key \notin Redis!SpoiltBy(cmds) => answers[j] = promises[j]
  BY <1>0, <1>8, <1>9
<1>11. D[Len(cmds)][1] = s /\ D[Len(cmds)][2] = answers
       /\ H[Len(cmds)][1] = db /\ H[Len(cmds)][2] = promises
  BY <1>8
<1> QED
  BY <1>8, <1>9, <1>10, <1>11 DEF D, H, Alike

\* A pipeline that spoils no key does what the contract promises.
LEMMA SoundPipelineAgrees ==
    ASSUME Redis!CommandsAssumption, now \in Nat, Stored(store), NEW cmds \in Seq(Commands),
           Redis!SpoiltBy(cmds) = {}
    PROVE  LET done == Redis!Outcomes(cmds)[Len(cmds)]
               promised == Redis!Contract!Performed(cmds)[Len(cmds)]
           IN  promised[1] = Seen(done[1]) /\ promised[2] = done[2]
<1> DEFINE done == Redis!Outcomes(cmds)[Len(cmds)]
           promised == Redis!Contract!Performed(cmds)[Len(cmds)]
<1>1. /\ Stored(promised[1])
      /\ done[2] \in Seq(Int \union {NoValue}) /\ promised[2] \in Seq(Int \union {NoValue})
      /\ Len(done[2]) = Len(cmds) /\ Len(promised[2]) = Len(cmds)
      /\ \A k \in CacheKeys : promised[1][k] = Seen(done[1])[k]
      /\ \A i \in 1..Len(cmds) : done[2][i] = promised[2][i]
  BY PipelineAgrees
<1> HIDE DEF done, promised
<1>2. promised[1] = Seen(done[1])
  BY <1>1 DEF Stored, Seen
<1>3. promised[2] = done[2]
  BY <1>1
<1> QED
  BY <1>2, <1>3 DEF done, promised

\* Calls take no time: what is seen after one is seen of the store it leaves.
LEMMA SeenNext ==
    ASSUME now' = now
    PROVE  Redis!Live' = Seen(store')
  BY DEF Redis!Live, Redis!IsAlive, Seen

\* A call of a client that is not a pipeline is the contract's single command.
LEMMA SingleStep ==
    ASSUME Redis!CommandsAssumption, RedisInv, NEW c \in Clients, NEW cmd \in Commands,
           cmd.op = "incr" => Clean(store, cmd.key),
           NEW value,
           Redis!ExecuteCommand(<<store, << >>>>, cmd) = <<store', <<value>>>>,
           Redis!Returns(c, value), UNCHANGED <<now, batch>>
    PROVE  RedisInv' /\ Redis!Contract!Do(c)
<1> DEFINE one == <<cmd>>
           promised == Redis!Contract!Performed(one)[Len(one)]
<1>1. one \in Seq(Commands) /\ Len(one) = 1 /\ one[1] = cmd
  OBVIOUS
<1>2. Stored(store) /\ now \in Nat
  BY DEF RedisInv
<1>3. Redis!Live = Seen(store) /\ Stored(Seen(store))
  BY <1>2 DEF Redis!Live, Seen, Stored
<1> HIDE DEF one
<1>4. promised = Redis!Contract!Perform(<<Seen(store), << >>>>, cmd)
  <2>1. 0 \in 0..Len(one) /\ 1 \in 0..Len(one) /\ 1 # 0 /\ 1 - 1 = 0
    BY <1>1
  <2>2. Redis!Contract!Performed(one)[0] = <<Redis!Live, << >>>>
    BY <1>1, <2>1, PerformedDefined
  <2>3. Redis!Contract!Performed(one)[1] =
            Redis!Contract!Perform(Redis!Contract!Performed(one)[0], one[1])
    BY <1>1, <2>1, PerformedDefined
  <2> QED
    BY <1>1, <1>3, <2>2, <2>3
<1> HIDE DEF promised
<1>5. PICK s2, db2, answer, promise :
         /\ Redis!ExecuteCommand(<<store, << >>>>, cmd) = <<s2, Append(<< >>, answer)>>
         /\ Redis!Contract!Perform(<<Seen(store), << >>>>, cmd) = <<db2, Append(<< >>, promise)>>
         /\ Alike(CacheKeys, s2, db2) /\ answer = promise
  <2>1. cmd.key \in CacheKeys /\ CacheKeys \in SUBSET CacheKeys
    BY CommandShape
  <2>2. Alike(CacheKeys, store, Seen(store))
    BY <1>2, <1>3 DEF Alike
  <2>3. KeptAlike(CacheKeys, store, << >>, Seen(store), << >>, cmd)
    BY <1>2, <2>1, <2>2, CommandAgrees
  <2> QED
    BY <2>1, <2>3 DEF KeptAlike
<1>6. s2 = store' /\ answer = value /\ db2 = Seen(store')
  <2>1. s2 = store' /\ Append(<< >>, answer) = <<value>>
    BY <1>5
  <2>2. db2 = Seen(s2)
    BY <1>5 DEF Alike, Stored, Seen
  <2> QED
    BY <2>1, <2>2
<1>7. promised[1] = Redis!Live' /\ promised[2] = <<value>>
  BY <1>4, <1>5, <1>6, SeenNext
<1>8. Redis!Contract!Call(c, one)
  BY <1>7 DEF Redis!Contract!Call, Redis!Returns, promised
<1>9. Redis!Contract!Do(c)
  BY <1>8 DEF Redis!Contract!Do, one
<1>10. RedisInv'
  BY <1>5, <1>6 DEF RedisInv, Alike, Stored, Redis!Returns
<1> QED
  BY <1>9, <1>10

-----------------------------------------------------------------------------
(***************************************************************************)
(* The calls, one by one.                                                  *)
(***************************************************************************)

\* Both start with nothing.
LEMMA RedisInit == Redis!CommandsAssumption /\ Redis!Init => RedisInv /\ Redis!Contract!Init
<1> SUFFICES ASSUME Redis!CommandsAssumption, Redis!Init
             PROVE  RedisInv /\ Redis!Contract!Init
  OBVIOUS
<1>1. RedisInv
  <2>1. \A cmd \in Commands : cmd.key \in CacheKeys
    BY CommandShape
  <2> QED
    BY <2>1 DEF Redis!Init, RedisInv, Stored
<1>2. Redis!Contract!Init
  BY DEF Redis!Init, Redis!Contract!Init, Redis!Live, Redis!IsAlive
<1> QED
  BY <1>1, <1>2

\* A get that drops an expired entry shows no change.
LEMMA RedisGet ==
    ASSUME Redis!CommandsAssumption, RedisInv, NEW c \in Clients, NEW k \in CacheKeys,
           Redis!Get(c, k)
    PROVE  RedisInv' /\ Redis!Contract!Get(c, k)
<1>1. now' = now /\ batch' = batch
  BY DEF Redis!Get
<1>2. \/ store' = store
      \/ store' = [store EXCEPT ![k] = NoValue] /\ ~Redis!IsAlive(store[k])
  BY DEF Redis!Get
<1>3. Redis!Live' = Redis!Live
  <2>1. Redis!Live' = Seen(store') /\ Redis!Live = Seen(store)
    BY <1>1, SeenNext DEF Redis!Live, Seen
  <2>2. \A j \in CacheKeys : j # k => store'[j] = store[j]
    BY <1>2 DEF RedisInv, Stored
  <2>3. ~Redis!IsAlive(NoValue)
    BY DEF Redis!IsAlive
  <2>4. CASE store' = store
    BY <2>1, <2>4
  <2>5. CASE store' = [store EXCEPT ![k] = NoValue] /\ ~Redis!IsAlive(store[k])
    <3>1. store'[k] = NoValue
      BY <2>5 DEF RedisInv, Stored
    <3>2. Seen(store') = Seen(store)
      BY <2>2, <2>3, <2>5, <3>1 DEF Seen
    <3> QED
      BY <2>1, <3>2
  <2> QED
    BY <1>2, <2>4, <2>5
<1>4. Stored(store')
  BY <1>2 DEF RedisInv, Stored
<1>5. RedisInv'
  BY <1>1, <1>4 DEF RedisInv, Stored, Redis!Get, Redis!Returns
<1>6. CASE Redis!IsAlive(store[k])
  <2>1. Redis!Live[k] = store[k] /\ store[k] # NoValue
    BY <1>6 DEF Redis!Live, Redis!IsAlive
  <2>2. reply' = [reply EXCEPT ![c] = <<store[k].value>>]
    BY <1>6 DEF Redis!Get, Redis!Returns
  <2> QED
    BY <1>1, <1>3, <1>5, <2>1, <2>2 DEF Redis!Contract!Get
<1>7. CASE ~Redis!IsAlive(store[k])
  <2>1. Redis!Live[k] = NoValue
    BY <1>7 DEF Redis!Live
  <2>2. reply' = [reply EXCEPT ![c] = <<NoValue>>]
    BY <1>7 DEF Redis!Get, Redis!Returns
  <2> QED
    BY <1>1, <1>3, <1>5, <2>1, <2>2 DEF Redis!Contract!Get
<1> QED
  BY <1>6, <1>7

\* A ttl is positive, so what is set is seen.
LEMMA RedisSet ==
    ASSUME Redis!CommandsAssumption, RedisInv, NEW c \in Clients, NEW cmd \in Commands,
           cmd.op = "set", Redis!Set(c, cmd.key, cmd.value, cmd.ttl)
    PROVE  RedisInv' /\ Redis!Contract!Do(c)
<1>1. Redis!ExecuteCommand(<<store, << >>>>, cmd) = <<store', <<NoValue>>>>
  BY DEF Redis!ExecuteCommand, Redis!Set
<1> QED
  BY <1>1, SingleStep DEF Redis!Set

\* A key is deleted whether its entry has expired or not.
LEMMA RedisDelete ==
    ASSUME Redis!CommandsAssumption, RedisInv, NEW c \in Clients, Redis!Delete(c)
    PROVE  RedisInv' /\ Redis!Contract!Do(c)
<1>1. PICK cmd \in Commands : cmd.op = "delete" /\ store' = [store EXCEPT ![cmd.key] = NoValue]
  BY DEF Redis!Delete
<1>2. Redis!ExecuteCommand(<<store, << >>>>, cmd) = <<store', <<NoValue>>>>
  BY <1>1 DEF Redis!ExecuteCommand
<1>3. cmd.op # "incr" /\ Redis!Returns(c, NoValue) /\ now' = now /\ batch' = batch
  BY <1>1 DEF Redis!Delete
<1> QED
  BY <1>2, <1>3, SingleStep

\* Where no expired entry is kept, the two ways of incrementing are one; where
\* one is, the entry that is written has expired already.
LEMMA RedisIncrement ==
    ASSUME Redis!CommandsAssumption, RedisInv, NEW c \in Clients, Redis!Increment(c)
    PROVE  RedisInv' /\ (Redis!Contract!Do(c) \/ Redis!SpentStaysSpent(c))
<1>1. PICK cmd \in Commands :
         /\ cmd.op = "incr"
         /\ store' = [store EXCEPT ![cmd.key] = Redis!Incr(@)]
         /\ Redis!Returns(c, Redis!Incr(store[cmd.key]).value)
  BY DEF Redis!Increment
<1> DEFINE k == cmd.key
           e == Redis!Incr(store[k])
<1>2. k \in CacheKeys /\ store[k] \in Entries \union {NoValue} /\ NoValue \notin Entries
  BY CommandShape DEF RedisInv, Stored
<1>3. now' = now /\ batch' = batch
  BY DEF Redis!Increment
<1>4. CASE Clean(store, k)
  <2>1. e = Redis!PipelineIncr(store[k])
    BY <1>2, <1>4 DEF Redis!Incr, Redis!PipelineIncr, Redis!IsAlive, Entries, Clean
  <2>2. Redis!ExecuteCommand(<<store, << >>>>, cmd) = <<store', <<e.value>>>>
    BY <1>1, <2>1 DEF Redis!ExecuteCommand
  <2> QED
    BY <1>1, <1>3, <1>4, <2>2, SingleStep
<1>5. CASE ~Clean(store, k)
  <2>1. store[k] \in Entries /\ ~Redis!IsAlive(store[k]) /\ k \in Redis!Spent
    BY <1>2, <1>5 DEF Clean, Redis!Spent
  <2>2. e \in Entries /\ e.value = 1 /\ e.expires = store[k].expires
    BY <1>2, <2>1 DEF Redis!Incr, Entries
  <2>3. ~Redis!IsAlive(e)
    BY <1>2, <2>1, <2>2 DEF Redis!IsAlive
  <2>4. store' = [store EXCEPT ![k] = e]
    BY <1>1
  <2> HIDE DEF e
  <2>5. Stored(store')
    BY <2>2, <2>4 DEF RedisInv, Stored
  <2>6. Seen(store') = Seen(store)
    <3>1. ASSUME NEW j \in CacheKeys PROVE Seen(store')[j] = Seen(store)[j]
      BY <1>2, <2>1, <2>3, <2>4, <3>1 DEF Seen, RedisInv, Stored
    <3> QED
      BY <3>1 DEF Seen
  <2>7. Redis!Live' = Redis!Live
    BY <1>3, <2>6, SeenNext DEF Redis!Live, Seen
  <2>8. reply' = [reply EXCEPT ![c] = <<1>>]
    BY <1>1, <2>2 DEF Redis!Returns, e
  <2>9. RedisInv'
    BY <1>3, <2>5, <2>8 DEF RedisInv, Stored
  <2>10. Redis!SpentStaysSpent(c)
    BY <1>1, <1>3, <2>1, <2>7, <2>8 DEF Redis!SpentStaysSpent
  <2> QED
    BY <2>9, <2>10
<1> QED
  BY <1>4, <1>5

\* Until it is executed a pipeline shows nothing.
LEMMA RedisQueue ==
    ASSUME Redis!CommandsAssumption, RedisInv, NEW c \in Clients, Redis!Queue(c)
    PROVE  RedisInv' /\ Redis!Contract!Queue(c)
<1>1. PICK cmd \in Commands : batch' = [batch EXCEPT ![c] = Append(@, cmd)]
  BY DEF Redis!Queue
<1>2. store' = store /\ now' = now /\ reply' = reply
  BY DEF Redis!Queue
<1>3. batch' \in [Clients -> Seq(Commands)]
  BY <1>1 DEF RedisInv
<1>4. RedisInv'
  BY <1>2, <1>3 DEF RedisInv, Stored
<1>5. Redis!Live' = Redis!Live
  BY <1>2 DEF Redis!Live, Redis!IsAlive
<1> QED
  BY <1>1, <1>2, <1>4, <1>5 DEF Redis!Contract!Queue

\* A pipeline is executed as the contract's, its replies included, but for the
\* keys that it spoils.
LEMMA RedisExecute ==
    ASSUME Redis!CommandsAssumption, RedisInv, NEW c \in Clients, Redis!Execute(c)
    PROVE  RedisInv' /\ (Redis!Contract!Execute(c) \/ Redis!OthersAsPromised(c))
<1> DEFINE cmds == batch[c]
           done == Redis!Outcomes(cmds)[Len(cmds)]
           promised == Redis!Contract!Performed(cmds)[Len(cmds)]
<1>1. /\ store' = done[1] /\ reply' = [reply EXCEPT ![c] = done[2]]
      /\ batch' = [batch EXCEPT ![c] = << >>] /\ now' = now
  BY DEF Redis!Execute
<1>2. cmds \in Seq(Commands)
  BY DEF RedisInv
<1>3. /\ Stored(done[1])
      /\ Len(done[2]) = Len(cmds)
      /\ \A k \in CacheKeys \ Redis!SpoiltBy(cmds) : promised[1][k] = Seen(done[1])[k]
      /\ \A i \in 1..Len(cmds) :
            cmds[i].key \notin Redis!SpoiltBy(cmds) => done[2][i] = promised[2][i]
  BY <1>2, PipelineAgrees DEF RedisInv
<1>4. Redis!Live' = Seen(store')
  BY <1>1, SeenNext
<1>5. RedisInv'
  BY <1>1, <1>3 DEF RedisInv, Stored
<1>6. CASE Redis!SpoiltBy(cmds) = {}
  <2>1. promised[1] = Seen(done[1]) /\ promised[2] = done[2]
    BY <1>2, <1>6, SoundPipelineAgrees DEF RedisInv
  <2> HIDE DEF done
  <2>2. Redis!Contract!Call(c, batch[c])
    BY <1>1, <1>4, <2>1 DEF Redis!Contract!Call
  <2> QED
    BY <1>1, <1>5, <2>2 DEF Redis!Contract!Execute
<1>7. CASE Redis!SpoiltBy(cmds) # {}
  <2>1. DOMAIN cmds = 1..Len(cmds)
    BY <1>2
  <2>2. reply'[c] = done[2] /\ \A d \in Clients \ {c} : reply'[d] = reply[d]
    BY <1>1 DEF RedisInv
  <2> HIDE DEF done
  <2>3. \A k \in CacheKeys \ Redis!SpoiltBy(cmds) : Redis!Live'[k] = promised[1][k]
    BY <1>1, <1>3, <1>4
  <2>4. Redis!OthersAsPromised(c)
    BY <1>1, <1>3, <1>7, <2>1, <2>2, <2>3 DEF Redis!OthersAsPromised
  <2> QED
    BY <1>5, <2>4
<1> QED
  BY <1>6, <1>7

\* What expires at the new time was alive until then, and nothing else goes.
LEMMA RedisTick ==
    ASSUME Redis!CommandsAssumption, RedisInv, Redis!AdvanceTime
    PROVE  RedisInv' /\ Redis!Contract!Tick
<1>1. now' = now + 1 /\ store' = store /\ batch' = batch /\ reply' = reply
  BY DEF Redis!AdvanceTime
<1>2. RedisInv'
  BY <1>1 DEF RedisInv, Stored
<1>3. ASSUME NEW k \in CacheKeys
      PROVE  Redis!Live'[k] = IF Redis!Live[k] # NoValue /\ Redis!Live[k].expires = now'
                              THEN NoValue ELSE Redis!Live[k]
  <2>1. store[k] \in Entries \union {NoValue} /\ now \in Nat
    BY DEF RedisInv, Stored
  <2>2. NoTtl \notin Nat /\ NoValue \notin Entries
    BY DEF Redis!CommandsAssumption, Entries
  <2> QED
    BY <1>1, <2>1, <2>2 DEF Redis!Live, Redis!IsAlive, Entries
<1>4. Redis!Live' = [k \in CacheKeys |->
                        IF Redis!Live[k] # NoValue /\ Redis!Live[k].expires = now'
                        THEN NoValue ELSE Redis!Live[k]]
  BY <1>3 DEF Redis!Live
<1> QED
  BY <1>1, <1>2, <1>4 DEF Redis!Contract!Tick

\* Every step is one of the contract, one that increments an expired entry, or
\* changes nothing that is seen.
LEMMA RedisStep ==
    Redis!CommandsAssumption /\ RedisInv /\ [Redis!Next]_Redis!vars
        => RedisInv' /\ [Promised]_<<Redis!Live, now, batch, reply>>
<1> SUFFICES ASSUME Redis!CommandsAssumption, RedisInv, [Redis!Next]_Redis!vars
             PROVE  RedisInv' /\ [Promised]_<<Redis!Live, now, batch, reply>>
  OBVIOUS
<1>1. CASE UNCHANGED Redis!vars
  BY <1>1 DEF Redis!vars, RedisInv, Stored, Redis!Live, Redis!IsAlive
<1>2. CASE Redis!AdvanceTime
  BY <1>2, RedisTick DEF Redis!Contract!Next, Promised
<1>3. ASSUME NEW c \in Clients, NEW k \in CacheKeys, Redis!Get(c, k)
      PROVE  RedisInv' /\ Promised
  BY <1>3, RedisGet DEF Redis!Contract!Next, Promised
<1>4. ASSUME NEW c \in Clients, NEW cmd \in Commands,
             cmd.op = "set", Redis!Set(c, cmd.key, cmd.value, cmd.ttl)
      PROVE  RedisInv' /\ Promised
  BY <1>4, RedisSet DEF Redis!Contract!Next, Promised
<1>5. ASSUME NEW c \in Clients, Redis!Delete(c) \/ Redis!Increment(c)
      PROVE  RedisInv' /\ Promised
  BY <1>5, RedisDelete, RedisIncrement DEF Redis!Contract!Next, Promised
<1>6. ASSUME NEW c \in Clients, Redis!Queue(c)
      PROVE  RedisInv' /\ Promised
  BY <1>6, RedisQueue DEF Redis!Contract!Next, Promised
<1>7. ASSUME NEW c \in Clients, Redis!Execute(c)
      PROVE  RedisInv' /\ Promised
  BY <1>7, RedisExecute DEF Redis!Contract!Next, Promised
<1> QED
  BY <1>1, <1>2, <1>3, <1>4, <1>5, <1>6, <1>7 DEF Redis!Next

\* What the clients see of the in-memory Redis is what the protocol promises,
\* although it keeps expired entries and increments them by two rules: for any
\* keys, clients, commands with positive ttls, lengths of pipelines and times.
\* The one exception is a step that increments a key whose entry has expired, and
\* what it gets wrong is confined to that key.
THEOREM RedisRefines ==
    ASSUME Redis!CommandsAssumption
    PROVE  Redis!Spec => Redis!ContractButForSpent
<1>1. Redis!Init => RedisInv /\ Redis!Contract!Init
  BY RedisInit
<1>2. RedisInv /\ [Redis!Next]_Redis!vars
          => RedisInv' /\ [Promised]_<<Redis!Live, now, batch, reply>>
  BY RedisStep
<1> QED
  BY <1>1, <1>2, PTL DEF Redis!Spec, Redis!ContractButForSpent, Promised
=============================================================================
