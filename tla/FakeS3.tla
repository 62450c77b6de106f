------------------------------- MODULE FakeS3 --------------------------------
(***************************************************************************)
(* The in-memory S3Adapter, the only implementation of the protocol in the *)
(* repository.  Every method but multipart_upload runs without an await;   *)
(* multipart_upload awaits each chunk and stores the object at the end.    *)
(* JSON records (jobs/*.json, metadata.json) are updated with              *)
(* put_object_conditional, and a conflict starts over as its docstring     *)
(* asks.  The ETag and the body come from two calls, in an order the       *)
(* protocol leaves to its callers: here HEAD comes first, an assumption    *)
(* about workers that do not exist yet, without which NoLostUpdate fails   *)
(* (HeadObjectLate).  A body is [marks, parts]: the clients whose update   *)
(* or upload it carries, and how many of its parts are there.  Its media   *)
(* type is left out.                                                       *)
(***************************************************************************)
EXTENDS Integers

CONSTANTS
    Clients,        \* coroutines that use the adapter
    RecordKeys,     \* keys of JSON records
    FileKeys,       \* keys of uploaded files
    TenantOf,       \* [Clients -> tenants], tenant_id of ctx
    TenantPrefix,   \* [Keys -> tenants], the first component of a key
    Parts,          \* chunks of a file
    NoObject,       \* the key does not exist
    None            \* nothing read, no upload under way

Keys == RecordKeys \union FileKeys

ASSUME S3Assumption ==
    /\ RecordKeys \intersect FileKeys = {}
    /\ Parts \in Nat \ {0}
    /\ NoObject \notin [marks : SUBSET Clients, parts : 0..Parts]
    /\ None \notin Keys

VARIABLES
    objects,        \* _objects: the body at each key
    target,         \* the record each client is updating
    etag,           \* the ETag its HEAD returned
    body,           \* the body its GET returned
    receiving,      \* the multipart_upload each client is in: [key, parts]
    updated         \* history: <<client, record>> pairs acknowledged

vars == <<objects, target, etag, body, receiving, updated>>

Bodies == [marks : SUBSET Clients, parts : 0..Parts]

\* SHA-256 of the bytes and a part count, taken to be injective.
ETag(b) == <<"etag", b>>

Exists(k) == objects[k] # NoObject

\* _assert_tenant_prefix: any other key raises TenantMismatchError.
May(c, k) == TenantPrefix[k] = TenantOf[c]

Init ==
    /\ objects = [k \in Keys |-> NoObject]
    /\ target = [c \in Clients |-> None]
    /\ etag = [c \in Clients |-> None]
    /\ body = [c \in Clients |-> None]
    /\ receiving = [c \in Clients |-> None]
    /\ updated = {}

Store(k, b) == objects' = [objects EXCEPT ![k] = b]

Whole(marks) == [marks |-> marks, parts |-> Parts]

-----------------------------------------------------------------------------
\* put_object of a file, or put_object_conditional without an ETag, which
\* stores the same: whatever was at the key is replaced.
PutObject(c, k) ==
    /\ May(c, k) /\ k \in FileKeys
    /\ Store(k, Whole({c}))
    /\ UNCHANGED <<target, etag, body, receiving, updated>>

\* put_object of a record: its key is new, named after a fresh uuid7.
CreateRecord(c, k) ==
    /\ May(c, k) /\ k \in RecordKeys /\ ~Exists(k)
    /\ Store(k, Whole({}))
    /\ UNCHANGED <<target, etag, body, receiving, updated>>

\* Mutant of HeadObject: the ETag may also be read after the body.
HeadObjectLate(c, k) ==
    /\ target[c] \in {None, k}
    /\ May(c, k) /\ k \in RecordKeys /\ Exists(k)
    /\ target' = [target EXCEPT ![c] = k]
    /\ etag' = [etag EXCEPT ![c] = ETag(objects[k])]
    /\ UNCHANGED <<objects, body, receiving, updated>>

\* head_object, at the start of an update; it raises when there is no object.
HeadObject(c, k) ==
    /\ target[c] = None
    /\ May(c, k) /\ k \in RecordKeys /\ Exists(k)
    /\ target' = [target EXCEPT ![c] = k]
    /\ etag' = [etag EXCEPT ![c] = ETag(objects[k])]
    /\ UNCHANGED <<objects, body, receiving, updated>>

\* get_object of the record, after its HEAD.
GetObject(c) ==
    /\ target[c] # None /\ body[c] = None
    /\ body' = [body EXCEPT ![c] = objects[target[c]]]
    /\ UNCHANGED <<objects, target, etag, receiving, updated>>

\* The client goes on to something else, or starts over.
Forget(c) ==
    /\ target' = [target EXCEPT ![c] = None]
    /\ etag' = [etag EXCEPT ![c] = None]
    /\ body' = [body EXCEPT ![c] = None]
    /\ UNCHANGED receiving

Matches(c) == etag[c] = ETag(objects[target[c]])

\* put_object_conditional writes the body read with the client's own update;
\* the response may be lost, and the client does not know.
PutConditional(c) ==
    /\ body[c] # None /\ Matches(c)
    /\ Store(target[c], Whole(body[c].marks \union {c}))
    /\ updated' \in {updated, updated \union {<<c, target[c]>>}}
    /\ Forget(c)

\* PRECONDITION_FAILED: nothing is written, the caller reads again.  NOT_FOUND
\* needs a key without an object, which no HEAD was answered for: the adapter
\* has no method that deletes one.
PutConflicts(c) ==
    /\ body[c] # None /\ ~Matches(c)
    /\ Forget(c)
    /\ UNCHANGED <<objects, updated>>

\* Mutant of CopyObject: only the source key is checked.
CopyObjectAnywhere(c, src, dst) ==
    /\ May(c, src) /\ src \in FileKeys /\ dst \in FileKeys
    /\ Exists(src)
    /\ Store(dst, objects[src])
    /\ UNCHANGED <<target, etag, body, receiving, updated>>

\* copy_object of a file: both keys are checked, the source must exist.
CopyObject(c, src, dst) ==
    /\ May(c, src) /\ May(c, dst) /\ src \in FileKeys /\ dst \in FileKeys
    /\ Exists(src)
    /\ Store(dst, objects[src])
    /\ UNCHANGED <<target, etag, body, receiving, updated>>

-----------------------------------------------------------------------------
\* multipart_upload: the key is checked first.
BeginMultipart(c, k) ==
    /\ receiving[c] = None
    /\ May(c, k) /\ k \in FileKeys
    /\ receiving' = [receiving EXCEPT ![c] = [key |-> k, parts |-> 0]]
    /\ UNCHANGED <<objects, target, etag, body, updated>>

\* Mutant of ReceivePart: one chunk too many is awaited.
ReceivePartTooMany(c) ==
    /\ receiving[c] # None /\ receiving[c].parts <= Parts
    /\ receiving' = [receiving EXCEPT ![c].parts = @ + 1]
    /\ UNCHANGED <<objects, target, etag, body, updated>>

\* The iterator yields a chunk.
ReceivePart(c) ==
    /\ receiving[c] # None /\ receiving[c].parts < Parts
    /\ receiving' = [receiving EXCEPT ![c].parts = @ + 1]
    /\ UNCHANGED <<objects, target, etag, body, updated>>

\* The iterator is exhausted: the assembled body is put.
CompleteMultipart(c) ==
    /\ receiving[c] # None /\ receiving[c].parts = Parts
    /\ Store(receiving[c].key, [marks |-> {c}, parts |-> receiving[c].parts])
    /\ receiving' = [receiving EXCEPT ![c] = None]
    /\ UNCHANGED <<target, etag, body, updated>>

\* Mutant of AbortMultipart: what was received is stored.
AbortMultipartKeepingParts(c) ==
    /\ receiving[c] # None
    /\ Store(receiving[c].key, [marks |-> {c}, parts |-> receiving[c].parts])
    /\ receiving' = [receiving EXCEPT ![c] = None]
    /\ UNCHANGED <<target, etag, body, updated>>

\* The iterator raises: the exception leaves multipart_upload.
AbortMultipart(c) ==
    /\ receiving[c] # None
    /\ receiving' = [receiving EXCEPT ![c] = None]
    /\ UNCHANGED <<objects, target, etag, body, updated>>

Next ==
    \E c \in Clients :
        \/ \E k \in Keys : \/ PutObject(c, k)  \/ CreateRecord(c, k)
                           \/ HeadObject(c, k) \/ BeginMultipart(c, k)
        \/ \E src, dst \in Keys : CopyObject(c, src, dst)
        \/ GetObject(c) \/ PutConditional(c) \/ PutConflicts(c)
        \/ ReceivePart(c) \/ CompleteMultipart(c) \/ AbortMultipart(c)

Spec == Init /\ [][Next]_vars

-----------------------------------------------------------------------------
\* Every variable has the shape the code gives it.
TypeOK ==
    /\ objects \in [Keys -> Bodies \union {NoObject}]
    /\ target \in [Clients -> RecordKeys \union {None}]
    /\ etag \in [Clients -> {ETag(b) : b \in Bodies} \union {None}]
    /\ body \in [Clients -> Bodies \union {None}]
    /\ receiving \in [Clients -> [key : FileKeys, parts : 0..Parts] \union {None}]
    /\ updated \subseteq Clients \X RecordKeys

\* An update of a record that was acknowledged is in the record for good,
\* however HEADs, GETs and conditional puts of several clients interleave.
NoLostUpdate ==
    \A c \in Clients, k \in RecordKeys :
        <<c, k>> \in updated => Exists(k) /\ c \in objects[k].marks

\* A reader never gets part of a file: an upload under way or aborted shows
\* nothing, and leaves what was at its key.
ObjectsAreWhole == \A k \in Keys : Exists(k) => objects[k].parts = Parts

\* What is stored under the prefix of a tenant comes from its own clients,
\* copies of copies included.
BodiesStayInTenant ==
    \A k \in Keys : Exists(k) => \A c \in objects[k].marks : May(c, k)

-----------------------------------------------------------------------------
(***************************************************************************)
(* The inductive invariant.                                                *)
(***************************************************************************)

\* A client's ETag is of a version no newer than the body it read, and that
\* body of one no newer than the record: HEAD comes before GET.
ReadsAreOrdered ==
    \A c \in Clients :
        /\ target[c] # None =>
              /\ May(c, target[c]) /\ Exists(target[c])
              /\ \E b \in Bodies :
                    /\ etag[c] = ETag(b)
                    /\ body[c] # None => b.marks \subseteq body[c].marks
                    /\ b.marks \subseteq objects[target[c]].marks
        /\ body[c] # None =>
              /\ target[c] # None
              /\ body[c].marks \subseteq objects[target[c]].marks

\* An upload under way may write to its key.
UploadsAreChecked ==
    \A c \in Clients : receiving[c] # None => May(c, receiving[c].key)

S3Inv ==
    /\ TypeOK
    /\ NoLostUpdate
    /\ ObjectsAreWhole
    /\ BodiesStayInTenant
    /\ ReadsAreOrdered
    /\ UploadsAreChecked
=============================================================================
