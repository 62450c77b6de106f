------------------------------ MODULE VectorIndex ------------------------------
(***************************************************************************)
(* The in-memory PineconeAdapter: an index of vectors with metadata for    *)
(* each tenant.  The workers and the query pipeline that will call it do   *)
(* not exist: their calls come here in any order from several clients.  No *)
(* method awaits anything, so each is atomic; a client that changes the    *)
(* metadata it was answered and writes it back makes two calls.  Filters   *)
(* are evaluated by Passes, whose outcome is "yes", "no" or "raise".       *)
(***************************************************************************)
EXTENDS Integers, FiniteSets

CONSTANTS
    Tenants,
    Ids,            \* vector ids
    Clients,        \* coroutines that use the adapter
    TenantOf,       \* [Clients -> Tenants]
    Score,          \* [Ids -> Int]: similarity of the vector to what is asked
    Limits,         \* values of top_k
    FilterOf,       \* the filter that each client asks with
    Passes(_, _),   \* eval_filter
    Metadata,       \* the metadata that a vector can have
    Batches,        \* what is upserted: functions from ids to metadata
    Patches,        \* metadata for update_metadata that names some fields only
    NoVector

\* Mutant of Merged: what is stored wins over what is written.
MergedOldWins(old, new) ==
    [f \in DOMAIN old \union DOMAIN new |-> IF f \in DOMAIN old THEN old[f] ELSE new[f]]

\* {**existing.metadata, **metadata}
Merged(old, new) ==
    [f \in DOMAIN old \union DOMAIN new |-> IF f \in DOMAIN new THEN new[f] ELSE old[f]]

ASSUME VectorAssumption ==
    /\ TenantOf \in [Clients -> Tenants]
    /\ Score \in [Ids -> Int]
    /\ Limits \subseteq Nat \ {0}
    /\ IsFiniteSet(Ids)
    /\ NoVector \notin Metadata
    /\ \A batch \in Batches : DOMAIN batch \subseteq Ids
                              /\ \A i \in DOMAIN batch : batch[i] \in Metadata
    /\ \A m \in Metadata : /\ {"tenant_id", "archived"} \subseteq DOMAIN m
                           /\ m.tenant_id \in Tenants /\ m.archived \in BOOLEAN
    /\ \A p \in Patches : /\ "tenant_id" \in DOMAIN p
                          /\ "archived" \in DOMAIN p => p.archived \in BOOLEAN
    /\ \A m \in Metadata, p \in Patches \union Metadata : Merged(m, p) \in Metadata

VARIABLES
    index,          \* _indexes: the metadata of each vector of each tenant
    answer,         \* what each client was answered last: metadata by id
    last,           \* how the last call ended; of a query, whose it was and its top_k
    hidden          \* history: per tenant, the vectors whose archived flag was
                    \* written TRUE last

vars == <<index, answer, last, hidden>>

Stored(t) == {i \in Ids : index[t][i] # NoVector}

Init ==
    /\ index = [t \in Tenants |-> [i \in Ids |-> NoVector]]
    /\ answer = [c \in Clients |-> << >>]
    /\ last = [by |-> "nobody", ended |-> "none", limit |-> 0]
    /\ hidden = [t \in Tenants |-> {}]

-----------------------------------------------------------------------------
\* How a call that is not a query ends: with None, or TenantMismatchError.
Ends(how) == last' = [by |-> "nobody", ended |-> how, limit |-> 0]

\* _assert_vector_tenant
OfTenant(c, metadata) == metadata.tenant_id = TenantOf[c]

\* Mutant of Upsert: each record is checked as it is written.
UpsertOneByOne(c, batch) ==
    LET t == TenantOf[c]
        own == {i \in DOMAIN batch : OfTenant(c, batch[i])}
    IN  /\ index' = [index EXCEPT ![t] =
                        [i \in Ids |-> IF i \in own THEN batch[i] ELSE @[i]]]
        /\ hidden' = [hidden EXCEPT ![t] =
                        {i \in Ids : IF i \in own THEN batch[i].archived ELSE i \in @}]
        /\ Ends(IF own = DOMAIN batch THEN "upserted" ELSE "refused")
        /\ UNCHANGED answer

\* Mutant of Upsert: one record of the tenant lets the batch through.
UpsertAnyOwn(c, batch) ==
    LET t == TenantOf[c]
    IN  /\ \E i \in DOMAIN batch : OfTenant(c, batch[i])
        /\ index' = [index EXCEPT ![t] =
                        [i \in Ids |-> IF i \in DOMAIN batch THEN batch[i] ELSE @[i]]]
        /\ hidden' = [hidden EXCEPT ![t] =
                        {i \in Ids : IF i \in DOMAIN batch THEN batch[i].archived ELSE i \in @}]
        /\ Ends("upserted")
        /\ UNCHANGED answer

\* One record with another tenant's id refuses the batch.
Upsert(c, batch) ==
    LET t == TenantOf[c]
    IN  /\ IF \A i \in DOMAIN batch : OfTenant(c, batch[i])
           THEN /\ index' = [index EXCEPT ![t] =
                                [i \in Ids |-> IF i \in DOMAIN batch THEN batch[i] ELSE @[i]]]
                /\ hidden' = [hidden EXCEPT ![t] =
                                {i \in Ids : IF i \in DOMAIN batch
                                             THEN batch[i].archived ELSE i \in @}]
                /\ Ends("upserted")
           ELSE Ends("refused") /\ UNCHANGED <<index, hidden>>
        /\ UNCHANGED answer

Delete(c, ids) ==
    LET t == TenantOf[c]
    IN  /\ index' = [index EXCEPT ![t] = [i \in Ids |-> IF i \in ids THEN NoVector ELSE @[i]]]
        /\ hidden' = [hidden EXCEPT ![t] = @ \ ids]
        /\ Ends("deleted")
        /\ UNCHANGED answer

\* What update_metadata does to a vector that is there.
Rewrite(c, i, metadata) ==
    LET t == TenantOf[c]
    IN  /\ index' = [index EXCEPT ![t][i] = Merged(@, metadata)]
        /\ hidden' = [hidden EXCEPT ![t] =
                        IF "archived" \notin DOMAIN metadata THEN @
                        ELSE IF metadata.archived THEN @ \union {i} ELSE @ \ {i}]

\* Mutant of UpdateMetadata: a vector that is missing is created.
UpdateOrCreate(c, i, metadata) ==
    /\ OfTenant(c, metadata)
    /\ IF index[TenantOf[c]][i] # NoVector
       THEN Rewrite(c, i, metadata)
       ELSE /\ index' = [index EXCEPT ![TenantOf[c]][i] = metadata]
            /\ UNCHANGED hidden
    /\ Ends("updated")
    /\ UNCHANGED answer

UpdateMetadata(c, i, metadata) ==
    /\ IF ~OfTenant(c, metadata)
       THEN Ends("refused") /\ UNCHANGED <<index, hidden>>
       ELSE /\ Ends("updated")
            /\ IF index[TenantOf[c]][i] # NoVector
               THEN Rewrite(c, i, metadata)
               ELSE UNCHANGED <<index, hidden>>
    /\ UNCHANGED answer

\* What a client can name: a patch, or all that it was answered with a patch.
Writable(c, i) ==
    Patches \union (IF i \in DOMAIN answer[c]
                    THEN {Merged(answer[c][i], p) : p \in Patches} ELSE {})

Outcome(c, i) == Passes(FilterOf[c], index[TenantOf[c]][i])

\* The k best of the candidates, in any order among equals.
Best(candidates, k, top) ==
    /\ top \subseteq candidates
    /\ Cardinality(top) = (IF Cardinality(candidates) < k THEN Cardinality(candidates) ELSE k)
    /\ \A i \in top, j \in candidates \ top : Score[i] >= Score[j]

\* The filter, then the order, then top_k; a filter that raises ends the call.
Query(c, k) ==
    LET t == TenantOf[c]
        passing == {i \in Stored(t) : Outcome(c, i) = "yes"}
    IN  /\ IF \E i \in Stored(t) : Outcome(c, i) = "raise"
           THEN last' = [by |-> c, ended |-> "raised", limit |-> k] /\ UNCHANGED answer
           ELSE \E top \in SUBSET passing :
                   /\ Best(passing, k, top)
                   /\ answer' = [answer EXCEPT ![c] = [i \in top |-> index[t][i]]]
                   /\ last' = [by |-> c, ended |-> "answered", limit |-> k]
        /\ UNCHANGED <<index, hidden>>

Next ==
    \E c \in Clients :
        \/ \E batch \in Batches : Upsert(c, batch)
        \/ \E ids \in SUBSET Ids : Delete(c, ids)
        \/ \E i \in Ids : \E metadata \in Writable(c, i) : UpdateMetadata(c, i, metadata)
        \/ \E k \in Limits : Query(c, k)

Spec == Init /\ [][Next]_vars

-----------------------------------------------------------------------------
(***************************************************************************)
(* Properties.                                                             *)
(***************************************************************************)

\* Every variable has the shape the code gives it.
TypeOK ==
    /\ index \in [Tenants -> [Ids -> Metadata \union {NoVector}]]
    /\ DOMAIN answer = Clients
    /\ \A c \in Clients : \A i \in DOMAIN answer[c] : i \in Ids /\ answer[c][i] \in Metadata
    /\ last \in [by : Clients \union {"nobody"}, limit : Limits \union {0},
                 ended : {"none", "upserted", "deleted", "updated", "answered",
                          "refused", "raised"}]
    /\ hidden \in [Tenants -> SUBSET Ids]

\* The index of a tenant, and what its clients are answered, holds vectors that
\* say they are the tenant's: whatever tenant_id is written, updates included.
TenantsStayApart ==
    /\ \A t \in Tenants : \A i \in Stored(t) : index[t][i].tenant_id = t
    /\ \A c \in Clients : \A i \in DOMAIN answer[c] : OfTenant(c, answer[c][i])

\* An archived vector stays archived until somebody writes the flag, replaces
\* the vector or deletes it: an update of other fields does not bring it back.
ArchivedStaysArchived ==
    \A t \in Tenants, i \in Ids :
        i \in hidden[t] <=> index[t][i] # NoVector /\ index[t][i].archived

\* A call that is refused leaves no part of its batch behind; an update or a
\* query that comes after the deletion of a vector does not bring it back.
NothingFromNowhere ==
    [][/\ last'.ended \in {"refused", "raised"} => UNCHANGED <<index, answer>>
       /\ last'.ended # "upserted" => \A t \in Tenants : Stored(t)' \subseteq Stored(t)]_vars
=============================================================================
