----------------------------- MODULE VersionGraph ------------------------------
(***************************************************************************)
(* The in-memory Neo4jAdapter: documents, their versions and the chunks of *)
(* each version, in the namespace of one tenant (every method works on the *)
(* namespace of its caller's).  The worker that will call it does not      *)
(* exist: its calls come here in any order from several clients.  What     *)
(* they keep to is that a version belongs to one document and a chunk to   *)
(* one version, as their ids say.  No method awaits anything: each is      *)
(* atomic, but a client that reads and then writes makes two calls.        *)
(* Properties other than is_current and staging are left out.              *)
(***************************************************************************)
CONSTANTS
    Clients,        \* coroutines that use the adapter
    Documents,      \* doc_ids
    Versions,       \* version_ids
    Chunks,         \* chunk_ids
    DocOf,          \* [Versions -> Documents]
    VersionOf,      \* [Chunks -> Versions]
    NoVersion       \* no version, the prev_version_id of a first one

ASSUME GraphAssumption ==
    /\ DocOf \in [Versions -> Documents]
    /\ VersionOf \in [Chunks -> Versions]
    /\ NoVersion \notin Versions

VARIABLES
    docs,           \* docs: the Document nodes
    current,        \* versions: is_current of each, "absent" when there is no node
    hasVersion,     \* doc_versions: the versions linked to each document
    supersedes,     \* supersedes: the older version of each version
    chunks,         \* chunks: "staging", "live" or "absent"
    hasChunk,       \* version_chunks: the chunks linked to each version
    read,           \* the last answer of get_versions to each client
    swapped,        \* history: versions a swap has named
    relinked,       \* history: versions given a predecessor after that
    upset           \* history: documents hit by a stale write, or by a swap to
                    \* a version that is not there, since their last good swap

graph == <<docs, current, hasVersion, supersedes, chunks, hasChunk>>
history == <<swapped, relinked, upset>>
vars == <<docs, current, hasVersion, supersedes, chunks, hasChunk, read,
          swapped, relinked, upset>>

Absent == "absent"
Flags == {"current", "noncurrent", Absent}

Init ==
    /\ docs = {}
    /\ current = [v \in Versions |-> Absent]
    /\ hasVersion = [d \in Documents |-> {}]
    /\ supersedes = [v \in Versions |-> NoVersion]
    /\ chunks = [k \in Chunks |-> "absent"]
    /\ hasChunk = [v \in Versions |-> {}]
    /\ read = [c \in Clients |-> current]
    /\ swapped = {}
    /\ relinked = {}
    /\ upset = {}

IsCurrent(v) == current[v] = "current"

-----------------------------------------------------------------------------
(***************************************************************************)
(* The methods.                                                            *)
(***************************************************************************)
UpsertDocument(d) ==
    /\ docs' = docs \union {d}
    /\ UNCHANGED <<current, hasVersion, supersedes, chunks, hasChunk, read, history>>

\* get_versions returns copies of the nodes: a client holds its last answer.
GetVersions(c, d) ==
    /\ read' = [read EXCEPT ![c] =
                   [v \in Versions |-> IF v \in hasVersion[d] THEN current[v] ELSE Absent]]
    /\ UNCHANGED <<graph, history>>

\* existing.update(props), then is_current = False unless it is set by now.
\* The props of a client that writes back what it read hold the flag it read.
Merged(v, flag) ==
    IF flag # Absent THEN flag
    ELSE IF current[v] # Absent THEN current[v]
    ELSE "noncurrent"

\* Mutant of Predecessors: any other version of the document will do.
AnyPredecessor(c, v) ==
    {p \in Versions \ {v} : DocOf[p] = DocOf[v] /\ current[p] # Absent} \union {NoVersion}

\* What the client knows as the current version of the document, or nothing:
\* the version to name as prev_version_id.
Predecessors(c, v) ==
    {p \in Versions \ {v} : DocOf[p] = DocOf[v] /\ read[c][p] = "current"} \union {NoVersion}

\* Mutant of UpsertVersion: the HAS_VERSION link is forgotten.
UpsertVersionUnlinked(c, v, prev, flag) ==
    /\ prev \in Predecessors(c, v)
    /\ flag \in {Absent, read[c][v]}
    /\ current' = [current EXCEPT ![v] = Merged(v, flag)]
    /\ supersedes' = [supersedes EXCEPT ![v] = IF prev = NoVersion THEN @ ELSE prev]
    /\ relinked' = relinked \union (IF prev # NoVersion /\ v \in swapped THEN {v} ELSE {})
    /\ upset' = upset \union (IF flag # Absent /\ flag # current[v] THEN {DocOf[v]} ELSE {})
    /\ UNCHANGED <<docs, hasVersion, chunks, hasChunk, read, swapped>>

UpsertVersion(c, v, prev, flag) ==
    /\ prev \in Predecessors(c, v)
    /\ flag \in {Absent, read[c][v]}
    /\ current' = [current EXCEPT ![v] = Merged(v, flag)]
    /\ hasVersion' = [hasVersion EXCEPT ![DocOf[v]] = @ \union {v}]
    /\ supersedes' = [supersedes EXCEPT ![v] = IF prev = NoVersion THEN @ ELSE prev]
    /\ relinked' = relinked \union (IF prev # NoVersion /\ v \in swapped THEN {v} ELSE {})
    /\ upset' = upset \union (IF flag # Absent /\ flag # current[v] THEN {DocOf[v]} ELSE {})
    /\ UNCHANGED <<docs, chunks, hasChunk, read, swapped>>

\* Mutant of UpsertChunk: the flag is set only by the swap.
UpsertChunkUnset(k) ==
    /\ chunks' = [chunks EXCEPT ![k] = IF @ = "absent" THEN "unset" ELSE @]
    /\ hasChunk' = [hasChunk EXCEPT ![VersionOf[k]] = @ \union {k}]
    /\ UNCHANGED <<docs, current, hasVersion, supersedes, read, history>>

\* staging is set on create and on match.
UpsertChunk(k) ==
    /\ chunks' = [chunks EXCEPT ![k] = "staging"]
    /\ hasChunk' = [hasChunk EXCEPT ![VersionOf[k]] = @ \union {k}]
    /\ UNCHANGED <<docs, current, hasVersion, supersedes, read, history>>

\* Mutant of Promote: the current versions of other documents are demoted too.
PromoteAlone(v) ==
    /\ current' = [w \in Versions |->
                      IF w # v /\ IsCurrent(w) THEN "noncurrent"
                      ELSE IF w = v /\ current[v] # Absent THEN "current"
                      ELSE current[w]]
    /\ swapped' = swapped \union {v}
    /\ upset' = IF current[v] = Absent THEN upset \union {DocOf[v]} ELSE upset \ {DocOf[v]}
    /\ UNCHANGED <<docs, hasVersion, supersedes, hasChunk, read, relinked>>

\* swap_version: the other versions of the document are demoted; the new one
\* is promoted only if there is such a node.
Promote(v) ==
    /\ current' = [w \in Versions |->
                      IF w # v /\ w \in hasVersion[DocOf[v]] /\ IsCurrent(w) THEN "noncurrent"
                      ELSE IF w = v /\ current[v] # Absent THEN "current"
                      ELSE current[w]]
    /\ swapped' = swapped \union {v}
    /\ upset' = IF current[v] = Absent THEN upset \union {DocOf[v]} ELSE upset \ {DocOf[v]}
    /\ UNCHANGED <<docs, hasVersion, supersedes, hasChunk, read, relinked>>

\* Mutant of Unstage: every chunk of the document is shown.
UnstageDocument(v) ==
    chunks' = [k \in Chunks |->
                  IF DocOf[VersionOf[k]] = DocOf[v] /\ chunks[k] # "absent"
                  THEN "live" ELSE chunks[k]]

\* Mutant of Unstage: one chunk of the version is shown, if it has any.
UnstageOne(v) ==
    LET staged == {k \in hasChunk[v] : chunks[k] # "absent"}
    IN  IF staged = {} THEN chunks' = chunks
        ELSE \E k \in staged : chunks' = [chunks EXCEPT ![k] = "live"]

\* Its chunks are shown either way.
Unstage(v) ==
    chunks' = [k \in Chunks |->
                  IF k \in hasChunk[v] /\ chunks[k] # "absent" THEN "live" ELSE chunks[k]]

SwapVersion(v) == Promote(v) /\ Unstage(v)

Next ==
    \/ \E d \in Documents : UpsertDocument(d)
    \/ \E c \in Clients, d \in Documents : GetVersions(c, d)
    \/ \E c \in Clients, v \in Versions, prev \in Versions \union {NoVersion}, flag \in Flags :
          UpsertVersion(c, v, prev, flag)
    \/ \E k \in Chunks : UpsertChunk(k)
    \/ \E v \in Versions : SwapVersion(v)

Spec == Init /\ [][Next]_vars

-----------------------------------------------------------------------------
(***************************************************************************)
(* Properties.                                                             *)
(***************************************************************************)

\* Every variable has the shape the code gives it.
TypeOK ==
    /\ docs \in SUBSET Documents
    /\ current \in [Versions -> Flags]
    /\ hasVersion \in [Documents -> SUBSET Versions]
    /\ supersedes \in [Versions -> Versions \union {NoVersion}]
    /\ chunks \in [Chunks -> {"absent", "staging", "live"}]
    /\ hasChunk \in [Versions -> SUBSET Chunks]
    /\ read \in [Clients -> [Versions -> Flags]]
    /\ swapped \in SUBSET Versions
    /\ relinked \in SUBSET Versions
    /\ upset \in SUBSET Documents

CurrentOf(d) == {v \in Versions : DocOf[v] = d /\ IsCurrent(v)}

\* A document has at most one current version whatever clients staged, swapped
\* or wrote back, and has one from its first swap on; the exceptions are a
\* document whose flag was overwritten with a stale one, and one swapped to a
\* version that is not there, and a swap to a version that is there ends both.
OneCurrentVersion ==
    \A d \in Documents \ upset :
        /\ \A v, w \in CurrentOf(d) : v = w
        /\ (\E v \in swapped : DocOf[v] = d) => CurrentOf(d) # {}

\* What was never swapped in is not seen: chunks that are still being indexed
\* are hidden, and so is everything re-indexed since the swap of its version.
\* (Re-indexing a chunk of the current version hides it until the next swap.)
StagedUntilSwapped ==
    /\ \A k \in Chunks : chunks[k] = "live" => VersionOf[k] \in swapped
    /\ \A v \in Versions : IsCurrent(v) => v \in swapped

\* Following SUPERSEDES from any version comes to an end, unless it meets a
\* version that was linked anew after it had been swapped in (restoring the
\* old version as the successor of the one that replaced it closes a cycle).
SupersedesIsAcyclic ==
    \A S \in SUBSET (Versions \ relinked) :
        S # {} => \E v \in S : supersedes[v] \notin S

\* What a query sees of a document, its live chunks of its current version,
\* changes as a whole: by a swap, after which every chunk of the new version is
\* seen and no other; apart from the re-indexing of one chunk, which hides it.
\* Staging a new version changes nothing of it.
Seen(d) == {k \in Chunks : VersionOf[k] \in CurrentOf(d) /\ chunks[k] = "live"}
Indexed(v) == {k \in Chunks : VersionOf[k] = v /\ chunks[k] # "absent"}
SeenChangesAsAWhole ==
    [][\A d \in Documents \ upset' :
          \/ /\ CurrentOf(d)' = CurrentOf(d)
             /\ \E hidden \in {{}} \union {{k} : k \in Chunks} : Seen(d)' = Seen(d) \ hidden
          \/ \E v \in Versions : CurrentOf(d)' = {v} /\ Seen(d)' = Indexed(v)']_vars
=============================================================================
