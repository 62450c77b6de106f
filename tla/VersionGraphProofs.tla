-------------------------- MODULE VersionGraphProofs ---------------------------
(***************************************************************************)
(* Proofs about VersionGraph, for any documents, versions, chunks and      *)
(* clients.                                                                *)
(***************************************************************************)
EXTENDS VersionGraph, TLAPS

USE DEF Absent

\* HAS_VERSION leads from its document to every version there is, and to no
\* version of another document; so does HAS_CHUNK.
Linked ==
    /\ \A v \in Versions : current[v] # Absent => v \in hasVersion[DocOf[v]]
    /\ \A d \in Documents : \A v \in hasVersion[d] : DocOf[v] = d
    /\ \A v \in Versions : \A k \in hasChunk[v] : VersionOf[k] = v

\* A client that read a version as the current one read of a version that was
\* swapped in.
ReadWasSwapped ==
    \A c \in Clients, v \in Versions : read[c][v] = "current" => v \in swapped

IInv ==
    /\ TypeOK
    /\ Linked
    /\ ReadWasSwapped
    /\ StagedUntilSwapped
    /\ OneCurrentVersion

-----------------------------------------------------------------------------
(***************************************************************************)
(* Types.                                                                  *)
(***************************************************************************)

LEMMA MergedType ==
    ASSUME TypeOK, NEW v \in Versions, NEW flag \in Flags
    PROVE  Merged(v, flag) \in Flags
  BY DEF TypeOK, Merged, Flags

LEMMA ReadType ==
    ASSUME TypeOK, NEW c \in Clients, NEW d \in Documents
    PROVE  [v \in Versions |-> IF v \in hasVersion[d] THEN current[v] ELSE Absent]
              \in [Versions -> Flags]
  BY DEF TypeOK, Flags

LEMMA PredecessorType ==
    ASSUME NEW c \in Clients, NEW v \in Versions, NEW p \in Predecessors(c, v)
    PROVE  p \in Versions \union {NoVersion}
  BY DEF Predecessors

\* Every initial state satisfies TypeOK.
LEMMA InitTypeOK == Init => TypeOK
  BY DEF Init, TypeOK, Flags

\* No step leaves the types.
LEMMA NextTypeOK == TypeOK /\ [Next]_vars => TypeOK'
<1> SUFFICES ASSUME TypeOK, [Next]_vars PROVE TypeOK'
  OBVIOUS
<1>1. ASSUME NEW d \in Documents, UpsertDocument(d) PROVE TypeOK'
  BY <1>1 DEF UpsertDocument, TypeOK, history
<1>2. ASSUME NEW c \in Clients, NEW d \in Documents, GetVersions(c, d) PROVE TypeOK'
  BY <1>2, ReadType DEF GetVersions, TypeOK, graph, history
<1>3. ASSUME NEW c \in Clients, NEW v \in Versions, NEW prev \in Versions \union {NoVersion},
             NEW flag \in Flags, UpsertVersion(c, v, prev, flag)
      PROVE  TypeOK'
  <2>1. /\ current' \in [Versions -> Flags]
        /\ supersedes' \in [Versions -> Versions \union {NoVersion}]
    BY <1>3, MergedType DEF UpsertVersion, TypeOK
  <2>2. DocOf[v] \in Documents
    BY GraphAssumption
  <2>3. hasVersion' \in [Documents -> SUBSET Versions]
    BY <1>3, <2>2 DEF UpsertVersion, TypeOK
  <2> QED
    BY <1>3, <2>1, <2>2, <2>3 DEF UpsertVersion, TypeOK
<1>4. ASSUME NEW k \in Chunks, UpsertChunk(k) PROVE TypeOK'
  <2>1. VersionOf[k] \in Versions
    BY GraphAssumption
  <2> QED
    BY <1>4, <2>1 DEF UpsertChunk, TypeOK, history
<1>5. ASSUME NEW v \in Versions, SwapVersion(v) PROVE TypeOK'
  <2>1. current' \in [Versions -> Flags]
    BY <1>5 DEF SwapVersion, Promote, TypeOK, Flags
  <2>2. chunks' \in [Chunks -> {"absent", "staging", "live"}]
    BY <1>5 DEF SwapVersion, Unstage, TypeOK
  <2>3. DocOf[v] \in Documents
    BY GraphAssumption
  <2> QED
    BY <1>5, <2>1, <2>2, <2>3 DEF SwapVersion, Promote, TypeOK
<1>6. CASE UNCHANGED vars
  BY <1>6 DEF vars, TypeOK
<1> QED
  BY <1>1, <1>2, <1>3, <1>4, <1>5, <1>6 DEF Next

-----------------------------------------------------------------------------
(***************************************************************************)
(* The inductive invariant.                                                *)
(***************************************************************************)

\* In the initial state nothing is there.
LEMMA InitIInv == Init => IInv
<1> SUFFICES ASSUME Init PROVE IInv
  OBVIOUS
<1>1. TypeOK
  BY InitTypeOK
<1>2. Linked /\ ReadWasSwapped /\ StagedUntilSwapped
  BY DEF Init, Linked, ReadWasSwapped, StagedUntilSwapped, IsCurrent
<1>3. OneCurrentVersion
  BY DEF Init, OneCurrentVersion, CurrentOf, IsCurrent
<1> QED
  BY <1>1, <1>2, <1>3 DEF IInv

\* A step that leaves the flags and the history alone keeps what depends on them.
LEMMA FlagsKept ==
    ASSUME OneCurrentVersion, UNCHANGED <<current, swapped, upset>>
    PROVE  OneCurrentVersion'
  BY DEF OneCurrentVersion, CurrentOf, IsCurrent

\* Staging keeps the invariant: the flag that upsert_version writes is the one
\* that is there, or the document is upset.
LEMMA UpsertVersionIInv ==
    ASSUME IInv, NEW c \in Clients, NEW v \in Versions,
           NEW prev \in Versions \union {NoVersion}, NEW flag \in Flags,
           UpsertVersion(c, v, prev, flag), TypeOK'
    PROVE  IInv'
<1>1. current' = [current EXCEPT ![v] = Merged(v, flag)]
  BY DEF UpsertVersion
<1>2. DocOf[v] \in Documents
  BY GraphAssumption
<1>3. Linked'
  <2>1. hasVersion' = [hasVersion EXCEPT ![DocOf[v]] = @ \union {v}]
    BY DEF UpsertVersion
  <2>2. hasChunk' = hasChunk
    BY DEF UpsertVersion
  <2>3. /\ current \in [Versions -> Flags]
        /\ hasVersion \in [Documents -> SUBSET Versions]
    BY DEF IInv, TypeOK
  <2>4. ASSUME NEW w \in Versions, current'[w] # Absent PROVE w \in hasVersion'[DocOf[w]]
    <3>1. DocOf[w] \in Documents
      BY GraphAssumption
    <3>2. w = v \/ w \in hasVersion[DocOf[w]]
      BY <1>1, <2>3, <2>4 DEF IInv, Linked
    <3> QED
      BY <1>2, <2>1, <2>3, <3>1, <3>2
  <2>5. ASSUME NEW d \in Documents, NEW w \in hasVersion'[d] PROVE DocOf[w] = d
    BY <1>2, <2>1, <2>3, <2>5 DEF IInv, Linked
  <2> QED
    BY <2>2, <2>4, <2>5 DEF IInv, Linked
<1>4. Merged(v, flag) = "current" => v \in swapped
  BY DEF Merged, UpsertVersion, IInv, ReadWasSwapped, StagedUntilSwapped, IsCurrent
<1>5. StagedUntilSwapped'
  <2>1. UNCHANGED <<chunks, swapped>>
    BY DEF UpsertVersion
  <2> QED
    BY <1>1, <1>4, <2>1 DEF IInv, TypeOK, StagedUntilSwapped, IsCurrent
<1>6. ReadWasSwapped'
  BY DEF UpsertVersion, IInv, ReadWasSwapped
<1>7. ASSUME NEW d \in Documents, d \notin upset'
      PROVE  d \notin upset /\ CurrentOf(d)' = CurrentOf(d)
  <2>1. d \notin upset
    BY <1>7 DEF UpsertVersion
  <2>2. CASE d = DocOf[v]
    <3>1. flag = Absent \/ flag = current[v]
      BY <1>7, <2>2 DEF UpsertVersion
    <3>2. current'[v] = "current" <=> current[v] = "current"
      BY <1>1, <3>1 DEF Merged, IInv, TypeOK
    <3>3. \A w \in Versions : IsCurrent(w)' <=> IsCurrent(w)
      BY <1>1, <3>2 DEF IsCurrent, IInv, TypeOK
    <3> QED
      BY <2>1, <3>3 DEF CurrentOf
  <2>3. CASE d # DocOf[v]
    <3>1. \A w \in Versions : DocOf[w] = d => (IsCurrent(w)' <=> IsCurrent(w))
      BY <1>1, <2>3 DEF IsCurrent, IInv, TypeOK
    <3> QED
      BY <2>1, <3>1 DEF CurrentOf
  <2> QED
    BY <2>2, <2>3
<1>8. swapped' = swapped
  BY DEF UpsertVersion
<1>9. OneCurrentVersion'
  BY <1>7, <1>8 DEF OneCurrentVersion, IInv
<1> QED
  BY <1>3, <1>5, <1>6, <1>9 DEF IInv

\* A swap leaves the document with its new version as the only current one.
LEMMA SwapVersionIInv ==
    ASSUME IInv, NEW v \in Versions, SwapVersion(v), TypeOK'
    PROVE  IInv'
<1>1. ASSUME NEW w \in Versions
      PROVE  current'[w] = IF w # v /\ w \in hasVersion[DocOf[v]] /\ IsCurrent(w)
                           THEN "noncurrent"
                           ELSE IF w = v /\ current[v] # Absent THEN "current"
                           ELSE current[w]
  BY DEF SwapVersion, Promote
<1>2. swapped' = swapped \union {v} /\ UNCHANGED <<hasVersion, hasChunk, read>>
  BY DEF SwapVersion, Promote
<1>3. DocOf[v] \in Documents
  BY GraphAssumption
<1>4. Linked'
  BY <1>1, <1>2 DEF IInv, Linked, IsCurrent
<1>5. ReadWasSwapped'
  BY <1>2 DEF IInv, ReadWasSwapped
<1>6. StagedUntilSwapped'
  <2>1. ASSUME NEW k \in Chunks, chunks'[k] = "live" PROVE VersionOf[k] \in swapped'
    <3>1. k \in hasChunk[v] \/ chunks[k] = "live"
      BY <2>1 DEF SwapVersion, Unstage
    <3> QED
      BY <3>1, <1>2 DEF IInv, Linked, StagedUntilSwapped
  <2>2. ASSUME NEW w \in Versions, IsCurrent(w)' PROVE w \in swapped'
    BY <1>1, <1>2, <2>2 DEF IInv, StagedUntilSwapped, IsCurrent
  <2> QED
    BY <2>1, <2>2 DEF StagedUntilSwapped
<1>7. upset' = IF current[v] = Absent THEN upset \union {DocOf[v]} ELSE upset \ {DocOf[v]}
  BY DEF SwapVersion, Promote
<1>8. ASSUME NEW d \in Documents \ upset', d = DocOf[v]
      PROVE  CurrentOf(d)' = {v}
  <2>1. current[v] # Absent
    BY <1>7, <1>8
  <2>2. \A w \in Versions : DocOf[w] = d => (IsCurrent(w)' <=> w = v)
    BY <1>1, <1>8, <2>1 DEF IsCurrent, IInv, Linked
  <2> QED
    BY <1>8, <2>2 DEF CurrentOf
<1>9. ASSUME NEW d \in Documents \ upset', d # DocOf[v]
      PROVE  /\ d \notin upset
             /\ CurrentOf(d)' = CurrentOf(d)
             /\ \A w \in swapped' : DocOf[w] = d => w \in swapped
  <2>1. \A w \in Versions : DocOf[w] = d => (IsCurrent(w)' <=> IsCurrent(w))
    BY <1>1, <1>3, <1>9 DEF IsCurrent, IInv, Linked
  <2> QED
    BY <1>2, <1>7, <1>9, <2>1 DEF CurrentOf
<1>10. OneCurrentVersion'
  BY <1>8, <1>9 DEF OneCurrentVersion, IInv
<1> QED
  BY <1>4, <1>5, <1>6, <1>10 DEF IInv

\* Every step keeps the invariant.
LEMMA NextIInv == IInv /\ [Next]_vars => IInv'
<1> SUFFICES ASSUME IInv, [Next]_vars PROVE IInv'
  OBVIOUS
<1>0. TypeOK'
  BY NextTypeOK DEF IInv
<1>1. ASSUME NEW d \in Documents, UpsertDocument(d) PROVE IInv'
  <2>1. UNCHANGED <<current, hasVersion, chunks, hasChunk, read, swapped, upset>>
    BY <1>1 DEF UpsertDocument, history
  <2>2. OneCurrentVersion'
    BY <2>1, FlagsKept DEF IInv
  <2> QED
    BY <1>0, <2>1, <2>2 DEF IInv, Linked, ReadWasSwapped, StagedUntilSwapped, IsCurrent
<1>2. ASSUME NEW c \in Clients, NEW d \in Documents, GetVersions(c, d) PROVE IInv'
  <2>1. UNCHANGED <<current, hasVersion, chunks, hasChunk, swapped, upset>>
    BY <1>2 DEF GetVersions, graph, history
  <2>2. OneCurrentVersion'
    BY <2>1, FlagsKept DEF IInv
  <2>3. ReadWasSwapped'
    BY <1>2, <2>1 DEF GetVersions, IInv, TypeOK, ReadWasSwapped, StagedUntilSwapped, IsCurrent
  <2> QED
    BY <1>0, <2>1, <2>2, <2>3 DEF IInv, Linked, StagedUntilSwapped, IsCurrent
<1>3. ASSUME NEW c \in Clients, NEW v \in Versions, NEW prev \in Versions \union {NoVersion},
             NEW flag \in Flags, UpsertVersion(c, v, prev, flag)
      PROVE  IInv'
  BY <1>0, <1>3, UpsertVersionIInv
<1>4. ASSUME NEW k \in Chunks, UpsertChunk(k) PROVE IInv'
  <2>1. UNCHANGED <<current, hasVersion, read, swapped, upset>>
    BY <1>4 DEF UpsertChunk, history
  <2>2. OneCurrentVersion'
    BY <2>1, FlagsKept DEF IInv
  <2>3. Linked' /\ StagedUntilSwapped'
    BY <1>4, <2>1 DEF UpsertChunk, IInv, TypeOK, Linked, StagedUntilSwapped, IsCurrent
  <2> QED
    BY <1>0, <2>1, <2>2, <2>3 DEF IInv, ReadWasSwapped
<1>5. ASSUME NEW v \in Versions, SwapVersion(v) PROVE IInv'
  BY <1>0, <1>5, SwapVersionIInv
<1>6. CASE UNCHANGED vars
  <2>1. UNCHANGED <<current, hasVersion, chunks, hasChunk, read, swapped, upset>>
    BY <1>6 DEF vars
  <2>2. OneCurrentVersion'
    BY <2>1, FlagsKept DEF IInv
  <2> QED
    BY <1>0, <2>1, <2>2 DEF IInv, Linked, ReadWasSwapped, StagedUntilSwapped, IsCurrent
<1> QED
  BY <1>1, <1>2, <1>3, <1>4, <1>5, <1>6 DEF Next

\* The inductive invariant holds in every state of every behaviour.
THEOREM GraphInvariant == Spec => []IInv
  BY InitIInv, NextIInv, PTL DEF Spec

\* Every variable keeps its type.
THEOREM GraphTypes == Spec => []TypeOK
<1>1. IInv => TypeOK
  BY DEF IInv
<1> QED
  BY <1>1, GraphInvariant, PTL

\* Whatever the clients call in whatever order, a document that was swapped has
\* one current version: after a stale write of the flag or a swap to a version
\* that is not there, from the next swap to one that is.
THEOREM SwapLeavesOneCurrent == Spec => []OneCurrentVersion
<1>1. IInv => OneCurrentVersion
  BY DEF IInv
<1> QED
  BY <1>1, GraphInvariant, PTL

\* No chunk is live, and no version current, before a swap named the version.
THEOREM StagedIsHidden == Spec => []StagedUntilSwapped
<1>1. IInv => StagedUntilSwapped
  BY DEF IInv
<1> QED
  BY <1>1, GraphInvariant, PTL
-----------------------------------------------------------------------------
(***************************************************************************)
(* Chains of versions, and what is seen of a document.                     *)
(***************************************************************************)

\* HAS_CHUNK leads to every chunk there is.
ChunksLinked ==
    \A k \in Chunks : chunks[k] # "absent" => k \in hasChunk[VersionOf[k]]

\* A version that is superseded was swapped in.
SupersededWasSwapped ==
    \A v \in Versions : supersedes[v] # NoVersion => supersedes[v] \in swapped

ChainInv == ChunksLinked /\ SupersededWasSwapped /\ SupersedesIsAcyclic

\* In the initial state there is no chunk and no predecessor.
LEMMA InitChainInv == Init => ChainInv
  BY GraphAssumption DEF Init, ChainInv, ChunksLinked, SupersededWasSwapped, SupersedesIsAcyclic

\* A new link to a predecessor closes no cycle: the predecessor was swapped in,
\* so is everything below it, and the version that is linked was not.
LEMMA UpsertVersionChain ==
    ASSUME IInv, ChainInv, NEW c \in Clients, NEW v \in Versions,
           NEW prev \in Versions \union {NoVersion}, NEW flag \in Flags,
           UpsertVersion(c, v, prev, flag)
    PROVE  ChainInv'
<1>1. /\ supersedes' = [supersedes EXCEPT ![v] = IF prev = NoVersion THEN @ ELSE prev]
      /\ relinked' = relinked \union (IF prev # NoVersion /\ v \in swapped THEN {v} ELSE {})
      /\ swapped' = swapped /\ chunks' = chunks /\ hasChunk' = hasChunk
  BY DEF UpsertVersion
<1>2. supersedes \in [Versions -> Versions \union {NoVersion}]
  BY DEF IInv, TypeOK
<1>3. prev # NoVersion => prev \in swapped
  BY DEF UpsertVersion, Predecessors, IInv, ReadWasSwapped
<1>4. ChunksLinked'
  BY <1>1 DEF ChainInv, ChunksLinked
<1>5. SupersededWasSwapped'
  BY <1>1, <1>2, <1>3 DEF ChainInv, SupersededWasSwapped
<1>6. SupersedesIsAcyclic'
  <2>. SUFFICES ASSUME NEW S \in SUBSET (Versions \ relinked'), S # {},
                       \A w \in S : supersedes'[w] \in S
                PROVE  FALSE
    BY DEF SupersedesIsAcyclic
  <2>1. S \in SUBSET (Versions \ relinked)
    BY <1>1
  <2>2. CASE prev = NoVersion \/ v \notin S
    <3>1. \A w \in S : supersedes'[w] = supersedes[w]
      BY <1>1, <1>2, <2>1, <2>2
    <3>. QED
      BY <2>1, <3>1 DEF ChainInv, SupersedesIsAcyclic
  <2>3. CASE prev # NoVersion /\ v \in S
    <3>. DEFINE T == S \intersect swapped
    <3>1. v \notin swapped
      BY <1>1, <2>3
    <3>2. prev \in T
      BY <1>1, <1>2, <1>3, <2>3
    <3>3. ASSUME NEW w \in T PROVE supersedes[w] \in T
      <4>1. supersedes[w] \in S
        BY <1>1, <1>2, <2>1, <3>1
      <4>2. supersedes[w] # NoVersion
        BY <2>1, <4>1, GraphAssumption
      <4>3. supersedes[w] \in swapped
        BY <2>1, <4>2 DEF ChainInv, SupersededWasSwapped
      <4>. QED
        BY <4>1, <4>3
    <3>4. T \in SUBSET (Versions \ relinked)
      BY <2>1
    <3>. QED
      BY <3>2, <3>3, <3>4 DEF ChainInv, SupersedesIsAcyclic
  <2>. QED
    BY <2>2, <2>3
<1>. QED
  BY <1>4, <1>5, <1>6 DEF ChainInv

\* A step that changes no link keeps the chains.
LEMMA ChainsKept ==
    ASSUME ChainInv, UNCHANGED <<supersedes, relinked>>, swapped \subseteq swapped'
    PROVE  SupersededWasSwapped' /\ SupersedesIsAcyclic'
  BY DEF ChainInv, SupersededWasSwapped, SupersedesIsAcyclic

\* Every step keeps chains and links.
LEMMA NextChainInv == IInv /\ ChainInv /\ [Next]_vars => ChainInv'
<1>. SUFFICES ASSUME IInv, ChainInv, [Next]_vars PROVE ChainInv'
  OBVIOUS
<1>1. CASE \/ \E d \in Documents : UpsertDocument(d)
           \/ \E c \in Clients, d \in Documents : GetVersions(c, d)
           \/ UNCHANGED vars
  <2>1. UNCHANGED <<supersedes, relinked, swapped, chunks, hasChunk>>
    BY <1>1 DEF UpsertDocument, GetVersions, graph, history, vars
  <2>. QED
    BY <2>1, ChainsKept DEF ChainInv, ChunksLinked
<1>2. ASSUME NEW c \in Clients, NEW v \in Versions, NEW prev \in Versions \union {NoVersion},
             NEW flag \in Flags, UpsertVersion(c, v, prev, flag)
      PROVE  ChainInv'
  BY <1>2, UpsertVersionChain
<1>3. ASSUME NEW k \in Chunks, UpsertChunk(k) PROVE ChainInv'
  <2>1. UNCHANGED <<supersedes, relinked, swapped>>
    BY <1>3 DEF UpsertChunk, history
  <2>2. ChunksLinked'
    BY <1>3, GraphAssumption DEF UpsertChunk, IInv, TypeOK, ChainInv, ChunksLinked
  <2>. QED
    BY <2>1, <2>2, ChainsKept DEF ChainInv
<1>4. ASSUME NEW v \in Versions, SwapVersion(v) PROVE ChainInv'
  <2>1. UNCHANGED <<supersedes, relinked, hasChunk>> /\ swapped \subseteq swapped'
    BY <1>4 DEF SwapVersion, Promote
  <2>2. ChunksLinked'
    BY <1>4, <2>1 DEF SwapVersion, Unstage, ChainInv, ChunksLinked
  <2>. QED
    BY <2>1, <2>2, ChainsKept DEF ChainInv
<1>. QED
  BY <1>1, <1>2, <1>3, <1>4 DEF Next

\* Following SUPERSEDES comes to an end, for any number of versions, unless it
\* meets a version that was linked anew after it had been swapped in.
THEOREM ChainsEnd == Spec => []SupersedesIsAcyclic
<1>1. Spec => []ChainInv
  BY InitChainInv, NextChainInv, GraphInvariant, PTL DEF Spec
<1>2. ChainInv => SupersedesIsAcyclic
  BY DEF ChainInv
<1>. QED
  BY <1>1, <1>2, PTL

-----------------------------------------------------------------------------
\* What a step may do to what is seen of one document.
Whole(d) ==
    \/ /\ CurrentOf(d)' = CurrentOf(d)
       /\ \E hidden \in {{}} \union {{k} : k \in Chunks} : Seen(d)' = Seen(d) \ hidden
    \/ \E v \in Versions : CurrentOf(d)' = {v} /\ Seen(d)' = Indexed(v)'

\* A step that leaves its current versions and their chunks alone shows and
\* hides nothing of a document.
LEMMA NothingSeen ==
    ASSUME NEW d \in Documents, CurrentOf(d)' = CurrentOf(d),
           \A k \in Chunks : DocOf[VersionOf[k]] = d => chunks'[k] = chunks[k]
    PROVE  Whole(d)
<1>1. \A v \in CurrentOf(d) : DocOf[v] = d
  BY DEF CurrentOf
<1>2. Seen(d)' = Seen(d)
  BY <1>1 DEF Seen
<1>. QED
  BY <1>2 DEF Whole

\* A swap shows every chunk of the new version and no other.
LEMMA SwapShowsAll ==
    ASSUME IInv, ChainInv, NEW v \in Versions, SwapVersion(v),
           NEW d \in Documents, d \notin upset'
    PROVE  Whole(d)
<1>1. /\ \A w \in Versions : current'[w] =
             IF w # v /\ w \in hasVersion[DocOf[v]] /\ IsCurrent(w) THEN "noncurrent"
             ELSE IF w = v /\ current[v] # Absent THEN "current"
             ELSE current[w]
      /\ upset' = IF current[v] = Absent THEN upset \union {DocOf[v]} ELSE upset \ {DocOf[v]}
      /\ \A k \in Chunks : chunks'[k] =
             IF k \in hasChunk[v] /\ chunks[k] # "absent" THEN "live" ELSE chunks[k]
  BY DEF SwapVersion, Promote, Unstage
<1>2. DocOf[v] \in Documents /\ \A k \in Chunks : VersionOf[k] \in Versions
  BY GraphAssumption
<1>3. CASE d = DocOf[v]
  <2>1. \A w \in Versions : DocOf[w] = d => (IsCurrent(w)' <=> w = v)
    BY <1>1, <1>3 DEF IsCurrent, IInv, Linked
  <2>2. CurrentOf(d)' = {v}
    BY <1>3, <2>1 DEF CurrentOf
  <2>3. \A k \in Chunks : VersionOf[k] = v => (chunks'[k] = "live" <=> chunks'[k] # "absent")
    BY <1>1 DEF ChainInv, ChunksLinked
  <2>4. Seen(d)' = Indexed(v)'
    BY <2>2, <2>3 DEF Seen, Indexed
  <2>. QED
    BY <2>2, <2>4 DEF Whole
<1>4. CASE d # DocOf[v]
  <2>1. \A w \in Versions : DocOf[w] = d => (IsCurrent(w)' <=> IsCurrent(w))
    BY <1>1, <1>2, <1>4 DEF IsCurrent, IInv, Linked
  <2>2. CurrentOf(d)' = CurrentOf(d)
    BY <2>1 DEF CurrentOf
  <2>3. \A k \in Chunks : DocOf[VersionOf[k]] = d => chunks'[k] = chunks[k]
    BY <1>1, <1>4 DEF IInv, Linked
  <2>. QED
    BY <2>2, <2>3, NothingSeen
<1>. QED
  BY <1>3, <1>4

\* Re-indexing hides at most the chunk that is re-indexed.
LEMMA UpsertChunkHidesOne ==
    ASSUME IInv, NEW k \in Chunks, UpsertChunk(k), NEW d \in Documents
    PROVE  Whole(d)
<1>1. current' = current /\ chunks' = [chunks EXCEPT ![k] = "staging"]
  BY DEF UpsertChunk
<1>2. CurrentOf(d)' = CurrentOf(d)
  BY <1>1 DEF CurrentOf, IsCurrent
<1>3. \A j \in Chunks : chunks'[j] = "live" <=> j # k /\ chunks[j] = "live"
  BY <1>1 DEF IInv, TypeOK
<1>4. Seen(d)' = Seen(d) \ {k}
  BY <1>2, <1>3 DEF Seen
<1>. QED
  BY <1>2, <1>4 DEF Whole

\* What a query sees of a document changes as a whole, for any documents and
\* chunks: by a swap, or by the re-indexing of one chunk, and never by staging.
THEOREM SeenAsAWhole == Spec => SeenChangesAsAWhole
<1>1. IInv /\ ChainInv /\ [Next]_vars => [\A d \in Documents \ upset' : Whole(d)]_vars
  <2>. SUFFICES ASSUME IInv, ChainInv, Next, NEW d \in Documents, d \notin upset'
                PROVE  Whole(d)
    OBVIOUS
  <2>1. CASE \/ \E e \in Documents : UpsertDocument(e)
             \/ \E c \in Clients, e \in Documents : GetVersions(c, e)
    <3>1. UNCHANGED <<current, chunks>>
      BY <2>1 DEF UpsertDocument, GetVersions, graph, history
    <3>. QED
      BY <3>1, NothingSeen DEF CurrentOf, IsCurrent
  <2>2. ASSUME NEW c \in Clients, NEW v \in Versions, NEW prev \in Versions \union {NoVersion},
               NEW flag \in Flags, UpsertVersion(c, v, prev, flag)
        PROVE  Whole(d)
    <3>1. /\ current' = [current EXCEPT ![v] = Merged(v, flag)] /\ chunks' = chunks
          /\ upset' = upset \union
                (IF flag # Absent /\ flag # current[v] THEN {DocOf[v]} ELSE {})
      BY <2>2 DEF UpsertVersion
    <3>2. \A w \in Versions : DocOf[w] = d => (IsCurrent(w)' <=> IsCurrent(w))
      BY <3>1 DEF Merged, IsCurrent, IInv, TypeOK
    <3>3. CurrentOf(d)' = CurrentOf(d)
      BY <3>2 DEF CurrentOf
    <3>. QED
      BY <3>1, <3>3, NothingSeen
  <2>3. ASSUME NEW k \in Chunks, UpsertChunk(k) PROVE Whole(d)
    BY <2>3, UpsertChunkHidesOne
  <2>4. ASSUME NEW v \in Versions, SwapVersion(v) PROVE Whole(d)
    BY <2>4, SwapShowsAll
  <2>. QED
    BY <2>1, <2>2, <2>3, <2>4 DEF Next
<1>2. Spec => []ChainInv
  BY InitChainInv, NextChainInv, GraphInvariant, PTL DEF Spec
<1>3. [\A d \in Documents \ upset' : Whole(d)]_vars =>
         [\A d \in Documents \ upset' :
            \/ /\ CurrentOf(d)' = CurrentOf(d)
               /\ \E hidden \in {{}} \union {{k} : k \in Chunks} : Seen(d)' = Seen(d) \ hidden
            \/ \E v \in Versions : CurrentOf(d)' = {v} /\ Seen(d)' = Indexed(v)']_vars
  BY DEF Whole
<1>. QED
  BY <1>1, <1>2, <1>3, GraphInvariant, PTL DEF Spec, SeenChangesAsAWhole
=============================================================================
