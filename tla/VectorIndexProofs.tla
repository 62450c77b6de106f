--------------------------- MODULE VectorIndexProofs ---------------------------
(***************************************************************************)
(* Proofs about VectorIndex, for any tenants, clients, vectors, metadata   *)
(* and filters, from VectorAssumption; and about VectorSearch, where the   *)
(* filter is the one documented and its evaluation and the ranks are those *)
(* of the code, from SearchAssumption.                                     *)
(***************************************************************************)
EXTENDS VectorSearch, SequenceTheorems, WellFoundedInduction, TLAPS

IInv == TypeOK /\ TenantsStayApart /\ ArchivedStaysArchived

-----------------------------------------------------------------------------
(***************************************************************************)
(* What merging does to the two fields that the invariant is about.        *)
(***************************************************************************)

LEMMA MergedField ==
    ASSUME NEW old, NEW new, NEW f \in DOMAIN old
    PROVE  Merged(old, new)[f] = IF f \in DOMAIN new THEN new[f] ELSE old[f]
  BY DEF Merged

\* What a client can write names a tenant, merges into metadata, and its
\* archived flag, if named, is a Boolean.
LEMMA WritableType ==
    ASSUME TypeOK, NEW c \in Clients, NEW i \in Ids, NEW metadata \in Writable(c, i)
    PROVE  /\ \A m \in Metadata : Merged(m, metadata) \in Metadata
           /\ "tenant_id" \in DOMAIN metadata
           /\ "archived" \in DOMAIN metadata => metadata.archived \in BOOLEAN
<1>1. CASE metadata \in Patches
  BY <1>1, VectorAssumption
<1>2. CASE i \in DOMAIN answer[c] /\ \E p \in Patches : metadata = Merged(answer[c][i], p)
  <2>1. PICK p \in Patches : metadata = Merged(answer[c][i], p)
    BY <1>2
  <2>2. answer[c][i] \in Metadata
    BY <1>2 DEF TypeOK
  <2>3. metadata \in Metadata
    BY <2>1, <2>2, VectorAssumption
  <2> QED
    BY <2>3, VectorAssumption
<1> QED
  BY <1>1, <1>2 DEF Writable

\* The flag and the tenant of a vector after an update.
LEMMA MergedFlag ==
    ASSUME NEW m \in Metadata, NEW metadata, "tenant_id" \in DOMAIN metadata
    PROVE  /\ Merged(m, metadata).tenant_id = metadata.tenant_id
           /\ Merged(m, metadata).archived =
                  IF "archived" \in DOMAIN metadata THEN metadata.archived ELSE m.archived
<1>1. {"tenant_id", "archived"} \subseteq DOMAIN m
  BY VectorAssumption
<1> QED
  BY <1>1, MergedField

-----------------------------------------------------------------------------
(***************************************************************************)
(* The inductive invariant, call by call.                                  *)
(***************************************************************************)

\* Nothing is stored or answered at first.
LEMMA InitIInv == Init => IInv
  BY DEF Init, IInv, TypeOK, TenantsStayApart, ArchivedStaysArchived, Stored, OfTenant

LEMMA UpsertIInv ==
    ASSUME IInv, NEW c \in Clients, NEW batch \in Batches, Upsert(c, batch)
    PROVE  IInv'
<1> DEFINE t == TenantOf[c]
<1>0. t \in Tenants
  BY VectorAssumption
<1>1. CASE \A i \in DOMAIN batch : OfTenant(c, batch[i])
  <2>1. \A i \in DOMAIN batch : i \in Ids /\ batch[i] \in Metadata
    BY VectorAssumption
  <2>2. /\ index' = [index EXCEPT ![t] =
                        [i \in Ids |-> IF i \in DOMAIN batch THEN batch[i] ELSE @[i]]]
        /\ hidden' = [hidden EXCEPT ![t] =
                        {i \in Ids : IF i \in DOMAIN batch THEN batch[i].archived ELSE i \in @}]
        /\ Ends("upserted")
        /\ answer' = answer
    BY <1>1 DEF Upsert
  <2>3. TypeOK'
    BY <1>0, <2>1, <2>2 DEF IInv, TypeOK, Ends
  <2>4. TenantsStayApart'
    BY <1>0, <1>1, <2>1, <2>2 DEF IInv, TypeOK, TenantsStayApart, Stored, OfTenant
  <2>5. ArchivedStaysArchived'
    <3>1. ASSUME NEW s \in Tenants, NEW i \in Ids, s # t \/ i \notin DOMAIN batch
          PROVE  index'[s][i] = index[s][i] /\ (i \in hidden'[s] <=> i \in hidden[s])
      BY <1>0, <2>2, <3>1 DEF IInv, TypeOK
    <3>2. ASSUME NEW i \in DOMAIN batch
          PROVE  /\ index'[t][i] = batch[i] /\ (i \in hidden'[t] <=> batch[i].archived)
                 /\ batch[i] # NoVector
      BY <1>0, <2>1, <2>2, VectorAssumption DEF IInv, TypeOK
    <3> QED
      BY <2>1, <3>1, <3>2 DEF IInv, ArchivedStaysArchived
  <2> QED
    BY <2>3, <2>4, <2>5 DEF IInv
<1>2. CASE \E i \in DOMAIN batch : ~OfTenant(c, batch[i])
  <2>1. Ends("refused") /\ UNCHANGED <<index, hidden, answer>>
    BY <1>2 DEF Upsert
  <2> QED
    BY <2>1 DEF IInv, TypeOK, Ends, TenantsStayApart, ArchivedStaysArchived, Stored, OfTenant
<1> QED
  BY <1>1, <1>2

LEMMA DeleteIInv ==
    ASSUME IInv, NEW c \in Clients, NEW ids \in SUBSET Ids, Delete(c, ids)
    PROVE  IInv'
<1>0. TenantOf[c] \in Tenants
  BY VectorAssumption
<1>1. TypeOK'
  BY <1>0 DEF Delete, Ends, IInv, TypeOK
<1>2. TenantsStayApart'
  BY <1>0 DEF Delete, IInv, TypeOK, TenantsStayApart, Stored, OfTenant
<1>3. ArchivedStaysArchived'
  BY <1>0 DEF Delete, IInv, TypeOK, ArchivedStaysArchived
<1> QED
  BY <1>1, <1>2, <1>3 DEF IInv

LEMMA UpdateIInv ==
    ASSUME IInv, NEW c \in Clients, NEW i \in Ids, NEW metadata \in Writable(c, i),
           UpdateMetadata(c, i, metadata)
    PROVE  IInv'
<1> DEFINE t == TenantOf[c]
<1>0. t \in Tenants
  BY VectorAssumption
<1>1. CASE OfTenant(c, metadata) /\ index[t][i] # NoVector
  <2> DEFINE m == index[t][i]
  <2>1. m \in Metadata
    BY <1>0, <1>1 DEF IInv, TypeOK
  <2>2. /\ Merged(m, metadata) \in Metadata
        /\ Merged(m, metadata).tenant_id = t
        /\ Merged(m, metadata).archived =
              IF "archived" \in DOMAIN metadata THEN metadata.archived ELSE m.archived
        /\ "archived" \in DOMAIN metadata => metadata.archived \in BOOLEAN
    BY <1>1, <2>1, WritableType, MergedFlag DEF IInv, OfTenant
  <2>3. /\ index' = [index EXCEPT ![t][i] = Merged(m, metadata)]
        /\ hidden' = [hidden EXCEPT ![t] =
                        IF "archived" \notin DOMAIN metadata THEN @
                        ELSE IF metadata.archived THEN @ \union {i} ELSE @ \ {i}]
        /\ Ends("updated")
        /\ answer' = answer
    BY <1>1 DEF UpdateMetadata, Rewrite
  <2>4. TypeOK'
    BY <1>0, <2>2, <2>3 DEF IInv, TypeOK, Ends
  <2>5. TenantsStayApart'
    BY <1>0, <2>2, <2>3 DEF IInv, TypeOK, TenantsStayApart, Stored, OfTenant
  <2>6. ArchivedStaysArchived'
    <3>1. ASSUME NEW s \in Tenants, NEW j \in Ids, s # t \/ j # i
          PROVE  index'[s][j] = index[s][j] /\ (j \in hidden'[s] <=> j \in hidden[s])
      BY <1>0, <2>3, <3>1 DEF IInv, TypeOK
    <3>2. index'[t][i] = Merged(m, metadata) /\ Merged(m, metadata) # NoVector
      BY <1>0, <2>2, <2>3, VectorAssumption DEF IInv, TypeOK
    <3>3. i \in hidden'[t] <=> Merged(m, metadata).archived
      <4>1. hidden'[t] = IF "archived" \notin DOMAIN metadata THEN hidden[t]
                         ELSE IF metadata.archived THEN hidden[t] \union {i}
                         ELSE hidden[t] \ {i}
        BY <1>0, <2>3 DEF IInv, TypeOK
      <4>2. i \in hidden[t] <=> m.archived
        BY <1>0, <1>1 DEF IInv, ArchivedStaysArchived
      <4> QED
        BY <2>2, <4>1, <4>2
    <3> QED
      BY <3>1, <3>2, <3>3 DEF IInv, ArchivedStaysArchived
  <2> QED
    BY <2>4, <2>5, <2>6 DEF IInv
<1>2. CASE ~(OfTenant(c, metadata) /\ index[t][i] # NoVector)
  <2>1. (Ends("refused") \/ Ends("updated")) /\ UNCHANGED <<index, hidden, answer>>
    BY <1>2 DEF UpdateMetadata
  <2> QED
    BY <2>1 DEF IInv, TypeOK, Ends, TenantsStayApart, ArchivedStaysArchived, Stored, OfTenant
<1> QED
  BY <1>1, <1>2

LEMMA QueryIInv ==
    ASSUME IInv, NEW c \in Clients, NEW k \in Limits, Query(c, k)
    PROVE  IInv'
<1> DEFINE t == TenantOf[c]
           passing == {i \in Stored(t) : Outcome(c, i) = "yes"}
<1>0. t \in Tenants
  BY VectorAssumption
<1>1. UNCHANGED <<index, hidden>>
  BY DEF Query
<1>2. ArchivedStaysArchived'
  BY <1>1 DEF IInv, ArchivedStaysArchived
<1>3. CASE \E i \in Stored(t) : Outcome(c, i) = "raise"
  <2>1. last' = [by |-> c, ended |-> "raised", limit |-> k] /\ answer' = answer
    BY <1>3 DEF Query
  <2> QED
    BY <1>1, <1>2, <2>1 DEF IInv, TypeOK, TenantsStayApart, Stored, OfTenant
<1>4. CASE ~\E i \in Stored(t) : Outcome(c, i) = "raise"
  <2>1. PICK top \in SUBSET passing :
           /\ answer' = [answer EXCEPT ![c] = [i \in top |-> index[t][i]]]
           /\ last' = [by |-> c, ended |-> "answered", limit |-> k]
    BY <1>4 DEF Query
  <2>2. \A i \in top : /\ i \in Ids /\ index[t][i] \in Metadata
                       /\ index[t][i].tenant_id = t
    BY <1>0, <2>1 DEF IInv, TypeOK, TenantsStayApart, Stored
  <2>3. /\ DOMAIN answer' = Clients
        /\ \A d \in Clients \ {c} : answer'[d] = answer[d]
        /\ answer'[c] = [i \in top |-> index[t][i]]
    BY <2>1 DEF IInv, TypeOK
  <2>4. ASSUME NEW d \in Clients, NEW i \in DOMAIN answer'[d]
        PROVE  i \in Ids /\ answer'[d][i] \in Metadata /\ OfTenant(d, answer'[d][i])
    <3>1. CASE d = c
      BY <2>2, <2>3, <2>4, <3>1 DEF OfTenant
    <3>2. CASE d # c
      BY <2>3, <2>4, <3>2 DEF IInv, TypeOK, TenantsStayApart
    <3> QED
      BY <3>1, <3>2
  <2>5. TypeOK'
    BY <1>1, <2>1, <2>3, <2>4 DEF IInv, TypeOK
  <2>6. TenantsStayApart'
    BY <1>1, <2>4 DEF IInv, TenantsStayApart, Stored, OfTenant
  <2> QED
    BY <1>2, <2>5, <2>6 DEF IInv
<1> QED
  BY <1>3, <1>4

\* Every step keeps the invariant.
LEMMA NextIInv == IInv /\ [Next]_vars => IInv'
<1> SUFFICES ASSUME IInv, [Next]_vars PROVE IInv'
  OBVIOUS
<1>1. CASE UNCHANGED vars
  BY <1>1 DEF vars, IInv, TypeOK, TenantsStayApart, ArchivedStaysArchived, Stored, OfTenant
<1> QED
  BY <1>1, UpsertIInv, DeleteIInv, UpdateIInv, QueryIInv DEF Next

\* The inductive invariant holds in every state of every behaviour.
THEOREM VectorInvariant == Spec => []IInv
  BY InitIInv, NextIInv, PTL DEF Spec

\* Every variable keeps its type.
THEOREM VectorTypes == Spec => []TypeOK
<1>1. IInv => TypeOK
  BY DEF IInv
<1> QED
  BY <1>1, VectorInvariant, PTL

\* What is stored for a tenant, and what its clients are answered, carries the
\* tenant's id: batches and updates with another one leave nothing behind.
THEOREM VectorTenants == Spec => []TenantsStayApart
<1>1. IInv => TenantsStayApart
  BY DEF IInv
<1> QED
  BY <1>1, VectorInvariant, PTL

\* The archived flag is the one that was written last, whatever else of the
\* metadata was updated since.
THEOREM VectorArchived == Spec => []ArchivedStaysArchived
<1>1. IInv => ArchivedStaysArchived
  BY DEF IInv
<1> QED
  BY <1>1, VectorInvariant, PTL

\* Refusals change nothing and only an upsert brings a vector in.
THEOREM VectorsComeFromUpserts == Spec => NothingFromNowhere
<1> DEFINE Quiet ==
       /\ last'.ended \in {"refused", "raised"} => UNCHANGED <<index, answer>>
       /\ last'.ended # "upserted" => \A t \in Tenants : Stored(t)' \subseteq Stored(t)
<1>1. ASSUME TypeOK, [Next]_vars PROVE Quiet \/ UNCHANGED vars
  <2> SUFFICES ASSUME Next PROVE Quiet
    BY <1>1
  <2>1. PICK c \in Clients :
           \/ \E batch \in Batches : Upsert(c, batch)
           \/ \E ids \in SUBSET Ids : Delete(c, ids)
           \/ \E i \in Ids : \E metadata \in Writable(c, i) : UpdateMetadata(c, i, metadata)
           \/ \E k \in Limits : Query(c, k)
    BY DEF Next
  <2>2. TenantOf[c] \in Tenants
    BY VectorAssumption
  <2>3. ASSUME NEW batch \in Batches, Upsert(c, batch) PROVE Quiet
    BY <2>3 DEF Upsert, Ends, Stored
  <2>4. ASSUME NEW ids \in SUBSET Ids, Delete(c, ids) PROVE Quiet
    BY <1>1, <2>2, <2>4 DEF Delete, Ends, TypeOK, Stored
  <2>5. ASSUME NEW i \in Ids, NEW metadata \in Writable(c, i), UpdateMetadata(c, i, metadata)
        PROVE  Quiet
    <3>1. CASE UNCHANGED index
      BY <2>5, <3>1 DEF UpdateMetadata, Ends, Stored
    <3>2. CASE index[TenantOf[c]][i] # NoVector /\ Rewrite(c, i, metadata) /\ Ends("updated")
      BY <1>1, <2>2, <3>2 DEF Rewrite, Ends, TypeOK, Stored
    <3> QED
      BY <2>5, <3>1, <3>2 DEF UpdateMetadata
  <2>6. ASSUME NEW k \in Limits, Query(c, k) PROVE Quiet
    <3>1. UNCHANGED index
      BY <2>6 DEF Query
    <3>2. \/ last' = [by |-> c, ended |-> "raised", limit |-> k] /\ UNCHANGED answer
          \/ last' = [by |-> c, ended |-> "answered", limit |-> k]
      <4>1. CASE \E i \in Stored(TenantOf[c]) : Outcome(c, i) = "raise"
        BY <2>6, <4>1 DEF Query
      <4>2. CASE ~\E i \in Stored(TenantOf[c]) : Outcome(c, i) = "raise"
        BY <2>6, <4>2 DEF Query
      <4> QED
        BY <4>1, <4>2
    <3> QED
      BY <3>1, <3>2 DEF Stored
  <2> QED
    BY <2>1, <2>3, <2>4, <2>5, <2>6
<1> QED
  BY <1>1, VectorTypes, PTL DEF Spec, NothingFromNowhere

-----------------------------------------------------------------------------
(***************************************************************************)
(* The filter: what each level of nesting makes of its entries, down to    *)
(* single conditions.                                                      *)
(***************************************************************************)

\* Min picks the least of a set of naturals.
LEMMA LeastOfNats ==
    ASSUME NEW S \in SUBSET Nat, S # {}
    PROVE  Min(S) \in S /\ \A x \in S : Min(S) <= x
<1>1. PICK x \in S : \A y \in S : <<y, x>> \notin OpToRel(<, Nat)
  BY NatLessThanWellFounded, WFMin
<1>2. ASSUME NEW y \in S PROVE x <= y
  <2>1. <<y, x>> \in Nat \X Nat /\ <<y, x>>[1] = y /\ <<y, x>>[2] = x
    OBVIOUS
  <2>2. ~(y < x)
    BY <1>1, <2>1 DEF OpToRel
  <2> QED
    BY <2>2
<1> QED
  BY <1>2 DEF Min

LEMMA FirstOfOne ==
    ASSUME NEW x, NEW n
    PROVE  FirstOther(<<x>>, n) = x
<1>1. {i \in DOMAIN <<x>> : <<x>>[i] # n} = IF x = n THEN {} ELSE {1}
  OBVIOUS
<1>2. Min({1}) = 1
  BY DEF Min
<1> QED
  BY <1>1, <1>2 DEF FirstOther

\* The first outcome decides unless it is neutral, then the other does.
LEMMA FirstOfTwo ==
    ASSUME NEW x, NEW y, NEW n
    PROVE  FirstOther(<<x, y>>, n) = IF x = n THEN y ELSE x
<1> DEFINE o == <<x, y>>
           D == {i \in DOMAIN o : o[i] # n}
<1>1. DOMAIN o = {1, 2} /\ o[1] = x /\ o[2] = y
  OBVIOUS
<1>2. FirstOther(o, n) = IF D = {} THEN n ELSE o[Min(D)]
  BY DEF FirstOther
<1> HIDE DEF o
<1>3. D # {} => Min(D) \in D /\ \A i \in D : Min(D) <= i
  BY <1>1, LeastOfNats
<1>4. FirstOther(o, n) = IF x = n THEN y ELSE x
  BY <1>1, <1>2, <1>3
<1> QED
  BY <1>4 DEF o

\* The outcome of one condition on a field.
Test(field, op, operand, m) == EvalCondition(field, Condition(op, operand), Get(m, field))
Entry(field, op, operand) == Field(field, <<Condition(op, operand)>>)
YesNo == {"yes", "no"}

LEMMA EntryIsTest ==
    ASSUME NEW f, NEW op, NEW operand, NEW m
    PROVE  EvalField(Entry(f, op, operand), m) = Test(f, op, operand, m)
<1> DEFINE cond == Condition(op, operand)
           o == EvalCondition(f, cond, Get(m, f))
<1>1. Field(f, <<cond>>).conditions = <<cond>> /\ Field(f, <<cond>>).field = f
  BY DEF Field
<1>2. [i \in DOMAIN <<cond>> |-> EvalCondition(f, <<cond>>[i], Get(m, f))] = <<o>>
  OBVIOUS
<1>3. EvalField(Field(f, <<cond>>), m) = FirstOther(<<o>>, "yes")
  BY <1>1, <1>2 DEF EvalField
<1> QED
  BY <1>3, FirstOfOne DEF Test, Entry

\* A node of one entry that is a field, at each level.
LEMMA NodeOfField ==
    ASSUME NEW f, NEW op, NEW operand, NEW m
    PROVE  /\ EvalFields(Only(f, op, operand), m) = Test(f, op, operand, m)
           /\ EvalInner(Only(f, op, operand), m) = Test(f, op, operand, m)
           /\ EvalMiddle(Only(f, op, operand), m) = Test(f, op, operand, m)
<1> DEFINE e == Entry(f, op, operand)
<1>1. e.op = "field"
  BY DEF Entry, Field
<1>2. EvalField(e, m) = Test(f, op, operand, m)
  BY EntryIsTest
<1> HIDE DEF e
<1>3. DOMAIN <<e>> = {1} /\ <<e>>[1] = e
  OBVIOUS
<1>4. [i \in DOMAIN <<e>> |-> EvalField(<<e>>[i], m)] = <<Test(f, op, operand, m)>>
  BY <1>2, <1>3
<1>5. EvalFields(<<e>>, m) = Test(f, op, operand, m)
  BY <1>4, FirstOfOne DEF EvalFields
<1>6. EvalInner(<<e>>, m) = FirstOther(<<Test(f, op, operand, m)>>, "yes")
  BY <1>1, <1>2, <1>3 DEF EvalInner, EvalEntries
<1>7. EvalMiddle(<<e>>, m) = FirstOther(<<Test(f, op, operand, m)>>, "yes")
  BY <1>1, <1>2, <1>3 DEF EvalMiddle, EvalEntries
<1>8. <<e>> = Only(f, op, operand)
  BY DEF e, Entry, Only
<1> QED
  BY <1>5, <1>6, <1>7, <1>8, FirstOfOne

\* Two conditions, as $and lists them.
LEMMA BothFields ==
    ASSUME NEW f, NEW op, NEW x, NEW g, NEW oq, NEW y, NEW m,
           Test(f, op, x, m) \in YesNo, Test(g, oq, y, m) \in YesNo
    PROVE  EvalInner(Both(Only(f, op, x), Only(g, oq, y)), m) =
               Truth(Test(f, op, x, m) = "yes" /\ Test(g, oq, y, m) = "yes")
<1> DEFINE p == Only(f, op, x)
           q == Only(g, oq, y)
           e == AllOf(<<p, q>>)
           o == FirstOther(<<EvalFields(p, m), EvalFields(q, m)>>, "yes")
<1>1. e.op = "$and" /\ e.clauses = <<p, q>>
  BY DEF AllOf
<1>2. EvalFields(p, m) = Test(f, op, x, m) /\ EvalFields(q, m) = Test(g, oq, y, m)
  BY NodeOfField
<1> HIDE DEF p, q
<1>3. [j \in DOMAIN <<p, q>> |-> EvalFields(<<p, q>>[j], m)] = <<EvalFields(p, m), EvalFields(q, m)>>
  OBVIOUS
<1> HIDE DEF e
<1>4. DOMAIN <<e>> = {1} /\ <<e>>[1] = e
  OBVIOUS
<1>5. EvalInner(<<e>>, m) = FirstOther(<<o>>, "yes")
  BY <1>1, <1>3, <1>4 DEF EvalInner, EvalEntries
<1>6. EvalInner(<<e>>, m) = IF Test(f, op, x, m) = "yes" THEN Test(g, oq, y, m)
                                                        ELSE Test(f, op, x, m)
  BY <1>2, <1>5, FirstOfOne, FirstOfTwo
<1>7. <<e>> = Both(Only(f, op, x), Only(g, oq, y))
  BY DEF e, p, q, Both
<1> QED
  BY <1>6, <1>7 DEF Truth, YesNo

\* Where no outcome raises, all and any are what they say.
LEMMA FirstOfMany ==
    ASSUME NEW o, DOMAIN o \in SUBSET Nat, \A i \in DOMAIN o : o[i] \in YesNo
    PROVE  /\ FirstOther(o, "yes") = Truth(\A i \in DOMAIN o : o[i] = "yes")
           /\ FirstOther(o, "no") = Truth(\E i \in DOMAIN o : o[i] = "yes")
<1>1. ASSUME NEW n
      PROVE  LET D == {i \in DOMAIN o : o[i] # n}
             IN  IF D = {} THEN FirstOther(o, n) = n
                 ELSE \E i \in D : FirstOther(o, n) = o[i]
  <2> DEFINE D == {i \in DOMAIN o : o[i] # n}
  <2>1. FirstOther(o, n) = IF D = {} THEN n ELSE o[Min(D)]
    BY DEF FirstOther
  <2>2. D # {} => Min(D) \in D
    BY LeastOfNats
  <2> QED
    BY <2>1, <2>2
<1>2. FirstOther(o, "yes") = Truth(\A i \in DOMAIN o : o[i] = "yes")
  BY <1>1 DEF Truth, YesNo
<1>3. FirstOther(o, "no") = Truth(\E i \in DOMAIN o : o[i] = "yes")
  BY <1>1 DEF Truth, YesNo
<1> QED
  BY <1>2, <1>3

LEMMA AnyOfNodes ==
    ASSUME NEW S, NEW b \in Seq(S), NEW m, \A i \in 1..Len(b) : EvalInner(b[i], m) \in YesNo
    PROVE  EvalMiddle(<<AnyOf(b)>>, m) = Truth(\E i \in 1..Len(b) : EvalInner(b[i], m) = "yes")
<1> DEFINE e == AnyOf(b)
           o == [i \in DOMAIN b |-> EvalInner(b[i], m)]
<1>1. e.op = "$or" /\ e.clauses = b
  BY DEF AnyOf
<1> HIDE DEF e
<1>2. DOMAIN <<e>> = {1} /\ <<e>>[1] = e
  OBVIOUS
<1>3. EvalMiddle(<<e>>, m) = FirstOther(<<FirstOther(o, "no")>>, "yes")
  BY <1>1, <1>2 DEF EvalMiddle, EvalEntries
<1>4. /\ DOMAIN o = 1..Len(b) /\ 1..Len(b) \in SUBSET Nat
      /\ \A i \in 1..Len(b) : o[i] = EvalInner(b[i], m)
  OBVIOUS
<1> HIDE DEF o
<1>5. FirstOther(o, "no") = Truth(\E i \in 1..Len(b) : EvalInner(b[i], m) = "yes")
  BY <1>4, FirstOfMany
<1> QED
  BY <1>3, <1>5, FirstOfOne DEF e

LEMMA AllOfNodes ==
    ASSUME NEW S, NEW b \in Seq(S), NEW m, \A i \in 1..Len(b) : EvalMiddle(b[i], m) \in YesNo
    PROVE  EvalNode(<<AllOf(b)>>, m) = Truth(\A i \in 1..Len(b) : EvalMiddle(b[i], m) = "yes")
<1> DEFINE e == AllOf(b)
           o == [i \in DOMAIN b |-> EvalMiddle(b[i], m)]
<1>1. e.op = "$and" /\ e.clauses = b
  BY DEF AllOf
<1> HIDE DEF e
<1>2. DOMAIN <<e>> = {1} /\ <<e>>[1] = e
  OBVIOUS
<1>3. EvalNode(<<e>>, m) = FirstOther(<<FirstOther(o, "yes")>>, "yes")
  BY <1>1, <1>2 DEF EvalNode, EvalEntries
<1>4. /\ DOMAIN o = 1..Len(b) /\ 1..Len(b) \in SUBSET Nat
      /\ \A i \in 1..Len(b) : o[i] = EvalMiddle(b[i], m)
  OBVIOUS
<1> HIDE DEF o
<1>5. FirstOther(o, "yes") = Truth(\A i \in 1..Len(b) : EvalMiddle(b[i], m) = "yes")
  BY <1>4, FirstOfMany
<1> QED
  BY <1>3, <1>5, FirstOfOne DEF e

\* The nodes under the $or of a client's filter.
Nodes(b) == {b[i] : i \in 1..Len(b)}

LEMMA NodesOfConcat ==
    ASSUME NEW S, NEW b \in Seq(S), NEW d \in Seq(S)
    PROVE  b \o d \in Seq(S) /\ Nodes(b \o d) = Nodes(b) \union Nodes(d)
<1>1. /\ b \o d \in Seq(S)
      /\ Len(b \o d) = Len(b) + Len(d)
      /\ \A i \in 1..Len(b) + Len(d) :
            (b \o d)[i] = IF i <= Len(b) THEN b[i] ELSE d[i - Len(b)]
  BY ConcatProperties
<1>2. Len(b) \in Nat /\ Len(d) \in Nat
  OBVIOUS
<1> DEFINE both == b \o d
<1> HIDE DEF both
<1>3. ASSUME NEW i \in 1..Len(both) PROVE both[i] \in Nodes(b) \union Nodes(d)
  <2>1. CASE i <= Len(b)
    BY <1>1, <1>2, <2>1 DEF Nodes, both
  <2>2. CASE i > Len(b)
    <3>1. i - Len(b) \in 1..Len(d) /\ both[i] = d[i - Len(b)]
      BY <1>1, <1>2, <2>2 DEF both
    <3> QED
      BY <3>1 DEF Nodes
  <2> QED
    BY <1>1, <1>2, <2>1, <2>2 DEF both
<1>4. ASSUME NEW i \in 1..Len(b) PROVE b[i] \in Nodes(both)
  <2>1. i \in 1..Len(both) /\ both[i] = b[i]
    BY <1>1, <1>2 DEF both
  <2> QED
    BY <2>1 DEF Nodes
<1>5. ASSUME NEW i \in 1..Len(d) PROVE d[i] \in Nodes(both)
  <2>1. Len(b) + i \in 1..Len(both) /\ both[Len(b) + i] = d[i]
    BY <1>1, <1>2 DEF both
  <2> QED
    BY <2>1 DEF Nodes
<1>6. Nodes(both) = Nodes(b) \union Nodes(d)
  BY <1>3, <1>4, <1>5 DEF Nodes
<1> QED
  BY <1>1, <1>6 DEF both

LEMMA NodesOfOne ==
    ASSUME NEW S, NEW n \in S
    PROVE  /\ <<n>> \in Seq(S) /\ Nodes(<<n>>) = {n}
           /\ << >> \in Seq(S) /\ Nodes(<< >>) = {}
<1>1. Len(<<n>>) = 1 /\ <<n>>[1] = n /\ Len(<< >>) = 0
  OBVIOUS
<1>2. <<n>> \in Seq(S) /\ << >> \in Seq(S)
  OBVIOUS
<1>3. Nodes(<<n>>) = {n} /\ Nodes(<< >>) = {}
  BY <1>1 DEF Nodes
<1> QED
  BY <1>2, <1>3

LEMMA BranchNodes ==
    ASSUME NEW c
    PROVE  LET nodes == {Wide(c), Team(c), Ranked(c), Named(c)}
           IN  /\ AccessBranch(c) \in Seq(nodes)
               /\ Nodes(AccessBranch(c)) =
                      {Wide(c), Named(c)}
                      \union (IF DepartmentsOf[c] = {} THEN {} ELSE {Team(c)})
                      \union (IF LevelOf[c] = None THEN {} ELSE {Ranked(c)})
<1> DEFINE nodes == {Wide(c), Team(c), Ranked(c), Named(c)}
           wide == <<Wide(c)>>
           team == IF DepartmentsOf[c] = {} THEN << >> ELSE <<Team(c)>>
           ranked == IF LevelOf[c] = None THEN << >> ELSE <<Ranked(c)>>
           named == <<Named(c)>>
<1>1. {Wide(c), Team(c), Ranked(c), Named(c)} \subseteq nodes
  OBVIOUS
<1> HIDE DEF nodes
<1>2. /\ wide \in Seq(nodes) /\ Nodes(wide) = {Wide(c)}
      /\ named \in Seq(nodes) /\ Nodes(named) = {Named(c)}
  BY <1>1, NodesOfOne
<1>3. team \in Seq(nodes) /\ Nodes(team) = IF DepartmentsOf[c] = {} THEN {} ELSE {Team(c)}
  BY <1>1, NodesOfOne
<1>4. ranked \in Seq(nodes) /\ Nodes(ranked) = IF LevelOf[c] = None THEN {} ELSE {Ranked(c)}
  BY <1>1, NodesOfOne
<1>5. AccessBranch(c) = wide \o team \o ranked \o named
  BY DEF AccessBranch
<1> HIDE DEF wide, team, ranked, named
<1>6. wide \o team \in Seq(nodes) /\ Nodes(wide \o team) = Nodes(wide) \union Nodes(team)
  BY <1>2, <1>3, NodesOfConcat
<1> DEFINE first == wide \o team
<1>7. /\ first \o ranked \in Seq(nodes)
      /\ Nodes(first \o ranked) = Nodes(first) \union Nodes(ranked)
  <2> HIDE DEF first
  <2>1. first \in Seq(nodes)
    BY <1>6 DEF first
  <2> QED
    BY <1>4, <2>1, NodesOfConcat
<1> DEFINE second == first \o ranked
<1>8. second \o named \in Seq(nodes) /\ Nodes(second \o named) = Nodes(second) \union Nodes(named)
  <2> HIDE DEF second
  <2>1. second \in Seq(nodes)
    BY <1>7 DEF second
  <2> QED
    BY <1>2, <2>1, NodesOfConcat
<1>9. AccessBranch(c) \in Seq(nodes)
  BY <1>5, <1>8
<1>10. Nodes(AccessBranch(c)) = Nodes(wide) \union Nodes(team) \union Nodes(ranked) \union Nodes(named)
  BY <1>5, <1>6, <1>7, <1>8
<1> HIDE DEF first, second
<1>11. Nodes(AccessBranch(c)) =
          {Wide(c), Named(c)}
          \union (IF DepartmentsOf[c] = {} THEN {} ELSE {Team(c)})
          \union (IF LevelOf[c] = None THEN {} ELSE {Ranked(c)})
  BY <1>2, <1>3, <1>4, <1>10
<1> QED
  BY <1>9, <1>11 DEF nodes

-----------------------------------------------------------------------------
(***************************************************************************)
(* The ranks, and what the filter of a client comes to.                    *)
(***************************************************************************)

\* No level has two places in the order.
LEMMA OrderIsOneToOne ==
    ASSUME NEW i \in 1..10, NEW j \in 1..10, Ranks!LevelOrder[i] = Ranks!LevelOrder[j]
    PROVE  i = j
  BY SMTT(60) DEF Ranks!LevelOrder

\* The rank of a level is its place, and no other name has a rank.
LEMMA RankIsPlace ==
    ASSUME NEW l
    PROVE  /\ \A i \in 1..10 : l = Ranks!LevelOrder[i] => Ranks!level_rank_of(l) = i
           /\ (\A i \in 1..10 : l # Ranks!LevelOrder[i]) => Ranks!level_rank_of(l) = None
<1>1. ASSUME NEW i \in 1..10, l = Ranks!LevelOrder[i] PROVE Ranks!level_rank_of(l) = i
  <2>1. Ranks!LevelOrder[i] \in Ranks!Level
    BY DEF Ranks!Level
  <2>2. (CHOOSE j \in 1..10 : Ranks!LevelOrder[j] = Ranks!LevelOrder[i]) = i
    BY OrderIsOneToOne
  <2> QED
    BY <1>1, <2>1, <2>2 DEF Ranks!level_rank_of, Ranks!LEVEL_RANK
<1>2. ASSUME \A i \in 1..10 : l # Ranks!LevelOrder[i] PROVE Ranks!level_rank_of(l) = None
  BY <1>2 DEF Ranks!level_rank_of, Ranks!Level
<1> QED
  BY <1>1, <1>2

\* min_level_rank is the lowest rank of the levels that have one.
LEMMA LowestRank ==
    ASSUME NEW levels
    PROVE  LET ranks == {i \in 1..10 : Ranks!LevelOrder[i] \in levels}
               low == Ranks!min_level_rank(levels)
           IN  IF ranks = {} THEN low = None
               ELSE low \in ranks /\ \A i \in ranks : low <= i
<1> DEFINE ranks == {i \in 1..10 : Ranks!LevelOrder[i] \in levels}
           named == {Ranks!level_rank_of(l) : l \in levels} \ {None}
<1>1. ASSUME NEW i \in ranks PROVE i \in named
  <2>1. i \in 1..10 /\ Ranks!LevelOrder[i] \in levels /\ i # None
    BY SearchAssumption
  <2>2. Ranks!level_rank_of(Ranks!LevelOrder[i]) = i
    BY <2>1, RankIsPlace
  <2> QED
    BY <2>1, <2>2
<1>2. ASSUME NEW r \in named PROVE r \in ranks
  <2>1. PICK l \in levels : r = Ranks!level_rank_of(l)
    OBVIOUS
  <2>2. PICK i \in 1..10 : l = Ranks!LevelOrder[i]
    BY <2>1, RankIsPlace
  <2> QED
    BY <2>1, <2>2, RankIsPlace
<1>3. named = ranks
  BY <1>1, <1>2
<1>4. Ranks!min_level_rank(levels) = IF named = {} THEN None ELSE Min(named)
  BY DEF Ranks!min_level_rank, Ranks!Min, Min
<1>5. ranks \in SUBSET Nat
  OBVIOUS
<1> HIDE DEF named
<1>6. ranks # {} => Min(ranks) \in ranks /\ \A i \in ranks : Min(ranks) <= i
  BY <1>5, LeastOfNats
<1> QED
  BY <1>3, <1>4, <1>6

\* Comparing the ranks is what MaySee says of the levels.
LEMMA RanksDecide ==
    ASSUME NEW levels, NEW level
    PROVE  LET low == Ranks!min_level_rank(levels)
               rank == Ranks!level_rank_of(level)
           IN  (low # None /\ rank # None /\ low <= rank)
               <=> \E i, j \in DOMAIN Ranks!LevelOrder :
                      i <= j /\ Ranks!LevelOrder[i] \in levels /\ Ranks!LevelOrder[j] = level
<1> DEFINE low == Ranks!min_level_rank(levels)
           rank == Ranks!level_rank_of(level)
<1>1. DOMAIN Ranks!LevelOrder = 1..10
  BY DEF Ranks!LevelOrder
<1>2. ASSUME low # None, rank # None, low <= rank
      PROVE  \E i, j \in 1..10 :
                i <= j /\ Ranks!LevelOrder[i] \in levels /\ Ranks!LevelOrder[j] = level
  <2>1. low \in 1..10 /\ Ranks!LevelOrder[low] \in levels
    BY <1>2, LowestRank
  <2>2. PICK j \in 1..10 : level = Ranks!LevelOrder[j]
    BY <1>2, RankIsPlace
  <2>3. rank = j
    BY <2>2, RankIsPlace
  <2> QED
    BY <1>2, <2>1, <2>2, <2>3
<1>3. ASSUME NEW i \in 1..10, NEW j \in 1..10,
             i <= j, Ranks!LevelOrder[i] \in levels, Ranks!LevelOrder[j] = level
      PROVE  low # None /\ rank # None /\ low <= rank
  <2>1. low \in 1..10 /\ low <= i
    BY <1>3, LowestRank
  <2>2. rank = j
    BY <1>3, RankIsPlace
  <2>3. low # None /\ rank # None
    BY <2>1, <2>2, SearchAssumption
  <2> HIDE DEF low, rank
  <2> QED
    BY <1>3, <2>1, <2>2, <2>3
<1> HIDE DEF low, rank
<1>4. (low # None /\ rank # None /\ low <= rank)
      <=> \E i, j \in 1..10 :
             i <= j /\ Ranks!LevelOrder[i] \in levels /\ Ranks!LevelOrder[j] = level
  BY <1>2, <1>3
<1> QED
  BY <1>1, <1>4 DEF low, rank

\* What each node under the $or comes to.
LEMMA BranchOutcomes ==
    ASSUME NEW c \in Clients, NEW m \in Metadata
    PROVE  LET enough == \E i, j \in DOMAIN Ranks!LevelOrder :
                            i <= j /\ Ranks!LevelOrder[i] \in m.allowed_levels
                                   /\ Ranks!LevelOrder[j] = LevelOf[c]
           IN  /\ EvalInner(Wide(c), m) = Truth(m.access_level = "COMPANY_WIDE")
               /\ EvalInner(Team(c), m) =
                      Truth(m.access_level = "DEPARTMENT"
                                /\ m.allowed_departments \cap DepartmentsOf[c] # {})
               /\ LevelOf[c] # None =>
                      EvalInner(Ranked(c), m) = Truth(m.access_level = "LEVEL" /\ enough)
               /\ LevelOf[c] = None => ~enough
               /\ EvalInner(Named(c), m) =
                      Truth(m.access_level = "EXECUTIVE" /\ c \in m.allowed_user_ids)
<1> DEFINE rank == Ranks!LEVEL_RANK[LevelOf[c]]
           low == m.min_level_rank
           enough == \E i, j \in DOMAIN Ranks!LevelOrder :
                        i <= j /\ Ranks!LevelOrder[i] \in m.allowed_levels
                               /\ Ranks!LevelOrder[j] = LevelOf[c]
<1>1. /\ {"access_level", "min_level_rank", "allowed_departments", "allowed_user_ids"}
             \subseteq DOMAIN m
      /\ m.access_level = "LEVEL" => low = Ranks!min_level_rank(m.allowed_levels)
      /\ m.allowed_departments # None /\ m.allowed_user_ids # None
      /\ {"allowed_departments", "allowed_user_ids"} \subseteq ListFields
  BY SearchAssumption
<1>2. \A v : Test("access_level", "$eq", v, m) = Truth(m.access_level = v)
  BY <1>1 DEF Test, EvalCondition, Condition, Get
<1>3. /\ Test("allowed_departments", "$in", DepartmentsOf[c], m) =
             Truth(m.allowed_departments \cap DepartmentsOf[c] # {})
      /\ Test("allowed_user_ids", "$in", {c}, m) = Truth(m.allowed_user_ids \cap {c} # {})
  BY <1>1 DEF Test, EvalCondition, Condition, Get, Within
<1>4. LevelOf[c] # None =>
         /\ rank = Ranks!level_rank_of(LevelOf[c])
         /\ rank # None
         /\ Test("min_level_rank", "$lte", rank, m) = Truth(low # None /\ low <= rank)
  <2> SUFFICES ASSUME LevelOf[c] # None
               PROVE  /\ rank = Ranks!level_rank_of(LevelOf[c])
                      /\ rank # None
                      /\ Test("min_level_rank", "$lte", rank, m) = Truth(low # None /\ low <= rank)
    OBVIOUS
  <2>1. LevelOf[c] \in Ranks!Level
    BY SearchAssumption
  <2>2. rank = Ranks!level_rank_of(LevelOf[c])
    BY <2>1 DEF Ranks!level_rank_of
  <2>3. PICK i \in 1..10 : LevelOf[c] = Ranks!LevelOrder[i]
    BY <2>1 DEF Ranks!Level
  <2>4. rank = i
    BY <2>2, <2>3, RankIsPlace
  <2>5. rank # None
    BY <2>4, SearchAssumption
  <2> HIDE DEF rank
  <2>6. Test("min_level_rank", "$lte", rank, m) = Truth(low # None /\ low <= rank)
    BY <1>1, <2>5 DEF Test, EvalCondition, Condition, Get, Compare, Truth
  <2> QED
    BY <2>2, <2>5, <2>6
<1>5. /\ LevelOf[c] # None /\ m.access_level = "LEVEL" => (low # None /\ low <= rank <=> enough)
      /\ LevelOf[c] = None => ~enough
  <2>1. ASSUME LevelOf[c] # None, m.access_level = "LEVEL"
        PROVE  low # None /\ low <= rank <=> enough
    BY <1>1, <1>4, <2>1, RanksDecide
  <2>2. ASSUME LevelOf[c] = None PROVE ~enough
    <3>1. Ranks!level_rank_of(None) = None
      BY SearchAssumption DEF Ranks!level_rank_of
    <3> QED
      BY <2>2, <3>1, RanksDecide
  <2> QED
    BY <2>1, <2>2
<1>6. m.allowed_user_ids \cap {c} # {} <=> c \in m.allowed_user_ids
  OBVIOUS
<1> HIDE DEF rank, low, enough
<1>7. /\ \A b \in BOOLEAN : Truth(b) \in YesNo /\ (Truth(b) = "yes" <=> b)
      /\ \A v : Test("access_level", "$eq", v, m) \in YesNo
      /\ Test("allowed_departments", "$in", DepartmentsOf[c], m) \in YesNo
      /\ Test("allowed_user_ids", "$in", {c}, m) \in YesNo
      /\ LevelOf[c] # None => Test("min_level_rank", "$lte", rank, m) \in YesNo
  BY <1>2, <1>3, <1>4 DEF Truth, YesNo
<1>8. EvalInner(Wide(c), m) = Truth(m.access_level = "COMPANY_WIDE")
  BY <1>2, NodeOfField DEF Wide
<1>9. EvalInner(Team(c), m) =
         Truth(m.access_level = "DEPARTMENT" /\ m.allowed_departments \cap DepartmentsOf[c] # {})
  BY <1>2, <1>3, <1>7, BothFields DEF Team, Truth
<1>10. LevelOf[c] # None =>
          EvalInner(Ranked(c), m) = Truth(m.access_level = "LEVEL" /\ enough)
  <2> SUFFICES ASSUME LevelOf[c] # None
               PROVE  EvalInner(Ranked(c), m) = Truth(m.access_level = "LEVEL" /\ enough)
    OBVIOUS
  <2>1. EvalInner(Ranked(c), m) =
           Truth(Test("access_level", "$eq", "LEVEL", m) = "yes"
                     /\ Test("min_level_rank", "$lte", rank, m) = "yes")
    BY <1>7, BothFields DEF Ranked, rank
  <2> QED
    BY <1>2, <1>4, <1>5, <2>1 DEF Truth
<1>11. EvalInner(Named(c), m) = Truth(m.access_level = "EXECUTIVE" /\ c \in m.allowed_user_ids)
  BY <1>2, <1>3, <1>6, <1>7, BothFields DEF Named, Truth
<1> QED
  BY <1>5, <1>8, <1>9, <1>10, <1>11 DEF enough

\* Together they are the rule about who may see what.
LEMMA BranchIsMaySee ==
    ASSUME NEW c \in Clients, NEW m \in Metadata
    PROVE  EvalMiddle(<<AnyOf(AccessBranch(c))>>, m) = Truth(MaySee(c, m))
<1> DEFINE b == AccessBranch(c)
           nodes == {Wide(c), Team(c), Ranked(c), Named(c)}
           enough == \E i, j \in DOMAIN Ranks!LevelOrder :
                        i <= j /\ Ranks!LevelOrder[i] \in m.allowed_levels
                               /\ Ranks!LevelOrder[j] = LevelOf[c]
           wide == m.access_level = "COMPANY_WIDE"
           team == m.access_level = "DEPARTMENT"
                       /\ m.allowed_departments \cap DepartmentsOf[c] # {}
           ranked == m.access_level = "LEVEL" /\ enough
           named == m.access_level = "EXECUTIVE" /\ c \in m.allowed_user_ids
<1>1. /\ EvalInner(Wide(c), m) = Truth(wide)
      /\ EvalInner(Team(c), m) = Truth(team)
      /\ LevelOf[c] # None => EvalInner(Ranked(c), m) = Truth(ranked)
      /\ LevelOf[c] = None => ~ranked
      /\ EvalInner(Named(c), m) = Truth(named)
  BY BranchOutcomes
<1>2. DepartmentsOf[c] = {} => ~team
  OBVIOUS
<1>3. MaySee(c, m) <=> wide \/ team \/ ranked \/ named
  BY DEF MaySee
<1>4. /\ b \in Seq(nodes)
      /\ Nodes(b) = {Wide(c), Named(c)}
                    \union (IF DepartmentsOf[c] = {} THEN {} ELSE {Team(c)})
                    \union (IF LevelOf[c] = None THEN {} ELSE {Ranked(c)})
  BY BranchNodes
<1> HIDE DEF b, nodes, enough, wide, team, ranked, named
<1>5. \A n \in Nodes(b) : EvalInner(n, m) \in YesNo
  BY <1>1, <1>4 DEF Truth, YesNo
<1>6. (\E n \in Nodes(b) : EvalInner(n, m) = "yes") <=> MaySee(c, m)
  BY <1>1, <1>2, <1>3, <1>4 DEF Truth
<1>7. /\ \A i \in 1..Len(b) : EvalInner(b[i], m) \in YesNo
      /\ (\E i \in 1..Len(b) : EvalInner(b[i], m) = "yes") <=> MaySee(c, m)
  BY <1>5, <1>6 DEF Nodes
<1>8. EvalMiddle(<<AnyOf(b)>>, m) = Truth(\E i \in 1..Len(b) : EvalInner(b[i], m) = "yes")
  BY <1>4, <1>7, AnyOfNodes
<1> QED
  BY <1>7, <1>8 DEF b, Truth

\* The filter never raises, and says yes to what is live, not archived, of the
\* version asked for, and open to the client.
LEMMA FilterIsMaySee ==
    ASSUME NEW c \in Clients, NEW m \in Metadata
    PROVE  Passes(FilterOf[c], m) = Truth(~m.archived /\ Searchable(c, m) /\ MaySee(c, m))
<1> DEFINE live == Only("index_state", "$eq", "live")
           kept == Only("archived", "$eq", FALSE)
           open == <<AnyOf(AccessBranch(c))>>
           asked == IF VersionAsked[c] = None THEN Only("is_current", "$eq", TRUE)
                    ELSE Only("version", "$eq", VersionAsked[c])
           b == <<live, kept, open, asked>>
<1>1. /\ {"index_state", "is_current", "version"} \subseteq DOMAIN m
      /\ m.is_current \in BOOLEAN
      /\ Passes(FilterOf[c], m) = EvalNode(SearchFilter(c), m)
  BY SearchAssumption
<1>2. "archived" \in DOMAIN m /\ m.archived \in BOOLEAN
  BY VectorAssumption
<1>3. ASSUME NEW v
      PROVE  /\ EvalMiddle(Only("index_state", "$eq", v), m) = Truth(m.index_state = v)
             /\ EvalMiddle(Only("archived", "$eq", v), m) = Truth(m.archived = v)
             /\ EvalMiddle(Only("is_current", "$eq", v), m) = Truth(m.is_current = v)
             /\ EvalMiddle(Only("version", "$eq", v), m) = Truth(m.version = v)
  <2>1. /\ Test("index_state", "$eq", v, m) = Truth(m.index_state = v)
        /\ Test("archived", "$eq", v, m) = Truth(m.archived = v)
        /\ Test("is_current", "$eq", v, m) = Truth(m.is_current = v)
        /\ Test("version", "$eq", v, m) = Truth(m.version = v)
    BY <1>1, <1>2 DEF Test, EvalCondition, Condition, Get
  <2> QED
    BY <2>1, NodeOfField
<1>4. /\ EvalMiddle(live, m) = Truth(m.index_state = "live")
      /\ EvalMiddle(kept, m) = Truth(~m.archived)
      /\ EvalMiddle(open, m) = Truth(MaySee(c, m))
      /\ EvalMiddle(asked, m) = Truth(IF VersionAsked[c] = None THEN m.is_current
                                      ELSE m.version = VersionAsked[c])
  <2>1. EvalMiddle(live, m) = Truth(m.index_state = "live")
    BY <1>3
  <2>2. EvalMiddle(kept, m) = Truth(m.archived = FALSE)
    BY <1>3, Zenon
  <2>3. EvalMiddle(open, m) = Truth(MaySee(c, m))
    BY BranchIsMaySee
  <2>4. CASE VersionAsked[c] = None
    <3>1. EvalMiddle(Only("is_current", "$eq", TRUE), m) = Truth(m.is_current = TRUE)
      BY <1>3, Zenon
    <3> QED
      BY <1>1, <1>2, <2>1, <2>2, <2>3, <2>4, <3>1 DEF Truth
  <2>5. CASE VersionAsked[c] # None
    <3>1. EvalMiddle(asked, m) = Truth(m.version = VersionAsked[c])
      BY <1>3, <2>5
    <3> QED
      BY <1>1, <1>2, <2>1, <2>2, <2>3, <2>5, <3>1 DEF Truth
  <2> QED
    BY <2>4, <2>5
<1>5. SearchFilter(c) = <<AllOf(b)>>
  BY DEF SearchFilter
<1> HIDE DEF live, kept, open, asked
<1>6. Len(b) = 4 /\ b[1] = live /\ b[2] = kept /\ b[3] = open /\ b[4] = asked
  OBVIOUS
<1>7. b \in Seq({live, kept, open, asked})
  OBVIOUS
<1> HIDE DEF b
<1>8. \A i \in 1..Len(b) : EvalMiddle(b[i], m) \in YesNo
  BY <1>4, <1>6 DEF Truth, YesNo
<1>9. EvalNode(<<AllOf(b)>>, m) = Truth(\A i \in 1..Len(b) : EvalMiddle(b[i], m) = "yes")
  BY <1>7, <1>8, AllOfNodes
<1>10. (\A i \in 1..Len(b) : EvalMiddle(b[i], m) = "yes")
          <=> EvalMiddle(b[1], m) = "yes" /\ EvalMiddle(b[2], m) = "yes"
                  /\ EvalMiddle(b[3], m) = "yes" /\ EvalMiddle(b[4], m) = "yes"
  BY <1>6
<1>11. (\A i \in 1..Len(b) : EvalMiddle(b[i], m) = "yes")
          <=> ~m.archived /\ Searchable(c, m) /\ MaySee(c, m)
  BY <1>4, <1>6, <1>10 DEF Truth, Searchable
<1> QED
  BY <1>1, <1>5, <1>9, <1>11 DEF Truth

-----------------------------------------------------------------------------
(***************************************************************************)
(* What the clients of a search are answered.                              *)
(***************************************************************************)

\* A query is answered with the best of what the client may see.
LEMMA QueryServes ==
    ASSUME IInv, NEW c \in Clients, NEW k \in Limits, Query(c, k)
    PROVE  LET t == TenantOf[c]
               visible == {i \in Stored(t) \ hidden[t] :
                              Searchable(c, index[t][i]) /\ MaySee(c, index[t][i])}
           IN  /\ last' = [by |-> c, ended |-> "answered", limit |-> k]
               /\ Best(visible, k, DOMAIN answer'[c])
               /\ \A i \in DOMAIN answer'[c] : answer'[c][i] = index[t][i]
<1> DEFINE t == TenantOf[c]
           visible == {i \in Stored(t) \ hidden[t] :
                          Searchable(c, index[t][i]) /\ MaySee(c, index[t][i])}
           passing == {i \in Stored(t) : Outcome(c, i) = "yes"}
<1>1. t \in Tenants
  BY VectorAssumption
<1>2. ASSUME NEW i \in Stored(t)
      PROVE  /\ Outcome(c, i) # "raise"
             /\ Outcome(c, i) = "yes" <=>
                    i \notin hidden[t] /\ Searchable(c, index[t][i]) /\ MaySee(c, index[t][i])
  <2>1. index[t][i] \in Metadata
    BY <1>1 DEF IInv, TypeOK, Stored
  <2>2. i \in hidden[t] <=> index[t][i].archived
    BY <1>1 DEF IInv, ArchivedStaysArchived, Stored
  <2> QED
    BY <2>1, <2>2, FilterIsMaySee DEF Outcome, Truth
<1>3. passing = visible
  BY <1>2
<1>4. PICK top \in SUBSET passing :
         /\ Best(passing, k, top)
         /\ answer' = [answer EXCEPT ![c] = [i \in top |-> index[t][i]]]
         /\ last' = [by |-> c, ended |-> "answered", limit |-> k]
  BY <1>2 DEF Query
<1>5. answer'[c] = [i \in top |-> index[t][i]]
  BY <1>4 DEF IInv, TypeOK
<1> QED
  BY <1>3, <1>4, <1>5

\* Whoever asks gets the best of what he may see of his tenant's index, live, of
\* the version asked for and not archived, as many as he asked for: the ranks
\* written next to the vectors and the filter evaluated on them are together the
\* rule about departments, levels and users, and no search raises.
THEOREM SearchServes == Spec => ServedExactly
<1> DEFINE Served == last'.ended \in {"answered", "raised"} =>
          LET c == last'.by
              t == TenantOf[c]
              visible == {i \in Stored(t) \ hidden[t] :
                             Searchable(c, index[t][i]) /\ MaySee(c, index[t][i])}
          IN  /\ last'.ended = "answered"
              /\ Best(visible, last'.limit, DOMAIN answer'[c])
              /\ \A i \in DOMAIN answer'[c] : answer'[c][i] = index[t][i]
<1>1. ASSUME IInv, [Next]_vars PROVE Served \/ UNCHANGED vars
  <2> SUFFICES ASSUME Next, last'.ended \in {"answered", "raised"} PROVE Served
    BY <1>1
  <2>1. \E c \in Clients, k \in Limits : Query(c, k)
    <3>1. ASSUME NEW c \in Clients, NEW batch \in Batches, Upsert(c, batch)
          PROVE  Ends("upserted") \/ Ends("refused")
      BY <3>1 DEF Upsert
    <3>2. ASSUME NEW c \in Clients, NEW ids \in SUBSET Ids, Delete(c, ids)
          PROVE  Ends("deleted")
      BY <3>2 DEF Delete
    <3>3. ASSUME NEW c \in Clients, NEW i \in Ids, NEW metadata \in Writable(c, i),
                 UpdateMetadata(c, i, metadata)
          PROVE  Ends("refused") \/ Ends("updated")
      BY <3>3 DEF UpdateMetadata
    <3>4. ~(Ends("upserted") \/ Ends("refused") \/ Ends("deleted") \/ Ends("updated"))
      BY DEF Ends
    <3> QED
      BY <3>1, <3>2, <3>3, <3>4 DEF Next
  <2>2. PICK c \in Clients, k \in Limits : Query(c, k)
    BY <2>1
  <2>3. last'.by = c /\ last'.ended = "answered" /\ last'.limit = k
    <3>1. last' = [by |-> c, ended |-> "answered", limit |-> k]
      BY <1>1, <2>2, QueryServes, ZenonT(30)
    <3> QED
      BY <3>1
  <2> QED
    BY <1>1, <2>2, <2>3, QueryServes
<1> QED
  BY <1>1, VectorInvariant, PTL DEF Spec, ServedExactly
=============================================================================
