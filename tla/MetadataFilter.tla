---------------------------- MODULE MetadataFilter -----------------------------
(***************************************************************************)
(* eval_filter of tests/fakes/_filter.py: whether the metadata of a vector *)
(* passes a filter in the Pinecone query language.  A filter is a sequence *)
(* of entries, as its dict lists them; an entry is a list of clauses under *)
(* $and or $or, or a field with a sequence of conditions (a bare value     *)
(* stands for $eq).  Python stops at the first entry that decides, and     *)
(* raises TypeError where it compares a number with None.                  *)
(***************************************************************************)
EXTENDS Integers, Sequences, FiniteSetsExt

CONSTANTS
    None,           \* Python's None: the value of a missing field
    ListFields      \* fields whose values are lists (here: sets)

AllOf(clauses) == [op |-> "$and", clauses |-> clauses]
AnyOf(clauses) == [op |-> "$or", clauses |-> clauses]
Field(field, conditions) == [op |-> "field", field |-> field, conditions |-> conditions]
Condition(op, operand) == [op |-> op, operand |-> operand]

\* metadata.get(field)
Get(metadata, field) == IF field \in DOMAIN metadata THEN metadata[field] ELSE None

-----------------------------------------------------------------------------
Truth(b) == IF b THEN "yes" ELSE "no"

\* Python's all and any: the first outcome that is not the neutral one decides.
FirstOther(outcomes, neutral) ==
    LET deciding == {i \in DOMAIN outcomes : outcomes[i] # neutral}
    IN  IF deciding = {} THEN neutral ELSE outcomes[Min(deciding)]

\* The value is in the operand; of a list, one of its items is.
Within(field, value, operand) ==
    IF field \in ListFields /\ value # None
    THEN Truth(value \cap operand # {})
    ELSE Truth(value \in operand)

\* A missing value compares with nothing; a number with None raises.
Compare(value, operand, holds) ==
    IF value = None THEN "no"
    ELSE IF operand = None THEN "raise"
    ELSE Truth(holds)

EvalCondition(field, condition, value) ==
    LET operand == condition.operand
    IN  CASE condition.op = "$eq"  -> Truth(value = operand)
          [] condition.op = "$ne"  -> Truth(value # operand)
          [] condition.op = "$in"  -> Within(field, value, operand)
          [] condition.op = "$nin" -> Truth(Within(field, value, operand) = "no")
          [] condition.op = "$lt"  -> Compare(value, operand, value < operand)
          [] condition.op = "$lte" -> Compare(value, operand, value <= operand)
          [] condition.op = "$gt"  -> Compare(value, operand, value > operand)
          [] condition.op = "$gte" -> Compare(value, operand, value >= operand)
          [] OTHER -> "no"

EvalField(entry, metadata) ==
    LET value == Get(metadata, entry.field)
    IN  FirstOther([i \in DOMAIN entry.conditions |->
                       EvalCondition(entry.field, entry.conditions[i], value)], "yes")

-----------------------------------------------------------------------------
\* The entries of a node in order, the clauses under $and and $or by Clause.
EvalEntries(node, metadata, Clause(_, _)) ==
    FirstOther([i \in DOMAIN node |->
        CASE node[i].op = "$and" ->
                FirstOther([j \in DOMAIN node[i].clauses |->
                               Clause(node[i].clauses[j], metadata)], "yes")
          [] node[i].op = "$or" ->
                FirstOther([j \in DOMAIN node[i].clauses |->
                               Clause(node[i].clauses[j], metadata)], "no")
          [] OTHER -> EvalField(node[i], metadata)], "yes")

\* _eval_node calls itself for a clause.  The bound here is the nesting: a node
\* under which there are at most three levels of $and and $or.
EvalFields(node, metadata) ==
    FirstOther([i \in DOMAIN node |-> EvalField(node[i], metadata)], "yes")
EvalInner(node, metadata) == EvalEntries(node, metadata, EvalFields)
EvalMiddle(node, metadata) == EvalEntries(node, metadata, EvalInner)
EvalNode(node, metadata) == EvalEntries(node, metadata, EvalMiddle)
=============================================================================
