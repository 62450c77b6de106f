------------------------------ MODULE VectorSearch -----------------------------
(***************************************************************************)
(* The vector index, its filter and the ranks of levels at work together:  *)
(* at indexing time the lowest rank of the allowed levels is written next  *)
(* to a vector, at query time the filter compares it with the rank of the  *)
(* caller's level.  The indexing worker and the query pipeline do not      *)
(* exist yet and are external: what the one writes is taken from docs/04   *)
(* section 1.3, and the filter of the other is build_pinecone_filter of    *)
(* docs/07 section 3.1.  A client stands for the user it asks for.         *)
(***************************************************************************)
EXTENDS VectorIndex, MetadataFilter

CONSTANTS
    LevelOf,        \* the level of each client, or None
    DepartmentsOf,  \* the departments of each client
    VersionAsked    \* the version that each client asks for, or None

Ranks == INSTANCE AccessRanks WITH NoRank <- None

\* The fields of a vector's metadata that say who may see it.
Access(access_level, levels, departments, users) ==
    [access_level |-> access_level, allowed_levels |-> levels,
     min_level_rank |-> IF access_level = "LEVEL" THEN Ranks!min_level_rank(levels) ELSE None,
     allowed_departments |-> departments, allowed_user_ids |-> users]

-----------------------------------------------------------------------------
(***************************************************************************)
(* The filter that a client asks with.                                     *)
(***************************************************************************)
Only(field, op, operand) == <<Field(field, <<Condition(op, operand)>>)>>
Both(first, second) == <<AllOf(<<first, second>>)>>

Wide(c) == Only("access_level", "$eq", "COMPANY_WIDE")
Team(c) == Both(Only("access_level", "$eq", "DEPARTMENT"),
                Only("allowed_departments", "$in", DepartmentsOf[c]))
Ranked(c) == Both(Only("access_level", "$eq", "LEVEL"),
                  Only("min_level_rank", "$lte", Ranks!LEVEL_RANK[LevelOf[c]]))
Named(c) == Both(Only("access_level", "$eq", "EXECUTIVE"),
                 Only("allowed_user_ids", "$in", {c}))

\* access_branch: nothing is asked about departments or a level that are not there.
AccessBranch(c) ==
    <<Wide(c)>>
        \o (IF DepartmentsOf[c] = {} THEN << >> ELSE <<Team(c)>>)
        \o (IF LevelOf[c] = None THEN << >> ELSE <<Ranked(c)>>)
        \o <<Named(c)>>

\* build_pinecone_filter
SearchFilter(c) ==
    <<AllOf(<<Only("index_state", "$eq", "live"),
              Only("archived", "$eq", FALSE),
              <<AnyOf(AccessBranch(c))>>,
              IF VersionAsked[c] = None THEN Only("is_current", "$eq", TRUE)
              ELSE Only("version", "$eq", VersionAsked[c])>>)>>

-----------------------------------------------------------------------------
\* Who may see a vector, said without ranks and filters: a client of a known
\* level sees what is open to that level or a lower one.
MaySee(c, m) ==
    \/ m.access_level = "COMPANY_WIDE"
    \/ m.access_level = "DEPARTMENT" /\ m.allowed_departments \cap DepartmentsOf[c] # {}
    \/ /\ m.access_level = "LEVEL"
       /\ \E low, high \in DOMAIN Ranks!LevelOrder :
             low <= high /\ Ranks!LevelOrder[low] \in m.allowed_levels /\ Ranks!LevelOrder[high] = LevelOf[c]
    \/ m.access_level = "EXECUTIVE" /\ c \in m.allowed_user_ids

\* What a search of the client is about: the version asked for, or the current one.
Searchable(c, m) ==
    /\ m.index_state = "live"
    /\ IF VersionAsked[c] = None THEN m.is_current ELSE m.version = VersionAsked[c]

\* The filter asked with is SearchFilter, evaluated by eval_filter; what is
\* written next to a vector has the fields it asks about, lists being never
\* null, and the rank of its levels, known or not, by min_level_rank.
ASSUME SearchAssumption ==
    /\ None \notin Nat \union Ranks!Level
    /\ LevelOf \in [Clients -> Ranks!Level \union {None}]
    /\ {"allowed_departments", "allowed_user_ids"} \subseteq ListFields
    /\ \A c \in Clients : FilterOf[c] = SearchFilter(c)
    /\ \A c \in Clients, m \in Metadata : Passes(FilterOf[c], m) = EvalNode(FilterOf[c], m)
    /\ \A m \in Metadata :
          /\ {"index_state", "is_current", "version", "access_level", "allowed_levels",
              "min_level_rank", "allowed_departments", "allowed_user_ids"} \subseteq DOMAIN m
          /\ m.is_current \in BOOLEAN
          /\ m.access_level = "LEVEL" => m.min_level_rank = Ranks!min_level_rank(m.allowed_levels)
          /\ None \notin {m.allowed_departments, m.allowed_user_ids}

\* No search raises, and each is answered with the top_k best, or all if there
\* are fewer, of the live vectors of its tenant and version that are not
\* archived and that its client may see, as they are stored, whatever was
\* written before: a client without level or departments, a vector with unknown
\* levels or none, a vector that was archived, outdated or opened in between.
ServedExactly ==
    [][last'.ended \in {"answered", "raised"} =>
          LET c == last'.by
              t == TenantOf[c]
              visible == {i \in Stored(t) \ hidden[t] :
                             Searchable(c, index[t][i]) /\ MaySee(c, index[t][i])}
          IN  /\ last'.ended = "answered"
              /\ Best(visible, last'.limit, DOMAIN answer'[c])
              /\ \A i \in DOMAIN answer'[c] : answer'[c][i] = index[t][i]]_vars
=============================================================================
