----------------------------- MODULE MCVectorIndex -----------------------------
(***************************************************************************)
(* Instance of VectorSearch for TLC: one tenant with a vector of an older  *)
(* version and one of a newer; a caller of a middle level in a department  *)
(* that is named on the board's documents, and a caller without level and  *)
(* departments who asks for the older version; another tenant's id in some *)
(* of what they write.                                                     *)
(***************************************************************************)
EXTENDS VectorSearch, TLC
CONSTANTS a, b, x, y, boss, guest

MCTenantOf == boss :> a @@ guest :> a
MCScore == x :> 2 @@ y :> 1
MCFilterOf == [c \in Clients |-> SearchFilter(c)]
MCLevelOf == boss :> "DAERI" @@ guest :> None
MCDepartmentsOf == boss :> {"eng"} @@ guest :> {}
MCVersionAsked == boss :> None @@ guest :> "1.0"

ForAll == Access("COMPANY_WIDE", {}, {}, {})
ForJuniors == Access("LEVEL", {"SAWON", "GWAJANG"}, {}, {})
ForSeniors == Access("LEVEL", {"GWAJANG", "INTERN"}, {}, {})
ForNobody == Access("LEVEL", {"INTERN"}, {}, {})
ForTeam == Access("DEPARTMENT", {}, {"eng", "law"}, {})
ForBoard == Access("EXECUTIVE", {}, {}, {boss})
Accesses == {ForAll, ForJuniors, ForSeniors, ForNobody, ForTeam, ForBoard}

Vector(t, version, state, is_current, archived, access) ==
    ("tenant_id" :> t @@ "version" :> version @@ "index_state" :> state
     @@ "is_current" :> is_current @@ "archived" :> archived) @@ access
MCMetadata == {Vector(t, v, s, f, g, r) : t \in Tenants, v \in {"1.0", "2.0"},
                  s \in {"staging", "live"}, f \in BOOLEAN, g \in BOOLEAN, r \in Accesses}

Older(state, access) == Vector(a, "1.0", state, TRUE, FALSE, access)
Newer(t) == Vector(t, "2.0", "live", TRUE, FALSE, ForAll)
MCBatches == {x :> Older("live", r) : r \in Accesses}
             \union {x :> Older("staging", ForAll) @@ y :> Newer(t) : t \in Tenants}
MCPatches == {"tenant_id" :> a @@ "archived" :> FALSE, "tenant_id" :> a @@ "archived" :> TRUE,
              "tenant_id" :> b @@ "archived" :> TRUE, "tenant_id" :> a @@ "is_current" :> FALSE,
              "tenant_id" :> a @@ ForSeniors}
=============================================================================
