------------------------------ MODULE MCFakeS3 -------------------------------
(***************************************************************************)
(* An instance of FakeS3 for TLC: two clients of one tenant, one of        *)
(* another.                                                                *)
(***************************************************************************)
EXTENDS FakeS3

MCClients == {"a1", "a2", "b1"}
MCTenantOf == [c \in MCClients |-> IF c = "b1" THEN "b" ELSE "a"]
MCTenantPrefix == [k \in {"jobA", "fileA", "failedA", "fileB"} |->
                      IF k = "fileB" THEN "b" ELSE "a"]
=============================================================================
