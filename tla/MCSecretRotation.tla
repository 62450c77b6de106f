-------------------------- MODULE MCSecretRotation ---------------------------
(***************************************************************************)
(* An instance of SecretRotation for TLC: servers are alike, and so are    *)
(* callers.                                                                *)
(***************************************************************************)
EXTENDS SecretRotation, TLC

Symmetry == Permutations(Servers) \union Permutations(Callers)
=============================================================================
