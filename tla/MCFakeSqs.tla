------------------------------ MODULE MCFakeSqs ------------------------------
(***************************************************************************)
(* An instance of FakeSqs for TLC.                                         *)
(***************************************************************************)
EXTENDS FakeSqs, TLC

Symmetry == Permutations(Messages) \union Permutations(Consumers)
=============================================================================
