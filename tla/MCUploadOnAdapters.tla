------------------------- MODULE MCUploadOnAdapters --------------------------
(***************************************************************************)
(* An instance of UploadOnAdapters for TLC.                                *)
(***************************************************************************)
EXTENDS UploadOnAdapters, UploadInputs, TLC

RequestSymmetry == Permutations(Requests)
=============================================================================
