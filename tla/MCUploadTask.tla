----------------------------- MODULE MCUploadTask -----------------------------
(* UploadTask on small instances; the transfers are interchangeable. *)
EXTENDS UploadTask, TLC

Symmetry == Permutations(Workers)
=============================================================================
