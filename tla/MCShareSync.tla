----------------------------- MODULE MCShareSync -----------------------------
(* Small instances of ShareSync.  The files are alike, and so are the      *)
(* triggers.                                                               *)
EXTENDS ShareSync, TLC

Symmetry == Permutations(Files) \cup Permutations(Triggers)
=============================================================================
