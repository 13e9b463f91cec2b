----------------------------- MODULE MCFileStorage -----------------------------
(* The instance of FileStorage that TLC checks. *)
EXTENDS FileStorage, TLC

Symmetry == Permutations(Calls)
=============================================================================
