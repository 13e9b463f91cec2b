------------------------------ MODULE MCUtilities ------------------------------
(* The instance of Utilities that TLC checks. *)
EXTENDS Utilities
=============================================================================
