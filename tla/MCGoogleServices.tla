--------------------------- MODULE MCGoogleServices ---------------------------
(* The instance of GoogleServices that TLC checks. *)
EXTENDS GoogleServices, TLC

Symmetry == Permutations(Calls) \cup Permutations(Accounts) \cup Permutations(People)
=============================================================================
