--------------------------- MODULE MCGuardedRequests ---------------------------
(* The instances of GuardedRequests that TLC checks. *)
EXTENDS GuardedRequests, TLC

Symmetry == Permutations(Calls) \cup Permutations(Accounts) \cup Permutations(Emails)

(* A website that comes without a picture. *)
OneBody == {{"firstName", "phoneNumber", "website"}}
(* Fields of both documents, and a website with its picture. *)
TwoBodies == {{"firstName", "location"}, {"profilePicture", "website"}}
=============================================================================
