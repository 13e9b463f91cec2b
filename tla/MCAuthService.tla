----------------------------- MODULE MCAuthService -----------------------------
(* The instances of AuthService that TLC checks. *)
EXTENDS AuthService, TLC

(* Slots, addresses, user names and passwords are interchangeable. *)
Symmetry == Permutations(Calls) \cup Permutations(Emails) \cup Permutations(UserNames)
            \cup Permutations(Passwords)

(* Local time that is never changed, and a change of the clock that takes so  *)
(* much of the days counted at time 0 that the document of a token expires    *)
(* while its JWT is still good.                                               *)
SteadyClock(t) == 0
ChangingClock(t) == IF t = 0 THEN -2 ELSE 0
=============================================================================
