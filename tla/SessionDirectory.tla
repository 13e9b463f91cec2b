--------------------------- MODULE SessionDirectory ---------------------------
(***************************************************************************)
(* What the session handlers promise, without calls, tokens or database:   *)
(* accounts are only ever added; a session is opened for one account that  *)
(* exists, and everything handed out for it later is for that account.     *)
(***************************************************************************)

VARIABLES
  accounts,   \* the ids of the accounts
  holdings    \* [session, user]: who holds which session

vars == <<accounts, holdings>>

Init == accounts = {} /\ holdings = {}

Enrol ==
  /\ \E u \in accounts' : accounts' = accounts \cup {u}
  /\ UNCHANGED holdings

(* A session is opened: no account held it. *)
Open ==
  /\ \E h \in holdings' :
       /\ h.user \in accounts
       /\ \A g \in holdings : g.session # h.session
       /\ holdings' = holdings \cup {h}
  /\ UNCHANGED accounts

Next == Enrol \/ Open

Spec == Init /\ [][Next]_vars

-----------------------------------------------------------------------------
(* Each session is held by one account, and by one that exists. *)
OneHolder ==
  /\ \A h \in holdings : h.user \in accounts
  /\ \A g, h \in holdings : g.session = h.session => g = h
=============================================================================
