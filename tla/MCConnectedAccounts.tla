-------------------------- MODULE MCConnectedAccounts --------------------------
(* The instances of ConnectedAccounts that TLC checks. *)
EXTENDS ConnectedAccounts, TLC
=============================================================================
