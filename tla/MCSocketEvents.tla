---------------------------- MODULE MCSocketEvents ----------------------------
(* The instance of SocketEvents that TLC checks. *)
EXTENDS SocketEvents, TLC

Symmetry == Permutations(Sockets)
=============================================================================
