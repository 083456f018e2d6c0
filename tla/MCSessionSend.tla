---------------------------- MODULE MCSessionSend ----------------------------
(* SessionSend on two or three threads. *)
EXTENDS SessionSend, TLC

Symmetry == Permutations(Threads) \cup Permutations(Messages)

=============================================================================
