---------------------------- MODULE MCPlayerStore ----------------------------
(* PlayerStore with two sessions of one character and two DB workers. *)
EXTENDS PlayerStore

=============================================================================
