------------------------------- MODULE MCLogin -------------------------------
(* Login with three requests for an account and two sessions. *)
EXTENDS Login, TLC

Symmetry == Permutations(Requests) \cup Permutations(LoginSessions)

=============================================================================
