------------------------------- MODULE MCLogger -------------------------------
(* Logger with two producers and a queue of two.                           *)
EXTENDS Logger

(* Bound: the last of MaxCalls calls comes in a process that does not      *)
(* crash.  No fair action leads outside, so that liveness is not affected. *)
Few == panic = "none" \/ records + flushes < MaxCalls

=============================================================================
