-------------------------- MODULE MCSessionLifecycle --------------------------
(* SessionLifecycle with one accept event, two workers and memory for two   *)
(* sessions.  The unit of time is a little more than the time-out: silent   *)
(* for 0 units is active, for 1 or 2 is expired.                            *)
EXTENDS SessionLifecycle

=============================================================================
