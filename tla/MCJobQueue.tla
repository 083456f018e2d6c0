------------------------------ MODULE MCJobQueue ------------------------------
(* JobQueue on three threads and three jobs: an executor, a thread whose    *)
(* push is half finished and one that comes to push.  No symmetry, for the  *)
(* sake of the liveness property.                                           *)
EXTENDS JobQueue

=============================================================================
