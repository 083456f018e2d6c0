-------------------------- MODULE MCDBConnectionPool --------------------------
(* DBConnectionPool with two or three workers, as many connections, and     *)
(* three jobs.                                                              *)
EXTENDS DBConnectionPool

=============================================================================
