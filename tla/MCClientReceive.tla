---------------------------- MODULE MCClientReceive ----------------------------
(* ClientReceive with headers of 2 bytes and packets of up to 3. *)
EXTENDS ClientReceive

=============================================================================
