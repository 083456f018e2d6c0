--------------------------- MODULE MCPacketFraming ---------------------------
(* PacketFraming with headers of 2 bytes, packets of up to 4 and a buffer   *)
(* that has to move its data: sizes on both sides of both limits, and a     *)
(* packet whose handler throws.                                             *)
EXTENDS PacketFraming

MCKinds ==
  {[size |-> n, throws |-> FALSE] : n \in 1..5} \cup {[size |-> 3, throws |-> TRUE]}

=============================================================================
