----------------------------- MODULE ClientReceive -----------------------------
(***************************************************************************)
(* FNetworkWorker::Run of the Unreal client: each Recv fills the buffer    *)
(* from its start, the packets in it are handed to the game thread, and    *)
(* what is left at the end of the buffer is not kept.  Bytes and packets   *)
(* are those of PacketFraming.  After a cut the loop reads its sizes from  *)
(* whatever bytes come next, so a size that is not at the start of a       *)
(* packet is any of Junk.                                                  *)
(***************************************************************************)
EXTENDS Naturals, Sequences

CONSTANTS HeaderSize,  \* sizeof(PacketHeader)
          BufferSize,  \* RecvBuffer.Num(): 4096
          Sizes,       \* sizes of the server's packets
          Junk,        \* sizes the bytes of a body may look like
          MaxPackets   \* bound: packets the server sends

VARIABLES sent,    \* the sizes of the packets the server sent
          wire,    \* the bytes not received yet
          handled  \* the packets dispatched to the game thread

vars == <<sent, wire, handled>>

Packet(k, size) == [j \in 1..size |-> [packet |-> k, offset |-> j]]

Init == sent = <<>> /\ wire = <<>> /\ handled = <<>>

(* The server's Session::Send, as the stream of its packets.               *)
Send(size) ==
  /\ Len(sent) < MaxPackets
  /\ sent' = Append(sent, size)
  /\ wire' = wire \o Packet(Len(sent) + 1, size)
  /\ UNCHANGED handled

(* Header->size at a byte.                                                 *)
Stated(byte, junk) == IF byte.offset = 1 THEN sent[byte.packet] ELSE junk

(* The parsing loop over the bytes of one Recv: the packets it dispatches. *)
Parsed(bytes, junk) ==
  LET from[pos \in 0..Len(bytes)] ==
        LET rest == Len(bytes) - pos
            end == pos + Stated(bytes[pos + 1], junk)
        IN  IF rest < HeaderSize \/ Len(bytes) < end
              THEN <<>>
              ELSE <<SubSeq(bytes, pos + 1, end)>> \o from[end]
  IN  from[0]

(* One Recv of n bytes.  ReadBytes - ProcessedBytes bytes are forgotten.   *)
Receive(n, junk) ==
  /\ n \in 1..Len(wire) /\ n <= BufferSize
  /\ handled' = handled \o Parsed(SubSeq(wire, 1, n), junk)
  /\ wire' = SubSeq(wire, n + 1, Len(wire))
  /\ UNCHANGED sent

Next ==
  \/ \E size \in Sizes : Send(size)
  \/ \E n \in 1..BufferSize, junk \in Junk : Receive(n, junk)

Spec == Init /\ [][Next]_vars

-----------------------------------------------------------------------------
(* The client dispatches the server's packets whole, in order and without  *)
(* leaving one out: NetworkWorker.cpp:54 and 58 take a header or a body    *)
(* that is not complete for one that has not arrived yet.                  *)
ClientFramesIntact == \A i \in DOMAIN handled : handled[i] = Packet(i, sent[i])
=============================================================================
