----------------------------- MODULE PacketFraming -----------------------------
(***************************************************************************)
(* How the server cuts the byte stream of a client into packets: the       *)
(* RecvBuffer of ServerCore, PacketSession::OnRecv and Session::ProcessRecv *)
(* around them.  A packet says in its header how long it is.  TCP may cut  *)
(* the stream anywhere, so a receive can end inside a header or a body.    *)
(*                                                                         *)
(* A byte is the pair of its packet's number and its place in the packet;  *)
(* the size in the header is read at a packet's first byte.  One Receive   *)
(* is the completion of one WSARecv and all that ProcessRecv does with it. *)
(* The kernel never completes with more bytes than the buffer it was given *)
(* has free, which is what OnWrite checks again.                           *)
(*                                                                         *)
(* Init, Next and the like carry the module's name, so that the module can *)
(* be extended beside SessionSend, the other direction of a session.       *)
(***************************************************************************)
EXTENDS Naturals, Sequences, SequencesExt

CONSTANTS HeaderSize,     \* sizeof(PacketHeader): 4
          MaxPacketSize,  \* PacketSession::MAX_PACKET_SIZE: 0x4000
          bufferSize,     \* Session::BUFFER_SIZE: 0x10000
          BufferCount,    \* RecvBuffer::BUFFER_COUNT: 10
          Kinds,          \* packets the client may send
          MaxPackets      \* bound: how many it sends

ASSUME FramingAssumption ==
  /\ HeaderSize \in Nat \ {0} /\ BufferCount \in Nat /\ bufferSize \in Nat
  /\ MaxPacketSize \in Nat /\ HeaderSize <= MaxPacketSize
  /\ MaxPacketSize <= bufferSize /\ 2 <= BufferCount
  /\ Kinds \subseteq [size: Nat, throws: BOOLEAN] /\ MaxPackets \in Nat

VARIABLES sent,     \* the packets the client sent: the size their header states,
                    \* and whether their handler throws
          incoming, \* the bytes not received yet
          rb,       \* _recvBuffer
          handled,  \* what OnRecvPacket was called with, in order
          reason    \* why the connection was closed, "open" before

framingVars == <<sent, incoming, rb, handled, reason>>

Byte == [packet: 1..MaxPackets, offset: Nat]
capacity == bufferSize * BufferCount

(* The bytes of a packet: at least its header is sent.                     *)
Packet(k, size) ==
  [j \in 1..(IF size < HeaderSize THEN HeaderSize ELSE size) |-> [packet |-> k, offset |-> j]]

-----------------------------------------------------------------------------
(* RecvBuffer.  Places that were never written hold no byte of the stream. *)
NoByte == [packet |-> 0, offset |-> 0]
Empty == [bytes |-> [i \in 1..capacity |-> NoByte], readPos |-> 0, writePos |-> 0]

DataSize(b) == b.writePos - b.readPos
FreeSize(b) == capacity - b.writePos
ReadSpan(b) == SubSeq(b.bytes, b.readPos + 1, b.writePos)

OnWrite(b, chunk) ==
  [b EXCEPT !.bytes = [i \in 1..capacity |-> IF i \in (b.writePos + 1)..(b.writePos + Len(chunk))
                                               THEN chunk[i - b.writePos] ELSE @[i]],
            !.writePos = @ + Len(chunk)]

OnRead(b, n) == [b EXCEPT !.readPos = @ + n]

(* Mutant of Clean: it moves nothing to the front.                         *)
CleanOnlyEmpty(b) ==
  IF DataSize(b) = 0 THEN [b EXCEPT !.readPos = 0, !.writePos = 0] ELSE b

(* Mutant of Clean: the data is moved, the write position is not.          *)
CleanKeepsWritePos(b) ==
  CASE DataSize(b) = 0 -> [b EXCEPT !.readPos = 0, !.writePos = 0]
    [] DataSize(b) > 0 /\ FreeSize(b) < bufferSize ->
         [b EXCEPT !.bytes = [i \in 1..capacity |->
                                IF i \in 1..DataSize(b) THEN b.bytes[b.readPos + i] ELSE @[i]],
                   !.readPos = 0]
    [] OTHER -> b

(* Clean: start again when nothing is left, and move what is left to the   *)
(* front when there is no room behind it for another receive.              *)
Clean(b) ==
  CASE DataSize(b) = 0 -> [b EXCEPT !.readPos = 0, !.writePos = 0]
    [] DataSize(b) > 0 /\ FreeSize(b) < bufferSize ->
         [bytes |-> [i \in 1..capacity |->
                       IF i \in 1..DataSize(b) THEN b.bytes[b.readPos + i] ELSE b.bytes[i]],
          readPos |-> 0, writePos |-> DataSize(b)]
    [] OTHER -> b

-----------------------------------------------------------------------------
(* header.size at a position of the buffer; the protocol id is no size.    *)
Stated(byte) == IF byte.offset = 1 THEN sent[byte.packet].size ELSE 0

Throws(byte) == sent[byte.packet].throws

(* OnRecv at a position: what it does with the bytes from there on.        *)
Verdict(bytes, pos) ==
  LET rest == Len(bytes) - pos
      size == Stated(bytes[pos + 1])
  IN  CASE rest < HeaderSize -> "incomplete"
        [] rest >= HeaderSize /\ size < HeaderSize -> "underflow"
        [] rest >= HeaderSize /\ size > MaxPacketSize -> "overflow"
        [] rest >= HeaderSize /\ size \in HeaderSize..MaxPacketSize /\ rest < size -> "incomplete"
        [] OTHER -> IF Throws(bytes[pos + 1]) THEN "exception" ELSE "packet"

(* Mutant of OnRecv: when it disconnects it takes the packets it has seen  *)
(* for all it was given.                                                   *)
OnRecvGoesOn(bytes) ==
  LET from[pos \in 0..Len(bytes)] ==
        CASE Verdict(bytes, pos) = "packet" ->
               LET end == pos + Stated(bytes[pos + 1])
               IN  [from[end] EXCEPT !.packets = <<SubSeq(bytes, pos + 1, end)>> \o @]
          [] Verdict(bytes, pos) = "exception" -> from[pos + Stated(bytes[pos + 1])]
          [] Verdict(bytes, pos) = "incomplete" ->
               [packets |-> <<>>, read |-> pos, reason |-> "open"]
          [] OTHER -> [packets |-> <<>>, read |-> Len(bytes), reason |-> Verdict(bytes, pos)]
  IN  from[0]

(* OnRecv: the packets it hands to the handlers, how many bytes it says it *)
(* has processed, and why it disconnected, if it did.                      *)
OnRecv(bytes) ==
  LET from[pos \in 0..Len(bytes)] ==
        CASE Verdict(bytes, pos) = "packet" ->
               LET end == pos + Stated(bytes[pos + 1])
               IN  [from[end] EXCEPT !.packets = <<SubSeq(bytes, pos + 1, end)>> \o @]
          [] Verdict(bytes, pos) = "incomplete" ->
               [packets |-> <<>>, read |-> pos, reason |-> "open"]
          [] OTHER -> [packets |-> <<>>, read |-> Len(bytes), reason |-> Verdict(bytes, pos)]
  IN  from[0]

-----------------------------------------------------------------------------
FramingInit ==
  /\ sent = <<>> /\ incoming = <<>>
  /\ rb = Empty
  /\ handled = <<>>
  /\ reason = "open"

(* The client sends a packet.                                              *)
SendPacket(kind) ==
  /\ Len(sent) < MaxPackets
  /\ sent' = Append(sent, kind)
  /\ incoming' = incoming \o Packet(Len(sent) + 1, kind.size)
  /\ UNCHANGED <<rb, handled, reason>>

(* ProcessRecv with n bytes, and RegisterRecv at its end: a disconnected   *)
(* session posts no receive.                                               *)
Receive(n) ==
  /\ reason = "open"
  /\ n \in 1..Len(incoming) /\ n <= FreeSize(rb)
  /\ LET written == OnWrite(rb, SubSeq(incoming, 1, n))
         result == OnRecv(ReadSpan(written))
     IN  /\ handled' = handled \o result.packets
         /\ reason' = result.reason
         /\ rb' = Clean(OnRead(written, result.read))
  /\ incoming' = SubSeq(incoming, n + 1, Len(incoming))
  /\ UNCHANGED sent

(* ProcessRecv with 0 bytes: the client is gone.                           *)
ReceiveNothing ==
  /\ reason = "open"
  /\ reason' = "recv 0"
  /\ UNCHANGED <<sent, incoming, rb, handled>>

Receives == \E n \in 1..capacity : Receive(n)

FramingNext == (\E kind \in Kinds : SendPacket(kind)) \/ Receives \/ ReceiveNothing

FramingSpec == FramingInit /\ [][FramingNext]_framingVars

(* What was sent arrives, and the I/O workers run.                         *)
FairFramingSpec == FramingSpec /\ WF_framingVars(Receives)

-----------------------------------------------------------------------------
FramingTypeOK ==
  /\ sent \in Seq(Kinds) /\ Len(sent) <= MaxPackets
  /\ incoming \in Seq(Byte)
  /\ rb.bytes \in [1..capacity -> Byte \cup {NoByte}]
  /\ rb.writePos \in 0..capacity /\ rb.readPos \in 0..rb.writePos
  /\ handled \in Seq(Seq(Byte))
  /\ reason \in {"open", "recv 0", "underflow", "overflow", "exception"}

Stream == FlattenSeq([i \in DOMAIN sent |-> Packet(i, sent[i].size)])

(* However the stream is cut, each call of OnRecvPacket gets one whole     *)
(* packet, in order, and handled packets, unread bytes and bytes to come   *)
(* are together the stream: nothing is lost, doubled or mixed up by the    *)
(* moves of the receive buffer.                                            *)
FramesIntact ==
  /\ FramingTypeOK
  /\ \A i \in DOMAIN handled : handled[i] = Packet(i, sent[i].size)
  /\ reason = "open" => FlattenSeq(handled) \o ReadSpan(rb) \o incoming = Stream

(* Whenever a receive is posted the buffer has room for bufferSize bytes:  *)
(* it is never asked to receive into nothing (which would look like the    *)
(* client's leaving), and every packet it may state fits.                  *)
RoomToReceive == reason = "open" => FreeSize(rb) >= bufferSize

Abstract == INSTANCE PacketStream
  WITH Good <- {k \in Kinds : k.size \in HeaderSize..MaxPacketSize /\ ~k.throws},
       handled <- Len(handled), open <- (reason = "open")

(* The server handles the client's packets as PacketStream says: in order, *)
(* none left out, none behind the first that is not acceptable, and every  *)
(* packet before that one sooner or later: a whole packet does not wait in *)
(* the buffer for more bytes to come.                                      *)
ImplementsPacketStream == Abstract!FairSpec
=============================================================================
