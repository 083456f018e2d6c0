-------------------------- MODULE SessionStreamProofs --------------------------
(***************************************************************************)
(* The two directions of a session, for any number of threads, messages,   *)
(* packets and receives: SessionSend first, PacketFraming after it.        *)
(*                                                                         *)
(* Sending.  SendIsExclusive is inductive together with the types: a       *)
(* thread comes to use the event by turning the flag from false to true,   *)
(* when nobody uses it and no send is in flight, or by taking the          *)
(* completion of the one send in flight, when no thread uses it.  With one *)
(* user, what is on the wire, what the event holds for a send to come and  *)
(* what is queued are one flow of buffers.  Send appends to it, a failed   *)
(* WSASend cuts the event's batch out of it, and every other step only     *)
(* moves the marks between its three parts.                                *)
(*                                                                         *)
(* Receiving.  FramingInv says where the session is in the stream: the     *)
(* handled packets, the unread bytes of the buffer and the bytes to come   *)
(* are the stream that was sent.  OnRecv is a recursive function of the    *)
(* position: OnRecvFrames, that it cuts out the next packets of the stream *)
(* and no others, is proved from the last position to the first, by the    *)
(* greatest position at which it would fail.  That such a greatest element *)
(* exists, and that the recursive definitions have a solution at all, is   *)
(* proved in the first lemmas on receiving.                                *)
(***************************************************************************)
EXTENDS SessionSend, PacketFraming, FiniteSetTheorems, SequenceTheorems, TLAPS

Inv == TypeOK /\ SendIsExclusive

(* A push keeps the type of the queue.                                     *)
LEMMA QueueTypes ==
  ASSUME queue \in Seq(Q!Entry), NEW t \in Threads
  PROVE  /\ \A m \in Messages : Q!Enter(t, m) => queue' \in Seq(Q!Entry)
         /\ Q!Finish(t) => queue' \in Seq(Q!Entry)
         /\ Q!Take => queue' \in Seq(Q!Entry) /\ Head(queue).item \in Messages
<1>1. ASSUME NEW m \in Messages, Q!Enter(t, m) PROVE queue' \in Seq(Q!Entry)
  <2>1. [item |-> m, by |-> t] \in Q!Entry
    BY DEF Q!Entry
  <2> QED
    BY <1>1, <2>1 DEF Q!Enter
<1>2. ASSUME Q!Finish(t) PROVE queue' \in Seq(Q!Entry)
  <2>1. ASSUME NEW e \in Q!Entry PROVE [e EXCEPT !.by = Nobody] \in Q!Entry
    BY DEF Q!Entry
  <2>2. DOMAIN queue = 1..Len(queue) /\ Len(queue) \in Nat
    OBVIOUS
  <2>3. queue' \in [1..Len(queue) -> Q!Entry]
    BY <1>2, <2>1, <2>2 DEF Q!Finish
  <2> QED
    BY <2>2, <2>3
<1>3. ASSUME Q!Take PROVE queue' \in Seq(Q!Entry) /\ Head(queue).item \in Messages
  <2>1. queue # <<>> /\ queue' = Tail(queue)
    BY <1>3 DEF Q!Take, Q!Poppable
  <2>2. Tail(queue) \in Seq(Q!Entry) /\ Head(queue) \in Q!Entry
    BY <2>1
  <2> QED
    BY <2>1, <2>2 DEF Q!Entry
<1> QED
  BY <1>1, <1>2, <1>3

LEMMA EmptySequences == <<>> \in Seq(Messages) /\ <<>> \in Seq(Q!Entry)
  OBVIOUS

LEMMA InitInv == Init => Inv
<1> SUFFICES ASSUME Init PROVE Inv
  OBVIOUS
<1>1. TypeOK
  <2>1. pc \in [Threads -> Places] /\ issued \in [Threads -> Seq(Messages)]
    BY EmptySequences DEF Init, Places
  <2>2. queue \in Seq(Q!Entry) /\ buffers \in Seq(Messages) /\ wire \in Seq(Messages)
    BY EmptySequences DEF Init
  <2>3. /\ connected \in BOOLEAN /\ registered \in BOOLEAN
        /\ owned \in BOOLEAN /\ crashed \in BOOLEAN /\ ignored \in BOOLEAN
    BY Zenon DEF Init
  <2>4. inflight \in 0..1 /\ dropped \subseteq Messages
    BY DEF Init
  <2> QED
    BY <2>1, <2>2, <2>3, <2>4 DEF TypeOK
<1>2. inflight = 0 /\ ~ignored /\ \A t \in Threads : ~Using(t)
  BY DEF Init, Using
<1> QED
  BY <1>1, <1>2 DEF Inv, SendIsExclusive

-----------------------------------------------------------------------------
(* The steps of Send: the exchange is the one that can give the event to a *)
(* thread.                                                                 *)
LEMMA SendInv ==
  ASSUME Inv, NEW t \in Threads, NEW m \in Messages, Send(t, m)
  PROVE  Inv'
<1>1. queue' \in Seq(Q!Entry)
  BY QueueTypes DEF Inv, TypeOK, Send
<1>2. issued' \in [Threads -> Seq(Messages)]
  <2>1. issued[t] \in Seq(Messages)
    BY DEF Inv, TypeOK
  <2>2. Append(issued[t], m) \in Seq(Messages)
    BY <2>1
  <2> QED
    BY <2>2 DEF Inv, TypeOK, Send
<1>3. TypeOK'
  BY <1>1, <1>2 DEF Inv, TypeOK, Places, Send, Goto, event
<1>4. SendIsExclusive'
  BY DEF Inv, TypeOK, Places, SendIsExclusive, Using, Send, Goto, event
<1> QED
  BY <1>3, <1>4 DEF Inv

LEMMA PushInv ==
  ASSUME Inv, NEW t \in Threads, FinishPush(t) \/ ExchangeRegistered(t)
  PROVE  Inv'
<1>1. ASSUME FinishPush(t) PROVE Inv'
  <2>1. queue' \in Seq(Q!Entry)
    BY <1>1, QueueTypes DEF Inv, TypeOK, FinishPush
  <2>2. TypeOK'
    BY <1>1, <2>1 DEF Inv, TypeOK, Places, FinishPush, Goto, event, history
  <2>3. SendIsExclusive'
    BY <1>1 DEF Inv, TypeOK, Places, SendIsExclusive, Using, FinishPush, Goto, event, history
  <2> QED
    BY <2>2, <2>3 DEF Inv
<1>2. ASSUME ExchangeRegistered(t) PROVE Inv'
  <2>1. TypeOK'
    BY <1>2 DEF Inv, TypeOK, Places, ExchangeRegistered, Goto, event, history
  <2>2. CASE registered
    BY <1>2, <2>2
       DEF Inv, TypeOK, Places, SendIsExclusive, Using, ExchangeRegistered, Goto, event, history
  <2>3. CASE ~registered
    <3>1. inflight = 0 /\ ~ignored /\ \A u \in Threads : ~Using(u)
      BY <2>3 DEF Inv, TypeOK, SendIsExclusive
    <3>2. inflight' = 0 /\ ~ignored' /\ registered' /\ \A u \in Threads : Using(u)' => u = t
      BY <1>2, <3>1 DEF Inv, TypeOK, Using, ExchangeRegistered, Goto, history
    <3> QED
      BY <2>1, <3>2 DEF Inv, SendIsExclusive
  <2> QED
    BY <2>1, <2>2, <2>3 DEF Inv, SendIsExclusive
<1> QED
  BY <1>1, <1>2

-----------------------------------------------------------------------------
(* The steps of RegisterSend: a thread that uses the event goes on using   *)
(* it, hands it to the posted send, or gives it up.                        *)
LEMMA RegisterInv ==
  ASSUME Inv, NEW t \in Threads,
         \/ TakeEvent(t) \/ DrainDone(t) \/ Unregister(t) \/ Release(t)
         \/ (\E e \in SocketErrors : PostFails(t, e))
         \/ DropEvent(t) \/ UnregisterFailed(t)
  PROVE  Inv'
<1> USE DEF At, Goto, event, history
<1>1. TypeOK'
  <2> USE DEF Inv, TypeOK, Places
  <2>1. ASSUME TakeEvent(t) \/ DrainDone(t) PROVE TypeOK'
    BY <2>1 DEF TakeEvent, DrainDone
  <2>2. ASSUME Unregister(t) \/ Release(t) \/ UnregisterFailed(t) PROVE TypeOK'
    BY <2>2 DEF Unregister, Release, UnregisterFailed
  <2>3. ASSUME NEW e \in SocketErrors, PostFails(t, e) PROVE TypeOK'
    BY <2>3 DEF PostFails
  <2>4. ASSUME DropEvent(t) PROVE TypeOK'
    <3>1. Members(buffers) \subseteq Messages
      BY DEF Members
    <3>2. dropped' \subseteq Messages
      BY <2>4, <3>1 DEF DropEvent
    <3> QED
      BY <2>4, <3>2, EmptySequences DEF DropEvent
  <2> QED
    BY <2>1, <2>2, <2>3, <2>4
<1>2. /\ inflight' = inflight /\ ignored' = ignored
      /\ \A u \in Threads \ {t} : Using(u)' <=> Using(u)
  BY DEF Using, TakeEvent, DrainDone, Unregister, Release, PostFails, DropEvent,
         UnregisterFailed, Inv, TypeOK
<1>3. CASE Unregister(t) \/ UnregisterFailed(t)
  <2>1. Using(t) /\ ~Using(t)'
    BY <1>3 DEF Using, Unregister, UnregisterFailed, Inv, TypeOK
  <2>2. inflight' = 0 /\ ~ignored' /\ \A u \in Threads : ~Using(u)'
    BY <1>2, <2>1 DEF Inv, SendIsExclusive
  <2> QED
    BY <1>1, <2>2 DEF Inv, SendIsExclusive
<1>4. CASE ~(Unregister(t) \/ UnregisterFailed(t))
  <2>1. registered' = registered /\ (Using(t)' => Using(t))
    BY <1>4 DEF Using, TakeEvent, DrainDone, Release, PostFails, DropEvent, Inv, TypeOK
  <2> QED
    BY <1>1, <1>2, <2>1 DEF Inv, SendIsExclusive
<1> QED
  BY <1>3, <1>4

(* One successful Pop into the buffers of the event.                       *)
LEMMA DrainInv ==
  ASSUME Inv, NEW t \in Threads, DrainOne(t)
  PROVE  Inv'
<1>1. queue' \in Seq(Q!Entry) /\ Head(queue).item \in Messages
  BY QueueTypes DEF Inv, TypeOK, DrainOne
<1>2. buffers' \in Seq(Messages)
  BY <1>1 DEF Inv, TypeOK, DrainOne
<1>3. TypeOK'
  BY <1>1, <1>2 DEF Inv, TypeOK, Places, DrainOne, history
<1>4. SendIsExclusive'
  BY DEF Inv, SendIsExclusive, Using, DrainOne, history
<1> QED
  BY <1>3, <1>4 DEF Inv

(* WSASend is accepted: no other send is in flight and no other thread     *)
(* uses the event.                                                         *)
LEMMA PostInv ==
  ASSUME Inv, NEW t \in Threads, Post(t)
  PROVE  Inv'
<1>1. /\ Using(t) /\ inflight = 0 /\ registered /\ ~ignored
      /\ \A u \in Threads : Using(u) => u = t
  BY DEF Inv, SendIsExclusive, Using, Post, At
<1>2. inflight' = 1 /\ registered' /\ ~ignored' /\ \A u \in Threads : ~Using(u)'
  BY <1>1 DEF Inv, TypeOK, Using, Post, Goto
<1>3. wire' \in Seq(Messages)
  BY DEF Inv, TypeOK, Post
<1>4. TypeOK'
  BY <1>2, <1>3 DEF Inv, TypeOK, Places, Post, Goto, event
<1>5. SendIsExclusive'
  BY <1>2, <1>4 DEF SendIsExclusive, TypeOK
<1> QED
  BY <1>4, <1>5 DEF Inv

(* The completion of the send in flight: only this thread goes on, or, if  *)
(* the failure is ignored, nobody does.                                    *)
LEMMA CompleteInv ==
  ASSUME Inv, NEW t \in Threads, NEW ok \in BOOLEAN, NEW bytes \in BOOLEAN, Complete(t, ok, bytes)
  PROVE  Inv'
<1>1. inflight = 1 /\ ~ignored /\ registered /\ \A u \in Threads : ~Using(u)
  BY DEF Inv, TypeOK, SendIsExclusive, Complete, Completion
<1>2. inflight' = 0 /\ registered' /\ \A u \in Threads : Using(u)' => u = t
  BY <1>1 DEF Inv, TypeOK, Using, Complete, Completion, Goto
<1>3. ignored' => \A u \in Threads : ~Using(u)'
  BY <1>1 DEF Using, Complete, Completion
<1>4. TypeOK'
  <2> USE DEF Inv, TypeOK, Places, Complete, Completion, Goto, event, history
  <2>1. pc' \in [Threads -> Places] /\ buffers' \in Seq(Messages)
    BY EmptySequences
  <2>2. /\ connected' \in BOOLEAN /\ owned' \in BOOLEAN
        /\ crashed' \in BOOLEAN /\ ignored' \in BOOLEAN
    OBVIOUS
  <2> QED
    BY <1>2, <2>1, <2>2
<1>5. SendIsExclusive'
  BY <1>2, <1>3 DEF SendIsExclusive
<1> QED
  BY <1>4, <1>5 DEF Inv

-----------------------------------------------------------------------------
LEMMA NextInv == Inv /\ [Next]_vars => Inv'
<1> SUFFICES ASSUME Inv, [Next]_vars PROVE Inv'
  OBVIOUS
<1>1. CASE UNCHANGED vars
  BY <1>1 DEF vars, event, history, Inv, TypeOK, SendIsExclusive, Using
<1>2. ASSUME NEW t \in Threads, NEW m \in Messages, Send(t, m) PROVE Inv'
  BY <1>2, SendInv
<1>3. ASSUME NEW t \in Threads, NEW ok \in BOOLEAN, NEW bytes \in BOOLEAN, Complete(t, ok, bytes)
      PROVE  Inv'
  BY <1>3, CompleteInv
<1>4. ASSUME NEW t \in Threads, Step(t) PROVE Inv'
  BY <1>4, PushInv, RegisterInv, DrainInv, PostInv DEF Step
<1>5. CASE Disconnect
  BY <1>5 DEF Inv, TypeOK, SendIsExclusive, Using, Disconnect, event, history
<1> QED
  BY <1>1, <1>2, <1>3, <1>4, <1>5 DEF Next

LEMMA Invariance == Spec => []Inv
  BY InitInv, NextInv, PTL DEF Spec

(* However senders, completions, failures and disconnections interleave,   *)
(* one thread or one posted send has _sendEvent and the consumer side of   *)
(* the queue; there is never more than one send in flight.                 *)
THEOREM OneUserAlways == Spec => []EventHasOneUser
<1>1. Inv => EventHasOneUser
  BY DEF Inv, EventHasOneUser
<1> QED
  BY <1>1, Invariance, PTL

-----------------------------------------------------------------------------
(* Sequences cut and joined.                                               *)
LEMMA AppendConcat ==
  ASSUME NEW S, NEW s \in Seq(S), NEW t \in Seq(S), NEW e \in S
  PROVE  s \o Append(t, e) = Append(s \o t, e)
<1>1. /\ Append(t, e) \in Seq(S) /\ s \o t \in Seq(S) /\ <<e>> \in Seq(S)
      /\ Append(t, e) = t \o <<e>> /\ Append(s \o t, e) = (s \o t) \o <<e>>
  BY AppendProperties, ConcatProperties, AppendIsConcat
<1> QED
  BY <1>1, ConcatAssociative

LEMMA HeadThenTail ==
  ASSUME NEW S, NEW s \in Seq(S), s # <<>>
  PROVE  /\ Head(s) \in S /\ Tail(s) \in Seq(S) /\ <<Head(s)>> \in Seq(S)
         /\ s = <<Head(s)>> \o Tail(s)
<1>1. /\ Head(s) \in S /\ Tail(s) \in Seq(S) /\ <<Head(s)>> \in Seq(S)
      /\ Len(s) \in Nat \ {0} /\ Len(Tail(s)) = Len(s) - 1
      /\ \A i \in 1..(Len(s) - 1) : Tail(s)[i] = s[i + 1]
  BY HeadTailProperties, EmptySeq
<1> DEFINE u == <<Head(s)>> \o Tail(s)
<1>2. /\ u \in Seq(S) /\ Len(u) = Len(s)
      /\ \A i \in 1..Len(s) : u[i] = IF i <= 1 THEN Head(s) ELSE Tail(s)[i - 1]
  BY <1>1, ConcatProperties
<1>3. ASSUME NEW i \in 1..Len(s) PROVE u[i] = s[i]
  BY <1>1, <1>2, <1>3
<1> HIDE DEF u
<1>4. s = u
  BY <1>2, <1>3, SeqEqual
<1> QED
  BY <1>1, <1>4 DEF u

(* The head of one sequence is moved to the end of the one before it.      *)
LEMMA MoveHead ==
  ASSUME NEW S, NEW s \in Seq(S), NEW t \in Seq(S), t # <<>>
  PROVE  Append(s, Head(t)) \o Tail(t) = s \o t
<1>1. /\ Head(t) \in S /\ Tail(t) \in Seq(S) /\ <<Head(t)>> \in Seq(S)
      /\ t = <<Head(t)>> \o Tail(t)
  BY HeadThenTail
<1>2. Append(s, Head(t)) = s \o <<Head(t)>>
  BY <1>1, AppendIsConcat
<1>3. (s \o <<Head(t)>>) \o Tail(t) = s \o (<<Head(t)>> \o Tail(t))
  BY <1>1, ConcatAssociative
<1> QED
  BY <1>1, <1>2, <1>3, Zenon

-----------------------------------------------------------------------------
(* The buffers on their way, in order: on the wire, in the event until it  *)
(* is posted (a posted send's are on the wire already, and stay in the     *)
(* event when its failure is ignored), in the queue.                       *)
Pending == IF inflight = 0 /\ ~crashed /\ ~ignored THEN buffers ELSE <<>>

QueuedMessages == [i \in DOMAIN queue |-> queue[i].item]

Flow == wire \o (Pending \o QueuedMessages)

Parts ==
  /\ wire \in Seq(Messages) /\ Pending \in Seq(Messages) /\ buffers \in Seq(Messages)
  /\ QueuedMessages \in Seq(Messages)
  /\ queue \in Seq(Q!Entry) /\ Len(queue) \in Nat /\ DOMAIN queue = 1..Len(queue)
  /\ Len(QueuedMessages) = Len(queue)
  /\ \A i \in 1..Len(queue) : QueuedMessages[i] = queue[i].item
  /\ Pending \o QueuedMessages \in Seq(Messages)
  /\ Flow \in Seq(Messages) /\ Len(Flow) \in Nat

LEMMA PartsHold == Inv => Parts
<1> SUFFICES ASSUME Inv PROVE Parts
  OBVIOUS
<1>1. /\ wire \in Seq(Messages) /\ buffers \in Seq(Messages)
      /\ queue \in Seq(Q!Entry) /\ Len(queue) \in Nat /\ DOMAIN queue = 1..Len(queue)
  BY DEF Inv, TypeOK
<1>2. Pending \in Seq(Messages)
  BY <1>1, EmptySequences DEF Pending
<1>3. QueuedMessages = [i \in 1..Len(queue) |-> queue[i].item]
  BY <1>1 DEF QueuedMessages
<1>4. \A i \in 1..Len(queue) : queue[i].item \in Messages
  <2>1. \A i \in 1..Len(queue) : queue[i] \in Q!Entry
    BY <1>1
  <2> QED
    BY <2>1 DEF Q!Entry
<1>5. QueuedMessages \in Seq(Messages) /\ Len(QueuedMessages) = Len(queue)
  BY <1>1, <1>3, <1>4
<1>6. Pending \o QueuedMessages \in Seq(Messages)
  BY <1>2, <1>5, ConcatProperties
<1>7. Flow \in Seq(Messages) /\ Len(Flow) \in Nat
  BY <1>1, <1>6, ConcatProperties DEF Flow
<1> QED
  BY <1>1, <1>2, <1>3, <1>5, <1>6, <1>7 DEF Parts

LEMMA PartsNext == Inv' => Parts'
  BY PartsHold, PTL

(* Send: the buffer is the last on its way.                                *)
LEMMA SendFlow ==
  ASSUME Inv, Inv', NEW t \in Threads, NEW m \in Messages, Send(t, m)
  PROVE  Flow' = Append(Flow, m)
<1> DEFINE e == [item |-> m, by |-> t]
<1>1. Parts /\ Parts'
  BY PartsHold, PartsNext
<1>2. wire' = wire /\ Pending' = Pending /\ queue' = Append(queue, e)
  BY DEF Send, Q!Enter, event, Pending
<1>3. e \in Q!Entry
  BY DEF Q!Entry
<1>4. /\ Len(queue') = Len(queue) + 1 /\ Len(queue) \in Nat
      /\ \A i \in 1..Len(queue) : queue'[i] = queue[i]
      /\ queue'[Len(queue) + 1] = e
  <2> HIDE DEF e
  <2> QED
    BY <1>1, <1>2, <1>3, AppendProperties DEF Parts
<1>5. QueuedMessages' = Append(QueuedMessages, m)
  <2>1. /\ QueuedMessages \in Seq(Messages) /\ QueuedMessages' \in Seq(Messages)
        /\ Len(QueuedMessages) = Len(queue) /\ Len(QueuedMessages') = Len(queue) + 1
    BY <1>1, <1>4 DEF Parts
  <2>2. /\ Append(QueuedMessages, m) \in Seq(Messages)
        /\ Len(Append(QueuedMessages, m)) = Len(queue) + 1
        /\ \A i \in 1..Len(queue) : Append(QueuedMessages, m)[i] = QueuedMessages[i]
        /\ Append(QueuedMessages, m)[Len(queue) + 1] = m
    BY <2>1, AppendProperties
  <2>3. ASSUME NEW i \in 1..(Len(queue) + 1)
        PROVE  QueuedMessages'[i] = Append(QueuedMessages, m)[i]
    <3>1. QueuedMessages'[i] = queue'[i].item
      BY <1>1, <1>4 DEF Parts
    <3>2. CASE i = Len(queue) + 1
      BY <1>4, <2>2, <3>1, <3>2
    <3>3. CASE i # Len(queue) + 1
      <4>1. i \in 1..Len(queue)
        BY <1>4, <3>3
      <4> QED
        BY <1>1, <1>4, <2>2, <3>1, <4>1 DEF Parts
    <3> QED
      BY <3>2, <3>3
  <2> QED
    BY <2>1, <2>2, <2>3, SeqEqual
<1>6. Pending \o Append(QueuedMessages, m) = Append(Pending \o QueuedMessages, m)
  <2>1. Pending \in Seq(Messages) /\ QueuedMessages \in Seq(Messages)
    BY <1>1 DEF Parts
  <2> QED
    BY <2>1, AppendConcat
<1>7. wire \o Append(Pending \o QueuedMessages, m) = Append(Flow, m)
  <2>1. wire \in Seq(Messages) /\ Pending \o QueuedMessages \in Seq(Messages)
    BY <1>1 DEF Parts
  <2> QED
    BY <2>1, AppendConcat DEF Flow
<1> QED
  BY <1>2, <1>5, <1>6, <1>7 DEF Flow

(* RegisterSend, one Pop: the first queued buffer becomes the last of the  *)
(* event's, and no send is in flight.                                      *)
LEMMA DrainFlow ==
  ASSUME Inv, Inv', NEW t \in Threads, DrainOne(t)
  PROVE  Flow' = Flow
<1> DEFINE d == Head(queue).item
<1>1. Parts /\ Parts'
  BY PartsHold, PartsNext
<1>2. /\ queue # <<>> /\ queue' = Tail(queue) /\ queue \in Seq(Q!Entry)
      /\ buffers' = Append(buffers, d)
      /\ wire' = wire /\ inflight = 0 /\ inflight' = 0 /\ ~crashed /\ ~crashed'
      /\ ~ignored /\ ~ignored'
  BY DEF DrainOne, Q!Take, Q!Poppable, At, Using, Inv, TypeOK, SendIsExclusive, history
<1>3. Pending = buffers /\ Pending' = Append(buffers, d)
  BY <1>2 DEF Pending
<1>4. /\ d = queue[1].item /\ Len(queue) \in Nat \ {0} /\ Len(queue') = Len(queue) - 1
      /\ \A i \in 1..(Len(queue) - 1) : queue'[i] = queue[i + 1]
  <2>1. Head(queue) = queue[1]
    BY <1>2
  <2>2. /\ Len(queue') = Len(queue) - 1
        /\ \A i \in 1..Len(queue') : queue'[i] = queue[i + 1]
    BY <1>2, HeadTailProperties
  <2>3. Len(queue) \in Nat \ {0}
    BY <1>2, EmptySeq
  <2> QED
    BY <2>1, <2>2, <2>3
<1>5. /\ QueuedMessages \in Seq(Messages) /\ QueuedMessages' \in Seq(Messages)
      /\ QueuedMessages # <<>>
      /\ Len(QueuedMessages) = Len(queue) /\ Len(QueuedMessages') = Len(queue) - 1
  <2>1. /\ QueuedMessages \in Seq(Messages) /\ QueuedMessages' \in Seq(Messages)
        /\ Len(QueuedMessages) = Len(queue) /\ Len(QueuedMessages') = Len(queue')
    BY <1>1 DEF Parts
  <2> QED
    BY <1>4, <2>1
<1>6. Head(QueuedMessages) = d
  <2>1. Head(QueuedMessages) = QueuedMessages[1] /\ 1 \in 1..Len(queue)
    BY <1>4, <1>5
  <2> QED
    BY <1>1, <1>4, <2>1 DEF Parts
<1>7. QueuedMessages' = Tail(QueuedMessages)
  <2>1. /\ Tail(QueuedMessages) \in Seq(Messages) /\ Len(Tail(QueuedMessages)) = Len(queue) - 1
        /\ \A i \in 1..Len(Tail(QueuedMessages)) : Tail(QueuedMessages)[i] = QueuedMessages[i + 1]
    BY <1>5, HeadTailProperties
  <2>2. ASSUME NEW i \in 1..(Len(queue) - 1) PROVE QueuedMessages'[i] = Tail(QueuedMessages)[i]
    <3>1. i \in 1..Len(queue') /\ i + 1 \in 1..Len(queue) /\ i \in 1..Len(Tail(QueuedMessages))
      BY <1>4, <2>1
    <3>2. QueuedMessages'[i] = queue'[i].item
      BY <1>1, <3>1 DEF Parts
    <3>3. QueuedMessages[i + 1] = queue[i + 1].item
      BY <1>1, <3>1 DEF Parts
    <3> QED
      BY <1>4, <2>1, <3>1, <3>2, <3>3
  <2> QED
    BY <1>5, <2>1, <2>2, SeqEqual
<1>8. Append(buffers, Head(QueuedMessages)) \o Tail(QueuedMessages) = buffers \o QueuedMessages
  <2>1. buffers \in Seq(Messages)
    BY <1>1 DEF Parts
  <2> QED
    BY <1>5, <2>1, MoveHead
<1> QED
  BY <1>2, <1>3, <1>6, <1>7, <1>8 DEF Flow

(* WSASend is accepted: what the event holds goes to the wire.             *)
LEMMA PostFlow ==
  ASSUME Inv, NEW t \in Threads, Post(t)
  PROVE  Flow' = Flow
<1>1. Parts
  BY PartsHold
<1>2. /\ wire' = wire \o buffers /\ queue' = queue
      /\ inflight = 0 /\ inflight' = 1 /\ ~crashed /\ ~ignored
  BY DEF Post, At, Using, Inv, TypeOK, SendIsExclusive, event
<1>3. Pending = buffers /\ Pending' = <<>> /\ QueuedMessages' = QueuedMessages
  BY <1>2 DEF Pending, QueuedMessages
<1>4. wire \in Seq(Messages) /\ buffers \in Seq(Messages) /\ QueuedMessages \in Seq(Messages)
  BY <1>1 DEF Parts
<1>5. <<>> \o QueuedMessages = QueuedMessages
  BY <1>4, ConcatEmptySeq
<1>6. (wire \o buffers) \o QueuedMessages = wire \o (buffers \o QueuedMessages)
  BY <1>4, ConcatAssociative
<1> QED
  BY <1>2, <1>3, <1>5, <1>6 DEF Flow

(* The steps that move no buffer.                                          *)
LEMMA OtherFlow ==
  ASSUME Inv, NEW t \in Threads,
         \/ FinishPush(t) \/ ExchangeRegistered(t) \/ TakeEvent(t) \/ DrainDone(t)
         \/ Unregister(t) \/ Release(t) \/ (\E e \in SocketErrors : PostFails(t, e))
         \/ UnregisterFailed(t) \/ (\E ok, bytes \in BOOLEAN : Complete(t, ok, bytes))
  PROVE  Flow' = Flow
<1>1. wire' = wire
  BY DEF FinishPush, ExchangeRegistered, TakeEvent, DrainDone, Unregister, Release, PostFails,
         UnregisterFailed, Complete, Completion, history
<1>2. Pending' = Pending
  <2>1. CASE \E ok, bytes \in BOOLEAN : Complete(t, ok, bytes)
    BY <2>1 DEF Complete, Completion, Pending, Inv, TypeOK, At, event
  <2>2. CASE ~(\E ok, bytes \in BOOLEAN : Complete(t, ok, bytes))
    BY <2>2 DEF FinishPush, ExchangeRegistered, TakeEvent, DrainDone, Unregister, Release,
                PostFails, UnregisterFailed, Pending, event, history
  <2> QED
    BY <2>1, <2>2
<1>3. QueuedMessages' = QueuedMessages
  <2>1. CASE FinishPush(t)
    <3>1. \A i \in DOMAIN queue : queue[i] \in Q!Entry
      BY DEF Inv, TypeOK
    <3>2. \A e \in Q!Entry : [e EXCEPT !.by = Nobody].item = e.item
      BY DEF Q!Entry
    <3>3. DOMAIN queue' = DOMAIN queue /\ \A i \in DOMAIN queue : queue'[i].item = queue[i].item
      BY <2>1, <3>1, <3>2 DEF FinishPush, Q!Finish
    <3> QED
      BY <3>3 DEF QueuedMessages
  <2>2. CASE ~FinishPush(t)
    BY <2>2 DEF ExchangeRegistered, TakeEvent, DrainDone, Unregister, Release, PostFails,
                UnregisterFailed, Complete, Completion, QueuedMessages
  <2> QED
    BY <2>1, <2>2
<1> QED
  BY <1>1, <1>2, <1>3 DEF Flow

-----------------------------------------------------------------------------
(* A buffer is on its way once, was sent, and was not thrown away.         *)
OnceInFlow == \A m, n \in 1..Len(Flow) : Flow[m] = Flow[n] => m = n

NotDropped == \A n \in 1..Len(Flow) : Flow[n] \notin dropped

SentBySome(m) == \E t \in Threads : \E i \in 1..Len(issued[t]) : issued[t][i] = m

AllSent == /\ \A n \in 1..Len(Flow) : SentBySome(Flow[n])
           /\ \A m \in dropped : SentBySome(m)

SentOnce ==
  \A t, u \in Threads : \A i \in 1..Len(issued[t]), k \in 1..Len(issued[u]) :
    issued[t][i] = issued[u][k] => t = u /\ i = k

(* What was sent is on its way or was thrown away; what is on its way is   *)
(* behind whatever its sender sent before it.                              *)
NoneLeftOut ==
  \A t \in Threads : \A i \in 1..Len(issued[t]) :
    issued[t][i] \in dropped \/ \E n \in 1..Len(Flow) : Flow[n] = issued[t][i]

BehindEarlier ==
  \A t \in Threads : \A i, k \in 1..Len(issued[t]), n \in 1..Len(Flow) :
    i < k /\ Flow[n] = issued[t][k]
      => issued[t][i] \in dropped \/ \E m \in 1..(n - 1) : Flow[m] = issued[t][i]

FlowOrdered == /\ OnceInFlow /\ NotDropped
               /\ AllSent /\ SentOnce
               /\ NoneLeftOut /\ BehindEarlier

(* A new buffer goes to the end of its sender's history and of the flow.   *)
LEMMA SendOrdered ==
  ASSUME Inv, Inv', FlowOrdered, NEW t \in Threads, NEW m \in Messages, Send(t, m)
  PROVE  FlowOrdered'
<1>1. /\ dropped' = dropped /\ issued' = [issued EXCEPT ![t] = Append(issued[t], m)]
      /\ \A u \in Threads : issued[u] \in Seq(Messages) /\ Len(issued[u]) \in Nat
                            /\ DOMAIN issued[u] = 1..Len(issued[u])
  BY DEF Send, Inv, TypeOK
<1>2. \A u \in Threads : \A i \in 1..Len(issued[u]) : issued[u][i] # m
  BY <1>1 DEF Send, Members
<1>3. (\A n \in 1..Len(Flow) : Flow[n] # m) /\ m \notin dropped
  BY <1>2 DEF FlowOrdered, AllSent, SentBySome
<1>4. /\ Len(Flow) \in Nat /\ Len(Flow') = Len(Flow) + 1
      /\ \A n \in 1..Len(Flow) : Flow'[n] = Flow[n]
      /\ Flow'[Len(Flow) + 1] = m
  <2>1. Flow' = Append(Flow, m) /\ Flow \in Seq(Messages) /\ Len(Flow) \in Nat
    BY SendFlow, PartsHold DEF Parts
  <2> QED
    BY <2>1, AppendProperties
<1>5. ASSUME NEW n \in 1..Len(Flow')
      PROVE  \/ n \in 1..Len(Flow) /\ Flow'[n] = Flow[n]
             \/ n = Len(Flow) + 1 /\ Flow'[n] = m
  <2>1. n \in 1..Len(Flow) \/ n = Len(Flow) + 1
    BY <1>4
  <2> QED
    BY <1>4, <2>1
<1>6. \A n \in 1..Len(Flow) : n \in 1..Len(Flow')
  BY <1>4
<1>7. /\ Len(issued'[t]) = Len(issued[t]) + 1
      /\ \A i \in 1..Len(issued[t]) : issued'[t][i] = issued[t][i]
      /\ issued'[t][Len(issued[t]) + 1] = m
  <2>1. issued'[t] = Append(issued[t], m)
    BY <1>1 DEF Inv, TypeOK
  <2> QED
    BY <1>1, <2>1, AppendProperties
<1>8. \A u \in Threads : u # t => issued'[u] = issued[u]
  BY <1>1 DEF Inv, TypeOK
<1>9. ASSUME NEW u \in Threads, NEW i \in 1..Len(issued'[u])
      PROVE  \/ i \in 1..Len(issued[u]) /\ issued'[u][i] = issued[u][i]
             \/ u = t /\ i = Len(issued[t]) + 1 /\ issued'[u][i] = m
  <2>1. CASE u # t
    BY <1>8, <2>1
  <2>2. CASE u = t
    <3>1. i \in 1..Len(issued[t]) \/ i = Len(issued[t]) + 1
      BY <1>1, <1>7, <2>2
    <3> QED
      BY <1>7, <2>2, <3>1
  <2> QED
    BY <2>1, <2>2
<1>10. ASSUME NEW u \in Threads, NEW i \in 1..Len(issued[u])
       PROVE  i \in 1..Len(issued'[u]) /\ issued'[u][i] = issued[u][i]
  <2>1. CASE u # t
    BY <1>8, <2>1
  <2>2. CASE u = t
    BY <1>1, <1>7, <2>2
  <2> QED
    BY <2>1, <2>2
<1>11. OnceInFlow'
  <2> SUFFICES ASSUME NEW k \in 1..Len(Flow'), NEW n \in 1..Len(Flow'), Flow'[k] = Flow'[n]
               PROVE  k = n
    BY DEF OnceInFlow
  <2> QED
    BY <1>3, <1>5 DEF FlowOrdered, OnceInFlow
<1>12. NotDropped'
  <2> SUFFICES ASSUME NEW n \in 1..Len(Flow') PROVE Flow'[n] \notin dropped
    BY <1>1 DEF NotDropped
  <2> QED
    BY <1>3, <1>5 DEF FlowOrdered, NotDropped
<1>13. AllSent'
  <2>1. ASSUME NEW x, SentBySome(x)
        PROVE  \E u \in Threads : \E i \in 1..Len(issued'[u]) : issued'[u][i] = x
    BY <1>10, <2>1 DEF SentBySome
  <2>2. \E u \in Threads : \E i \in 1..Len(issued'[u]) : issued'[u][i] = m
    <3>1. Len(issued[t]) + 1 \in 1..Len(issued'[t])
      BY <1>1, <1>7
    <3> QED
      BY <1>7, <3>1
  <2>3. \A x \in dropped' : \E u \in Threads : \E i \in 1..Len(issued'[u]) : issued'[u][i] = x
    BY <1>1, <2>1 DEF FlowOrdered, AllSent
  <2>4. ASSUME NEW n \in 1..Len(Flow')
        PROVE  \E u \in Threads : \E i \in 1..Len(issued'[u]) : issued'[u][i] = Flow'[n]
    <3>1. CASE n \in 1..Len(Flow) /\ Flow'[n] = Flow[n]
      BY <2>1, <3>1 DEF FlowOrdered, AllSent
    <3>2. CASE Flow'[n] = m
      BY <2>2, <3>2
    <3> QED
      BY <1>5, <3>1, <3>2
  <2> QED
    BY <2>3, <2>4 DEF AllSent, SentBySome
<1>14. SentOnce'
  <2> SUFFICES ASSUME NEW u \in Threads, NEW v \in Threads,
                      NEW i \in 1..Len(issued'[u]), NEW k \in 1..Len(issued'[v]),
                      issued'[u][i] = issued'[v][k]
               PROVE  u = v /\ i = k
    BY DEF SentOnce
  <2>1. CASE u = t /\ i = Len(issued[t]) + 1
    BY <1>2, <1>7, <1>9, <2>1
  <2>2. CASE v = t /\ k = Len(issued[t]) + 1
    BY <1>2, <1>7, <1>9, <2>2
  <2>3. CASE ~(u = t /\ i = Len(issued[t]) + 1) /\ ~(v = t /\ k = Len(issued[t]) + 1)
    BY <1>9, <2>3 DEF FlowOrdered, SentOnce
  <2> QED
    BY <2>1, <2>2, <2>3
<1>15. NoneLeftOut'
  <2> SUFFICES ASSUME NEW u \in Threads, NEW i \in 1..Len(issued'[u])
               PROVE  issued'[u][i] \in dropped \/ \E n \in 1..Len(Flow') : Flow'[n] = issued'[u][i]
    BY <1>1 DEF NoneLeftOut
  <2>1. CASE i \in 1..Len(issued[u]) /\ issued'[u][i] = issued[u][i]
    BY <1>4, <1>6, <2>1 DEF FlowOrdered, NoneLeftOut
  <2>2. CASE issued'[u][i] = m
    <3>1. Len(Flow) + 1 \in 1..Len(Flow')
      BY <1>4
    <3> QED
      BY <1>4, <2>2, <3>1
  <2> QED
    BY <1>9, <2>1, <2>2
<1>16. BehindEarlier'
  <2> SUFFICES ASSUME NEW u \in Threads, NEW i \in 1..Len(issued'[u]), NEW k \in 1..Len(issued'[u]),
                      NEW n \in 1..Len(Flow'), i < k, Flow'[n] = issued'[u][k]
               PROVE  \/ issued'[u][i] \in dropped
                      \/ \E l \in 1..(n - 1) : Flow'[l] = issued'[u][i]
    BY <1>1 DEF BehindEarlier
  <2>1. i \in 1..Len(issued[u]) /\ issued'[u][i] = issued[u][i]
    <3>1. CASE u # t
      BY <1>8, <3>1
    <3>2. CASE u = t
      <4>1. i # Len(issued[t]) + 1
        BY <1>1, <1>7, <3>2
      <4> QED
        BY <1>9, <4>1
    <3> QED
      BY <3>1, <3>2
  <2>2. CASE n \in 1..Len(Flow) /\ Flow'[n] = Flow[n]
    <3>1. k \in 1..Len(issued[u]) /\ issued'[u][k] = issued[u][k]
      BY <1>3, <1>9, <2>2
    <3>2. issued[u][i] \in dropped \/ \E l \in 1..(n - 1) : Flow[l] = issued[u][i]
      <4>1. Flow[n] = issued[u][k]
        BY <2>2, <3>1
      <4> QED
        BY <2>1, <2>2, <3>1, <4>1 DEF FlowOrdered, BehindEarlier
    <3>3. \A l \in 1..(n - 1) : l \in 1..Len(Flow)
      BY <1>4, <2>2
    <3> QED
      BY <1>4, <2>1, <3>2, <3>3
  <2>3. CASE n = Len(Flow) + 1
    <3>1. issued[u][i] \in dropped \/ \E l \in 1..Len(Flow) : Flow[l] = issued[u][i]
      BY <2>1 DEF FlowOrdered, NoneLeftOut
    <3>2. \A l \in 1..Len(Flow) : l \in 1..(n - 1)
      BY <1>4, <2>3
    <3> QED
      BY <1>4, <2>1, <3>1, <3>2
  <2> QED
    BY <1>5, <2>2, <2>3
<1> QED
  BY <1>11, <1>12, <1>13, <1>14, <1>15, <1>16 DEF FlowOrdered

(* A failed WSASend: the event's batch is cut out of the flow, and nothing *)
(* else changes its order.                                                 *)
LEMMA DropOrdered ==
  ASSUME Inv, Inv', FlowOrdered, NEW t \in Threads, DropEvent(t)
  PROVE  FlowOrdered'
<1> DEFINE W == Len(wire)
           B == Len(buffers)
           N == Len(QueuedMessages)
<1>1. /\ wire \in Seq(Messages) /\ buffers \in Seq(Messages) /\ QueuedMessages \in Seq(Messages)
      /\ W \in Nat /\ B \in Nat /\ N \in Nat
  BY PartsHold DEF Parts
<1>2. /\ wire' = wire /\ queue' = queue /\ issued' = issued
      /\ inflight = 0 /\ ~crashed /\ ~ignored
      /\ buffers' = <<>> /\ dropped' = dropped \cup {buffers[i] : i \in 1..B}
  <2>1. DOMAIN buffers = 1..B
    BY <1>1
  <2> QED
    BY <2>1 DEF DropEvent, At, Using, Inv, TypeOK, SendIsExclusive, Members
<1>3. /\ Flow = wire \o (buffers \o QueuedMessages)
      /\ Flow' = wire \o QueuedMessages
  <2>1. Pending = buffers /\ Pending' = <<>> /\ QueuedMessages' = QueuedMessages
    BY <1>2 DEF Pending, QueuedMessages, DropEvent
  <2>2. <<>> \o QueuedMessages = QueuedMessages
    BY <1>1, ConcatEmptySeq
  <2> QED
    BY <1>2, <2>1, <2>2 DEF Flow
<1>4. /\ buffers \o QueuedMessages \in Seq(Messages) /\ Len(buffers \o QueuedMessages) = B + N
      /\ \A i \in 1..(B + N) :
           (buffers \o QueuedMessages)[i] = IF i <= B THEN buffers[i] ELSE QueuedMessages[i - B]
  BY <1>1, ConcatProperties
<1>5. /\ Len(Flow) = W + (B + N)
      /\ \A i \in 1..(W + (B + N)) :
           Flow[i] = IF i <= W THEN wire[i] ELSE (buffers \o QueuedMessages)[i - W]
  BY <1>1, <1>3, <1>4, ConcatProperties
<1>6. /\ Len(Flow') = W + N
      /\ \A i \in 1..(W + N) : Flow'[i] = IF i <= W THEN wire[i] ELSE QueuedMessages[i - W]
  BY <1>1, <1>3, ConcatProperties
<1> HIDE DEF W, B, N
(* Where an entry that stays was before.                                   *)
<1> DEFINE From(n) == IF n <= W THEN n ELSE n + B
<1>7. ASSUME NEW n \in 1..Len(Flow')
      PROVE  From(n) \in 1..Len(Flow) /\ Flow'[n] = Flow[From(n)]
  <2>1. n \in 1..(W + N)
    BY <1>6
  <2>2. CASE n <= W
    <3>1. n \in 1..(W + (B + N)) /\ From(n) = n
      BY <1>1, <2>1, <2>2
    <3> QED
      BY <1>5, <1>6, <2>1, <2>2, <3>1
  <2>3. CASE ~(n <= W)
    <3>1. /\ From(n) = n + B /\ n + B \in 1..(W + (B + N)) /\ ~(n + B <= W)
          /\ (n + B) - W \in 1..(B + N) /\ ~((n + B) - W <= B) /\ ((n + B) - W) - B = n - W
      BY <1>1, <2>1, <2>3
    <3>2. Flow[n + B] = (buffers \o QueuedMessages)[(n + B) - W]
      BY <1>5, <3>1
    <3>3. (buffers \o QueuedMessages)[(n + B) - W] = QueuedMessages[n - W]
      BY <1>4, <3>1
    <3>4. Flow'[n] = QueuedMessages[n - W]
      BY <1>6, <2>1, <2>3
    <3> QED
      BY <1>5, <3>1, <3>2, <3>3, <3>4
  <2> QED
    BY <2>2, <2>3
<1>8. ASSUME NEW i \in 1..B PROVE W + i \in 1..Len(Flow) /\ Flow[W + i] = buffers[i]
  <2>1. /\ W + i \in 1..(W + (B + N)) /\ ~(W + i <= W) /\ (W + i) - W = i
        /\ i \in 1..(B + N) /\ i <= B
    BY <1>1
  <2> QED
    BY <1>4, <1>5, <2>1
(* An entry is thrown away, or stays.                                      *)
<1>9. ASSUME NEW m \in 1..Len(Flow)
      PROVE  \/ Flow[m] \in dropped'
             \/ \E n \in 1..Len(Flow') : From(n) = m /\ Flow'[n] = Flow[m]
  <2>1. m \in 1..(W + (B + N))
    BY <1>5
  <2>2. CASE m <= W
    <3>1. m \in 1..(W + N) /\ From(m) = m
      BY <1>1, <2>1, <2>2
    <3> QED
      BY <1>6, <1>7, <3>1
  <2>3. CASE ~(m <= W) /\ m <= W + B
    <3>1. m - W \in 1..B /\ W + (m - W) = m
      BY <1>1, <2>1, <2>3
    <3>2. Flow[m] = buffers[m - W]
      BY <1>8, <3>1
    <3> QED
      BY <1>2, <3>1, <3>2 DEF B
  <2>4. CASE ~(m <= W + B)
    <3>1. m - B \in 1..(W + N) /\ From(m - B) = m
      BY <1>1, <2>1, <2>4
    <3> QED
      BY <1>6, <1>7, <3>1
  <2> QED
    BY <2>2, <2>3, <2>4
<1>10. \A m, n \in 1..Len(Flow') : /\ From(m) = From(n) => m = n
                                   /\ From(m) < From(n) => m < n
  <2>1. \A m, n \in 1..(W + N) : /\ From(m) = From(n) => m = n
                                 /\ From(m) < From(n) => m < n
    BY <1>1
  <2> QED
    BY <1>6, <2>1
<1> HIDE DEF From
<1>11. OnceInFlow'
  <2> SUFFICES ASSUME NEW m \in 1..Len(Flow'), NEW n \in 1..Len(Flow'), Flow'[m] = Flow'[n]
               PROVE  m = n
    BY DEF OnceInFlow
  <2>1. From(m) = From(n)
    BY <1>7 DEF FlowOrdered, OnceInFlow
  <2> QED
    BY <1>10, <2>1
<1>12. NotDropped'
  <2> SUFFICES ASSUME NEW n \in 1..Len(Flow') PROVE Flow'[n] \notin dropped'
    BY DEF NotDropped
  <2>1. From(n) \in 1..Len(Flow) /\ Flow'[n] = Flow[From(n)]
    BY <1>7
  <2>2. Flow[From(n)] \notin dropped
    BY <2>1 DEF FlowOrdered, NotDropped
  <2>3. ASSUME NEW i \in 1..B PROVE Flow[From(n)] # buffers[i]
    <3>1. From(n) # W + i
      <4>1. n \in 1..(W + N)
        BY <1>6
      <4> QED
        BY <1>1, <4>1 DEF From
    <3> QED
      BY <1>8, <2>1, <3>1 DEF FlowOrdered, OnceInFlow
  <2> QED
    BY <1>2, <2>1, <2>2, <2>3 DEF B
<1>13. AllSent'
  <2>1. \A n \in 1..Len(Flow) : \E u \in Threads : \E i \in 1..Len(issued[u]) : issued[u][i] = Flow[n]
    BY DEF FlowOrdered, AllSent, SentBySome
  <2>2. \A n \in 1..Len(Flow') : \E u \in Threads : \E i \in 1..Len(issued[u]) : issued[u][i] = Flow'[n]
    BY <1>7, <2>1
  <2>3. ASSUME NEW m \in dropped'
        PROVE  \E u \in Threads : \E i \in 1..Len(issued[u]) : issued[u][i] = m
    <3>1. CASE m \in dropped
      BY <3>1 DEF FlowOrdered, AllSent, SentBySome
    <3>2. CASE m \notin dropped
      <4>1. PICK i \in 1..B : m = buffers[i]
        BY <1>2, <2>3, <3>2 DEF B
      <4> QED
        BY <1>8, <2>1, <4>1
    <3> QED
      BY <3>1, <3>2
  <2> QED
    BY <1>2, <2>2, <2>3 DEF AllSent, SentBySome
<1>14. SentOnce'
  BY <1>2 DEF FlowOrdered, SentOnce
<1>15. NoneLeftOut'
  <2> SUFFICES ASSUME NEW u \in Threads, NEW i \in 1..Len(issued[u])
               PROVE  issued[u][i] \in dropped' \/ \E n \in 1..Len(Flow') : Flow'[n] = issued[u][i]
    BY <1>2 DEF NoneLeftOut
  <2>1. issued[u][i] \in dropped \/ \E m \in 1..Len(Flow) : Flow[m] = issued[u][i]
    BY DEF FlowOrdered, NoneLeftOut
  <2> QED
    BY <1>2, <1>9, <2>1
<1>16. BehindEarlier'
  <2> SUFFICES ASSUME NEW u \in Threads, NEW i \in 1..Len(issued[u]), NEW k \in 1..Len(issued[u]),
                      NEW n \in 1..Len(Flow'), i < k, Flow'[n] = issued[u][k]
               PROVE  \/ issued[u][i] \in dropped'
                      \/ \E l \in 1..(n - 1) : Flow'[l] = issued[u][i]
    <3>1. issued' = issued
      BY <1>2
    <3> QED
      BY <3>1, SMTT(30) DEF BehindEarlier
  <2>1. From(n) \in 1..Len(Flow) /\ Flow[From(n)] = issued[u][k]
    BY <1>7
  <2>2. issued[u][i] \in dropped \/ \E l \in 1..(From(n) - 1) : Flow[l] = issued[u][i]
    BY <2>1 DEF FlowOrdered, BehindEarlier
  <2>3. CASE issued[u][i] \in dropped
    BY <1>2, <2>3
  <2>4. ASSUME NEW l \in 1..(From(n) - 1), Flow[l] = issued[u][i]
        PROVE  \/ issued[u][i] \in dropped'
               \/ \E m \in 1..(n - 1) : Flow'[m] = issued[u][i]
    <3>1. l \in 1..Len(Flow) /\ l < From(n)
      BY <1>1, <1>5, <2>1
    <3>2. CASE \E m \in 1..Len(Flow') : From(m) = l /\ Flow'[m] = Flow[l]
      <4>1. PICK m \in 1..Len(Flow') : From(m) = l /\ Flow'[m] = Flow[l]
        BY <3>2
      <4>2. m < n
        BY <1>10, <3>1, <4>1
      <4>3. m \in 1..(n - 1)
        <5>1. m \in 1..(W + N) /\ n \in 1..(W + N)
          BY <1>6
        <5> QED
          BY <1>1, <4>2, <5>1
      <4> QED
        BY <2>4, <4>1, <4>3
    <3> QED
      BY <1>9, <2>4, <3>1, <3>2
  <2> QED
    BY <2>2, <2>3, <2>4
<1> QED
  BY <1>11, <1>12, <1>13, <1>14, <1>15, <1>16 DEF FlowOrdered

-----------------------------------------------------------------------------
LEMMA FlowInit == Init => FlowOrdered
<1> SUFFICES ASSUME Init PROVE FlowOrdered
  OBVIOUS
<1>1. wire = <<>> /\ Pending = <<>> /\ DOMAIN queue = {}
  BY DEF Init, Pending
<1>2. QueuedMessages = <<>>
  BY <1>1 DEF QueuedMessages
<1>3. Flow = <<>>
  BY <1>1, <1>2 DEF Flow
<1>4. Len(Flow) = 0 /\ dropped = {} /\ \A t \in Threads : Len(issued[t]) = 0
  BY <1>3 DEF Init
<1> QED
  BY <1>4 DEF FlowOrdered, OnceInFlow, NotDropped, AllSent, SentOnce, NoneLeftOut, BehindEarlier

LEMMA SameFlow ==
  ASSUME FlowOrdered, Flow' = Flow, issued' = issued, dropped' = dropped
  PROVE  FlowOrdered'
  BY DEF FlowOrdered, OnceInFlow, NotDropped, AllSent, SentBySome, SentOnce, NoneLeftOut,
         BehindEarlier

LEMMA FlowStep == Inv /\ Inv' /\ FlowOrdered /\ [Next]_vars => FlowOrdered'
<1> SUFFICES ASSUME Inv, Inv', FlowOrdered, [Next]_vars PROVE FlowOrdered'
  OBVIOUS
<1>1. CASE UNCHANGED vars
  <2>1. UNCHANGED <<wire, inflight, crashed, ignored, buffers, queue, issued, dropped>>
    BY <1>1 DEF vars, event, history
  <2>2. Flow' = Flow
    BY <2>1 DEF Flow, Pending, QueuedMessages
  <2> QED
    BY <2>1, <2>2, SameFlow
<1>2. ASSUME NEW t \in Threads, NEW m \in Messages, Send(t, m) PROVE FlowOrdered'
  BY <1>2, SendOrdered
<1>3. ASSUME NEW t \in Threads, DropEvent(t) PROVE FlowOrdered'
  BY <1>3, DropOrdered
<1>4. ASSUME NEW t \in Threads, DrainOne(t) \/ Post(t) PROVE FlowOrdered'
  <2>1. Flow' = Flow
    BY <1>4, DrainFlow, PostFlow
  <2>2. issued' = issued /\ dropped' = dropped
    BY <1>4 DEF DrainOne, Post, history
  <2> QED
    BY <2>1, <2>2, SameFlow
<1>5. ASSUME NEW t \in Threads,
             \/ FinishPush(t) \/ ExchangeRegistered(t) \/ TakeEvent(t) \/ DrainDone(t)
             \/ Unregister(t) \/ Release(t) \/ (\E e \in SocketErrors : PostFails(t, e))
             \/ UnregisterFailed(t) \/ (\E ok, bytes \in BOOLEAN : Complete(t, ok, bytes))
      PROVE  FlowOrdered'
  <2>1. Flow' = Flow
    BY <1>5, OtherFlow
  <2>2. issued' = issued /\ dropped' = dropped
    BY <1>5 DEF FinishPush, ExchangeRegistered, TakeEvent, DrainDone, Unregister, Release,
                PostFails, UnregisterFailed, Complete, Completion, history
  <2> QED
    BY <2>1, <2>2, SameFlow
<1>6. CASE Disconnect
  <2>1. wire' = wire /\ Pending' = Pending /\ QueuedMessages' = QueuedMessages
    BY <1>6 DEF Disconnect, Pending, QueuedMessages, event, history
  <2> QED
    BY <1>6, <2>1, SameFlow DEF Flow, Disconnect, history
<1> QED
  BY <1>1, <1>2, <1>3, <1>4, <1>5, <1>6 DEF Next, Step

(* Whichever threads drain the queue and post the event, and whatever      *)
(* fails in between, TCP takes a sender's buffers once each and in order,  *)
(* with no gap but the batches that a failed WSASend threw away.           *)
THEOREM WireKeepsOrder == Spec => []WireOrder
<1>1. Inv /\ FlowOrdered => WireOrder
  <2> SUFFICES ASSUME Inv, FlowOrdered PROVE WireOrder
    OBVIOUS
  <2>1. /\ wire \in Seq(Messages) /\ Len(wire) \in Nat /\ DOMAIN wire = 1..Len(wire)
        /\ \A t \in Threads : DOMAIN issued[t] = 1..Len(issued[t])
    BY DEF Inv, TypeOK
  <2>2. \A n \in 1..Len(wire) : n \in 1..Len(Flow) /\ Flow[n] = wire[n]
    <3>1. Pending \o QueuedMessages \in Seq(Messages) /\ Len(Pending \o QueuedMessages) \in Nat
      BY PartsHold DEF Parts
    <3>2. /\ Len(Flow) = Len(wire) + Len(Pending \o QueuedMessages)
          /\ \A n \in 1..(Len(wire) + Len(Pending \o QueuedMessages)) :
               Flow[n] = IF n <= Len(wire) THEN wire[n]
                         ELSE (Pending \o QueuedMessages)[n - Len(wire)]
      BY <2>1, <3>1, ConcatProperties DEF Flow
    <3> QED
      BY <2>1, <3>1, <3>2
  <2>3. \A m, n \in DOMAIN wire : wire[m] = wire[n] => m = n
    BY <2>1, <2>2 DEF FlowOrdered, OnceInFlow
  <2>4. \A n \in DOMAIN wire : wire[n] \notin dropped
    BY <2>1, <2>2 DEF FlowOrdered, NotDropped
  <2>5. ASSUME NEW t \in Threads, NEW n \in DOMAIN wire,
               NEW i \in DOMAIN issued[t], NEW k \in DOMAIN issued[t],
               i < k, wire[n] = issued[t][k]
        PROVE  issued[t][i] \in dropped \/ \E m \in 1..(n - 1) : wire[m] = issued[t][i]
    <3>1. issued[t][i] \in dropped \/ \E m \in 1..(n - 1) : Flow[m] = issued[t][i]
      BY <2>1, <2>2, <2>5 DEF FlowOrdered, BehindEarlier
    <3>2. \A m \in 1..(n - 1) : m \in 1..Len(wire)
      BY <2>1
    <3> QED
      BY <2>2, <3>1, <3>2
  <2> QED
    BY <2>3, <2>4, <2>5 DEF WireOrder
<1>2. Init => Inv /\ FlowOrdered
  BY InitInv, FlowInit
<1>3. (Inv /\ FlowOrdered) /\ [Next]_vars => (Inv /\ FlowOrdered)'
  BY NextInv, FlowStep
<1> QED
  BY <1>1, <1>2, <1>3, PTL DEF Spec

-----------------------------------------------------------------------------
(* A set of numbers up to n has a greatest one ...                         *)
LEMMA GreatestOf ==
  ASSUME NEW n \in Nat, NEW B, B \subseteq 0..n, B # {}
  PROVE  \E m \in B : \A k \in B : k <= m
<1> DEFINE above(m) == m..n
           T == {above(m) : m \in B}
           R == StrictSubsetOrdering(0..n)
<1>1. IsWellFoundedOn(R, FiniteSubsetsOf(0..n))
  BY FS_StrictSubsetOrderingWellFounded
<1>2. T \subseteq FiniteSubsetsOf(0..n) /\ T # {}
  <2>1. \A m \in B : IsFiniteSet(m..n) /\ m..n \subseteq 0..n
    BY FS_Interval
  <2> QED
    BY <2>1 DEF FiniteSubsetsOf
<1> HIDE DEF R, T
<1>3. \E x \in T : \A y \in T : ~(<<y, x>> \in R)
  BY <1>1, <1>2, WFMin, Zenon
<1>4. PICK m \in B : \A k \in B : ~(<<above(k), above(m)>> \in R)
  BY <1>3 DEF T
<1>5. ASSUME NEW k \in B, k > m PROVE FALSE
  <2>1. above(k) \in SUBSET (0..n) /\ above(m) \in SUBSET (0..n)
    OBVIOUS
  <2>2. above(k) \subseteq above(m) /\ m \in above(m) /\ m \notin above(k)
    BY <1>5
  <2> HIDE DEF above
  <2>3. <<above(k), above(m)>> \in R
    BY <2>1, <2>2 DEF R, StrictSubsetOrdering
  <2> QED
    BY <1>4, <2>3
<1> QED
  BY <1>5

(* ... and a least one.                                                    *)
LEMMA LeastOf ==
  ASSUME NEW n \in Nat, NEW B, B \subseteq 0..n, B # {}
  PROVE  \E m \in B : \A k \in B : m <= k
<1> DEFINE C == {n - k : k \in B}
<1>1. \A k \in B : n - k \in 0..n /\ n - (n - k) = k
  OBVIOUS
<1>2. C \subseteq 0..n /\ C # {} /\ \A k \in B : n - k \in C
  BY <1>1
<1>3. \E m \in C : \A k \in C : k <= m
  <2> HIDE DEF C
  <2> QED
    BY <1>2, GreatestOf, Zenon
<1>4. PICK m \in B : \A k \in C : k <= n - m
  BY <1>3
<1>5. \A k \in B : n - k <= n - m => m <= k
  BY <1>1
<1> QED
  BY <1>2, <1>4, <1>5

-----------------------------------------------------------------------------
(* f flattens the first m of the sequences s.                              *)
Flattens(f, s, m, S) ==
  /\ f \in [1..m -> Seq(S)]
  /\ \A i \in 1..m : f[i] = IF i = 1 THEN s[i] ELSE f[i - 1] \o s[i]

LEMMA FlattenExists ==
  ASSUME NEW S, NEW s \in Seq(Seq(S))
  PROVE  \E f : Flattens(f, s, Len(s), S)
<1> DEFINE B == {m \in 0..Len(s) : ~\E f : Flattens(f, s, m, S)}
<1>1. Len(s) \in Nat /\ \A i \in 1..Len(s) : s[i] \in Seq(S)
  OBVIOUS
<1>2. SUFFICES ASSUME B # {} PROVE FALSE
  BY <1>1
<1>3. \E m \in B : \A k \in B : m <= k
  <2>1. B \subseteq 0..Len(s)
    OBVIOUS
  <2> HIDE DEF B
  <2> QED
    BY <1>1, <1>2, <2>1, LeastOf, Zenon
<1>4. PICK m \in B : \A k \in B : m <= k
  BY <1>3
<1>5. m # 0
  <2>1. Flattens([i \in 1..0 |-> <<>>], s, 0, S)
    BY DEF Flattens
  <2> QED
    BY <1>4, <2>1
<1>6. PICK f : Flattens(f, s, m - 1, S)
  <2>1. m - 1 \in 0..Len(s) /\ ~(m <= m - 1)
    BY <1>1, <1>4, <1>5
  <2> QED
    BY <1>4, <2>1
<1> DEFINE g == [i \in 1..m |-> IF i < m THEN f[i] ELSE IF m = 1 THEN s[1] ELSE f[m - 1] \o s[m]]
<1>7. g \in [1..m -> Seq(S)]
  <2>1. ASSUME NEW i \in 1..m
        PROVE  (IF i < m THEN f[i] ELSE IF m = 1 THEN s[1] ELSE f[m - 1] \o s[m]) \in Seq(S)
    <3>1. CASE i < m
      BY <1>1, <1>4, <1>5, <1>6, <3>1 DEF Flattens
    <3>2. CASE i = m /\ m = 1
      BY <1>1, <1>4, <3>2
    <3>3. CASE i = m /\ m # 1
      <4>1. f[m - 1] \in Seq(S) /\ s[m] \in Seq(S)
        BY <1>1, <1>4, <1>5, <1>6, <3>3 DEF Flattens
      <4> QED
        BY <3>3, <4>1
    <3> QED
      BY <1>1, <1>4, <3>1, <3>2, <3>3
  <2> QED
    BY <2>1
<1>8. ASSUME NEW i \in 1..m PROVE g[i] = IF i = 1 THEN s[i] ELSE g[i - 1] \o s[i]
  <2>1. CASE i < m
    <3>1. g[i] = f[i] /\ i \in 1..(m - 1)
      BY <1>1, <1>4, <2>1
    <3>2. i # 1 => g[i - 1] = f[i - 1]
      BY <1>1, <1>4, <2>1
    <3> QED
      BY <1>6, <3>1, <3>2 DEF Flattens
  <2>2. CASE i = m
    <3>1. m # 1 => g[m - 1] = f[m - 1]
      BY <1>1, <1>4, <1>5
    <3> QED
      BY <2>2, <3>1
  <2> QED
    BY <1>1, <1>4, <2>1, <2>2
<1> QED
  <2>1. Flattens(g, s, m, S)
    BY <1>7, <1>8 DEF Flattens
  <2> QED
    BY <1>4, <2>1

LEMMA FlattenIs ==
  ASSUME NEW S, NEW s \in Seq(Seq(S)), Len(s) # 0, NEW f, Flattens(f, s, Len(s), S)
  PROVE  FlattenSeq(s) = f[Len(s)]
<1> DEFINE fl == CHOOSE g : g = [i \in 1..Len(s) |-> IF i = 1 THEN s[i] ELSE g[i - 1] \o s[i]]
<1>1. FlattenSeq(s) = fl[Len(s)]
  BY DEF FlattenSeq
<1>2. f = [i \in 1..Len(s) |-> IF i = 1 THEN s[i] ELSE f[i - 1] \o s[i]]
  BY DEF Flattens
<1>3. fl = [i \in 1..Len(s) |-> IF i = 1 THEN s[i] ELSE fl[i - 1] \o s[i]]
  BY <1>2
<1> HIDE DEF fl
<1>4. \A i \in 1..Len(s) : fl[i] = IF i = 1 THEN s[i] ELSE fl[i - 1] \o s[i]
  BY <1>3
<1> DEFINE B == {i \in 1..Len(s) : fl[i] # f[i]}
<1>0. Len(s) \in Nat /\ Len(s) \in 1..Len(s)
  OBVIOUS
<1>5. CASE B = {}
  BY <1>0, <1>1, <1>5
<1>6. CASE B # {}
  <2>1. \E i \in B : \A j \in B : i <= j
    <3>1. B \subseteq 0..Len(s) /\ Len(s) \in Nat
      OBVIOUS
    <3> HIDE DEF B
    <3> QED
      BY <1>6, <3>1, LeastOf, Zenon
  <2>2. PICK i \in B : \A j \in B : i <= j
    BY <2>1
  <2>3. i # 1 => i - 1 \in 1..Len(s) /\ fl[i - 1] = f[i - 1]
    BY <1>0, <2>2
  <2>4. f[i] = IF i = 1 THEN s[i] ELSE f[i - 1] \o s[i]
    BY <2>2 DEF Flattens
  <2> QED
    BY <1>4, <2>2, <2>3, <2>4
<1> QED
  BY <1>5, <1>6

(* What FlattenSeq makes of nothing, and of one sequence more.             *)
LEMMA FlattenEmpty == FlattenSeq(<<>>) = <<>>
  BY DEF FlattenSeq

LEMMA FlattenType ==
  ASSUME NEW S, NEW s \in Seq(Seq(S))
  PROVE  FlattenSeq(s) \in Seq(S)
<1>1. CASE Len(s) = 0
  <2>1. s = <<>> /\ <<>> \in Seq(S)
    BY <1>1
  <2> QED
    BY <2>1, FlattenEmpty
<1>2. CASE Len(s) # 0
  <2>1. PICK f : Flattens(f, s, Len(s), S)
    BY FlattenExists
  <2>2. FlattenSeq(s) = f[Len(s)]
    BY <1>2, <2>1, FlattenIs
  <2>3. Len(s) \in 1..Len(s)
    BY <1>2
  <2> QED
    BY <2>1, <2>2, <2>3 DEF Flattens
<1> QED
  BY <1>1, <1>2

LEMMA FlattenAppend ==
  ASSUME NEW S, NEW s \in Seq(Seq(S)), NEW x \in Seq(S)
  PROVE  FlattenSeq(Append(s, x)) = FlattenSeq(s) \o x
<1> DEFINE t == Append(s, x)
           m == Len(s)
<1>1. /\ t \in Seq(Seq(S)) /\ m \in Nat /\ Len(t) = m + 1 /\ t[m + 1] = x
      /\ \A i \in 1..m : t[i] = s[i]
  OBVIOUS
<1> HIDE DEF t, m
<1>2. PICK g : Flattens(g, t, Len(t), S)
  BY <1>1, FlattenExists
<1>3. FlattenSeq(t) = g[m + 1]
  <2>1. Len(t) # 0
    BY <1>1
  <2>2. FlattenSeq(t) = g[Len(t)]
    BY <1>1, <1>2, <2>1, FlattenIs
  <2> QED
    BY <1>1, <2>2
<1>4. /\ \A i \in 1..m : g[i] \in Seq(S) /\ g[i] = IF i = 1 THEN s[i] ELSE g[i - 1] \o s[i]
      /\ g[m + 1] = IF m = 0 THEN x ELSE g[m] \o x
  <2>1. m + 1 \in 1..(m + 1) /\ (m + 1 = 1 <=> m = 0) /\ (m + 1) - 1 = m /\ 1..m \subseteq 1..(m + 1)
    BY <1>1
  <2> QED
    BY <1>1, <1>2, <2>1 DEF Flattens
<1>5. CASE m = 0
  <2>1. s = <<>>
    BY <1>5 DEF m
  <2>2. <<>> \o x = x
    OBVIOUS
  <2> QED
    BY <1>3, <1>4, <1>5, <2>1, <2>2, FlattenEmpty DEF t
<1>6. CASE m # 0
  <2> DEFINE h == [i \in 1..m |-> g[i]]
  <2>1. Flattens(h, s, m, S)
    <3>1. h \in [1..m -> Seq(S)]
      BY <1>4
    <3>2. \A i \in 1..m : h[i] = g[i] /\ (i # 1 => h[i - 1] = g[i - 1])
      BY <1>1
    <3> QED
      BY <1>4, <3>1, <3>2 DEF Flattens
  <2>2. FlattenSeq(s) = h[m]
    <3> HIDE DEF h
    <3> QED
      BY <1>6, <2>1, FlattenIs DEF m
  <2>3. h[m] = g[m]
    BY <1>1, <1>6
  <2> QED
    BY <1>3, <1>4, <1>6, <2>2, <2>3 DEF t
<1> QED
  BY <1>5, <1>6

-----------------------------------------------------------------------------
(* The bytes of the first k packets.                                       *)
BytesOf(n) == [packet: 1..n, offset: Nat]
Firsts(k) == [i \in 1..k |-> Packet(i, sent[i].size)]
First(k) == FlattenSeq(Firsts(k))
Total == Len(sent)

LEMMA PacketBytes ==
  ASSUME NEW n \in Nat, NEW k \in 1..n, NEW size \in Nat
  PROVE  /\ Packet(k, size) \in Seq(BytesOf(n))
         /\ Len(Packet(k, size)) = IF size < HeaderSize THEN HeaderSize ELSE size
         /\ Len(Packet(k, size)) > 0
         /\ \A j \in 1..Len(Packet(k, size)) : Packet(k, size)[j] = [packet |-> k, offset |-> j]
<1> USE FramingAssumption
<1> DEFINE len == IF size < HeaderSize THEN HeaderSize ELSE size
<1>1. len \in Nat \ {0}
  OBVIOUS
<1> HIDE DEF len
<1>2. Packet(k, size) = [j \in 1..len |-> [packet |-> k, offset |-> j]]
  BY DEF Packet, len
<1>3. \A j \in 1..len : [packet |-> k, offset |-> j] \in BytesOf(n)
  BY <1>1 DEF BytesOf
<1>4. Packet(k, size) \in [1..len -> BytesOf(n)]
  BY <1>2, <1>3
<1>5. Packet(k, size) \in Seq(BytesOf(n)) /\ Len(Packet(k, size)) = len
  BY <1>1, <1>2, <1>4
<1> QED
  BY <1>1, <1>2, <1>5 DEF len

LEMMA KindFields ==
  ASSUME sent \in Seq(Kinds)
  PROVE  /\ Total \in Nat
         /\ \A i \in 1..Total : sent[i] \in Kinds /\ sent[i].size \in Nat /\ sent[i].throws \in BOOLEAN
<1>1. Total \in Nat /\ \A i \in 1..Total : sent[i] \in Kinds
  BY DEF Total
<1> QED
  BY <1>1, FramingAssumption

LEMMA FirstsType ==
  ASSUME sent \in Seq(Kinds), NEW k \in 0..Total
  PROVE  Firsts(k) \in Seq(Seq(BytesOf(Total))) /\ Len(Firsts(k)) = k
<1>1. \A i \in 1..k : Packet(i, sent[i].size) \in Seq(BytesOf(Total))
  <2> TAKE i \in 1..k
  <2>1. Total \in Nat /\ i \in 1..Total /\ sent[i].size \in Nat
    BY KindFields
  <2> QED
    BY <2>1, PacketBytes
<1>2. k \in Nat
  BY KindFields
<1>3. Firsts(k) \in [1..k -> Seq(BytesOf(Total))]
  BY <1>1 DEF Firsts
<1> QED
  BY <1>2, <1>3 DEF Firsts

LEMMA FirstNext ==
  ASSUME sent \in Seq(Kinds), NEW k \in 0..(Total - 1)
  PROVE  First(k + 1) = First(k) \o Packet(k + 1, sent[k + 1].size)
<1>1. Total \in Nat /\ k \in Nat /\ k \in 0..Total /\ k + 1 \in 0..Total /\ k + 1 \in 1..Total
  BY KindFields
<1> DEFINE p == Packet(k + 1, sent[k + 1].size)
<1>2. p \in Seq(BytesOf(Total))
  BY <1>1, KindFields, PacketBytes
<1>3. /\ Firsts(k) \in Seq(Seq(BytesOf(Total))) /\ Len(Firsts(k)) = k
      /\ Firsts(k + 1) \in Seq(Seq(BytesOf(Total))) /\ Len(Firsts(k + 1)) = k + 1
  BY <1>1, FirstsType
<1>4. /\ \A i \in 1..k : Firsts(k + 1)[i] = Firsts(k)[i]
      /\ Firsts(k + 1)[k + 1] = p
  BY <1>1 DEF Firsts
<1> HIDE DEF p
<1>5. Firsts(k + 1) = Append(Firsts(k), p)
  <2> DEFINE a == Firsts(k)
             b == Firsts(k + 1)
  <2>1. Append(a, p) \in Seq(Seq(BytesOf(Total))) /\ Len(Append(a, p)) = k + 1
    BY <1>2, <1>3
  <2>2. \A i \in 1..(k + 1) : Append(a, p)[i] = b[i]
    BY <1>1, <1>2, <1>3, <1>4
  <2> HIDE DEF a, b
  <2>3. Append(a, p) = b
    BY <1>3, <2>1, <2>2, SeqEqual DEF a, b
  <2> QED
    BY <2>3 DEF a, b
<1> QED
  BY <1>2, <1>3, <1>5, FlattenAppend DEF First, p

LEMMA FirstType ==
  ASSUME sent \in Seq(Kinds), NEW k \in 0..Total
  PROVE  First(k) \in Seq(BytesOf(Total))
  BY FirstsType, FlattenType DEF First

(* The bytes of the first k packets are the beginning of the stream.       *)
LEMMA FirstPrefix ==
  ASSUME sent \in Seq(Kinds), NEW k \in 0..Total
  PROVE  \E v \in Seq(BytesOf(Total)) : First(Total) = First(k) \o v
<1> DEFINE S == BytesOf(Total)
           B == {m \in 0..Total : ~\E v \in Seq(S) : First(Total) = First(m) \o v}
<1>1. Total \in Nat /\ B \subseteq 0..Total
  BY KindFields
<1>2. SUFFICES ASSUME B # {} PROVE FALSE
  OBVIOUS
<1>3. \E m \in B : \A j \in B : j <= m
  <2> HIDE DEF B
  <2> QED
    BY <1>1, <1>2, GreatestOf, Zenon
<1>4. PICK m \in B : \A j \in B : j <= m
  BY <1>3
<1>5. m \in 0..Total /\ First(m) \in Seq(S)
  BY <1>4, FirstType
<1> HIDE DEF S
<1>6. CASE m = Total
  <2>1. <<>> \in Seq(S) /\ First(m) \o <<>> = First(m)
    BY <1>5
  <2> QED
    BY <1>4, <1>6, <2>1
<1>7. CASE m # Total
  <2>1. m \in 0..(Total - 1) /\ m + 1 \in 0..Total /\ ~(m + 1 <= m) /\ m + 1 \in 1..Total
    BY <1>1, <1>5, <1>7
  <2>2. PICK v \in Seq(S) : First(Total) = First(m + 1) \o v
    BY <1>4, <2>1
  <2> DEFINE p == Packet(m + 1, sent[m + 1].size)
  <2>3. p \in Seq(S)
    BY <1>1, <2>1, KindFields, PacketBytes DEF S
  <2>4. First(m + 1) = First(m) \o p
    BY <2>1, FirstNext
  <2> HIDE DEF p
  <2>5. (First(m) \o p) \o v = First(m) \o (p \o v) /\ p \o v \in Seq(S)
    BY <1>5, <2>3, ConcatAssociative, ConcatProperties
  <2> QED
    BY <1>4, <2>2, <2>4, <2>5
<1> QED
  BY <1>6, <1>7

-----------------------------------------------------------------------------
(* OnRecv.                                                                 *)
Acceptable(kind) == kind.size \in HeaderSize..MaxPacketSize /\ ~kind.throws

LEMMA VerdictIs ==
  ASSUME sent \in Seq(Kinds), NEW bytes \in Seq(BytesOf(Total)), NEW pos \in 0..Len(bytes)
  PROVE  LET v == Verdict(bytes, pos)
             byte == bytes[pos + 1]
             size == Stated(byte)
         IN  /\ v \in {"incomplete", "underflow", "overflow", "exception", "packet"}
             /\ v = "incomplete" => Len(bytes) - pos < MaxPacketSize
             /\ v # "incomplete" => /\ pos + 1 \in 1..Len(bytes) /\ size \in Nat
                                    /\ byte.packet \in 1..Total
             /\ v = "packet" => /\ size \in HeaderSize..MaxPacketSize /\ ~Throws(byte)
                                /\ pos + size \in (pos + 1)..Len(bytes)
             /\ v \in {"underflow", "overflow", "exception"} =>
                  size < HeaderSize \/ size > MaxPacketSize \/ Throws(byte)
<1> USE FramingAssumption
<1> DEFINE rest == Len(bytes) - pos
           byte == bytes[pos + 1]
           size == Stated(byte)
<1>1. Len(bytes) \in Nat /\ rest \in Nat /\ pos \in Nat
  OBVIOUS
<1>2. CASE rest < HeaderSize
  BY <1>1, <1>2 DEF Verdict
<1>3. CASE ~(rest < HeaderSize)
  <2>1. pos + 1 \in 1..Len(bytes)
    BY <1>1, <1>3
  <2>2. byte \in BytesOf(Total)
    BY <2>1
  <2>3. byte.packet \in 1..Total
    BY <2>2 DEF BytesOf
  <2>4. size \in Nat /\ Throws(byte) \in BOOLEAN
    BY <2>3, KindFields DEF Stated, Throws
  <2>5. Verdict(bytes, pos) =
          CASE size < HeaderSize -> "underflow"
            [] size > MaxPacketSize -> "overflow"
            [] size \in HeaderSize..MaxPacketSize /\ rest < size -> "incomplete"
            [] OTHER -> IF Throws(byte) THEN "exception" ELSE "packet"
    BY <1>1, <1>3, <2>4 DEF Verdict
  <2> DEFINE v == Verdict(bytes, pos)
  <2> HIDE DEF size, byte, v, rest
  <2>6. v = CASE size < HeaderSize -> "underflow"
              [] size > MaxPacketSize -> "overflow"
              [] size \in HeaderSize..MaxPacketSize /\ rest < size -> "incomplete"
              [] OTHER -> IF Throws(byte) THEN "exception" ELSE "packet"
    BY <2>5 DEF v
  <2>7. CASE size < HeaderSize
    <3>1. v = "underflow"
      BY <2>4, <2>6, <2>7
    <3> QED
      BY <2>1, <2>3, <2>4, <2>7, <3>1 DEF v, size, byte, rest
  <2>8. CASE size > MaxPacketSize
    <3>1. v = "overflow"
      BY <2>4, <2>6, <2>8
    <3> QED
      BY <2>1, <2>3, <2>4, <2>8, <3>1 DEF v, size, byte, rest
  <2>9. CASE size \in HeaderSize..MaxPacketSize /\ rest < size
    <3>1. v = "incomplete" /\ rest < MaxPacketSize
      BY <1>1, <2>4, <2>6, <2>9
    <3> QED
      BY <2>1, <2>3, <2>4, <3>1 DEF v, size, byte, rest
  <2>10. CASE size \in HeaderSize..MaxPacketSize /\ ~(rest < size)
    <3>1. v = IF Throws(byte) THEN "exception" ELSE "packet"
      BY <1>1, <2>4, <2>6, <2>10
    <3>2. pos + size \in (pos + 1)..Len(bytes)
      BY <1>1, <2>4, <2>10 DEF rest
    <3> QED
      BY <2>1, <2>3, <2>4, <2>10, <3>1, <3>2 DEF v, size, byte, rest
  <2> QED
    BY <2>4, <2>7, <2>8, <2>9, <2>10
<1> QED
  BY <1>2, <1>3

Results == [packets: Seq(Seq(BytesOf(Total))), read: Nat,
            reason: {"open", "underflow", "overflow", "exception"}]

(* What OnRecv's loop makes of its state at a position, f being what it    *)
(* makes of the later ones.                                                *)
Loop(f, bytes, pos) ==
  CASE Verdict(bytes, pos) = "packet" ->
         LET end == pos + Stated(bytes[pos + 1])
         IN  [f[end] EXCEPT !.packets = <<SubSeq(bytes, pos + 1, end)>> \o @]
    [] Verdict(bytes, pos) = "incomplete" -> [packets |-> <<>>, read |-> pos, reason |-> "open"]
    [] OTHER -> [packets |-> <<>>, read |-> Len(bytes), reason |-> Verdict(bytes, pos)]

LEMMA LoopType ==
  ASSUME sent \in Seq(Kinds), NEW bytes \in Seq(BytesOf(Total)), NEW pos \in 0..Len(bytes),
         NEW f, \A p \in (pos + 1)..Len(bytes) : f[p] \in Results
  PROVE  Loop(f, bytes, pos) \in Results
<1> DEFINE v == Verdict(bytes, pos)
           end == pos + Stated(bytes[pos + 1])
<1>1. v \in {"incomplete", "underflow", "overflow", "exception", "packet"}
  BY VerdictIs
<1>2. <<>> \in Seq(Seq(BytesOf(Total))) /\ pos \in Nat /\ Len(bytes) \in Nat
  OBVIOUS
<1>3. CASE v = "packet"
  <2>1. end \in (pos + 1)..Len(bytes)
    BY <1>3, VerdictIs
  <2>2. f[end] \in Results
    BY <2>1
  <2>3. SubSeq(bytes, pos + 1, end) \in Seq(BytesOf(Total))
    BY <2>1
  <2> DEFINE packet == SubSeq(bytes, pos + 1, end)
             r == f[end]
  <2>4. Loop(f, bytes, pos) = [r EXCEPT !.packets = <<packet>> \o @]
    BY <1>3 DEF Loop
  <2>5. <<packet>> \in Seq(Seq(BytesOf(Total)))
    BY <2>3
  <2> HIDE DEF packet, r, end
  <2>6. r \in Results
    BY <2>2 DEF r
  <2>7. <<packet>> \o r.packets \in Seq(Seq(BytesOf(Total)))
    BY <2>5, <2>6, ConcatProperties DEF Results
  <2> QED
    BY <2>4, <2>6, <2>7 DEF Results
<1>4. CASE v # "packet"
  BY <1>1, <1>2, <1>4 DEF Loop, Results
<1> QED
  BY <1>3, <1>4

LEMMA LoopLooksAhead ==
  ASSUME sent \in Seq(Kinds), NEW bytes \in Seq(BytesOf(Total)), NEW pos \in 0..Len(bytes),
         NEW f, NEW g, \A p \in (pos + 1)..Len(bytes) : f[p] = g[p]
  PROVE  Loop(f, bytes, pos) = Loop(g, bytes, pos)
<1>1. CASE Verdict(bytes, pos) = "packet"
  <2> DEFINE end == pos + Stated(bytes[pos + 1])
  <2>1. end \in (pos + 1)..Len(bytes)
    BY <1>1, VerdictIs
  <2>2. f[end] = g[end]
    BY <2>1
  <2>3. /\ Loop(f, bytes, pos) = [f[end] EXCEPT !.packets = <<SubSeq(bytes, pos + 1, end)>> \o @]
        /\ Loop(g, bytes, pos) = [g[end] EXCEPT !.packets = <<SubSeq(bytes, pos + 1, end)>> \o @]
    BY <1>1 DEF Loop
  <2> HIDE DEF end
  <2> QED
    BY <2>2, <2>3
<1>2. CASE Verdict(bytes, pos) # "packet"
  BY <1>2 DEF Loop
<1> QED
  BY <1>1, <1>2

LEMMA LoopExists ==
  ASSUME sent \in Seq(Kinds), NEW bytes \in Seq(BytesOf(Total))
  PROVE  \E f : f = [pos \in 0..Len(bytes) |-> Loop(f, bytes, pos)]
<1> DEFINE L == Len(bytes)
           Solves(f, m) == f = [pos \in m..L |-> Loop(f, bytes, pos)]
           B == {m \in 0..L : ~\E f : Solves(f, m)}
<1>1. L \in Nat /\ B \subseteq 0..L
  OBVIOUS
<1>2. CASE B = {}
  <2>1. 0 \notin B /\ 0 \in 0..L
    BY <1>1, <1>2
  <2> QED
    BY <2>1
<1>3. CASE B # {}
  <2>1. \E m \in B : \A k \in B : k <= m
    <3> HIDE DEF B, L
    <3> QED
      BY <1>1, <1>3, GreatestOf, Zenon
  <2>2. PICK m \in B : \A k \in B : k <= m
    BY <2>1
  <2>3. m \in 0..L
    BY <2>2
  <2>4. \E f : \A p \in (m + 1)..L : f[p] = Loop(f, bytes, p)
    <3>1. CASE m = L
      BY <1>1, <3>1
    <3>2. CASE m # L
      <4>1. m + 1 \in 0..L /\ ~(m + 1 <= m)
        BY <1>1, <2>3, <3>2
      <4>2. PICK f : Solves(f, m + 1)
        BY <2>2, <4>1
      <4>3. \A p \in (m + 1)..L : f[p] = Loop(f, bytes, p)
        BY <4>2
      <4> QED
        BY <4>3
    <3> QED
      BY <3>1, <3>2
  <2>5. PICK f : \A p \in (m + 1)..L : f[p] = Loop(f, bytes, p)
    BY <2>4
  <2> DEFINE g == [p \in m..L |-> Loop(f, bytes, p)]
  <2>6. \A p \in (m + 1)..L : g[p] = f[p]
    <3>1. \A p \in (m + 1)..L : p \in m..L
      BY <1>1, <2>3
    <3> QED
      BY <2>5, <3>1
  <2>7. \A p \in m..L : Loop(g, bytes, p) = Loop(f, bytes, p)
    <3> TAKE p \in m..L
    <3>1. p \in 0..L /\ \A q \in (p + 1)..L : q \in (m + 1)..L
      BY <1>1, <2>3
    <3>2. \A q \in (p + 1)..Len(bytes) : g[q] = f[q]
      BY <2>6, <3>1
    <3> HIDE DEF g
    <3> QED
      BY <3>1, <3>2, LoopLooksAhead
  <2>8. Solves(g, m)
    BY <2>7
  <2> QED
    BY <2>2, <2>8
<1> QED
  BY <1>2, <1>3

LEMMA OnRecvLoops ==
  ASSUME sent \in Seq(Kinds), NEW bytes \in Seq(BytesOf(Total))
  PROVE  \E f : /\ \A pos \in 0..Len(bytes) : f[pos] = Loop(f, bytes, pos)
                /\ OnRecv(bytes) = f[0]
<1> DEFINE fl == CHOOSE f : f = [pos \in 0..Len(bytes) |-> Loop(f, bytes, pos)]
<1>1. OnRecv(bytes) = fl[0]
  BY DEF OnRecv, Loop
<1>2. fl = [pos \in 0..Len(bytes) |-> Loop(fl, bytes, pos)]
  BY LoopExists
<1> HIDE DEF fl
<1>3. \A pos \in 0..Len(bytes) : fl[pos] = Loop(fl, bytes, pos)
  BY <1>2
<1> QED
  BY <1>1, <1>3

(* Facts of sequences in the form in which they are used below.            *)
LEMMA Joined ==
  ASSUME NEW S, NEW a \in Seq(S), NEW b \in Seq(S)
  PROVE  /\ a \o b \in Seq(S) /\ Len(a) \in Nat /\ Len(b) \in Nat
         /\ Len(a \o b) = Len(a) + Len(b)
         /\ \A j \in 1..Len(a) : (a \o b)[j] = a[j]
<1>1. Len(a) \in Nat /\ Len(b) \in Nat
  OBVIOUS
<1>2. \A j \in 1..Len(a) : j \in 1..(Len(a) + Len(b)) /\ j <= Len(a)
  BY <1>1
<1>3. /\ a \o b \in Seq(S) /\ Len(a \o b) = Len(a) + Len(b)
      /\ \A j \in 1..(Len(a) + Len(b)) :
           (a \o b)[j] = IF j <= Len(a) THEN a[j] ELSE b[j - Len(a)]
  BY ConcatProperties, Zenon
<1> QED
  BY <1>1, <1>2, <1>3

Regrouping(a, b, c) == (a \o b) \o c = a \o (b \o c)

LEMMA Regrouped ==
  ASSUME NEW S, NEW a \in Seq(S), NEW b \in Seq(S), NEW c \in Seq(S)
  PROVE  Regrouping(a, b, c)
  BY DEF Regrouping

Recutting(a, b, c, d) == a \o ((b \o c) \o d) = (a \o b) \o (c \o d)

LEMMA Recut ==
  ASSUME NEW S, NEW a \in Seq(S), NEW b \in Seq(S), NEW c \in Seq(S), NEW d \in Seq(S)
  PROVE  Recutting(a, b, c, d)
<1>1. c \o d \in Seq(S)
  OBVIOUS
<1>2. Regrouping(b, c, d)
  BY Regrouped, Zenon
<1>3. Regrouping(a, b, c \o d)
  BY <1>1, Regrouped, Zenon
<1> QED
  BY <1>2, <1>3, Zenon DEF Regrouping, Recutting

LEMMA Part ==
  ASSUME NEW S, NEW q \in Seq(S), NEW i \in 0..Len(q), NEW k \in i..Len(q)
  PROVE  /\ SubSeq(q, i + 1, k) \in Seq(S)
         /\ Len(SubSeq(q, i + 1, k)) = k - i
         /\ \A j \in 1..(k - i) : SubSeq(q, i + 1, k)[j] = q[i + j]
         /\ SubSeq(q, i + 1, k) \o SubSeq(q, k + 1, Len(q)) = SubSeq(q, i + 1, Len(q))
<1>1. Len(q) \in Nat /\ i \in Nat /\ k \in Nat
  OBVIOUS
<1>2. \A j \in (i + 1)..k : q[j] \in S
  BY <1>1
<1>3. /\ SubSeq(q, i + 1, k) \in Seq(S)
      /\ Len(SubSeq(q, i + 1, k)) = IF i + 1 <= k THEN k - (i + 1) + 1 ELSE 0
      /\ \A j \in 1..(k - (i + 1) + 1) : SubSeq(q, i + 1, k)[j] = q[(i + 1) + j - 1]
  BY <1>1, <1>2, SubSeqProperties
<1>4. k - (i + 1) + 1 = k - i /\ (~(i + 1 <= k) => k - i = 0)
      /\ \A j \in 1..(k - i) : (i + 1) + j - 1 = i + j
  BY <1>1
<1>5. i + 1 \in 1..(Len(q) + 1) /\ k \in ((i + 1) - 1)..Len(q) /\ Len(q) \in k..Len(q)
  BY <1>1
<1>6. SubSeq(q, i + 1, k) \o SubSeq(q, k + 1, Len(q)) = SubSeq(q, i + 1, Len(q))
  <2> DEFINE m == i + 1
  <2>1. m \in 1..(Len(q) + 1) /\ k \in (m - 1)..Len(q) /\ Len(q) \in k..Len(q)
    BY <1>5
  <2> HIDE DEF m
  <2>2. SubSeq(q, m, k) \o SubSeq(q, k + 1, Len(q)) = SubSeq(q, m, Len(q))
    BY <2>1, ConcatAdjacentSubSeq, Zenon
  <2> QED
    BY <2>2 DEF m
<1> QED
  BY <1>3, <1>4, <1>6

(* What is left of the stream begins with the next packet.                 *)
LEMMA NextPacket ==
  ASSUME sent \in Seq(Kinds), NEW h \in 0..Total, NEW u \in Seq(BytesOf(Total)), u # <<>>,
         First(h) \o u = First(Total)
  PROVE  /\ h + 1 \in 1..Total
         /\ \E v \in Seq(BytesOf(Total)) : u = Packet(h + 1, sent[h + 1].size) \o v
<1> DEFINE S == BytesOf(Total)
           p == Packet(h + 1, sent[h + 1].size)
<1>1. Total \in Nat /\ First(h) \in Seq(S) /\ Len(u) \in Nat /\ Len(u) # 0
  BY KindFields, FirstType
<1>2. h # Total
  <2>1. Len(First(h) \o u) = Len(First(h)) + Len(u)
    BY <1>1, ConcatProperties
  <2> QED
    BY <1>1, <2>1
<1>3. h + 1 \in 1..Total /\ h + 1 \in 0..Total /\ h \in 0..(Total - 1)
  BY <1>1, <1>2
<1>4. p \in Seq(S)
  BY <1>1, <1>3, KindFields, PacketBytes
<1>5. First(h + 1) = First(h) \o p
  BY <1>3, FirstNext
<1>6. PICK v \in Seq(S) : First(Total) = First(h + 1) \o v
  BY <1>3, FirstPrefix
<1> HIDE DEF S, p
<1>7. First(h) \o (p \o v) = (First(h) \o p) \o v /\ p \o v \in Seq(S)
  <2>1. First(h) \in Seq(S)
    BY <1>1
  <2> QED
    BY <1>4, <2>1
<1>8. u = p \o v
  <2> DEFINE a == First(h)
             x == p \o v
  <2>1. a \in Seq(S) /\ u \in Seq(S) /\ x \in Seq(S) /\ a \o u = a \o x
    BY <1>1, <1>5, <1>6, <1>7 DEF S
  <2> HIDE DEF a, x
  <2>2. u = x
    BY <2>1, ConcatSimplifications
  <2> QED
    BY <2>2 DEF x
<1> QED
  BY <1>3, <1>8 DEF S, p

(* When the next packet, c, has been handled, what is left is behind it.   *)
LEMMA PacketHandled ==
  ASSUME sent \in Seq(Kinds), NEW h \in 0..(Total - 1),
         NEW c \in Seq(BytesOf(Total)), NEW d \in Seq(BytesOf(Total)), NEW w \in Seq(BytesOf(Total)),
         c = Packet(h + 1, sent[h + 1].size),
         First(h) \o ((c \o d) \o w) = First(Total)
  PROVE  First(h + 1) \o (d \o w) = First(Total)
<1> DEFINE a == First(h)
<1>1. a \in Seq(BytesOf(Total)) /\ First(h + 1) = a \o c
  <2>1. h \in 0..Total
    BY KindFields
  <2> QED
    BY <2>1, FirstType, FirstNext
<1>2. a \o ((c \o d) \o w) = First(Total)
  OBVIOUS
<1> HIDE DEF a
<1> DEFINE S == BytesOf(Total)
<1>3. a \in Seq(S) /\ c \in Seq(S) /\ d \in Seq(S) /\ w \in Seq(S)
  BY <1>1
<1> HIDE DEF S
<1>4. Recutting(a, c, d, w)
  BY <1>3, Recut, Zenon
<1> QED
  BY <1>1, <1>2, <1>4 DEF Recutting

(* Where OnRecv finds a header it is that of the next packet; and when all *)
(* of the packet is there, it is cut out as it was sent.                   *)
LEMMA HeaderFound ==
  ASSUME sent \in Seq(Kinds), NEW bytes \in Seq(BytesOf(Total)), NEW w \in Seq(BytesOf(Total)),
         NEW pos \in 0..Len(bytes), NEW h \in 0..Total,
         First(h) \o (SubSeq(bytes, pos + 1, Len(bytes)) \o w) = First(Total),
         Verdict(bytes, pos) # "incomplete"
  PROVE  LET byte == bytes[pos + 1]
             end == pos + Stated(byte)
         IN  /\ h + 1 \in 1..Total
             /\ Stated(byte) = sent[h + 1].size /\ Throws(byte) = sent[h + 1].throws
             /\ Verdict(bytes, pos) = "packet" =>
                  /\ SubSeq(bytes, pos + 1, end) = Packet(h + 1, sent[h + 1].size)
                  /\ First(h + 1) \o (SubSeq(bytes, end + 1, Len(bytes)) \o w) = First(Total)
<1> DEFINE S == BytesOf(Total)
           L == Len(bytes)
           byte == bytes[pos + 1]
           tail == SubSeq(bytes, pos + 1, L)
           p == Packet(h + 1, sent[h + 1].size)
           end == pos + Stated(byte)
<1>1. L \in Nat /\ pos \in Nat /\ pos + 1 \in 1..L
  BY VerdictIs
<1>2. tail \in Seq(S) /\ Len(tail) = L - pos /\ \A j \in 1..(L - pos) : tail[j] = bytes[pos + j]
  <2>1. pos \in 0..Len(bytes) /\ L \in pos..Len(bytes)
    BY <1>1
  <2> QED
    BY <2>1, Part
<1>3. /\ tail \o w \in Seq(S) /\ Len(tail \o w) = Len(tail) + Len(w)
      /\ \A j \in 1..(L - pos) : (tail \o w)[j] = bytes[pos + j]
      /\ Len(w) \in Nat
  <2>1. tail \in Seq(S) /\ w \in Seq(S)
    BY <1>2
  <2> HIDE DEF tail, S
  <2>2. /\ tail \o w \in Seq(S) /\ Len(w) \in Nat
        /\ Len(tail \o w) = Len(tail) + Len(w)
        /\ \A j \in 1..Len(tail) : (tail \o w)[j] = tail[j]
    BY <2>1, Joined, Zenon
  <2> QED
    BY <1>2, <2>2
<1>4. tail \o w # <<>>
  <2>1. Len(tail \o w) # 0
    <3> HIDE DEF tail
    <3> QED
      BY <1>1, <1>2, <1>3
  <2> HIDE DEF tail
  <2> QED
    BY <2>1
<1>5. h + 1 \in 1..Total /\ \E v \in Seq(S) : tail \o w = p \o v
  BY <1>3, <1>4, NextPacket
<1>6. PICK v \in Seq(S) : tail \o w = p \o v
  BY <1>5
<1>7. /\ p \in Seq(S) /\ Len(p) > 0 /\ sent[h + 1].size \in Nat
      /\ Len(p) = IF sent[h + 1].size < HeaderSize THEN HeaderSize ELSE sent[h + 1].size
      /\ \A j \in 1..Len(p) : p[j] = [packet |-> h + 1, offset |-> j]
  <2>1. Total \in Nat /\ sent[h + 1].size \in Nat /\ h + 1 \in 1..Total
    BY <1>5, KindFields
  <2> DEFINE k == h + 1
             size == sent[k].size
  <2>2. Total \in Nat /\ size \in Nat /\ k \in 1..Total
    BY <2>1
  <2> HIDE DEF k, size
  <2>3. /\ Packet(k, size) \in Seq(BytesOf(Total)) /\ Len(Packet(k, size)) > 0
        /\ Len(Packet(k, size)) = IF size < HeaderSize THEN HeaderSize ELSE size
        /\ \A j \in 1..Len(Packet(k, size)) : Packet(k, size)[j] = [packet |-> k, offset |-> j]
    BY <2>2, PacketBytes
  <2> QED
    BY <2>1, <2>3 DEF k, size
<1>8. Len(p) \in Nat /\ \A j \in 1..Len(p) : (p \o v)[j] = p[j]
  <2>1. p \in Seq(S) /\ v \in Seq(S)
    BY <1>7
  <2> HIDE DEF p, S
  <2> QED
    BY <2>1, Joined, Zenon
<1>9. byte = [packet |-> h + 1, offset |-> 1]
  <2>1. 1 \in 1..(L - pos) /\ 1 \in 1..Len(p)
    BY <1>1, <1>7, <1>8
  <2> HIDE DEF p, tail, S, byte
  <2>2. (tail \o w)[1] = byte
    BY <1>3, <2>1 DEF byte
  <2> QED
    BY <1>6, <1>7, <1>8, <2>1, <2>2
<1>10. Stated(byte) = sent[h + 1].size /\ Throws(byte) = sent[h + 1].throws
  BY <1>9 DEF Stated, Throws
<1>11. ASSUME Verdict(bytes, pos) = "packet"
       PROVE  /\ SubSeq(bytes, pos + 1, end) = p
              /\ First(h + 1) \o (SubSeq(bytes, end + 1, L) \o w) = First(Total)
  <2>1. Stated(byte) \in HeaderSize..MaxPacketSize /\ end \in (pos + 1)..L
    BY <1>11, VerdictIs
  <2>2. Len(p) = end - pos
    <3>1. sent[h + 1].size \in HeaderSize..MaxPacketSize /\ end = pos + sent[h + 1].size
      BY <1>10, <2>1
    <3>2. Len(p) = sent[h + 1].size
      BY <1>7, <3>1, FramingAssumption
    <3> QED
      BY <1>1, <1>7, <3>1, <3>2
  <2> DEFINE c == SubSeq(bytes, pos + 1, end)
             d == SubSeq(bytes, end + 1, L)
  <2>3. /\ c \in Seq(S) /\ Len(c) = end - pos /\ \A j \in 1..(end - pos) : c[j] = bytes[pos + j]
        /\ tail = c \o d
    <3> HIDE DEF end
    <3>1. pos \in 0..Len(bytes) /\ end \in pos..Len(bytes)
      BY <1>1, <2>1
    <3> QED
      BY <3>1, Part
  <2>4. d \in Seq(S)
    <3> HIDE DEF end
    <3>1. end \in 0..Len(bytes) /\ L \in end..Len(bytes)
      BY <1>1, <2>1
    <3> QED
      BY <3>1, Part
  <2>6. c = p
    <3> HIDE DEF p, c, tail, S, end
    <3>1. \A j \in 1..(end - pos) : c[j] = p[j]
      <4> TAKE j \in 1..(end - pos)
      <4>1. j \in 1..(L - pos) /\ j \in 1..Len(p)
        BY <1>1, <2>1, <2>2
      <4> QED
        BY <1>3, <1>6, <1>8, <2>3, <4>1
    <3> QED
      BY <1>7, <2>2, <2>3, <3>1, SeqEqual
  <2>7. First(h + 1) \o (d \o w) = First(Total)
    <3>1. h \in 0..(Total - 1)
      BY <1>5, KindFields
    <3>2. First(h) \o ((c \o d) \o w) = First(Total)
      BY <2>3
    <3> HIDE DEF p, c, d, tail
    <3> QED
      BY <2>3, <2>4, <2>6, <3>1, <3>2, PacketHandled DEF p
  <2> QED
    BY <2>6, <2>7
<1> QED
  BY <1>5, <1>10, <1>11

-----------------------------------------------------------------------------
(* Of bytes, which continue what h packets have left and are followed by w *)
(* in the stream, nothing is handled yet from pos on.                      *)
Remains(bytes, pos, h, w) == First(h) \o (SubSeq(bytes, pos + 1, Len(bytes)) \o w) = First(Total)

(* r is what OnRecv should make of bytes after h packets.                  *)
Frames(r, bytes, h, w) ==
  LET n == h + Len(r.packets)
  IN  /\ r \in Results /\ r.read <= Len(bytes) /\ n <= Total
      /\ \A i \in 1..Len(r.packets) :
           r.packets[i] = Packet(h + i, sent[h + i].size) /\ Acceptable(sent[h + i])
      /\ r.reason = "open" => Remains(bytes, r.read, n, w) /\ Len(bytes) - r.read < MaxPacketSize
      /\ r.reason # "open" => /\ n < Total /\ ~Acceptable(sent[n + 1])
                             /\ r.read = Len(bytes)

LEMMA FrameAdded ==
  ASSUME NEW bytes, NEW h \in Nat, NEW w, NEW r, Frames(r, bytes, h + 1, w),
         h + 1 <= Total, sent \in Seq(Kinds),
         NEW packet \in Seq(BytesOf(Total)), packet = Packet(h + 1, sent[h + 1].size),
         Acceptable(sent[h + 1])
  PROVE  Frames([r EXCEPT !.packets = <<packet>> \o @], bytes, h, w)
<1> DEFINE S == Seq(BytesOf(Total))
           ps == r.packets
           qs == <<packet>> \o ps
           q == [r EXCEPT !.packets = qs]
<1>1. ps \in Seq(S) /\ r \in Results
  BY DEF Frames, Results
<1>2. <<packet>> \in Seq(S) /\ Len(<<packet>>) = 1 /\ <<packet>>[1] = packet
  OBVIOUS
<1>3. /\ qs \in Seq(S) /\ Len(ps) \in Nat /\ Len(qs) = 1 + Len(ps)
      /\ qs[1] = packet /\ \A i \in 1..Len(ps) : qs[i + 1] = ps[i]
  <2> HIDE DEF S, ps
  <2> QED
    BY <1>1, <1>2
<1> HIDE DEF ps, qs, S
<1>4. q \in Results /\ q.packets = qs /\ q.read = r.read /\ q.reason = r.reason
  BY <1>1, <1>3 DEF Results, S
<1>5. \A i \in 1..Len(qs) : qs[i] = Packet(h + i, sent[h + i].size) /\ Acceptable(sent[h + i])
  <2> TAKE i \in 1..Len(qs)
  <2>1. CASE i = 1
    BY <1>3, <2>1
  <2>2. CASE i # 1
    <3>1. i - 1 \in 1..Len(ps) /\ (i - 1) + 1 = i /\ (h + 1) + (i - 1) = h + i
      <4>1. i \in 1..(1 + Len(ps)) /\ Len(ps) \in Nat
        BY <1>3
      <4> QED
        BY <2>2, <4>1
    <3>2. qs[i] = ps[i - 1]
      BY <1>3, <3>1
    <3>3. /\ ps[i - 1] = Packet((h + 1) + (i - 1), sent[(h + 1) + (i - 1)].size)
          /\ Acceptable(sent[(h + 1) + (i - 1)])
      BY <3>1 DEF Frames, ps
    <3> QED
      BY <3>1, <3>2, <3>3
  <2> QED
    BY <2>1, <2>2
<1>6. h + Len(qs) = (h + 1) + Len(ps)
  BY <1>3
<1> HIDE DEF q
<1>7. /\ r.read <= Len(bytes) /\ (h + 1) + Len(ps) <= Total
      /\ r.reason = "open" =>
           Remains(bytes, r.read, (h + 1) + Len(ps), w) /\ Len(bytes) - r.read < MaxPacketSize
      /\ r.reason # "open" =>
           /\ (h + 1) + Len(ps) < Total /\ ~Acceptable(sent[((h + 1) + Len(ps)) + 1])
           /\ r.read = Len(bytes)
  BY DEF Frames, ps
<1>8. Frames(q, bytes, h, w)
  BY <1>4, <1>5, <1>6, <1>7 DEF Frames
<1> QED
  BY <1>8 DEF q, qs, ps

LEMMA LoopStep ==
  ASSUME sent \in Seq(Kinds), NEW bytes \in Seq(BytesOf(Total)), NEW w \in Seq(BytesOf(Total)),
         NEW pos \in 0..Len(bytes), NEW h \in 0..Total, Remains(bytes, pos, h, w),
         NEW f, \A p \in (pos + 1)..Len(bytes), k \in 0..Total :
                  Remains(bytes, p, k, w) => Frames(f[p], bytes, k, w)
  PROVE  Frames(Loop(f, bytes, pos), bytes, h, w)
<1> DEFINE v == Verdict(bytes, pos)
           byte == bytes[pos + 1]
           end == pos + Stated(byte)
           packet == SubSeq(bytes, pos + 1, end)
<1>1. Total \in Nat /\ h \in Nat /\ Len(bytes) \in Nat /\ pos \in Nat /\ h + 0 = h
  BY KindFields
<1>2. /\ v \in {"incomplete", "underflow", "overflow", "exception", "packet"}
      /\ v = "incomplete" => Len(bytes) - pos < MaxPacketSize
      /\ v = "packet" => /\ Stated(byte) \in HeaderSize..MaxPacketSize /\ ~Throws(byte)
                         /\ end \in (pos + 1)..Len(bytes)
      /\ v \in {"underflow", "overflow", "exception"} =>
           Stated(byte) < HeaderSize \/ Stated(byte) > MaxPacketSize \/ Throws(byte)
  BY VerdictIs
<1>3. v # "incomplete" =>
        /\ h + 1 \in 1..Total
        /\ Stated(byte) = sent[h + 1].size /\ Throws(byte) = sent[h + 1].throws
        /\ v = "packet" => /\ packet = Packet(h + 1, sent[h + 1].size)
                           /\ Remains(bytes, end, h + 1, w)
  BY HeaderFound DEF Remains
<1>4. <<>> \in Seq(Seq(BytesOf(Total))) /\ Len(<<>>) = 0
  OBVIOUS
<1>5. CASE v = "incomplete"
  <2>1. Loop(f, bytes, pos) = [packets |-> <<>>, read |-> pos, reason |-> "open"]
    BY <1>5 DEF Loop
  <2> QED
    BY <1>1, <1>2, <1>4, <1>5, <2>1 DEF Frames, Results
<1>6. CASE v \in {"underflow", "overflow", "exception"}
  <2>1. Loop(f, bytes, pos) = [packets |-> <<>>, read |-> Len(bytes), reason |-> v]
    BY <1>6 DEF Loop
  <2>2. ~Acceptable(sent[h + 1]) /\ h < Total
    <3>1. h + 1 \in 1..Total
      BY <1>3, <1>6
    <3>2. h < Total
      BY <1>1, <3>1
    <3>3. /\ Stated(byte) = sent[h + 1].size /\ Throws(byte) = sent[h + 1].throws
          /\ Stated(byte) < HeaderSize \/ Stated(byte) > MaxPacketSize \/ Throws(byte)
      BY <1>2, <1>3, <1>6, Zenon
    <3>4. sent[h + 1].size \in Nat
      BY <3>1, KindFields
    <3> HIDE DEF byte, v
    <3>5. ~Acceptable(sent[h + 1])
      BY <3>3, <3>4, FramingAssumption DEF Acceptable
    <3> QED
      BY <3>2, <3>5
  <2> HIDE DEF v
  <2> QED
    BY <1>1, <1>4, <1>6, <2>1, <2>2 DEF Frames, Results
<1>7. CASE v = "packet"
  <2>1. Loop(f, bytes, pos) = [f[end] EXCEPT !.packets = <<packet>> \o @]
    BY <1>7 DEF Loop
  <2>2. /\ h + 1 \in 1..Total /\ packet = Packet(h + 1, sent[h + 1].size)
        /\ Remains(bytes, end, h + 1, w) /\ end \in (pos + 1)..Len(bytes)
        /\ Acceptable(sent[h + 1])
    <3>1. sent[h + 1].size \in HeaderSize..MaxPacketSize /\ ~sent[h + 1].throws
      BY <1>2, <1>3, <1>7
    <3> QED
      BY <1>2, <1>3, <1>7, <3>1 DEF Acceptable
  <2>3. packet \in Seq(BytesOf(Total))
    BY <2>2
  <2> HIDE DEF packet, end
  <2>4. h + 1 \in 0..Total /\ h + 1 <= Total
    BY <1>1, <2>2
  <2>5. Frames(f[end], bytes, h + 1, w)
    BY <2>2, <2>4
  <2>6. Frames([f[end] EXCEPT !.packets = <<packet>> \o @], bytes, h, w)
    BY <1>1, <2>2, <2>3, <2>4, <2>5, FrameAdded
  <2> QED
    BY <2>1, <2>6
<1> QED
  BY <1>2, <1>5, <1>6, <1>7

(* OnRecv hands on the next packets of the stream as they were sent.       *)
LEMMA OnRecvFrames ==
  ASSUME sent \in Seq(Kinds), NEW bytes \in Seq(BytesOf(Total)), NEW w \in Seq(BytesOf(Total)),
         NEW h \in 0..Total, First(h) \o (bytes \o w) = First(Total)
  PROVE  Frames(OnRecv(bytes), bytes, h, w)
<1> DEFINE L == Len(bytes)
<1>1. PICK f : /\ \A pos \in 0..L : f[pos] = Loop(f, bytes, pos)
               /\ OnRecv(bytes) = f[0]
  BY OnRecvLoops
<1> DEFINE Fine(pos) == \A k \in 0..Total : Remains(bytes, pos, k, w) => Frames(f[pos], bytes, k, w)
           B == {pos \in 0..L : ~Fine(pos)}
<1>2. L \in Nat /\ B \subseteq 0..L /\ SubSeq(bytes, 0 + 1, L) = bytes
  OBVIOUS
<1>3. CASE B # {}
  <2>1. \E m \in B : \A k \in B : k <= m
    <3> HIDE DEF B, L
    <3> QED
      BY <1>2, <1>3, GreatestOf, Zenon
  <2>2. PICK m \in B : \A k \in B : k <= m
    BY <2>1
  <2>3. m \in 0..L /\ ~Fine(m)
    BY <2>2
  <2>4. \A p \in (m + 1)..L : Fine(p)
    <3> TAKE p \in (m + 1)..L
    <3>1. p \in 0..L /\ ~(p <= m)
      BY <1>2, <2>3
    <3> HIDE DEF Fine
    <3> QED
      BY <2>2, <3>1
  <2>5. ASSUME NEW k \in 0..Total, Remains(bytes, m, k, w) PROVE Frames(f[m], bytes, k, w)
    <3>1. Frames(Loop(f, bytes, m), bytes, k, w)
      BY <2>3, <2>4, <2>5, LoopStep
    <3> QED
      BY <1>1, <2>3, <3>1
  <2> QED
    BY <2>3, <2>5
<1>4. CASE B = {}
  <2>1. 0 \in 0..L
    BY <1>2
  <2>2. Fine(0)
    <3> HIDE DEF Fine, L
    <3> QED
      BY <1>4, <2>1
  <2>3. Remains(bytes, 0, h, w)
    BY <1>2 DEF Remains
  <2> QED
    BY <1>1, <2>2, <2>3
<1> QED
  BY <1>3, <1>4

-----------------------------------------------------------------------------
(* The receive buffer.                                                     *)
Buffers == [bytes: [1..capacity -> BytesOf(Total) \cup {NoByte}],
            readPos: Nat, writePos: 0..capacity]

(* A buffer whose unread bytes are of the stream.                          *)
Filled(b) ==
  /\ b \in Buffers /\ b.readPos <= b.writePos
  /\ \A i \in (b.readPos + 1)..b.writePos : b.bytes[i] \in BytesOf(Total)

LEMMA Capacity == capacity \in Nat /\ capacity >= 2 * bufferSize /\ bufferSize \in Nat
<1>1. BufferCount \in Nat /\ bufferSize \in Nat /\ BufferCount >= 2
  BY FramingAssumption
<1>2. bufferSize * BufferCount \in Nat /\ bufferSize * BufferCount >= bufferSize * 2
  BY <1>1
<1> QED
  BY <1>1, <1>2 DEF capacity

LEMMA Span ==
  ASSUME NEW b, Filled(b)
  PROVE  /\ ReadSpan(b) \in Seq(BytesOf(Total)) /\ DataSize(b) \in Nat
         /\ Len(ReadSpan(b)) = DataSize(b)
         /\ \A j \in 1..DataSize(b) : ReadSpan(b)[j] = b.bytes[b.readPos + j]
<1>1. /\ b.readPos \in Nat /\ b.writePos \in Nat /\ b.readPos <= b.writePos
      /\ \A i \in (b.readPos + 1)..b.writePos : b.bytes[i] \in BytesOf(Total)
  BY Capacity DEF Filled, Buffers
<1> DEFINE m == b.readPos + 1
           n == b.writePos
<1>2. /\ SubSeq(b.bytes, m, n) \in Seq(BytesOf(Total))
      /\ Len(SubSeq(b.bytes, m, n)) = IF m <= n THEN n - m + 1 ELSE 0
      /\ \A j \in 1..(n - m + 1) : SubSeq(b.bytes, m, n)[j] = b.bytes[m + j - 1]
  <2>1. m \in Int /\ n \in Int /\ \A i \in m..n : b.bytes[i] \in BytesOf(Total)
    BY <1>1
  <2> HIDE DEF m, n
  <2> QED
    BY <2>1, SubSeqProperties
<1>3. n - m + 1 = DataSize(b) /\ (~(m <= n) => DataSize(b) = 0) /\ DataSize(b) \in Nat
      /\ \A j \in 1..DataSize(b) : m + j - 1 = b.readPos + j
  BY <1>1 DEF DataSize
<1> QED
  BY <1>2, <1>3 DEF ReadSpan

(* Receiving writes behind what is there ...                               *)
LEMMA Written ==
  ASSUME NEW b, Filled(b), NEW chunk \in Seq(BytesOf(Total)), Len(chunk) <= FreeSize(b)
  PROVE  LET c == OnWrite(b, chunk)
         IN  Filled(c) /\ ReadSpan(c) = ReadSpan(b) \o chunk
<1> DEFINE n == Len(chunk)
           c == OnWrite(b, chunk)
           S == BytesOf(Total)
<1>1. /\ n \in Nat /\ b.readPos \in Nat /\ b.writePos \in Nat /\ b.readPos <= b.writePos
      /\ b.writePos + n <= capacity /\ capacity \in Nat
      /\ \A j \in 1..n : chunk[j] \in S
      /\ \A i \in 1..capacity : b.bytes[i] \in S \cup {NoByte}
      /\ \A i \in (b.readPos + 1)..b.writePos : b.bytes[i] \in S
  BY Capacity DEF Filled, Buffers, FreeSize
<1> DEFINE new == [i \in 1..capacity |-> IF i \in (b.writePos + 1)..(b.writePos + n)
                                           THEN chunk[i - b.writePos] ELSE b.bytes[i]]
<1>2. /\ c = [b EXCEPT !.bytes = new, !.writePos = b.writePos + n]
      /\ c.bytes = new /\ c.readPos = b.readPos /\ c.writePos = b.writePos + n
  BY DEF OnWrite, Filled, Buffers
<1>3. \A i \in (b.writePos + 1)..(b.writePos + n) : i \in 1..capacity /\ i - b.writePos \in 1..n
  BY <1>1
<1>4. new \in [1..capacity -> S \cup {NoByte}]
  BY <1>1, <1>3
<1>5. \A j \in 1..n : new[b.writePos + j] = chunk[j]
  BY <1>1
<1>6. \A i \in 1..b.writePos : new[i] = b.bytes[i]
  BY <1>1
<1> HIDE DEF new, c, n
<1>7. Filled(c)
  <2>1. c \in Buffers
    <3>1. b \in Buffers /\ b.writePos + n \in 0..capacity
      BY <1>1 DEF Filled
    <3> HIDE DEF S
    <3> QED
      BY <1>2, <1>4, <3>1 DEF Buffers, S
  <2>2. ASSUME NEW i \in (c.readPos + 1)..c.writePos PROVE c.bytes[i] \in S
    <3>1. CASE i <= b.writePos
      <4>1. i \in 1..b.writePos /\ i \in (b.readPos + 1)..b.writePos
        BY <1>1, <1>2, <3>1
      <4> QED
        BY <1>1, <1>2, <1>6, <4>1
    <3>2. CASE ~(i <= b.writePos)
      <4>1. i - b.writePos \in 1..n /\ b.writePos + (i - b.writePos) = i
        BY <1>1, <1>2, <3>2
      <4> QED
        BY <1>1, <1>2, <1>5, <4>1
    <3> QED
      BY <3>1, <3>2
  <2> QED
    BY <1>1, <1>2, <2>1, <2>2 DEF Filled, S
<1>8. ReadSpan(c) = ReadSpan(b) \o chunk
  <2> DEFINE d == DataSize(b)
             x == ReadSpan(b)
             y == ReadSpan(c)
  <2>1. /\ x \in Seq(S) /\ d \in Nat /\ Len(x) = d
        /\ \A j \in 1..d : x[j] = b.bytes[b.readPos + j]
    BY Span
  <2>2. DataSize(c) = d + n /\ b.readPos + d = b.writePos
    BY <1>1, <1>2 DEF DataSize
  <2>3. /\ y \in Seq(S) /\ Len(y) = d + n
        /\ \A j \in 1..(d + n) : y[j] = new[b.readPos + j]
    <3> HIDE DEF d
    <3>1. /\ y \in Seq(S) /\ Len(y) = DataSize(c)
          /\ \A j \in 1..DataSize(c) : y[j] = c.bytes[c.readPos + j]
      BY <1>7, Span
    <3> HIDE DEF y, S
    <3> QED
      BY <1>2, <2>2, <3>1
  <2> HIDE DEF d, x, y
  <2>4. /\ x \o chunk \in Seq(S) /\ Len(x \o chunk) = d + n
        /\ \A j \in 1..(d + n) : (x \o chunk)[j] = IF j <= d THEN x[j] ELSE chunk[j - d]
    <3>1. /\ x \o chunk \in Seq(S) /\ Len(x \o chunk) = Len(x) + Len(chunk)
          /\ \A j \in 1..(Len(x) + Len(chunk)) :
               (x \o chunk)[j] = IF j <= Len(x) THEN x[j] ELSE chunk[j - Len(x)]
      BY <2>1, ConcatProperties DEF S
    <3> QED
      BY <2>1, <3>1 DEF n
  <2>5. \A j \in 1..(d + n) : y[j] = (x \o chunk)[j]
    <3> TAKE j \in 1..(d + n)
    <3>1. CASE j <= d
      <4>1. j \in 1..d /\ b.readPos + j \in 1..b.writePos
        BY <1>1, <2>1, <2>2, <3>1
      <4> QED
        BY <1>6, <2>1, <2>3, <2>4, <3>1, <4>1
    <3>2. CASE ~(j <= d)
      <4>1. j - d \in 1..n /\ b.readPos + j = b.writePos + (j - d)
        BY <1>1, <2>1, <2>2, <3>2
      <4> QED
        BY <1>5, <2>3, <2>4, <3>2, <4>1
    <3> QED
      BY <3>1, <3>2
  <2>6. y = x \o chunk
    BY <2>3, <2>4, <2>5, SeqEqual
  <2> QED
    BY <2>6 DEF x, y
<1> QED
  BY <1>7, <1>8 DEF c

(* ... reading takes from the front ...                                    *)
LEMMA ReadOff ==
  ASSUME NEW b, Filled(b), NEW k \in 0..DataSize(b)
  PROVE  LET c == OnRead(b, k)
         IN  /\ Filled(c) /\ DataSize(c) = DataSize(b) - k
             /\ ReadSpan(c) = SubSeq(ReadSpan(b), k + 1, Len(ReadSpan(b)))
<1> DEFINE c == OnRead(b, k)
           S == BytesOf(Total)
           d == DataSize(b)
<1>1. b.readPos \in Nat /\ b.writePos \in Nat /\ b.readPos <= b.writePos /\ d \in Nat
  BY Capacity, Span DEF Filled, Buffers
<1>2. c.bytes = b.bytes /\ c.readPos = b.readPos + k /\ c.writePos = b.writePos /\ c \in Buffers
  BY <1>1 DEF OnRead, Filled, Buffers
<1> HIDE DEF c
<1>3. Filled(c) /\ DataSize(c) = d - k
  <2>1. c.readPos <= c.writePos /\ DataSize(c) = d - k
    BY <1>1, <1>2 DEF DataSize
  <2>2. \A i \in (c.readPos + 1)..c.writePos : i \in (b.readPos + 1)..b.writePos
    BY <1>1, <1>2
  <2> QED
    BY <1>2, <2>1, <2>2 DEF Filled
<1>4. ReadSpan(c) = SubSeq(ReadSpan(b), k + 1, Len(ReadSpan(b)))
  <2> DEFINE x == ReadSpan(b)
             y == ReadSpan(c)
  <2>1. /\ x \in Seq(S) /\ Len(x) = d
        /\ \A j \in 1..d : x[j] = b.bytes[b.readPos + j]
    BY Span
  <2>2. /\ y \in Seq(S) /\ Len(y) = d - k
        /\ \A j \in 1..(d - k) : y[j] = b.bytes[(b.readPos + k) + j]
    BY <1>2, <1>3, Span
  <2> HIDE DEF x, y, d
  <2>3. /\ SubSeq(x, k + 1, Len(x)) \in Seq(S) /\ Len(SubSeq(x, k + 1, Len(x))) = d - k
        /\ \A j \in 1..(d - k) : SubSeq(x, k + 1, Len(x))[j] = x[k + j]
    <3>1. k \in 0..Len(x) /\ Len(x) \in k..Len(x)
      BY <1>1, <2>1 DEF d
    <3> QED
      BY <2>1, <3>1, Part
  <2>4. \A j \in 1..(d - k) : y[j] = SubSeq(x, k + 1, Len(x))[j]
    <3> TAKE j \in 1..(d - k)
    <3>1. k + j \in 1..d /\ b.readPos + (k + j) = (b.readPos + k) + j
      BY <1>1 DEF d
    <3> QED
      BY <2>1, <2>2, <2>3, <3>1
  <2>5. y = SubSeq(x, k + 1, Len(x))
    <3> HIDE DEF S
    <3> QED
      BY <2>2, <2>3, <2>4, SeqEqual
  <2> QED
    BY <2>5 DEF x, y
<1> QED
  BY <1>3, <1>4 DEF c

(* ... and Clean makes room and leaves what is to be read as it was.       *)
LEMMA Cleaned ==
  ASSUME NEW b, Filled(b), DataSize(b) < MaxPacketSize
  PROVE  LET c == Clean(b)
         IN  Filled(c) /\ ReadSpan(c) = ReadSpan(b) /\ FreeSize(c) >= bufferSize
<1> DEFINE c == Clean(b)
           S == BytesOf(Total)
           d == DataSize(b)
<1>1. /\ b \in Buffers /\ b.readPos \in Nat /\ b.writePos \in 0..capacity
      /\ b.readPos <= b.writePos /\ d \in Nat /\ capacity \in Nat
      /\ b.readPos + d = b.writePos
      /\ b.bytes \in [1..capacity -> S \cup {NoByte}]
      /\ \A i \in (b.readPos + 1)..b.writePos : b.bytes[i] \in S
  BY Capacity, Span DEF Filled, Buffers, DataSize
<1>2. capacity >= 2 * bufferSize /\ bufferSize \in Nat /\ MaxPacketSize <= bufferSize
      /\ d < bufferSize /\ FreeSize(b) = capacity - b.writePos /\ MaxPacketSize \in Nat
  BY <1>1, Capacity, FramingAssumption DEF FreeSize
<1>3. CASE d = 0
  <2>1. c = [b EXCEPT !.readPos = 0, !.writePos = 0]
    BY <1>3 DEF Clean
  <2> HIDE DEF c, d
  <2>2. c \in Buffers /\ c.readPos = 0 /\ c.writePos = 0
    <3>1. b \in Buffers /\ 0 \in Nat /\ 0 \in 0..capacity
      BY <1>1
    <3> QED
      BY <2>1, <3>1 DEF Buffers
  <2>3. Filled(c) /\ FreeSize(c) >= bufferSize /\ DataSize(c) = 0
    BY <1>1, <1>2, <2>2 DEF Filled, FreeSize, DataSize
  <2>4. Len(ReadSpan(b)) = 0 /\ Len(ReadSpan(c)) = 0
        /\ ReadSpan(b) \in Seq(S) /\ ReadSpan(c) \in Seq(S)
    BY <1>3, <2>3, Span DEF d
  <2>5. ReadSpan(c) = ReadSpan(b)
    BY <2>4
  <2> QED
    BY <2>3, <2>5 DEF c
<1>4. CASE d > 0 /\ FreeSize(b) < bufferSize
  <2> DEFINE new == [i \in 1..capacity |->
                       IF i \in 1..d THEN b.bytes[b.readPos + i] ELSE b.bytes[i]]
  <2>1. c = [bytes |-> new, readPos |-> 0, writePos |-> d]
    BY <1>4 DEF Clean
  <2>2. \A i \in 1..d : /\ b.readPos + i \in (b.readPos + 1)..b.writePos
                        /\ i \in 1..capacity
    BY <1>1
  <2>3. new \in [1..capacity -> S \cup {NoByte}]
    BY <1>1, <2>2
  <2>4. \A i \in 1..d : new[i] = b.bytes[b.readPos + i] /\ new[i] \in S
    BY <1>1, <2>2
  <2> HIDE DEF new
  <2>5. c.bytes = new /\ c.readPos = 0 /\ c.writePos = d /\ d \in 0..capacity
    BY <1>1, <2>1
  <2>6. Filled(c)
    <3>1. c \in Buffers
      BY <2>1, <2>3, <2>5 DEF Buffers
    <3> HIDE DEF c, d
    <3>2. \A i \in (c.readPos + 1)..c.writePos : c.bytes[i] \in S
      BY <2>4, <2>5
    <3> QED
      BY <1>1, <2>5, <3>1, <3>2 DEF Filled
  <2>7. FreeSize(c) >= bufferSize /\ DataSize(c) = d
    <3> HIDE DEF c, d
    <3> QED
      BY <1>1, <1>2, <2>5 DEF FreeSize, DataSize
  <2>8. ReadSpan(c) = ReadSpan(b)
    <3> DEFINE x == ReadSpan(b)
               y == ReadSpan(c)
    <3>1. /\ x \in Seq(S) /\ Len(x) = d
          /\ \A j \in 1..d : x[j] = b.bytes[b.readPos + j]
      BY Span
    <3>2. y \in Seq(S) /\ Len(y) = d /\ \A j \in 1..d : y[j] = c.bytes[c.readPos + j]
      BY <2>6, <2>7, Span
    <3> HIDE DEF x, y, d, c
    <3>3. \A j \in 1..d : y[j] = x[j]
      <4> TAKE j \in 1..d
      <4>1. c.readPos + j = j
        BY <1>1, <2>5
      <4> QED
        BY <2>4, <2>5, <3>1, <3>2, <4>1
    <3>4. y = x
      BY <3>1, <3>2, <3>3, SeqEqual
    <3> QED
      BY <3>4 DEF x, y
  <2> QED
    BY <2>6, <2>7, <2>8
<1>5. CASE d > 0 /\ ~(FreeSize(b) < bufferSize)
  <2>1. c = b
    BY <1>1, <1>5 DEF Clean
  <2> QED
    BY <1>1, <1>2, <1>5, <2>1
<1> QED
  BY <1>1, <1>3, <1>4, <1>5

-----------------------------------------------------------------------------
(* The handled packets are the first of the stream; while the connection   *)
(* is open the unread bytes and those to come are the rest of it, and the  *)
(* buffer has room.  Each byte belongs to a packet that was sent.          *)
FramingInv ==
  /\ sent \in Seq(Kinds) /\ Total <= MaxPackets
  /\ incoming \in Seq(BytesOf(Total))
  /\ Filled(rb)
  /\ handled \in Seq(Seq(BytesOf(Total))) /\ Len(handled) <= Total
  /\ \A i \in 1..Len(handled) : handled[i] = Packet(i, sent[i].size)
  /\ reason \in {"open", "recv 0", "underflow", "overflow", "exception"}
  /\ reason = "open" => First(Len(handled)) \o (ReadSpan(rb) \o incoming) = First(Total)
  /\ RoomToReceive

LEMMA SeqWider ==
  ASSUME NEW S, NEW T, S \subseteq T
  PROVE  Seq(S) \subseteq Seq(T)
<1> SUFFICES ASSUME NEW q \in Seq(S) PROVE q \in Seq(T)
  OBVIOUS
<1>1. Len(q) \in Nat /\ q \in [1..Len(q) -> S]
  OBVIOUS
<1>2. q \in [1..Len(q) -> T]
  BY <1>1
<1> QED
  BY <1>1, <1>2

LEMMA FunctionIsSeq ==
  ASSUME NEW U, NEW n \in Nat, NEW b \in [1..n -> U]
  PROVE  b \in Seq(U) /\ Len(b) = n
  OBVIOUS

LEMMA FramingInitially == FramingInit => FramingInv
<1> SUFFICES ASSUME FramingInit PROVE FramingInv
  OBVIOUS
<1> USE DEF FramingInit
<1>1. sent = <<>> /\ Total = 0 /\ Len(handled) = 0 /\ handled = <<>> /\ incoming = <<>>
  BY DEF Total
<1>2. Filled(rb) /\ DataSize(rb) = 0 /\ FreeSize(rb) >= bufferSize
  <2>1. rb = [bytes |-> [i \in 1..capacity |-> NoByte], readPos |-> 0, writePos |-> 0]
    BY DEF Empty
  <2>2. rb \in Buffers
    BY <2>1, Capacity DEF Buffers
  <2> QED
    BY <2>1, <2>2, Capacity DEF Filled, DataSize, FreeSize
<1>3. ReadSpan(rb) = <<>>
  BY <1>2, Span
<1>4. First(Len(handled)) \o (ReadSpan(rb) \o incoming) = First(Total)
  <2>1. Firsts(0) = <<>>
    BY DEF Firsts
  <2>2. First(0) = <<>>
    BY <2>1, FlattenEmpty DEF First
  <2>3. <<>> \o (<<>> \o <<>>) = <<>>
    OBVIOUS
  <2> QED
    BY <1>1, <1>3, <2>2, <2>3
<1>5. sent \in Seq(Kinds) /\ incoming \in Seq(BytesOf(Total)) /\ handled \in Seq(Seq(BytesOf(Total)))
  BY <1>1
<1> QED
  BY <1>1, <1>2, <1>4, <1>5, FramingAssumption DEF FramingInv, RoomToReceive

(* What one packet more changes.                                           *)
LEMMA OneMoreSent ==
  ASSUME sent \in Seq(Kinds), NEW kind \in Kinds, sent' = Append(sent, kind)
  PROVE  /\ sent' \in Seq(Kinds) /\ Total \in Nat /\ Total' = Total + 1
         /\ \A i \in 1..Total : sent'[i] = sent[i]
         /\ \A k \in 0..Total : First(k)' = First(k)
         /\ First(Total)' = First(Total) \o Packet(Total + 1, kind.size)
         /\ Packet(Total + 1, kind.size) \in Seq(BytesOf(Total'))
<1>1. /\ Total \in Nat /\ Total' = Total + 1 /\ sent' \in Seq(Kinds)
      /\ sent'[Total + 1] = kind /\ \A i \in 1..Total : sent'[i] = sent[i]
  BY DEF Total
<1>2. ASSUME NEW k \in 0..Total PROVE First(k)' = First(k)
  <2>1. \A i \in 1..k : sent'[i] = sent[i]
    <3>1. \A i \in 1..k : i \in 1..Total
      BY <1>1
    <3> QED
      BY <1>1, <3>1
  <2>2. [i \in 1..k |-> Packet(i, sent'[i].size)] = [i \in 1..k |-> Packet(i, sent[i].size)]
    BY <2>1
  <2> QED
    BY <2>2 DEF First, Firsts
<1> DEFINE p == Packet(Total + 1, kind.size)
           n == Total + 1
           S == BytesOf(n)
<1>3. p \in Seq(S)
  <2>1. n \in Nat /\ n \in 1..n /\ kind.size \in Nat
    BY <1>1, FramingAssumption
  <2> HIDE DEF n
  <2>2. Packet(n, kind.size) \in Seq(BytesOf(n))
    BY <2>1, PacketBytes
  <2> QED
    BY <2>2 DEF n
<1>4. Firsts(Total) \in Seq(Seq(S)) /\ Len(Firsts(Total)) = Total
  <2>1. Firsts(Total) \in Seq(Seq(BytesOf(Total))) /\ Len(Firsts(Total)) = Total
    BY <1>1, FirstsType
  <2>2. BytesOf(Total) \subseteq S
    BY <1>1 DEF BytesOf
  <2> QED
    BY <2>1, <2>2, SeqWider
<1>5. First(Total)' = First(Total) \o p
  <2> DEFINE a == Firsts(Total)
             b == [i \in 1..n |-> Packet(i, sent'[i].size)]
  <2>1. First(Total)' = FlattenSeq(b)
    BY <1>1 DEF First, Firsts
  <2>2. \A i \in 1..Total : b[i] = a[i]
    <3> TAKE i \in 1..Total
    <3>1. i \in 1..n
      BY <1>1
    <3>2. sent'[i] = sent[i]
      BY <1>1, Zenon
    <3>3. a[i] = Packet(i, sent[i].size)
      BY DEF Firsts
    <3> QED
      BY <3>1, <3>2, <3>3
  <2>3. b[n] = p
    <3>1. n \in 1..n /\ sent'[n] = kind
      BY <1>1
    <3> QED
      BY <3>1
  <2>4. b = Append(a, p)
    <3>1. b \in Seq(Seq(S)) /\ Len(b) = n
      <4>1. \A i \in 1..n : b[i] \in Seq(S)
        <5> TAKE i \in 1..n
        <5>1. CASE i = n
          BY <1>3, <2>3, <5>1
        <5>2. CASE i # n
          <6>1. i \in 1..Total
            BY <1>1, <5>2
          <6> HIDE DEF a, b
          <6> QED
            BY <1>4, <2>2, <6>1 DEF a
        <5> QED
          BY <5>1, <5>2
      <4>2. n \in Nat
        BY <1>1
      <4> DEFINE U == Seq(S)
      <4> HIDE DEF n, U
      <4>3. b \in [1..n -> U]
        BY <4>1 DEF U
      <4>4. b \in Seq(U) /\ Len(b) = n
        BY <4>2, <4>3, FunctionIsSeq, Zenon
      <4> QED
        BY <4>4 DEF U
    <3> HIDE DEF b, p, S
    <3>2. Append(a, p) \in Seq(Seq(S)) /\ Len(Append(a, p)) = n
      BY <1>1, <1>3, <1>4
    <3>3. \A i \in 1..n : b[i] = Append(a, p)[i]
      <4> TAKE i \in 1..n
      <4>1. CASE i = n
        BY <1>1, <1>3, <1>4, <2>3, <4>1
      <4>2. CASE i # n
        <5>1. i \in 1..Total
          BY <1>1, <4>2
        <5> QED
          BY <1>3, <1>4, <2>2, <5>1
      <4> QED
        BY <4>1, <4>2
    <3> QED
      BY <3>1, <3>2, <3>3, SeqEqual
  <2> HIDE DEF a, b, p, S
  <2>5. FlattenSeq(Append(a, p)) = FlattenSeq(a) \o p
    BY <1>3, <1>4, FlattenAppend DEF a
  <2> QED
    BY <2>1, <2>4, <2>5 DEF First, a
<1> QED
  BY <1>1, <1>2, <1>3, <1>5

LEMMA SendKeeps ==
  ASSUME FramingInv, NEW kind \in Kinds, SendPacket(kind)
  PROVE  FramingInv'
<1> DEFINE S == BytesOf(Total)
           T == BytesOf(Total')
           p == Packet(Total + 1, kind.size)
<1>1. /\ sent \in Seq(Kinds) /\ incoming \in Seq(S) /\ Filled(rb)
      /\ handled \in Seq(Seq(S)) /\ Len(handled) <= Total /\ Len(handled) \in Nat
      /\ \A i \in 1..Len(handled) : handled[i] = Packet(i, sent[i].size)
  <2> DEFINE U == Seq(S)
  <2>1. handled \in Seq(U)
    BY DEF FramingInv
  <2> HIDE DEF U
  <2>2. Len(handled) \in Nat
    BY <2>1
  <2> QED
    BY <2>2 DEF FramingInv
<1>2. /\ Len(sent) < MaxPackets /\ sent' = Append(sent, kind)
      /\ incoming' = incoming \o p
      /\ UNCHANGED <<rb, handled, reason>>
  BY DEF SendPacket, Total
<1>3. /\ sent' \in Seq(Kinds) /\ Total \in Nat /\ Total' = Total + 1
      /\ \A i \in 1..Total : sent'[i] = sent[i]
      /\ \A k \in 0..Total : First(k)' = First(k)
      /\ First(Total)' = First(Total) \o p
      /\ p \in Seq(T)
  BY <1>1, <1>2, OneMoreSent
<1>4. S \subseteq T /\ Seq(S) \subseteq Seq(T) /\ Seq(Seq(S)) \subseteq Seq(Seq(T))
  <2>1. S \subseteq T
    BY <1>3 DEF BytesOf
  <2> HIDE DEF S, T
  <2>2. Seq(S) \subseteq Seq(T)
    BY <2>1, SeqWider
  <2>3. Seq(Seq(S)) \subseteq Seq(Seq(T))
    BY <2>2, SeqWider
  <2> QED
    BY <2>1, <2>2, <2>3
<1>5. Total' <= MaxPackets /\ Len(handled)' <= Total'
  BY <1>1, <1>2, <1>3, FramingAssumption DEF Total
<1>6. incoming' \in Seq(T)
  <2>1. incoming \in Seq(T)
    BY <1>1, <1>4
  <2> HIDE DEF T, p
  <2> QED
    BY <1>2, <1>3, <2>1
<1>7. Filled(rb)'
  <2>1. rb.bytes \in [1..capacity -> S \cup {NoByte}]
    BY <1>1 DEF Filled, Buffers
  <2> HIDE DEF S, T
  <2>2. rb.bytes \in [1..capacity -> T \cup {NoByte}]
    BY <1>4, <2>1
  <2>3. rb \in [bytes: [1..capacity -> T \cup {NoByte}], readPos: Nat, writePos: 0..capacity]
    BY <1>1, <2>2 DEF Filled, Buffers
  <2> QED
    BY <1>1, <1>2, <1>4, <2>3 DEF Filled, Buffers, S, T
<1>8. handled' \in Seq(Seq(T)) /\ \A i \in 1..Len(handled)' : handled'[i] = Packet(i, sent'[i].size)
  <2>1. \A i \in 1..Len(handled) : i \in 1..Total
    BY <1>1, <1>3
  <2> QED
    BY <1>1, <1>2, <1>3, <1>4, <2>1
<1>9. ASSUME reason = "open"
      PROVE  (First(Len(handled)) \o (ReadSpan(rb) \o incoming) = First(Total))'
  <2> DEFINE a == First(Len(handled))
             b == ReadSpan(rb)
  <2>1. a \o (b \o incoming) = First(Total)
    BY <1>9 DEF FramingInv
  <2>2. a \in Seq(T) /\ b \in Seq(T) /\ incoming \in Seq(T)
    <3>1. Len(handled) \in 0..Total
      BY <1>1, <1>3
    <3>2. a \in Seq(S) /\ b \in Seq(S)
      BY <1>1, <3>1, FirstType, Span
    <3> QED
      BY <1>1, <1>4, <3>2
  <2>3. First(Len(handled))' = a
    <3>1. Len(handled) \in 0..Total
      BY <1>1, <1>3
    <3>2. First(Len(handled))' = FlattenSeq([i \in 1..Len(handled) |-> Packet(i, sent'[i].size)])
      BY <1>2 DEF First, Firsts
    <3>3. \A i \in 1..Len(handled) : i \in 1..Total
      BY <1>1, <1>3
    <3>4. [i \in 1..Len(handled) |-> Packet(i, sent'[i].size)]
            = [i \in 1..Len(handled) |-> Packet(i, sent[i].size)]
      BY <1>3, <3>3
    <3> QED
      BY <3>2, <3>4 DEF First, Firsts
  <2>4. ReadSpan(rb)' = b
    BY <1>2 DEF ReadSpan
  <2> HIDE DEF a, b, p, T
  <2>5. Regrouping(b, incoming, p) /\ Regrouping(a, b \o incoming, p)
    <3>1. b \o incoming \in Seq(T)
      BY <2>2
    <3> QED
      BY <1>3, <2>2, <3>1, Regrouped, Zenon
  <2>6. a \o (b \o (incoming \o p)) = (a \o (b \o incoming)) \o p
    BY <2>5, Zenon DEF Regrouping
  <2> QED
    BY <1>2, <1>3, <2>1, <2>3, <2>4, <2>6
<1>10. RoomToReceive' /\ reason' \in {"open", "recv 0", "underflow", "overflow", "exception"}
  BY <1>2 DEF FramingInv, RoomToReceive, FreeSize, capacity
<1> QED
  BY <1>2, <1>3, <1>5, <1>6, <1>7, <1>8, <1>9, <1>10 DEF FramingInv

(* What a receive does: the packets it hands on are the next of the        *)
(* stream, and what it leaves in the buffer goes on where they end.        *)
LEMMA ReceiveFrames ==
  ASSUME FramingInv, NEW n, Receive(n)
  PROVE  \E r, bytes, b :
           /\ Frames(r, bytes, Len(handled), incoming')
           /\ bytes \in Seq(BytesOf(Total)) /\ incoming' \in Seq(BytesOf(Total))
           /\ handled' = handled \o r.packets /\ reason' = r.reason /\ rb' = Clean(b)
           /\ Filled(b) /\ DataSize(b) = Len(bytes) - r.read
           /\ ReadSpan(b) = SubSeq(bytes, r.read + 1, Len(bytes))
<1> DEFINE S == BytesOf(Total)
           chunk == SubSeq(incoming, 1, n)
           w == SubSeq(incoming, n + 1, Len(incoming))
           written == OnWrite(rb, chunk)
           bytes == ReadSpan(written)
           r == OnRecv(bytes)
           b == OnRead(written, r.read)
<1>1. /\ sent \in Seq(Kinds) /\ incoming \in Seq(S) /\ Filled(rb) /\ reason = "open"
      /\ First(Len(handled)) \o (ReadSpan(rb) \o incoming) = First(Total)
  BY DEF FramingInv, Receive
<1>2. /\ n \in 1..Len(incoming) /\ n <= FreeSize(rb)
      /\ handled' = handled \o r.packets /\ reason' = r.reason /\ rb' = Clean(b)
      /\ incoming' = w
  BY DEF Receive
<1>3. Len(handled) \in 0..Total
  <2> DEFINE U == Seq(S)
  <2>1. handled \in Seq(U) /\ Len(handled) <= Total
    BY DEF FramingInv
  <2> HIDE DEF U
  <2>2. Len(handled) \in Nat
    BY <2>1
  <2> QED
    BY <1>1, <2>1, <2>2, KindFields
<1>4. chunk \in Seq(S) /\ Len(chunk) = n /\ w \in Seq(S) /\ chunk \o w = incoming
  <2>1. Len(incoming) \in Nat /\ 0 \in 0..Len(incoming) /\ n \in 0..Len(incoming) /\ n - 0 = n
        /\ Len(incoming) \in n..Len(incoming) /\ 0 + 1 = 1
    BY <1>1, <1>2
  <2>2. chunk \in Seq(S) /\ Len(chunk) = n /\ chunk \o w = SubSeq(incoming, 1, Len(incoming))
    <3> DEFINE o == 0
    <3>1. o \in 0..Len(incoming) /\ n \in o..Len(incoming)
      BY <2>1
    <3> HIDE DEF o
    <3>2. /\ SubSeq(incoming, o + 1, n) \in Seq(S) /\ Len(SubSeq(incoming, o + 1, n)) = n - o
          /\ SubSeq(incoming, o + 1, n) \o w = SubSeq(incoming, o + 1, Len(incoming))
      BY <1>1, <3>1, Part
    <3> QED
      BY <2>1, <3>2 DEF o
  <2>3. w \in Seq(S)
    BY <1>1, <2>1, Part
  <2>4. SubSeq(incoming, 1, Len(incoming)) = incoming
    BY <1>1
  <2> QED
    BY <2>2, <2>3, <2>4
<1> HIDE DEF chunk, w
<1>5. Filled(written) /\ bytes = ReadSpan(rb) \o chunk
  BY <1>1, <1>2, <1>4, Written
<1>6. bytes \in Seq(S) /\ Len(bytes) = DataSize(written)
  BY <1>5, Span
<1>7. First(Len(handled)) \o (bytes \o w) = First(Total)
  <2> DEFINE q == ReadSpan(rb)
  <2>1. q \in Seq(S)
    BY <1>1, Span
  <2> HIDE DEF q, S
  <2>2. Regrouping(q, chunk, w)
    BY <1>4, <2>1, Regrouped, Zenon
  <2>3. (q \o chunk) \o w = q \o incoming
    BY <1>4, <2>2 DEF Regrouping
  <2> HIDE DEF bytes
  <2> QED
    BY <1>1, <1>5, <2>3 DEF q
<1> HIDE DEF bytes
<1>8. Frames(r, bytes, Len(handled), w)
  BY <1>1, <1>3, <1>4, <1>6, <1>7, OnRecvFrames
<1> HIDE DEF r
<1>9. r.read \in 0..DataSize(written)
  <2>1. r.read \in Nat /\ r.read <= Len(bytes)
    BY <1>8 DEF Frames, Results
  <2>2. Len(bytes) \in Nat
    BY <1>6
  <2> QED
    BY <1>6, <2>1, <2>2
<1>10. /\ Filled(b) /\ DataSize(b) = DataSize(written) - r.read
       /\ ReadSpan(b) = SubSeq(ReadSpan(written), r.read + 1, Len(ReadSpan(written)))
  <2> HIDE DEF written
  <2> QED
    BY <1>5, <1>9, ReadOff
<1>11. /\ DataSize(b) = Len(bytes) - r.read
       /\ ReadSpan(b) = SubSeq(bytes, r.read + 1, Len(bytes))
  BY <1>6, <1>10 DEF bytes
<1> HIDE DEF b
<1>12. /\ Frames(r, bytes, Len(handled), incoming')
       /\ bytes \in Seq(BytesOf(Total)) /\ incoming' \in Seq(BytesOf(Total))
       /\ handled' = handled \o r.packets /\ reason' = r.reason /\ rb' = Clean(b)
       /\ Filled(b) /\ DataSize(b) = Len(bytes) - r.read
       /\ ReadSpan(b) = SubSeq(bytes, r.read + 1, Len(bytes))
  BY <1>2, <1>4, <1>6, <1>8, <1>10, <1>11
<1> QED
  BY <1>12, Zenon

LEMMA ReceiveKeeps ==
  ASSUME FramingInv, NEW n, Receive(n)
  PROVE  FramingInv'
<1> DEFINE S == BytesOf(Total)
           h == Len(handled)
<1>1. PICK r, bytes, b :
        /\ Frames(r, bytes, h, incoming')
        /\ bytes \in Seq(S) /\ incoming' \in Seq(S)
        /\ handled' = handled \o r.packets /\ reason' = r.reason /\ rb' = Clean(b)
        /\ Filled(b) /\ DataSize(b) = Len(bytes) - r.read
        /\ ReadSpan(b) = SubSeq(bytes, r.read + 1, Len(bytes))
  BY ReceiveFrames
<1>2. sent' = sent /\ Total' = Total /\ sent \in Seq(Kinds) /\ Total <= MaxPackets
  BY DEF Receive, FramingInv, Total
<1> DEFINE ps == r.packets
           U == Seq(S)
<1>3. /\ r \in Results /\ ps \in Seq(U) /\ h + Len(ps) <= Total
      /\ \A i \in 1..Len(ps) : ps[i] = Packet(h + i, sent[h + i].size)
      /\ r.reason = "open" =>
           Remains(bytes, r.read, h + Len(ps), incoming') /\ Len(bytes) - r.read < MaxPacketSize
      /\ r.reason # "open" => r.read = Len(bytes)
  BY <1>1 DEF Frames, Results
<1>4. handled \in Seq(U) /\ \A i \in 1..h : handled[i] = Packet(i, sent[i].size)
  BY DEF FramingInv
<1> HIDE DEF U, ps
<1>5. /\ handled' \in Seq(U) /\ Len(handled') = h + Len(ps) /\ h \in Nat /\ Len(ps) \in Nat
      /\ \A i \in 1..(h + Len(ps)) : handled'[i] = IF i <= h THEN handled[i] ELSE ps[i - h]
  <2>1. handled' = handled \o ps
    BY <1>1 DEF ps
  <2> QED
    BY <1>3, <1>4, <2>1
<1>6. \A i \in 1..(h + Len(ps)) : handled'[i] = Packet(i, sent[i].size)
  <2> TAKE i \in 1..(h + Len(ps))
  <2>1. CASE i <= h
    <3>1. i \in 1..h
      BY <1>5, <2>1
    <3> QED
      BY <1>4, <1>5, <2>1, <3>1
  <2>2. CASE ~(i <= h)
    <3>1. i - h \in 1..Len(ps) /\ h + (i - h) = i
      BY <1>5, <2>2
    <3>2. handled'[i] = ps[i - h]
      BY <1>5, <2>2
    <3>3. ps[i - h] = Packet(h + (i - h), sent[h + (i - h)].size)
      BY <1>3, <3>1
    <3> QED
      BY <3>1, <3>2, <3>3
  <2> QED
    BY <2>1, <2>2
<1>7. DataSize(b) < MaxPacketSize
  <2>1. Len(bytes) \in Nat /\ r.read \in Nat
    BY <1>1, <1>3 DEF Results
  <2> QED
    BY <1>1, <1>3, <2>1, FramingAssumption
<1> DEFINE c == Clean(b)
<1>8. Filled(c) /\ ReadSpan(c) = ReadSpan(b) /\ FreeSize(c) >= bufferSize /\ rb' = c
  BY <1>1, <1>7, Cleaned
<1> HIDE DEF c
<1>9. Filled(rb)' /\ ReadSpan(rb)' = ReadSpan(b) /\ RoomToReceive'
  <2>1. Filled(rb)'
    BY <1>2, <1>8 DEF Filled, Buffers, BytesOf, capacity
  <2>2. ReadSpan(rb)' = ReadSpan(c)
    BY <1>8 DEF ReadSpan
  <2>3. RoomToReceive'
    BY <1>8 DEF RoomToReceive, FreeSize, capacity
  <2> QED
    BY <1>8, <2>1, <2>2, <2>3
<1>10. ASSUME reason' = "open"
       PROVE  (First(Len(handled)) \o (ReadSpan(rb) \o incoming) = First(Total))'
  <2>1. First(h + Len(ps)) \o (ReadSpan(b) \o incoming') = First(Total)
    BY <1>1, <1>3, <1>10 DEF Remains
  <2>2. First(Len(handled))' = First(h + Len(ps)) /\ First(Total)' = First(Total)
    BY <1>2, <1>5 DEF First, Firsts
  <2> QED
    BY <1>9, <2>1, <2>2
<1>11. /\ sent' \in Seq(Kinds) /\ Total' <= MaxPackets
       /\ incoming' \in Seq(BytesOf(Total)')
       /\ handled' \in Seq(Seq(BytesOf(Total)')) /\ Len(handled') <= Total'
       /\ \A i \in 1..Len(handled') : handled'[i] = Packet(i, sent'[i].size)
       /\ reason' \in {"open", "recv 0", "underflow", "overflow", "exception"}
  <2>1. BytesOf(Total)' = S
    BY <1>2 DEF BytesOf
  <2>2. reason' \in {"open", "recv 0", "underflow", "overflow", "exception"}
    BY <1>1, <1>3 DEF Results
  <2>3. handled' \in Seq(Seq(S))
    BY <1>5 DEF U
  <2>4. Len(handled') <= Total'
    BY <1>2, <1>3, <1>5
  <2>5. \A i \in 1..Len(handled') : handled'[i] = Packet(i, sent'[i].size)
    BY <1>2, <1>5, <1>6
  <2> QED
    BY <1>1, <1>2, <2>1, <2>2, <2>3, <2>4, <2>5
<1> QED
  BY <1>9, <1>10, <1>11 DEF FramingInv

LEMMA QuietKeeps ==
  ASSUME FramingInv, ReceiveNothing \/ UNCHANGED framingVars
  PROVE  FramingInv'
<1>1. /\ sent' = sent /\ incoming' = incoming /\ rb' = rb /\ handled' = handled
      /\ reason' \in {reason, "recv 0"}
  BY DEF ReceiveNothing, framingVars
<1>2. First(Len(handled))' = First(Len(handled)) /\ First(Total)' = First(Total) /\ Total' = Total
      /\ ReadSpan(rb)' = ReadSpan(rb) /\ Filled(rb)' = Filled(rb) /\ FreeSize(rb)' = FreeSize(rb)
      /\ BytesOf(Total)' = BytesOf(Total)
  BY <1>1 DEF First, Firsts, Total, ReadSpan, Filled, Buffers, BytesOf, capacity, FreeSize
<1> QED
  BY <1>1, <1>2 DEF FramingInv, RoomToReceive

LEMMA FramingInvariant == FramingSpec => []FramingInv
<1>1. FramingInv /\ [FramingNext]_framingVars => FramingInv'
  <2> SUFFICES ASSUME FramingInv, [FramingNext]_framingVars PROVE FramingInv'
    OBVIOUS
  <2>1. ASSUME NEW kind \in Kinds, SendPacket(kind) PROVE FramingInv'
    BY <2>1, SendKeeps
  <2>2. ASSUME NEW n \in 1..capacity, Receive(n) PROVE FramingInv'
    BY <2>2, ReceiveKeeps
  <2>3. CASE ReceiveNothing \/ UNCHANGED framingVars
    BY <2>3, QuietKeeps
  <2> QED
    BY <2>1, <2>2, <2>3 DEF FramingNext, Receives
<1> QED
  BY <1>1, FramingInitially, PTL DEF FramingSpec

(* However the client's stream is cut into receives, each packet handled   *)
(* is one of those sent, whole and in order, and nothing of the stream is  *)
(* lost or doubled on its way through the receive buffer.                  *)
THEOREM FramesAreIntact == FramingSpec => []FramesIntact
<1>1. FramingInv => FramesIntact
  <2> SUFFICES ASSUME FramingInv PROVE FramesIntact
    OBVIOUS
  <2> DEFINE S == BytesOf(Total)
             U == Seq(S)
             h == Len(handled)
  <2>1. /\ sent \in Seq(Kinds) /\ Total <= MaxPackets /\ incoming \in Seq(S) /\ Filled(rb)
        /\ handled \in Seq(U) /\ h <= Total
        /\ \A i \in 1..h : handled[i] = Packet(i, sent[i].size)
    BY DEF FramingInv
  <2>2. h \in Nat /\ DOMAIN handled = 1..h /\ Total \in Nat /\ DOMAIN sent = 1..Total /\ h \in 0..Total
    <3>1. Total \in Nat /\ DOMAIN sent = 1..Total
      BY <2>1 DEF Total
    <3> HIDE DEF U
    <3>2. h \in Nat /\ DOMAIN handled = 1..h
      BY <2>1
    <3> QED
      BY <2>1, <3>1, <3>2
  <2>3. Seq(S) \subseteq Seq(Byte) /\ Seq(Seq(S)) \subseteq Seq(Seq(Byte)) /\ S \subseteq Byte
    <3>1. S \subseteq Byte
      BY <2>1, <2>2, FramingAssumption DEF BytesOf, Byte
    <3> HIDE DEF S
    <3>2. Seq(S) \subseteq Seq(Byte)
      BY <3>1, SeqWider
    <3>3. Seq(Seq(S)) \subseteq Seq(Seq(Byte))
      BY <3>2, SeqWider
    <3> QED
      BY <3>1, <3>2, <3>3
  <2>4. FramingTypeOK
    <3>1. /\ rb.bytes \in [1..capacity -> S \cup {NoByte}]
          /\ rb.writePos \in 0..capacity /\ rb.readPos \in 0..rb.writePos
      BY <2>1, Capacity DEF Filled, Buffers
    <3> HIDE DEF S
    <3>2. rb.bytes \in [1..capacity -> Byte \cup {NoByte}]
      BY <2>3, <3>1
    <3>3. handled \in Seq(Seq(Byte)) /\ incoming \in Seq(Byte)
      BY <2>1, <2>3
    <3> QED
      BY <2>1, <3>1, <3>2, <3>3 DEF FramingTypeOK, FramingInv, Total
  <2>5. ASSUME reason = "open"
        PROVE  FlattenSeq(handled) \o ReadSpan(rb) \o incoming = Stream
    <3> DEFINE a == First(h)
               q == ReadSpan(rb)
    <3>1. a \o (q \o incoming) = First(Total)
      BY <2>5 DEF FramingInv
    <3>2. a \in Seq(S) /\ q \in Seq(S)
      BY <2>1, <2>2, FirstType, Span
    <3>3. Stream = First(Total)
      BY <2>2 DEF Stream, First, Firsts
    <3>4. handled = Firsts(h)
      <4>1. handled = [i \in 1..h |-> handled[i]]
        <5> HIDE DEF U
        <5> QED
          BY <2>1, <2>2
      <4> QED
        BY <2>1, <4>1 DEF Firsts
    <3>5. FlattenSeq(handled) = a
      BY <3>4 DEF First
    <3> HIDE DEF a, q, S
    <3>6. Regrouping(a, q, incoming)
      BY <2>1, <3>2, Regrouped, Zenon
    <3>7. (a \o q) \o incoming = First(Total)
      BY <3>1, <3>6, Zenon DEF Regrouping
    <3> QED
      BY <3>3, <3>5, <3>7 DEF q
  <2> QED
    BY <2>1, <2>2, <2>4, <2>5 DEF FramesIntact
<1> QED
  BY <1>1, FramingInvariant, PTL

(* A posted receive always has bufferSize bytes to write to: the data that *)
(* OnRecv leaves is less than a packet of the greatest size, and Clean     *)
(* moves it to the front before the space behind it gets too small.        *)
THEOREM AlwaysRoomToReceive == FramingSpec => []RoomToReceive
<1>1. FramingInv => RoomToReceive
  BY DEF FramingInv
<1> QED
  BY <1>1, FramingInvariant, PTL

(* The session keeps to PacketStream, but for its fairness: packets        *)
(* are handled one after the other, none is left out, and none is handled  *)
(* behind one that is not acceptable, at which the connection is closed.   *)
THEOREM PacketStreamKept == FramingSpec => Abstract!Spec
<1> DEFINE Good == {k \in Kinds : k.size \in HeaderSize..MaxPacketSize /\ ~k.throws}
<1>1. FramingInit => Abstract!Init
  BY DEF FramingInit, Abstract!Init
<1>2. FramingInv /\ [FramingNext]_framingVars => [Abstract!Next]_Abstract!vars
  <2> SUFFICES ASSUME FramingInv, [FramingNext]_framingVars
               PROVE  [Abstract!Next]_Abstract!vars
    OBVIOUS
  <2>1. ASSUME NEW kind \in Kinds, SendPacket(kind) PROVE Abstract!Send(kind)
    BY <2>1 DEF SendPacket, Abstract!Send
  <2>2. ASSUME NEW n \in 1..capacity, Receive(n)
        PROVE  Abstract!Handle \/ UNCHANGED Abstract!vars
    <3> DEFINE h == Len(handled)
               U == Seq(BytesOf(Total))
    <3>1. PICK r, bytes, b :
            /\ Frames(r, bytes, h, incoming')
            /\ bytes \in Seq(BytesOf(Total)) /\ incoming' \in Seq(BytesOf(Total))
            /\ handled' = handled \o r.packets /\ reason' = r.reason /\ rb' = Clean(b)
            /\ Filled(b) /\ DataSize(b) = Len(bytes) - r.read
            /\ ReadSpan(b) = SubSeq(bytes, r.read + 1, Len(bytes))
      BY <2>2, ReceiveFrames
    <3> DEFINE m == Len(r.packets)
    <3>2. /\ handled \in Seq(U) /\ r.packets \in Seq(U) /\ h + m <= Total
          /\ \A i \in 1..m : Acceptable(sent[h + i])
          /\ r.reason # "open" => h + m < Total /\ ~Acceptable(sent[h + m + 1])
      BY <3>1 DEF Frames, Results, FramingInv
    <3>3. h \in Nat /\ m \in Nat /\ Len(handled') = h + m
      <4> HIDE DEF U
      <4> QED
        BY <3>1, <3>2
    <3>4. sent \in Seq(Kinds) /\ sent' = sent /\ reason = "open" /\ Total = Len(sent) /\ Total \in Nat
      BY <2>2, KindFields DEF FramingInv, Receive, Total
    <3>5. \A i \in 1..Total : sent[i] \in Good <=> Acceptable(sent[i])
      BY <3>4, KindFields DEF Acceptable
    <3> HIDE DEF Good, m, h
    <3>6. \A i \in (h + 1)..(h + m) : sent[i] \in Good
      <4> TAKE i \in (h + 1)..(h + m)
      <4>1. i - h \in 1..m /\ h + (i - h) = i /\ i \in 1..Total
        BY <3>2, <3>3, <3>4
      <4>2. Acceptable(sent[h + (i - h)])
        BY <3>2, <4>1
      <4> QED
        BY <3>5, <4>1, <4>2
    <3>7. CASE r.reason = "open" /\ m = 0
      <4>1. Len(handled') = Len(handled) /\ reason' = reason
        BY <3>1, <3>3, <3>4, <3>7 DEF h
      <4> QED
        BY <3>4, <4>1 DEF Abstract!vars
    <3>8. CASE r.reason = "open" /\ m # 0
      <4>1. h + m \in h..Len(sent) /\ h + m > h
        BY <3>2, <3>3, <3>4, <3>8
      <4>2. (reason' = "open") = TRUE /\ reason = "open" /\ sent' = sent
        BY <3>1, <3>4, <3>8
      <4> QED
        BY <3>3, <3>6, <4>1, <4>2 DEF Abstract!Handle, h, Good
    <3>9. CASE r.reason # "open"
      <4>1. h + m \in h..Len(sent) /\ h + m < Len(sent)
        BY <3>2, <3>3, <3>4, <3>9
      <4>2. sent[h + m + 1] \notin Good
        <5>1. h + m + 1 \in 1..Total
          BY <3>3, <3>4, <4>1
        <5> QED
          BY <3>2, <3>5, <3>9, <5>1
      <4>3. (reason' = "open") = FALSE /\ reason = "open" /\ sent' = sent
        BY <3>1, <3>4, <3>9
      <4> QED
        BY <3>3, <3>6, <4>1, <4>2, <4>3 DEF Abstract!Handle, h, Good
    <3> QED
      BY <3>7, <3>8, <3>9
  <2>3. CASE ReceiveNothing
    BY <2>3 DEF ReceiveNothing, Abstract!Next, Abstract!Lose
  <2>4. CASE UNCHANGED framingVars
    BY <2>4 DEF framingVars, Abstract!vars
  <2> QED
    BY <2>1, <2>2, <2>3, <2>4 DEF FramingNext, Receives, Abstract!Next
<1> QED
  BY <1>1, <1>2, FramingInvariant, PTL DEF FramingSpec, Abstract!Spec
=============================================================================
