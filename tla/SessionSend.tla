------------------------------ MODULE SessionSend ------------------------------
(***************************************************************************)
(* The send path of ServerCore/Session.cpp.  Any thread may Send: it       *)
(* queues the buffer and, if no send is registered (_sendRegistered),      *)
(* registers one: RegisterSend drains the queue into the one SendEvent of  *)
(* the session and posts it with WSASend.  The I/O worker that receives    *)
(* the completion runs RegisterSend again, which un-registers when it      *)
(* finds the queue empty.  _sendEvent has no lock of its own:              *)
(* _sendRegistered is meant to give it to one thread at a time.            *)
(*                                                                         *)
(* A thread's step is one access to shared state, or several accesses of   *)
(* which no other thread can tell the order apart.                         *)
(***************************************************************************)
EXTENDS Naturals, Sequences, FiniteSets

CONSTANTS Threads,       \* senders and I/O workers
          Messages,      \* send buffers, each sent at most once
          SocketErrors,  \* the errors WSASend may return: "reset", "other"
          Nobody

ASSUME ThreadsAssumption == Nobody \notin Threads \cup Messages
ASSUME SocketErrorsAssumption == SocketErrors \subseteq {"reset", "other"}

VARIABLES connected,   \* _connected
          queue,       \* _sendQueue, as MpscQueue describes it
          registered,  \* _sendRegistered
          owned,       \* _sendEvent.owner is set (a reference is held)
          buffers,     \* _sendEvent.sendBuffers
          inflight,    \* number of posted sends whose completion is to come
          pc,          \* thread -> where it is in Send / RegisterSend
          crashed,     \* Dispatch dereferenced a null owner
          issued,      \* history: thread -> what it passed to Send
          wire,        \* history: what WSASend accepted, in order
          dropped,     \* history: what a failed WSASend threw away
          ignored      \* history: Dispatch ignored the failure of a posted send

event == <<owned, buffers>>
history == <<issued, wire, dropped, ignored>>
vars == <<connected, queue, registered, event, inflight, pc, crashed, history>>

Q == INSTANCE MpscQueue WITH Producers <- Threads, Items <- Messages, out <- Nobody

Places == {"idle", "pushing", "exchange", "register", "drain", "unregister", "release",
           "post", "failed", "unwind"}

TypeOK ==
  /\ connected \in BOOLEAN /\ registered \in BOOLEAN /\ owned \in BOOLEAN /\ crashed \in BOOLEAN
  /\ queue \in Seq(Q!Entry)
  /\ buffers \in Seq(Messages)
  /\ inflight \in 0..1      \* there is one SendEvent to post
  /\ pc \in [Threads -> Places]
  /\ issued \in [Threads -> Seq(Messages)]
  /\ wire \in Seq(Messages) /\ dropped \subseteq Messages
  /\ ignored \in BOOLEAN

(* After ProcessConnect.                                                   *)
Init ==
  /\ connected = TRUE
  /\ queue = <<>>
  /\ registered = FALSE
  /\ owned = FALSE /\ buffers = <<>> /\ inflight = 0
  /\ pc = [t \in Threads |-> "idle"]
  /\ crashed = FALSE
  /\ issued = [t \in Threads |-> <<>>] /\ wire = <<>> /\ dropped = {}
  /\ ignored = FALSE

Members(s) == {s[i] : i \in DOMAIN s}

Goto(t, place) == pc' = [pc EXCEPT ![t] = place]

At(t, place) == pc[t] = place /\ ~crashed

-----------------------------------------------------------------------------
(* Send: the connection check and the first half of _sendQueue.Push.       *)
Send(t, m) ==
  /\ At(t, "idle") /\ connected
  /\ \A u \in Threads : m \notin Members(issued[u])
  /\ Q!Enter(t, m)
  /\ issued' = [issued EXCEPT ![t] = Append(@, m)]
  /\ Goto(t, "pushing")
  /\ UNCHANGED <<connected, registered, event, inflight, crashed, wire, dropped, ignored>>

(* Send: the second half of the Push.                                      *)
FinishPush(t) ==
  /\ At(t, "pushing")
  /\ Q!Finish(t)
  /\ Goto(t, "exchange")
  /\ UNCHANGED <<connected, registered, event, inflight, crashed, history>>

(* Mutant of ExchangeRegistered: it loads the flag and does not set it.    *)
LoadRegistered(t) ==
  /\ At(t, "exchange")
  /\ Goto(t, IF registered THEN "idle" ELSE "register")
  /\ UNCHANGED <<connected, queue, registered, event, inflight, crashed, history>>

(* Send: if (_sendRegistered.exchange(true) == false) RegisterSend().      *)
ExchangeRegistered(t) ==
  /\ At(t, "exchange")
  /\ registered' = TRUE
  /\ Goto(t, IF registered THEN "idle" ELSE "register")
  /\ UNCHANGED <<connected, queue, event, inflight, crashed, history>>

(* RegisterSend: return if disconnected (the send stays registered), else  *)
(* _sendEvent takes a reference to the session.                            *)
TakeEvent(t) ==
  /\ At(t, "register")
  /\ Goto(t, IF connected THEN "drain" ELSE "idle")
  /\ owned' = (connected \/ owned)
  /\ UNCHANGED <<connected, queue, registered, buffers, inflight, crashed, history>>

(* RegisterSend: one successful Pop into _sendEvent.sendBuffers.           *)
DrainOne(t) ==
  /\ At(t, "drain") /\ Q!Take
  /\ buffers' = Append(buffers, Head(queue).item)
  /\ UNCHANGED <<connected, registered, owned, inflight, pc, crashed, history>>

(* RegisterSend: Pop returned false.                                       *)
DrainDone(t) ==
  /\ At(t, "drain") /\ ~Q!Poppable
  /\ Goto(t, IF buffers = <<>> THEN "unregister" ELSE "post")
  /\ UNCHANGED <<connected, queue, registered, event, inflight, crashed, history>>

(* RegisterSend, nothing to send: _sendRegistered.store(false).            *)
Unregister(t) ==
  /\ At(t, "unregister")
  /\ registered' = FALSE
  /\ Goto(t, "release")
  /\ UNCHANGED <<connected, queue, event, inflight, crashed, history>>

(* RegisterSend, nothing to send: only then _sendEvent.owner = nullptr.    *)
Release(t) ==
  /\ At(t, "release")
  /\ owned' = FALSE
  /\ Goto(t, "idle")
  /\ UNCHANGED <<connected, queue, registered, buffers, inflight, crashed, history>>

(* RegisterSend: WSASend is accepted.  Its completion may be received by   *)
(* another thread at once; this thread touches the session no more.        *)
Post(t) ==
  /\ At(t, "post")
  /\ inflight' = inflight + 1
  /\ wire' = wire \o buffers
  /\ Goto(t, "idle")
  /\ UNCHANGED <<connected, queue, registered, event, crashed, issued, dropped, ignored>>

(* RegisterSend: WSASend fails, and HandleError disconnects on a reset and *)
(* only logs any other error.                                              *)
PostFails(t, error) ==
  /\ At(t, "post")
  /\ connected' = (connected /\ error # "reset")
  /\ Goto(t, "failed")
  /\ UNCHANGED <<queue, registered, event, inflight, crashed, history>>

(* RegisterSend after a failure: owner = nullptr, sendBuffers.clear().     *)
DropEvent(t) ==
  /\ At(t, "failed")
  /\ owned' = FALSE /\ buffers' = <<>>
  /\ dropped' = dropped \cup Members(buffers)
  /\ Goto(t, "unwind")
  /\ UNCHANGED <<connected, queue, registered, inflight, crashed, issued, wire, ignored>>

(* RegisterSend after a failure: _sendRegistered.store(false).             *)
UnregisterFailed(t) ==
  /\ At(t, "unwind")
  /\ registered' = FALSE
  /\ Goto(t, "idle")
  /\ UNCHANGED <<connected, queue, event, inflight, crashed, history>>

(* IocpCore::Dispatch takes the completion of a send that succeeded (`ok`) *)
(* or failed.  With an owner, ProcessSend drops the reference and the      *)
(* buffers and registers the next send, or disconnects when no byte was    *)
(* sent (the send stays registered).  Without one, a success dereferences  *)
(* null, while a failure is ignored: nothing is undone.  On a failure the  *)
(* owner is read twice, and a Release may come between the two.            *)
Completion(t, ok, bytes, nextBuffers, next) ==
  /\ At(t, "idle") /\ inflight > 0
  /\ inflight' = inflight - 1
  /\ \/ /\ owned
        /\ owned' = FALSE /\ buffers' = nextBuffers
        /\ connected' = (connected /\ bytes)
        /\ Goto(t, IF bytes THEN next ELSE "idle")
        /\ UNCHANGED <<crashed, ignored>>
     \/ /\ IF ok THEN ~owned ELSE owned /\ \E u \in Threads : pc[u] = "release"
        /\ crashed' = TRUE
        /\ UNCHANGED <<event, connected, pc, ignored>>
     \/ /\ ~ok /\ ~owned
        /\ ignored' = TRUE
        /\ UNCHANGED <<event, connected, pc, crashed>>
  /\ UNCHANGED <<queue, registered, issued, wire, dropped>>

(* Mutants of Complete: sendBuffers is not cleared; ProcessSend does not   *)
(* register the next send.                                                 *)
CompleteKeepingBuffers(t, ok, bytes) == Completion(t, ok, bytes, buffers, "register")
CompleteAndStop(t, ok, bytes) == Completion(t, ok, bytes, <<>>, "idle")

Complete(t, ok, bytes) == Completion(t, ok, bytes, <<>>, "register")

(* Disconnect by another path: a receive of 0 bytes, the sweeper, a        *)
(* handler.                                                                *)
Disconnect ==
  /\ connected /\ ~crashed
  /\ connected' = FALSE
  /\ UNCHANGED <<queue, registered, event, inflight, pc, crashed, history>>

Step(t) == \/ FinishPush(t) \/ ExchangeRegistered(t)
           \/ TakeEvent(t) \/ DrainOne(t) \/ DrainDone(t)
           \/ Unregister(t) \/ Release(t)
           \/ Post(t) \/ (\E e \in SocketErrors : PostFails(t, e))
           \/ DropEvent(t) \/ UnregisterFailed(t)

Next == \/ \E t \in Threads : \/ \E m \in Messages : Send(t, m)
                              \/ \E ok, bytes \in BOOLEAN : Complete(t, ok, bytes)
                              \/ Step(t)
        \/ Disconnect

Spec == Init /\ [][Next]_vars

(* A thread inside the code is scheduled again, a posted send completes    *)
(* and some worker takes the completion.  Nobody is obliged to send.       *)
FairSpec == Spec /\ (\A t \in Threads : WF_vars(Step(t)))
                 /\ WF_vars(\E t \in Threads, ok, bytes \in BOOLEAN : Complete(t, ok, bytes))

-----------------------------------------------------------------------------
(* A thread that uses _sendEvent, or is about to.                          *)
Using(t) == pc[t] \in {"register", "drain", "unregister", "post", "failed", "unwind"}

(* _sendRegistered gives _sendEvent and the consumer side of the queue to  *)
(* one operation at a time: a thread in RegisterSend, or a posted send.    *)
(* The tail of RegisterSend after store(false) is not included: see        *)
(* HeldWhileInFlight.  After an ignored failure the flag stays set with    *)
(* nobody behind it: the session never sends again.                        *)
SendIsExclusive ==
  /\ \A t, u \in Threads : Using(t) /\ Using(u) => t = u
  /\ \A t \in Threads : Using(t) => inflight = 0 /\ registered
  /\ inflight = 1 => registered
  /\ ignored => registered /\ inflight = 0 /\ \A t \in Threads : ~Using(t)

(* The one send event and the consumer side of the queue, for which there  *)
(* is no lock, never have two users.                                       *)
EventHasOneUser == TypeOK /\ SendIsExclusive

(* A buffer reaches TCP once, and a sender's buffers in the order it sent  *)
(* them, whichever threads post them; the only gaps are the batches that a *)
(* failed WSASend threw away.                                              *)
WireOrder ==
  /\ \A m, n \in DOMAIN wire : wire[m] = wire[n] => m = n
  /\ \A n \in DOMAIN wire : wire[n] \notin dropped
  /\ \A t \in Threads, n \in DOMAIN wire :
       \A i, k \in DOMAIN issued[t] :
         i < k /\ wire[n] = issued[t][k]
           => issued[t][i] \in dropped \/ \E m \in 1..(n - 1) : wire[m] = issued[t][i]

AtRest == inflight = 0 /\ \A t \in Threads : pc[t] = "idle"

(* The only fates of a buffer passed to Send: TCP takes it or refuses it,  *)
(* the connection is lost, the process crashes, the session is stuck for   *)
(* good behind a failure that Dispatch ignored, or everything comes to     *)
(* rest with the buffer in the queue but no send registered, so that the   *)
(* next Send takes it along.                                               *)
SentOrStranded ==
  \A m \in Messages :
    (\E t \in Threads : m \in Members(issued[t]))
      ~> (\/ m \in Members(wire) \cup dropped
          \/ ~connected \/ crashed \/ ignored
          \/ AtRest /\ ~registered)

(* The session is kept alive until the completion of a posted send.        *)
HeldWhileInFlight == inflight > 0 => owned

=============================================================================
