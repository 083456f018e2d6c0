------------------------------ MODULE MpscQueue ------------------------------
(***************************************************************************)
(* What ServerCore/LockFreeQueue.h promises its users (JobQueue and        *)
(* Session): a FIFO for many producers and one consumer, whose order is    *)
(* the order in which the producers enter it, and which a consumer cannot  *)
(* see past an entry whose producer has not finished its Push.             *)
(*                                                                         *)
(* A Push is two steps, Enter (the linearization point, it fixes the       *)
(* order) and Finish.  A Pop is one step: it takes the oldest entry if its *)
(* producer has finished, and reports "empty" otherwise.  The module       *)
(* LockFreeQueue shows that the linked list implements this specification; *)
(* JobQueue and SessionSend are built from its actions.                    *)
(***************************************************************************)
EXTENDS Naturals, Sequences

CONSTANTS Producers,  \* the threads that push
          Items,      \* the values they push
          Nobody      \* neither: "by" of an entry whose Push has finished, "out" of no entry

VARIABLES queue,      \* the entries in the order they were entered, oldest first
          out         \* what the last Pop returned, Nobody when it returned false

qvars == <<queue, out>>

(* An entry: its value and the producer whose Push is still to finish.     *)
Entry == [item : Items, by : Producers \cup {Nobody}]

Linked(e) == e.by = Nobody

(* The producers between the two halves of a Push.                         *)
Half == {queue[i].by : i \in DOMAIN queue} \ {Nobody}

QInit == queue = <<>> /\ out = Nobody

(* Push, first half: the entry takes its place in the order.               *)
Enter(p, d) ==
  /\ p \notin Half
  /\ queue' = Append(queue, [item |-> d, by |-> p])

(* Push, second half: the entry becomes reachable for the consumer.        *)
Finish(p) ==
  /\ p \in Half
  /\ queue' = [i \in DOMAIN queue |->
                 IF queue[i].by = p THEN [queue[i] EXCEPT !.by = Nobody] ELSE queue[i]]

(* The consumer can take the oldest entry, once its Push has finished.     *)
Poppable == queue # <<>> /\ Linked(Head(queue))

Take == Poppable /\ queue' = Tail(queue)

QNext == \/ \E p \in Producers, d \in Items : Enter(p, d) /\ UNCHANGED out
         \/ \E p \in Producers : Finish(p) /\ UNCHANGED out
         \/ Take /\ out' = Head(queue).item
         \/ ~Poppable /\ out' = Nobody /\ UNCHANGED queue

QSpec == QInit /\ [][QNext]_qvars

=============================================================================
