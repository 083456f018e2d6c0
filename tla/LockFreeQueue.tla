---------------------------- MODULE LockFreeQueue ----------------------------
(***************************************************************************)
(* ServerCore/LockFreeQueue.h, node by node: an intrusive singly linked    *)
(* list with a dummy node.  _head is where producers append, _tail is the  *)
(* dummy the consumer consumed last.  Push swaps _head and only then links *)
(* the previous node to the new one; Pop follows _tail->next and deletes   *)
(* the old dummy.                                                          *)
(*                                                                         *)
(* Nodes are memory cells: `new` may return any cell that is not           *)
(* allocated, so a deleted cell can come back at once (the ABA situation). *)
(* No producer writes what Pop reads after the link, so Pop is one step.   *)
(***************************************************************************)
EXTENDS Naturals, Sequences

CONSTANTS Producers,  \* threads that call Push
          Items,      \* values pushed
          Cells,      \* memory cells for nodes
          Nil         \* the null pointer, and the datum of a dummy node

ASSUME NilAssumption == Nil \notin Cells /\ Nil \notin Items /\ Nil \notin Producers

VARIABLES head,       \* _head
          tail,       \* _tail
          next,       \* cell -> its next pointer
          data,       \* cell -> its datum
          allocated,  \* the cells that are nodes now
          node,       \* producer -> the node of its Push in progress
          prev,       \* producer -> what _head.exchange returned to it
          out,        \* what the last Pop returned, Nil for false
          phase,      \* "live", "dtor" while ~LockFreeQueue runs, then "gone"
          order       \* history: the nodes from _tail on, in exchange order

vars == <<head, tail, next, data, allocated, node, prev, out, phase, order>>

TypeOK ==
  /\ head \in Cells /\ tail \in Cells
  /\ next \in [Cells -> Cells \cup {Nil}]
  /\ data \in [Cells -> Items \cup {Nil}]
  /\ allocated \in SUBSET Cells
  /\ node \in [Producers -> Cells \cup {Nil}]
  /\ prev \in [Producers -> Cells \cup {Nil}]
  /\ out \in Items \cup {Nil}
  /\ phase \in {"live", "dtor", "gone"}
  /\ order \in Seq(Cells)

(* The constructor: a dummy node that is both ends.                        *)
Init ==
  \E dummy \in Cells :
    /\ head = dummy /\ tail = dummy
    /\ next = [c \in Cells |-> Nil]
    /\ data = [c \in Cells |-> Nil]
    /\ allocated = {dummy}
    /\ node = [p \in Producers |-> Nil]
    /\ prev = [p \in Producers |-> Nil]
    /\ out = Nil
    /\ phase = "live"
    /\ order = <<dummy>>

Pushing(p) == prev[p] # Nil

-----------------------------------------------------------------------------
(* Mutant of Exchange: a Node constructor without next(nullptr), so that a *)
(* reused cell keeps its old link.                                         *)
ExchangeKeepingNext(p, d) ==
  /\ phase = "live" /\ ~Pushing(p)
  /\ \E n \in Cells \ allocated :
       /\ allocated' = allocated \cup {n}
       /\ data' = [data EXCEPT ![n] = d]
       /\ node' = [node EXCEPT ![p] = n]
       /\ prev' = [prev EXCEPT ![p] = head]
       /\ head' = n
       /\ order' = Append(order, n)
  /\ UNCHANGED <<tail, next, out, phase>>

(* Push: new Node(data), then _head.exchange(node).  The node is private   *)
(* until the exchange, so its allocation belongs to the same step.         *)
Exchange(p, d) ==
  /\ phase = "live" /\ ~Pushing(p)
  /\ \E n \in Cells \ allocated :
       /\ allocated' = allocated \cup {n}
       /\ data' = [data EXCEPT ![n] = d]
       /\ next' = [next EXCEPT ![n] = Nil]
       /\ node' = [node EXCEPT ![p] = n]
       /\ prev' = [prev EXCEPT ![p] = head]
       /\ head' = n
       /\ order' = Append(order, n)
  /\ UNCHANGED <<tail, out, phase>>

(* Push: prev->next.store(node).                                           *)
Link(p) ==
  /\ Pushing(p)
  /\ next' = [next EXCEPT ![prev[p]] = node[p]]
  /\ node' = [node EXCEPT ![p] = Nil]
  /\ prev' = [prev EXCEPT ![p] = Nil]
  /\ UNCHANGED <<head, tail, data, allocated, out, phase, order>>

(* Mutant of Pop: reads the datum of the dummy instead of its successor's. *)
PopOfDummy ==
  /\ phase # "gone" /\ next[tail] # Nil
  /\ out' = data[tail]
  /\ tail' = next[tail]
  /\ allocated' = allocated \ {tail}
  /\ order' = Tail(order)
  /\ UNCHANGED <<head, next, data, node, prev, phase>>

(* Pop returning true, called by the one consumer or by the destructor:    *)
(* the datum is moved out, the successor becomes the dummy, the old dummy  *)
(* is deleted.                                                             *)
Pop ==
  /\ phase # "gone" /\ next[tail] # Nil
  /\ out' = data[next[tail]]
  /\ tail' = next[tail]
  /\ data' = [data EXCEPT ![next[tail]] = Nil]
  /\ allocated' = allocated \ {tail}
  /\ order' = Tail(order)
  /\ UNCHANGED <<head, next, node, prev, phase>>

(* Pop returning false: nothing there, or the next entry is not linked yet. *)
PopFalse ==
  /\ phase # "gone" /\ next[tail] = Nil
  /\ out' = Nil
  /\ UNCHANGED <<head, tail, next, data, allocated, node, prev, phase, order>>

(* Mutant of BeginDestroy: the owner does not wait for running pushes.     *)
BeginDestroyEarly ==
  /\ phase = "live"
  /\ phase' = "dtor"
  /\ UNCHANGED <<head, tail, next, data, allocated, node, prev, out, order>>

(* ~LockFreeQueue starts when no Push is running (a producer holds a       *)
(* reference to the object the queue is a member of), pops until Pop       *)
(* fails and then deletes the last dummy.                                  *)
BeginDestroy ==
  /\ phase = "live" /\ \A p \in Producers : ~Pushing(p)
  /\ phase' = "dtor"
  /\ UNCHANGED <<head, tail, next, data, allocated, node, prev, out, order>>

EndDestroy ==
  /\ phase = "dtor" /\ next[tail] = Nil
  /\ phase' = "gone"
  /\ allocated' = allocated \ {tail}
  /\ UNCHANGED <<head, tail, next, data, node, prev, out, order>>

Next ==
  \/ \E p \in Producers : (\E d \in Items : Exchange(p, d)) \/ Link(p)
  \/ Pop \/ PopFalse
  \/ BeginDestroy \/ EndDestroy

Spec == Init /\ [][Next]_vars

-----------------------------------------------------------------------------
(* The successor of the i-th node in exchange order is linked to it, or    *)
(* its producer is between the exchange and the link.                      *)
Joined(i) == next[order[i]] = order[i + 1]

HalfJoined(i) ==
  /\ next[order[i]] = Nil
  /\ \E p \in Producers : prev[p] = order[i] /\ node[p] = order[i + 1]

Links == 1..(Len(order) - 1)

(* The list is one chain from _tail to _head without a repetition, in      *)
(* exchange order, whose only gaps are the half-finished pushes.           *)
Chain ==
  /\ order # <<>> /\ order[1] = tail /\ order[Len(order)] = head /\ next[head] = Nil
  /\ \A i \in Links : Joined(i) \/ HalfJoined(i)
  /\ \A i, j \in 1..Len(order) : order[i] = order[j] => i = j

(* Every half-finished Push is one such gap: what it will still write is   *)
(* the null next of a node that comes before its own.                      *)
Gaps ==
  \A p \in Producers :
    /\ Pushing(p) <=> node[p] # Nil
    /\ Pushing(p) => /\ phase = "live" /\ next[prev[p]] = Nil
                     /\ \E i \in Links : order[i] = prev[p] /\ order[i + 1] = node[p]
    /\ \A q \in Producers : Pushing(p) /\ node[p] = node[q] => p = q

(* What Push and Pop rely on: the list they share is well formed at every  *)
(* moment, with any number of pushes half finished.                        *)
WellLinked == TypeOK /\ Chain /\ Gaps

(* No use after free: the consumer deletes nodes with no lock, and yet the *)
(* nodes that _head and _tail point to, and the node through which a       *)
(* half-finished Push will store, are allocated.                           *)
NoUseAfterFree ==
  /\ phase # "gone" => {head, tail} \subseteq allocated
  /\ \A p \in Producers : Pushing(p) => {prev[p], node[p]} \subseteq allocated

(* Nothing leaks: the allocated nodes are exactly those from _tail on, and *)
(* none is left once the destructor has run.                               *)
NoLeak == allocated = IF phase = "gone" THEN {} ELSE {order[i] : i \in 1..Len(order)}

(* Memory is reclaimed without hazard pointers, and yet exactly in time:   *)
(* not before the last use of a node, and in the end all of it.            *)
MemorySafe == NoUseAfterFree /\ NoLeak

-----------------------------------------------------------------------------
(* The linked list implements the queue its users see.  The entries are    *)
(* the nodes after the dummy; an entry belongs to its producer until the   *)
(* predecessor points to it.                                               *)
Owner(n) == CHOOSE p \in Producers : node[p] = n

Entries ==
  [i \in Links |-> [item |-> data[order[i + 1]],
                    by   |-> IF next[order[i]] = Nil THEN Owner(order[i + 1]) ELSE Nil]]

Mpsc == INSTANCE MpscQueue WITH queue <- Entries, Nobody <- Nil

(* Every step of the linked list is a step of the abstract queue: values   *)
(* come out once each, in exchange order, never past an unfinished Push.   *)
ImplementsMpsc == Mpsc!QSpec

=============================================================================
