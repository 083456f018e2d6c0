--------------------------- MODULE LockFreeQueueProofs ---------------------------
(***************************************************************************)
(* LockFreeQueue for any number of producers, values and memory cells: the *)
(* list stays well linked, memory is reclaimed exactly in time, and every  *)
(* step is a step of the queue MpscQueue describes.                        *)
(*                                                                         *)
(* The argument.  Everything rests on the order of the exchanges.  It has  *)
(* no repetition because a new node is not allocated, and what is          *)
(* allocated is what the order holds.  So the null next that a half        *)
(* finished push will overwrite belongs to one place of the order, no      *)
(* other push writes there, and the consumer, which stops at a null next,  *)
(* never passes it: the node is still in the list when the push stores.    *)
(***************************************************************************)
EXTENDS LockFreeQueue, SequenceTheorems, TLAPS

Inv == WellLinked /\ NoLeak

(* The order as a function on its places.                                  *)
LEMMA OrderPlaces ==
  ASSUME Inv
  PROVE  /\ Len(order) \in Nat \ {0} /\ Links = 1..(Len(order) - 1)
         /\ order \in [1..Len(order) -> Cells]
         /\ \A i \in Links : i \in 1..Len(order) /\ i + 1 \in 1..Len(order)
  BY DEF Inv, WellLinked, TypeOK, Chain, Links

LEMMA InitInv == Init => Inv
<1> SUFFICES ASSUME Init PROVE Inv
  OBVIOUS
<1>1. PICK dummy \in Cells :
        /\ head = dummy /\ tail = dummy /\ order = <<dummy>> /\ allocated = {dummy}
        /\ next = [c \in Cells |-> Nil] /\ data = [c \in Cells |-> Nil]
        /\ node = [p \in Producers |-> Nil] /\ prev = [p \in Producers |-> Nil]
        /\ out = Nil /\ phase = "live"
  BY DEF Init
<1>2. order \in Seq(Cells) /\ Len(order) = 1 /\ order[1] = dummy /\ Links = {}
  BY <1>1 DEF Links
<1>3. TypeOK
  BY <1>1, <1>2 DEF TypeOK
<1>4. Chain
  BY <1>1, <1>2 DEF Chain
<1>5. Gaps
  BY <1>1 DEF Gaps, Pushing
<1>6. NoLeak
  BY <1>1, <1>2 DEF NoLeak
<1> QED
  BY <1>3, <1>4, <1>5, <1>6 DEF Inv, WellLinked

-----------------------------------------------------------------------------
(* Push, first half: a node that is in no place of the order is put at its *)
(* end, and the old end becomes the place this push will fill.             *)
LEMMA ExchangeInv ==
  ASSUME Inv, NEW p \in Producers, NEW d \in Items, Exchange(p, d)
  PROVE  Inv'
<1> USE DEF Inv, WellLinked
<1> PICK n \in Cells \ allocated :
       /\ allocated' = allocated \cup {n}
       /\ data' = [data EXCEPT ![n] = d]
       /\ next' = [next EXCEPT ![n] = Nil]
       /\ node' = [node EXCEPT ![p] = n]
       /\ prev' = [prev EXCEPT ![p] = head]
       /\ head' = n
       /\ order' = Append(order, n)
  BY DEF Exchange
<1>1. /\ phase = "live" /\ prev[p] = Nil /\ node[p] = Nil
      /\ UNCHANGED <<tail, out, phase>>
  BY DEF Exchange, Pushing, Gaps
<1>2. /\ Len(order) \in Nat \ {0} /\ order \in [1..Len(order) -> Cells]
      /\ order' \in Seq(Cells) /\ Len(order') = Len(order) + 1
      /\ \A i \in 1..Len(order) : order'[i] = order[i] /\ order[i] # n
      /\ order'[Len(order) + 1] = n
      /\ order[Len(order)] = head /\ next[head] = Nil
  <2>1. \A i \in 1..Len(order) : order[i] \in allocated
    BY <1>1 DEF NoLeak
  <2> QED
    BY <2>1, OrderPlaces DEF TypeOK, Chain
<1>3. Links = 1..(Len(order) - 1) /\ Links' = 1..Len(order)
  BY <1>2 DEF Links
<1>9. Len(order) \in 1..Len(order)
  BY <1>2
<1> PICK last \in 1..Len(order) : last = Len(order)
  BY <1>9, Zenon
<1>8. /\ order'[last] = head /\ order'[last + 1] = n
      /\ next'[head] = Nil /\ last \in Links'
  <2>1. head \in Cells
    BY DEF TypeOK
  <2>2. next'[head] = Nil
    BY <1>2, <2>1 DEF TypeOK
  <2> QED
    BY <1>2, <1>3, <2>2
<1>4. TypeOK'
  BY <1>1, <1>2 DEF TypeOK
<1>5. Chain'
  <2>1. order'[1] = tail' /\ order'[Len(order')] = head' /\ next'[head'] = Nil /\ order' # <<>>
    BY <1>1, <1>2 DEF Chain, TypeOK
  <2>2. ASSUME NEW i \in Links PROVE Joined(i)' \/ HalfJoined(i)'
    <3>1. i \in 1..Len(order) /\ i + 1 \in 1..Len(order)
      BY <1>2, <1>3
    <3>2. order'[i] = order[i] /\ order'[i + 1] = order[i + 1] /\ next'[order[i]] = next[order[i]]
      BY <1>2, <3>1 DEF TypeOK
    <3>3. CASE Joined(i)
      BY <3>2, <3>3 DEF Joined
    <3>4. CASE HalfJoined(i)
      <4>1. PICK q \in Producers : prev[q] = order[i] /\ node[q] = order[i + 1]
        BY <3>4 DEF HalfJoined
      <4>2. q # p
        BY <1>1, <1>2, <3>1, <4>1, NilAssumption
      <4> QED
        BY <3>2, <3>4, <4>1, <4>2 DEF HalfJoined, TypeOK
    <3> QED
      BY <3>3, <3>4 DEF Chain
  <2>3. HalfJoined(last)'
    <3>1. prev'[p] = head /\ node'[p] = n
      BY DEF TypeOK
    <3> QED
      BY <1>8, <3>1 DEF HalfJoined
  <2>4. \A i \in Links' : Joined(i)' \/ HalfJoined(i)'
    <3>1. \A i \in Links' : i \in Links \/ i = last
      BY <1>2, <1>3
    <3> QED
      BY <2>2, <2>3, <3>1
  <2>5. \A i, j \in 1..Len(order') : order'[i] = order'[j] => i = j
    BY <1>2 DEF Chain
  <2> QED
    BY <2>1, <2>4, <2>5 DEF Chain
<1>6. Gaps'
  <2>1. \A q \in Producers \ {p} : prev'[q] = prev[q] /\ node'[q] = node[q]
    BY DEF TypeOK
  <2>2. prev'[p] = head /\ node'[p] = n /\ head # Nil /\ n # Nil
    BY NilAssumption DEF TypeOK
  <2>3. ASSUME NEW q \in Producers, Pushing(q), q # p
        PROVE  /\ node[q] # n /\ next'[prev[q]] = Nil
               /\ \E i \in Links' : order'[i] = prev[q] /\ order'[i + 1] = node[q]
    <3>1. PICK i \in Links : order[i] = prev[q] /\ order[i + 1] = node[q]
      BY <2>3 DEF Gaps
    <3>2. i \in 1..Len(order) /\ i + 1 \in 1..Len(order) /\ i \in Links'
      BY <1>2, <1>3
    <3>3. next[prev[q]] = Nil /\ next'[order[i]] = next[order[i]]
      BY <1>2, <2>3, <3>2 DEF TypeOK, Gaps
    <3> QED
      BY <1>2, <3>1, <3>2, <3>3
  <2>5. \A q \in Producers : Pushing(q)' <=> Pushing(q) \/ q = p
    BY <2>1, <2>2 DEF Pushing
  <2>6. \A q \in Producers : Pushing(q)' <=> node'[q] # Nil
    BY <2>1, <2>2, <2>5 DEF Gaps
  <2>7. \A q \in Producers : Pushing(q)' =>
          /\ phase' = "live" /\ next'[prev'[q]] = Nil
          /\ \E i \in Links' : order'[i] = prev'[q] /\ order'[i + 1] = node'[q]
    <3> SUFFICES ASSUME NEW q \in Producers, Pushing(q)'
                 PROVE  /\ next'[prev'[q]] = Nil
                        /\ \E i \in Links' : order'[i] = prev'[q] /\ order'[i + 1] = node'[q]
      BY <1>1
    <3>1. CASE q = p
      BY <1>8, <2>2, <3>1
    <3>2. CASE q # p
      BY <2>1, <2>3, <2>5, <3>2
    <3> QED
      BY <3>1, <3>2
  <2>8. \A q, r \in Producers : Pushing(q)' /\ node'[q] = node'[r] => q = r
    <3> SUFFICES ASSUME NEW q \in Producers, NEW r \in Producers,
                        Pushing(q)', node'[q] = node'[r]
                 PROVE  q = r
      OBVIOUS
    <3>1. CASE q # p /\ r # p
      BY <2>1, <2>5, <3>1 DEF Gaps
    <3>2. CASE q = p /\ r # p
      <4>1. Pushing(r)
        BY <2>1, <2>2, <3>2 DEF Gaps
      <4> QED
        BY <2>1, <2>2, <2>3, <3>2, <4>1
    <3>3. CASE q # p /\ r = p
      BY <2>1, <2>2, <2>3, <2>5, <3>3
    <3> QED
      BY <3>1, <3>2, <3>3
  <2> QED
    BY <2>6, <2>7, <2>8 DEF Gaps
<1>7. NoLeak'
  <2>1. {order'[i] : i \in 1..Len(order')} = {order[i] : i \in 1..Len(order)} \cup {n}
    BY <1>2
  <2> QED
    BY <1>1, <2>1 DEF NoLeak
<1> QED
  BY <1>4, <1>5, <1>6, <1>7

(* Push, second half: the place is filled.  Only the store of this push    *)
(* goes to that node.                                                      *)
LEMMA LinkInv ==
  ASSUME Inv, NEW p \in Producers, Link(p)
  PROVE  Inv'
<1> USE DEF Inv, WellLinked, Link
<1>1. /\ Pushing(p) /\ prev[p] \in Cells /\ node[p] \in Cells
      /\ next' = [next EXCEPT ![prev[p]] = node[p]]
      /\ node' = [node EXCEPT ![p] = Nil] /\ prev' = [prev EXCEPT ![p] = Nil]
      /\ UNCHANGED <<head, tail, data, allocated, out, phase, order>>
  BY DEF Pushing, TypeOK, Gaps
<1>2. PICK k \in Links : order[k] = prev[p] /\ order[k + 1] = node[p]
  BY <1>1 DEF Gaps
<1>3. /\ Len(order) \in Nat \ {0} /\ Links' = Links /\ Links = 1..(Len(order) - 1)
      /\ \A i \in Links : i \in 1..Len(order) /\ i + 1 \in 1..Len(order)
      /\ order \in [1..Len(order) -> Cells]
  BY <1>1, OrderPlaces DEF Links
<1>4. \A i \in 1..Len(order) : i # k => next'[order[i]] = next[order[i]]
  BY <1>1, <1>2, <1>3 DEF Chain, TypeOK
<1>5. \A q \in Producers \ {p} : prev'[q] = prev[q] /\ node'[q] = node[q] /\ (Pushing(q)' <=> Pushing(q))
  BY <1>1 DEF TypeOK, Pushing
<1>6. TypeOK'
  BY <1>1 DEF TypeOK
<1>7. Chain'
  <2>1. Joined(k)'
    BY <1>1, <1>2 DEF Joined, TypeOK
  <2>2. ASSUME NEW i \in Links, i # k PROVE Joined(i)' \/ HalfJoined(i)'
    <3>1. next'[order[i]] = next[order[i]]
      BY <1>3, <1>4, <2>2
    <3>2. CASE Joined(i)
      BY <1>1, <3>1, <3>2 DEF Joined
    <3>3. CASE HalfJoined(i)
      <4>1. PICK q \in Producers : prev[q] = order[i] /\ node[q] = order[i + 1]
        BY <3>3 DEF HalfJoined
      <4>2. q # p
        BY <1>2, <1>3, <2>2, <4>1 DEF Chain
      <4> QED
        BY <1>1, <1>5, <3>1, <3>3, <4>1, <4>2 DEF HalfJoined
    <3> QED
      BY <3>2, <3>3 DEF Chain
  <2>3. next'[head] = Nil
    <3>1. head = order[Len(order)] /\ Len(order) # k /\ Len(order) \in 1..Len(order)
      BY <1>3 DEF Chain
    <3> QED
      BY <1>4, <3>1 DEF Chain
  <2> QED
    BY <1>1, <1>3, <2>1, <2>2, <2>3 DEF Chain
<1>8. Gaps'
  <2>1. prev'[p] = Nil /\ node'[p] = Nil /\ ~Pushing(p)'
    BY <1>1 DEF TypeOK, Pushing
  <2>2. ASSUME NEW q \in Producers, q # p, Pushing(q) PROVE next'[prev[q]] = Nil
    <3>1. PICK i \in Links : order[i] = prev[q] /\ order[i + 1] = node[q]
      BY <2>2 DEF Gaps
    <3>2. i # k
      BY <1>1, <1>2, <2>2, <3>1 DEF Gaps
    <3> QED
      BY <1>3, <1>4, <2>2, <3>1, <3>2 DEF Gaps
  <2> QED
    BY <1>1, <1>3, <1>5, <2>1, <2>2 DEF Gaps
<1>9. NoLeak'
  BY <1>1 DEF NoLeak
<1> QED
  BY <1>6, <1>7, <1>8, <1>9

-----------------------------------------------------------------------------
(* Pop follows a next that is not null, so to the second node of the       *)
(* order; the node it deletes is the one before every gap.                 *)
LEMMA PopSecond ==
  ASSUME Inv, next[tail] # Nil
  PROVE  /\ Len(order) \in Nat /\ Len(order) > 1 /\ 1 \in Links
         /\ order[1] = tail /\ next[tail] = order[2] /\ Joined(1)
<1> USE DEF Inv, WellLinked
<1>1. Len(order) \in Nat \ {0} /\ order[1] = tail /\ tail # head
  BY OrderPlaces DEF Chain
<1>2. Len(order) \in Nat /\ Len(order) # 0 /\ Len(order) # 1
  BY <1>1 DEF Chain
<1>3. Len(order) > 1 /\ 1 \in 1..(Len(order) - 1)
  <2>1. \A n \in Nat : n # 0 /\ n # 1 => n > 1 /\ 1 \in 1..(n - 1)
    OBVIOUS
  <2> QED
    BY <1>2, <2>1, Zenon
<1>4. Joined(1)
  BY <1>1, <1>3 DEF Chain, HalfJoined, Links
<1>5. next[tail] = order[2]
  <2>1. 1 + 1 = 2
    OBVIOUS
  <2> QED
    BY <1>1, <1>4, <2>1 DEF Joined
<1> QED
  BY <1>1, <1>3, <1>4, <1>5 DEF Links

LEMMA TailOfOrder ==
  ASSUME Inv, Len(order) > 1, order' = Tail(order)
  PROVE  /\ order' \in Seq(Cells) /\ Len(order') = Len(order) - 1 /\ order' # <<>>
         /\ Links' = 1..(Len(order) - 2)
         /\ \A i \in 1..(Len(order) - 1) : order'[i] = order[i + 1]
<1>1. order \in Seq(Cells) /\ order # <<>> /\ Len(order) \in Nat
  BY DEF Inv, WellLinked, TypeOK
<1>2. /\ order' \in Seq(Cells) /\ Len(order') = Len(order) - 1
      /\ \A i \in 1..Len(order') : order'[i] = order[i + 1]
  BY <1>1, HeadTailProperties
<1>3. order' # <<>>
  BY <1>1, <1>2
<1>4. Links' = 1..(Len(order) - 2)
  BY <1>1, <1>2 DEF Links
<1> QED
  BY <1>1, <1>2, <1>3, <1>4

LEMMA PopInv ==
  ASSUME Inv, Pop
  PROVE  Inv'
<1> USE DEF Inv, WellLinked, Pop
<1>1. /\ Len(order) \in Nat /\ Len(order) > 1
      /\ order[1] = tail /\ next[tail] = order[2]
  BY PopSecond
<1>2. /\ order' \in Seq(Cells) /\ Len(order') = Len(order) - 1 /\ order' # <<>>
      /\ Links' = 1..(Len(order) - 2) /\ Links = 1..(Len(order) - 1)
      /\ \A i \in 1..(Len(order) - 1) : order'[i] = order[i + 1]
      /\ order \in [1..Len(order) -> Cells]
  BY <1>1, TailOfOrder, OrderPlaces
<1>3. /\ tail' = order[2] /\ phase # "gone" /\ allocated' = allocated \ {tail}
      /\ UNCHANGED <<head, next, node, prev, phase>>
  BY <1>1
<1>4. TypeOK'
  <2>1. order[2] \in Cells
    BY <1>1, <1>2
  <2>2. out' \in Items \cup {Nil} /\ data' \in [Cells -> Items \cup {Nil}]
    BY <1>1, <2>1 DEF TypeOK
  <2> QED
    BY <1>2, <1>3, <2>1, <2>2 DEF TypeOK
<1>5. Chain'
  <2>1. order'[1] = tail' /\ order'[Len(order')] = head' /\ next'[head'] = Nil
    BY <1>1, <1>2, <1>3 DEF Chain
  <2>2. ASSUME NEW i \in Links' PROVE Joined(i)' \/ HalfJoined(i)'
    <3>1. i + 1 \in Links /\ order'[i] = order[i + 1] /\ order'[i + 1] = order[(i + 1) + 1]
      BY <1>1, <1>2
    <3>2. Joined(i + 1) \/ HalfJoined(i + 1)
      BY <3>1 DEF Chain
    <3> QED
      BY <1>3, <3>1, <3>2 DEF Joined, HalfJoined
  <2>3. ASSUME NEW i \in 1..Len(order'), NEW j \in 1..Len(order'), order'[i] = order'[j]
        PROVE  i = j
    <3>1. i + 1 \in 1..Len(order) /\ j + 1 \in 1..Len(order) /\ order[i + 1] = order[j + 1]
      BY <1>1, <1>2, <2>3
    <3>2. i + 1 = j + 1
      BY <3>1 DEF Chain
    <3> QED
      BY <1>1, <1>2, <3>2
  <2> QED
    BY <1>2, <2>1, <2>2, <2>3 DEF Chain
<1>6. Gaps'
  <2>1. ASSUME NEW q \in Producers, Pushing(q)
        PROVE  \E i \in Links' : order'[i] = prev[q] /\ order'[i + 1] = node[q]
    <3>1. PICK i \in Links : order[i] = prev[q] /\ order[i + 1] = node[q]
      BY <2>1 DEF Gaps
    <3>2. i # 1
      BY <1>1, <2>1, <3>1 DEF Gaps
    <3>3. i - 1 \in Links' /\ (i - 1) + 1 = i
      BY <1>1, <1>2, <3>2
    <3>4. order'[i - 1] = order[i] /\ order'[(i - 1) + 1] = order[i + 1]
      BY <1>1, <1>2, <3>2
    <3> QED
      BY <3>1, <3>3, <3>4
  <2>2. \A q \in Producers : (Pushing(q)' <=> Pushing(q)) /\ prev'[q] = prev[q] /\ node'[q] = node[q]
    BY <1>3 DEF Pushing
  <2>3. next' = next /\ phase' = phase
    BY <1>3
  <2>4. \A q \in Producers : Pushing(q) =>
          phase' = "live" /\ next'[prev'[q]] = Nil
          /\ \E i \in Links' : order'[i] = prev'[q] /\ order'[i + 1] = node'[q]
    BY <2>1, <2>2, <2>3 DEF Gaps
  <2>5. \A q \in Producers : Pushing(q)' <=> node'[q] # Nil
    BY <2>2 DEF Gaps
  <2>6. \A q, u \in Producers : Pushing(q) /\ node'[q] = node'[u] => q = u
    BY <2>2 DEF Gaps
  <2> QED
    BY <2>2, <2>4, <2>5, <2>6 DEF Gaps
<1>7. NoLeak'
  <2>1. allocated = {order[i] : i \in 1..Len(order)}
    BY <1>3 DEF NoLeak
  <2>2. ASSUME NEW c \in allocated, c # tail PROVE \E i \in 1..Len(order') : order'[i] = c
    <3>1. PICK j \in 1..Len(order) : order[j] = c
      BY <2>1, <2>2
    <3>2. j # 1
      BY <1>1, <2>2, <3>1
    <3>3. j - 1 \in 1..Len(order') /\ (j - 1) + 1 = j
      BY <1>1, <1>2, <3>2
    <3> QED
      BY <1>1, <1>2, <3>1, <3>2, <3>3
  <2>3. ASSUME NEW i \in 1..Len(order') PROVE order'[i] \in allocated \ {tail}
    <3>1. i + 1 \in 1..Len(order) /\ order'[i] = order[i + 1] /\ i + 1 # 1 /\ 1 \in 1..Len(order)
      BY <1>1, <1>2
    <3> QED
      BY <1>1, <2>1, <3>1 DEF Chain
  <2>4. allocated \ {tail} = {order'[i] : i \in 1..Len(order')}
    BY <2>2, <2>3
  <2> QED
    BY <1>3, <2>4 DEF NoLeak
<1> QED
  BY <1>4, <1>5, <1>6, <1>7

(* Pop returning false, and the destructor: it starts when no push is half *)
(* finished, so when it finds a null next it is at the end of the order.   *)
LEMMA RestInv ==
  ASSUME Inv, PopFalse \/ BeginDestroy \/ EndDestroy
  PROVE  Inv'
<1> USE DEF Inv, WellLinked
<1>1. CASE PopFalse
  BY <1>1 DEF PopFalse, TypeOK, Chain, Gaps, NoLeak, Joined, HalfJoined, Links, Pushing
<1>2. CASE BeginDestroy
  BY <1>2 DEF BeginDestroy, TypeOK, Chain, Gaps, NoLeak, Joined, HalfJoined, Links, Pushing
<1>3. CASE EndDestroy
  <2>1. \A p \in Producers : ~Pushing(p)
    BY <1>3 DEF EndDestroy, Gaps
  <2>2. 1 \notin Links
    BY <1>3, <2>1, OrderPlaces, NilAssumption
       DEF EndDestroy, Chain, Joined, HalfJoined, Pushing, TypeOK
  <2>3. {order[i] : i \in 1..Len(order)} = {tail}
    BY <2>2, OrderPlaces DEF Chain
  <2>4. allocated' = {}
    BY <1>3, <2>3 DEF EndDestroy, NoLeak
  <2>5. TypeOK'
    BY <1>3, <2>4 DEF EndDestroy, TypeOK
  <2>6. Chain'
    BY <1>3 DEF EndDestroy, Chain, Joined, HalfJoined, Links
  <2>7. Gaps'
    BY <1>3, <2>1 DEF EndDestroy, Gaps, Pushing
  <2> QED
    BY <1>3, <2>4, <2>5, <2>6, <2>7 DEF EndDestroy, NoLeak
<1> QED
  BY <1>1, <1>2, <1>3

LEMMA NextInv == Inv /\ [Next]_vars => Inv'
<1> SUFFICES ASSUME Inv, [Next]_vars PROVE Inv'
  OBVIOUS
<1>1. CASE UNCHANGED vars
  BY <1>1 DEF vars, Inv, WellLinked, TypeOK, Chain, Gaps, NoLeak, Joined, HalfJoined, Links, Pushing
<1>2. ASSUME NEW p \in Producers, NEW d \in Items, Exchange(p, d) PROVE Inv'
  BY <1>2, ExchangeInv
<1>3. ASSUME NEW p \in Producers, Link(p) PROVE Inv'
  BY <1>3, LinkInv
<1>4. CASE Pop
  BY <1>4, PopInv
<1>5. CASE PopFalse \/ BeginDestroy \/ EndDestroy
  BY <1>5, RestInv
<1> QED
  BY <1>1, <1>2, <1>3, <1>4, <1>5 DEF Next

LEMMA Invariance == Spec => []Inv
  BY InitInv, NextInv, PTL DEF Spec

(* However pushes, pops and the destructor interleave, the list is one     *)
(* chain in exchange order whose only gaps are the half finished pushes,   *)
(* each of which has one gap.                                              *)
THEOREM ListWellLinked == Spec => []WellLinked
  BY Invariance, PTL DEF Inv

(* No node is deleted while a push or the consumer can still reach it, and *)
(* none is forgotten, though nothing but the order of the steps protects   *)
(* the nodes.                                                              *)
THEOREM ReclaimedInTime == Spec => []MemorySafe
<1>1. Inv => MemorySafe
  <2> SUFFICES ASSUME Inv PROVE NoUseAfterFree
    BY DEF Inv, MemorySafe
  <2> USE DEF Inv, WellLinked
  <2>1. phase # "gone" => head \in allocated /\ tail \in allocated
    BY OrderPlaces DEF NoLeak, Chain
  <2>2. ASSUME NEW p \in Producers, Pushing(p) PROVE prev[p] \in allocated /\ node[p] \in allocated
    BY <2>2, OrderPlaces DEF Gaps, NoLeak
  <2> QED
    BY <2>1, <2>2 DEF NoUseAfterFree
<1> QED
  BY <1>1, Invariance, PTL

-----------------------------------------------------------------------------
(* The refinement.  A place of the order is an entry; it is its producer's *)
(* while the place is a gap, and nobody's once it is joined.               *)
AnyEntry == [item : Items \cup {Nil}, by : Producers \cup {Nil}]

By(i) == IF next[order[i]] = Nil THEN Owner(order[i + 1]) ELSE Nil

Shape ==
  /\ Len(order) \in Nat \ {0} /\ Links = 1..(Len(order) - 1)
  /\ Entries \in Seq(AnyEntry) /\ Len(Entries) = Len(order) - 1
  /\ \A i \in Links :
       /\ Entries[i] = [item |-> data[order[i + 1]], by |-> By(i)]
       /\ Joined(i) => By(i) = Nil
       /\ \A p \in Producers :
            next[order[i]] = Nil /\ prev[p] = order[i] /\ node[p] = order[i + 1] => By(i) = p

(* The producer whose node it is, when there is one such producer.         *)
LEMMA OneOwner ==
  ASSUME NEW f, NEW n, NEW p \in Producers, f[p] = n, \A q \in Producers : f[q] = n => p = q
  PROVE  (CHOOSE q \in Producers : f[q] = n) = p
<1>1. \A q \in Producers : f[q] = n <=> q = p
  OBVIOUS
<1> QED
  BY <1>1

LEMMA ShapeHolds == Inv => Shape
<1> SUFFICES ASSUME Inv PROVE Shape
  OBVIOUS
<1> USE DEF Inv, WellLinked
<1>1. /\ Len(order) \in Nat \ {0} /\ Links = 1..(Len(order) - 1)
      /\ order \in [1..Len(order) -> Cells]
      /\ \A i \in Links : i \in 1..Len(order) /\ i + 1 \in 1..Len(order)
  BY OrderPlaces
<1>2. ASSUME NEW i \in Links
      PROVE  /\ order[i] \in Cells /\ order[i + 1] \in Cells
             /\ data[order[i + 1]] \in Items \cup {Nil}
  BY <1>1 DEF TypeOK
<1>3. ASSUME NEW i \in Links, Joined(i) PROVE By(i) = Nil
  BY <1>2, <1>3, NilAssumption DEF By, Joined
<1>4. ASSUME NEW i \in Links, NEW p \in Producers,
             next[order[i]] = Nil, prev[p] = order[i], node[p] = order[i + 1]
      PROVE  By(i) = p
  <2>1. Pushing(p)
    BY <1>2, <1>4, NilAssumption DEF Pushing
  <2>2. \A q \in Producers : node[q] = order[i + 1] => p = q
    BY <1>4, <2>1 DEF Gaps
  <2>3. Owner(order[i + 1]) = p
    BY <1>4, <2>2, OneOwner, Zenon DEF Owner
  <2> QED
    BY <1>4, <2>3 DEF By
<1>5. ASSUME NEW i \in Links PROVE By(i) \in Producers \cup {Nil}
  <2>1. CASE Joined(i)
    BY <1>3, <2>1
  <2>2. CASE HalfJoined(i)
    BY <1>4, <2>2 DEF HalfJoined
  <2> QED
    BY <2>1, <2>2 DEF Chain
<1>6. Entries = [i \in Links |-> [item |-> data[order[i + 1]], by |-> By(i)]]
  BY DEF Entries, By
<1>7. Entries \in [1..(Len(order) - 1) -> AnyEntry]
  BY <1>1, <1>2, <1>5, <1>6 DEF AnyEntry
<1>8. Len(order) - 1 \in Nat
  BY <1>1
<1>9. Entries \in Seq(AnyEntry) /\ Len(Entries) = Len(order) - 1
  BY <1>7, <1>8
<1> QED
  BY <1>1, <1>3, <1>4, <1>6, <1>9 DEF Shape

LEMMA ShapeNext == Inv' => Shape'
  BY ShapeHolds, PTL

(* A place that stays as it was, gap or joined, is the entry it was.       *)
LEMMA SameBy ==
  ASSUME Inv, Shape, Shape', NEW i \in Links, NEW j \in Links',
         order'[j] = order[i], order'[j + 1] = order[i + 1], next'[order[i]] = next[order[i]],
         \A q \in Producers : prev[q] = order[i] /\ node[q] = order[i + 1]
                                => prev'[q] = prev[q] /\ node'[q] = node[q]
  PROVE  By(j)' = By(i)
<1>1. CASE Joined(i)
  <2>1. Joined(j)'
    BY <1>1 DEF Joined
  <2> QED
    BY <1>1, <2>1 DEF Shape
<1>2. CASE HalfJoined(i)
  <2>1. PICK q \in Producers : prev[q] = order[i] /\ node[q] = order[i + 1]
    BY <1>2 DEF HalfJoined
  <2>2. By(i) = q
    BY <1>2, <2>1 DEF Shape, HalfJoined
  <2>3. next'[order'[j]] = Nil /\ prev'[q] = order'[j] /\ node'[q] = order'[j + 1]
    BY <1>2, <2>1 DEF HalfJoined
  <2>4. By(j)' = q
    BY <2>3 DEF Shape
  <2> QED
    BY <2>2, <2>4
<1> QED
  BY <1>1, <1>2 DEF Inv, WellLinked, Chain

(* The producer of an entry that is somebody's is in a Push, at that place. *)
LEMMA OwnerIsPushing ==
  ASSUME Inv, Shape, NEW i \in Links, By(i) # Nil
  PROVE  /\ By(i) \in Producers /\ Pushing(By(i))
         /\ prev[By(i)] = order[i] /\ node[By(i)] = order[i + 1]
<1>1. HalfJoined(i)
  BY DEF Shape, Inv, WellLinked, Chain
<1>2. PICK q \in Producers : prev[q] = order[i] /\ node[q] = order[i + 1]
  BY <1>1 DEF HalfJoined
<1>3. By(i) = q
  BY <1>1, <1>2 DEF Shape, HalfJoined
<1>4. order[i + 1] # Nil
  BY OrderPlaces, NilAssumption
<1> QED
  BY <1>2, <1>3, <1>4 DEF Inv, WellLinked, Gaps

LEMMA ExchangeEnters ==
  ASSUME Inv, Inv', NEW p \in Producers, NEW d \in Items, Exchange(p, d)
  PROVE  Mpsc!Enter(p, d) /\ UNCHANGED out
<1> PICK n \in Cells \ allocated :
       /\ data' = [data EXCEPT ![n] = d]
       /\ next' = [next EXCEPT ![n] = Nil]
       /\ node' = [node EXCEPT ![p] = n]
       /\ prev' = [prev EXCEPT ![p] = head]
       /\ head' = n
       /\ order' = Append(order, n)
  BY DEF Exchange
<1> DEFINE e == [item |-> d, by |-> p]
<1>1. Shape /\ Shape'
  BY ShapeHolds, ShapeNext
<1>2. /\ ~Pushing(p) /\ phase = "live" /\ UNCHANGED <<tail, out, phase>>
      /\ TypeOK /\ order \in Seq(Cells) /\ Len(order) \in Nat \ {0}
      /\ order[Len(order)] = head /\ next[head] = Nil
  BY OrderPlaces DEF Exchange, Inv, WellLinked, TypeOK, Chain
<1>3. PICK last \in 1..Len(order) : last = Len(order)
  <2>1. Len(order) \in 1..Len(order)
    BY <1>2
  <2> QED
    BY <2>1, Zenon
<1>4. \A i \in 1..Len(order) : order[i] \in Cells /\ order[i] # n
  BY <1>2 DEF Inv, NoLeak
<1>5. /\ Len(order') = Len(order) + 1 /\ order'[last + 1] = n
      /\ \A i \in 1..Len(order) : order'[i] = order[i]
  BY <1>2, <1>3, AppendProperties
<1>6. /\ Links = 1..(last - 1) /\ Links' = 1..last /\ last \in Nat /\ last >= 1
      /\ Len(Entries) = last - 1 /\ Len(Entries') = last
      /\ Entries \in Seq(AnyEntry) /\ Entries' \in Seq(AnyEntry)
  BY <1>1, <1>2, <1>3, <1>5 DEF Shape, AnyEntry
<1>7. p \notin Mpsc!Half
  <2> SUFFICES ASSUME NEW i \in DOMAIN Entries, Entries[i].by = p, p # Nil PROVE FALSE
    BY NilAssumption DEF Mpsc!Half
  <2>1. i \in Links /\ Entries[i].by = By(i)
    BY <1>1 DEF Shape, Entries
  <2> QED
    BY <1>1, <1>2, <2>1, OwnerIsPushing
<1>8. e \in AnyEntry
  BY DEF AnyEntry
<1>9. ASSUME NEW i \in Links PROVE Entries'[i] = Entries[i]
  <2>1. i \in Links' /\ i \in 1..Len(order) /\ i + 1 \in 1..Len(order)
    BY <1>3, <1>6
  <2>2. order'[i] = order[i] /\ order'[i + 1] = order[i + 1]
    BY <1>5, <2>1
  <2>3. next'[order[i]] = next[order[i]] /\ data'[order[i + 1]] = data[order[i + 1]]
    BY <1>2, <1>4, <2>1 DEF TypeOK
  <2>4. \A q \in Producers : node[q] = order[i + 1] => q # p
    BY <1>2, <1>4, <2>1, NilAssumption DEF Inv, WellLinked, Gaps, Pushing
  <2>5. \A q \in Producers : q # p => prev'[q] = prev[q] /\ node'[q] = node[q]
    BY <1>2 DEF TypeOK
  <2>6. By(i)' = By(i)
    BY <1>1, <2>1, <2>2, <2>3, <2>4, <2>5, SameBy
  <2>7. Entries[i] = [item |-> data[order[i + 1]], by |-> By(i)]
    BY <1>1 DEF Shape
  <2>8. Entries'[i] = [item |-> data'[order'[i + 1]], by |-> By(i)']
    BY <1>1, <2>1 DEF Shape
  <2> QED
    BY <2>2, <2>3, <2>6, <2>7, <2>8
<1>10. Entries'[last] = e
  <2>1. /\ order'[last] = head /\ order'[last + 1] = n /\ next'[head] = Nil
        /\ prev'[p] = head /\ node'[p] = n /\ data'[n] = d
    BY <1>2, <1>3, <1>4, <1>5 DEF TypeOK
  <2>2. last \in Links'
    BY <1>6
  <2>3. next'[order'[last]] = Nil /\ prev'[p] = order'[last] /\ node'[p] = order'[last + 1]
    BY <2>1
  <2>4. By(last)' = p
    BY <1>1, <2>2, <2>3 DEF Shape
  <2>5. Entries'[last] = [item |-> data'[order'[last + 1]], by |-> By(last)']
    BY <1>1, <2>2 DEF Shape
  <2> QED
    BY <2>1, <2>4, <2>5
<1>11. /\ Append(Entries, e) \in Seq(AnyEntry) /\ Len(Append(Entries, e)) = last
       /\ \A i \in 1..(last - 1) : Append(Entries, e)[i] = Entries[i]
       /\ Append(Entries, e)[last] = e
  <2> HIDE DEF e
  <2>1. /\ Append(Entries, e) \in Seq(AnyEntry) /\ Len(Append(Entries, e)) = Len(Entries) + 1
        /\ \A i \in 1..Len(Entries) : Append(Entries, e)[i] = Entries[i]
        /\ Append(Entries, e)[Len(Entries) + 1] = e
    BY <1>6, <1>8, AppendProperties
  <2> QED
    BY <1>6, <2>1
<1>12. Entries' = Append(Entries, e)
  <2>1. \A i \in 1..Len(Entries') : Entries'[i] = Append(Entries, e)[i]
    BY <1>6, <1>9, <1>10, <1>11
  <2> HIDE DEF e
  <2> QED
    BY <1>6, <1>11, <2>1, SeqEqual
<1> QED
  BY <1>2, <1>7, <1>12 DEF Mpsc!Enter

LEMMA LinkFinishes ==
  ASSUME Inv, Inv', NEW p \in Producers, Link(p)
  PROVE  Mpsc!Finish(p) /\ UNCHANGED out
<1> DEFINE F == [i \in DOMAIN Entries |->
                   IF Entries[i].by = p THEN [Entries[i] EXCEPT !.by = Nil] ELSE Entries[i]]
<1>1. Shape /\ Shape'
  BY ShapeHolds, ShapeNext
<1>2. /\ Pushing(p) /\ TypeOK /\ prev[p] \in Cells /\ node[p] \in Cells
      /\ next' = [next EXCEPT ![prev[p]] = node[p]]
      /\ node' = [node EXCEPT ![p] = Nil] /\ prev' = [prev EXCEPT ![p] = Nil]
      /\ UNCHANGED <<head, tail, data, allocated, out, phase, order>>
  BY DEF Link, Pushing, Inv, WellLinked, TypeOK, Gaps
<1>3. PICK k \in Links : order[k] = prev[p] /\ order[k + 1] = node[p]
  BY <1>2 DEF Inv, WellLinked, Gaps
<1>4. Links' = Links /\ DOMAIN Entries = Links /\ DOMAIN Entries' = Links
  BY <1>2 DEF Links, Entries
<1>5. By(k) = p /\ By(k)' = Nil
  <2>1. next[order[k]] = Nil
    BY <1>2, <1>3 DEF Inv, WellLinked, Gaps
  <2>2. By(k) = p
    BY <1>1, <1>3, <2>1 DEF Shape
  <2>3. next'[order'[k]] = order'[k + 1]
    BY <1>2, <1>3 DEF TypeOK
  <2>4. Joined(k)'
    BY <2>3 DEF Joined
  <2> QED
    BY <1>1, <1>4, <2>2, <2>4 DEF Shape
<1>6. ASSUME NEW i \in Links, i # k PROVE By(i) # p /\ By(i)' = By(i)
  <2>1. order[i] # order[k]
    BY <1>6, OrderPlaces DEF Inv, WellLinked, Chain
  <2>2. By(i) # p
    <3>1. p # Nil
      BY NilAssumption
    <3> QED
      BY <1>1, <1>3, <2>1, <3>1, OwnerIsPushing
  <2>3. next'[order[i]] = next[order[i]]
    BY <1>2, <1>3, <2>1 DEF TypeOK
  <2>4. \A q \in Producers : prev[q] = order[i] => prev'[q] = prev[q] /\ node'[q] = node[q]
    BY <1>2, <1>3, <2>1 DEF TypeOK
  <2>5. order'[i] = order[i] /\ order'[i + 1] = order[i + 1]
    BY <1>2
  <2>6. By(i)' = By(i)
    BY <1>1, <1>4, <2>3, <2>4, <2>5, SameBy
  <2> QED
    BY <2>2, <2>6
<1>7. ASSUME NEW i \in Links
      PROVE  /\ Entries[i] = [item |-> data[order[i + 1]], by |-> By(i)]
             /\ Entries'[i] = [item |-> data[order[i + 1]], by |-> By(i)']
  <2>1. Entries'[i] = [item |-> data'[order'[i + 1]], by |-> By(i)']
    BY <1>1, <1>4 DEF Shape
  <2> QED
    BY <1>1, <1>2, <2>1 DEF Shape
<1>8. ASSUME NEW i \in Links
      PROVE  Entries'[i] = IF Entries[i].by = p THEN [Entries[i] EXCEPT !.by = Nil] ELSE Entries[i]
  <2> DEFINE e(b) == [item |-> data[order[i + 1]], by |-> b]
  <2>1. \A b : e(b).by = b /\ [e(b) EXCEPT !.by = Nil] = e(Nil)
    OBVIOUS
  <2>2. Entries[i] = e(By(i)) /\ Entries'[i] = e(By(i)')
    BY <1>7
  <2> HIDE DEF e
  <2>3. CASE i = k
    BY <1>5, <2>1, <2>2, <2>3
  <2>4. CASE i # k
    BY <1>6, <2>1, <2>2, <2>4
  <2> QED
    BY <2>3, <2>4
<1>9. p \in Mpsc!Half
  BY <1>4, <1>5, <1>7, NilAssumption DEF Mpsc!Half
<1>10. Entries' = [i \in Links |-> Entries'[i]]
  BY <1>4 DEF Entries
<1>11. Entries' = F
  BY <1>4, <1>8, <1>10
<1> QED
  BY <1>2, <1>9, <1>11 DEF Mpsc!Finish

LEMMA PopTakes ==
  ASSUME Inv, Inv', Pop
  PROVE  Mpsc!Take /\ out' = Head(Entries).item
<1>1. Shape /\ Shape'
  BY ShapeHolds, ShapeNext
<1>2. /\ Len(order) \in Nat /\ Len(order) > 1 /\ 1 \in Links
      /\ order[1] = tail /\ next[tail] = order[2] /\ Joined(1)
  BY PopSecond DEF Pop
<1>3. /\ Len(order') = Len(order) - 1
      /\ Links' = 1..(Len(order) - 2) /\ Links = 1..(Len(order) - 1)
      /\ \A i \in 1..(Len(order) - 1) : order'[i] = order[i + 1]
  BY <1>2, TailOfOrder DEF Pop, Links
<1>4. /\ UNCHANGED <<next, node, prev>> /\ TypeOK
      /\ out' = data[order[2]] /\ data' = [data EXCEPT ![order[2]] = Nil]
  BY <1>2 DEF Pop, Inv, WellLinked
<1>5. /\ Entries \in Seq(AnyEntry) /\ Len(Entries) = Len(order) - 1 /\ Entries # <<>>
      /\ Entries' \in Seq(AnyEntry) /\ Len(Entries') = Len(order) - 2
  <2>1. Entries' \in Seq(AnyEntry) /\ Len(Entries') = Len(order') - 1
    BY <1>1 DEF Shape, AnyEntry
  <2>2. Entries \in Seq(AnyEntry) /\ Len(Entries) = Len(order) - 1
    BY <1>1 DEF Shape
  <2>3. Len(Entries) # 0
    BY <1>2, <2>2
  <2> QED
    BY <1>2, <1>3, <2>1, <2>2, <2>3
<1>6. Entries[1] = [item |-> data[order[2]], by |-> Nil]
  <2>1. 1 + 1 = 2
    OBVIOUS
  <2> QED
    BY <1>1, <1>2, <2>1 DEF Shape
<1>7. Head(Entries) = Entries[1]
  BY <1>5
<1>8. /\ Tail(Entries) \in Seq(AnyEntry) /\ Len(Tail(Entries)) = Len(Entries) - 1
      /\ \A i \in 1..Len(Tail(Entries)) : Tail(Entries)[i] = Entries[i + 1]
  BY <1>5, HeadTailProperties
<1>9. ASSUME NEW i \in Links' PROVE Entries'[i] = Entries[i + 1]
  <2>1. /\ i + 1 \in Links /\ i \in 1..(Len(order) - 1) /\ i + 1 \in 1..(Len(order) - 1)
        /\ (i + 1) + 1 \in 1..Len(order) /\ 2 \in 1..Len(order) /\ (i + 1) + 1 # 2
    BY <1>2, <1>3
  <2>2. order'[i] = order[i + 1] /\ order'[i + 1] = order[(i + 1) + 1]
    BY <1>3, <2>1
  <2>3. order[(i + 1) + 1] # order[2] /\ order[(i + 1) + 1] \in Cells
    BY <2>1, OrderPlaces DEF Inv, WellLinked, Chain
  <2>4. data'[order[(i + 1) + 1]] = data[order[(i + 1) + 1]]
    BY <1>4, <2>3 DEF TypeOK
  <2> PICK j \in Links : j = i + 1
    BY <2>1, Zenon
  <2>5. By(i)' = By(j)
    BY <1>1, <1>4, <2>2, SameBy
  <2>6. Entries[j] = [item |-> data[order[j + 1]], by |-> By(j)]
    BY <1>1 DEF Shape
  <2>7. Entries'[i] = [item |-> data'[order'[i + 1]], by |-> By(i)']
    BY <1>1 DEF Shape
  <2> QED
    BY <2>2, <2>4, <2>5, <2>6, <2>7
<1>10. Entries' = Tail(Entries)
  <2>1. Len(Tail(Entries)) = Len(Entries')
    BY <1>2, <1>5, <1>8
  <2>2. 1..Len(Entries') = Links'
    BY <1>3, <1>5
  <2>3. \A i \in 1..Len(Entries') : Entries'[i] = Tail(Entries)[i]
    BY <1>8, <1>9, <2>1, <2>2
  <2> QED
    BY <1>5, <1>8, <2>1, <2>3, SeqEqual
<1> QED
  BY <1>4, <1>5, <1>6, <1>7, <1>10 DEF Mpsc!Take, Mpsc!Poppable, Mpsc!Linked

LEMMA PopFalseFindsNothing ==
  ASSUME Inv, PopFalse
  PROVE  ~Mpsc!Poppable /\ out' = Nil /\ UNCHANGED Entries
<1>1. Shape
  BY ShapeHolds
<1>2. UNCHANGED Entries /\ out' = Nil
  BY DEF PopFalse, Entries, Links, Owner
<1>3. SUFFICES ASSUME Entries # <<>>, Head(Entries).by = Nil PROVE FALSE
  BY <1>2 DEF Mpsc!Poppable, Mpsc!Linked
<1>4. Entries \in Seq(AnyEntry) /\ Len(Entries) = Len(order) - 1 /\ Len(order) \in Nat
  BY <1>1 DEF Shape
<1>5. Head(Entries) = Entries[1] /\ Len(Entries) \in Nat \ {0}
  <2>1. Len(Entries) \in Nat \ {0}
    BY <1>3, <1>4, EmptySeq, Zenon
  <2>2. Head(Entries) = Entries[1]
    BY <1>3, <1>4
  <2> QED
    BY <2>1, <2>2
<1>6. 1 \in Links
  BY <1>4, <1>5 DEF Links
<1>7. Entries[1].by = By(1)
  <2>1. Entries[1] = [item |-> data[order[1 + 1]], by |-> By(1)]
    BY <1>1, <1>6 DEF Shape
  <2> QED
    BY <2>1
<1>8. order[1] = tail /\ next[tail] = Nil
  BY DEF PopFalse, Inv, WellLinked, Chain
<1>9. ~Joined(1)
  <2>1. order[1 + 1] \in Cells
    BY <1>6, OrderPlaces
  <2> QED
    BY <1>8, <2>1, NilAssumption DEF Joined
<1>10. PICK q \in Producers : prev[q] = order[1] /\ node[q] = order[1 + 1]
  BY <1>6, <1>9 DEF Inv, WellLinked, Chain, HalfJoined
<1>11. By(1) = q
  BY <1>1, <1>6, <1>8, <1>10 DEF Shape
<1> QED
  BY <1>3, <1>5, <1>7, <1>11, NilAssumption

LEMMA StepRefines == Inv /\ Inv' /\ [Next]_vars => [Mpsc!QNext]_(Mpsc!qvars)
<1> SUFFICES ASSUME Inv, Inv', [Next]_vars PROVE [Mpsc!QNext]_(Mpsc!qvars)
  OBVIOUS
<1>1. ASSUME NEW p \in Producers, NEW d \in Items, Exchange(p, d) PROVE Mpsc!QNext
  BY <1>1, ExchangeEnters DEF Mpsc!QNext
<1>2. ASSUME NEW p \in Producers, Link(p) PROVE Mpsc!QNext
  BY <1>2, LinkFinishes DEF Mpsc!QNext
<1>3. CASE Pop
  BY <1>3, PopTakes DEF Mpsc!QNext
<1>4. CASE PopFalse
  BY <1>4, PopFalseFindsNothing DEF Mpsc!QNext
<1>5. CASE BeginDestroy \/ EndDestroy \/ UNCHANGED vars
  <2>1. UNCHANGED <<next, data, node, order, out>>
    BY <1>5 DEF BeginDestroy, EndDestroy, vars
  <2> QED
    BY <2>1 DEF Mpsc!qvars, Entries, Links, Owner
<1> QED
  BY <1>1, <1>2, <1>3, <1>4, <1>5 DEF Next

(* The linked list is the queue its users are promised: values come out    *)
(* once each, in the order of the exchanges, and the consumer never sees   *)
(* past an unfinished Push, whatever cells the nodes are reused in.        *)
THEOREM ListIsQueue == Spec => ImplementsMpsc
<1>1. Init => Mpsc!QInit
  <2> SUFFICES ASSUME Init PROVE Entries = <<>> /\ out = Nil
    BY DEF Mpsc!QInit
  <2>1. Len(order) = 1 /\ out = Nil
    BY DEF Init
  <2>2. Links = {}
    BY <2>1 DEF Links
  <2> QED
    BY <2>1, <2>2 DEF Entries
<1> QED
  BY <1>1, Invariance, StepRefines, PTL DEF Spec, ImplementsMpsc, Mpsc!QSpec
=============================================================================
