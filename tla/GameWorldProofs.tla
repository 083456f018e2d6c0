---------------------------- MODULE GameWorldProofs ----------------------------
(***************************************************************************)
(* Proofs about GameWorld: which objects are in the room, what each client *)
(* has been shown, what the grid holds, and what has become of a           *)
(* character's position, for any number of sessions, objects, ids, places  *)
(* and DB workers.                                                         *)
(***************************************************************************)
EXTENDS GameWorld, SequenceTheorems, FiniteSetTheorems, TLAPS

-----------------------------------------------------------------------------
(* The queues of the room and of the DB pool are only asked what is in     *)
(* them, and whether it is there once.                                     *)
InLine(q, x) == \E i \in DOMAIN q : q[i] = x

Once(q, x) == \A i, j \in DOMAIN q : q[i] = x /\ q[j] = x => i = j

(* Appending adds its element and nothing else.                            *)
LEMMA AppendLine ==
  ASSUME NEW S, NEW q \in Seq(S), NEW x \in S
  PROVE  /\ Append(q, x) \in Seq(S)
         /\ \A y : InLine(Append(q, x), y) <=> InLine(q, y) \/ y = x
         /\ \A y : Once(q, y) /\ (InLine(q, y) => x # y) => Once(Append(q, x), y)
<1> DEFINE r == Append(q, x)
<1>1. /\ r \in Seq(S) /\ Len(q) \in Nat /\ Len(r) = Len(q) + 1
      /\ DOMAIN q = 1..Len(q) /\ DOMAIN r = 1..(Len(q) + 1)
      /\ \A i \in 1..Len(q) : r[i] = q[i]
      /\ r[Len(q) + 1] = x
  BY AppendProperties
<1> HIDE DEF r
<1>2. \A i \in DOMAIN r : i \in DOMAIN q \/ i = Len(q) + 1
  BY <1>1
<1>3. ASSUME NEW y
      PROVE  InLine(r, y) <=> InLine(q, y) \/ y = x
  <2>1. InLine(r, y) => InLine(q, y) \/ y = x
    BY <1>1, <1>2 DEF InLine
  <2>2. InLine(q, y) => InLine(r, y)
    BY <1>1 DEF InLine
  <2>3. y = x => InLine(r, y)
    BY <1>1 DEF InLine
  <2> QED BY <2>1, <2>2, <2>3
<1>4. ASSUME NEW y, Once(q, y), InLine(q, y) => x # y
      PROVE  Once(r, y)
  BY <1>1, <1>2, <1>4 DEF Once, InLine
<1> QED BY <1>1, <1>3, <1>4 DEF r

(* The head of a queue and the rest of it.                                 *)
LEMMA TailLine ==
  ASSUME NEW S, NEW q \in Seq(S), q # <<>>
  PROVE  /\ Head(q) \in S /\ Tail(q) \in Seq(S)
         /\ \A y : InLine(q, y) <=> InLine(Tail(q), y) \/ y = Head(q)
         /\ \A y : Once(q, y) => Once(Tail(q), y)
         /\ Once(q, Head(q)) => ~InLine(Tail(q), Head(q))
<1> DEFINE r == Tail(q)
<1>1. /\ r \in Seq(S) /\ Len(q) \in Nat /\ Len(q) >= 1 /\ Len(r) = Len(q) - 1
      /\ DOMAIN q = 1..Len(q) /\ DOMAIN r = 1..(Len(q) - 1)
      /\ \A i \in 1..(Len(q) - 1) : r[i] = q[i + 1]
      /\ Head(q) = q[1] /\ q[1] \in S
  BY HeadTailProperties, EmptySeq
<1> HIDE DEF r
<1>2. \A i \in DOMAIN r : i + 1 \in DOMAIN q /\ r[i] = q[i + 1] /\ i + 1 # 1
  BY <1>1
<1>3. \A i \in DOMAIN q : i = 1 \/ (i - 1 \in DOMAIN r /\ r[i - 1] = q[i])
  BY <1>1
<1>4. 1 \in DOMAIN q
  BY <1>1
<1>5. ASSUME NEW y
      PROVE  InLine(q, y) <=> InLine(r, y) \/ y = Head(q)
  <2>1. InLine(q, y) => InLine(r, y) \/ y = Head(q)
    BY <1>1, <1>3, Zenon DEF InLine
  <2>2. InLine(r, y) => InLine(q, y)
    BY <1>2, Zenon DEF InLine
  <2>3. y = Head(q) => InLine(q, y)
    BY <1>1, <1>4, Zenon DEF InLine
  <2> QED BY <2>1, <2>2, <2>3
<1>6. ASSUME NEW y, Once(q, y)
      PROVE  Once(r, y)
  BY <1>1, <1>2, <1>6 DEF Once
<1>7. Once(q, Head(q)) => ~InLine(r, Head(q))
  BY <1>1, <1>2, <1>4, Zenon DEF Once, InLine
<1> QED BY <1>1, <1>5, <1>6, <1>7 DEF r

(* Taking an element out of the middle.                                    *)
LEMMA RemoveEntries ==
  ASSUME NEW S, NEW q \in Seq(S), NEW i \in DOMAIN q
  PROVE  LET r == RemoveAt(q, i)
         IN  /\ Len(q) \in Nat /\ DOMAIN q = 1..Len(q)
             /\ r \in Seq(S) /\ DOMAIN r = 1..(Len(q) - 1)
             /\ \A k \in 1..(Len(q) - 1) : r[k] = IF k <= i - 1 THEN q[k] ELSE q[k + 1]
<1> DEFINE a == SubSeq(q, 1, i - 1)
           b == SubSeq(q, i + 1, Len(q))
           r == a \o b
<1>1. Len(q) \in Nat /\ DOMAIN q = 1..Len(q) /\ i \in 1..Len(q)
  OBVIOUS
<1>2. /\ a \in Seq(S) /\ Len(a) = i - 1
      /\ \A k \in 1..(i - 1) : a[k] = q[k]
  BY <1>1, SubSeqProperties
<1>3. /\ b \in Seq(S) /\ Len(b) = Len(q) - i
      /\ \A k \in 1..(Len(q) - i) : b[k] = q[i + k]
  BY <1>1, SubSeqProperties
<1> HIDE DEF a, b
<1>4. /\ r \in Seq(S) /\ Len(r) = Len(q) - 1 /\ DOMAIN r = 1..(Len(q) - 1)
      /\ \A k \in 1..(Len(q) - 1) : r[k] = IF k <= i - 1 THEN q[k] ELSE q[k + 1]
  <2>1. /\ r \in Seq(S) /\ Len(r) = Len(a) + Len(b)
        /\ \A k \in 1..(Len(a) + Len(b)) : r[k] = IF k <= Len(a) THEN a[k] ELSE b[k - Len(a)]
    BY <1>2, <1>3, ConcatProperties, Zenon
  <2>2. Len(a) + Len(b) = Len(q) - 1
    BY <1>1, <1>2, <1>3
  <2>3. DOMAIN r = 1..(Len(q) - 1)
    BY <2>1, <2>2, LenProperties
  <2>4. ASSUME NEW k \in 1..(Len(q) - 1)
        PROVE  r[k] = IF k <= i - 1 THEN q[k] ELSE q[k + 1]
    <3>1. CASE k <= i - 1
      <4>1. r[k] = a[k]
        BY <3>1, <2>1, <2>2, <1>2
      <4>2. k \in 1..(i - 1)
        BY <3>1, <1>1
      <4> QED BY <4>1, <4>2, <3>1, <1>2
    <3>2. CASE ~(k <= i - 1)
      <4>1. r[k] = b[k - (i - 1)]
        BY <3>2, <2>1, <2>2, <1>2
      <4>2. k - (i - 1) \in 1..(Len(q) - i) /\ i + (k - (i - 1)) = k + 1
        BY <3>2, <1>1
      <4> QED BY <4>1, <4>2, <3>2, <1>3
    <3> QED BY <3>1, <3>2
  <2> QED BY <2>1, <2>2, <2>3, <2>4
<1>5. RemoveAt(q, i) = r
  BY DEF RemoveAt, a, b
<1> QED BY <1>1, <1>4, <1>5

(* Another queue behind.                                                   *)
LEMMA ConcatEntries ==
  ASSUME NEW S, NEW q \in Seq(S), NEW t \in Seq(S)
  PROVE  LET r == q \o t
         IN  /\ Len(q) \in Nat /\ Len(t) \in Nat
             /\ DOMAIN q = 1..Len(q) /\ DOMAIN t = 1..Len(t)
             /\ r \in Seq(S) /\ DOMAIN r = 1..(Len(q) + Len(t))
             /\ \A k \in 1..Len(q) : r[k] = q[k]
             /\ \A k \in 1..Len(t) : r[Len(q) + k] = t[k]
<1> DEFINE r == q \o t
<1>1. /\ r \in Seq(S) /\ Len(r) = Len(q) + Len(t)
      /\ \A k \in 1..(Len(q) + Len(t)) : r[k] = IF k <= Len(q) THEN q[k] ELSE t[k - Len(q)]
  BY ConcatProperties, Zenon
<1>2. /\ Len(q) \in Nat /\ Len(t) \in Nat
      /\ DOMAIN q = 1..Len(q) /\ DOMAIN t = 1..Len(t)
  BY LenProperties
<1>3. DOMAIN r = 1..(Len(q) + Len(t))
  BY <1>1, LenProperties
<1> HIDE DEF r
<1>4. \A k \in 1..Len(q) : r[k] = q[k]
  BY <1>1, <1>2
<1>5. \A k \in 1..Len(t) : r[Len(q) + k] = t[k]
  <2> SUFFICES ASSUME NEW k \in 1..Len(t) PROVE r[Len(q) + k] = t[k]
    OBVIOUS
  <2>1. Len(q) + k \in 1..(Len(q) + Len(t)) /\ ~(Len(q) + k <= Len(q)) /\ (Len(q) + k) - Len(q) = k
    BY <1>2
  <2> QED BY <1>1, <2>1
<1> QED BY <1>1, <1>2, <1>3, <1>4, <1>5 DEF r

LEMMA ConcatLine ==
  ASSUME NEW S, NEW q \in Seq(S), NEW t \in Seq(S)
  PROVE  /\ q \o t \in Seq(S)
         /\ \A y : InLine(q \o t, y) <=> InLine(q, y) \/ InLine(t, y)
         /\ \A y : Once(q, y) /\ ~InLine(t, y) => Once(q \o t, y)
<1> DEFINE r == q \o t
<1>1. /\ Len(q) \in Nat /\ Len(t) \in Nat
      /\ DOMAIN q = 1..Len(q) /\ DOMAIN t = 1..Len(t)
      /\ r \in Seq(S) /\ DOMAIN r = 1..(Len(q) + Len(t))
      /\ \A k \in 1..Len(q) : r[k] = q[k]
      /\ \A k \in 1..Len(t) : r[Len(q) + k] = t[k]
  BY ConcatEntries
<1> HIDE DEF r
<1>2. \A k \in DOMAIN r : \/ k \in DOMAIN q /\ r[k] = q[k]
                          \/ k - Len(q) \in DOMAIN t /\ r[k] = t[k - Len(q)]
  <2> SUFFICES ASSUME NEW k \in DOMAIN r, k \notin DOMAIN q
               PROVE  k - Len(q) \in DOMAIN t /\ r[k] = t[k - Len(q)]
    BY <1>1
  <2>1. k - Len(q) \in 1..Len(t) /\ Len(q) + (k - Len(q)) = k
    BY <1>1
  <2> QED BY <1>1, <2>1
<1>3. /\ \A k \in DOMAIN q : k \in DOMAIN r /\ r[k] = q[k]
      /\ \A k \in DOMAIN t : Len(q) + k \in DOMAIN r /\ r[Len(q) + k] = t[k]
  BY <1>1
<1>4. \A y : InLine(r, y) => InLine(q, y) \/ InLine(t, y)
  BY <1>2, Zenon DEF InLine
<1>5. \A y : InLine(q, y) \/ InLine(t, y) => InLine(r, y)
  BY <1>3, Zenon DEF InLine
<1>6. ASSUME NEW y, Once(q, y), ~InLine(t, y) PROVE Once(r, y)
  <2>1. \A k \in DOMAIN r : r[k] = y => k \in DOMAIN q /\ q[k] = y
    BY <1>2, <1>6, Zenon DEF InLine
  <2> QED BY <1>6, <2>1, Zenon DEF Once
<1> QED BY <1>1, <1>4, <1>5, <1>6 DEF r

-----------------------------------------------------------------------------
(* The jobs of the two queues.                                             *)
EnterJob(o) == [op |-> "Enter", who |-> o]
LeaveJob(o) == [op |-> "Leave", who |-> o]
SaveJob(i, p) == [op |-> "Save", id |-> i, at |-> p]
WriteJob(i, p, b) == [op |-> "Write", id |-> i, at |-> p, passed |-> b]

LEMMA JobKinds ==
  /\ \A o \in Objects : EnterJob(o) \in RoomJobs /\ LeaveJob(o) \in RoomJobs
  /\ \A o \in Objects, p \in Positions : [op |-> "Move", who |-> o, to |-> p] \in RoomJobs
  /\ \A i \in Ids, p \in Positions : SaveJob(i, p) \in RoomJobs
  /\ [op |-> "AutoSave"] \in RoomJobs
  /\ \A i \in Ids, p \in Positions, b \in BOOLEAN : WriteJob(i, p, b) \in DbJobs
  /\ \A o \in Objects : [op |-> "Load", who |-> o] \in DbJobs
  BY DEF EnterJob, LeaveJob, SaveJob, WriteJob, RoomJobs, DbJobs

LEMMA JobParts ==
  /\ \A j \in RoomJobs :
       /\ j.op = "Enter" => j.who \in Objects /\ j = EnterJob(j.who)
       /\ j.op = "Leave" => j.who \in Objects /\ j = LeaveJob(j.who)
       /\ j.op = "Move" => j.who \in Objects /\ j.to \in Positions
       /\ j.op = "Save" => j.id \in Ids /\ j.at \in Positions /\ j = SaveJob(j.id, j.at)
  /\ \A j \in DbJobs :
       j.op = "Write" => /\ j.id \in Ids /\ j.at \in Positions /\ j.passed \in BOOLEAN
                         /\ j = WriteJob(j.id, j.at, j.passed)
  BY DEF EnterJob, LeaveJob, SaveJob, WriteJob, RoomJobs, DbJobs

LEMMA JobsDiffer ==
  /\ \A o, u : EnterJob(o) # LeaveJob(u) /\ (EnterJob(o) = EnterJob(u) => o = u)
               /\ (LeaveJob(o) = LeaveJob(u) => o = u)
  /\ \A o, i, p : EnterJob(o) # SaveJob(i, p) /\ LeaveJob(o) # SaveJob(i, p)
<1>1. \A o, u : EnterJob(o) # LeaveJob(u) /\ (EnterJob(o) = EnterJob(u) => o = u)
                /\ (LeaveJob(o) = LeaveJob(u) => o = u)
  BY DEF EnterJob, LeaveJob
<1>2. \A o, i, p : EnterJob(o).op = "Enter" /\ LeaveJob(o).op = "Leave" /\ SaveJob(i, p).op = "Save"
  BY DEF EnterJob, LeaveJob, SaveJob
<1> QED BY <1>1, <1>2

LEMMA OriginIsPlace == Origin \in Positions
  BY PlacesAssumption DEF Origin

LEMMA SectorOfPlace == \A p \in Positions : Sector(p) \in {Sector(q) : q \in Positions}
  OBVIOUS

-----------------------------------------------------------------------------
(* Type correctness.                                                       *)

LEMMA InitTypes == Init => TypeOK
<1> SUFFICES ASSUME Init PROVE TypeOK
  OBVIOUS
<1>1. RoomTypeOK
  BY OriginIsPlace, ObjectsAssumption DEF Init, RoomInit, RoomTypeOK
<1> QED BY <1>1, OriginIsPlace, BoundsAssumption DEF Init, TypeOK

(* What the executor does to its queue.                                    *)
LEMMA RunningLine ==
  ASSUME TypeOK, NEW op, NEW more, Running(op, more)
  PROVE  /\ Head(jobs) \in RoomJobs /\ Head(jobs).op = op /\ Tail(jobs) \in Seq(RoomJobs)
         /\ jobs' = Tail(jobs) \o more
         /\ more = <<>> => jobs' = Tail(jobs)
         /\ \A x \in RoomJobs : more = <<x>> => jobs' = Append(Tail(jobs), x)
<1>1. /\ Head(jobs) \in RoomJobs /\ Tail(jobs) \in Seq(RoomJobs) /\ Head(jobs).op = op
      /\ jobs' = Tail(jobs) \o more
  BY HeadTailProperties DEF TypeOK, Running
<1> DEFINE r == Tail(jobs)
<1> HIDE DEF r
<1>2. r \in Seq(RoomJobs)
  BY <1>1 DEF r
<1>3. r \o <<>> = r
  BY <1>2
<1>4. \A x \in RoomJobs : r \o <<x>> = Append(r, x)
  BY <1>2
<1> QED BY <1>1, <1>3, <1>4, Zenon DEF r

(* What AutoSave queues: snapshots of players in the room, and nothing     *)
(* else.                                                                   *)
LEMMA AutoSaveLine ==
  ASSUME RoomTypeOK, NEW more \in SetToSeqs({Snapshot(players[i]) : i \in Present})
  PROVE  /\ more \in Seq(RoomJobs)
         /\ \A m \in DOMAIN more : \E i \in Present : more[m] = Snapshot(players[i])
<1> DEFINE S == {Snapshot(players[i]) : i \in Present}
           snap == [i \in Present |-> Snapshot(players[i])]
<1>1. IsFiniteSet(Present)
  <2>1. Present \in SUBSET Ids
    BY DEF Present
  <2> QED BY <2>1, IdsAssumption, FS_Subset
<1>2. snap \in Surjection(Present, S)
  BY DEF Surjection
<1>3. Cardinality(S) \in Nat
  <2> HIDE DEF S, snap
  <2> QED BY <1>1, <1>2, FS_Surjection, FS_CardinalityType
<1>4. S \subseteq RoomJobs
  <2>1. \A i \in Present : players[i] \in Objects
    BY DEF RoomTypeOK, Present
  <2>2. \A o \in Objects : IdOf[o] \in Ids /\ pos[o] \in Positions
    BY ObjectsAssumption DEF RoomTypeOK
  <2>3. \A o \in Objects : Snapshot(o) \in RoomJobs
    BY <2>2, JobKinds DEF Snapshot, SaveJob
  <2> QED BY <2>1, <2>3
<1> HIDE DEF snap
<1>5. more \in [1..Cardinality(S) -> S]
  BY DEF SetToSeqs
<1>6. \A m \in DOMAIN more : more[m] \in S
  BY <1>5
<1>7. more \in Seq(RoomJobs)
  <2> DEFINE n == Cardinality(S)
  <2> HIDE DEF S, n
  <2>1. n \in Nat /\ more \in [1..n -> RoomJobs]
    BY <1>3, <1>4, <1>5 DEF n
  <2> QED BY <2>1
<1> QED BY <1>6, <1>7

(* ... and leaves the queue of other jobs as it was.                       *)
LEMMA RunAutoSaveLine ==
  ASSUME TypeOK, RunAutoSave
  PROVE  /\ Head(jobs).op = "AutoSave"
         /\ \E more \in Seq(RoomJobs) :
              /\ jobs' = Tail(jobs) \o more
              /\ \A m \in DOMAIN more : \E i \in Present : more[m] = Snapshot(players[i])
<1>1. PICK more \in SetToSeqs({Snapshot(players[i]) : i \in Present}) : Running("AutoSave", more)
  BY DEF RunAutoSave
<1>2. /\ more \in Seq(RoomJobs)
      /\ \A m \in DOMAIN more : \E i \in Present : more[m] = Snapshot(players[i])
  BY AutoSaveLine DEF TypeOK
<1> QED BY <1>1, <1>2 DEF Running

LEMMA RoomEnterTypes ==
  ASSUME RoomTypeOK, NEW o \in Objects, NEW live, Enter(o, live)
  PROVE  RoomTypeOK'
<1>1. IdOf[o] \in Ids
  BY ObjectsAssumption
<1>2. players' \in [Ids -> Objects \cup {None}] /\ inRoom' \subseteq Objects
  BY <1>1 DEF RoomTypeOK, Enter, EnterTelling
<1>3. sectors' \subseteq {Sector(p) : p \in Positions} \X Ids
  <2>1. <<Sector(pos[o]), IdOf[o]>> \in {Sector(p) : p \in Positions} \X Ids
    BY <1>1 DEF RoomTypeOK
  <2> QED BY <2>1 DEF RoomTypeOK, Enter, EnterTelling
<1>4. pos' \in [Objects -> Positions] /\ muddled' \subseteq Ids
  BY <1>1 DEF RoomTypeOK, Enter, EnterTelling
<1>5. shown' \in [Objects -> SUBSET Ids]
  <2>1. Present \cup {IdOf[o]} \subseteq Ids
    BY <1>1 DEF Present
  <2> QED BY <1>1, <2>1 DEF RoomTypeOK, Enter, EnterTelling, Broadcast
<1> QED BY <1>2, <1>3, <1>4, <1>5 DEF RoomTypeOK

LEMMA RoomLeaveTypes ==
  ASSUME RoomTypeOK, NEW o \in Objects, NEW live, Leave(o, live)
  PROVE  RoomTypeOK'
<1>1. IdOf[o] \in Ids
  BY ObjectsAssumption
<1>2. /\ sectors' \subseteq {Sector(p) : p \in Positions} \X Ids
      /\ pos' \in [Objects -> Positions] /\ muddled' \subseteq Ids
  BY DEF RoomTypeOK, Leave, LeaveRoom
<1>3. CASE IdOf[o] \in Present
  <2>1. players' \in [Ids -> Objects \cup {None}] /\ inRoom' \subseteq Objects
    BY <1>1, <1>3 DEF RoomTypeOK, Leave, LeaveRoom
  <2>2. shown' \in [Objects -> SUBSET Ids]
    BY <1>1, <1>3 DEF RoomTypeOK, Leave, LeaveRoom, Broadcast
  <2> QED BY <1>2, <2>1, <2>2 DEF RoomTypeOK
<1>4. CASE IdOf[o] \notin Present
  BY <1>2, <1>4 DEF RoomTypeOK, Leave, LeaveRoom
<1> QED BY <1>3, <1>4

LEMMA RoomMoveTypes ==
  ASSUME RoomTypeOK, NEW o \in Objects, NEW p \in Positions, HandleMove(o, p)
  PROVE  RoomTypeOK'
<1>1. IdOf[o] \in Ids
  BY ObjectsAssumption
<1>2. <<Sector(p), IdOf[o]>> \in {Sector(q) : q \in Positions} \X Ids
  BY <1>1
<1>3. sectors' \subseteq {Sector(q) : q \in Positions} \X Ids
  BY <1>2 DEF RoomTypeOK, HandleMove, MoveFrom
<1> QED BY <1>1, <1>3 DEF RoomTypeOK, HandleMove, MoveFrom

(* A write ends: older ones of its row are marked, and it is gone.         *)
Marked(i) ==
  [j \in DOMAIN dbJobs |->
     IF OlderWrite(j, i) THEN [dbJobs[j] EXCEPT !.passed = TRUE] ELSE dbJobs[j]]

LEMMA MarkedLine ==
  ASSUME TypeOK, NEW i
  PROVE  /\ Marked(i) \in Seq(DbJobs) /\ DOMAIN Marked(i) = DOMAIN dbJobs
         /\ \A j \in DOMAIN dbJobs : ~OlderWrite(j, i) => Marked(i)[j] = dbJobs[j]
         /\ \A j \in DOMAIN dbJobs : OlderWrite(j, i) =>
              Marked(i)[j] = WriteJob(dbJobs[j].id, dbJobs[j].at, TRUE)
<1>1. /\ Len(dbJobs) \in Nat /\ DOMAIN dbJobs = 1..Len(dbJobs)
      /\ \A j \in DOMAIN dbJobs : dbJobs[j] \in DbJobs
  BY LenProperties DEF TypeOK
<1>2. \A j \in DOMAIN dbJobs : ~OlderWrite(j, i) => Marked(i)[j] = dbJobs[j]
  BY DEF Marked
<1>3. ASSUME NEW j \in DOMAIN dbJobs, OlderWrite(j, i)
      PROVE  /\ Marked(i)[j] = WriteJob(dbJobs[j].id, dbJobs[j].at, TRUE)
             /\ Marked(i)[j] \in DbJobs
  <2>1. Marked(i)[j] = [dbJobs[j] EXCEPT !.passed = TRUE]
    BY <1>3 DEF Marked
  <2>2. dbJobs[j].op = "Write" /\ dbJobs[j] \in DbJobs
    BY <1>1, <1>3 DEF OlderWrite
  <2>3. /\ dbJobs[j].id \in Ids /\ dbJobs[j].at \in Positions
        /\ dbJobs[j] = WriteJob(dbJobs[j].id, dbJobs[j].at, dbJobs[j].passed)
    BY <2>2, JobParts
  <2>4. dbJobs[j] \in [op : {"Write"}, id : Ids, at : Positions, passed : BOOLEAN]
    BY <2>2 DEF DbJobs
  <2>5. Marked(i)[j] = WriteJob(dbJobs[j].id, dbJobs[j].at, TRUE)
    BY <2>1, <2>4 DEF WriteJob
  <2> QED BY <2>3, <2>5, JobKinds
<1>4. \A j \in DOMAIN dbJobs : Marked(i)[j] \in DbJobs
  BY <1>1, <1>2, <1>3
<1>5. Marked(i) \in [1..Len(dbJobs) -> DbJobs]
  BY <1>1, <1>4 DEF Marked
<1>6. Marked(i) \in Seq(DbJobs) /\ DOMAIN Marked(i) = DOMAIN dbJobs
  BY <1>1, <1>5
<1> QED BY <1>2, <1>3, <1>6

LEMMA WriteLine ==
  ASSUME TypeOK, NEW i, NEW ok, Write(i, ok)
  PROVE  /\ i \in DOMAIN Marked(i) /\ dbJobs' = RemoveAt(Marked(i), i)
         /\ dbJobs' \in Seq(DbJobs)
<1>1. i \in DOMAIN Marked(i) /\ dbJobs' = RemoveAt(Marked(i), i)
  BY DEF Write, Marked
<1>2. Marked(i) \in Seq(DbJobs)
  BY MarkedLine
<1> QED BY <1>1, <1>2, RemoveEntries

LEMMA NextTypes == TypeOK /\ [Next]_vars => TypeOK'
<1> SUFFICES ASSUME TypeOK, [Next]_vars PROVE TypeOK'
  OBVIOUS
<1> USE ObjectsAssumption, SessionsAssumption
<1> USE DEF roomHistory, dbVars
<1>1. ASSUME NEW o \in Objects, EnterGame(o) PROVE TypeOK'
  <2>1. dbJobs' \in Seq(DbJobs)
    BY <1>1, JobKinds, AppendLine DEF TypeOK, EnterGame
  <2> QED BY <1>1, <2>1 DEF TypeOK, RoomTypeOK, EnterGame, roomVars
<1>2. ASSUME NEW s \in Sessions, NEW p \in Positions, ReceiveMove(s, p) PROVE TypeOK'
  <2>1. attached[s] \in Objects
    BY <1>2 DEF TypeOK, RoomTypeOK, ReceiveMove
  <2>2. handler' \in [Sessions -> RoomJobs \cup {None}]
    BY <1>2, <2>1, JobKinds DEF TypeOK, ReceiveMove
  <2>3. moves' \in 0..MaxMoves
    BY <1>2, BoundsAssumption DEF TypeOK, ReceiveMove
  <2> QED BY <1>2, <2>2, <2>3 DEF TypeOK, RoomTypeOK, ReceiveMove, roomVars
<1>3. ASSUME NEW s \in Sessions, PostMove(s) PROVE TypeOK'
  <2>1. handler[s] \in RoomJobs
    BY <1>3 DEF TypeOK, PostMove
  <2>2. jobs' \in Seq(RoomJobs)
    BY <1>3, <2>1, AppendLine DEF TypeOK, PostMove, Post
  <2>3. handler' \in [Sessions -> RoomJobs \cup {None}]
    BY <1>3 DEF TypeOK, PostMove
  <2> QED BY <1>3, <2>2, <2>3 DEF TypeOK, RoomTypeOK, PostMove, roomVars
<1>4. ASSUME NEW s \in Sessions, Disconnect(s) PROVE TypeOK'
  BY <1>4 DEF TypeOK, RoomTypeOK, Disconnect, roomVars
<1>5. ASSUME NEW s \in Sessions, OnDisconnected(s) PROVE TypeOK'
  <2>1. jobs' \in Seq(RoomJobs)
    <3>1. CASE attached[s] \in inRoom
      <4>1. attached[s] \in Objects
        BY <3>1 DEF TypeOK, RoomTypeOK
      <4>2. jobs' = Append(jobs, LeaveJob(attached[s])) /\ LeaveJob(attached[s]) \in RoomJobs
        BY <1>5, <3>1, <4>1, JobKinds DEF OnDisconnected, Disconnected, LeaveJob
      <4> QED BY <4>2, AppendLine DEF TypeOK
    <3>2. CASE attached[s] \notin inRoom
      BY <1>5, <3>2 DEF TypeOK, OnDisconnected, Disconnected
    <3> QED BY <3>1, <3>2
  <2> QED BY <1>5, <2>1 DEF TypeOK, RoomTypeOK, OnDisconnected, Disconnected, roomVars
<1>6. ASSUME NEW i \in 1..DbWorkers, NEW o \in Objects, NEW selected \in BOOLEAN, Attach(i, o, selected)
      PROVE  TypeOK'
  <2>1. IdOf[o] \in Ids /\ SessionOf[o] \in Sessions
    OBVIOUS
  <2>2. pos' \in [Objects -> Positions]
    BY <1>6, <2>1, OriginIsPlace DEF TypeOK, RoomTypeOK, Attach
  <2>3. attached' \in [Sessions -> Objects \cup {None}] /\ stage' \in [Objects -> {"none", "loading", "attached", "done"}]
    BY <1>6, <2>1 DEF TypeOK, Attach
  <2>4. replaced' \subseteq Objects
    BY <1>6, <2>1 DEF TypeOK, Attach
  <2> QED BY <1>6, <2>2, <2>3, <2>4 DEF TypeOK, RoomTypeOK, Attach
<1>7. ASSUME NEW i \in 1..DbWorkers, NEW o \in Objects, LoadFails(i, o) PROVE TypeOK'
  <2>1. dbJobs' \in Seq(DbJobs)
    BY <1>7, RemoveEntries DEF TypeOK, LoadFails, Loading
  <2> QED BY <1>7, <2>1 DEF TypeOK, RoomTypeOK, LoadFails, roomVars
<1>8. ASSUME NEW i \in 1..DbWorkers, NEW o \in Objects, AskEnter(i, o) PROVE TypeOK'
  <2>1. dbJobs' \in Seq(DbJobs)
    BY <1>8, RemoveEntries DEF TypeOK, AskEnter, AskEnterAfter, Loading
  <2>2. jobs' = Append(jobs, EnterJob(o)) /\ EnterJob(o) \in RoomJobs
    BY <1>8, JobKinds DEF AskEnter, AskEnterAfter, Post, EnterJob
  <2>3. jobs' \in Seq(RoomJobs)
    BY <2>2, AppendLine DEF TypeOK
  <2> QED BY <1>8, <2>1, <2>3 DEF TypeOK, RoomTypeOK, AskEnter, AskEnterAfter, roomVars
<1>9. ASSUME NEW i \in 1..DbWorkers, NEW ok \in BOOLEAN, Write(i, ok) PROVE TypeOK'
  <2>1. dbJobs' \in Seq(DbJobs)
    BY <1>9, WriteLine
  <2>2. dbJobs[i] \in DbJobs /\ dbJobs[i].op = "Write"
    BY <1>9 DEF TypeOK, Write
  <2>3. dbJobs[i].id \in Ids /\ dbJobs[i].at \in Positions
    BY <2>2, JobParts
  <2>4. row' \in [Ids -> Positions] /\ unsaved' \subseteq Ids
    BY <1>9, <2>3 DEF TypeOK, Write
  <2> QED BY <1>9, <2>1, <2>4 DEF TypeOK, RoomTypeOK, Write, roomVars, sessionVars
<1>10. ASSUME RunEnter PROVE TypeOK'
  <2>1. Head(jobs).who \in Objects /\ jobs' \in Seq(RoomJobs)
    BY <1>10, RunningLine, JobParts DEF RunEnter
  <2>2. RoomTypeOK'
    BY <1>10, <2>1, RoomEnterTypes DEF RunEnter, TypeOK
  <2>3. late' \subseteq Objects
    BY <1>10, <2>1 DEF TypeOK, RunEnter
  <2> QED BY <1>10, <2>1, <2>2, <2>3 DEF TypeOK, RunEnter, sessionVars
<1>11. ASSUME RunLeave PROVE TypeOK'
  <2>1. Head(jobs).who \in Objects /\ Tail(jobs) \in Seq(RoomJobs)
    BY <1>11, RunningLine, JobParts DEF RunLeave, RunLeaveQueueing
  <2>2. IdOf[Head(jobs).who] \in Ids /\ pos[Head(jobs).who] \in Positions
    BY <2>1 DEF TypeOK, RoomTypeOK
  <2>3. Snapshot(Head(jobs).who) \in RoomJobs
    BY <2>2, JobKinds DEF Snapshot, SaveJob
  <2>4. jobs' = Append(Tail(jobs), Snapshot(Head(jobs).who))
    BY <1>11, <2>3, RunningLine DEF RunLeave, RunLeaveQueueing
  <2>5. jobs' \in Seq(RoomJobs)
    BY <2>1, <2>3, <2>4, AppendLine
  <2>6. RoomTypeOK'
    BY <1>11, <2>1, RoomLeaveTypes DEF RunLeave, RunLeaveQueueing, TypeOK
  <2>7. lastOut' \in [Ids -> Objects \cup {None}]
    BY <1>11, <2>1 DEF TypeOK, RunLeave, RunLeaveQueueing
  <2> QED BY <1>11, <2>5, <2>6, <2>7 DEF TypeOK, RunLeave, RunLeaveQueueing, sessionVars
<1>12. ASSUME RunMove PROVE TypeOK'
  <2>1. Head(jobs).who \in Objects /\ Head(jobs).to \in Positions /\ jobs' \in Seq(RoomJobs)
    BY <1>12, RunningLine, JobParts DEF RunMove
  <2>2. RoomTypeOK'
    BY <1>12, <2>1, RoomMoveTypes DEF RunMove, TypeOK
  <2> QED BY <1>12, <2>1, <2>2 DEF TypeOK, RunMove, sessionVars
<1>13. ASSUME RunSave PROVE TypeOK'
  <2>1. Head(jobs).id \in Ids /\ Head(jobs).at \in Positions /\ jobs' \in Seq(RoomJobs)
    BY <1>13, RunningLine, JobParts DEF RunSave
  <2>2. dbJobs' = Append(dbJobs, WriteJob(Head(jobs).id, Head(jobs).at, FALSE))
    BY <1>13 DEF RunSave, WriteJob
  <2>3. WriteJob(Head(jobs).id, Head(jobs).at, FALSE) \in DbJobs /\ dbJobs \in Seq(DbJobs)
    BY <2>1, JobKinds DEF TypeOK
  <2> DEFINE w == WriteJob(Head(jobs).id, Head(jobs).at, FALSE)
  <2> HIDE DEF w
  <2>4. dbJobs' = Append(dbJobs, w) /\ w \in DbJobs /\ dbJobs \in Seq(DbJobs)
    BY <2>2, <2>3 DEF w
  <2>5. dbJobs' \in Seq(DbJobs)
    BY <2>4, AppendLine
  <2> QED BY <1>13, <2>1, <2>5 DEF TypeOK, RoomTypeOK, RunSave, roomVars, sessionVars
<1>14. ASSUME PostAutoSave PROVE TypeOK'
  <2>1. jobs' \in Seq(RoomJobs)
    BY <1>14, JobKinds, AppendLine DEF TypeOK, PostAutoSave, Post
  <2>2. autoSaves' \in 0..MaxAutoSaves
    BY <1>14, BoundsAssumption DEF TypeOK, PostAutoSave
  <2> QED BY <1>14, <2>1, <2>2 DEF TypeOK, RoomTypeOK, PostAutoSave, roomVars, sessionVars
<1>15. ASSUME RunAutoSave PROVE TypeOK'
  <2>1. PICK more \in Seq(RoomJobs) : jobs' = Tail(jobs) \o more
    BY <1>15, RunAutoSaveLine
  <2>2. Tail(jobs) \in Seq(RoomJobs)
    BY <1>15, HeadTailProperties DEF TypeOK, RunAutoSave, Running
  <2>3. jobs' \in Seq(RoomJobs)
    BY <2>1, <2>2, ConcatLine
  <2> QED BY <1>15, <2>3 DEF TypeOK, RoomTypeOK, RunAutoSave, roomVars, sessionVars
<1>16. CASE UNCHANGED vars
  BY <1>16 DEF TypeOK, RoomTypeOK, vars, roomVars, sessionVars
<1> QED
  BY <1>1, <1>2, <1>3, <1>4, <1>5, <1>6, <1>7, <1>8, <1>9, <1>10, <1>11, <1>12, <1>13, <1>14,
     <1>15, <1>16
  DEF Next, DbStep, RunJob

(* Every variable keeps its type.                                          *)
THEOREM TypesHold == Spec => []TypeOK
  BY InitTypes, NextTypes, PTL DEF Spec

-----------------------------------------------------------------------------
(* How each step changes which Enter and Leave jobs wait in the room's     *)
(* queue.  MovesHeld: a packet handler only ever holds a Move.             *)
EnterQueued(o) == InLine(jobs, EnterJob(o))

MovesHeld == \A s \in Sessions : handler[s] # None => handler[s].op = "Move"

OnceEach == \A o \in Objects : Once(jobs, EnterJob(o)) /\ Once(jobs, LeaveJob(o))

LinesKept ==
  /\ \A u \in Objects : (EnterQueued(u)' <=> EnterQueued(u)) /\ (LeaveQueued(u)' <=> LeaveQueued(u))
  /\ OnceEach => OnceEach'

LEMMA LeaveQueuedInLine == \A o : LeaveQueued(o) <=> InLine(jobs, LeaveJob(o))
  BY DEF LeaveQueued, InLine, LeaveJob

LEMMA LeaveQueuedInLineNext == \A o : LeaveQueued(o)' <=> InLine(jobs', LeaveJob(o))
  BY DEF LeaveQueued, InLine, LeaveJob

LEMMA QuietLines == ASSUME jobs' = jobs PROVE LinesKept
  BY Zenon DEF LinesKept, EnterQueued, LeaveQueued, OnceEach

(* Jobs of other kinds come and go.                                        *)
LEMMA OtherAppended ==
  ASSUME NEW q \in Seq(RoomJobs), NEW j \in RoomJobs, j.op \notin {"Enter", "Leave"},
         jobs' = Append(q, j),
         \A o : (InLine(q, EnterJob(o)) <=> InLine(jobs, EnterJob(o)))
                /\ (InLine(q, LeaveJob(o)) <=> InLine(jobs, LeaveJob(o))),
         OnceEach => \A o \in Objects : Once(q, EnterJob(o)) /\ Once(q, LeaveJob(o))
  PROVE  LinesKept
<1>1. \A o : j # EnterJob(o) /\ j # LeaveJob(o)
  BY DEF EnterJob, LeaveJob
<1>2. \A y : InLine(jobs', y) <=> InLine(q, y) \/ y = j
  BY AppendLine
<1>3. \A y : Once(q, y) /\ (InLine(q, y) => j # y) => Once(jobs', y)
  BY AppendLine
<1>4. \A u \in Objects : (EnterQueued(u)' <=> EnterQueued(u)) /\ (LeaveQueued(u)' <=> LeaveQueued(u))
  BY <1>1, <1>2, LeaveQueuedInLine, LeaveQueuedInLineNext, Zenon DEF EnterQueued
<1>5. OnceEach => OnceEach'
  BY <1>1, <1>3, Zenon DEF OnceEach
<1> QED BY <1>4, <1>5 DEF LinesKept

LEMMA PostMoveLines ==
  ASSUME TypeOK, MovesHeld, NEW s \in Sessions, PostMove(s)
  PROVE  LinesKept
<1>1. handler[s] \in RoomJobs /\ handler[s].op = "Move" /\ jobs' = Append(jobs, handler[s])
  BY DEF TypeOK, MovesHeld, PostMove, Post
<1>2. jobs \in Seq(RoomJobs)
  BY DEF TypeOK
<1>3. handler[s].op \notin {"Enter", "Leave"}
  BY <1>1
<1> HIDE DEF PostMove
<1> QED BY <1>1, <1>2, <1>3, OtherAppended DEF OnceEach

LEMMA OtherRunLines ==
  ASSUME TypeOK, NEW op \in {"Move", "Save"}, Running(op, <<>>)
  PROVE  LinesKept
<1>1. /\ Head(jobs) \in RoomJobs /\ Head(jobs).op = op /\ jobs' = Tail(jobs)
      /\ jobs \in Seq(RoomJobs) /\ jobs # <<>>
  BY RunningLine DEF TypeOK, Running
<1>2. \A o : Head(jobs) # EnterJob(o) /\ Head(jobs) # LeaveJob(o)
  BY <1>1 DEF EnterJob, LeaveJob
<1>3. \A y : InLine(jobs, y) <=> InLine(jobs', y) \/ y = Head(jobs)
  BY <1>1, TailLine
<1>4. \A y : Once(jobs, y) => Once(jobs', y)
  BY <1>1, TailLine
<1>5. \A u \in Objects : (EnterQueued(u)' <=> EnterQueued(u)) /\ (LeaveQueued(u)' <=> LeaveQueued(u))
  BY <1>2, <1>3, LeaveQueuedInLine, LeaveQueuedInLineNext, Zenon DEF EnterQueued
<1>6. OnceEach => OnceEach'
  BY <1>4, Zenon DEF OnceEach
<1> QED BY <1>5, <1>6 DEF LinesKept

LEMMA PostAutoSaveLines ==
  ASSUME TypeOK, PostAutoSave
  PROVE  LinesKept
<1> DEFINE j == [op |-> "AutoSave"]
<1>1. /\ j \in RoomJobs /\ j.op \notin {"Enter", "Leave"} /\ jobs' = Append(jobs, j)
      /\ jobs \in Seq(RoomJobs)
  BY JobKinds DEF TypeOK, PostAutoSave, Post
<1> HIDE DEF j, PostAutoSave
<1> QED BY <1>1, OtherAppended DEF OnceEach

LEMMA RunAutoSaveLines ==
  ASSUME TypeOK, RunAutoSave
  PROVE  LinesKept
<1>1. PICK more \in Seq(RoomJobs) :
        /\ jobs' = Tail(jobs) \o more
        /\ \A m \in DOMAIN more : \E i \in Present : more[m] = Snapshot(players[i])
  BY RunAutoSaveLine
<1>2. Head(jobs).op = "AutoSave" /\ jobs \in Seq(RoomJobs) /\ jobs # <<>>
  BY DEF TypeOK, RunAutoSave, Running
<1> HIDE DEF RunAutoSave
<1>3. \A o : Head(jobs) # EnterJob(o) /\ Head(jobs) # LeaveJob(o)
  BY <1>2 DEF EnterJob, LeaveJob
<1>4. \A o : ~InLine(more, EnterJob(o)) /\ ~InLine(more, LeaveJob(o))
  BY <1>1 DEF InLine, Snapshot, EnterJob, LeaveJob
<1> DEFINE r == Tail(jobs)
<1>5. /\ r \in Seq(RoomJobs)
      /\ \A y : InLine(jobs, y) <=> InLine(r, y) \/ y = Head(jobs)
      /\ \A y : Once(jobs, y) => Once(r, y)
  BY <1>2, TailLine
<1>6. jobs' = r \o more
  BY <1>1
<1> HIDE DEF r
<1>7. /\ \A y : InLine(jobs', y) <=> InLine(r, y) \/ InLine(more, y)
      /\ \A y : Once(r, y) /\ ~InLine(more, y) => Once(jobs', y)
  BY <1>5, <1>6, ConcatLine
<1>8. \A u \in Objects : (EnterQueued(u)' <=> EnterQueued(u)) /\ (LeaveQueued(u)' <=> LeaveQueued(u))
  BY <1>3, <1>4, <1>5, <1>7, LeaveQueuedInLine, LeaveQueuedInLineNext, Zenon DEF EnterQueued
<1>9. OnceEach => OnceEach'
  BY <1>4, <1>5, <1>7, Zenon DEF OnceEach
<1> QED BY <1>8, <1>9 DEF LinesKept

LEMMA AskEnterLines ==
  ASSUME TypeOK, NEW i, NEW o \in Objects, AskEnter(i, o)
  PROVE  /\ \A u \in Objects : /\ EnterQueued(u)' <=> EnterQueued(u) \/ u = o
                               /\ LeaveQueued(u)' <=> LeaveQueued(u)
         /\ OnceEach /\ ~EnterQueued(o) => OnceEach'
<1>1. jobs' = Append(jobs, EnterJob(o)) /\ EnterJob(o) \in RoomJobs /\ jobs \in Seq(RoomJobs)
  BY JobKinds DEF TypeOK, AskEnter, AskEnterAfter, Post, EnterJob
<1>2. \A y : InLine(jobs', y) <=> InLine(jobs, y) \/ y = EnterJob(o)
  BY <1>1, AppendLine
<1>3. \A y : Once(jobs, y) /\ (InLine(jobs, y) => EnterJob(o) # y) => Once(jobs', y)
  BY <1>1, AppendLine
<1>4. \A u \in Objects : /\ EnterQueued(u)' <=> EnterQueued(u) \/ u = o
                         /\ LeaveQueued(u)' <=> LeaveQueued(u)
  BY <1>2, JobsDiffer, LeaveQueuedInLine, LeaveQueuedInLineNext, Zenon DEF EnterQueued
<1>5. OnceEach /\ ~EnterQueued(o) => OnceEach'
  BY <1>3, JobsDiffer, Zenon DEF OnceEach, EnterQueued
<1> QED BY <1>4, <1>5

LEMMA OnDisconnectedLines ==
  ASSUME TypeOK, NEW s \in Sessions, OnDisconnected(s)
  PROVE  /\ \A u \in Objects :
              /\ EnterQueued(u)' <=> EnterQueued(u)
              /\ LeaveQueued(u)' <=> LeaveQueued(u) \/ (u = attached[s] /\ u \in inRoom)
         /\ OnceEach /\ ~LeaveQueued(attached[s]) => OnceEach'
<1> DEFINE o == attached[s]
<1>1. CASE o \in inRoom
  <2>1. o \in Objects
    BY <1>1 DEF TypeOK, RoomTypeOK
  <2>2. jobs' = Append(jobs, LeaveJob(o)) /\ LeaveJob(o) \in RoomJobs /\ jobs \in Seq(RoomJobs)
    BY <1>1, <2>1, JobKinds DEF TypeOK, OnDisconnected, Disconnected, LeaveJob
  <2>3. \A y : InLine(jobs', y) <=> InLine(jobs, y) \/ y = LeaveJob(o)
    BY <2>2, AppendLine
  <2>4. \A y : Once(jobs, y) /\ (InLine(jobs, y) => LeaveJob(o) # y) => Once(jobs', y)
    BY <2>2, AppendLine
  <2>5. \A u \in Objects : /\ EnterQueued(u)' <=> EnterQueued(u)
                           /\ LeaveQueued(u)' <=> LeaveQueued(u) \/ u = o
    BY <2>3, JobsDiffer, LeaveQueuedInLine, LeaveQueuedInLineNext, Zenon DEF EnterQueued
  <2>6. OnceEach /\ ~LeaveQueued(o) => OnceEach'
    BY <2>4, JobsDiffer, LeaveQueuedInLine, Zenon DEF OnceEach
  <2> QED BY <1>1, <2>5, <2>6, Zenon
<1>2. CASE o \notin inRoom
  <2>1. LinesKept
    BY <1>2, QuietLines DEF OnDisconnected, Disconnected
  <2> QED BY <1>2, <2>1, Zenon DEF LinesKept
<1> QED BY <1>1, <1>2

LEMMA RunEnterLines ==
  ASSUME TypeOK, OnceEach, RunEnter
  PROVE  /\ Head(jobs).who \in Objects /\ EnterQueued(Head(jobs).who)
         /\ \A u \in Objects : /\ EnterQueued(u)' <=> EnterQueued(u) /\ u # Head(jobs).who
                               /\ LeaveQueued(u)' <=> LeaveQueued(u)
         /\ OnceEach'
<1> DEFINE o == Head(jobs).who
<1>1. /\ o \in Objects /\ Head(jobs) = EnterJob(o)
      /\ jobs' = Tail(jobs) /\ jobs \in Seq(RoomJobs) /\ jobs # <<>>
  BY RunningLine, JobParts DEF TypeOK, RunEnter, Running
<1> HIDE DEF o
<1>2. \A y : InLine(jobs, y) <=> InLine(jobs', y) \/ y = EnterJob(o)
  BY <1>1, TailLine
<1>3. \A y : Once(jobs, y) => Once(jobs', y)
  BY <1>1, TailLine
<1>4. ~InLine(jobs', EnterJob(o))
  <2>1. Once(jobs, EnterJob(o))
    BY <1>1 DEF OnceEach
  <2> QED BY <1>1, <2>1, TailLine
<1>5. \A u \in Objects : /\ EnterQueued(u)' <=> EnterQueued(u) /\ u # o
                         /\ LeaveQueued(u)' <=> LeaveQueued(u)
  BY <1>2, <1>4, JobsDiffer, LeaveQueuedInLine, LeaveQueuedInLineNext, Zenon DEF EnterQueued
<1>6. OnceEach'
  BY <1>3, Zenon DEF OnceEach
<1>7. EnterQueued(o)
  BY <1>2, Zenon DEF EnterQueued
<1> QED BY <1>1, <1>5, <1>6, <1>7 DEF o

LEMMA RunLeaveLines ==
  ASSUME TypeOK, OnceEach, RunLeave
  PROVE  /\ Head(jobs).who \in Objects /\ LeaveQueued(Head(jobs).who)
         /\ \A u \in Objects : /\ EnterQueued(u)' <=> EnterQueued(u)
                               /\ LeaveQueued(u)' <=> LeaveQueued(u) /\ u # Head(jobs).who
         /\ OnceEach'
<1> DEFINE o == Head(jobs).who
           x == Snapshot(o)
           r == Tail(jobs)
<1>1. /\ o \in Objects /\ Head(jobs) = LeaveJob(o)
      /\ jobs \in Seq(RoomJobs) /\ jobs # <<>>
  BY RunningLine, JobParts DEF TypeOK, RunLeave, RunLeaveQueueing, Running
<1>2. x \in RoomJobs /\ \A u : x # EnterJob(u) /\ x # LeaveJob(u)
  <2>1. IdOf[o] \in Ids /\ pos[o] \in Positions
    BY <1>1, ObjectsAssumption DEF TypeOK, RoomTypeOK
  <2>2. x = SaveJob(IdOf[o], pos[o])
    BY DEF Snapshot, SaveJob
  <2> HIDE DEF x, o
  <2> QED BY <2>1, <2>2, JobKinds, JobsDiffer
<1>3. jobs' = Append(r, x) /\ r \in Seq(RoomJobs)
  BY <1>2, RunningLine DEF RunLeave, RunLeaveQueueing
<1> HIDE DEF o, x
<1>4. /\ \A y : InLine(jobs, y) <=> InLine(r, y) \/ y = LeaveJob(o)
      /\ \A y : Once(jobs, y) => Once(r, y)
      /\ ~InLine(r, LeaveJob(o))
  <2>1. Once(jobs, LeaveJob(o))
    BY <1>1 DEF OnceEach
  <2> QED BY <1>1, <2>1, TailLine
<1> HIDE DEF r
<1>5. /\ \A y : InLine(jobs', y) <=> InLine(r, y) \/ y = x
      /\ \A y : Once(r, y) /\ (InLine(r, y) => x # y) => Once(jobs', y)
  BY <1>2, <1>3, AppendLine
<1>6. \A u \in Objects : /\ EnterQueued(u)' <=> EnterQueued(u)
                         /\ LeaveQueued(u)' <=> LeaveQueued(u) /\ u # o
  <2> SUFFICES ASSUME NEW u \in Objects
               PROVE  /\ InLine(jobs', EnterJob(u)) <=> InLine(jobs, EnterJob(u))
                      /\ InLine(jobs', LeaveJob(u)) <=> InLine(jobs, LeaveJob(u)) /\ u # o
    BY LeaveQueuedInLine, LeaveQueuedInLineNext, Zenon DEF EnterQueued
  <2>1. InLine(jobs', EnterJob(u)) <=> InLine(jobs, EnterJob(u))
    BY <1>2, <1>4, <1>5, JobsDiffer, Zenon
  <2>2. InLine(jobs', LeaveJob(u)) <=> InLine(r, LeaveJob(u))
    BY <1>2, <1>5, Zenon
  <2>3. InLine(jobs, LeaveJob(u)) /\ u # o => InLine(r, LeaveJob(u))
    BY <1>4, JobsDiffer, Zenon
  <2>4. InLine(r, LeaveJob(u)) => InLine(jobs, LeaveJob(u)) /\ u # o
    BY <1>4, Zenon
  <2> QED BY <2>1, <2>2, <2>3, <2>4
<1>7. OnceEach'
  BY <1>2, <1>4, <1>5, Zenon DEF OnceEach
<1>8. LeaveQueued(o)
  BY <1>4, LeaveQueuedInLine, Zenon
<1> QED BY <1>1, <1>6, <1>7, <1>8 DEF o

-----------------------------------------------------------------------------
(* What Enter and Leave do to the membership and to the screens.           *)

LEMMA MembersPresent ==
  ASSUME RoomTypeOK, NEW o \in Objects, IsMember(o)
  PROVE  IdOf[o] \in Present
  BY ObjectsAssumption DEF RoomTypeOK, IsMember, Present

LEMMA EnterEffect ==
  ASSUME RoomTypeOK, NEW o \in Objects, NEW live, Enter(o, live)
  PROVE  /\ \A u \in Objects : IsMember(u)' <=> u = o \/ (IsMember(u) /\ IdOf[u] # IdOf[o])
         /\ Present' = Present \cup {IdOf[o]} /\ inRoom' = inRoom \cup {o}
         /\ \A u \in Objects :
              shown'[u] = IF u \in live /\ u = o THEN shown[u] \cup (Present \cup {IdOf[o]})
                          ELSE IF u \in live /\ IsMember(u) /\ IdOf[u] # IdOf[o]
                                 THEN shown[u] \cup {IdOf[o]}
                          ELSE shown[u]
<1>1. IdOf \in [Objects -> Ids] /\ None \notin Objects /\ IdOf[o] \in Ids
  BY ObjectsAssumption
<1>2. players' = [players EXCEPT ![IdOf[o]] = o] /\ inRoom' = inRoom \cup {o}
  BY DEF Enter, EnterTelling
<1>3. \A u \in Objects : IsMember(u)' <=> u = o \/ (IsMember(u) /\ IdOf[u] # IdOf[o])
  BY <1>1, <1>2 DEF RoomTypeOK, IsMember
<1>4. Present' = Present \cup {IdOf[o]}
  BY <1>1, <1>2 DEF RoomTypeOK, Present
<1>5. ASSUME NEW u \in Objects
      PROVE  shown'[u] = IF u \in live /\ u = o THEN shown[u] \cup (Present \cup {IdOf[o]})
                         ELSE IF u \in live /\ IsMember(u) /\ IdOf[u] # IdOf[o]
                                THEN shown[u] \cup {IdOf[o]}
                         ELSE shown[u]
  BY DEF Enter, EnterTelling, Broadcast
<1> QED BY <1>2, <1>3, <1>4, <1>5

LEMMA LeaveEffect ==
  ASSUME RoomTypeOK, NEW o \in Objects, NEW live, Leave(o, live)
  PROVE  /\ \A u \in Objects : IsMember(u)' <=> IsMember(u) /\ IdOf[u] # IdOf[o]
         /\ Present' = Present \ {IdOf[o]}
         /\ inRoom' = IF IdOf[o] \in Present THEN inRoom \ {o} ELSE inRoom
         /\ muddled' = muddled
         /\ \A u \in Objects :
              shown'[u] = IF u \in live /\ IsMember(u) /\ IdOf[u] # IdOf[o]
                                /\ IdOf[o] \in Present
                            THEN shown[u] \ {IdOf[o]}
                          ELSE shown[u]
<1>1. IdOf \in [Objects -> Ids] /\ None \notin Objects /\ IdOf[o] \in Ids
  BY ObjectsAssumption
<1>2. muddled' = muddled
  BY DEF Leave, LeaveRoom
<1>3. CASE IdOf[o] \in Present
  <2>1. players' = [players EXCEPT ![IdOf[o]] = None] /\ inRoom' = inRoom \ {o}
    BY <1>3 DEF Leave, LeaveRoom
  <2>2. \A u \in Objects : IsMember(u)' <=> IsMember(u) /\ IdOf[u] # IdOf[o]
    BY <1>1, <2>1 DEF RoomTypeOK, IsMember
  <2>3. Present' = Present \ {IdOf[o]}
    BY <1>1, <2>1 DEF RoomTypeOK, Present
  <2>4. ASSUME NEW u \in Objects
        PROVE  shown'[u] = IF u \in live /\ IsMember(u) /\ IdOf[u] # IdOf[o]
                             THEN shown[u] \ {IdOf[o]} ELSE shown[u]
    BY <1>3 DEF Leave, LeaveRoom, Broadcast
  <2> QED BY <1>2, <1>3, <2>1, <2>2, <2>3, <2>4
<1>4. CASE IdOf[o] \notin Present
  <2>1. players' = players /\ inRoom' = inRoom /\ shown' = shown
    BY <1>4 DEF Leave, LeaveRoom
  <2>2. \A u \in Objects : IsMember(u) => IdOf[u] # IdOf[o]
    BY <1>4, MembersPresent
  <2>3. Present' = Present \ {IdOf[o]}
    BY <1>4, <2>1 DEF Present
  <2>4. \A u \in Objects : IsMember(u)' <=> IsMember(u) /\ IdOf[u] # IdOf[o]
    BY <2>1, <2>2 DEF IsMember
  <2> QED BY <1>2, <1>4, <2>1, <2>3, <2>4
<1> QED BY <1>3, <1>4

-----------------------------------------------------------------------------
(* The order in which things happen to an object: its load ends, its Enter *)
(* runs, its Leave is queued, and each of them at most once.               *)
Entered(o) == stage[o] = "done" /\ ~EnterQueued(o)

AttachedOwn == \A s \in Sessions : attached[s] # None => SessionOf[attached[s]] = s

PlacedOwn == \A i \in Ids : players[i] # None => IdOf[players[i]] = i

OrderOf(o) ==
  /\ EnterQueued(o) => stage[o] = "done"
  /\ LeaveQueued(o) => Closed(o)
  /\ IsMember(o) => o \in inRoom
  /\ o \in inRoom \/ shown[o] # {} => Entered(o)
  /\ stage[o] = "done" /\ Connected(SessionOf[o]) => o \in greeted

Orderly ==
  /\ TypeOK /\ MovesHeld /\ OnceEach /\ AttachedOwn /\ PlacedOwn
  /\ \A o \in Objects : OrderOf(o)

LEMMA InitOrderly == Init => Orderly
<1> SUFFICES ASSUME Init PROVE Orderly
  OBVIOUS
<1>1. TypeOK
  BY InitTypes
<1>2. MovesHeld /\ OnceEach /\ AttachedOwn /\ PlacedOwn
  BY DEF Init, RoomInit, MovesHeld, OnceEach, Once, AttachedOwn, PlacedOwn
<1>3. ASSUME NEW o \in Objects PROVE OrderOf(o)
  <2>1. ~EnterQueued(o) /\ ~LeaveQueued(o)
    BY DEF Init, EnterQueued, LeaveQueued, InLine
  <2>2. ~IsMember(o)
    BY ObjectsAssumption DEF Init, RoomInit, IsMember
  <2> QED BY <2>1, <2>2 DEF Init, RoomInit, OrderOf
<1> QED BY <1>1, <1>2, <1>3 DEF Orderly

(* Steps that leave the queue, the members and the screens as they are.    *)
LEMMA QuietOrder ==
  ASSUME Orderly, LinesKept, players' = players, inRoom' = inRoom, shown' = shown,
         greeted' = greeted,
         \A o \in Objects : stage'[o] = stage[o] \/ (stage[o] # "done" /\ stage'[o] # "done")
                            \/ (stage[o] # "done" /\ ~Connected(SessionOf[o])'),
         \A s \in Sessions : session[s] = "closed" => session'[s] = "closed",
         \A s \in Sessions : Connected(s)' => Connected(s)
  PROVE  \A o \in Objects : OrderOf(o)'
<1> SUFFICES ASSUME NEW o \in Objects PROVE OrderOf(o)'
  OBVIOUS
<1>1. OrderOf(o) /\ SessionOf[o] \in Sessions
  BY SessionsAssumption DEF Orderly
<1>2. (EnterQueued(o)' <=> EnterQueued(o)) /\ (LeaveQueued(o)' <=> LeaveQueued(o))
  BY DEF LinesKept
<1>3. IsMember(o)' <=> IsMember(o)
  BY DEF IsMember
<1>4. (Closed(o) => Closed(o)') /\ (Connected(SessionOf[o])' => Connected(SessionOf[o]))
  BY <1>1 DEF Closed
<1>5. stage[o] = "done" => stage'[o] = "done"
  OBVIOUS
<1>6. EnterQueued(o)' => stage'[o] = "done"
  BY <1>1, <1>2, <1>5 DEF OrderOf
<1>7. LeaveQueued(o)' => Closed(o)'
  BY <1>1, <1>2, <1>4 DEF OrderOf
<1>8. IsMember(o)' => o \in inRoom'
  BY <1>1, <1>3 DEF OrderOf
<1>9. o \in inRoom' \/ shown'[o] # {} => Entered(o)'
  BY <1>1, <1>2, <1>5 DEF OrderOf, Entered
<1>10. stage'[o] = "done" /\ Connected(SessionOf[o])' => o \in greeted'
  BY <1>1, <1>4 DEF OrderOf
<1> QED BY <1>6, <1>7, <1>8, <1>9, <1>10, Zenon DEF OrderOf

LEMMA OnDisconnectedOrder ==
  ASSUME Orderly, NEW s \in Sessions, OnDisconnected(s)
  PROVE  OnceEach' /\ \A o \in Objects : OrderOf(o)'
<1>1. TypeOK /\ OnceEach /\ AttachedOwn
  BY DEF Orderly
<1>2. /\ session[s] = "closing" /\ session' = [session EXCEPT ![s] = "closed"]
      /\ UNCHANGED <<players, inRoom, shown, stage, greeted>>
  BY DEF OnDisconnected, Disconnected, roomVars
<1>3. \A u \in Objects :
        /\ EnterQueued(u)' <=> EnterQueued(u)
        /\ LeaveQueued(u)' <=> LeaveQueued(u) \/ (u = attached[s] /\ u \in inRoom)
  BY <1>1, OnDisconnectedLines
<1>4. \A u \in Objects : u = attached[s] => SessionOf[u] = s
  BY <1>1, ObjectsAssumption DEF AttachedOwn
<1>5. OnceEach'
  <2>1. attached[s] \in Objects => ~LeaveQueued(attached[s])
    BY <1>2, <1>4 DEF Orderly, OrderOf, Closed
  <2>2. CASE attached[s] \in Objects
    BY <1>1, <2>1, <2>2, OnDisconnectedLines
  <2>3. CASE attached[s] \notin Objects
    <3>1. attached[s] \notin inRoom
      BY <2>3, <1>1 DEF TypeOK, RoomTypeOK
    <3>2. LinesKept
      BY <3>1, QuietLines DEF OnDisconnected, Disconnected
    <3> QED BY <3>2, <1>1 DEF LinesKept
  <2> QED BY <2>2, <2>3
<1>6. ASSUME NEW o \in Objects PROVE OrderOf(o)'
  <2>1. OrderOf(o) /\ SessionOf[o] \in Sessions /\ session \in [Sessions -> {"connected", "closing", "closed"}]
    BY <1>1, SessionsAssumption DEF Orderly, TypeOK
  <2>2. (Closed(o) => Closed(o)') /\ (Connected(SessionOf[o])' => Connected(SessionOf[o]))
        /\ (SessionOf[o] = s => Closed(o)')
    BY <1>2, <2>1 DEF Closed, Connected
  <2>3. EnterQueued(o)' => stage'[o] = "done"
    BY <1>2, <1>3, <2>1 DEF OrderOf
  <2>4. LeaveQueued(o)' => Closed(o)'
    BY <1>3, <1>4, <2>1, <2>2 DEF OrderOf
  <2>5. IsMember(o)' => o \in inRoom'
    BY <1>2, <2>1 DEF OrderOf, IsMember
  <2>6. o \in inRoom' \/ shown'[o] # {} => Entered(o)'
    BY <1>2, <1>3, <2>1 DEF OrderOf, Entered
  <2>7. stage'[o] = "done" /\ Connected(SessionOf[o])' => o \in greeted'
    BY <1>2, <2>1, <2>2 DEF OrderOf
  <2> QED BY <2>3, <2>4, <2>5, <2>6, <2>7, Zenon DEF OrderOf
<1> QED BY <1>5, <1>6

LEMMA AskEnterOrder ==
  ASSUME Orderly, NEW i, NEW u \in Objects, AskEnter(i, u)
  PROVE  OnceEach' /\ \A o \in Objects : OrderOf(o)'
<1>1. TypeOK /\ OnceEach
  BY DEF Orderly
<1>2. /\ stage[u] = "attached" /\ stage' = [stage EXCEPT ![u] = "done"]
      /\ greeted' = IF Connected(SessionOf[u]) THEN greeted \cup {u} ELSE greeted
      /\ UNCHANGED <<players, inRoom, shown, session>>
  BY DEF AskEnter, AskEnterAfter, Loading, roomVars
<1>3. \A o \in Objects : /\ EnterQueued(o)' <=> EnterQueued(o) \/ o = u
                         /\ LeaveQueued(o)' <=> LeaveQueued(o)
  BY <1>1, AskEnterLines
<1>4. OnceEach'
  <2>1. ~EnterQueued(u)
    BY <1>2 DEF Orderly, OrderOf
  <2> QED BY <1>1, <2>1, AskEnterLines
<1>5. ASSUME NEW o \in Objects PROVE OrderOf(o)'
  <2>1. OrderOf(o) /\ stage \in [Objects -> {"none", "loading", "attached", "done"}]
    BY <1>1 DEF Orderly, TypeOK
  <2>2. (Closed(o)' <=> Closed(o)) /\ (Connected(SessionOf[o])' <=> Connected(SessionOf[o]))
    BY <1>2 DEF Closed, Connected
  <2>3. (o = u => stage'[o] = "done") /\ (o # u => stage'[o] = stage[o])
    BY <1>2, <2>1
  <2>4. EnterQueued(o)' => stage'[o] = "done"
    BY <1>3, <2>1, <2>3 DEF OrderOf
  <2>5. LeaveQueued(o)' => Closed(o)'
    BY <1>3, <2>1, <2>2 DEF OrderOf
  <2>6. IsMember(o)' => o \in inRoom'
    BY <1>2, <2>1 DEF OrderOf, IsMember
  <2>7. o \in inRoom' \/ shown'[o] # {} => Entered(o)'
    <3>1. o \in inRoom \/ shown[o] # {} => o # u
      BY <1>2, <2>1 DEF OrderOf, Entered
    <3> QED BY <1>2, <1>3, <2>1, <2>3, <3>1 DEF OrderOf, Entered
  <2>8. stage'[o] = "done" /\ Connected(SessionOf[o])' => o \in greeted'
    BY <1>2, <2>1, <2>2, <2>3 DEF OrderOf
  <2> QED BY <2>4, <2>5, <2>6, <2>7, <2>8, Zenon DEF OrderOf
<1> QED BY <1>4, <1>5

LEMMA RunEnterOrder ==
  ASSUME Orderly, RunEnter
  PROVE  OnceEach' /\ PlacedOwn' /\ \A o \in Objects : OrderOf(o)'
<1> DEFINE u == Head(jobs).who
<1>1. TypeOK /\ OnceEach /\ RoomTypeOK
  BY DEF Orderly, TypeOK
<1>2. /\ u \in Objects /\ EnterQueued(u) /\ OnceEach'
      /\ \A o \in Objects : /\ EnterQueued(o)' <=> EnterQueued(o) /\ o # u
                            /\ LeaveQueued(o)' <=> LeaveQueued(o)
  BY <1>1, RunEnterLines
<1>3. Enter(u, Live) /\ UNCHANGED <<stage, greeted, session>>
  BY DEF RunEnter, sessionVars
<1> HIDE DEF u
<1>4. PlacedOwn'
  <2>1. players' = [players EXCEPT ![IdOf[u]] = u] /\ IdOf[u] \in Ids
    BY <1>2, <1>3, ObjectsAssumption DEF Enter, EnterTelling
  <2> QED BY <1>1, <2>1 DEF Orderly, PlacedOwn, RoomTypeOK
<1>5. /\ \A o \in Objects : IsMember(o)' <=> o = u \/ (IsMember(o) /\ IdOf[o] # IdOf[u])
      /\ inRoom' = inRoom \cup {u}
      /\ \A o \in Objects : o # u /\ ~IsMember(o) => shown'[o] = shown[o]
  BY <1>1, <1>2, <1>3, EnterEffect
<1>6. ASSUME NEW o \in Objects PROVE OrderOf(o)'
  <2>1. OrderOf(o)
    BY DEF Orderly
  <2>2. (Closed(o)' <=> Closed(o)) /\ (Connected(SessionOf[o])' <=> Connected(SessionOf[o]))
    BY <1>3 DEF Closed, Connected
  <2>3. EnterQueued(o)' => stage'[o] = "done"
    BY <1>2, <1>3, <2>1 DEF OrderOf
  <2>4. LeaveQueued(o)' => Closed(o)'
    BY <1>2, <2>1, <2>2 DEF OrderOf
  <2>5. IsMember(o)' => o \in inRoom'
    BY <1>5, <2>1 DEF OrderOf
  <2>6. o \in inRoom' \/ shown'[o] # {} => Entered(o)'
    <3>1. CASE o = u
      BY <1>2, <1>3, <2>1, <3>1 DEF OrderOf, Entered
    <3>2. CASE o # u
      <4>1. o \in inRoom' \/ shown'[o] # {} => Entered(o)
        BY <1>5, <2>1, <3>2 DEF OrderOf
      <4> QED BY <4>1, <1>2, <1>3, <3>2 DEF Entered
    <3> QED BY <3>1, <3>2
  <2>7. stage'[o] = "done" /\ Connected(SessionOf[o])' => o \in greeted'
    BY <1>3, <2>1, <2>2 DEF OrderOf
  <2> QED BY <2>3, <2>4, <2>5, <2>6, <2>7, Zenon DEF OrderOf
<1> QED BY <1>2, <1>4, <1>6

LEMMA RunLeaveOrder ==
  ASSUME Orderly, RunLeave
  PROVE  OnceEach' /\ PlacedOwn' /\ \A o \in Objects : OrderOf(o)'
<1> DEFINE u == Head(jobs).who
<1>1. TypeOK /\ OnceEach /\ RoomTypeOK
  BY DEF Orderly, TypeOK
<1>2. /\ u \in Objects /\ OnceEach'
      /\ \A o \in Objects : /\ EnterQueued(o)' <=> EnterQueued(o)
                            /\ LeaveQueued(o)' <=> LeaveQueued(o) /\ o # u
  BY <1>1, RunLeaveLines
<1>3. Leave(u, Live) /\ UNCHANGED <<stage, greeted, session>>
  BY DEF RunLeave, RunLeaveQueueing, sessionVars
<1> HIDE DEF u
<1>4. PlacedOwn'
  <2>1. players' = players \/ players' = [players EXCEPT ![IdOf[u]] = None]
    BY <1>3 DEF Leave, LeaveRoom
  <2> QED BY <1>1, <2>1 DEF Orderly, PlacedOwn, RoomTypeOK
<1>5. /\ \A o \in Objects : IsMember(o)' <=> IsMember(o) /\ IdOf[o] # IdOf[u]
      /\ \A o \in Objects : o \in inRoom' => o \in inRoom
      /\ \A o \in Objects : o \in inRoom /\ o # u => o \in inRoom'
      /\ \A o \in Objects : shown'[o] # {} => shown[o] # {}
  BY <1>1, <1>2, <1>3, LeaveEffect
<1>6. ASSUME NEW o \in Objects PROVE OrderOf(o)'
  <2>1. OrderOf(o)
    BY DEF Orderly
  <2>2. (Closed(o)' <=> Closed(o)) /\ (Connected(SessionOf[o])' <=> Connected(SessionOf[o]))
    BY <1>3 DEF Closed, Connected
  <2>3. EnterQueued(o)' => stage'[o] = "done"
    BY <1>2, <1>3, <2>1 DEF OrderOf
  <2>4. LeaveQueued(o)' => Closed(o)'
    BY <1>2, <2>1, <2>2 DEF OrderOf
  <2>5. IsMember(o)' => o \in inRoom'
    BY <1>5, <2>1 DEF OrderOf
  <2>6. o \in inRoom' \/ shown'[o] # {} => Entered(o)'
    BY <1>2, <1>3, <1>5, <2>1 DEF OrderOf, Entered
  <2>7. stage'[o] = "done" /\ Connected(SessionOf[o])' => o \in greeted'
    BY <1>3, <2>1, <2>2 DEF OrderOf
  <2> QED BY <2>3, <2>4, <2>5, <2>6, <2>7, Zenon DEF OrderOf
<1> QED BY <1>2, <1>4, <1>6

LEMMA NextOrderly == Orderly /\ [Next]_vars => Orderly'
<1> SUFFICES ASSUME Orderly, [Next]_vars PROVE Orderly'
  OBVIOUS
<1>a. /\ TypeOK /\ MovesHeld /\ OnceEach /\ AttachedOwn /\ PlacedOwn
      /\ TypeOK'
  BY NextTypes DEF Orderly
<1>b. ASSUME LinesKept, players' = players, handler' = handler, attached' = attached,
             \A o \in Objects : OrderOf(o)'
      PROVE  Orderly'
  BY <1>a, <1>b DEF Orderly, MovesHeld, LinesKept, AttachedOwn, PlacedOwn
<1>c. SessionOf \in [Objects -> Sessions]
  BY SessionsAssumption
<1>1. ASSUME NEW o \in Objects, EnterGame(o) PROVE Orderly'
  <2>1. LinesKept
    BY <1>1, QuietLines DEF EnterGame
  <2>2. \A u \in Objects : OrderOf(u)'
    BY <1>1, <1>a, <2>1, QuietOrder DEF EnterGame, roomVars, TypeOK, Connected
  <2> QED BY <1>1, <1>b, <2>1, <2>2 DEF EnterGame, roomVars
<1>2. ASSUME NEW s \in Sessions, NEW p \in Positions, ReceiveMove(s, p) PROVE Orderly'
  <2>1. LinesKept
    BY <1>2, QuietLines DEF ReceiveMove
  <2>2. \A u \in Objects : OrderOf(u)'
    BY <1>2, <2>1, QuietOrder DEF ReceiveMove, roomVars, Connected
  <2>3. MovesHeld'
    BY <1>2, <1>a DEF ReceiveMove, MovesHeld, TypeOK
  <2> QED BY <1>2, <1>a, <2>1, <2>2, <2>3
          DEF ReceiveMove, roomVars, Orderly, LinesKept, AttachedOwn, PlacedOwn
<1>3. ASSUME NEW s \in Sessions, PostMove(s) PROVE Orderly'
  <2>1. LinesKept
    BY <1>3, <1>a, PostMoveLines
  <2>2. \A u \in Objects : OrderOf(u)'
    BY <1>3, <2>1, QuietOrder DEF PostMove, roomVars, Connected
  <2>3. MovesHeld'
    BY <1>3, <1>a DEF PostMove, MovesHeld, TypeOK
  <2> QED BY <1>3, <1>a, <2>1, <2>2, <2>3
          DEF PostMove, roomVars, Orderly, LinesKept, AttachedOwn, PlacedOwn
<1>4. ASSUME NEW s \in Sessions, Disconnect(s) PROVE Orderly'
  <2>1. LinesKept
    BY <1>4, QuietLines DEF Disconnect
  <2>2. /\ \A t \in Sessions : session[t] = "closed" => session'[t] = "closed"
        /\ \A t \in Sessions : Connected(t)' => Connected(t)
    BY <1>4, <1>a DEF Disconnect, TypeOK, Connected
  <2>3. \A u \in Objects : OrderOf(u)'
    BY <1>4, <2>1, <2>2, QuietOrder DEF Disconnect, roomVars
  <2> QED BY <1>4, <1>b, <2>1, <2>3 DEF Disconnect, roomVars
<1>5. ASSUME NEW s \in Sessions, OnDisconnected(s) PROVE Orderly'
  <2>1. OnceEach' /\ \A u \in Objects : OrderOf(u)'
    BY <1>5, OnDisconnectedOrder
  <2>2. AttachedOwn'
    BY <1>5, <1>a DEF OnDisconnected, Disconnected, AttachedOwn, TypeOK
  <2> QED BY <1>5, <1>a, <2>1, <2>2
          DEF OnDisconnected, Disconnected, roomVars, Orderly, MovesHeld, PlacedOwn
<1>6. ASSUME NEW i \in 1..DbWorkers, NEW o \in Objects, NEW selected \in BOOLEAN, Attach(i, o, selected)
      PROVE  Orderly'
  <2>1. LinesKept
    BY <1>6, QuietLines DEF Attach
  <2>2. \A u \in Objects : OrderOf(u)'
    BY <1>6, <1>a, <2>1, QuietOrder DEF Attach, Loading, Connected, TypeOK
  <2>3. AttachedOwn'
    BY <1>6, <1>a, <1>c DEF Attach, AttachedOwn, TypeOK
  <2> QED BY <1>6, <1>a, <2>1, <2>2, <2>3
          DEF Attach, Orderly, LinesKept, MovesHeld, PlacedOwn
<1>7. ASSUME NEW i \in 1..DbWorkers, NEW o \in Objects, LoadFails(i, o) PROVE Orderly'
  <2>1. LinesKept
    BY <1>7, QuietLines DEF LoadFails
  <2>2. /\ \A t \in Sessions : session[t] = "closed" => session'[t] = "closed"
        /\ \A t \in Sessions : Connected(t)' => Connected(t)
        /\ stage[o] = "loading" /\ stage'[o] = "done" /\ ~Connected(SessionOf[o])'
        /\ \A u \in Objects \ {o} : stage'[u] = stage[u]
    BY <1>7, <1>a, <1>c DEF LoadFails, Loading, TypeOK, Connected
  <2>3. \A u \in Objects : OrderOf(u)'
    BY <1>7, <2>1, <2>2, QuietOrder DEF LoadFails, roomVars
  <2> QED BY <1>7, <1>b, <2>1, <2>3 DEF LoadFails, roomVars
<1>8. ASSUME NEW i \in 1..DbWorkers, NEW o \in Objects, AskEnter(i, o) PROVE Orderly'
  <2>1. OnceEach' /\ \A u \in Objects : OrderOf(u)'
    BY <1>8, AskEnterOrder
  <2> QED BY <1>8, <1>a, <2>1
          DEF AskEnter, AskEnterAfter, roomVars, Orderly, MovesHeld, AttachedOwn, PlacedOwn
<1>9. ASSUME NEW i \in 1..DbWorkers, NEW ok \in BOOLEAN, Write(i, ok) PROVE Orderly'
  <2>1. LinesKept
    BY <1>9, QuietLines DEF Write
  <2>2. \A u \in Objects : OrderOf(u)'
    BY <1>9, <2>1, QuietOrder DEF Write, roomVars, sessionVars, Connected
  <2> QED BY <1>9, <1>b, <2>1, <2>2 DEF Write, roomVars, sessionVars
<1>10. ASSUME RunEnter PROVE Orderly'
  <2>1. OnceEach' /\ PlacedOwn' /\ \A u \in Objects : OrderOf(u)'
    BY <1>10, RunEnterOrder
  <2> QED BY <1>10, <1>a, <2>1 DEF RunEnter, sessionVars, Orderly, MovesHeld, AttachedOwn
<1>11. ASSUME RunLeave PROVE Orderly'
  <2>1. OnceEach' /\ PlacedOwn' /\ \A u \in Objects : OrderOf(u)'
    BY <1>11, RunLeaveOrder
  <2> QED BY <1>11, <1>a, <2>1
          DEF RunLeave, RunLeaveQueueing, sessionVars, Orderly, MovesHeld, AttachedOwn
<1>12. ASSUME RunMove PROVE Orderly'
  <2>1. LinesKept
    BY <1>12, <1>a, OtherRunLines DEF RunMove
  <2>2. UNCHANGED <<players, inRoom, shown, sessionVars>>
    BY <1>12 DEF RunMove, HandleMove, MoveFrom
  <2>3. \A u \in Objects : OrderOf(u)'
    BY <2>1, <2>2, QuietOrder DEF sessionVars, Connected
  <2> QED BY <1>b, <2>1, <2>2, <2>3 DEF sessionVars
<1>13. ASSUME RunSave PROVE Orderly'
  <2>1. LinesKept
    BY <1>13, <1>a, OtherRunLines DEF RunSave
  <2>2. UNCHANGED <<players, inRoom, shown, sessionVars>>
    BY <1>13 DEF RunSave, roomVars
  <2>3. \A u \in Objects : OrderOf(u)'
    BY <2>1, <2>2, QuietOrder DEF sessionVars, Connected
  <2> QED BY <1>b, <2>1, <2>2, <2>3 DEF sessionVars
<1>14. ASSUME PostAutoSave PROVE Orderly'
  <2>1. LinesKept
    BY <1>14, <1>a, PostAutoSaveLines
  <2>2. UNCHANGED <<players, inRoom, shown, sessionVars>>
    BY <1>14 DEF PostAutoSave, roomVars
  <2>3. \A u \in Objects : OrderOf(u)'
    BY <2>1, <2>2, QuietOrder DEF sessionVars, Connected
  <2> QED BY <1>b, <2>1, <2>2, <2>3 DEF sessionVars
<1>15. ASSUME RunAutoSave PROVE Orderly'
  <2>1. LinesKept
    BY <1>15, <1>a, RunAutoSaveLines
  <2>2. UNCHANGED <<players, inRoom, shown, sessionVars>>
    BY <1>15 DEF RunAutoSave, roomVars
  <2>3. \A u \in Objects : OrderOf(u)'
    BY <2>1, <2>2, QuietOrder DEF sessionVars, Connected
  <2> QED BY <1>b, <2>1, <2>2, <2>3 DEF sessionVars
<1>16. CASE UNCHANGED vars
  <2>1. LinesKept /\ UNCHANGED <<players, inRoom, shown, sessionVars>>
    BY <1>16, QuietLines DEF vars, roomVars
  <2>2. \A u \in Objects : OrderOf(u)'
    BY <2>1, QuietOrder DEF sessionVars, Connected
  <2> QED BY <1>b, <2>1, <2>2 DEF sessionVars
<1> QED
  BY <1>1, <1>2, <1>3, <1>4, <1>5, <1>6, <1>7, <1>8, <1>9, <1>10, <1>11, <1>12, <1>13, <1>14,
     <1>15, <1>16
  DEF Next, DbStep, RunJob

LEMMA OrderlyHolds == Spec => []Orderly
  BY InitOrderly, NextOrderly, PTL DEF Spec

-----------------------------------------------------------------------------
(* What no step but a few can do.                                          *)

(* Only Enter and Leave change the membership and the screens.             *)
LEMMA OtherSteps ==
  [Next]_vars => \/ RunEnter \/ RunLeave
                 \/ UNCHANGED <<players, inRoom, shown>>
<1> SUFFICES ASSUME [Next]_vars, ~RunEnter, ~RunLeave PROVE UNCHANGED <<players, inRoom, shown>>
  OBVIOUS
<1>1. ASSUME NEW o \in Objects, EnterGame(o) PROVE UNCHANGED <<players, inRoom, shown>>
  BY <1>1 DEF EnterGame, roomVars
<1>2. ASSUME NEW s \in Sessions, NEW p \in Positions,
             ReceiveMove(s, p) \/ PostMove(s) \/ Disconnect(s) \/ OnDisconnected(s)
      PROVE  UNCHANGED <<players, inRoom, shown>>
  BY <1>2 DEF ReceiveMove, PostMove, Disconnect, OnDisconnected, Disconnected, roomVars
<1>3. CASE DbStep
  BY <1>3 DEF DbStep, Attach, LoadFails, AskEnter, AskEnterAfter, Write, roomVars
<1>4. CASE RunMove \/ RunAutoSave \/ RunSave \/ PostAutoSave
  BY <1>4 DEF RunMove, RunAutoSave, RunSave, PostAutoSave, HandleMove, MoveFrom, roomVars
<1>5. CASE UNCHANGED vars
  BY <1>5 DEF vars, roomVars
<1> QED BY <1>1, <1>2, <1>3, <1>4, <1>5, OriginIsPlace DEF Next, RunJob

(* Histories only grow, and so does the set of clients greeted.            *)
LEMMA HistoriesGrow ==
  [Next]_vars => /\ greeted \subseteq greeted' /\ muddled \subseteq muddled'
                 /\ late \subseteq late' /\ replaced \subseteq replaced'
<1> DEFINE Grow == /\ greeted \subseteq greeted' /\ muddled \subseteq muddled'
                   /\ late \subseteq late' /\ replaced \subseteq replaced'
<1> SUFFICES ASSUME [Next]_vars PROVE Grow
  OBVIOUS
<1> USE DEF roomVars, sessionVars, roomHistory
<1>1. ASSUME NEW o \in Objects, EnterGame(o) PROVE Grow
  BY <1>1 DEF EnterGame
<1>2. ASSUME NEW s \in Sessions, NEW p \in Positions,
             ReceiveMove(s, p) \/ PostMove(s) \/ Disconnect(s) \/ OnDisconnected(s)
      PROVE  Grow
  BY <1>2 DEF ReceiveMove, PostMove, Disconnect, OnDisconnected, Disconnected
<1>3. CASE DbStep
  BY <1>3 DEF DbStep, Attach, LoadFails, AskEnter, AskEnterAfter, Write
<1>4. CASE RunMove \/ RunAutoSave \/ RunSave \/ PostAutoSave
  BY <1>4 DEF RunMove, RunAutoSave, RunSave, PostAutoSave, HandleMove, MoveFrom
<1>5. CASE RunEnter
  BY <1>5 DEF RunEnter, Enter, EnterTelling
<1>6. CASE RunLeave
  BY <1>6 DEF RunLeave, RunLeaveQueueing, Leave, LeaveRoom
<1>7. CASE UNCHANGED vars
  BY <1>7 DEF vars
<1> QED BY <1>1, <1>2, <1>3, <1>4, <1>5, <1>6, <1>7, OriginIsPlace DEF Next, RunJob

(* Only a Player just made becomes reachable.                              *)
LEMMA LiveGains ==
  ASSUME TypeOK, [Next]_vars, NEW o \in Live'
  PROVE  o \in Live \/ stage[o] = "loading"
<1> USE SessionsAssumption, ObjectsAssumption
<1> DEFINE Kept == linked' \subseteq linked /\ \A s \in Sessions : Connected(s)' => Connected(s)
<1>1. Kept => o \in Live
  BY DEF Live, TypeOK
<1>2. ASSUME NEW u \in Objects, EnterGame(u) PROVE Kept
  BY <1>2 DEF EnterGame, Connected
<1>3. ASSUME NEW s \in Sessions, NEW p \in Positions,
             ReceiveMove(s, p) \/ PostMove(s) \/ Disconnect(s) \/ OnDisconnected(s)
      PROVE  Kept
  BY <1>3 DEF ReceiveMove, PostMove, Disconnect, OnDisconnected, Disconnected, TypeOK, Connected
<1>4. ASSUME NEW i, NEW u \in Objects, NEW selected \in BOOLEAN, Attach(i, u, selected)
      PROVE  o \in Live \/ stage[o] = "loading"
  BY <1>4 DEF Attach, Loading, Live, Connected
<1>5. ASSUME NEW i, NEW u \in Objects, LoadFails(i, u) \/ AskEnter(i, u) PROVE Kept
  BY <1>5 DEF LoadFails, AskEnter, AskEnterAfter, TypeOK, Connected
<1>6. ASSUME NEW i, NEW ok \in BOOLEAN, Write(i, ok) PROVE Kept
  BY <1>6 DEF Write, sessionVars, Connected
<1>7. ASSUME RunJob \/ PostAutoSave PROVE Kept
  BY <1>7 DEF RunJob, RunEnter, RunLeave, RunLeaveQueueing, RunMove, RunAutoSave, RunSave,
              PostAutoSave, sessionVars, Connected
<1>8. ASSUME UNCHANGED vars PROVE Kept
  BY <1>8 DEF vars, sessionVars, Connected
<1> HIDE DEF Kept
<1> QED BY <1>1, <1>2, <1>3, <1>4, <1>5, <1>6, <1>7, <1>8, OriginIsPlace DEF Next, DbStep

-----------------------------------------------------------------------------
(* EnterGameFirst: no player is shown to a client before S_ENTER_GAME.     *)
(* What is shown goes to the members and to the newcomer while they can be *)
(* reached, and those have been greeted.                                   *)
LEMMA ReachedAreGreeted ==
  ASSUME Orderly, NEW o \in Live, EnterQueued(o) \/ IsMember(o)
  PROVE  o \in greeted
<1>1. o \in Objects /\ Connected(SessionOf[o]) /\ OrderOf(o)
  BY DEF Live, Orderly, TypeOK
<1>2. stage[o] = "done"
  BY <1>1 DEF OrderOf, Entered
<1> QED BY <1>1, <1>2 DEF OrderOf

LEMMA NextEnterGameFirst == Orderly /\ Orderly' /\ EnterGameFirst /\ [Next]_vars => EnterGameFirst'
<1> SUFFICES ASSUME Orderly, Orderly', EnterGameFirst, [Next]_vars,
                    NEW o \in Objects, shown'[o] # {}
             PROVE  o \in greeted'
  BY DEF EnterGameFirst, Orderly
<1>1. greeted \subseteq greeted'
  BY HistoriesGrow
<1>2. shown[o] # {} => o \in greeted'
  BY <1>1 DEF EnterGameFirst
<1>3. RoomTypeOK /\ TypeOK /\ OnceEach
  BY DEF Orderly, TypeOK
<1>4. CASE RunEnter
  <2> DEFINE u == Head(jobs).who
  <2>1. u \in Objects /\ EnterQueued(u) /\ Enter(u, Live)
    BY <1>3, <1>4, RunEnterLines DEF RunEnter
  <2> HIDE DEF u
  <2>2. shown'[o] = shown[o] \/ (o \in Live /\ (o = u \/ IsMember(o)))
    <3>1. shown'[o] = IF o \in Live /\ o = u THEN shown[o] \cup (Present \cup {IdOf[u]})
                      ELSE IF o \in Live /\ IsMember(o) /\ IdOf[o] # IdOf[u]
                             THEN shown[o] \cup {IdOf[u]}
                      ELSE shown[o]
      BY <1>3, <2>1, EnterEffect, SMTT(30)
    <3> QED BY <3>1, Zenon
  <2> QED BY <1>1, <1>2, <2>1, <2>2, ReachedAreGreeted
<1>5. CASE RunLeave
  <2>1. Head(jobs).who \in Objects /\ Leave(Head(jobs).who, Live)
    BY <1>3, <1>5, RunLeaveLines DEF RunLeave, RunLeaveQueueing
  <2>2. shown'[o] \subseteq shown[o]
    BY <1>3, <2>1, LeaveEffect
  <2> QED BY <1>2, <2>2
<1> QED BY <1>2, <1>4, <1>5, OtherSteps

(* The first thing a client learns is which player it is.                  *)
THEOREM GreetedFirst == Spec => []EnterGameFirst
<1>1. Init => EnterGameFirst
  BY InitTypes DEF Init, RoomInit, EnterGameFirst
<1> QED BY <1>1, OrderlyHolds, NextEnterGameFirst, PTL DEF Spec

-----------------------------------------------------------------------------
(* ScreensAgree: a newcomer starts with nothing shown, so that being told  *)
(* of everybody makes its screen what the room is; everybody else's screen *)
(* follows one Enter and one Leave at a time.                              *)
LEMMA NextScreensAgree == Orderly /\ ScreensAgree /\ [Next]_vars => ScreensAgree'
<1> SUFFICES ASSUME Orderly, ScreensAgree, [Next]_vars,
                    NEW o \in Live', IsMember(o)'
             PROVE  shown'[o] = Present'
  BY DEF ScreensAgree
<1>1. RoomTypeOK /\ TypeOK /\ OnceEach
  BY DEF Orderly, TypeOK
<1>2. o \in Live \/ stage[o] = "loading"
  BY <1>1, LiveGains
<1>3. o \in Objects
  <2>1. linked' \subseteq Objects
    BY <1>1, NextTypes DEF TypeOK
  <2> QED BY <2>1 DEF Live
<1>4. OrderOf(o)
  BY <1>3 DEF Orderly
<1>5. stage[o] = "loading" => ~IsMember(o) /\ ~EnterQueued(o)
  BY <1>4 DEF OrderOf, Entered
<1>6. CASE RunEnter
  <2> DEFINE u == Head(jobs).who
  <2>1. u \in Objects /\ EnterQueued(u) /\ Enter(u, Live)
    BY <1>1, <1>6, RunEnterLines DEF RunEnter
  <2> HIDE DEF u
  <2>2. /\ o = u \/ (IsMember(o) /\ IdOf[o] # IdOf[u])
        /\ Present' = Present \cup {IdOf[u]}
        /\ shown'[o] = IF o \in Live /\ o = u THEN shown[o] \cup (Present \cup {IdOf[u]})
                       ELSE IF o \in Live /\ IsMember(o) /\ IdOf[o] # IdOf[u]
                              THEN shown[o] \cup {IdOf[u]}
                       ELSE shown[o]
    BY <1>1, <1>3, <2>1, EnterEffect, SMTT(30)
  <2>3. o \in Live
    BY <1>2, <1>5, <2>1, <2>2
  <2>4. CASE o = u
    <3>1. shown[o] = {}
      BY <1>4, <2>1, <2>4 DEF OrderOf, Entered
    <3> QED BY <2>2, <2>3, <2>4, <3>1
  <2>5. CASE o # u
    <3>1. shown[o] = Present
      BY <2>2, <2>3, <2>5 DEF ScreensAgree
    <3> QED BY <2>2, <2>3, <2>5, <3>1
  <2> QED BY <2>4, <2>5
<1>7. CASE RunLeave
  <2> DEFINE u == Head(jobs).who
  <2>1. u \in Objects /\ Leave(u, Live)
    BY <1>1, <1>7, RunLeaveLines DEF RunLeave, RunLeaveQueueing
  <2> HIDE DEF u
  <2>2. /\ IsMember(o) /\ IdOf[o] # IdOf[u]
        /\ Present' = Present \ {IdOf[u]}
        /\ o \in Live /\ IdOf[u] \in Present => shown'[o] = shown[o] \ {IdOf[u]}
        /\ IdOf[u] \notin Present => shown'[o] = shown[o]
    BY <1>1, <1>3, <2>1, LeaveEffect
  <2>3. o \in Live
    BY <1>2, <1>5, <2>2
  <2>4. shown[o] = Present
    BY <2>2, <2>3 DEF ScreensAgree
  <2> QED BY <2>2, <2>3, <2>4
<1>8. CASE UNCHANGED <<players, inRoom, shown>>
  <2>1. IsMember(o) /\ Present' = Present
    BY <1>8 DEF IsMember, Present
  <2>2. o \in Live
    BY <1>2, <1>5, <2>1
  <2> QED BY <1>8, <2>1, <2>2 DEF ScreensAgree
<1> QED BY <1>6, <1>7, <1>8, OtherSteps

(* Every member whose client can be reached sees exactly the players in    *)
(* the room.                                                               *)
THEOREM ScreensShowTheRoom == Spec => []ScreensAgree
<1>1. Init => ScreensAgree
  BY DEF Init, RoomInit, ScreensAgree, Live
<1> QED BY <1>1, OrderlyHolds, NextScreensAgree, PTL DEF Spec

-----------------------------------------------------------------------------
(* RoomKnowsMembers.  It needs to know, besides, that a Leave that waits   *)
(* for an id nothing has muddled is that of the member itself: a Leave of  *)
(* another object would take the member's place away and not its room.     *)
LeaversAreMembers ==
  \A o \in Objects : IdOf[o] \notin muddled /\ LeaveQueued(o) => IsMember(o)

MembersKnown == RoomKnowsMembers /\ LeaversAreMembers

LEMMA MuddledByEnter ==
  ASSUME RoomTypeOK, NEW o \in Objects, NEW live, Enter(o, live)
  PROVE  /\ muddled \subseteq muddled'
         /\ IdOf[o] \in Present => IdOf[o] \in muddled'
  BY DEF Enter, EnterTelling

(* Which Leaves wait changes only when one is queued for an object that    *)
(* has a room, or run.                                                     *)
LEMMA LeavesGain ==
  ASSUME Orderly, [Next]_vars, NEW o \in Objects, LeaveQueued(o)'
  PROVE  LeaveQueued(o) \/ o \in inRoom
<1>1. TypeOK /\ MovesHeld /\ OnceEach
  BY DEF Orderly
<1>2. LinesKept => LeaveQueued(o)
  BY DEF LinesKept
<1>3. jobs' = jobs => LeaveQueued(o)
  BY <1>2, QuietLines
<1>4. ASSUME NEW u \in Objects, EnterGame(u) PROVE LeaveQueued(o)
  BY <1>3, <1>4 DEF EnterGame
<1>5. ASSUME NEW s \in Sessions, NEW p \in Positions, ReceiveMove(s, p) \/ Disconnect(s)
      PROVE  LeaveQueued(o)
  BY <1>3, <1>5 DEF ReceiveMove, Disconnect
<1>6. ASSUME NEW s \in Sessions, PostMove(s) PROVE LeaveQueued(o)
  BY <1>1, <1>2, <1>6, PostMoveLines
<1>7. ASSUME NEW s \in Sessions, OnDisconnected(s) PROVE LeaveQueued(o) \/ o \in inRoom
  BY <1>1, <1>7, OnDisconnectedLines
<1>8. ASSUME NEW i, NEW u \in Objects, NEW selected \in BOOLEAN, Attach(i, u, selected)
      PROVE  LeaveQueued(o)
  BY <1>3, <1>8 DEF Attach
<1>9. ASSUME NEW i, NEW u \in Objects, LoadFails(i, u) PROVE LeaveQueued(o)
  BY <1>3, <1>9 DEF LoadFails
<1>10. ASSUME NEW i, NEW u \in Objects, AskEnter(i, u) PROVE LeaveQueued(o)
  BY <1>1, <1>10, AskEnterLines
<1>11. ASSUME NEW i, NEW ok \in BOOLEAN, Write(i, ok) PROVE LeaveQueued(o)
  BY <1>3, <1>11 DEF Write
<1>12. CASE RunEnter
  BY <1>1, <1>12, RunEnterLines
<1>13. CASE RunLeave
  BY <1>1, <1>13, RunLeaveLines
<1>14. ASSUME RunMove \/ RunSave PROVE LeaveQueued(o)
  BY <1>1, <1>2, <1>14, OtherRunLines DEF RunMove, RunSave
<1>16. ASSUME RunAutoSave \/ PostAutoSave PROVE LeaveQueued(o)
  BY <1>1, <1>2, <1>16, RunAutoSaveLines, PostAutoSaveLines
<1>15. ASSUME UNCHANGED vars PROVE LeaveQueued(o)
  BY <1>3, <1>15 DEF vars
<1> QED
  BY <1>4, <1>5, <1>6, <1>7, <1>8, <1>9, <1>10, <1>11, <1>12, <1>13, <1>14, <1>15, <1>16,
     OriginIsPlace
  DEF Next, DbStep, RunJob

LEMMA NextMembersKnown == Orderly /\ MembersKnown /\ [Next]_vars => MembersKnown'
<1> SUFFICES ASSUME Orderly, MembersKnown, [Next]_vars,
                    NEW o \in Objects, IdOf[o] \notin muddled'
             PROVE  /\ o \in inRoom' <=> IsMember(o)'
                    /\ LeaveQueued(o)' => IsMember(o)'
  BY DEF MembersKnown, RoomKnowsMembers, LeaversAreMembers
<1>1. RoomTypeOK /\ TypeOK /\ OnceEach
  BY DEF Orderly, TypeOK
<1>2. IdOf[o] \notin muddled
  BY HistoriesGrow
<1>3. (o \in inRoom <=> IsMember(o)) /\ (LeaveQueued(o) => IsMember(o))
  BY <1>2 DEF MembersKnown, RoomKnowsMembers, LeaversAreMembers
<1>4. LeaveQueued(o)' => IsMember(o)
  BY <1>3, LeavesGain
<1>5. CASE RunEnter
  <2> DEFINE u == Head(jobs).who
  <2>1. u \in Objects /\ Enter(u, Live)
    BY <1>1, <1>5, RunEnterLines DEF RunEnter
  <2> HIDE DEF u
  <2>2. /\ IsMember(o)' <=> o = u \/ (IsMember(o) /\ IdOf[o] # IdOf[u])
        /\ inRoom' = inRoom \cup {u}
    BY <1>1, <2>1, EnterEffect
  <2>3. IdOf[u] = IdOf[o] => IdOf[o] \notin Present
    BY <1>1, <2>1, MuddledByEnter
  <2>4. IdOf[u] = IdOf[o] => ~IsMember(o)
    BY <1>1, <2>3, MembersPresent
  <2> QED BY <1>3, <1>4, <2>2, <2>4
<1>6. CASE RunLeave
  <2> DEFINE u == Head(jobs).who
  <2>1. u \in Objects /\ Leave(u, Live) /\ LeaveQueued(u) /\ (LeaveQueued(o)' => o # u)
    BY <1>1, <1>6, RunLeaveLines DEF RunLeave, RunLeaveQueueing
  <2> HIDE DEF u
  <2>2. /\ IsMember(o)' <=> IsMember(o) /\ IdOf[o] # IdOf[u]
        /\ inRoom' = IF IdOf[u] \in Present THEN inRoom \ {u} ELSE inRoom
    BY <1>1, <2>1, LeaveEffect
  <2>3. IdOf[u] = IdOf[o] => IsMember(u)
    BY <1>2, <2>1 DEF MembersKnown, LeaversAreMembers
  <2>4. IdOf[u] = IdOf[o] => (IsMember(o) <=> o = u)
    BY <2>3 DEF IsMember
  <2>5. IdOf[u] = IdOf[o] => IdOf[u] \in Present
    BY <1>1, <2>1, <2>3, MembersPresent
  <2> QED BY <1>3, <1>4, <2>1, <2>2, <2>4, <2>5
<1>7. CASE UNCHANGED <<players, inRoom, shown>>
  BY <1>3, <1>4, <1>7 DEF IsMember
<1> QED BY <1>5, <1>6, <1>7, OtherSteps

LEMMA MembersKnownHolds == Spec => []MembersKnown
<1>1. Init => MembersKnown
  <2> SUFFICES ASSUME Init PROVE MembersKnown
    OBVIOUS
  <2>1. \A o \in Objects : ~IsMember(o) /\ o \notin inRoom /\ ~LeaveQueued(o)
    BY ObjectsAssumption DEF Init, RoomInit, IsMember, LeaveQueued
  <2> QED BY <2>1 DEF MembersKnown, RoomKnowsMembers, LeaversAreMembers
<1> QED BY <1>1, OrderlyHolds, NextMembersKnown, PTL DEF Spec

(* Outside the muddled ids, Player::_room is set exactly for the objects   *)
(* in _players.                                                            *)
THEOREM RoomsKnown == Spec => []RoomKnowsMembers
  BY MembersKnownHolds, PTL DEF MembersKnown

-----------------------------------------------------------------------------
(* The grid.  GridExact: for an id nothing has muddled it holds one entry, *)
(* in the cell of its player's position, while the player is in the room,  *)
(* and none otherwise.                                                     *)
GridExact ==
  \A i \in Ids \ muddled : \A e \in sectors :
    e[2] = i => players[i] # None /\ e = <<Sector(pos[players[i]]), i>>

GridFull ==
  \A i \in Ids \ muddled : players[i] # None => <<Sector(pos[players[i]]), i>> \in sectors

GridRight == GridExact /\ GridFull

(* Only Attach and Move change a position.                                 *)
LEMMA PlacesKept ==
  [Next]_vars => \/ UNCHANGED <<players, pos, sectors>>
                 \/ \E i \in 1..DbWorkers, o \in Objects, selected \in BOOLEAN : Attach(i, o, selected)
                 \/ RunMove \/ RunEnter \/ RunLeave
<1> SUFFICES ASSUME [Next]_vars, ~RunMove, ~RunEnter, ~RunLeave,
                    \A i \in 1..DbWorkers, o \in Objects, selected \in BOOLEAN : ~Attach(i, o, selected)
             PROVE  UNCHANGED <<players, pos, sectors>>
  OBVIOUS
<1>1. ASSUME NEW o \in Objects, EnterGame(o) PROVE UNCHANGED <<players, pos, sectors>>
  BY <1>1 DEF EnterGame, roomVars
<1>2. ASSUME NEW s \in Sessions, NEW p \in Positions,
             ReceiveMove(s, p) \/ PostMove(s) \/ Disconnect(s) \/ OnDisconnected(s)
      PROVE  UNCHANGED <<players, pos, sectors>>
  BY <1>2 DEF ReceiveMove, PostMove, Disconnect, OnDisconnected, Disconnected, roomVars
<1>3. CASE DbStep
  BY <1>3 DEF DbStep, LoadFails, AskEnter, AskEnterAfter, Write, roomVars
<1>4. CASE RunAutoSave \/ RunSave \/ PostAutoSave
  BY <1>4 DEF RunAutoSave, RunSave, PostAutoSave, roomVars
<1>5. CASE UNCHANGED vars
  BY <1>5 DEF vars, roomVars
<1> QED BY <1>1, <1>2, <1>3, <1>4, <1>5, OriginIsPlace DEF Next, RunJob

LEMMA NextGridRight == Orderly /\ MembersKnown /\ GridRight /\ [Next]_vars => GridRight'
<1> SUFFICES ASSUME Orderly, MembersKnown, GridRight, [Next]_vars,
                    NEW i \in Ids, i \notin muddled'
             PROVE  /\ \A e \in sectors' : e[2] = i => players'[i] # None
                                                       /\ e = <<Sector(pos'[players'[i]]), i>>
                    /\ players'[i] # None => <<Sector(pos'[players'[i]]), i>> \in sectors'
  BY DEF GridRight, GridExact, GridFull, Sector
<1>1. RoomTypeOK /\ TypeOK /\ OnceEach /\ PlacedOwn
  BY DEF Orderly, TypeOK
<1>2. i \notin muddled
  BY HistoriesGrow
<1>3. /\ \A e \in sectors : e[2] = i => players[i] # None /\ e = <<Sector(pos[players[i]]), i>>
      /\ players[i] # None => <<Sector(pos[players[i]]), i>> \in sectors
  BY <1>2 DEF GridRight, GridExact, GridFull
<1>4. players[i] # None => players[i] \in Objects /\ IdOf[players[i]] = i /\ IsMember(players[i])
  BY <1>1 DEF RoomTypeOK, PlacedOwn, IsMember
<1>5. CASE UNCHANGED <<players, pos, sectors>>
  BY <1>3, <1>5
<1>6. CASE \E k \in 1..DbWorkers, o \in Objects, selected \in BOOLEAN : Attach(k, o, selected)
  <2>1. PICK o \in Objects : /\ stage[o] = "loading"
                             /\ UNCHANGED <<players, sectors>>
                             /\ \A u \in Objects : u # o => pos'[u] = pos[u]
    BY <1>1, <1>6 DEF Attach, Loading, RoomTypeOK
  <2>2. ~IsMember(o)
    BY <2>1 DEF Orderly, OrderOf, Entered
  <2> QED BY <1>3, <1>4, <2>1, <2>2
<1>7. CASE RunMove
  <2> DEFINE o == Head(jobs).who
             p == Head(jobs).to
  <2>1. o \in Objects /\ p \in Positions /\ MoveFrom(o, p, Sector(pos[o]))
    BY <1>1, <1>7, RunningLine, JobParts DEF RunMove, HandleMove
  <2> HIDE DEF o, p
  <2>2. /\ players' = players /\ pos' = [pos EXCEPT ![o] = p]
        /\ sectors' = IF Sector(pos[o]) = Sector(p) THEN sectors
                      ELSE (sectors \ {<<Sector(pos[o]), IdOf[o]>>}) \cup {<<Sector(p), IdOf[o]>>}
        /\ IdOf[o] = i => IsMember(o)
    BY <2>1 DEF MoveFrom
  <2>3. pos'[o] = p /\ \A u \in Objects : u # o => pos'[u] = pos[u]
    BY <1>1, <2>1, <2>2 DEF RoomTypeOK
  <2>4. CASE IdOf[o] = i
    <3>1. players[i] = o
      BY <2>2, <2>4 DEF IsMember
    <3> QED BY <1>3, <1>4, <2>1, <2>2, <2>3, <2>4, <3>1, ObjectsAssumption
  <2>5. CASE IdOf[o] # i
    <3>1. players[i] # None => pos'[players[i]] = pos[players[i]]
      BY <1>4, <2>3, <2>5
    <3>2. \A e : e[2] = i => (e \in sectors' <=> e \in sectors)
      BY <2>2, <2>5
    <3>3. <<Sector(pos[players[i]]), i>>[2] = i
      OBVIOUS
    <3> QED BY <1>3, <2>2, <3>1, <3>2, <3>3, Zenon
  <2> QED BY <2>4, <2>5
<1>8. CASE RunEnter
  <2> DEFINE o == Head(jobs).who
  <2>1. o \in Objects /\ EnterTelling(o, Objects, Live)
    BY <1>1, <1>8, RunEnterLines DEF RunEnter, Enter
  <2> HIDE DEF o
  <2>2. /\ players' = [players EXCEPT ![IdOf[o]] = o] /\ pos' = pos
        /\ sectors' = sectors \cup {<<Sector(pos[o]), IdOf[o]>>}
        /\ IdOf[o] = i => players[i] = None
    BY <2>1 DEF EnterTelling, Present
  <2>3. players'[i] = IF IdOf[o] = i THEN o ELSE players[i]
    BY <1>1, <2>2 DEF RoomTypeOK
  <2>4. \A e : e \in sectors' /\ e[2] = i =>
          e \in sectors \/ (IdOf[o] = i /\ e = <<Sector(pos[o]), i>>)
    BY <2>2
  <2>5. CASE IdOf[o] = i
    BY <1>3, <2>1, <2>2, <2>3, <2>4, <2>5, ObjectsAssumption
  <2>6. CASE IdOf[o] # i
    BY <1>3, <2>2, <2>3, <2>4, <2>6
  <2> QED BY <2>5, <2>6
<1>9. CASE RunLeave
  <2> DEFINE o == Head(jobs).who
  <2>1. o \in Objects /\ LeaveQueued(o) /\ LeaveRoom(o, Live, inRoom \ {o})
    BY <1>1, <1>9, RunLeaveLines DEF RunLeave, RunLeaveQueueing, Leave
  <2> HIDE DEF o
  <2>2. /\ players' = [players EXCEPT ![IdOf[o]] = None] \/ (players' = players /\ IdOf[o] \notin Present)
        /\ pos' = pos
        /\ sectors' = sectors \ {<<Sector(pos[o]), IdOf[o]>>}
    BY <2>1 DEF LeaveRoom
  <2>3. CASE IdOf[o] = i
    <3>1. players[i] = o /\ o # None
      BY <1>2, <2>1, <2>3, ObjectsAssumption DEF MembersKnown, LeaversAreMembers, IsMember
    <3>2. i \in Present
      BY <3>1 DEF Present
    <3>3. players'[i] = None
      BY <1>1, <2>2, <2>3, <3>2 DEF RoomTypeOK
    <3>4. \A e \in sectors' : e[2] # i
      BY <1>3, <2>2, <2>3, <3>1
    <3> QED BY <3>3, <3>4
  <2>4. CASE IdOf[o] # i
    <3>1. players'[i] = players[i]
      BY <1>1, <2>2, <2>4 DEF RoomTypeOK
    <3>2. \A e : e[2] = i => (e \in sectors' <=> e \in sectors)
      BY <2>2, <2>4
    <3>3. <<Sector(pos[players[i]]), i>>[2] = i
      OBVIOUS
    <3> QED BY <1>3, <2>2, <3>1, <3>2, <3>3, Zenon
  <2> QED BY <2>3, <2>4
<1> QED BY <1>5, <1>6, <1>7, <1>8, <1>9, PlacesKept

LEMMA GridRightHolds == Spec => []GridRight
<1>1. Init => GridRight
  BY DEF Init, RoomInit, GridRight, GridExact, GridFull
<1> QED BY <1>1, OrderlyHolds, MembersKnownHolds, NextGridRight, PTL DEF Spec

(* The grid files every player once, in the cell of where it is now, and   *)
(* nobody else.                                                            *)
THEOREM GridIsKept == Spec => []GridFollowsPlayers
<1>1. Orderly /\ GridRight => GridFollowsPlayers
  <2> SUFFICES ASSUME Orderly, GridRight PROVE GridFollowsPlayers
    OBVIOUS
  <2> DEFINE Filed(i) == <<Sector(pos[players[i]]), i>>
  <2>1. Present \subseteq Ids /\ \A i \in Present : players[i] # None
    BY DEF Present
  <2>2. sectors \subseteq {Sector(p) : p \in Positions} \X Ids
    BY DEF Orderly, TypeOK, RoomTypeOK
  <2>3. ASSUME NEW e \in sectors, e[2] \notin muddled
        PROVE  e[2] \in Present \ muddled /\ e = Filed(e[2])
    <3>1. e[2] \in Ids
      BY <2>2
    <3> QED BY <2>3, <3>1 DEF GridRight, GridExact, Present
  <2>4. ASSUME NEW i \in Present \ muddled
        PROVE  Filed(i) \in sectors /\ Filed(i)[2] \notin muddled
    BY <2>1 DEF GridRight, GridFull
  <2> QED BY <2>3, <2>4 DEF GridFollowsPlayers
<1> QED BY <1>1, OrderlyHolds, GridRightHolds, PTL

-----------------------------------------------------------------------------
(* GhostsEnterLate: OnDisconnected finds the player of its session, the    *)
(* one attached last.  A client that sends C_ENTER_GAME twice has two, as  *)
(* the code does not refuse the second, and its session has forgotten the  *)
(* first (replaced).                                                       *)
HeldWhileOpen ==
  \A o \in Objects :
    /\ ~Closed(o) /\ o \notin replaced
    /\ o \in inRoom \/ EnterQueued(o) \/ stage[o] = "attached"
    => attached[SessionOf[o]] = o

NoGhosts == HeldWhileOpen /\ GhostsEnterLate

LEMMA QuietGhosts ==
  ASSUME NoGhosts, LinesKept, players' = players, inRoom' = inRoom, attached' = attached,
         late \subseteq late', replaced \subseteq replaced',
         \A o \in Objects : Closed(o)' <=> Closed(o),
         \A o \in Objects : stage'[o] = "attached" => stage[o] = "attached"
  PROVE  NoGhosts'
<1>1. \A o \in Objects : (EnterQueued(o)' <=> EnterQueued(o)) /\ (LeaveQueued(o)' <=> LeaveQueued(o))
  BY DEF LinesKept
<1>2. HeldWhileOpen'
  <2> SUFFICES ASSUME NEW o \in Objects, ~Closed(o)', o \notin replaced',
                      o \in inRoom' \/ EnterQueued(o)' \/ stage'[o] = "attached"
               PROVE  attached'[SessionOf[o]] = o
    BY DEF HeldWhileOpen
  <2> QED BY <1>1 DEF NoGhosts, HeldWhileOpen
<1>3. GhostsEnterLate'
  <2> SUFFICES ASSUME NEW o \in Objects, IsMember(o)', Closed(o)', o \notin late' \cup replaced'
               PROVE  LeaveQueued(o)'
    BY DEF GhostsEnterLate
  <2>1. IsMember(o)
    BY DEF IsMember
  <2> QED BY <1>1, <2>1 DEF NoGhosts, GhostsEnterLate
<1> QED BY <1>2, <1>3 DEF NoGhosts

LEMMA OnDisconnectedGhosts ==
  ASSUME Orderly, NoGhosts, NEW s \in Sessions, OnDisconnected(s)
  PROVE  NoGhosts'
<1>1. TypeOK /\ SessionOf \in [Objects -> Sessions]
  BY SessionsAssumption DEF Orderly
<1>2. \A o \in Objects :
        /\ EnterQueued(o)' <=> EnterQueued(o)
        /\ LeaveQueued(o)' <=> LeaveQueued(o) \/ (o = attached[s] /\ o \in inRoom)
  BY <1>1, OnDisconnectedLines
<1>3. /\ session[s] = "closing" /\ session' = [session EXCEPT ![s] = "closed"]
      /\ attached' = [attached EXCEPT ![s] = None]
      /\ UNCHANGED <<players, inRoom, stage, late, replaced>>
  BY DEF OnDisconnected, Disconnected, roomVars, roomHistory
<1>4. \A o \in Objects : /\ SessionOf[o] = s => Closed(o)' /\ ~Closed(o)
                         /\ SessionOf[o] # s => /\ Closed(o)' <=> Closed(o)
                                                /\ attached'[SessionOf[o]] = attached[SessionOf[o]]
  BY <1>1, <1>3 DEF Closed, TypeOK
<1>5. HeldWhileOpen'
  <2> SUFFICES ASSUME NEW o \in Objects, ~Closed(o)', o \notin replaced',
                      o \in inRoom' \/ EnterQueued(o)' \/ stage'[o] = "attached"
               PROVE  attached'[SessionOf[o]] = o
    BY DEF HeldWhileOpen
  <2> QED BY <1>2, <1>3, <1>4 DEF NoGhosts, HeldWhileOpen
<1>6. GhostsEnterLate'
  <2> SUFFICES ASSUME NEW o \in Objects, IsMember(o)', Closed(o)', o \notin late' \cup replaced'
               PROVE  LeaveQueued(o)'
    BY DEF GhostsEnterLate
  <2>1. IsMember(o) /\ o \notin late \cup replaced
    BY <1>3 DEF IsMember
  <2>2. o \in inRoom
    BY <2>1 DEF Orderly, OrderOf
  <2>3. CASE SessionOf[o] = s
    BY <1>2, <1>4, <2>1, <2>2, <2>3 DEF NoGhosts, HeldWhileOpen
  <2>4. CASE SessionOf[o] # s
    BY <1>2, <1>4, <2>1, <2>4 DEF NoGhosts, GhostsEnterLate
  <2> QED BY <2>3, <2>4
<1> QED BY <1>5, <1>6 DEF NoGhosts

LEMMA AttachGhosts ==
  ASSUME Orderly, NoGhosts, NEW i, NEW u \in Objects, NEW selected, Attach(i, u, selected)
  PROVE  NoGhosts'
<1>1. TypeOK /\ SessionOf \in [Objects -> Sessions]
  BY SessionsAssumption DEF Orderly
<1>2. \A o \in Objects : (EnterQueued(o)' <=> EnterQueued(o)) /\ (LeaveQueued(o)' <=> LeaveQueued(o))
  BY QuietLines DEF LinesKept, Attach
<1>3. /\ attached' = [attached EXCEPT ![SessionOf[u]] = u]
      /\ stage' = [stage EXCEPT ![u] = "attached"]
      /\ replaced' = replaced \cup ({attached[SessionOf[u]]} \ {None})
      /\ UNCHANGED <<players, inRoom, session, late>>
  BY DEF Attach, roomHistory
<1>4. HeldWhileOpen'
  <2> SUFFICES ASSUME NEW o \in Objects, ~Closed(o)', o \notin replaced',
                      o \in inRoom' \/ EnterQueued(o)' \/ stage'[o] = "attached"
               PROVE  attached'[SessionOf[o]] = o
    BY DEF HeldWhileOpen
  <2>1. CASE o = u
    BY <1>1, <1>3, <2>1 DEF TypeOK
  <2>2. CASE o # u
    <3>1. stage'[o] = stage[o] /\ o \notin replaced
      BY <1>1, <1>3, <2>2 DEF TypeOK
    <3>2. attached[SessionOf[o]] = o
      BY <1>2, <1>3, <3>1 DEF NoGhosts, HeldWhileOpen, Closed
    <3>3. SessionOf[o] # SessionOf[u]
      BY <1>3, <3>2, ObjectsAssumption
    <3> QED BY <1>1, <1>3, <3>2, <3>3 DEF TypeOK
  <2> QED BY <2>1, <2>2
<1>5. GhostsEnterLate'
  BY <1>2, <1>3 DEF NoGhosts, GhostsEnterLate, IsMember, Closed
<1> QED BY <1>4, <1>5 DEF NoGhosts

LEMMA AskEnterGhosts ==
  ASSUME Orderly, NoGhosts, NEW i, NEW u \in Objects, AskEnter(i, u)
  PROVE  NoGhosts'
<1>1. TypeOK
  BY DEF Orderly
<1>2. \A o \in Objects : /\ EnterQueued(o)' <=> EnterQueued(o) \/ o = u
                         /\ LeaveQueued(o)' <=> LeaveQueued(o)
  BY <1>1, AskEnterLines
<1>3. /\ stage[u] = "attached" /\ stage' = [stage EXCEPT ![u] = "done"]
      /\ UNCHANGED <<players, inRoom, attached, session, late, replaced>>
  BY DEF AskEnter, AskEnterAfter, Loading, roomVars, roomHistory
<1>4. \A o \in Objects : stage'[o] = "attached" => stage[o] = "attached"
  BY <1>1, <1>3 DEF TypeOK
<1>5. HeldWhileOpen'
  BY <1>2, <1>3, <1>4 DEF NoGhosts, HeldWhileOpen, Closed
<1>6. GhostsEnterLate'
  BY <1>2, <1>3 DEF NoGhosts, GhostsEnterLate, IsMember, Closed
<1> QED BY <1>5, <1>6 DEF NoGhosts

LEMMA RunEnterGhosts ==
  ASSUME Orderly, NoGhosts, RunEnter
  PROVE  NoGhosts'
<1> DEFINE u == Head(jobs).who
<1>1. TypeOK /\ RoomTypeOK /\ OnceEach
  BY DEF Orderly, TypeOK
<1>2. /\ u \in Objects /\ EnterQueued(u)
      /\ \A o \in Objects : /\ EnterQueued(o)' <=> EnterQueued(o) /\ o # u
                            /\ LeaveQueued(o)' <=> LeaveQueued(o)
  BY <1>1, RunEnterLines
<1>3. /\ Enter(u, Live) /\ UNCHANGED <<stage, attached, session, replaced>>
      /\ late' = IF Closed(u) THEN late \cup {u} ELSE late
  BY DEF RunEnter, sessionVars, Closed
<1> HIDE DEF u
<1>4. /\ \A o \in Objects : IsMember(o)' <=> o = u \/ (IsMember(o) /\ IdOf[o] # IdOf[u])
      /\ inRoom' = inRoom \cup {u}
  BY <1>1, <1>2, <1>3, EnterEffect, SMTT(30)
<1>5. HeldWhileOpen'
  BY <1>2, <1>3, <1>4 DEF NoGhosts, HeldWhileOpen, Closed
<1>6. GhostsEnterLate'
  <2> SUFFICES ASSUME NEW o \in Objects, IsMember(o)', Closed(o)', o \notin late' \cup replaced'
               PROVE  LeaveQueued(o)'
    BY DEF GhostsEnterLate
  <2>1. Closed(o) /\ o # u /\ o \notin late \cup replaced
    BY <1>3 DEF Closed
  <2> QED BY <1>2, <1>4, <2>1 DEF NoGhosts, GhostsEnterLate
<1> QED BY <1>5, <1>6 DEF NoGhosts

LEMMA RunLeaveGhosts ==
  ASSUME Orderly, NoGhosts, RunLeave
  PROVE  NoGhosts'
<1> DEFINE u == Head(jobs).who
<1>1. TypeOK /\ RoomTypeOK /\ OnceEach
  BY DEF Orderly, TypeOK
<1>2. /\ u \in Objects
      /\ \A o \in Objects : /\ EnterQueued(o)' <=> EnterQueued(o)
                            /\ LeaveQueued(o)' <=> LeaveQueued(o) /\ o # u
  BY <1>1, RunLeaveLines
<1>3. Leave(u, Live) /\ UNCHANGED <<stage, attached, session, late, replaced>>
  BY DEF RunLeave, RunLeaveQueueing, sessionVars
<1> HIDE DEF u
<1>4. /\ \A o \in Objects : IsMember(o)' <=> IsMember(o) /\ IdOf[o] # IdOf[u]
      /\ inRoom' \subseteq inRoom
  BY <1>1, <1>2, <1>3, LeaveEffect, SMTT(30)
<1>5. HeldWhileOpen'
  BY <1>2, <1>3, <1>4 DEF NoGhosts, HeldWhileOpen, Closed
<1>6. GhostsEnterLate'
  BY <1>2, <1>3, <1>4 DEF NoGhosts, GhostsEnterLate, Closed
<1> QED BY <1>5, <1>6 DEF NoGhosts

LEMMA NextNoGhosts == Orderly /\ NoGhosts /\ [Next]_vars => NoGhosts'
<1> SUFFICES ASSUME Orderly, NoGhosts, [Next]_vars PROVE NoGhosts'
  OBVIOUS
<1>1. TypeOK /\ MovesHeld /\ SessionOf \in [Objects -> Sessions]
  BY SessionsAssumption DEF Orderly
<1>2. late \subseteq late' /\ replaced \subseteq replaced'
  BY HistoriesGrow
<1>3. ASSUME NEW o \in Objects, EnterGame(o) PROVE NoGhosts'
  <2>1. \A u \in Objects : stage'[u] = "attached" => stage[u] = "attached"
    BY <1>1, <1>3 DEF EnterGame, TypeOK
  <2> QED BY <1>2, <1>3, <2>1, QuietLines, QuietGhosts DEF EnterGame, roomVars, Closed
<1>4. ASSUME NEW s \in Sessions, NEW p \in Positions, ReceiveMove(s, p) PROVE NoGhosts'
  BY <1>2, <1>4, QuietLines, QuietGhosts DEF ReceiveMove, roomVars, Closed
<1>5. ASSUME NEW s \in Sessions, PostMove(s) PROVE NoGhosts'
  <2>1. LinesKept
    BY <1>1, <1>5, PostMoveLines
  <2> QED BY <1>2, <1>5, <2>1, QuietGhosts DEF PostMove, roomVars, Closed
<1>6. ASSUME NEW s \in Sessions, Disconnect(s) PROVE NoGhosts'
  <2>1. \A o \in Objects : Closed(o)' <=> Closed(o)
    BY <1>1, <1>6 DEF Disconnect, Closed, Connected, TypeOK
  <2> QED BY <1>2, <1>6, <2>1, QuietLines, QuietGhosts DEF Disconnect, roomVars
<1>7. ASSUME NEW s \in Sessions, OnDisconnected(s) PROVE NoGhosts'
  BY <1>7, OnDisconnectedGhosts
<1>8. ASSUME NEW i \in 1..DbWorkers, NEW o \in Objects, NEW selected \in BOOLEAN, Attach(i, o, selected)
      PROVE  NoGhosts'
  BY <1>8, AttachGhosts
<1>9. ASSUME NEW i \in 1..DbWorkers, NEW o \in Objects, LoadFails(i, o) PROVE NoGhosts'
  <2>1. \A u \in Objects : Closed(u)' <=> Closed(u)
    BY <1>1, <1>9 DEF LoadFails, Closed, TypeOK
  <2>2. \A u \in Objects : stage'[u] = "attached" => stage[u] = "attached"
    BY <1>1, <1>9 DEF LoadFails, TypeOK
  <2> QED BY <1>2, <1>9, <2>1, <2>2, QuietLines, QuietGhosts DEF LoadFails, roomVars
<1>10. ASSUME NEW i \in 1..DbWorkers, NEW o \in Objects, AskEnter(i, o) PROVE NoGhosts'
  BY <1>10, AskEnterGhosts
<1>11. ASSUME NEW i \in 1..DbWorkers, NEW ok \in BOOLEAN, Write(i, ok) PROVE NoGhosts'
  BY <1>2, <1>11, QuietLines, QuietGhosts DEF Write, roomVars, sessionVars, Closed
<1>12. CASE RunEnter
  BY <1>12, RunEnterGhosts
<1>13. CASE RunLeave
  BY <1>13, RunLeaveGhosts
<1>14. CASE RunMove \/ RunSave
  <2>1. LinesKept
    BY <1>1, <1>14, OtherRunLines DEF RunMove, RunSave
  <2>2. UNCHANGED <<players, inRoom, sessionVars>>
    BY <1>14 DEF RunMove, RunSave, HandleMove, MoveFrom, roomVars
  <2> QED BY <1>2, <2>1, <2>2, QuietGhosts DEF sessionVars, Closed
<1>15. CASE RunAutoSave \/ PostAutoSave
  <2>1. LinesKept
    BY <1>1, <1>15, RunAutoSaveLines, PostAutoSaveLines
  <2>2. UNCHANGED <<players, inRoom, sessionVars>>
    BY <1>15 DEF RunAutoSave, PostAutoSave, roomVars
  <2> QED BY <1>2, <2>1, <2>2, QuietGhosts DEF sessionVars, Closed
<1>16. CASE UNCHANGED vars
  BY <1>2, <1>16, QuietLines, QuietGhosts DEF vars, roomVars, sessionVars, Closed
<1> QED
  BY <1>3, <1>4, <1>5, <1>6, <1>7, <1>8, <1>9, <1>10, <1>11, <1>12, <1>13, <1>14, <1>15, <1>16
  DEF Next, DbStep, RunJob

(* A player whose session was closed is in the room only with its Leave to *)
(* come, unless its Enter ran after OnDisconnected or its session was      *)
(* given another player.                                                   *)
THEOREM GhostsOnlyLate == Spec => []GhostsEnterLate
<1>1. Init => NoGhosts
  <2> SUFFICES ASSUME Init PROVE NoGhosts
    OBVIOUS
  <2>1. \A o \in Objects : ~Closed(o) \/ SessionOf[o] \notin Sessions
    BY DEF Init, Closed
  <2>2. \A o \in Objects : o \notin inRoom /\ ~EnterQueued(o) /\ stage[o] = "none"
    BY DEF Init, RoomInit, EnterQueued, InLine
  <2> QED BY <2>1, <2>2, SessionsAssumption DEF NoGhosts, HeldWhileOpen, GhostsEnterLate
<1>2. NoGhosts => GhostsEnterLate
  BY DEF NoGhosts
<1>3. Orderly /\ NoGhosts /\ [Next]_vars => NoGhosts'
  BY NextNoGhosts
<1> QED BY <1>1, <1>2, <1>3, OrderlyHolds, PTL DEF Spec

-----------------------------------------------------------------------------
(* SavedWhereLeft: the place a character left is on its way to its row as  *)
(* the last SavePlayerToDB of its id in the room's queue, then as the last *)
(* UPSERT of its id in the DB pool's, which nothing later has passed.      *)
IsOf(j, op, i) == j.op = op /\ j.id = i

Of(q, op, i) == {k \in DOMAIN q : IsOf(q[k], op, i)}

Lasts(q, op, i, x) == \E k \in Of(q, op, i) : q[k] = x /\ \A m \in Of(q, op, i) : m <= k

Without(q, op, i) == Of(q, op, i) = {}

NoFresh(q, i) == \A k \in Of(q, "Write", i) : q[k].passed

SaveOf(i, p) ==
  \/ Lasts(jobs, "Save", i, SaveJob(i, p))
  \/ /\ Without(jobs, "Save", i)
     /\ \/ Lasts(dbJobs, "Write", i, WriteJob(i, p, FALSE))
        \/ NoFresh(dbJobs, i) /\ (i \in unsaved \/ row[i] = p)

SavesOnTheirWay ==
  \A i \in Ids : lastOut[i] # None /\ i \notin Present \cup muddled =>
    \A p : p = pos[lastOut[i]] => SaveOf(i, p)

(* An object that has left has been through its load, so that its position *)
(* is no longer read from the row.                                         *)
LeftIsDone ==
  /\ \A o \in Objects : LeaveQueued(o) => stage[o] = "done"
  /\ \A i \in Ids : lastOut[i] # None =>
       lastOut[i] \in Objects /\ stage[lastOut[i]] = "done" /\ IdOf[lastOut[i]] = i

(* A queue of length L that grows at the end, by M jobs of other kinds or  *)
(* ids.                                                                    *)
GrownBy(q, r, L, M, op, i) ==
  /\ L \in Nat /\ M \in Nat /\ DOMAIN q = 1..L /\ DOMAIN r = 1..(L + M)
  /\ \A k \in 1..L : r[k] = q[k]
  /\ \A k \in (L + 1)..(L + M) : ~IsOf(r[k], op, i)

LEMMA Grown ==
  ASSUME NEW q, NEW r, NEW L, NEW M, NEW op, NEW i, GrownBy(q, r, L, M, op, i)
  PROVE  /\ Of(r, op, i) = Of(q, op, i)
         /\ \A k \in Of(q, op, i) : r[k] = q[k]
<1>1. \A k \in DOMAIN r : k \in DOMAIN q \/ k \in (L + 1)..(L + M)
  BY DEF GrownBy
<1>2. \A k \in DOMAIN q : k \in DOMAIN r
  BY DEF GrownBy
<1>3. \A k \in DOMAIN q : r[k] = q[k]
  BY DEF GrownBy
<1> QED BY <1>1, <1>2, <1>3 DEF Of, GrownBy

(* Queues with the same jobs of this kind and id in the same places.       *)
LEMMA SamePlaces ==
  ASSUME NEW q, NEW r, NEW op, NEW i, Of(r, op, i) = Of(q, op, i),
         \A k \in Of(q, op, i) : r[k] = q[k]
  PROVE  /\ \A x : Lasts(q, op, i, x) => Lasts(r, op, i, x)
         /\ Without(q, op, i) => Without(r, op, i)
         /\ op = "Write" /\ NoFresh(q, i) => NoFresh(r, i)
  BY DEF Lasts, Without, NoFresh

LEMMA AppendOther ==
  ASSUME NEW S, NEW q \in Seq(S), NEW j \in S, NEW op, NEW i, ~IsOf(j, op, i)
  PROVE  /\ \A x : Lasts(q, op, i, x) => Lasts(Append(q, j), op, i, x)
         /\ Without(q, op, i) => Without(Append(q, j), op, i)
         /\ op = "Write" /\ NoFresh(q, i) => NoFresh(Append(q, j), i)
<1> DEFINE r == Append(q, j)
<1>1. /\ Len(q) \in Nat /\ DOMAIN q = 1..Len(q) /\ DOMAIN r = 1..(Len(q) + 1)
      /\ \A k \in 1..Len(q) : r[k] = q[k]
      /\ r[Len(q) + 1] = j /\ 1 \in Nat
  BY AppendProperties
<1> HIDE DEF r
<1>2. \A k \in (Len(q) + 1)..(Len(q) + 1) : ~IsOf(r[k], op, i)
  <2>1. \A k \in (Len(q) + 1)..(Len(q) + 1) : k = Len(q) + 1
    BY <1>1
  <2> QED BY <1>1, <2>1
<1>3. GrownBy(q, r, Len(q), 1, op, i)
  BY <1>1, <1>2 DEF GrownBy
<1>4. Of(r, op, i) = Of(q, op, i) /\ \A k \in Of(q, op, i) : r[k] = q[k]
  BY <1>3, Grown
<1> QED BY <1>4, SamePlaces DEF r

LEMMA AppendLast ==
  ASSUME NEW S, NEW q \in Seq(S), NEW j \in S, NEW op, NEW i, IsOf(j, op, i)
  PROVE  Lasts(Append(q, j), op, i, j)
<1> DEFINE r == Append(q, j)
<1>1. /\ Len(q) \in Nat /\ DOMAIN r = 1..(Len(q) + 1) /\ r[Len(q) + 1] = j
  BY AppendProperties
<1> HIDE DEF r
<1>2. Len(q) + 1 \in Of(r, op, i) /\ \A m \in Of(r, op, i) : m <= Len(q) + 1
  BY <1>1 DEF Of
<1> QED BY <1>1, <1>2 DEF Lasts, r

LEMMA ConcatOthers ==
  ASSUME NEW S, NEW q \in Seq(S), NEW t \in Seq(S), NEW op, NEW i,
         \A m \in DOMAIN t : ~IsOf(t[m], op, i)
  PROVE  /\ \A x : Lasts(q, op, i, x) => Lasts(q \o t, op, i, x)
         /\ Without(q, op, i) => Without(q \o t, op, i)
<1> DEFINE r == q \o t
           L == Len(q)
           M == Len(t)
<1>1. /\ L \in Nat /\ M \in Nat
      /\ DOMAIN q = 1..L /\ DOMAIN t = 1..M /\ DOMAIN r = 1..(L + M)
      /\ \A k \in 1..L : r[k] = q[k]
      /\ \A k \in 1..M : r[L + k] = t[k]
  BY ConcatEntries
<1> HIDE DEF r, L, M
<1>2. \A k \in (L + 1)..(L + M) : ~IsOf(r[k], op, i)
  <2> SUFFICES ASSUME NEW k \in (L + 1)..(L + M) PROVE ~IsOf(r[k], op, i)
    OBVIOUS
  <2>1. k - L \in 1..M /\ L + (k - L) = k
    BY <1>1
  <2>2. r[k] = t[k - L]
    BY <1>1, <2>1
  <2> QED BY <1>1, <2>1, <2>2
<1>3. GrownBy(q, r, L, M, op, i)
  BY <1>1, <1>2 DEF GrownBy
<1>4. Of(r, op, i) = Of(q, op, i) /\ \A k \in Of(q, op, i) : r[k] = q[k]
  BY <1>3, Grown
<1> QED BY <1>4, SamePlaces DEF r

(* A queue of length L that loses the job at n.                            *)
ShrunkAt(q, r, L, n) ==
  /\ L \in Nat /\ n \in 1..L /\ DOMAIN q = 1..L /\ DOMAIN r = 1..(L - 1)
  /\ \A k \in 1..(L - 1) : r[k] = IF k <= n - 1 THEN q[k] ELSE q[k + 1]

LEMMA Shrunk ==
  ASSUME NEW q, NEW r, NEW L, NEW n, ShrunkAt(q, r, L, n), NEW op, NEW i
  PROVE  /\ \A x : Lasts(q, op, i, x) =>
                     \/ Lasts(r, op, i, x)
                     \/ q[n] = x /\ \A m \in Of(q, op, i) : m <= n
         /\ Without(q, op, i) => Without(r, op, i)
         /\ (\A k \in Of(q, "Write", i) : k = n \/ q[k].passed) => NoFresh(r, i)
<1> USE DEF ShrunkAt
<1>1. ASSUME NEW o, NEW k \in Of(r, o, i)
      PROVE  \/ k <= n - 1 /\ k \in Of(q, o, i) /\ r[k] = q[k]
             \/ ~(k <= n - 1) /\ k + 1 \in Of(q, o, i) /\ r[k] = q[k + 1] /\ k + 1 # n
  <2>1. k \in 1..(L - 1) /\ IsOf(r[k], o, i)
    BY DEF Of
  <2>2. k \in 1..L /\ k + 1 \in 1..L /\ (~(k <= n - 1) => k + 1 # n)
    BY <2>1
  <2>3. CASE k <= n - 1
    BY <2>1, <2>2, <2>3 DEF Of
  <2>4. CASE ~(k <= n - 1)
    BY <2>1, <2>2, <2>4 DEF Of
  <2> QED BY <2>3, <2>4
<1>2. ASSUME NEW x, NEW k \in Of(q, op, i), q[k] = x, \A m \in Of(q, op, i) : m <= k, k # n
      PROVE  Lasts(r, op, i, x)
  <2>1. k \in 1..L /\ IsOf(q[k], op, i)
    BY DEF Of
  <2>2. CASE k < n
    <3>1. k \in 1..(L - 1) /\ k <= n - 1
      BY <2>1, <2>2
    <3>2. k \in Of(r, op, i) /\ r[k] = x
      BY <1>2, <2>1, <3>1 DEF Of
    <3>3. ASSUME NEW m \in Of(r, op, i) PROVE m <= k
      <4>1. m \in 1..(L - 1)
        BY DEF Of
      <4>2. ~(m <= n - 1) => m + 1 <= k
        BY <1>1, <1>2
      <4> QED BY <1>1, <1>2, <2>1, <2>2, <4>1, <4>2
    <3> QED BY <3>2, <3>3 DEF Lasts
  <2>3. CASE k > n
    <3>1. k - 1 \in 1..(L - 1) /\ ~(k - 1 <= n - 1) /\ (k - 1) + 1 = k
      BY <2>1, <2>3
    <3>2. k - 1 \in Of(r, op, i) /\ r[k - 1] = x
      BY <1>2, <2>1, <3>1 DEF Of
    <3>3. ASSUME NEW m \in Of(r, op, i) PROVE m <= k - 1
      <4>1. m \in 1..(L - 1)
        BY DEF Of
      <4>2. ~(m <= n - 1) => m + 1 <= k
        BY <1>1, <1>2
      <4> QED BY <2>1, <2>3, <4>1, <4>2
    <3> QED BY <3>2, <3>3 DEF Lasts
  <2> QED BY <1>2, <2>1, <2>2, <2>3
<1>3. \A x : Lasts(q, op, i, x) =>
                \/ Lasts(r, op, i, x)
                \/ q[n] = x /\ \A m \in Of(q, op, i) : m <= n
  <2> SUFFICES ASSUME NEW x, Lasts(q, op, i, x), ~Lasts(r, op, i, x)
               PROVE  q[n] = x /\ \A m \in Of(q, op, i) : m <= n
    OBVIOUS
  <2>1. PICK k \in Of(q, op, i) : q[k] = x /\ \A m \in Of(q, op, i) : m <= k
    BY DEF Lasts
  <2>2. k = n
    BY <1>2, <2>1
  <2> QED BY <2>1, <2>2
<1>4. Without(q, op, i) => Without(r, op, i)
  BY <1>1 DEF Without
<1>5. (\A k \in Of(q, "Write", i) : k = n \/ q[k].passed) => NoFresh(r, i)
  <2> SUFFICES ASSUME \A k \in Of(q, "Write", i) : k = n \/ q[k].passed,
                      NEW k \in Of(r, "Write", i)
               PROVE  r[k].passed
    BY DEF NoFresh
  <2>1. k \in 1..(L - 1)
    BY DEF Of
  <2>2. CASE k <= n - 1
    <3>1. k # n /\ k \in Of(q, "Write", i) /\ r[k] = q[k]
      BY <1>1, <2>1, <2>2
    <3> QED BY <3>1
  <2>3. CASE ~(k <= n - 1)
    <3>1. k + 1 # n /\ k + 1 \in Of(q, "Write", i) /\ r[k] = q[k + 1]
      BY <1>1, <2>3
    <3> QED BY <3>1
  <2> QED BY <2>2, <2>3
<1> QED BY <1>3, <1>4, <1>5

LEMMA TailLast ==
  ASSUME NEW S, NEW q \in Seq(S), q # <<>>, NEW op, NEW i
  PROVE  /\ \A x : Lasts(q, op, i, x) =>
                     Lasts(Tail(q), op, i, x) \/ (Head(q) = x /\ Without(Tail(q), op, i))
         /\ ~IsOf(Head(q), op, i) => \A x : Lasts(q, op, i, x) => Lasts(Tail(q), op, i, x)
         /\ Without(q, op, i) => Without(Tail(q), op, i) /\ ~IsOf(Head(q), op, i)
<1> DEFINE r == Tail(q)
<1>1. /\ Len(q) \in Nat /\ Len(q) >= 1
      /\ DOMAIN q = 1..Len(q) /\ DOMAIN r = 1..(Len(q) - 1)
      /\ \A k \in 1..(Len(q) - 1) : r[k] = q[k + 1]
      /\ Head(q) = q[1]
  BY HeadTailProperties, EmptySeq
<1> HIDE DEF r
<1>2. \A k \in 1..(Len(q) - 1) : r[k] = IF k <= 1 - 1 THEN q[k] ELSE q[k + 1]
  BY <1>1
<1>3. /\ \A x : Lasts(q, op, i, x) => \/ Lasts(r, op, i, x)
                                      \/ q[1] = x /\ \A m \in Of(q, op, i) : m <= 1
      /\ Without(q, op, i) => Without(r, op, i)
  <2>1. ShrunkAt(q, r, Len(q), 1)
    BY <1>1, <1>2 DEF ShrunkAt
  <2> QED BY <2>1, Shrunk
<1>4. (\A m \in Of(q, op, i) : m <= 1) => Without(r, op, i)
  <2> SUFFICES ASSUME \A m \in Of(q, op, i) : m <= 1, NEW k \in Of(r, op, i) PROVE FALSE
    BY DEF Without
  <2>1. k \in 1..(Len(q) - 1) /\ IsOf(q[k + 1], op, i)
    BY <1>1 DEF Of
  <2>2. k + 1 \in 1..Len(q) /\ ~(k + 1 <= 1)
    BY <1>1, <2>1
  <2> QED BY <1>1, <2>1, <2>2 DEF Of
<1>5. ~IsOf(Head(q), op, i) => \A x : Lasts(q, op, i, x) => Lasts(r, op, i, x)
  <2> SUFFICES ASSUME ~IsOf(q[1], op, i), NEW x, Lasts(q, op, i, x) PROVE Lasts(r, op, i, x)
    BY <1>1
  <2>1. PICK k \in Of(q, op, i) : q[k] = x
    BY DEF Lasts
  <2>2. k \in 1..Len(q) /\ k # 1
    BY <1>1, <2>1 DEF Of
  <2>3. ~(k <= 1)
    BY <1>1, <2>2
  <2> QED BY <1>3, <2>1, <2>3
<1>6. Without(q, op, i) => ~IsOf(Head(q), op, i)
  BY <1>1 DEF Without, Of
<1> QED BY <1>1, <1>3, <1>4, <1>5, <1>6 DEF r

(* The save of i is no further from its row, and no nearer, than it was.   *)
JobsKeep(i) ==
  /\ \A x : Lasts(jobs, "Save", i, x) => Lasts(jobs, "Save", i, x)'
  /\ Without(jobs, "Save", i) => Without(jobs, "Save", i)'

WritesKeep(i) ==
  /\ \A x : Lasts(dbJobs, "Write", i, x) => Lasts(dbJobs, "Write", i, x)'
  /\ NoFresh(dbJobs, i) => NoFresh(dbJobs, i)'

SaveKept(i) == \A p : SaveOf(i, p) => SaveOf(i, p)'

LEMMA BothKeep ==
  ASSUME NEW i, JobsKeep(i), WritesKeep(i), row' = row, unsaved' = unsaved
  PROVE  SaveKept(i)
  BY Zenon DEF JobsKeep, WritesKeep, SaveKept, SaveOf

LEMMA JobsQuiet == ASSUME jobs' = jobs, NEW i PROVE JobsKeep(i)
  BY DEF JobsKeep

LEMMA WritesQuiet == ASSUME dbJobs' = dbJobs, NEW i PROVE WritesKeep(i)
  BY DEF WritesKeep

LEMMA JobsAppended ==
  ASSUME TypeOK, NEW j \in RoomJobs, j.op # "Save", jobs' = Append(jobs, j), NEW i
  PROVE  JobsKeep(i)
<1>1. ~IsOf(j, "Save", i) /\ jobs \in Seq(RoomJobs)
  BY DEF IsOf, TypeOK
<1>2. /\ \A x : Lasts(jobs, "Save", i, x) => Lasts(jobs', "Save", i, x)
      /\ Without(jobs, "Save", i) => Without(jobs', "Save", i)
  BY <1>1, AppendOther
<1> QED BY <1>2 DEF JobsKeep

(* Another job of the room runs, and queues no snapshot of i.              *)
LEMMA JobsRun ==
  ASSUME TypeOK, jobs # <<>>, Head(jobs).op # "Save", NEW more \in Seq(RoomJobs),
         jobs' = Tail(jobs) \o more, NEW i, \A m \in DOMAIN more : ~IsOf(more[m], "Save", i)
  PROVE  JobsKeep(i)
<1> DEFINE r == Tail(jobs)
<1>1. r \in Seq(RoomJobs) /\ ~IsOf(Head(jobs), "Save", i) /\ jobs \in Seq(RoomJobs)
  BY HeadTailProperties DEF TypeOK, IsOf
<1>2. /\ \A x : Lasts(jobs, "Save", i, x) => Lasts(r, "Save", i, x)
      /\ Without(jobs, "Save", i) => Without(r, "Save", i)
  BY <1>1, TailLast
<1>3. jobs' = r \o more
  OBVIOUS
<1> HIDE DEF r
<1>4. /\ \A x : Lasts(r, "Save", i, x) => Lasts(jobs', "Save", i, x)
      /\ Without(r, "Save", i) => Without(jobs', "Save", i)
  BY <1>1, <1>3, ConcatOthers
<1> QED BY <1>2, <1>4 DEF JobsKeep

LEMMA JobsRunQuietly ==
  ASSUME TypeOK, NEW op, op # "Save", Running(op, <<>>), NEW i
  PROVE  JobsKeep(i)
<1>1. jobs # <<>> /\ Head(jobs).op # "Save" /\ jobs' = Tail(jobs) \o <<>>
  BY DEF Running
<1>2. <<>> \in Seq(RoomJobs) /\ \A m \in DOMAIN <<>> : ~IsOf(<<>>[m], "Save", i)
  OBVIOUS
<1> QED BY <1>1, <1>2, JobsRun

(* Loads come and go.                                                      *)
LEMMA WritesLoads ==
  ASSUME TypeOK, NEW i,
         \/ \E o \in Objects : dbJobs' = Append(dbJobs, [op |-> "Load", who |-> o])
         \/ \E k \in DOMAIN dbJobs : dbJobs[k].op = "Load" /\ dbJobs' = RemoveAt(dbJobs, k)
  PROVE  WritesKeep(i)
<1>1. dbJobs \in Seq(DbJobs)
  BY DEF TypeOK
<1>2. ASSUME NEW o \in Objects, dbJobs' = Append(dbJobs, [op |-> "Load", who |-> o])
      PROVE  WritesKeep(i)
  <2> DEFINE j == [op |-> "Load", who |-> o]
  <2>1. j \in DbJobs /\ ~IsOf(j, "Write", i) /\ dbJobs' = Append(dbJobs, j)
    BY <1>2, JobKinds DEF IsOf
  <2> HIDE DEF j
  <2>2. /\ \A x : Lasts(dbJobs, "Write", i, x) => Lasts(dbJobs', "Write", i, x)
        /\ NoFresh(dbJobs, i) => NoFresh(dbJobs', i)
    BY <1>1, <2>1, AppendOther
  <2> QED BY <2>2 DEF WritesKeep
<1>3. ASSUME NEW n \in DOMAIN dbJobs, dbJobs[n].op = "Load", dbJobs' = RemoveAt(dbJobs, n)
      PROVE  WritesKeep(i)
  <2> DEFINE L == Len(dbJobs)
  <2>1. /\ L \in Nat /\ n \in 1..L
        /\ DOMAIN dbJobs = 1..L /\ DOMAIN dbJobs' = 1..(L - 1)
        /\ \A k \in 1..(L - 1) : dbJobs'[k] = IF k <= n - 1 THEN dbJobs[k] ELSE dbJobs[k + 1]
    BY <1>1, <1>3, RemoveEntries
  <2> HIDE DEF L
  <2>2. /\ \A x : Lasts(dbJobs, "Write", i, x) =>
                    \/ Lasts(dbJobs', "Write", i, x)
                    \/ dbJobs[n] = x /\ \A m \in Of(dbJobs, "Write", i) : m <= n
        /\ (\A k \in Of(dbJobs, "Write", i) : k = n \/ dbJobs[k].passed) => NoFresh(dbJobs', i)
    <3>1. ShrunkAt(dbJobs, dbJobs', L, n)
      BY <2>1 DEF ShrunkAt
    <3> QED BY <3>1, Shrunk
  <2>3. ASSUME NEW x, Lasts(dbJobs, "Write", i, x) PROVE Lasts(dbJobs', "Write", i, x)
    <3>1. dbJobs[n] # x
      BY <1>3, <2>3 DEF Lasts, Of, IsOf
    <3> QED BY <2>2, <2>3, <3>1
  <2>4. NoFresh(dbJobs, i) => NoFresh(dbJobs', i)
    BY <2>2 DEF NoFresh
  <2> QED BY <2>3, <2>4 DEF WritesKeep
<1> QED BY <1>2, <1>3

(* SavePlayerToDB: the save becomes a write.                               *)
LEMMA RunSaveKeeps ==
  ASSUME TypeOK, RunSave, NEW i
  PROVE  SaveKept(i)
<1> DEFINE k == Head(jobs).id
           q == Head(jobs).at
           w == WriteJob(k, q, FALSE)
<1>1. /\ k \in Ids /\ q \in Positions /\ Head(jobs) = SaveJob(k, q)
      /\ jobs' = Tail(jobs) /\ jobs \in Seq(RoomJobs) /\ jobs # <<>>
  BY RunningLine, JobParts DEF TypeOK, RunSave, Running
<1>2. /\ dbJobs' = Append(dbJobs, w) /\ dbJobs \in Seq(DbJobs)
      /\ row' = row /\ unsaved' = unsaved
  BY DEF RunSave, WriteJob, TypeOK
<1> HIDE DEF k, q
<1>3. w \in DbJobs
  BY <1>1, JobKinds
<1>4. (IsOf(SaveJob(k, q), "Save", i) <=> i = k) /\ (IsOf(w, "Write", i) <=> i = k)
  BY DEF IsOf, SaveJob, WriteJob
<1> HIDE DEF w
<1>5. /\ \A x : Lasts(jobs, "Save", i, x) =>
                  Lasts(jobs', "Save", i, x) \/ (SaveJob(k, q) = x /\ Without(jobs', "Save", i))
      /\ Without(jobs, "Save", i) => Without(jobs', "Save", i) /\ ~IsOf(SaveJob(k, q), "Save", i)
  BY <1>1, TailLast
<1>6. i = k => Lasts(dbJobs', "Write", i, w)
  BY <1>2, <1>3, <1>4, AppendLast
<1>7. i # k => /\ \A x : Lasts(dbJobs, "Write", i, x) => Lasts(dbJobs', "Write", i, x)
               /\ NoFresh(dbJobs, i) => NoFresh(dbJobs', i)
  BY <1>2, <1>3, <1>4, AppendOther
<1> SUFFICES ASSUME NEW p, SaveOf(i, p) PROVE SaveOf(i, p)'
  BY DEF SaveKept
<1>8. CASE Lasts(jobs, "Save", i, SaveJob(i, p))
  <2>1. CASE Lasts(jobs', "Save", i, SaveJob(i, p))
    BY <2>1 DEF SaveOf
  <2>2. CASE ~Lasts(jobs', "Save", i, SaveJob(i, p))
    <3>1. SaveJob(k, q) = SaveJob(i, p) /\ Without(jobs', "Save", i)
      BY <1>5, <1>8, <2>2
    <3>2. i = k /\ p = q
      BY <3>1 DEF SaveJob
    <3>3. Lasts(dbJobs', "Write", i, WriteJob(i, p, FALSE))
      BY <1>6, <3>2 DEF w
    <3> QED BY <3>1, <3>3, Zenon DEF SaveOf
  <2> QED BY <2>1, <2>2
<1>9. CASE ~Lasts(jobs, "Save", i, SaveJob(i, p))
  <2>1. /\ Without(jobs, "Save", i)
        /\ \/ Lasts(dbJobs, "Write", i, WriteJob(i, p, FALSE))
           \/ NoFresh(dbJobs, i) /\ (i \in unsaved \/ row[i] = p)
    BY <1>9, Zenon DEF SaveOf
  <2>2. Without(jobs', "Save", i) /\ i # k
    BY <1>4, <1>5, <2>1
  <2>3. \/ Lasts(dbJobs', "Write", i, WriteJob(i, p, FALSE))
        \/ NoFresh(dbJobs', i) /\ (i \in unsaved \/ row[i] = p)
    BY <1>7, <2>1, <2>2, Zenon
  <2> QED BY <1>2, <2>2, <2>3 DEF SaveOf
<1> QED BY <1>8, <1>9

(* An UPSERT ends.  If it is the last of its id and nothing has passed it, *)
(* the row has the place, or never will and `unsaved` says so; then those  *)
(* before it are passed.  One that has been passed makes the row unsure.   *)
LEMMA WriteKeeps ==
  ASSUME TypeOK, NEW n, NEW ok \in BOOLEAN, Write(n, ok), NEW i \in Ids
  PROVE  SaveKept(i)
<1> DEFINE w == dbJobs[n]
           q == Marked(n)
           L == Len(q)
<1>1. /\ n \in DOMAIN dbJobs /\ w.op = "Write" /\ w \in DbJobs
      /\ row' = (IF ok THEN [row EXCEPT ![w.id] = w.at] ELSE row)
      /\ unsaved' = CASE ok /\ ~w.passed -> unsaved \ {w.id}
                      [] ~ok /\ w.passed -> unsaved
                      [] OTHER           -> unsaved \cup {w.id}
      /\ jobs' = jobs /\ row \in [Ids -> Positions]
  BY DEF Write, TypeOK
<1>2. /\ w.id \in Ids /\ w.passed \in BOOLEAN /\ w = WriteJob(w.id, w.at, w.passed)
  BY <1>1, JobParts
<1>3. /\ DOMAIN q = DOMAIN dbJobs
      /\ \A j \in DOMAIN dbJobs : ~OlderWrite(j, n) => q[j] = dbJobs[j]
      /\ \A j \in DOMAIN dbJobs : OlderWrite(j, n) =>
           /\ IsOf(q[j], "Write", w.id) /\ q[j].passed
           /\ j < n /\ IsOf(dbJobs[j], "Write", w.id)
  <2>1. /\ DOMAIN q = DOMAIN dbJobs
        /\ \A j \in DOMAIN dbJobs : ~OlderWrite(j, n) => q[j] = dbJobs[j]
    BY MarkedLine
  <2>2. ASSUME NEW j \in DOMAIN dbJobs, OlderWrite(j, n)
        PROVE  /\ IsOf(q[j], "Write", w.id) /\ q[j].passed
               /\ j < n /\ IsOf(dbJobs[j], "Write", w.id)
    <3>1. q[j] = WriteJob(dbJobs[j].id, dbJobs[j].at, TRUE)
      BY <2>2, MarkedLine
    <3>2. j < n /\ dbJobs[j].op = "Write" /\ dbJobs[j].id = w.id
      BY <2>2 DEF OlderWrite
    <3>3. q[j].op = "Write" /\ q[j].id = dbJobs[j].id /\ q[j].passed = TRUE
      BY <3>1 DEF WriteJob
    <3> QED BY <3>2, <3>3 DEF IsOf
  <2> QED BY <2>1, <2>2
<1>4. /\ L \in Nat /\ DOMAIN q = 1..L /\ n \in 1..L
      /\ DOMAIN dbJobs' = 1..(L - 1)
      /\ \A k \in 1..(L - 1) : dbJobs'[k] = IF k <= n - 1 THEN q[k] ELSE q[k + 1]
  <2>1. q \in Seq(DbJobs) /\ n \in DOMAIN q /\ dbJobs' = RemoveAt(q, n)
    BY WriteLine, MarkedLine
  <2> HIDE DEF q
  <2> QED BY <2>1, RemoveEntries
<1> HIDE DEF q, L, w
<1>5. /\ \A x : Lasts(q, "Write", i, x) =>
                  \/ Lasts(dbJobs', "Write", i, x)
                  \/ q[n] = x /\ \A m \in Of(q, "Write", i) : m <= n
      /\ (\A k \in Of(q, "Write", i) : k = n \/ q[k].passed) => NoFresh(dbJobs', i)
  <2>1. ShrunkAt(q, dbJobs', L, n)
    BY <1>4 DEF ShrunkAt
  <2> QED BY <2>1, Shrunk
<1>6. Of(q, "Write", i) = Of(dbJobs, "Write", i)
  <2>1. \A j \in DOMAIN dbJobs : IsOf(q[j], "Write", i) <=> IsOf(dbJobs[j], "Write", i)
    BY <1>3 DEF IsOf
  <2> QED BY <1>3, <2>1 DEF Of
<1>7. \A k \in Of(dbJobs, "Write", i) :
        /\ k \in DOMAIN dbJobs
        /\ ~OlderWrite(k, n) => q[k] = dbJobs[k]
        /\ OlderWrite(k, n) => q[k].passed /\ k < n /\ i = w.id
  BY <1>3 DEF Of, IsOf
<1>8. n \in Of(dbJobs, "Write", w.id) /\ ~OlderWrite(n, n)
  BY <1>1, <1>4 DEF Of, IsOf, OlderWrite, w
<1> SUFFICES ASSUME NEW p, SaveOf(i, p) PROVE SaveOf(i, p)'
  BY DEF SaveKept
<1> DEFINE x == WriteJob(i, p, FALSE)
<1>9. CASE Lasts(jobs, "Save", i, SaveJob(i, p))
  BY <1>1, <1>9 DEF SaveOf
<1>10. CASE Without(jobs, "Save", i) /\ Lasts(dbJobs, "Write", i, x)
  <2>1. PICK k \in Of(dbJobs, "Write", i) :
          dbJobs[k] = x /\ \A m \in Of(dbJobs, "Write", i) : m <= k
    BY <1>10 DEF Lasts
  <2>2. k \in 1..L /\ (i = w.id => n <= k)
    BY <1>3, <1>4, <1>8, <2>1 DEF Of
  <2>3. CASE k = n
    <3>1. w = x
      BY <2>1, <2>3 DEF w
    <3>2. w.id = i /\ w.at = p /\ w.passed = FALSE
      BY <3>1 DEF WriteJob
    <3>3. \A m \in Of(q, "Write", i) : m = n \/ q[m].passed
      <4> SUFFICES ASSUME NEW m \in Of(dbJobs, "Write", i), m # n PROVE q[m].passed
        BY <1>6
      <4>1. m \in 1..L /\ m <= n
        BY <1>3, <1>4, <2>1, <2>3 DEF Of
      <4>2. OlderWrite(m, n)
        BY <1>4, <3>2, <4>1 DEF Of, IsOf, OlderWrite, w
      <4> QED BY <1>7, <4>2
    <3>4. i \in unsaved' \/ row'[i] = p
      BY <1>1, <3>2
    <3>5. NoFresh(dbJobs', i)
      BY <1>5, <3>3
    <3> QED BY <1>1, <1>10, <3>4, <3>5 DEF SaveOf
  <2>4. CASE k # n
    <3>1. ~OlderWrite(k, n)
      BY <1>4, <1>7, <2>1, <2>2
    <3>2. Lasts(q, "Write", i, x)
      BY <1>6, <1>7, <2>1, <3>1 DEF Lasts
    <3>3. ~(q[n] = x /\ \A m \in Of(q, "Write", i) : m <= n)
      <4> SUFFICES ASSUME q[n] = x, \A m \in Of(q, "Write", i) : m <= n PROVE FALSE
        OBVIOUS
      <4>3. k <= n
        BY <1>6
      <4>1. w = x
        BY <1>1, <1>3, <1>8 DEF w
      <4>2. w.id = i
        BY <4>1 DEF WriteJob
      <4> QED BY <1>4, <2>2, <2>4, <4>2, <4>3
    <3>4. Lasts(dbJobs', "Write", i, x)
      BY <1>5, <3>2, <3>3
    <3> QED BY <1>1, <1>10, <3>4 DEF SaveOf
  <2> QED BY <2>3, <2>4
<1>11. CASE Without(jobs, "Save", i) /\ NoFresh(dbJobs, i) /\ (i \in unsaved \/ row[i] = p)
  <2>1. NoFresh(dbJobs', i)
    <3>1. \A k \in Of(q, "Write", i) : q[k].passed
      BY <1>6, <1>7, <1>11 DEF NoFresh
    <3> QED BY <1>5, <3>1
  <2>2. w.id = i => w.passed
    BY <1>8, <1>11 DEF NoFresh, w
  <2>3. i \in unsaved' \/ row'[i] = p
    BY <1>1, <1>2, <1>11, <2>2
  <2> QED BY <1>1, <1>11, <2>1, <2>3 DEF SaveOf
<1> QED BY <1>9, <1>10, <1>11, Zenon DEF SaveOf

(* A load that is over stays over, and only Leave says who left last.      *)
LEMMA DoneStays == TypeOK /\ [Next]_vars => \A o \in Objects : stage[o] = "done" => stage'[o] = "done"
<1> DEFINE Stays == \A o \in Objects : stage[o] = "done" => stage'[o] = "done"
<1> SUFFICES ASSUME TypeOK, [Next]_vars PROVE Stays
  OBVIOUS
<1>1. ASSUME NEW o \in Objects, EnterGame(o) PROVE Stays
  BY <1>1 DEF EnterGame, TypeOK
<1>2. ASSUME NEW s \in Sessions, NEW p \in Positions,
             ReceiveMove(s, p) \/ PostMove(s) \/ Disconnect(s) \/ OnDisconnected(s)
      PROVE  Stays
  BY <1>2 DEF ReceiveMove, PostMove, Disconnect, OnDisconnected, Disconnected
<1>3. ASSUME NEW i, NEW o \in Objects, NEW selected \in BOOLEAN,
             Attach(i, o, selected) \/ LoadFails(i, o) \/ AskEnter(i, o)
      PROVE  Stays
  BY <1>3 DEF Attach, LoadFails, AskEnter, AskEnterAfter, Loading, TypeOK
<1>4. ASSUME NEW i, NEW ok \in BOOLEAN, Write(i, ok) PROVE Stays
  BY <1>4 DEF Write, sessionVars
<1>5. ASSUME RunJob \/ PostAutoSave PROVE Stays
  BY <1>5 DEF RunJob, RunEnter, RunLeave, RunLeaveQueueing, RunMove, RunAutoSave, RunSave,
              PostAutoSave, sessionVars
<1>6. ASSUME UNCHANGED vars PROVE Stays
  BY <1>6 DEF vars, sessionVars
<1> HIDE DEF Stays
<1> QED BY <1>1, <1>2, <1>3, <1>4, <1>5, <1>6, OriginIsPlace DEF Next, DbStep

LEMMA LastOutStays == [Next]_vars => RunLeave \/ lastOut' = lastOut
<1> SUFFICES ASSUME [Next]_vars, ~RunLeave PROVE lastOut' = lastOut
  OBVIOUS
<1> USE DEF roomHistory
<1>1. ASSUME NEW o \in Objects, EnterGame(o) PROVE lastOut' = lastOut
  BY <1>1 DEF EnterGame
<1>2. ASSUME NEW s \in Sessions, NEW p \in Positions,
             ReceiveMove(s, p) \/ PostMove(s) \/ Disconnect(s) \/ OnDisconnected(s)
      PROVE  lastOut' = lastOut
  BY <1>2 DEF ReceiveMove, PostMove, Disconnect, OnDisconnected, Disconnected
<1>3. CASE DbStep
  BY <1>3 DEF DbStep, Attach, LoadFails, AskEnter, AskEnterAfter, Write
<1>4. CASE RunEnter \/ RunMove \/ RunAutoSave \/ RunSave \/ PostAutoSave
  BY <1>4 DEF RunEnter, RunMove, RunAutoSave, RunSave, PostAutoSave
<1>5. CASE UNCHANGED vars
  BY <1>5 DEF vars
<1> QED BY <1>1, <1>2, <1>3, <1>4, <1>5, OriginIsPlace DEF Next, RunJob

LEMMA RunLeaveEffect ==
  ASSUME Orderly, RunLeave
  PROVE  \E u \in Objects :
           /\ LeaveQueued(u) /\ Leave(u, Live) /\ Running("Leave", <<Snapshot(u)>>)
           /\ lastOut' = [lastOut EXCEPT ![IdOf[u]] = u]
           /\ UNCHANGED <<stage, dbJobs, row, unsaved>>
<1>1. Head(jobs).who \in Objects /\ LeaveQueued(Head(jobs).who)
  BY RunLeaveLines DEF Orderly
<1> QED BY <1>1 DEF RunLeave, RunLeaveQueueing, sessionVars, dbVars

LEMMA NextLeftIsDone == Orderly /\ LeftIsDone /\ [Next]_vars => LeftIsDone'
<1> SUFFICES ASSUME Orderly, LeftIsDone, [Next]_vars PROVE LeftIsDone'
  OBVIOUS
<1>1. \A o \in Objects : stage[o] = "done" => stage'[o] = "done"
  BY DoneStays DEF Orderly
<1>2. \A o \in Objects : LeaveQueued(o)' => stage'[o] = "done"
  <2> SUFFICES ASSUME NEW o \in Objects, LeaveQueued(o)' PROVE stage[o] = "done"
    BY <1>1
  <2>1. o \in inRoom => stage[o] = "done"
    BY DEF Orderly, OrderOf, Entered
  <2> QED BY <2>1, LeavesGain DEF LeftIsDone
<1>3. ASSUME NEW i \in Ids, lastOut'[i] # None
      PROVE  lastOut'[i] \in Objects /\ stage'[lastOut'[i]] = "done" /\ IdOf[lastOut'[i]] = i
  <2>1. CASE RunLeave
    <3>1. PICK u \in Objects : LeaveQueued(u) /\ lastOut' = [lastOut EXCEPT ![IdOf[u]] = u]
      BY <2>1, RunLeaveEffect
    <3>2. lastOut'[i] = u \/ lastOut'[i] = lastOut[i]
      BY <3>1 DEF Orderly, TypeOK
    <3>3. (lastOut'[i] = u /\ IdOf[u] = i) \/ lastOut'[i] = lastOut[i]
      BY <3>1 DEF Orderly, TypeOK
    <3> QED BY <1>1, <1>3, <3>1, <3>3 DEF LeftIsDone
  <2>2. CASE lastOut' = lastOut
    BY <1>1, <1>3, <2>2 DEF LeftIsDone
  <2> QED BY <2>1, <2>2, LastOutStays
<1>4. LeftIsDone' <=> /\ \A o \in Objects : LeaveQueued(o)' => stage'[o] = "done"
                      /\ \A i \in Ids : lastOut'[i] # None =>
                           /\ lastOut'[i] \in Objects /\ stage'[lastOut'[i]] = "done"
                           /\ IdOf[lastOut'[i]] = i
  BY DEF LeftIsDone
<1> QED BY <1>2, <1>3, <1>4

(* Leave queues the save of where its object is, behind all others.        *)
LEMMA RunLeaveSaves ==
  ASSUME Orderly, SavesOnTheirWay, RunLeave,
         NEW i \in Ids, lastOut'[i] # None, i \notin Present' \cup muddled',
         NEW p, p = pos'[lastOut'[i]]
  PROVE  SaveOf(i, p)'
<1>1. TypeOK /\ RoomTypeOK
  BY DEF Orderly, TypeOK
<1>2. PICK u \in Objects :
        /\ Leave(u, Live) /\ Running("Leave", <<Snapshot(u)>>)
        /\ lastOut' = [lastOut EXCEPT ![IdOf[u]] = u]
        /\ UNCHANGED <<dbJobs, row, unsaved>>
  BY RunLeaveEffect
<1>3. pos' = pos /\ muddled' = muddled /\ IdOf[u] \in Ids
  BY <1>2, ObjectsAssumption DEF Leave, LeaveRoom
<1> DEFINE x == SaveJob(IdOf[u], pos[u])
           r == Tail(jobs)
<1>4. /\ x = Snapshot(u) /\ x \in RoomJobs
      /\ \A k : IsOf(x, "Save", k) <=> k = IdOf[u]
  <2>1. x = Snapshot(u)
    BY DEF Snapshot, SaveJob
  <2>2. x \in RoomJobs
    BY <1>1, <1>3, JobKinds DEF RoomTypeOK
  <2>3. \A k : IsOf(x, "Save", k) <=> k = IdOf[u]
    BY DEF IsOf, SaveJob
  <2> QED BY <2>1, <2>2, <2>3
<1>5. /\ jobs # <<>> /\ Head(jobs).op = "Leave" /\ jobs \in Seq(RoomJobs)
      /\ r \in Seq(RoomJobs) /\ jobs' = Append(r, x)
  BY <1>1, <1>2, <1>4, RunningLine DEF TypeOK, Running
<1>6. CASE i = IdOf[u]
  <2>1. lastOut'[i] = u
    BY <1>1, <1>2, <1>3, <1>6 DEF TypeOK
  <2> HIDE DEF x, r
  <2>2. Lasts(jobs', "Save", i, x)
    BY <1>4, <1>5, <1>6, AppendLast
  <2>3. x = SaveJob(i, p)
    BY <1>3, <1>6, <2>1 DEF x
  <2> QED BY <2>2, <2>3 DEF SaveOf
<1>7. CASE i # IdOf[u]
  <2>1. lastOut'[i] = lastOut[i] /\ p = pos[lastOut[i]]
    BY <1>1, <1>2, <1>3, <1>7 DEF TypeOK
  <2>2. i \notin Present \cup muddled
    <3>1. Present' = Present \ {IdOf[u]}
      BY <1>1, <1>2, LeaveEffect
    <3> QED BY <1>3, <1>7, <3>1
  <2>3. SaveOf(i, p)
    BY <2>1, <2>2 DEF SavesOnTheirWay
  <2> HIDE DEF x, r
  <2>4. ~IsOf(Head(jobs), "Save", i) /\ ~IsOf(x, "Save", i)
    BY <1>4, <1>5, <1>7 DEF IsOf
  <2>5. /\ \A y : Lasts(jobs, "Save", i, y) => Lasts(r, "Save", i, y)
        /\ Without(jobs, "Save", i) => Without(r, "Save", i)
    BY <1>5, <2>4, TailLast DEF r
  <2>6. /\ \A y : Lasts(r, "Save", i, y) => Lasts(jobs', "Save", i, y)
        /\ Without(r, "Save", i) => Without(jobs', "Save", i)
    BY <1>4, <1>5, <2>4, AppendOther
  <2>7. JobsKeep(i)
    BY <2>5, <2>6 DEF JobsKeep
  <2>8. SaveKept(i)
    BY <1>2, <2>7, WritesQuiet, BothKeep
  <2> QED BY <2>3, <2>8 DEF SaveKept
<1> QED BY <1>6, <1>7

LEMMA NextSaves == Orderly /\ LeftIsDone /\ SavesOnTheirWay /\ [Next]_vars => SavesOnTheirWay'
<1> SUFFICES ASSUME Orderly, LeftIsDone, SavesOnTheirWay, [Next]_vars,
                    NEW i \in Ids, lastOut'[i] # None, i \notin Present' \cup muddled',
                    NEW p, p = pos'[lastOut'[i]]
             PROVE  SaveOf(i, p)'
  BY DEF SavesOnTheirWay
<1>1. TypeOK /\ MovesHeld /\ RoomTypeOK
  BY DEF Orderly, TypeOK
<1>2. CASE RunLeave
  BY <1>2, RunLeaveSaves
<1>3. CASE ~RunLeave
  <2>1. lastOut' = lastOut /\ i \notin muddled
    BY <1>3, LastOutStays, HistoriesGrow
  <2>2. lastOut[i] \in Objects /\ stage[lastOut[i]] = "done" /\ IdOf[lastOut[i]] = i
    BY <2>1 DEF LeftIsDone
  <2>3. ASSUME Present \subseteq Present', pos'[lastOut[i]] = pos[lastOut[i]], SaveKept(i)
        PROVE  SaveOf(i, p)'
    <3>1. SaveOf(i, p)
      BY <2>1, <2>3 DEF SavesOnTheirWay
    <3> QED BY <2>3, <3>1 DEF SaveKept
  <2>4. ASSUME UNCHANGED <<players, pos>>, JobsKeep(i), WritesKeep(i), row' = row, unsaved' = unsaved
        PROVE  SaveOf(i, p)'
    <3>1. Present \subseteq Present'
      BY <2>4 DEF Present
    <3> QED BY <2>3, <2>4, <3>1, BothKeep
  <2>5. ASSUME NEW o \in Objects, EnterGame(o) PROVE SaveOf(i, p)'
    <3>1. WritesKeep(i)
      BY <1>1, <2>5, WritesLoads DEF EnterGame
    <3> QED BY <2>4, <2>5, <3>1, JobsQuiet DEF EnterGame, roomVars
  <2>6. ASSUME NEW s \in Sessions, NEW q \in Positions, ReceiveMove(s, q) PROVE SaveOf(i, p)'
    BY <2>4, <2>6, JobsQuiet, WritesQuiet DEF ReceiveMove, roomVars, dbVars
  <2>7. ASSUME NEW s \in Sessions, PostMove(s) PROVE SaveOf(i, p)'
    <3>1. handler[s] \in RoomJobs /\ handler[s].op # "Save" /\ jobs' = Append(jobs, handler[s])
      BY <1>1, <2>7 DEF TypeOK, MovesHeld, PostMove, Post
    <3>2. JobsKeep(i)
      BY <1>1, <3>1, JobsAppended
    <3> QED BY <2>4, <2>7, <3>2, WritesQuiet DEF PostMove, roomVars, dbVars
  <2>8. ASSUME NEW s \in Sessions, Disconnect(s) PROVE SaveOf(i, p)'
    BY <2>4, <2>8, JobsQuiet, WritesQuiet DEF Disconnect, roomVars, dbVars
  <2>9. ASSUME NEW s \in Sessions, OnDisconnected(s) PROVE SaveOf(i, p)'
    <3>1. JobsKeep(i)
      <4>1. CASE attached[s] \in inRoom
        <5>1. attached[s] \in Objects
          BY <1>1, <4>1 DEF RoomTypeOK
        <5>2. /\ jobs' = Append(jobs, LeaveJob(attached[s])) /\ LeaveJob(attached[s]) \in RoomJobs
              /\ LeaveJob(attached[s]).op # "Save"
          BY <2>9, <4>1, <5>1, JobKinds DEF OnDisconnected, Disconnected, LeaveJob
        <5> QED BY <1>1, <5>2, JobsAppended
      <4>2. CASE attached[s] \notin inRoom
        BY <2>9, <4>2, JobsQuiet DEF OnDisconnected, Disconnected
      <4> QED BY <4>1, <4>2
    <3> QED BY <2>4, <2>9, <3>1, WritesQuiet DEF OnDisconnected, Disconnected, roomVars, dbVars
  <2>10. ASSUME NEW k \in 1..DbWorkers, NEW o \in Objects, NEW selected \in BOOLEAN,
                Attach(k, o, selected)
         PROVE  SaveOf(i, p)'
    <3>1. stage[o] = "loading" /\ \A u \in Objects : u # o => pos'[u] = pos[u]
      BY <1>1, <2>10 DEF Attach, Loading, RoomTypeOK
    <3>2. pos'[lastOut[i]] = pos[lastOut[i]]
      BY <2>2, <3>1
    <3>3. Present \subseteq Present'
      BY <2>10 DEF Attach, Present
    <3>4. SaveKept(i)
      BY <2>10, JobsQuiet, WritesQuiet, BothKeep DEF Attach, dbVars
    <3> QED BY <2>3, <3>2, <3>3, <3>4
  <2>11. ASSUME NEW k \in 1..DbWorkers, NEW o \in Objects, LoadFails(k, o) PROVE SaveOf(i, p)'
    <3>1. \E n \in DOMAIN dbJobs : dbJobs[n].op = "Load" /\ dbJobs' = RemoveAt(dbJobs, n)
      BY <2>11 DEF LoadFails, Loading
    <3>2. WritesKeep(i)
      BY <1>1, <3>1, WritesLoads
    <3> QED BY <2>4, <2>11, <3>2, JobsQuiet DEF LoadFails, roomVars
  <2>12. ASSUME NEW k \in 1..DbWorkers, NEW o \in Objects, AskEnter(k, o) PROVE SaveOf(i, p)'
    <3>1. \E n \in DOMAIN dbJobs : dbJobs[n].op = "Load" /\ dbJobs' = RemoveAt(dbJobs, n)
      BY <2>12 DEF AskEnter, AskEnterAfter, Loading
    <3>2. WritesKeep(i)
      BY <1>1, <3>1, WritesLoads
    <3>3. jobs' = Append(jobs, EnterJob(o)) /\ EnterJob(o) \in RoomJobs /\ EnterJob(o).op # "Save"
      BY <2>12, JobKinds DEF AskEnter, AskEnterAfter, Post, EnterJob
    <3>4. JobsKeep(i)
      BY <1>1, <3>3, JobsAppended
    <3> QED BY <2>4, <2>12, <3>2, <3>4 DEF AskEnter, AskEnterAfter, roomVars
  <2>13. ASSUME NEW k \in 1..DbWorkers, NEW ok \in BOOLEAN, Write(k, ok) PROVE SaveOf(i, p)'
    <3>1. SaveKept(i)
      BY <1>1, <2>13, WriteKeeps
    <3>2. UNCHANGED <<players, pos>>
      BY <2>13 DEF Write, roomVars
    <3>3. Present \subseteq Present'
      BY <3>2 DEF Present
    <3> QED BY <2>3, <3>1, <3>2, <3>3
  <2>14. CASE PostAutoSave
    <3> DEFINE j == [op |-> "AutoSave"]
    <3>1. jobs' = Append(jobs, j) /\ j \in RoomJobs /\ j.op # "Save"
      BY <2>14, JobKinds DEF PostAutoSave, Post
    <3>2. JobsKeep(i)
      BY <1>1, <3>1, JobsAppended
    <3> QED BY <2>4, <2>14, <3>2, WritesQuiet DEF PostAutoSave, roomVars, dbVars
  <2>15. CASE RunEnter
    <3> DEFINE u == Head(jobs).who
    <3>1. u \in Objects /\ Enter(u, Live)
      BY <1>1, <2>15, RunEnterLines DEF RunEnter, Orderly
    <3> HIDE DEF u
    <3>2. Present \subseteq Present'
      <4>1. Present' = Present \cup {IdOf[u]}
        BY <1>1, <3>1, EnterEffect, SMTT(30)
      <4> QED BY <4>1
    <3>3. pos' = pos
      BY <3>1 DEF Enter, EnterTelling
    <3>4. JobsKeep(i)
      BY <1>1, <2>15, JobsRunQuietly DEF RunEnter
    <3>5. SaveKept(i)
      BY <2>15, <3>4, WritesQuiet, BothKeep DEF RunEnter, dbVars
    <3> QED BY <2>3, <3>2, <3>3, <3>5
  <2>16. CASE RunMove
    <3> DEFINE u == Head(jobs).who
               q == Head(jobs).to
    <3>1. u \in Objects /\ q \in Positions /\ HandleMove(u, q)
      BY <1>1, <2>16, RunningLine, JobParts DEF RunMove
    <3> HIDE DEF u, q
    <3>2. /\ pos' = [pos EXCEPT ![u] = q] /\ players' = players
          /\ IsMember(u) \/ IdOf[u] \in muddled'
      BY <3>1 DEF HandleMove, MoveFrom
    <3>3. Present' = Present
      BY <3>2 DEF Present
    <3>4. u # lastOut[i]
      <4>1. IsMember(u) => IdOf[u] \in Present'
        BY <1>1, <3>1, <3>3, MembersPresent
      <4> QED BY <2>2, <3>2, <4>1
    <3>5. pos'[lastOut[i]] = pos[lastOut[i]]
      BY <1>1, <2>2, <3>1, <3>2, <3>4 DEF RoomTypeOK
    <3>6. JobsKeep(i)
      BY <1>1, <2>16, JobsRunQuietly DEF RunMove
    <3>7. SaveKept(i)
      BY <2>16, <3>6, WritesQuiet, BothKeep DEF RunMove, dbVars
    <3> QED BY <2>3, <3>3, <3>5, <3>7
  <2>17. CASE RunAutoSave
    <3>1. UNCHANGED <<players, pos>>
      BY <2>17 DEF RunAutoSave, roomVars
    <3>2. i \notin Present
      BY <3>1 DEF Present
    <3>3. PICK more \in Seq(RoomJobs) :
            /\ jobs' = Tail(jobs) \o more
            /\ \A m \in DOMAIN more : \E k \in Present : more[m] = Snapshot(players[k])
      BY <1>1, <2>17, RunAutoSaveLine
    <3>4. \A k \in Present : IdOf[players[k]] = k
      BY DEF Orderly, PlacedOwn, Present
    <3>5. \A m \in DOMAIN more : ~IsOf(more[m], "Save", i)
      BY <3>2, <3>3, <3>4 DEF IsOf, Snapshot
    <3>6. jobs # <<>> /\ Head(jobs).op # "Save"
      BY <2>17 DEF RunAutoSave, Running
    <3>7. JobsKeep(i)
      BY <1>1, <3>3, <3>5, <3>6, JobsRun
    <3> QED BY <2>4, <2>17, <3>1, <3>7, WritesQuiet DEF RunAutoSave, dbVars
  <2>18. CASE RunSave
    <3>1. SaveKept(i)
      BY <1>1, <2>18, RunSaveKeeps
    <3>2. UNCHANGED <<players, pos>>
      BY <2>18 DEF RunSave, roomVars
    <3>3. Present \subseteq Present'
      BY <3>2 DEF Present
    <3> QED BY <2>3, <3>1, <3>2, <3>3
  <2>19. CASE UNCHANGED vars
    BY <2>4, <2>19, JobsQuiet, WritesQuiet DEF vars, roomVars, dbVars
  <2> QED
    BY <1>3, <2>5, <2>6, <2>7, <2>8, <2>9, <2>10, <2>11, <2>12, <2>13, <2>14, <2>15, <2>16,
       <2>17, <2>18, <2>19
    DEF Next, DbStep, RunJob
<1> QED BY <1>2, <1>3

LEMMA SavesArrive == SavesOnTheirWay => SavedWhereLeft
<1> SUFFICES ASSUME SavesOnTheirWay, jobs = <<>>, dbJobs = <<>>, NEW i \in Ids,
                    lastOut[i] # None, i \notin Present \cup muddled \cup unsaved
             PROVE  row[i] = pos[lastOut[i]]
  BY DEF SavedWhereLeft
<1>1. SaveOf(i, pos[lastOut[i]])
  BY DEF SavesOnTheirWay
<1>2. Of(jobs, "Save", i) = {} /\ Of(dbJobs, "Write", i) = {}
  BY DEF Of
<1> QED BY <1>1, <1>2 DEF SaveOf, Lasts

(* Once nothing is queued, the row of a character that has left says where *)
(* it was last, whichever of its sessions that was and however its moves,  *)
(* its leaving, snapshots by timer and the disconnections were             *)
(* interleaved, unless its last save failed or was overtaken.              *)
THEOREM LeftIsWhereSaved == Spec => []SavedWhereLeft
<1>1. Init => LeftIsDone /\ SavesOnTheirWay
  <2>1. Init => \A i \in Ids : lastOut[i] = None
    BY DEF Init
  <2>2. Init => \A o : ~LeaveQueued(o)
    BY DEF Init, LeaveQueued
  <2> QED BY <2>1, <2>2 DEF LeftIsDone, SavesOnTheirWay
<1> QED BY <1>1, OrderlyHolds, NextLeftIsDone, NextSaves, SavesArrive, PTL DEF Spec

=============================================================================
