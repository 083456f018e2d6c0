---------------------------- MODULE CharacterProofs ----------------------------
(***************************************************************************)
(* Two components about one character: who plays it (Login) and what its   *)
(* row keeps (PlayerStore), for any number of requests, sessions, DB       *)
(* workers, letters, gains and failures.  The two share no state.          *)
(*                                                                         *)
(* The argument for the row.  Count a letter that was removed and not yet  *)
(* paid as owed.  While nothing excuses a loss, one object at a time is    *)
(* loaded, on its way or in the room, and its gold and what is owed is     *)
(* what was given.  When there is none, the copy that Leave made has that  *)
(* gold and is the last one: it waits in the room's queue behind all other *)
(* saves, then in the DB queue behind all other writes; once it is written *)
(* the writes it overtook can only repeat it, or are what excuses.         *)
(*                                                                         *)
(* The argument for the account.  While no two requests have found nothing *)
(* at a time, at most one is about to create a character, and there is     *)
(* none yet.  A ticket is stored once, with a character that exists; from  *)
(* the first login with it on it is out of Redis, so that whoever else     *)
(* still logs in with it had read it before, which made it contested.      *)
(***************************************************************************)
EXTENDS Login, PlayerStore, FiniteSetTheorems, FunctionTheorems, SequenceTheorems, TLAPS

-----------------------------------------------------------------------------
(* The queues: what is where after a job came, left or moved on.           *)

(* x came last.                                                            *)
Joined(q, x, r) ==
  /\ Len(q) \in Nat /\ DOMAIN q = 1..Len(q) /\ DOMAIN r = 1..(Len(q) + 1)
  /\ \A i \in DOMAIN q : i \in DOMAIN r /\ r[i] = q[i]
  /\ Len(q) + 1 \in DOMAIN r /\ r[Len(q) + 1] = x
  /\ \A i \in DOMAIN r : i \in DOMAIN q \/ i = Len(q) + 1

(* The first was taken; then x came last.                                  *)
Taken(q, r) ==
  /\ Len(q) \in Nat \ {0} /\ DOMAIN q = 1..Len(q) /\ DOMAIN r = 1..(Len(q) - 1)
  /\ \A i \in DOMAIN r : i + 1 \in DOMAIN q /\ r[i] = q[i + 1]
  /\ \A k \in DOMAIN q : k # 1 => k - 1 \in DOMAIN r /\ r[k - 1] = q[k]
  /\ 1 \in DOMAIN q /\ Head(q) = q[1]

TakenJoined(q, x, r) ==
  /\ Len(q) \in Nat \ {0} /\ DOMAIN q = 1..Len(q) /\ DOMAIN r = 1..Len(q)
  /\ \A i \in DOMAIN r : (i + 1 \in DOMAIN q /\ r[i] = q[i + 1]) \/ (i = Len(q) /\ r[i] = x)
  /\ \A k \in DOMAIN q : k # 1 => k - 1 \in DOMAIN r /\ r[k - 1] = q[k]
  /\ Len(q) \in DOMAIN r /\ r[Len(q)] = x
  /\ 1 \in DOMAIN q /\ Head(q) = q[1]

(* The one at i left; From(i, j) is where the one at j was before.         *)
From(i, j) == IF j < i THEN j ELSE j + 1

Left(q, i, r) ==
  /\ Len(q) \in Nat \ {0} /\ DOMAIN q = 1..Len(q) /\ DOMAIN r = 1..(Len(q) - 1)
  /\ \A j \in DOMAIN r : From(i, j) \in DOMAIN q /\ From(i, j) # i /\ r[j] = q[From(i, j)]
  /\ \A j, k \in DOMAIN r : From(i, j) <= From(i, k) => j <= k
  /\ \A j, k \in DOMAIN r : From(i, j) = From(i, k) => j = k
  /\ \A k \in DOMAIN q : k # i => \E j \in DOMAIN r : From(i, j) = k /\ r[j] = q[k]

LEMMA Appended ==
  ASSUME NEW S, NEW q \in Seq(S), NEW x \in S
  PROVE  Append(q, x) \in Seq(S) /\ Joined(q, x, Append(q, x))
  BY DEF Joined

LEMMA TailTaken ==
  ASSUME NEW S, NEW q \in Seq(S), q # <<>>
  PROVE  Tail(q) \in Seq(S) /\ Taken(q, Tail(q))
  BY DEF Taken

LEMMA TailThenAppended ==
  ASSUME NEW S, NEW q \in Seq(S), q # <<>>, NEW x \in S
  PROVE  Append(Tail(q), x) \in Seq(S) /\ TakenJoined(q, x, Append(Tail(q), x))
<1>1. Tail(q) \in Seq(S) /\ Len(Tail(q)) = Len(q) - 1 /\ Taken(q, Tail(q))
  BY TailTaken
<1>2. Append(Tail(q), x) \in Seq(S) /\ Joined(Tail(q), x, Append(Tail(q), x))
  BY <1>1, Appended
<1> QED
  BY <1>1, <1>2 DEF Taken, Joined, TakenJoined

LEMMA Removed ==
  ASSUME NEW S, NEW q \in Seq(S), NEW i \in DOMAIN q
  PROVE  RemoveAt(q, i) \in Seq(S) /\ Left(q, i, RemoveAt(q, i))
<1> DEFINE a == SubSeq(q, 1, i - 1)
           b == SubSeq(q, i + 1, Len(q))
           r == a \o b
<1>1. Len(q) \in Nat \ {0} /\ DOMAIN q = 1..Len(q) /\ i \in 1..Len(q)
  OBVIOUS
<1>2. a \in Seq(S) /\ Len(a) = i - 1 /\ \A j \in 1..(i - 1) : a[j] = q[j]
  BY <1>1, SubSeqProperties
<1>3. b \in Seq(S) /\ Len(b) = Len(q) - i /\ \A j \in 1..(Len(q) - i) : b[j] = q[i + j]
  BY <1>1, SubSeqProperties
<1>4. RemoveAt(q, i) = r
  BY DEF RemoveAt
<1> HIDE DEF a, b
<1>5. /\ r \in Seq(S) /\ Len(r) = Len(a) + Len(b)
      /\ \A j \in 1..(Len(a) + Len(b)) : r[j] = IF j <= Len(a) THEN a[j] ELSE b[j - Len(a)]
  BY <1>2, <1>3, ConcatProperties, Zenon
<1> HIDE DEF r
<1>6. Len(a) + Len(b) = Len(q) - 1 /\ DOMAIN r = 1..(Len(q) - 1)
  BY <1>1, <1>2, <1>3, <1>5
<1>7. ASSUME NEW j \in 1..(Len(q) - 1)
      PROVE  r[j] = q[IF j < i THEN j ELSE j + 1]
  <2>1. CASE j < i
    BY <1>1, <1>2, <1>5, <1>6, <2>1
  <2>2. CASE ~(j < i)
    <3>1. j - (i - 1) \in 1..(Len(q) - i) /\ i + (j - (i - 1)) = j + 1 /\ ~(j <= i - 1)
      BY <1>1, <2>2
    <3>2. r[j] = b[j - (i - 1)]
      BY <1>2, <1>5, <1>6, <3>1
    <3> QED
      BY <1>3, <2>2, <3>1, <3>2
  <2> QED
    BY <2>1, <2>2
<1>8. \A j \in 1..(Len(q) - 1) : From(i, j) \in 1..Len(q) /\ From(i, j) # i /\ r[j] = q[From(i, j)]
  BY <1>1, <1>7 DEF From
<1>9. /\ \A j, k \in 1..(Len(q) - 1) : From(i, j) <= From(i, k) => j <= k
      /\ \A j, k \in 1..(Len(q) - 1) : From(i, j) = From(i, k) => j = k
  BY <1>1 DEF From
<1>10. ASSUME NEW k \in 1..Len(q), k # i PROVE \E j \in 1..(Len(q) - 1) : From(i, j) = k /\ r[j] = q[k]
  <2>1. CASE k < i
    BY <1>1, <1>8, <2>1 DEF From
  <2>2. CASE k > i
    <3>1. k - 1 \in 1..(Len(q) - 1) /\ From(i, k - 1) = k
      BY <1>1, <2>2 DEF From
    <3> QED
      BY <1>8, <3>1
  <2> QED
    BY <1>1, <1>10, <2>1, <2>2
<1> QED
  BY <1>1, <1>4, <1>5, <1>6, <1>8, <1>9, <1>10 DEF Left

-----------------------------------------------------------------------------
(* The letters that were removed and not yet paid for: they are in worth,  *)
(* and in no object.                                                       *)
OwedIn(q) == Cardinality({i \in DOMAIN q : q[i].op = "Claimed" /\ q[i].removed})
Owing(job) == job.op = "Claimed" /\ job.removed
Owed == OwedIn(jobs)

LEMMA OwedType ==
  ASSUME NEW S, NEW q \in Seq(S)
  PROVE  OwedIn(q) \in Nat
<1>1. IsFiniteSet(DOMAIN q)
  BY FS_Interval
<1>2. IsFiniteSet({i \in DOMAIN q : q[i].op = "Claimed" /\ q[i].removed})
  BY <1>1, FS_Subset
<1> QED
  BY <1>2, FS_CardinalityType DEF OwedIn

LEMMA OwedNone ==
  ASSUME NEW S, NEW q \in Seq(S), \A i \in DOMAIN q : ~Owing(q[i])
  PROVE  OwedIn(q) = 0
  BY FS_EmptySet DEF OwedIn, Owing

LEMMA OwedAppended ==
  ASSUME NEW S, NEW q \in Seq(S), NEW x \in S
  PROVE  OwedIn(Append(q, x)) = IF Owing(x) THEN OwedIn(q) + 1 ELSE OwedIn(q)
<1> DEFINE r == Append(q, x)
           Old == {i \in DOMAIN q : q[i].op = "Claimed" /\ q[i].removed}
           New == {i \in DOMAIN r : r[i].op = "Claimed" /\ r[i].removed}
<1>1. /\ Len(q) \in Nat /\ DOMAIN q = 1..Len(q) /\ DOMAIN r = 1..(Len(q) + 1)
      /\ \A i \in 1..Len(q) : r[i] = q[i]
      /\ r[Len(q) + 1] = x
  BY Appended DEF Joined
<1>2. IsFiniteSet(Old)
  <2>1. IsFiniteSet(DOMAIN q)
    BY FS_Interval
  <2> QED
    BY <2>1, FS_Subset
<1>3. OwedIn(q) = Cardinality(Old) /\ OwedIn(r) = Cardinality(New)
  BY DEF OwedIn
<1> HIDE DEF r
<1>4. CASE Owing(x)
  <2>1. New = Old \cup {Len(q) + 1} /\ Len(q) + 1 \notin Old
    BY <1>1, <1>4 DEF Owing
  <2> HIDE DEF Old, New
  <2> QED
    BY <1>2, <1>3, <1>4, <2>1, FS_AddElement DEF r
<1>5. CASE ~Owing(x)
  <2>1. New = Old
    BY <1>1, <1>5 DEF Owing
  <2> QED
    BY <1>3, <1>5, <2>1 DEF r
<1> QED
  BY <1>4, <1>5

LEMMA OwedTail ==
  ASSUME NEW S, NEW q \in Seq(S), q # <<>>
  PROVE  OwedIn(Tail(q)) = IF Owing(Head(q)) THEN OwedIn(q) - 1 ELSE OwedIn(q)
<1> DEFINE r == Tail(q)
           Old == {i \in DOMAIN q : q[i].op = "Claimed" /\ q[i].removed}
           New == {i \in DOMAIN r : r[i].op = "Claimed" /\ r[i].removed}
           Moved == Old \ {1}
           f == [i \in New |-> i + 1]
<1>1. /\ Len(q) \in Nat \ {0} /\ DOMAIN q = 1..Len(q) /\ DOMAIN r = 1..(Len(q) - 1)
      /\ \A i \in 1..(Len(q) - 1) : r[i] = q[i + 1]
      /\ Head(q) = q[1]
  BY TailTaken DEF Taken
<1>2. OwedIn(q) = Cardinality(Old) /\ OwedIn(r) = Cardinality(New)
  BY DEF OwedIn
<1>3. IsFiniteSet(Old) /\ IsFiniteSet(New)
  <2>1. IsFiniteSet(1..Len(q)) /\ IsFiniteSet(1..(Len(q) - 1))
    BY <1>1, FS_Interval
  <2> QED
    BY <1>1, <2>1, FS_Subset
<1> HIDE DEF r
<1>4. f \in Bijection(New, Moved)
  <2>1. \A i \in New : i + 1 \in Moved
    BY <1>1
  <2>2. \A i \in New, j \in New : f[i] = f[j] => i = j
    BY <1>1
  <2>3. \A k \in Moved : \E i \in New : f[i] = k
    <3> TAKE k \in Moved
    <3>1. k - 1 \in New /\ (k - 1) + 1 = k
      BY <1>1
    <3> QED
      BY <3>1
  <2> HIDE DEF New, Moved
  <2> QED
    BY <2>1, <2>2, <2>3, Fun_IsBij
<1>5. Cardinality(Moved) = Cardinality(New)
  BY <1>3, <1>4, FS_Bijection DEF ExistsBijection
<1>6. CASE Owing(Head(q))
  <2>1. 1 \in Old
    BY <1>1, <1>6 DEF Owing
  <2> HIDE DEF Old, New
  <2>2. Cardinality(Moved) = Cardinality(Old) - 1
    BY <1>3, <2>1, FS_RemoveElement
  <2> QED
    BY <1>2, <1>5, <1>6, <2>2 DEF r
<1>7. CASE ~Owing(Head(q))
  <2>1. Moved = Old
    BY <1>1, <1>7 DEF Owing
  <2> QED
    BY <1>2, <1>5, <1>7, <2>1 DEF r
<1> QED
  BY <1>6, <1>7

-----------------------------------------------------------------------------
(* The invariant.                                                          *)

ToHandle == {"HandleAttack", "HandleCheckMailbox", "ProcessMailboxDB", "Claimed"}
Loading(job) == job.op \in {"Load", "Loaded"}
Live(s) == place[s] \in {"attached", "in"}

(* Until the first load ends there is nothing to keep.                     *)
Untouched ==
  worth = 0 =>
    /\ player = {} /\ inRoom = None
    /\ \A s \in Sessions : place[s] = "none" /\ acting[s] = "none"
    /\ \A i \in DOMAIN jobs : jobs[i].op = "AutoSave"
    /\ \A i \in DOMAIN dbJobs : dbJobs[i].op = "Load"

(* No copy of the gold, wherever it is, exceeds what was given and paid.   *)
Covered ==
  /\ row + Owed <= worth
  /\ worth = 0 \/ StartGold + Owed <= worth
  /\ \A s \in Sessions : gold[s] + Owed <= worth
  /\ \A i \in DOMAIN jobs : jobs[i].op = "Save" => jobs[i].gold + Owed <= worth
  /\ \A i \in DOMAIN dbJobs : dbJobs[i].op \in {"Loaded", "Write"} => dbJobs[i].gold + Owed <= worth

(* A session loads once, before it has an object.                          *)
LoadsOnce ==
  /\ \A i \in DOMAIN dbJobs : Loading(dbJobs[i]) =>
        dbJobs[i].who \in entered /\ place[dbJobs[i].who] = "none"
  /\ \A i, j \in DOMAIN dbJobs :
        Loading(dbJobs[i]) /\ Loading(dbJobs[j]) /\ dbJobs[i].who = dbJobs[j].who => i = j
  /\ \A s \in Sessions : place[s] # "none" => s \in entered

(* Who is told of what: handlers, and the jobs they and the room queue,    *)
(* are for objects that were let in.                                       *)
Told ==
  /\ \A s \in player : place[s] # "none"
  /\ \A s \in Sessions : acting[s] # "none" => place[s] \in {"in", "out"}
  /\ \A i \in DOMAIN jobs : jobs[i].op = "Enter" => place[jobs[i].who] # "none"
  /\ \A i \in DOMAIN jobs : jobs[i].op \in ToHandle \cup {"Leave"} => place[jobs[i].who] \in {"in", "out"}
  /\ \A i \in DOMAIN dbJobs : dbJobs[i].op = "Claim" => place[dbJobs[i].who] \in {"in", "out"}

(* One object at a time is loaded, on its way or in the room, and it has   *)
(* all that was given and paid.                                            *)
OneObject ==
  /\ \A s, t \in Sessions : Live(s) /\ Live(t) => s = t
  /\ \A i, j \in DOMAIN dbJobs : dbJobs[i].op = "Loaded" /\ dbJobs[j].op = "Loaded" => i = j
  /\ \A s \in Sessions, i \in DOMAIN dbJobs : ~(Live(s) /\ dbJobs[i].op = "Loaded")
  /\ \A s \in Sessions : Live(s) => gold[s] + Owed = worth
  /\ \A i \in DOMAIN dbJobs : dbJobs[i].op = "Loaded" => dbJobs[i].gold + Owed = worth

(* It is let in once and leaves once.                                      *)
InOnce ==
  /\ inRoom # None => place[inRoom] = "in"
  /\ \A s \in Sessions : place[s] = "in" => inRoom = s
  /\ \A i \in DOMAIN jobs : jobs[i].op = "Enter" => place[jobs[i].who] = "attached"
  /\ \A i, j \in DOMAIN jobs : jobs[i].op = "Enter" /\ jobs[j].op = "Enter" => i = j
  /\ \A i \in DOMAIN jobs : jobs[i].op = "Leave" => place[jobs[i].who] = "in" /\ jobs[i].who \notin player
  /\ \A i, j \in DOMAIN jobs : jobs[i].op = "Leave" /\ jobs[j].op = "Leave" => i = j

(* When there is none, the last copy that was made has it all: it is to be *)
(* handed over, to be written, or was written and not overwritten since.   *)
NoSave == \A i \in DOMAIN jobs : jobs[i].op # "Save"
LastSave(k) ==
  /\ jobs[k].op = "Save" /\ jobs[k].last /\ jobs[k].gold + Owed = worth
  /\ \A i \in DOMAIN jobs : jobs[i].op = "Save" => i <= k
LastWrite(k) ==
  /\ dbJobs[k].op = "Write" /\ dbJobs[k].last /\ ~dbJobs[k].passed /\ dbJobs[k].gold + Owed = worth
  /\ \A i \in DOMAIN dbJobs : dbJobs[i].op = "Write" => i <= k
SaveWaits == \E k \in DOMAIN jobs : LastSave(k)
WriteWaits == NoSave /\ \E k \in DOMAIN dbJobs : LastWrite(k)
Written ==
  /\ NoSave /\ row + Owed = worth
  /\ \A i \in DOMAIN dbJobs : dbJobs[i].op = "Write" => dbJobs[i].passed

Nobody ==
  /\ \A s \in Sessions : ~Live(s)
  /\ \A i \in DOMAIN dbJobs : dbJobs[i].op # "Loaded"
LastKept == Nobody => SaveWaits \/ WriteWaits \/ Written

Base == Untouched /\ Covered /\ LoadsOnce /\ Told
Kept == ~excused => OneObject /\ InOnce /\ LastKept
StoreInv == TypeOK /\ Base /\ Kept

(* What the fields of a job are.                                           *)
LEMMA JobFields ==
  ASSUME TypeOK
  PROVE  /\ \A i \in DOMAIN jobs : jobs[i] \in RoomJobs
         /\ \A i \in DOMAIN jobs : jobs[i].op \in ToHandle \cup {"Enter", "Leave"} => jobs[i].who \in Sessions
         /\ \A i \in DOMAIN jobs : jobs[i].op = "Claimed" => jobs[i].removed \in BOOLEAN
         /\ \A i \in DOMAIN jobs : jobs[i].op \in {"AutoSave", "Save"} => jobs[i].last \in BOOLEAN
         /\ \A i \in DOMAIN jobs : jobs[i].op = "Save" => jobs[i].gold \in Nat
         /\ \A i \in DOMAIN jobs : jobs[i].op \in ToHandle \cup {"Enter", "Leave", "AutoSave", "Save"}
<1>1. \A i \in DOMAIN jobs : jobs[i] \in RoomJobs
  BY DEF TypeOK
<1>2. ASSUME NEW job \in RoomJobs
      PROVE  /\ job.op \in ToHandle \cup {"Enter", "Leave"} => job.who \in Sessions
             /\ job.op = "Claimed" => job.removed \in BOOLEAN
             /\ job.op \in {"AutoSave", "Save"} => job.last \in BOOLEAN
             /\ job.op = "Save" => job.gold \in Nat
             /\ job.op \in ToHandle \cup {"Enter", "Leave", "AutoSave", "Save"}
  <2>1. CASE job \in [op : {"Enter", "Leave", "HandleAttack", "HandleCheckMailbox", "ProcessMailboxDB"},
                      who : Sessions]
    BY <2>1 DEF ToHandle
  <2>2. CASE job \in [op : {"Claimed"}, who : Sessions, removed : BOOLEAN]
    BY <2>2 DEF ToHandle
  <2>3. CASE job \in [op : {"AutoSave"}, last : BOOLEAN]
    BY <2>3 DEF ToHandle
  <2>4. CASE job \in [op : {"Save"}, gold : Nat, last : BOOLEAN]
    BY <2>4 DEF ToHandle
  <2> QED
    BY <2>1, <2>2, <2>3, <2>4 DEF RoomJobs
<1> QED
  BY <1>1, <1>2

LEMMA DbFields ==
  ASSUME TypeOK
  PROVE  /\ \A i \in DOMAIN dbJobs : dbJobs[i] \in DbJobs
         /\ \A i \in DOMAIN dbJobs : dbJobs[i].op \in {"Load", "Loaded", "Claim"} => dbJobs[i].who \in Sessions
         /\ \A i \in DOMAIN dbJobs : dbJobs[i].op \in {"Loaded", "Write"} => dbJobs[i].gold \in Nat
         /\ \A i \in DOMAIN dbJobs : dbJobs[i].op = "Write" => /\ dbJobs[i].last \in BOOLEAN
                                                               /\ dbJobs[i].passed \in BOOLEAN
<1>1. \A i \in DOMAIN dbJobs : dbJobs[i] \in DbJobs
  BY DEF TypeOK
<1>2. ASSUME NEW job \in DbJobs
      PROVE  /\ job.op \in {"Load", "Loaded", "Claim"} => job.who \in Sessions
             /\ job.op \in {"Loaded", "Write"} => job.gold \in Nat
             /\ job.op = "Write" => job.last \in BOOLEAN /\ job.passed \in BOOLEAN
  <2>1. CASE job \in [op : {"Load", "Claim"}, who : Sessions]
    BY <2>1
  <2>2. CASE job \in [op : {"Loaded"}, who : Sessions, gold : Nat]
    BY <2>2
  <2>3. CASE job \in [op : {"Write"}, gold : Nat, last : BOOLEAN, passed : BOOLEAN]
    BY <2>3
  <2> QED
    BY <2>1, <2>2, <2>3 DEF DbJobs
<1> QED
  BY <1>1, <1>2

LEMMA Shapes ==
  ASSUME TypeOK
  PROVE  /\ place \in [Sessions -> {"none", "attached", "in", "out"}] /\ gold \in [Sessions -> Nat]
         /\ acting \in [Sessions -> {"none", "HandleAttack", "HandleCheckMailbox"}]
         /\ entered \subseteq Sessions /\ closed \subseteq Sessions /\ player \subseteq Sessions
         /\ inRoom \in Sessions \cup {None} /\ None \notin Sessions
         /\ row \in Nat /\ worth \in Nat /\ excused \in BOOLEAN
         /\ gains \in 0..MaxGains /\ failures \in 0..MaxFailures /\ mails \in 0..MaxMails
  BY DEF TypeOK, None, Sessions

LEMMA OwedNat == TypeOK => Owed \in Nat
  BY OwedType DEF TypeOK, Owed

LEMMA StoreInit == Init => StoreInv
<1> SUFFICES ASSUME Init PROVE StoreInv
  OBVIOUS
<1> USE StoreAssumption DEF Init
<1>1. TypeOK
  <2>1. jobs \in Seq(RoomJobs) /\ dbJobs \in Seq(DbJobs)
    OBVIOUS
  <2>2. row \in Nat /\ worth \in Nat /\ mails \in 0..MaxMails
    OBVIOUS
  <2>3. gains \in 0..MaxGains /\ failures \in 0..MaxFailures
    OBVIOUS
  <2>4. /\ place \in [Sessions -> {"none", "attached", "in", "out"}] /\ gold \in [Sessions -> Nat]
        /\ acting \in [Sessions -> {"none", "HandleAttack", "HandleCheckMailbox"}]
    OBVIOUS
  <2> HIDE DEF Init
  <2>5. entered = {} /\ closed = {} /\ player = {} /\ inRoom = None
    BY DEF Init
  <2>6. timer = "armed" /\ server = "up" /\ excused = FALSE
    BY DEF Init
  <2> QED
    BY <2>1, <2>2, <2>3, <2>4, <2>5, <2>6 DEF TypeOK
<1>2. Owed = 0
  <2>1. jobs \in Seq(RoomJobs) /\ DOMAIN jobs = {}
    OBVIOUS
  <2> QED
    BY <2>1, OwedNone DEF Owed
<1>3. Base
  BY <1>2 DEF Base, Untouched, Covered, LoadsOnce, Told, None
<1>4. Kept
  BY <1>2 DEF Kept, OneObject, InOnce, LastKept, Nobody, Written, NoSave, Live, None
<1> QED
  BY <1>1, <1>3, <1>4 DEF StoreInv

-----------------------------------------------------------------------------
(* Packets.                                                                *)

(* C_ENTER_GAME: the session has not loaded before.                        *)
LEMMA EnterGameInv ==
  ASSUME StoreInv, NEW s \in Sessions, EnterGame(s)
  PROVE  StoreInv'
<1> DEFINE job == [op |-> "Load", who |-> s]
<1> USE DEF StoreInv, EnterGame, sessionVars, objectVars, roomVars
<1>1. job \in DbJobs
  BY DEF DbJobs
<1>2. dbJobs' \in Seq(DbJobs) /\ Joined(dbJobs, job, dbJobs')
  BY <1>1, Appended DEF TypeOK
<1>3. UNCHANGED <<row, mails, closed, player, acting, gains, place, gold, inRoom, jobs, timer, server,
                  worth, excused, failures>> /\ entered' = entered \cup {s} /\ s \notin entered
  OBVIOUS
<1>4. UNCHANGED Owed
  BY <1>3 DEF Owed
<1>5. job.op = "Load" /\ job.who = s
  OBVIOUS
<1> HIDE DEF job, EnterGame
<1> USE DEF Joined
<1>6. TypeOK'
  BY <1>2, <1>3 DEF TypeOK
<1>7. Untouched' /\ Covered' /\ Told'
  BY <1>2, <1>3, <1>4, <1>5 DEF Base, Untouched, Covered, Told
<1>8. LoadsOnce'
  <2>1. place[s] = "none" /\ \A i \in DOMAIN dbJobs : Loading(dbJobs[i]) => dbJobs[i].who # s
    BY <1>3 DEF Base, LoadsOnce
  <2> QED
    BY <1>2, <1>3, <1>5, <2>1 DEF Base, LoadsOnce
<1>9. ASSUME ~excused' PROVE OneObject' /\ InOnce' /\ LastKept'
  <2>1. OneObject /\ InOnce /\ LastKept
    BY <1>3, <1>9 DEF Kept
  <2>2. OneObject' /\ InOnce'
    BY <1>2, <1>3, <1>4, <1>5, <2>1 DEF OneObject, InOnce, Live
  <2>3. LastKept'
    BY <1>2, <1>3, <1>4, <1>5, <2>1
       DEF LastKept, Nobody, Live, SaveWaits, WriteWaits, Written, NoSave, LastSave, LastWrite
  <2> QED
    BY <2>2, <2>3
<1> QED
  BY <1>6, <1>7, <1>8, <1>9 DEF Base, Kept

(* C_ATTACK and C_CHECK_MAILBOX, of a session whose object is in the room. *)
LEMMA ReceiveInv ==
  ASSUME StoreInv, NEW s \in Sessions, NEW h \in {"HandleAttack", "HandleCheckMailbox"}, Receive(s, h)
  PROVE  StoreInv'
<1> USE DEF StoreInv, Receive, sessionVars, objectVars, roomVars
<1>1. /\ UNCHANGED <<row, mails, entered, closed, player, place, gold, inRoom, jobs, dbJobs, timer,
                     server, worth, excused, failures>>
      /\ acting' = [acting EXCEPT ![s] = h] /\ gains' = gains + 1 /\ gains < MaxGains
      /\ place[s] = "in" /\ s \in player
  OBVIOUS
<1>2. UNCHANGED Owed
  BY <1>1 DEF Owed
<1> HIDE DEF Receive
<1>3. TypeOK'
  BY <1>1, StoreAssumption DEF TypeOK
<1>4. Untouched' /\ Covered' /\ LoadsOnce' /\ Told'
  BY <1>1, <1>2, Shapes DEF Base, Untouched, Covered, LoadsOnce, Told
<1>5. Kept'
  BY <1>1, <1>2 DEF Kept, OneObject, InOnce, LastKept, Live, Nobody, SaveWaits, WriteWaits, Written,
                    NoSave, LastSave, LastWrite
<1> QED
  BY <1>3, <1>4, <1>5 DEF Base

(* A job that is no save and no Enter or Leave joins the room's queue.     *)
LEMMA PostHandlerInv ==
  ASSUME StoreInv, NEW s \in Sessions, PostHandler(s)
  PROVE  StoreInv'
<1> DEFINE job == [op |-> acting[s], who |-> s]
<1> USE DEF StoreInv, PostHandler, Post, sessionVars, objectVars, roomVars
<1>1. job \in RoomJobs /\ job.op \in {"HandleAttack", "HandleCheckMailbox"} /\ job.who = s
  BY DEF TypeOK, RoomJobs
<1>2. jobs' \in Seq(RoomJobs) /\ Joined(jobs, job, jobs')
  BY <1>1, Appended DEF TypeOK
<1>3. /\ UNCHANGED <<row, mails, entered, closed, player, gains, place, gold, inRoom, dbJobs, timer, server,
                     worth, excused, failures>>
      /\ acting' = [acting EXCEPT ![s] = "none"] /\ acting[s] # "none"
  OBVIOUS
<1>4. UNCHANGED Owed
  BY <1>1, <1>2, OwedAppended DEF TypeOK, Owed, Owing
<1> HIDE DEF job, PostHandler, Post
<1> USE DEF Joined
<1>5. TypeOK'
  BY <1>2, <1>3 DEF TypeOK
<1>6. Untouched' /\ Covered' /\ LoadsOnce'
  BY <1>1, <1>2, <1>3, <1>4, Shapes DEF Base, Untouched, Covered, LoadsOnce
<1>7. Told'
  BY <1>1, <1>2, <1>3, Shapes DEF Base, Told, ToHandle
<1>8. ASSUME ~excused' PROVE OneObject' /\ InOnce' /\ LastKept'
  <2>1. OneObject /\ InOnce /\ LastKept
    BY <1>3, <1>8 DEF Kept
  <2>2. OneObject' /\ InOnce'
    BY <1>1, <1>2, <1>3, <1>4, <2>1 DEF OneObject, InOnce, Live
  <2>3. LastKept'
    BY <1>1, <1>2, <1>3, <1>4, <2>1
       DEF LastKept, Nobody, Live, SaveWaits, WriteWaits, Written, NoSave, LastSave, LastWrite
  <2> QED
    BY <2>2, <2>3
<1> QED
  BY <1>5, <1>6, <1>7, <1>8 DEF Base, Kept

(* OnDisconnected, of a session without an object in the room.             *)
LEMMA DisconnectedOutsideInv ==
  ASSUME StoreInv, NEW s \in Sessions, OnDisconnected(s), ~(s \in player /\ place[s] = "in")
  PROVE  StoreInv'
<1> USE DEF StoreInv, OnDisconnected, objectVars, roomVars
<1>1. /\ UNCHANGED <<row, mails, entered, acting, gains, place, gold, inRoom, jobs, dbJobs, timer, server,
                     worth, excused, failures>>
      /\ closed' = closed \cup {s} /\ player' = player \ {s}
  OBVIOUS
<1>2. UNCHANGED Owed
  BY <1>1 DEF Owed
<1> HIDE DEF OnDisconnected
<1>3. TypeOK'
  BY <1>1 DEF TypeOK
<1>4. Untouched' /\ Covered' /\ LoadsOnce' /\ Told'
  BY <1>1, <1>2 DEF Base, Untouched, Covered, LoadsOnce, Told
<1>5. Kept'
  BY <1>1, <1>2 DEF Kept, OneObject, InOnce, LastKept, Live, Nobody, SaveWaits, WriteWaits, Written,
                    NoSave, LastSave, LastWrite
<1> QED
  BY <1>3, <1>4, <1>5 DEF Base

(* OnDisconnected, of a session whose object is in the room: the player of *)
(* another Leave has lost its session already, so that there is none.      *)
LEMMA DisconnectedInsideInv ==
  ASSUME StoreInv, NEW s \in Sessions, OnDisconnected(s), s \in player, place[s] = "in"
  PROVE  StoreInv'
<1> DEFINE job == [op |-> "Leave", who |-> s]
<1> USE DEF StoreInv, OnDisconnected, objectVars, roomVars
<1>1. job \in RoomJobs /\ job.op = "Leave" /\ job.who = s
  BY DEF RoomJobs
<1>2. jobs' \in Seq(RoomJobs) /\ Joined(jobs, job, jobs')
  BY <1>1, Appended DEF TypeOK
<1>3. /\ UNCHANGED <<row, mails, entered, acting, gains, place, gold, inRoom, dbJobs, timer, server,
                     worth, excused, failures>>
      /\ closed' = closed \cup {s} /\ player' = player \ {s}
  OBVIOUS
<1>4. UNCHANGED Owed
  BY <1>1, <1>2, OwedAppended DEF TypeOK, Owed, Owing
<1> HIDE DEF job, OnDisconnected
<1> USE DEF Joined
<1>5. TypeOK'
  BY <1>2, <1>3 DEF TypeOK
<1>6. Untouched' /\ Covered' /\ LoadsOnce'
  BY <1>1, <1>2, <1>3, <1>4, Shapes DEF Base, Untouched, Covered, LoadsOnce
<1>7. Told'
  <2>1. \A i \in DOMAIN jobs' : (i \in DOMAIN jobs /\ jobs'[i] = jobs[i]) \/ jobs'[i] = job
    BY <1>2
  <2>2. Told
    BY DEF Base
  <2> QED
    BY <1>1, <1>3, <2>1, <2>2 DEF Told
<1>8. ASSUME ~excused' PROVE OneObject' /\ InOnce' /\ LastKept'
  <2>1. OneObject /\ InOnce /\ LastKept
    BY <1>3, <1>8 DEF Kept
  <2>2. \A i \in DOMAIN jobs : jobs[i].op # "Leave"
    BY <2>1, JobFields DEF OneObject, InOnce, Live
  <2>3. OneObject'
    BY <1>3, <1>4, <2>1 DEF OneObject, Live
  <2>4. InOnce'
    BY <1>1, <1>2, <1>3, <2>1, <2>2 DEF InOnce
  <2>5. LastKept'
    BY <1>3 DEF LastKept, Nobody, Live
  <2> QED
    BY <2>3, <2>4, <2>5
<1> QED
  BY <1>5, <1>6, <1>7, <1>8 DEF Base, Kept

-----------------------------------------------------------------------------
(* The timer and the shutdown, which queue an AutoSave.                    *)
LEMMA TimerInv ==
  ASSUME StoreInv, Distribute \/ BroadcastAutoSave
  PROVE  StoreInv'
<1> USE DEF StoreInv, Distribute, BroadcastAutoSave, Post, sessionVars, objectVars
<1>1. PICK last \in BOOLEAN : jobs' = Append(jobs, [op |-> "AutoSave", last |-> last])
  OBVIOUS
<1> DEFINE job == [op |-> "AutoSave", last |-> last]
<1>2. job \in RoomJobs /\ job.op = "AutoSave"
  BY DEF RoomJobs
<1>3. jobs' \in Seq(RoomJobs) /\ Joined(jobs, job, jobs')
  BY <1>1, <1>2, Appended DEF TypeOK
<1>4. /\ UNCHANGED <<row, mails, entered, closed, player, acting, gains, place, gold, inRoom, dbJobs,
                     worth, excused, failures>>
      /\ timer' \in {timer, "queued"} /\ server' \in {server, "stopping"}
  OBVIOUS
<1>5. UNCHANGED Owed
  BY <1>1, <1>2, OwedAppended DEF TypeOK, Owed, Owing
<1> HIDE DEF job, Distribute, BroadcastAutoSave, Post
<1> USE DEF Joined
<1>6. TypeOK'
  BY <1>3, <1>4 DEF TypeOK
<1>7. Base'
  <2>1. Untouched' /\ LoadsOnce'
    BY <1>2, <1>3, <1>4 DEF Base, Untouched, LoadsOnce
  <2>2. Covered'
    BY <1>2, <1>3, <1>4, <1>5 DEF Base, Covered
  <2>3. Told'
    <3>1. job.op \notin ToHandle \cup {"Enter", "Leave"}
      BY <1>2 DEF ToHandle
    <3>2. \A i \in DOMAIN jobs' : jobs'[i].op \in ToHandle \cup {"Enter", "Leave"} =>
             i \in DOMAIN jobs /\ jobs'[i] = jobs[i]
      BY <1>3, <3>1
    <3>3. Told
      BY DEF Base
    <3> QED
      BY <1>4, <3>2, <3>3 DEF Told
  <2> QED
    BY <2>1, <2>2, <2>3 DEF Base
<1>8. ASSUME ~excused' PROVE OneObject' /\ InOnce' /\ LastKept'
  <2>1. OneObject /\ InOnce /\ LastKept
    BY <1>4, <1>8 DEF Kept
  <2>2. OneObject' /\ InOnce'
    BY <1>2, <1>3, <1>4, <1>5, <2>1 DEF OneObject, InOnce, Live
  <2>3. LastKept'
    BY <1>2, <1>3, <1>4, <1>5, <2>1
       DEF LastKept, Nobody, Live, SaveWaits, WriteWaits, Written, NoSave, LastSave, LastWrite
  <2> QED
    BY <2>2, <2>3
<1> QED
  BY <1>6, <1>7, <1>8 DEF Kept

-----------------------------------------------------------------------------
(* DB jobs that end.                                                       *)

(* LoadPlayerTask resumes: what was loaded becomes the object on its way   *)
(* to the room.                                                            *)
LEMMA AttachInv ==
  ASSUME StoreInv, NEW i \in 1..DbWorkers, Attach(i)
  PROVE  StoreInv'
<1> DEFINE s == dbJobs[i].who
           g == dbJobs[i].gold
           job == [op |-> "Enter", who |-> s]
           n == Len(dbJobs)
<1> USE DEF StoreInv, Attach, Finished, Running, Post, roomVars
<1>1. i \in DOMAIN dbJobs /\ dbJobs[i].op = "Loaded" /\ s \in Sessions /\ g \in Nat
  BY DbFields
<1>2. job \in RoomJobs /\ job.op = "Enter" /\ job.who = s
  BY <1>1 DEF RoomJobs
<1>3. jobs' \in Seq(RoomJobs) /\ Joined(jobs, job, jobs')
  BY <1>2, Appended DEF TypeOK
<1>4. dbJobs' \in Seq(DbJobs) /\ Left(dbJobs, i, dbJobs')
  BY <1>1, Removed DEF TypeOK
<1>5. /\ UNCHANGED <<row, mails, entered, closed, acting, gains, inRoom, timer, server,
                     worth, excused, failures>>
      /\ place' = [place EXCEPT ![s] = "attached"] /\ gold' = [gold EXCEPT ![s] = g]
      /\ player' = player \cup {s}
  OBVIOUS
<1>6. UNCHANGED Owed
  BY <1>2, <1>3, OwedAppended DEF TypeOK, Owed, Owing
<1>7. place[s] = "none" /\ s \in entered
  BY <1>1 DEF Base, LoadsOnce, Loading
<1> HIDE DEF s, g, job, n, Attach, Finished, Running, Post
<1> USE DEF Joined, Left
<1>8. TypeOK'
  BY <1>1, <1>3, <1>4, <1>5 DEF TypeOK
<1>9. Base'
  <2>1. Untouched'
    BY <1>1, <1>4, <1>5 DEF Base, Untouched
  <2>2. Covered'
    <3>1. g + Owed <= worth
      BY <1>1 DEF Base, Covered, g
    <3>2. \A t \in Sessions : gold'[t] + Owed <= worth
      BY <1>5, <3>1, Shapes DEF Base, Covered
    <3>3. \A j \in DOMAIN jobs' : jobs'[j].op = "Save" => jobs'[j].gold + Owed <= worth
      BY <1>2, <1>3 DEF Base, Covered
    <3>4. \A j \in DOMAIN dbJobs' : dbJobs'[j].op \in {"Loaded", "Write"} => dbJobs'[j].gold + Owed <= worth
      BY <1>4 DEF Base, Covered
    <3> QED
      BY <1>5, <1>6, <3>2, <3>3, <3>4 DEF Base, Covered
  <2>3. LoadsOnce'
    <3>1. \A j \in DOMAIN dbJobs : j # i /\ Loading(dbJobs[j]) => dbJobs[j].who # s
      BY <1>1 DEF Base, LoadsOnce, Loading, s
    <3> QED
      BY <1>1, <1>4, <1>5, <1>7, <3>1, Shapes DEF Base, LoadsOnce
  <2>4. Told'
    <3>1. place'[s] = "attached" /\ \A t \in Sessions \ {s} : place'[t] = place[t]
      BY <1>1, <1>5, Shapes
    <3>2. acting[s] = "none"
      BY <1>1, <1>7 DEF Base, Told
    <3>3. \A j \in DOMAIN jobs : jobs[j].op \in ToHandle \cup {"Enter", "Leave"} => jobs[j].who \in Sessions \ {s}
      BY <1>7, JobFields DEF Base, Told
    <3>4. \A j \in DOMAIN dbJobs : dbJobs[j].op = "Claim" => dbJobs[j].who \in Sessions \ {s}
      BY <1>7, DbFields DEF Base, Told
    <3>5. \A j \in DOMAIN jobs' :
            /\ jobs'[j].op = "Enter" => place'[jobs'[j].who] # "none"
            /\ jobs'[j].op \in ToHandle \cup {"Leave"} => place'[jobs'[j].who] \in {"in", "out"}
      <4>1. "Enter" \notin ToHandle \cup {"Leave"}
        BY DEF ToHandle
      <4> QED
        BY <1>2, <1>3, <3>1, <3>3, <4>1 DEF Base, Told
    <3>6. \A j \in DOMAIN dbJobs' : dbJobs'[j].op = "Claim" => place'[dbJobs'[j].who] \in {"in", "out"}
      BY <1>4, <3>1, <3>4 DEF Base, Told
    <3>7. /\ \A t \in player' : place'[t] # "none"
          /\ \A t \in Sessions : acting'[t] # "none" => place'[t] \in {"in", "out"}
      BY <1>5, <3>1, <3>2, Shapes DEF Base, Told
    <3> QED
      BY <3>5, <3>6, <3>7 DEF Told
  <2> QED
    BY <2>1, <2>2, <2>3, <2>4 DEF Base
<1>10. ASSUME ~excused' PROVE OneObject' /\ InOnce' /\ LastKept'
  <2>1. OneObject /\ InOnce /\ LastKept
    BY <1>5, <1>10 DEF Kept
  <2>2. /\ \A t \in Sessions : ~Live(t)
        /\ \A j \in DOMAIN dbJobs : dbJobs[j].op = "Loaded" => j = i
        /\ g + Owed = worth
    BY <1>1, <2>1 DEF OneObject, g
  <2>3. \A t \in Sessions : Live(t)' => t = s
    BY <1>5, <2>2, Shapes DEF Live
  <2>4. \A j \in DOMAIN dbJobs' : dbJobs'[j].op # "Loaded"
    BY <1>1, <1>4, <2>2
  <2>5. OneObject'
    BY <1>1, <1>5, <1>6, <2>2, <2>3, <2>4, Shapes DEF OneObject
  <2>6. \A j \in DOMAIN jobs : jobs[j].op \notin {"Enter", "Leave"}
    BY <2>1, <2>2, JobFields DEF InOnce, Live
  <2>7. InOnce'
    <3>1. place'[s] = "attached" /\ \A t \in Sessions \ {s} : place'[t] = place[t]
      BY <1>1, <1>5, Shapes
    <3>2. inRoom = None
      BY <2>1, <2>2, Shapes DEF InOnce, Live
    <3>3. \A t \in Sessions : place'[t] # "in"
      BY <2>2, <3>1 DEF Live
    <3>4. \A j \in DOMAIN jobs' : jobs'[j].op \in {"Enter", "Leave"} => j = Len(jobs) + 1
      BY <1>3, <2>6
    <3> QED
      BY <1>2, <1>3, <1>5, <3>1, <3>2, <3>3, <3>4 DEF InOnce
  <2>8. LastKept'
    BY <1>1, <1>5, Shapes DEF LastKept, Nobody, Live
  <2> QED
    BY <2>5, <2>7, <2>8
<1> QED
  BY <1>8, <1>9, <1>10 DEF Kept

(* A load or a claim that throws.                                          *)
LEMMA ThrowsInv ==
  ASSUME StoreInv, NEW i \in 1..DbWorkers, Throws(i)
  PROVE  StoreInv'
<1> DEFINE n == Len(dbJobs)
<1> USE DEF StoreInv, Throws, Finished, Running, Fails, sessionVars, objectVars, roomVars
<1>1. i \in DOMAIN dbJobs /\ dbJobs[i].op \in {"Load", "Claim"}
  OBVIOUS
<1>2. dbJobs' \in Seq(DbJobs) /\ Left(dbJobs, i, dbJobs')
  BY <1>1, Removed DEF TypeOK
<1>3. /\ UNCHANGED <<row, mails, entered, closed, player, acting, gains, place, gold, inRoom, jobs, timer,
                     server, worth, excused>>
      /\ failures' = failures + 1 /\ failures + 1 <= MaxFailures
  OBVIOUS
<1>4. UNCHANGED Owed
  BY <1>3 DEF Owed
<1> HIDE DEF n, Throws, Finished, Running, Fails
<1> USE DEF Left
<1>5. TypeOK'
  BY <1>2, <1>3 DEF TypeOK
<1>6. Base'
  <2>1. Untouched' /\ Covered'
    BY <1>1, <1>2, <1>3, <1>4 DEF Base, Untouched, Covered
  <2>2. LoadsOnce'
    BY <1>1, <1>2, <1>3 DEF Base, LoadsOnce
  <2>3. Told'
    BY <1>1, <1>2, <1>3 DEF Base, Told
  <2> QED
    BY <2>1, <2>2, <2>3 DEF Base
<1>7. ASSUME ~excused' PROVE OneObject' /\ InOnce' /\ LastKept'
  <2>1. OneObject /\ InOnce /\ LastKept
    BY <1>3, <1>7 DEF Kept
  <2>2. OneObject'
    BY <1>1, <1>2, <1>3, <1>4, <2>1 DEF OneObject, Live
  <2>3. InOnce'
    BY <1>3, <2>1 DEF InOnce
  <2>4. Nobody' => Nobody
    BY <1>1, <1>2, <1>3 DEF Nobody, Live
  <2>5. SaveWaits => SaveWaits'
    BY <1>3, <1>4 DEF SaveWaits, LastSave
  <2>6. ASSUME WriteWaits PROVE WriteWaits'
    <3>1. NoSave'
      BY <1>3, <2>6 DEF WriteWaits, NoSave
    <3>2. PICK k \in DOMAIN dbJobs : LastWrite(k)
      BY <2>6 DEF WriteWaits
    <3>3. k # i
      BY <1>1, <3>2 DEF LastWrite
    <3>4. PICK m \in DOMAIN dbJobs' : From(i, m) = k /\ dbJobs'[m] = dbJobs[k]
      BY <1>1, <1>2, <3>3
    <3>5. \A j \in DOMAIN dbJobs' : dbJobs'[j].op = "Write" => j <= m
      BY <1>1, <1>2, <3>2, <3>4 DEF LastWrite
    <3>6. LastWrite(m)'
      BY <1>3, <1>4, <3>2, <3>4, <3>5 DEF LastWrite
    <3> QED
      BY <3>1, <3>4, <3>6 DEF WriteWaits
  <2>7. Written => Written'
    BY <1>1, <1>2, <1>3, <1>4 DEF Written, NoSave
  <2> QED
    BY <2>1, <2>2, <2>3, <2>4, <2>5, <2>6, <2>7 DEF LastKept
<1> QED
  BY <1>5, <1>6, <1>7 DEF Kept

(* The query of LoadPlayerTask ends.  What counts as found, or as new, is  *)
(* all that was given, since nobody else plays and nothing is to be        *)
(* written.                                                                *)
LEMMA LoadInv ==
  ASSUME StoreInv, NEW i \in 1..DbWorkers, NEW found \in BOOLEAN, NEW inserted \in BOOLEAN,
         Load(i, found, inserted)
  PROVE  StoreInv'
<1> DEFINE s == dbJobs[i].who
           g == IF found THEN row ELSE StartGold
           new == [op |-> "Loaded", who |-> s, gold |-> g]
<1> USE StoreAssumption DEF StoreInv, Load, Running, Fails, Excuse, sessionVars, objectVars, roomVars
<1>1. i \in DOMAIN dbJobs /\ dbJobs[i].op = "Load" /\ s \in Sessions
  BY DbFields
<1>2. g \in Nat /\ StartGold \in Nat \ {0} /\ row \in Nat /\ worth \in Nat
  BY Shapes
<1>3. new \in DbJobs /\ new.op = "Loaded" /\ new.who = s /\ new.gold = g
  BY <1>1, <1>2 DEF DbJobs
<1>4. dbJobs' \in Seq(DbJobs)
  BY <1>1, <1>3 DEF TypeOK
<1>5. /\ DOMAIN dbJobs' = DOMAIN dbJobs /\ dbJobs'[i] = new
      /\ \A j \in DOMAIN dbJobs : j # i => dbJobs'[j] = dbJobs[j]
  BY <1>1 DEF TypeOK
<1>6. /\ UNCHANGED <<mails, entered, closed, player, acting, gains, place, gold, inRoom, jobs, timer, server>>
      /\ row' = (IF inserted THEN StartGold ELSE row)
      /\ worth' = (IF worth = 0 THEN StartGold ELSE worth)
      /\ excused' = (excused \/ Overlaps(s) \/ (~found /\ row > 0))
      /\ (found => row > 0) /\ (inserted => ~found /\ row = 0)
  OBVIOUS
<1>7. failures' \in 0..MaxFailures
  BY Shapes
<1>8. Owed \in Nat /\ UNCHANGED Owed
  BY <1>6, OwedNat DEF Owed
<1>9. /\ worth' \in Nat \ {0} /\ worth <= worth' /\ g + Owed <= worth' /\ row' + Owed <= worth'
      /\ StartGold + Owed <= worth'
  BY <1>2, <1>6, <1>8 DEF Base, Covered
<1> HIDE DEF s, g, new, Load, Running, Fails, Excuse
<1>10. TypeOK'
  <2>1. excused' \in BOOLEAN
    BY <1>6, Shapes
  <2> QED
    BY <1>2, <1>4, <1>6, <1>7, <1>9, <2>1 DEF TypeOK
<1>11. Base'
  <2>1. Untouched'
    BY <1>9 DEF Untouched
  <2>2. Covered'
    <3>1. \A t \in Sessions : gold'[t] + Owed <= worth'
      BY <1>2, <1>6, <1>8, <1>9, Shapes DEF Base, Covered
    <3>2. \A j \in DOMAIN jobs' : jobs'[j].op = "Save" => jobs'[j].gold + Owed <= worth'
      BY <1>2, <1>6, <1>8, <1>9, JobFields DEF Base, Covered
    <3>3. \A j \in DOMAIN dbJobs' : dbJobs'[j].op \in {"Loaded", "Write"} => dbJobs'[j].gold + Owed <= worth'
      BY <1>2, <1>3, <1>5, <1>8, <1>9, DbFields DEF Base, Covered
    <3> QED
      BY <1>8, <1>9, <3>1, <3>2, <3>3 DEF Covered
  <2>3. LoadsOnce'
    BY <1>1, <1>3, <1>5, <1>6 DEF Base, LoadsOnce, Loading, s
  <2>4. Told'
    BY <1>1, <1>3, <1>5, <1>6 DEF Base, Told
  <2> QED
    BY <2>1, <2>2, <2>3, <2>4 DEF Base
<1>12. ASSUME ~excused' PROVE OneObject' /\ InOnce' /\ LastKept'
  <2>1. OneObject /\ InOnce /\ LastKept
    BY <1>6, <1>12 DEF Kept
  <2>2. ~Overlaps(s) /\ (found \/ row = 0)
    <3>1. ~(excused \/ Overlaps(s) \/ (~found /\ row > 0))
      BY <1>6, <1>12, Zenon
    <3> QED
      BY <1>2, <3>1
  <2>3. \A t \in Sessions : ~Live(t)
    BY <1>1, <2>2 DEF Base, LoadsOnce, Loading, Overlaps, Live, s
  <2>4. NoSave /\ \A j \in DOMAIN dbJobs : dbJobs[j].op \notin {"Write", "Loaded"}
    BY <2>2 DEF NoSave, Overlaps, JobsOf
  <2>5. row + Owed = worth
    BY <2>1, <2>3, <2>4 DEF LastKept, Nobody, SaveWaits, NoSave, LastSave, WriteWaits, LastWrite, Written
  <2>6. g + Owed = worth'
    BY <1>2, <1>6, <1>8, <2>2, <2>5 DEF Base, Covered, g
  <2>7. OneObject'
    BY <1>3, <1>5, <1>6, <1>8, <2>3, <2>4, <2>6 DEF OneObject, Live
  <2>8. InOnce'
    BY <1>6, <2>1 DEF InOnce
  <2>9. LastKept'
    BY <1>1, <1>3, <1>5 DEF LastKept, Nobody
  <2> QED
    BY <2>7, <2>8, <2>9
<1> QED
  BY <1>10, <1>11, <1>12 DEF Kept

(* The UPSERT of SavePlayerToDB.  While nobody plays, the last copy is     *)
(* written, or one before it that it will overwrite, or one that was       *)
(* passed and says the same.                                               *)
LEMMA WriteInv ==
  ASSUME StoreInv, NEW i \in 1..DbWorkers, NEW ok \in BOOLEAN, Write(i, ok)
  PROVE  StoreInv'
<1> DEFINE job == dbJobs[i]
           Overtaken(j) == ok /\ j < i /\ dbJobs[j].op = "Write"
           mid == [j \in DOMAIN dbJobs |->
                     IF Overtaken(j) THEN [dbJobs[j] EXCEPT !.passed = TRUE] ELSE dbJobs[j]]
<1> USE DEF StoreInv, Write, Running, Fails, Excuse, sessionVars, objectVars, roomVars
<1>1. i \in DOMAIN dbJobs /\ job.op = "Write" /\ job.gold \in Nat /\ job.last \in BOOLEAN /\ job.passed \in BOOLEAN
  BY DbFields
<1>2. /\ UNCHANGED <<mails, entered, closed, player, acting, gains, place, gold, inRoom, jobs, timer, server, worth>>
      /\ row' = (IF ok THEN job.gold ELSE row)
      /\ excused' = (excused \/ (~ok /\ job.last) \/ (ok /\ job.passed /\ job.gold < row))
      /\ dbJobs' = RemoveAt(mid, i)
  OBVIOUS
<1>3. failures' \in 0..MaxFailures
  BY StoreAssumption, Shapes
<1> HIDE DEF Write, Running, Fails, Excuse
<1>4. ASSUME NEW j \in DOMAIN dbJobs
      PROVE  /\ mid[j] \in DbJobs /\ mid[j].op = dbJobs[j].op
             /\ dbJobs[j].op \in {"Load", "Loaded", "Claim"} => mid[j] = dbJobs[j]
             /\ dbJobs[j].op = "Write" => /\ mid[j].gold = dbJobs[j].gold
                                          /\ dbJobs[j].passed => mid[j].passed
                                          /\ ok /\ j < i => mid[j].passed
             /\ ~(ok /\ j < i) => mid[j] = dbJobs[j]
  <2>1. dbJobs[j] \in DbJobs
    BY DbFields
  <2>2. CASE Overtaken(j)
    <3>1. dbJobs[j] \in [op : {"Write"}, gold : Nat, last : BOOLEAN, passed : BOOLEAN]
      BY <2>1, <2>2 DEF DbJobs
    <3>2. mid[j] = [dbJobs[j] EXCEPT !.passed = TRUE]
      BY <2>2
    <3> HIDE DEF mid
    <3>3. /\ mid[j] \in [op : {"Write"}, gold : Nat, last : BOOLEAN, passed : BOOLEAN]
          /\ mid[j].gold = dbJobs[j].gold /\ mid[j].passed
      BY <3>1, <3>2
    <3> QED
      BY <2>2, <3>1, <3>3 DEF DbJobs
  <2>3. CASE ~Overtaken(j)
    <3>1. mid[j] = dbJobs[j]
      BY <2>3
    <3> HIDE DEF mid
    <3> QED
      BY <2>1, <2>3, <3>1
  <2> QED
    BY <2>2, <2>3
<1>5. mid \in Seq(DbJobs) /\ DOMAIN mid = DOMAIN dbJobs
  <2>1. /\ DOMAIN dbJobs = 1..Len(dbJobs) /\ Len(dbJobs) \in Nat /\ DOMAIN mid = DOMAIN dbJobs
        /\ mid = [j \in 1..Len(dbJobs) |-> mid[j]]
    BY DEF TypeOK
  <2> HIDE DEF mid
  <2> QED
    BY <1>4, <2>1
<1> HIDE DEF Overtaken, mid
<1>6. dbJobs' \in Seq(DbJobs) /\ Left(mid, i, dbJobs')
  BY <1>1, <1>2, <1>5, Removed
<1> USE DEF Left
<1>7. Owed \in Nat /\ UNCHANGED Owed
  BY <1>2, OwedNat DEF Owed
<1>8. row' \in Nat /\ row' + Owed <= worth /\ worth \in Nat /\ row \in Nat
  BY <1>1, <1>2, Shapes DEF Base, Covered
<1>9. TypeOK'
  <2>1. excused' \in BOOLEAN
    BY <1>1, <1>2, Shapes
  <2> QED
    BY <1>2, <1>3, <1>6, <1>8, <2>1 DEF TypeOK
<1>10. \A j \in DOMAIN dbJobs' :
         /\ From(i, j) \in DOMAIN dbJobs /\ dbJobs'[j].op = dbJobs[From(i, j)].op
         /\ dbJobs'[j].op \in {"Load", "Loaded", "Claim"} => dbJobs'[j] = dbJobs[From(i, j)]
         /\ dbJobs'[j].op = "Write" => /\ dbJobs'[j].gold = dbJobs[From(i, j)].gold
                                       /\ dbJobs[From(i, j)].passed => dbJobs'[j].passed
                                       /\ ok /\ From(i, j) < i => dbJobs'[j].passed
  BY <1>4, <1>5, <1>6
<1>11. Base'
  <2>1. Untouched'
    BY <1>1, <1>2, <1>10 DEF Base, Untouched
  <2>2. Covered'
    BY <1>2, <1>7, <1>8, <1>10 DEF Base, Covered
  <2>3. LoadsOnce'
    BY <1>2, <1>6, <1>10 DEF Base, LoadsOnce, Loading
  <2>4. Told'
    BY <1>2, <1>10 DEF Base, Told
  <2> QED
    BY <2>1, <2>2, <2>3, <2>4 DEF Base
<1>12. ASSUME ~excused' PROVE OneObject' /\ InOnce' /\ LastKept'
  <2>1. OneObject /\ InOnce /\ LastKept
    BY <1>2, <1>12 DEF Kept
  <2>2. OneObject'
    BY <1>2, <1>6, <1>7, <1>10, <2>1 DEF OneObject, Live
  <2>3. InOnce'
    BY <1>2, <2>1 DEF InOnce
  <2>4. Nobody' => Nobody
    BY <1>1, <1>2, <1>4, <1>5, <1>6 DEF Nobody, Live
  <2>5. SaveWaits => SaveWaits'
    BY <1>2, <1>7 DEF SaveWaits, LastSave
  <2>6. ASSUME WriteWaits PROVE WriteWaits' \/ Written'
    <3>1. NoSave'
      BY <1>2, <2>6 DEF WriteWaits, NoSave
    <3>2. PICK k \in DOMAIN dbJobs : LastWrite(k)
      BY <2>6 DEF WriteWaits
    <3>3. CASE k = i
      <4>1. ok /\ row' + Owed = worth
        BY <1>2, <1>12, <3>2, <3>3 DEF LastWrite
      <4>2. \A j \in DOMAIN dbJobs' : dbJobs'[j].op = "Write" => dbJobs'[j].passed
        BY <1>1, <1>5, <1>6, <1>10, <3>2, <3>3, <4>1 DEF LastWrite
      <4> QED
        BY <1>2, <1>7, <3>1, <4>1, <4>2 DEF Written
    <3>4. CASE k # i
      <4>1. i < k
        BY <1>1, <1>5, <1>6, <3>2, <3>4 DEF LastWrite
      <4>2. PICK m \in DOMAIN dbJobs' : From(i, m) = k /\ dbJobs'[m] = mid[k]
        BY <1>5, <1>6, <3>4
      <4>3. mid[k] = dbJobs[k]
        BY <1>1, <1>4, <1>5, <1>6, <4>1
      <4>4. \A j \in DOMAIN dbJobs' : dbJobs'[j].op = "Write" => j <= m
        BY <1>6, <1>10, <3>2, <4>2 DEF LastWrite
      <4>5. LastWrite(m)'
        BY <1>2, <1>7, <3>2, <4>2, <4>3, <4>4 DEF LastWrite
      <4> QED
        BY <3>1, <4>2, <4>5 DEF WriteWaits
    <3> QED
      BY <3>3, <3>4
  <2>7. ASSUME Written PROVE Written'
    <3>1. NoSave' /\ \A j \in DOMAIN dbJobs' : dbJobs'[j].op = "Write" => dbJobs'[j].passed
      BY <1>2, <1>10, <2>7 DEF Written, NoSave
    <3>2. row' = row
      <4>1. job.gold + Owed <= row + Owed /\ job.passed
        BY <1>1, <2>7 DEF Written, Base, Covered
      <4> QED
        BY <1>1, <1>2, <1>7, <1>8, <1>12, <4>1
    <3> QED
      BY <1>2, <1>7, <2>7, <3>1, <3>2 DEF Written
  <2> QED
    BY <2>1, <2>2, <2>3, <2>4, <2>5, <2>6, <2>7 DEF LastKept
<1> QED
  BY <1>9, <1>11, <1>12 DEF Kept

(* The DELETE of ProcessMailboxDB: a letter that was removed is owed until *)
(* the coroutine resumes in the room.                                      *)
LEMMA ClaimInv ==
  ASSUME StoreInv, NEW i \in 1..DbWorkers, NEW ok \in BOOLEAN, Claim(i, ok)
  PROVE  StoreInv'
<1> DEFINE s == dbJobs[i].who
           removed == ok /\ mails > 0
           job == [op |-> "Claimed", who |-> s, removed |-> removed]
<1> USE DEF StoreInv, Claim, Finished, Running, Fails, Post, sessionVars, objectVars, roomVars
<1>1. i \in DOMAIN dbJobs /\ dbJobs[i].op = "Claim" /\ s \in Sessions
  BY DbFields
<1>2. job \in RoomJobs /\ job.op = "Claimed" /\ job.who = s /\ job.removed = removed /\ removed \in BOOLEAN
  BY <1>1 DEF RoomJobs
<1>3. jobs' = Append(jobs, job) /\ jobs' \in Seq(RoomJobs) /\ Joined(jobs, job, jobs')
  BY <1>2, Appended DEF TypeOK
<1>4. dbJobs' \in Seq(DbJobs) /\ Left(dbJobs, i, dbJobs')
  BY <1>1, Removed DEF TypeOK
<1>5. /\ UNCHANGED <<row, entered, closed, player, acting, gains, place, gold, inRoom, timer, server, excused>>
      /\ worth' = (IF removed THEN worth + 1 ELSE worth)
  OBVIOUS
<1>6. mails' \in 0..MaxMails /\ failures' \in 0..MaxFailures
  <2>1. mails \in 0..MaxMails /\ failures \in 0..MaxFailures /\ MaxMails \in Nat /\ MaxFailures \in Nat
    BY StoreAssumption, Shapes
  <2>2. mails' = (IF removed THEN mails - 1 ELSE mails) /\ (removed => mails > 0)
    OBVIOUS
  <2>3. failures' = failures + (IF ok THEN 0 ELSE 1) /\ failures + (IF ok THEN 0 ELSE 1) <= MaxFailures
    OBVIOUS
  <2> HIDE DEF removed, job, Claim, Finished, Running, Fails, Post
  <2> QED
    BY <2>1, <2>2, <2>3
<1>7. Owed' = IF removed THEN Owed + 1 ELSE Owed
  <2> HIDE DEF removed, job, Claim, Finished, Running, Fails, Post
  <2>1. Owing(job) <=> removed
    BY <1>2 DEF Owing
  <2>2. Owed' = IF Owing(job) THEN Owed + 1 ELSE Owed
    BY <1>2, <1>3, OwedAppended DEF TypeOK, Owed
  <2> QED
    BY <2>1, <2>2
<1>8. worth # 0 /\ worth \in Nat /\ Owed \in Nat
  BY <1>1, OwedNat, Shapes DEF Base, Untouched
<1>9. worth' \in Nat \ {0} /\ \A x \in Nat : /\ x + Owed <= worth <=> x + Owed' <= worth'
                                             /\ x + Owed = worth <=> x + Owed' = worth'
  BY <1>5, <1>7, <1>8
<1>10. place[s] \in {"in", "out"}
  BY <1>1 DEF Base, Told
<1> HIDE DEF s, removed, job, Claim, Finished, Running, Fails, Post
<1> USE DEF Joined, Left
<1>11. TypeOK'
  BY <1>3, <1>4, <1>5, <1>6, <1>9 DEF TypeOK
<1>12. Base'
  <2>1. Untouched'
    BY <1>9 DEF Untouched
  <2>2. Covered'
    <3>1. row' + Owed' <= worth' /\ StartGold + Owed' <= worth'
      BY <1>5, <1>8, <1>9, Shapes, StoreAssumption DEF Base, Covered
    <3>2. \A t \in Sessions : gold'[t] + Owed' <= worth'
      BY <1>5, <1>9, Shapes DEF Base, Covered
    <3>3. \A j \in DOMAIN jobs' : jobs'[j].op = "Save" => jobs'[j].gold + Owed' <= worth'
      BY <1>2, <1>3, <1>9, JobFields DEF Base, Covered
    <3>4. \A j \in DOMAIN dbJobs' : dbJobs'[j].op \in {"Loaded", "Write"} => dbJobs'[j].gold + Owed' <= worth'
      BY <1>4, <1>9, DbFields DEF Base, Covered
    <3> QED
      BY <3>1, <3>2, <3>3, <3>4 DEF Covered
  <2>3. LoadsOnce'
    BY <1>4, <1>5 DEF Base, LoadsOnce
  <2>4. Told'
    <3>1. \A j \in DOMAIN jobs' : (j \in DOMAIN jobs /\ jobs'[j] = jobs[j]) \/ jobs'[j] = job
      BY <1>3
    <3>2. Told
      BY DEF Base
    <3> QED
      BY <1>2, <1>4, <1>5, <1>10, <3>1, <3>2 DEF Told
  <2> QED
    BY <2>1, <2>2, <2>3, <2>4 DEF Base
<1>13. ASSUME ~excused' PROVE OneObject' /\ InOnce' /\ LastKept'
  <2>1. OneObject /\ InOnce /\ LastKept
    BY <1>5, <1>13 DEF Kept
  <2>2. OneObject'
    <3>1. \A t \in Sessions : Live(t) => gold[t] + Owed' = worth'
      BY <1>9, <2>1, Shapes DEF OneObject
    <3>2. \A j \in DOMAIN dbJobs : dbJobs[j].op = "Loaded" => dbJobs[j].gold + Owed' = worth'
      BY <1>9, <2>1, DbFields DEF OneObject
    <3> QED
      BY <1>4, <1>5, <2>1, <3>1, <3>2 DEF OneObject, Live
  <2>3. InOnce'
    BY <1>2, <1>3, <1>5, <2>1 DEF InOnce
  <2>4. Nobody' => Nobody
    BY <1>1, <1>4, <1>5 DEF Nobody, Live
  <2>5. NoSave => NoSave'
    BY <1>2, <1>3 DEF NoSave
  <2>6. SaveWaits => SaveWaits'
    <3> SUFFICES ASSUME NEW k \in DOMAIN jobs, LastSave(k) PROVE SaveWaits'
      BY DEF SaveWaits
    <3>1. k \in DOMAIN jobs' /\ jobs'[k] = jobs[k] /\ jobs[k].gold + Owed' = worth'
      BY <1>3, <1>9, JobFields DEF LastSave
    <3>2. \A j \in DOMAIN jobs' : jobs'[j].op = "Save" => j <= k
      BY <1>2, <1>3 DEF LastSave
    <3> QED
      BY <3>1, <3>2 DEF SaveWaits, LastSave
  <2>7. ASSUME WriteWaits PROVE WriteWaits'
    <3>1. PICK k \in DOMAIN dbJobs : LastWrite(k)
      BY <2>7 DEF WriteWaits
    <3>2. PICK m \in DOMAIN dbJobs' : From(i, m) = k /\ dbJobs'[m] = dbJobs[k]
      BY <1>1, <1>4, <3>1 DEF LastWrite
    <3>3. \A j \in DOMAIN dbJobs' : dbJobs'[j].op = "Write" => j <= m
      BY <1>4, <3>1, <3>2 DEF LastWrite
    <3>4. dbJobs'[m].gold + Owed' = worth'
      BY <1>9, <3>1, <3>2, DbFields DEF LastWrite
    <3>5. LastWrite(m)'
      BY <3>1, <3>2, <3>3, <3>4 DEF LastWrite
    <3> QED
      BY <2>5, <2>7, <3>2, <3>5 DEF WriteWaits
  <2>8. ASSUME Written PROVE Written'
    <3>1. row' + Owed' = worth'
      BY <1>5, <1>9, <2>8, Shapes DEF Written
    <3> QED
      BY <1>4, <2>5, <2>8, <3>1 DEF Written
  <2> QED
    BY <2>1, <2>2, <2>3, <2>4, <2>6, <2>7, <2>8 DEF LastKept
<1> QED
  BY <1>11, <1>12, <1>13 DEF Kept

-----------------------------------------------------------------------------
(* The room's jobs.                                                        *)

LEMMA OwedTaken ==
  ASSUME TypeOK, jobs # <<>>, ~Owing(Head(jobs))
  PROVE  /\ OwedIn(Tail(jobs)) = Owed
         /\ \A x \in RoomJobs : ~Owing(x) => OwedIn(Append(Tail(jobs), x)) = Owed
<1>1. jobs \in Seq(RoomJobs) /\ Tail(jobs) \in Seq(RoomJobs)
  BY TailTaken DEF TypeOK
<1>2. OwedIn(Tail(jobs)) = Owed
  BY <1>1, OwedTail DEF Owed
<1>3. ASSUME NEW x \in RoomJobs, ~Owing(x) PROVE OwedIn(Append(Tail(jobs), x)) = Owed
  BY <1>1, <1>2, <1>3, OwedAppended
<1> QED
  BY <1>2, <1>3

(* GameRoom::Enter: no other job to enter or to leave waits.               *)
LEMMA EnterInv ==
  ASSUME StoreInv, Enter
  PROVE  StoreInv'
<1> DEFINE s == jobs[1].who
<1> USE DEF StoreInv, Enter, Job, Who, Done, Excuse, sessionVars, roomVars
<1>1. jobs # <<>> /\ jobs' = Tail(jobs) /\ jobs' \in Seq(RoomJobs) /\ Taken(jobs, jobs')
  BY TailTaken DEF TypeOK
<1>2. jobs[1].op = "Enter" /\ s \in Sessions /\ s # None /\ Head(jobs) = jobs[1]
  BY <1>1, JobFields, Shapes DEF Taken
<1>3. /\ UNCHANGED <<row, mails, entered, closed, player, acting, gains, gold, dbJobs, timer, server, worth, failures>>
      /\ inRoom' = s /\ place' = [place EXCEPT ![s] = "in"]
      /\ excused' = (excused \/ (server = "saved" /\ gold[s] > row))
  BY <1>2
<1>4. UNCHANGED Owed
  BY <1>1, <1>2, OwedTaken DEF Owed, Owing
<1>5. place'[s] = "in" /\ \A t \in Sessions \ {s} : place'[t] = place[t]
  BY <1>2, <1>3, Shapes
<1>6. place[s] # "none"
  BY <1>1, <1>2 DEF Base, Told, Taken
<1> HIDE DEF s, Enter, Job, Who, Done, Excuse
<1> USE DEF Taken
<1>7. TypeOK'
  <2>1. excused' \in BOOLEAN
    BY <1>3, Shapes
  <2> QED
    BY <1>1, <1>2, <1>3, <2>1 DEF TypeOK
<1>8. Base'
  <2>1. Untouched'
    BY <1>1, <1>2, <1>3 DEF Base, Untouched
  <2>2. Covered'
    BY <1>1, <1>3, <1>4 DEF Base, Covered
  <2>3. LoadsOnce'
    BY <1>2, <1>3, <1>5, <1>6, DbFields DEF Base, LoadsOnce, Loading
  <2>4. Told'
    <3>1. /\ \A t \in player' : place'[t] # "none"
          /\ \A t \in Sessions : acting'[t] # "none" => place'[t] \in {"in", "out"}
      BY <1>3, <1>5, Shapes DEF Base, Told
    <3>2. \A i \in DOMAIN jobs' :
            /\ jobs'[i].op = "Enter" => place'[jobs'[i].who] # "none"
            /\ jobs'[i].op \in ToHandle \cup {"Leave"} => place'[jobs'[i].who] \in {"in", "out"}
      BY <1>1, <1>5, JobFields DEF Base, Told
    <3>3. \A i \in DOMAIN dbJobs' : dbJobs'[i].op = "Claim" => place'[dbJobs'[i].who] \in {"in", "out"}
      BY <1>3, <1>5, DbFields DEF Base, Told
    <3> QED
      BY <3>1, <3>2, <3>3 DEF Told
  <2> QED
    BY <2>1, <2>2, <2>3, <2>4 DEF Base
<1>9. ASSUME ~excused' PROVE OneObject' /\ InOnce' /\ LastKept'
  <2>1. OneObject /\ InOnce /\ LastKept
    BY <1>3, <1>9 DEF Kept
  <2>2. place[s] = "attached" /\ \A t \in Sessions : Live(t) => t = s
    BY <1>1, <1>2, <2>1 DEF InOnce, OneObject, Live, s
  <2>3. OneObject'
    BY <1>2, <1>3, <1>4, <1>5, <2>1, <2>2 DEF OneObject, Live
  <2>4. \A i \in DOMAIN jobs' : jobs'[i].op \notin {"Enter", "Leave"}
    <3>1. \A i \in DOMAIN jobs : jobs[i].op = "Enter" => i = 1
      BY <1>1, <1>2, <2>1 DEF InOnce
    <3>2. \A i \in DOMAIN jobs : jobs[i].op # "Leave"
      BY <2>1, <2>2, JobFields DEF InOnce, Live
    <3> QED
      BY <1>1, <3>1, <3>2
  <2>5. InOnce'
    BY <1>2, <1>3, <1>5, <2>2, <2>4 DEF InOnce, Live
  <2>6. LastKept'
    BY <1>2, <1>5 DEF LastKept, Nobody, Live
  <2> QED
    BY <2>3, <2>5, <2>6
<1> QED
  BY <1>7, <1>8, <1>9 DEF Kept

(* GameRoom::Leave: the copy it makes is the last, with all that was given.*)
LEMMA LeaveInv ==
  ASSUME StoreInv, Leave
  PROVE  StoreInv'
<1> DEFINE s == jobs[1].who
           job == [op |-> "Save", gold |-> gold[s], last |-> TRUE]
<1> USE DEF StoreInv, Leave, LeaveSaving, Job, Who, DoneAndPost, Save, sessionVars, roomVars
<1>1. jobs # <<>> /\ Head(jobs).op = "Leave" /\ Taken(jobs, Tail(jobs))
  BY TailTaken DEF TypeOK
<1>2. jobs[1].op = "Leave" /\ s \in Sessions /\ Head(jobs) = jobs[1]
  BY <1>1, JobFields DEF Taken
<1>3. job \in RoomJobs /\ job.op = "Save" /\ job.gold = gold[s] /\ job.last
  BY <1>2, Shapes DEF RoomJobs
<1>4. jobs' = Append(Tail(jobs), job) /\ jobs' \in Seq(RoomJobs) /\ TakenJoined(jobs, job, jobs')
  BY <1>1, <1>2, <1>3, TailThenAppended DEF TypeOK
<1>5. /\ UNCHANGED <<row, mails, entered, closed, player, acting, gains, gold, dbJobs, timer, server,
                     worth, excused, failures>>
      /\ inRoom' = None /\ place' = IF inRoom = None THEN place ELSE [place EXCEPT ![s] = "out"]
  BY <1>2
<1>6. UNCHANGED Owed
  BY <1>1, <1>3, <1>4, OwedTaken DEF Owed, Owing
<1>7. /\ place[s] \in {"in", "out"} /\ place'[s] \in {"in", "out"}
      /\ \A t \in Sessions \ {s} : place'[t] = place[t]
  BY <1>1, <1>2, <1>5, Shapes DEF Base, Told, Taken
<1> HIDE DEF s, job, Leave, LeaveSaving, Job, Who, DoneAndPost, Save
<1> USE DEF TakenJoined
<1>8. TypeOK'
  BY <1>2, <1>4, <1>5 DEF TypeOK
<1>9. Base'
  <2>1. Untouched'
    BY <1>2, <1>4, <1>5 DEF Base, Untouched
  <2>2. Covered'
    <3>1. gold[s] + Owed <= worth
      BY <1>2 DEF Base, Covered
    <3> QED
      BY <1>3, <1>4, <1>5, <1>6, <3>1 DEF Base, Covered
  <2>3. LoadsOnce'
    BY <1>2, <1>5, <1>7, DbFields DEF Base, LoadsOnce, Loading
  <2>4. Told'
    <3>1. /\ \A t \in player' : place'[t] # "none"
          /\ \A t \in Sessions : acting'[t] # "none" => place'[t] \in {"in", "out"}
      BY <1>5, <1>7, Shapes DEF Base, Told
    <3>2. \A i \in DOMAIN jobs' :
            /\ jobs'[i].op = "Enter" => place'[jobs'[i].who] # "none"
            /\ jobs'[i].op \in ToHandle \cup {"Leave"} => place'[jobs'[i].who] \in {"in", "out"}
      <4>1. job.op \notin ToHandle \cup {"Enter", "Leave"}
        BY <1>3 DEF ToHandle
      <4>2. \A t \in Sessions : /\ place[t] # "none" => place'[t] # "none"
                                /\ place[t] \in {"in", "out"} => place'[t] \in {"in", "out"}
        BY <1>7
      <4>3. \A i \in DOMAIN jobs' : jobs'[i].op \in ToHandle \cup {"Enter", "Leave"} =>
               /\ i + 1 \in DOMAIN jobs /\ jobs'[i] = jobs[i + 1]
               /\ jobs'[i].who \in Sessions
        BY <1>4, <4>1, JobFields
      <4> QED
        BY <4>2, <4>3 DEF Base, Told
    <3>3. \A i \in DOMAIN dbJobs' : dbJobs'[i].op = "Claim" => place'[dbJobs'[i].who] \in {"in", "out"}
      BY <1>5, <1>7, DbFields DEF Base, Told
    <3> QED
      BY <3>1, <3>2, <3>3 DEF Told
  <2> QED
    BY <2>1, <2>2, <2>3, <2>4 DEF Base
<1>10. ASSUME ~excused' PROVE OneObject' /\ InOnce' /\ LastKept'
  <2>1. OneObject /\ InOnce /\ LastKept
    BY <1>5, <1>10 DEF Kept
  <2>2. /\ place[s] = "in" /\ inRoom = s /\ Live(s) /\ s # None
        /\ \A t \in Sessions : Live(t) => t = s
    BY <1>2, <1>4, <2>1, Shapes DEF InOnce, OneObject, Live, s
  <2>3. \A t \in Sessions : place'[t] \notin {"in", "attached"}
    BY <1>2, <1>5, <1>7, <2>2, Shapes DEF Live
  <2>4. \A i \in DOMAIN dbJobs : dbJobs[i].op # "Loaded"
    BY <1>2, <2>1, <2>2 DEF OneObject
  <2>5. OneObject'
    BY <1>5, <2>3, <2>4 DEF OneObject, Live
  <2>6. \A i \in DOMAIN jobs' : jobs'[i].op \notin {"Enter", "Leave"}
    <3>1. \A i \in DOMAIN jobs : jobs[i].op = "Leave" => i = 1
      BY <1>2, <1>4, <2>1 DEF InOnce
    <3>2. \A i \in DOMAIN jobs : jobs[i].op # "Enter"
      BY <2>1, <2>2, JobFields DEF InOnce, Live
    <3> QED
      BY <1>3, <1>4, <3>1, <3>2
  <2>7. InOnce'
    BY <1>5, <2>3, <2>6 DEF InOnce, None
  <2>8. LastKept'
    <3>1. gold[s] + Owed = worth
      BY <1>2, <2>1, <2>2 DEF OneObject
    <3>2. LastSave(Len(jobs))'
      BY <1>3, <1>4, <1>5, <1>6, <3>1 DEF LastSave
    <3> QED
      BY <1>4, <3>2 DEF LastKept, SaveWaits
  <2> QED
    BY <2>5, <2>7, <2>8
<1> QED
  BY <1>8, <1>9, <1>10 DEF Kept

(* AddGold: an object in the room gets what worth gets, or what was owed.  *)
LEMMA GainInv ==
  ASSUME StoreInv, HandleAttack \/ Claimed
  PROVE  StoreInv'
<1> DEFINE s == jobs[1].who
<1> USE DEF StoreInv, HandleAttack, Claimed, AddGold, Job, Who, Done, Excuse, sessionVars, roomVars
<1>1. jobs # <<>> /\ jobs' = Tail(jobs) /\ jobs' \in Seq(RoomJobs) /\ Taken(jobs, jobs')
  <2>1. jobs # <<>> /\ jobs' = Tail(jobs)
    OBVIOUS
  <2> QED
    BY <2>1, TailTaken DEF TypeOK
<1>2. /\ jobs[1].op \in {"HandleAttack", "Claimed"} /\ s \in Sessions /\ Head(jobs) = jobs[1]
      /\ jobs[1].op = "Claimed" => jobs[1].removed \in BOOLEAN
  BY <1>1, JobFields DEF Taken, ToHandle
<1>3. /\ UNCHANGED <<row, mails, entered, closed, player, acting, gains, place, inRoom, dbJobs, timer, server,
                     failures>>
      /\ gold' = [gold EXCEPT ![s] = @ + 1]
      /\ excused' = (excused \/ place[s] = "out" \/ server = "saved")
  BY <1>2
<1>4. worth' = worth + (IF Owing(jobs[1]) THEN 0 ELSE 1)
  BY <1>2 DEF Owing
<1>5. Owed' = IF Owing(jobs[1]) THEN Owed - 1 ELSE Owed
  BY <1>1, <1>2, OwedTail DEF TypeOK, Owed
<1>6. place[s] \in {"in", "out"}
  BY <1>1, <1>2 DEF Base, Told, Taken, ToHandle
<1> HIDE DEF s, HandleAttack, Claimed, AddGold, Job, Who, Done, Excuse
<1> USE DEF Taken
<1>7. Owed \in Nat /\ Owed' \in Nat /\ worth \in Nat /\ worth # 0
  <2>1. Owed' \in Nat
    BY <1>1, OwedType DEF Owed
  <2>2. worth # 0
    BY <1>1, <1>2 DEF Base, Untouched
  <2> QED
    BY <2>1, <2>2, OwedNat, Shapes
<1>8. /\ worth' \in Nat \ {0}
      /\ \A x \in Nat : x + Owed <= worth => x + Owed' <= worth' /\ (x + 1) + Owed' <= worth'
      /\ \A x \in Nat : x + Owed = worth => (x + 1) + Owed' = worth'
  BY <1>4, <1>5, <1>7
<1>9. gold'[s] = gold[s] + 1 /\ gold[s] \in Nat /\ \A t \in Sessions \ {s} : gold'[t] = gold[t]
  BY <1>2, <1>3, Shapes
<1>10. TypeOK'
  <2>1. excused' \in BOOLEAN /\ gold' \in [Sessions -> Nat]
    BY <1>2, <1>3, Shapes
  <2> QED
    BY <1>1, <1>3, <1>8, <2>1 DEF TypeOK
<1>11. Base'
  <2>1. Untouched'
    BY <1>8 DEF Untouched
  <2>2. Covered'
    <3>1. row' + Owed' <= worth' /\ StartGold + Owed' <= worth'
      BY <1>3, <1>7, <1>8, Shapes, StoreAssumption DEF Base, Covered
    <3>2. \A t \in Sessions : gold'[t] + Owed' <= worth'
      BY <1>8, <1>9, Shapes DEF Base, Covered
    <3>3. \A j \in DOMAIN jobs' : jobs'[j].op = "Save" => jobs'[j].gold + Owed' <= worth'
      BY <1>1, <1>8, JobFields DEF Base, Covered
    <3>4. \A j \in DOMAIN dbJobs' : dbJobs'[j].op \in {"Loaded", "Write"} => dbJobs'[j].gold + Owed' <= worth'
      BY <1>3, <1>8, DbFields DEF Base, Covered
    <3> QED
      BY <3>1, <3>2, <3>3, <3>4 DEF Covered
  <2>3. LoadsOnce'
    BY <1>3 DEF Base, LoadsOnce
  <2>4. Told'
    BY <1>1, <1>3 DEF Base, Told
  <2> QED
    BY <2>1, <2>2, <2>3, <2>4 DEF Base
<1>12. ASSUME ~excused' PROVE OneObject' /\ InOnce' /\ LastKept'
  <2>1. OneObject /\ InOnce /\ LastKept
    BY <1>3, <1>12 DEF Kept
  <2>2. place[s] = "in" /\ Live(s) /\ \A t \in Sessions : Live(t) => t = s
    BY <1>2, <1>3, <1>6, <1>12, <2>1 DEF OneObject, Live
  <2>3. OneObject'
    <3>1. gold'[s] + Owed' = worth'
      BY <1>2, <1>8, <1>9, <2>1, <2>2 DEF OneObject
    <3>2. \A i \in DOMAIN dbJobs : dbJobs[i].op # "Loaded"
      BY <1>2, <2>1, <2>2 DEF OneObject
    <3> QED
      BY <1>3, <2>2, <3>1, <3>2 DEF OneObject, Live
  <2>4. InOnce'
    BY <1>1, <1>3, <2>1 DEF InOnce
  <2>5. LastKept'
    BY <1>2, <1>3, <2>2 DEF LastKept, Nobody, Live
  <2> QED
    BY <2>3, <2>4, <2>5
<1> QED
  BY <1>10, <1>11, <1>12 DEF Kept

(* A job that is no save is taken, and leaves another one of its session.  *)
LEMMA HandleCheckMailboxInv ==
  ASSUME StoreInv, HandleCheckMailbox
  PROVE  StoreInv'
<1> DEFINE s == jobs[1].who
           job == [op |-> "ProcessMailboxDB", who |-> s]
<1> USE DEF StoreInv, HandleCheckMailbox, Job, Who, DoneAndPost, sessionVars, objectVars, roomVars
<1>1. jobs # <<>> /\ Head(jobs).op = "HandleCheckMailbox" /\ Taken(jobs, Tail(jobs))
  BY TailTaken DEF TypeOK
<1>2. jobs[1].op = "HandleCheckMailbox" /\ s \in Sessions /\ Head(jobs) = jobs[1]
  BY <1>1, JobFields DEF Taken, ToHandle
<1>3. job \in RoomJobs /\ job.op = "ProcessMailboxDB" /\ job.who = s
  BY <1>2 DEF RoomJobs
<1>4. jobs' = Append(Tail(jobs), job) /\ jobs' \in Seq(RoomJobs) /\ TakenJoined(jobs, job, jobs')
  BY <1>1, <1>2, <1>3, TailThenAppended DEF TypeOK
<1>5. UNCHANGED <<row, mails, entered, closed, player, acting, gains, place, gold, inRoom, dbJobs, timer,
                  server, worth, excused, failures>>
  OBVIOUS
<1>6. UNCHANGED Owed
  BY <1>1, <1>3, <1>4, OwedTaken DEF Owed, Owing
<1>7. place[s] \in {"in", "out"}
  BY <1>1, <1>2 DEF Base, Told, Taken, ToHandle
<1> HIDE DEF s, job, HandleCheckMailbox, Job, Who, DoneAndPost
<1> USE DEF TakenJoined
<1>8. TypeOK'
  BY <1>4, <1>5 DEF TypeOK
<1>9. Base'
  <2>1. Untouched'
    BY <1>2, <1>4, <1>5 DEF Base, Untouched
  <2>2. Covered'
    BY <1>3, <1>4, <1>5, <1>6 DEF Base, Covered
  <2>3. LoadsOnce'
    BY <1>5 DEF Base, LoadsOnce
  <2>4. Told'
    <3>1. \A i \in DOMAIN jobs' : (i + 1 \in DOMAIN jobs /\ jobs'[i] = jobs[i + 1]) \/ jobs'[i] = job
      BY <1>4
    <3>2. Told
      BY DEF Base
    <3> QED
      BY <1>3, <1>5, <1>7, <3>1, <3>2 DEF Told
  <2> QED
    BY <2>1, <2>2, <2>3, <2>4 DEF Base
<1>10. ASSUME ~excused' PROVE OneObject' /\ InOnce' /\ LastKept'
  <2>1. OneObject /\ InOnce /\ LastKept
    BY <1>5, <1>10 DEF Kept
  <2>2. OneObject'
    BY <1>5, <1>6, <2>1 DEF OneObject, Live
  <2>3. InOnce'
    BY <1>3, <1>4, <1>5, <2>1 DEF InOnce
  <2>4. (Nobody' => Nobody) /\ (NoSave => NoSave')
    BY <1>3, <1>4, <1>5 DEF Nobody, Live, NoSave
  <2>5. SaveWaits => SaveWaits'
    <3> SUFFICES ASSUME NEW k \in DOMAIN jobs, LastSave(k) PROVE SaveWaits'
      BY DEF SaveWaits
    <3>1. k - 1 \in DOMAIN jobs' /\ jobs'[k - 1] = jobs[k]
      BY <1>2, <1>4 DEF LastSave
    <3>2. \A i \in DOMAIN jobs' : jobs'[i].op = "Save" => i <= k - 1
      BY <1>3, <1>4 DEF LastSave
    <3> QED
      BY <1>5, <1>6, <3>1, <3>2 DEF SaveWaits, LastSave
  <2>6. (WriteWaits => WriteWaits') /\ (Written => Written')
    BY <1>5, <1>6, <2>4 DEF WriteWaits, LastWrite, Written
  <2> QED
    BY <2>1, <2>2, <2>3, <2>4, <2>5, <2>6 DEF LastKept
<1> QED
  BY <1>8, <1>9, <1>10 DEF Kept

(* ProcessMailboxDB hands the DELETE over.                                 *)
LEMMA ProcessMailboxInv ==
  ASSUME StoreInv, ProcessMailboxDB
  PROVE  StoreInv'
<1> DEFINE s == jobs[1].who
           job == [op |-> "Claim", who |-> s]
<1> USE DEF StoreInv, ProcessMailboxDB, HandOver, Job, Who, Done, sessionVars, objectVars, roomVars
<1>1. jobs # <<>> /\ jobs' = Tail(jobs) /\ jobs' \in Seq(RoomJobs) /\ Taken(jobs, jobs')
  BY TailTaken DEF TypeOK
<1>2. jobs[1].op = "ProcessMailboxDB" /\ s \in Sessions /\ Head(jobs) = jobs[1]
  BY <1>1, JobFields DEF Taken, ToHandle
<1>3. job \in DbJobs /\ job.op = "Claim" /\ job.who = s
  BY <1>2 DEF DbJobs
<1>4. dbJobs' \in Seq(DbJobs) /\ Joined(dbJobs, job, dbJobs')
  BY <1>2, <1>3, Appended DEF TypeOK
<1>5. UNCHANGED <<row, mails, entered, closed, player, acting, gains, place, gold, inRoom, timer,
                  server, worth, excused, failures>>
  OBVIOUS
<1>6. UNCHANGED Owed
  BY <1>1, <1>2, OwedTaken DEF Owed, Owing
<1>7. place[s] \in {"in", "out"} /\ worth # 0
  BY <1>1, <1>2 DEF Base, Told, Untouched, Taken, ToHandle
<1> HIDE DEF s, job, ProcessMailboxDB, HandOver, Job, Who, Done
<1> USE DEF Taken, Joined
<1>8. TypeOK'
  BY <1>1, <1>4, <1>5 DEF TypeOK
<1>9. Base'
  <2>1. Untouched'
    BY <1>5, <1>7 DEF Untouched
  <2>2. Covered'
    BY <1>1, <1>3, <1>4, <1>5, <1>6 DEF Base, Covered
  <2>3. LoadsOnce'
    BY <1>3, <1>4, <1>5 DEF Base, LoadsOnce, Loading
  <2>4. Told'
    <3>1. \A i \in DOMAIN dbJobs' : (i \in DOMAIN dbJobs /\ dbJobs'[i] = dbJobs[i]) \/ dbJobs'[i] = job
      BY <1>4
    <3>2. Told
      BY DEF Base
    <3> QED
      BY <1>1, <1>3, <1>5, <1>7, <3>1, <3>2 DEF Told
  <2> QED
    BY <2>1, <2>2, <2>3, <2>4 DEF Base
<1>10. ASSUME ~excused' PROVE OneObject' /\ InOnce' /\ LastKept'
  <2>1. OneObject /\ InOnce /\ LastKept
    BY <1>5, <1>10 DEF Kept
  <2>2. OneObject'
    BY <1>3, <1>4, <1>5, <1>6, <2>1 DEF OneObject, Live
  <2>3. InOnce'
    BY <1>1, <1>5, <2>1 DEF InOnce
  <2>4. (Nobody' => Nobody) /\ (NoSave => NoSave')
    BY <1>1, <1>3, <1>4, <1>5 DEF Nobody, Live, NoSave
  <2>5. SaveWaits => SaveWaits'
    <3> SUFFICES ASSUME NEW k \in DOMAIN jobs, LastSave(k) PROVE SaveWaits'
      BY DEF SaveWaits
    <3>1. k - 1 \in DOMAIN jobs' /\ jobs'[k - 1] = jobs[k]
      BY <1>1, <1>2 DEF LastSave
    <3>2. \A i \in DOMAIN jobs' : jobs'[i].op = "Save" => i <= k - 1
      BY <1>1 DEF LastSave
    <3> QED
      BY <1>5, <1>6, <3>1, <3>2 DEF SaveWaits, LastSave
  <2>6. WriteWaits => WriteWaits'
    BY <1>3, <1>4, <1>5, <1>6, <2>4 DEF WriteWaits, LastWrite
  <2>7. Written => Written'
    BY <1>3, <1>4, <1>5, <1>6, <2>4 DEF Written
  <2> QED
    BY <2>1, <2>2, <2>3, <2>4, <2>5, <2>6, <2>7 DEF LastKept
<1> QED
  BY <1>8, <1>9, <1>10 DEF Kept

(* SavePlayerToDB hands the copy over: the last one becomes the last write.*)
LEMMA SaveInv ==
  ASSUME StoreInv, SavePlayerToDB
  PROVE  StoreInv'
<1> DEFINE copy == jobs[1]
           job == [op |-> "Write", gold |-> copy.gold, last |-> copy.last, passed |-> FALSE]
<1> USE DEF StoreInv, SavePlayerToDB, HandOver, Job, Done, sessionVars, objectVars, roomVars
<1>1. jobs # <<>> /\ jobs' = Tail(jobs) /\ jobs' \in Seq(RoomJobs) /\ Taken(jobs, jobs')
  BY TailTaken DEF TypeOK
<1>2. copy.op = "Save" /\ copy.gold \in Nat /\ copy.last \in BOOLEAN /\ Head(jobs) = copy
  BY <1>1, JobFields DEF Taken
<1>3. job \in DbJobs /\ job.op = "Write" /\ job.gold = copy.gold /\ job.last = copy.last /\ ~job.passed
  BY <1>2 DEF DbJobs
<1>4. dbJobs' \in Seq(DbJobs) /\ Joined(dbJobs, job, dbJobs')
  BY <1>2, <1>3, Appended DEF TypeOK
<1>5. UNCHANGED <<row, mails, entered, closed, player, acting, gains, place, gold, inRoom, timer,
                  server, worth, excused, failures>>
  OBVIOUS
<1>6. UNCHANGED Owed
  BY <1>1, <1>2, OwedTaken DEF Owed, Owing
<1>7. worth # 0
  BY <1>1, <1>2 DEF Base, Untouched, Taken
<1> HIDE DEF job, SavePlayerToDB, HandOver, Job, Done
<1> USE DEF Taken, Joined
<1>8. TypeOK'
  BY <1>1, <1>4, <1>5 DEF TypeOK
<1>9. Base'
  <2>1. Untouched'
    BY <1>5, <1>7 DEF Untouched
  <2>2. Covered'
    <3>1. copy.gold + Owed <= worth
      BY <1>1, <1>2 DEF Base, Covered
    <3> QED
      BY <1>1, <1>3, <1>4, <1>5, <1>6, <3>1 DEF Base, Covered
  <2>3. LoadsOnce'
    BY <1>3, <1>4, <1>5 DEF Base, LoadsOnce, Loading
  <2>4. Told'
    BY <1>1, <1>3, <1>4, <1>5 DEF Base, Told
  <2> QED
    BY <2>1, <2>2, <2>3, <2>4 DEF Base
<1>10. ASSUME ~excused' PROVE OneObject' /\ InOnce' /\ LastKept'
  <2>1. OneObject /\ InOnce /\ LastKept
    BY <1>5, <1>10 DEF Kept
  <2>2. OneObject'
    BY <1>3, <1>4, <1>5, <1>6, <2>1 DEF OneObject, Live
  <2>3. InOnce'
    BY <1>1, <1>5, <2>1 DEF InOnce
  <2>4. Nobody' => Nobody
    BY <1>3, <1>4, <1>5 DEF Nobody, Live
  <2>5. SaveWaits => SaveWaits' \/ WriteWaits'
    <3> SUFFICES ASSUME NEW k \in DOMAIN jobs, LastSave(k) PROVE SaveWaits' \/ WriteWaits'
      BY DEF SaveWaits
    <3>1. \A i \in DOMAIN jobs' : jobs'[i].op = "Save" => i <= k - 1
      BY <1>1 DEF LastSave
    <3>2. CASE k = 1
      <4>1. NoSave'
        BY <1>1, <3>1, <3>2 DEF NoSave
      <4>2. PICK m \in DOMAIN dbJobs' : m = Len(dbJobs) + 1
        BY <1>4
      <4>3. LastWrite(m)'
        BY <1>3, <1>4, <1>5, <1>6, <3>2, <4>2 DEF LastSave, LastWrite
      <4> QED
        BY <4>1, <4>3 DEF WriteWaits
    <3>3. CASE k # 1
      <4>1. k - 1 \in DOMAIN jobs' /\ jobs'[k - 1] = jobs[k]
        BY <1>1, <3>3
      <4> QED
        BY <1>5, <1>6, <3>1, <4>1 DEF SaveWaits, LastSave
    <3> QED
      BY <3>2, <3>3
  <2>6. ~WriteWaits /\ ~Written
    BY <1>1, <1>2 DEF WriteWaits, Written, NoSave
  <2> QED
    BY <2>1, <2>2, <2>3, <2>4, <2>5, <2>6 DEF LastKept
<1> QED
  BY <1>8, <1>9, <1>10 DEF Kept

(* GameRoom::AutoSave, nobody in the room.                                 *)
LEMMA AutoSaveNobodyInv ==
  ASSUME StoreInv, AutoSave, inRoom = None
  PROVE  StoreInv'
<1> USE DEF StoreInv, AutoSave, AutoSaveThen, Job, Done, sessionVars, objectVars
<1>1. jobs # <<>> /\ jobs' = Tail(jobs) /\ jobs' \in Seq(RoomJobs) /\ Taken(jobs, jobs')
  BY TailTaken DEF TypeOK
<1>2. jobs[1].op = "AutoSave" /\ Head(jobs) = jobs[1]
  BY <1>1 DEF Taken
<1>3. /\ UNCHANGED <<row, mails, entered, closed, player, acting, gains, place, gold, inRoom, dbJobs,
                     worth, excused, failures>>
      /\ timer' = "armed" /\ server' \in {server, "saved"}
  OBVIOUS
<1>4. UNCHANGED Owed
  BY <1>1, <1>2, OwedTaken DEF Owed, Owing
<1> HIDE DEF AutoSave, AutoSaveThen, Job, Done
<1> USE DEF Taken
<1>5. TypeOK'
  BY <1>1, <1>3 DEF TypeOK
<1>6. Base'
  BY <1>1, <1>3, <1>4 DEF Base, Untouched, Covered, LoadsOnce, Told
<1>7. ASSUME ~excused' PROVE OneObject' /\ InOnce' /\ LastKept'
  <2>1. OneObject /\ InOnce /\ LastKept
    BY <1>3, <1>7 DEF Kept
  <2>2. OneObject'
    BY <1>3, <1>4, <2>1 DEF OneObject, Live
  <2>3. InOnce'
    BY <1>1, <1>3, <2>1 DEF InOnce
  <2>4. (Nobody' => Nobody) /\ (NoSave => NoSave')
    BY <1>1, <1>3 DEF Nobody, Live, NoSave
  <2>5. SaveWaits => SaveWaits'
    <3> SUFFICES ASSUME NEW k \in DOMAIN jobs, LastSave(k) PROVE SaveWaits'
      BY DEF SaveWaits
    <3>1. k - 1 \in DOMAIN jobs' /\ jobs'[k - 1] = jobs[k]
      BY <1>1, <1>2 DEF LastSave
    <3>2. \A i \in DOMAIN jobs' : jobs'[i].op = "Save" => i <= k - 1
      BY <1>1 DEF LastSave
    <3> QED
      BY <1>3, <1>4, <3>1, <3>2 DEF SaveWaits, LastSave
  <2>6. (WriteWaits => WriteWaits') /\ (Written => Written')
    BY <1>3, <1>4, <2>4 DEF WriteWaits, LastWrite, Written
  <2> QED
    BY <2>1, <2>2, <2>3, <2>4, <2>5, <2>6 DEF LastKept
<1> QED
  BY <1>5, <1>6, <1>7 DEF Kept

(* GameRoom::AutoSave of the object in the room, which plays on.           *)
LEMMA AutoSaveInv ==
  ASSUME StoreInv, AutoSave, inRoom # None
  PROVE  StoreInv'
<1> DEFINE job == [op |-> "Save", gold |-> gold[inRoom], last |-> jobs[1].last]
<1> USE DEF StoreInv, AutoSave, AutoSaveThen, Job, DoneAndPost, Save, sessionVars, objectVars
<1>1. jobs # <<>> /\ Head(jobs).op = "AutoSave" /\ Taken(jobs, Tail(jobs))
  BY TailTaken DEF TypeOK
<1>2. jobs[1].op = "AutoSave" /\ jobs[1].last \in BOOLEAN /\ Head(jobs) = jobs[1] /\ inRoom \in Sessions
  BY <1>1, JobFields, Shapes DEF Taken
<1>3. job \in RoomJobs /\ job.op = "Save" /\ job.gold = gold[inRoom]
  BY <1>2, Shapes DEF RoomJobs
<1>4. jobs' = Append(Tail(jobs), job) /\ jobs' \in Seq(RoomJobs) /\ TakenJoined(jobs, job, jobs')
  <2>1. jobs # <<>> /\ jobs' = Append(Tail(jobs), job)
    BY <1>2
  <2> QED
    BY <1>3, <2>1, TailThenAppended DEF TypeOK
<1>5. /\ UNCHANGED <<row, mails, entered, closed, player, acting, gains, place, gold, inRoom, dbJobs,
                     worth, excused, failures>>
      /\ timer' = "armed" /\ server' \in {server, "saved"}
  OBVIOUS
<1>6. UNCHANGED Owed
  BY <1>1, <1>3, <1>4, OwedTaken DEF Owed, Owing
<1> HIDE DEF job, AutoSave, AutoSaveThen, Job, DoneAndPost, Save
<1> USE DEF TakenJoined
<1>7. TypeOK'
  BY <1>4, <1>5 DEF TypeOK
<1>8. Base'
  <2>1. Untouched'
    BY <1>5 DEF Base, Untouched
  <2>2. Covered'
    <3>1. gold[inRoom] + Owed <= worth
      BY <1>2 DEF Base, Covered
    <3> QED
      BY <1>3, <1>4, <1>5, <1>6, <3>1 DEF Base, Covered
  <2>3. LoadsOnce'
    BY <1>5 DEF Base, LoadsOnce
  <2>4. Told'
    <3>1. job.op \notin ToHandle \cup {"Enter", "Leave"}
      BY <1>3 DEF ToHandle
    <3>2. \A i \in DOMAIN jobs' : (i + 1 \in DOMAIN jobs /\ jobs'[i] = jobs[i + 1]) \/ jobs'[i] = job
      BY <1>4
    <3>3. Told
      BY DEF Base
    <3> QED
      BY <1>5, <3>1, <3>2, <3>3 DEF Told
  <2> QED
    BY <2>1, <2>2, <2>3, <2>4 DEF Base
<1>9. ASSUME ~excused' PROVE OneObject' /\ InOnce' /\ LastKept'
  <2>1. OneObject /\ InOnce /\ LastKept
    BY <1>5, <1>9 DEF Kept
  <2>2. OneObject'
    BY <1>5, <1>6, <2>1 DEF OneObject, Live
  <2>3. InOnce'
    BY <1>3, <1>4, <1>5, <2>1 DEF InOnce
  <2>4. LastKept'
    BY <1>2, <1>5, <2>1 DEF LastKept, Nobody, Live, InOnce
  <2> QED
    BY <2>2, <2>3, <2>4
<1> QED
  BY <1>7, <1>8, <1>9 DEF Kept

-----------------------------------------------------------------------------
LEMMA StutterInv ==
  ASSUME StoreInv, UNCHANGED vars
  PROVE  StoreInv'
<1> USE DEF StoreInv, vars, sessionVars, objectVars, roomVars
<1>1. UNCHANGED Owed
  BY DEF Owed
<1>2. TypeOK'
  BY DEF TypeOK
<1>3. Base'
  BY <1>1 DEF Base, Untouched, Covered, LoadsOnce, Told
<1>4. Kept'
  BY <1>1 DEF Kept, OneObject, InOnce, LastKept, Live, Nobody, SaveWaits, WriteWaits, Written,
              NoSave, LastSave, LastWrite
<1> QED
  BY <1>2, <1>3, <1>4

LEMMA DbStepInv ==
  ASSUME StoreInv, NEW i \in 1..DbWorkers, DbStep(i)
  PROVE  StoreInv'
<1>1. CASE Attach(i)
  BY <1>1, AttachInv
<1>2. CASE Throws(i)
  BY <1>2, ThrowsInv
<1>3. ASSUME NEW found \in BOOLEAN, NEW inserted \in BOOLEAN, Load(i, found, inserted) PROVE StoreInv'
  BY <1>3, LoadInv
<1>4. ASSUME NEW ok \in BOOLEAN, Write(i, ok) PROVE StoreInv'
  BY <1>4, WriteInv
<1>5. ASSUME NEW ok \in BOOLEAN, Claim(i, ok) PROVE StoreInv'
  BY <1>5, ClaimInv
<1> QED
  BY <1>1, <1>2, <1>3, <1>4, <1>5 DEF DbStep

LEMMA StoreNext == StoreInv /\ [Next]_vars => StoreInv'
<1> SUFFICES ASSUME StoreInv, [Next]_vars PROVE StoreInv'
  OBVIOUS
<1>1. ASSUME NEW s \in Sessions, EnterGame(s) PROVE StoreInv'
  BY <1>1, EnterGameInv
<1>2. ASSUME NEW s \in Sessions, PostHandler(s) PROVE StoreInv'
  BY <1>2, PostHandlerInv
<1>3. ASSUME NEW s \in Sessions, OnDisconnected(s) PROVE StoreInv'
  BY <1>3, DisconnectedOutsideInv, DisconnectedInsideInv
<1>4. ASSUME NEW s \in Sessions, NEW h \in {"HandleAttack", "HandleCheckMailbox"}, Receive(s, h) PROVE StoreInv'
  BY <1>4, ReceiveInv
<1>5. ASSUME NEW i \in 1..DbWorkers, DbStep(i) PROVE StoreInv'
  BY <1>5, DbStepInv
<1>6. CASE RoomStep
  BY <1>6, EnterInv, LeaveInv, GainInv, HandleCheckMailboxInv, ProcessMailboxInv, SaveInv,
     AutoSaveNobodyInv, AutoSaveInv DEF RoomStep
<1>7. CASE Distribute \/ BroadcastAutoSave
  BY <1>7, TimerInv
<1>8. CASE UNCHANGED vars
  BY <1>8, StutterInv
<1> QED
  BY <1>1, <1>2, <1>3, <1>4, <1>5, <1>6, <1>7, <1>8 DEF Next

(* Players who left find all they were given in their row, and nothing     *)
(* ever holds more, unless something happened that the code leaves open    *)
(* (GameRoom.cpp:112-186, GameSession.cpp:58-166).                         *)
THEOREM LeftAreSaved == Spec => []LeftIsSaved
<1>1. StoreInv => LeftIsSaved
  <2> SUFFICES ASSUME StoreInv PROVE LeftIsSaved
    OBVIOUS
  <2>1. TypeOK /\ Covered /\ Owed \in Nat
    BY OwedNat DEF StoreInv, Base
  <2>2. row <= worth /\ \A s \in Sessions : gold[s] <= worth
    BY <2>1, Shapes DEF Covered
  <2>3. ASSUME Quiet, ~excused PROVE row = worth
    <3>1. OneObject /\ InOnce /\ LastKept
      BY <2>3 DEF StoreInv, Kept
    <3>2. jobs \in Seq(RoomJobs) /\ DOMAIN jobs = {} /\ DOMAIN dbJobs = {}
      BY <2>1, <2>3 DEF Quiet, TypeOK
    <3>3. Owed = 0
      BY <3>2, OwedNone DEF Owed
    <3>4. Nobody
      BY <2>1, <2>3, <3>1, <3>2, Shapes DEF Nobody, Quiet, Live, InOnce
    <3>5. Written
      BY <3>1, <3>2, <3>4 DEF LastKept, SaveWaits, WriteWaits
    <3> QED
      BY <2>1, <3>3, <3>5, Shapes DEF Written
  <2> QED
    BY <2>1, <2>2, <2>3 DEF LeftIsSaved
<1> QED
  BY <1>1, StoreInit, StoreNext, PTL DEF Spec

-----------------------------------------------------------------------------
(* The account and its tickets.                                            *)

(* Without a race the account has at most one character, and one request   *)
(* at most is about to create it, when there is none.                      *)
Unraced ==
  ~raced =>
    /\ players \in {{}, {1}}
    /\ \A r \in Requests : stage[r] = "create" => players = {}
    /\ \A r, q \in Requests : stage[r] = "create" /\ stage[q] = "create" => r = q

(* Tickets are those of answered requests, and are for a character.        *)
TicketsAreIssued ==
  /\ \A r \in Requests : stage[r] = "issue" => chosen[r] \in players
  /\ \A r \in Requests : stage[r] = "answered" => value[r] \in players
  /\ \A t \in tickets : stage[t] = "answered"
  /\ \A s \in LoginSessions : read[s] # NoTicket => stage[read[s]] = "answered"
  /\ \A s \in LoginSessions : playerId[s] # 0 => playerId[s] \in players
  /\ \A s \in LoginSessions : loaded[s] \subseteq players

(* A ticket somebody logged in with is gone; who has still read it makes   *)
(* it contested, as does whoever else logged in with it.                   *)
SpentOrContested ==
  \A s \in LoginSessions, t \in Requests :
    <<s, t>> \in logins =>
      /\ stage[t] = "answered" /\ t \notin tickets
      /\ \A o \in LoginSessions : (read[o] = t \/ <<o, t>> \in logins) => o = s \/ t \in contested

AccountInv == LoginTypeOK /\ Unraced /\ TicketsAreIssued /\ SpentOrContested

LEMMA AccountInit == LoginInit => AccountInv
<1> SUFFICES ASSUME LoginInit PROVE AccountInv
  OBVIOUS
<1> USE DEF LoginInit
<1>1. LoginTypeOK
  <2>1. players \subseteq Nat /\ IsFiniteSet(players)
    <3>1. IsFiniteSet({}) /\ IsFiniteSet({1})
      BY FS_EmptySet, FS_Singleton, Zenon
    <3>2. players = {} \/ players = {1}
      OBVIOUS
    <3> QED
      BY <3>1, <3>2
  <2> QED
    BY <2>1 DEF LoginTypeOK
<1>2. Unraced
  BY DEF Unraced
<1>3. TicketsAreIssued
  BY DEF TicketsAreIssued
<1>4. SpentOrContested
  BY DEF SpentOrContested
<1> QED
  BY <1>1, <1>2, <1>3, <1>4 DEF AccountInv

(* FirstOrDefaultAsync: only a request that finds nothing comes to create. *)
LEMMA FindInv ==
  ASSUME AccountInv, NEW r \in Requests, FindPlayer(r)
  PROVE  AccountInv'
<1> USE DEF AccountInv, FindPlayer, FindAmong, Goto, gameVars
<1>1. CASE players = {}
  <2>1. /\ stage' = [stage EXCEPT ![r] = "create"] /\ UNCHANGED <<chosen, players, value>>
        /\ raced' = (raced \/ \E q \in Requests \ {r} : stage[q] = "create")
    BY <1>1
  <2>2. LoginTypeOK'
    BY <2>1 DEF LoginTypeOK
  <2>3. Unraced'
    BY <1>1, <2>1 DEF LoginTypeOK, Unraced
  <2>4. TicketsAreIssued'
    BY <2>1 DEF LoginTypeOK, TicketsAreIssued
  <2>5. SpentOrContested'
    BY <2>1 DEF LoginTypeOK, SpentOrContested
  <2> QED
    BY <2>2, <2>3, <2>4, <2>5
<1>2. CASE players # {}
  <2>1. PICK p \in players : chosen' = [chosen EXCEPT ![r] = p]
    BY <1>2
  <2>2. stage' = [stage EXCEPT ![r] = "issue"] /\ UNCHANGED <<raced, players, value>>
    BY <1>2
  <2>3. LoginTypeOK'
    BY <2>1, <2>2 DEF LoginTypeOK
  <2>4. Unraced'
    BY <2>2 DEF LoginTypeOK, Unraced
  <2>5. TicketsAreIssued'
    BY <2>1, <2>2 DEF LoginTypeOK, TicketsAreIssued
  <2>6. SpentOrContested'
    BY <2>2 DEF LoginTypeOK, SpentOrContested
  <2> QED
    BY <2>3, <2>4, <2>5, <2>6
<1> QED
  BY <1>1, <1>2

(* SaveChangesAsync: the first character has the id 1.                     *)
LEMMA CreateInv ==
  ASSUME AccountInv, NEW r \in Requests, CreatePlayer(r)
  PROVE  AccountInv'
<1> USE DEF AccountInv, CreatePlayer, Goto, gameVars
<1> DEFINE new == Cardinality(players) + 1
<1>1. new \in Nat
  BY FS_CardinalityType DEF LoginTypeOK
<1>2. players' = players \cup {new} /\ chosen' = [chosen EXCEPT ![r] = new]
  OBVIOUS
<1>3. IsFiniteSet(players')
  BY <1>2, FS_AddElement DEF LoginTypeOK
<1>4. stage' = [stage EXCEPT ![r] = "issue"] /\ UNCHANGED <<value, raced>>
  OBVIOUS
<1> HIDE DEF new
<1>5. LoginTypeOK'
  BY <1>1, <1>2, <1>3, <1>4 DEF LoginTypeOK
<1>6. Unraced'
  <2>1. ~raced => players = {} /\ \A q \in Requests : stage[q] = "create" => q = r
    BY DEF Unraced
  <2>2. players = {} => new = 1
    BY FS_EmptySet DEF new
  <2>3. \A q \in Requests : stage'[q] = "create" => q # r /\ stage[q] = "create"
    BY <1>4 DEF LoginTypeOK
  <2> QED
    BY <1>2, <1>4, <2>1, <2>2, <2>3 DEF Unraced
<1>7. TicketsAreIssued'
  BY <1>2, <1>4 DEF LoginTypeOK, TicketsAreIssued
<1>8. SpentOrContested'
  BY <1>4 DEF LoginTypeOK, SpentOrContested
<1> QED
  BY <1>5, <1>6, <1>7, <1>8

(* StringSetAsync: the ticket is new, nobody has read it.                  *)
LEMMA IssueInv ==
  ASSUME AccountInv, NEW r \in Requests, IssueTicket(r)
  PROVE  AccountInv'
<1> USE DEF AccountInv, IssueTicket, Goto, gameVars
<1>1. LoginTypeOK'
  BY DEF LoginTypeOK
<1>2. Unraced'
  BY DEF LoginTypeOK, Unraced
<1>3. TicketsAreIssued'
  BY DEF LoginTypeOK, TicketsAreIssued
<1>4. SpentOrContested'
  BY DEF LoginTypeOK, SpentOrContested
<1> QED
  BY <1>1, <1>2, <1>3, <1>4

(* A request that fails, a ticket that expires.                            *)
LEMMA LossInv ==
  ASSUME AccountInv, NEW r \in Requests, RequestFails(r) \/ Expire(r)
  PROVE  AccountInv'
<1> USE DEF AccountInv, RequestFails, Expire, Goto, webVars, gameVars
<1>1. LoginTypeOK'
  BY DEF LoginTypeOK
<1>2. Unraced'
  BY DEF LoginTypeOK, Unraced
<1>3. TicketsAreIssued'
  BY DEF LoginTypeOK, TicketsAreIssued
<1>4. SpentOrContested'
  BY DEF LoginTypeOK, SpentOrContested
<1> QED
  BY <1>1, <1>2, <1>3, <1>4

(* get(key): what is read is in Redis, so nobody has logged in with it.    *)
LEMMA GetInv ==
  ASSUME AccountInv, NEW s \in LoginSessions, NEW t \in Requests \cup {NoTicket}, GetTicket(s, t)
  PROVE  AccountInv'
<1> USE LoginAssumption DEF AccountInv, GetTicket, Disconnect, webVars
<1>1. LoginTypeOK'
  BY DEF LoginTypeOK
<1>2. Unraced'
  BY DEF Unraced
<1>3. TicketsAreIssued'
  BY DEF LoginTypeOK, TicketsAreIssued
<1>4. SpentOrContested'
  BY DEF LoginTypeOK, SpentOrContested
<1> QED
  BY <1>1, <1>2, <1>3, <1>4

(* del(key): the ticket is gone; who else has read it makes it contested.  *)
LEMMA DelInv ==
  ASSUME AccountInv, NEW s \in LoginSessions, DelTicket(s)
  PROVE  AccountInv'
<1> USE LoginAssumption DEF AccountInv, DelTicket, Delete, webVars
<1> DEFINE t == read[s]
<1>1. t \in Requests /\ stage[t] = "answered" /\ value[t] \in players
  BY DEF LoginTypeOK, TicketsAreIssued
<1>2. LoginTypeOK'
  BY <1>1 DEF LoginTypeOK
<1>3. Unraced'
  BY DEF Unraced
<1>4. TicketsAreIssued'
  BY <1>1 DEF LoginTypeOK, TicketsAreIssued
<1>5. SpentOrContested'
  <2> SUFFICES ASSUME NEW z \in LoginSessions, NEW u \in Requests, <<z, u>> \in logins'
               PROVE  /\ stage'[u] = "answered" /\ u \notin tickets'
                      /\ \A o \in LoginSessions : (read'[o] = u \/ <<o, u>> \in logins')
                                               => o = z \/ u \in contested'
    BY DEF SpentOrContested
  <2>1. contested \subseteq contested' /\ UNCHANGED stage /\ tickets' = tickets \ {t}
    OBVIOUS
  <2>2. \A o \in LoginSessions : read'[o] = u => o # s /\ read[o] = u
    BY DEF LoginTypeOK
  <2>3. CASE u # t
    <3>1. <<z, u>> \in logins /\ \A o \in LoginSessions : <<o, u>> \in logins' => <<o, u>> \in logins
      BY <2>3
    <3> QED
      BY <2>1, <2>2, <3>1 DEF SpentOrContested
  <2>4. CASE u = t
    <3>1. \A o \in LoginSessions : <<o, u>> \in logins' => o = s \/ <<o, u>> \in logins
      BY <2>4
    <3>2. \A o \in LoginSessions \ {s} : <<o, u>> \in logins \/ read[o] = u => u \in contested'
      BY <2>1, <2>4 DEF SpentOrContested
    <3>3. stage'[u] = "answered" /\ u \notin tickets'
      BY <1>1, <2>1, <2>4
    <3> QED
      BY <2>2, <3>1, <3>2, <3>3
  <2> QED
    BY <2>3, <2>4
<1> QED
  BY <1>2, <1>3, <1>4, <1>5

(* A refused login, and C_ENTER_GAME.                                      *)
LEMMA RestInv ==
  ASSUME AccountInv, NEW s \in LoginSessions, DelFails(s) \/ EnterGameBound(s)
  PROVE  AccountInv'
<1> USE LoginAssumption DEF AccountInv, DelFails, EnterGameBound, Disconnect, webVars
<1>1. LoginTypeOK'
  <2>1. CASE DelFails(s)
    BY <2>1 DEF LoginTypeOK
  <2>2. CASE EnterGameBound(s)
    <3>1. UNCHANGED <<webVars, tickets, read, playerId, logins, contested>>
      BY <2>2
    <3>2. cut' \subseteq LoginSessions
      BY <2>2 DEF LoginTypeOK
    <3>3. loaded' \in [LoginSessions -> SUBSET Nat]
      <4>1. loaded[s] \cup {playerId[s]} \in SUBSET Nat
        BY DEF LoginTypeOK
      <4> QED
        BY <2>2, <4>1 DEF LoginTypeOK
    <3> QED
      BY <3>1, <3>2, <3>3 DEF LoginTypeOK
  <2> QED
    BY <2>1, <2>2
<1>2. Unraced'
  BY DEF Unraced
<1>3. TicketsAreIssued'
  BY DEF LoginTypeOK, TicketsAreIssued
<1>4. SpentOrContested'
  BY DEF LoginTypeOK, SpentOrContested
<1> QED
  BY <1>1, <1>2, <1>3, <1>4

LEMMA AccountNext == AccountInv /\ [LoginNext]_loginVars => AccountInv'
<1> SUFFICES ASSUME AccountInv, [LoginNext]_loginVars PROVE AccountInv'
  OBVIOUS
<1>1. ASSUME NEW r \in Requests, FindPlayer(r) PROVE AccountInv'
  BY <1>1, FindInv
<1>2. ASSUME NEW r \in Requests, CreatePlayer(r) PROVE AccountInv'
  BY <1>2, CreateInv
<1>3. ASSUME NEW r \in Requests, IssueTicket(r) PROVE AccountInv'
  BY <1>3, IssueInv
<1>4. ASSUME NEW r \in Requests, RequestFails(r) \/ Expire(r) PROVE AccountInv'
  BY <1>4, LossInv
<1>5. ASSUME NEW s \in LoginSessions, NEW t \in Requests \cup {NoTicket}, GetTicket(s, t) PROVE AccountInv'
  BY <1>5, GetInv
<1>6. ASSUME NEW s \in LoginSessions, DelTicket(s) PROVE AccountInv'
  BY <1>6, DelInv
<1>7. ASSUME NEW s \in LoginSessions, DelFails(s) \/ EnterGameBound(s) PROVE AccountInv'
  BY <1>7, RestInv
<1>8. CASE UNCHANGED loginVars
  BY <1>8 DEF AccountInv, LoginTypeOK, Unraced, TicketsAreIssued, SpentOrContested, loginVars, webVars, gameVars
<1> QED
  BY <1>1, <1>2, <1>3, <1>4, <1>5, <1>6, <1>7, <1>8 DEF LoginNext

LEMMA AccountInvariance == LoginSpec => []AccountInv
  BY AccountInit, AccountNext, PTL DEF LoginSpec

(* The account has one character, and all its sessions play that one,      *)
(* unless two requests found none at the same time (AuthController:84-110).*)
THEOREM OneCharacterForAll == LoginSpec => []OneCharacter
<1>1. AccountInv => OneCharacter
  <2> SUFFICES ASSUME AccountInv PROVE OneCharacter
    OBVIOUS
  <2>1. LoginTypeOK /\ \A r \in Requests : r \in tickets => value[r] \in players
    BY DEF AccountInv, TicketsAreIssued
  <2>2. UNION {loaded[s] : s \in LoginSessions} \subseteq players
    BY DEF AccountInv, TicketsAreIssued
  <2>3. Cardinality(players) > 1 => raced
    <3>1. Cardinality({}) = 0 /\ Cardinality({1}) = 1
      BY FS_EmptySet, FS_Singleton, Zenon
    <3>2. ~raced => players = {} \/ players = {1}
      BY DEF AccountInv, Unraced
    <3> QED
      BY <3>1, <3>2
  <2> QED
    BY <2>1, <2>2, <2>3 DEF OneCharacter
<1> QED
  BY <1>1, AccountInvariance, PTL

(* A ticket that let a session in is gone for good, and let in a second    *)
(* one only if two handlers had read it (ServerPacketHandler.cpp:59-61).   *)
THEOREM TicketSpentAlways == LoginSpec => []TicketSpent
<1>1. AccountInv => TicketSpent
  BY DEF AccountInv, SpentOrContested, TicketSpent
<1> QED
  BY <1>1, AccountInvariance, PTL
=============================================================================
