------------------------ MODULE DBConnectionPoolProofs ------------------------
(***************************************************************************)
(* DBConnectionPool for any number of workers, connections and jobs: the   *)
(* pool keeps its size (I1), and a worker that wants a connection finds    *)
(* one, so that Pop never blocks.                                          *)
(*                                                                         *)
(* The argument.  While the pool is in service the idle connections and    *)
(* the leased ones are a partition of all, and no connection is leased     *)
(* twice: that is inductive.  A worker about to Pop holds no connection,   *)
(* so at most as many as there are other workers are leased, and there are *)
(* as many connections as workers.                                         *)
(***************************************************************************)
EXTENDS DBConnectionPool, FiniteSetTheorems, TLAPS

(* The inductive part of PoolKept.                                         *)
Partition ==
  clear # "done" =>
    /\ connections \cap Leased = {} /\ connections \cup Leased = Connections
    /\ \A v, w \in Workers : lease[v] = lease[w] /\ lease[v] # None => v = w

Inv == TypeOK /\ Partition

-----------------------------------------------------------------------------
(* The pigeonhole argument: with every connection leased, the workers that *)
(* hold one would be as many as all the workers, but one of them is about  *)
(* to Pop.                                                                 *)
LEMMA PopFindsOne ==
  ASSUME Inv, clear # "done", NEW w \in Workers, pc[w] = "pop"
  PROVE  connections # {}
<1> DEFINE Busy == {v \in Workers : lease[v] # None}
           f == [v \in Busy |-> lease[v]]
<1> SUFFICES ASSUME connections = {} PROVE FALSE
  OBVIOUS
<1>1. Leased = Connections
  BY DEF Inv, Partition
<1>2. f \in Surjection(Busy, Connections)
  <2>1. \A v \in Busy : lease[v] \in Connections
    BY <1>1 DEF Leased
  <2>2. \A c \in Connections : \E v \in Busy : lease[v] = c
    BY <1>1 DEF Leased
  <2> QED
    BY <2>1, <2>2 DEF Surjection
<1>3. w \notin Busy /\ Busy \subseteq Workers \ {w}
  BY DEF Inv, TypeOK
<1>4. /\ IsFiniteSet(Workers \ {w})
      /\ Cardinality(Workers \ {w}) = Cardinality(Workers) - 1
      /\ Cardinality(Workers) \in Nat
  BY FS_RemoveElement, FS_CardinalityType, PoolAssumption
<1>5. /\ IsFiniteSet(Busy) /\ Cardinality(Busy) <= Cardinality(Workers \ {w})
      /\ Cardinality(Busy) \in Nat
  BY <1>3, <1>4, FS_Subset, FS_CardinalityType
<1>6. Cardinality(Connections) <= Cardinality(Busy)
  BY <1>2, <1>5, FS_Surjection
<1> QED
  BY <1>4, <1>5, <1>6, PoolAssumption, FS_CardinalityType

LEMMA InitInv == Init => Inv
<1> SUFFICES ASSUME Init PROVE Inv
  OBVIOUS
<1>1. TypeOK
  <2>1. stop \in BOOLEAN
    BY Zenon DEF Init
  <2>2. <<>> \in Seq(Jobs)
    OBVIOUS
  <2> QED
    BY <2>1, <2>2 DEF Init, TypeOK
<1>2. Leased = {}
  BY DEF Init, Leased
<1>3. Partition
  BY <1>2 DEF Init, Partition
<1> QED
  BY <1>1, <1>3 DEF Inv

-----------------------------------------------------------------------------
LEMMA PushJobInv ==
  ASSUME Inv, NEW j \in Jobs, PushJob(j)
  PROVE  Inv'
<1> USE DEF Inv, PushJob
<1>1. jobs' \in Seq(Jobs)
  BY DEF TypeOK
<1>2. TypeOK'
  BY <1>1 DEF TypeOK, Waiting, Goto
<1>3. Partition'
  BY DEF Partition, Leased
<1> QED
  BY <1>2, <1>3

(* A worker takes a job, or returns.                                       *)
LEMMA AwakeInv ==
  ASSUME Inv, NEW w \in Workers, Awake(w)
  PROVE  Inv'
<1> USE DEF Inv, Awake, Proceed
<1>1. TypeOK'
  <2>1. CASE stop /\ jobs = <<>>
    BY <2>1 DEF TypeOK, Goto
  <2>2. CASE ~(stop /\ jobs = <<>>)
    <3>1. jobs # <<>> /\ jobs' = Tail(jobs) /\ Head(jobs) \in Jobs /\ Tail(jobs) \in Seq(Jobs)
      BY <2>2 DEF TypeOK
    <3>2. Head(jobs) # None
      BY <3>1, PoolAssumption
    <3> QED
      BY <2>2, <3>1, <3>2 DEF TypeOK, Goto
  <2> QED
    BY <2>1, <2>2
<1>2. Partition'
  BY DEF Partition, Leased
<1> QED
  BY <1>1, <1>2

(* The waiting of a worker, and the run of a job.                          *)
LEMMA WaitInv ==
  ASSUME Inv, NEW w \in Workers,
         \/ Decide(w) \/ Wait(w) \/ WakeSpuriously(w)
         \/ \E healthy \in BOOLEAN : RunJob(w, healthy)
  PROVE  Inv'
<1>1. TypeOK'
  BY DEF Inv, TypeOK, Goto, Decide, Wait, WakeSpuriously, RunJob, RunWhen
<1>2. Partition'
  BY DEF Inv, Partition, Leased, Decide, Wait, WakeSpuriously, RunJob, RunWhen
<1> QED
  BY <1>1, <1>2 DEF Inv

(* An idle connection becomes a leased one.                                *)
LEMMA PopInv ==
  ASSUME Inv, NEW w \in Workers, Pop(w)
  PROVE  Inv'
<1> PICK c \in connections : /\ lease' = [lease EXCEPT ![w] = c]
                             /\ connections' = connections \ {c}
  BY DEF Pop
<1>1. c \in Connections /\ c # None /\ lease[w] = None
  BY PoolAssumption DEF Inv, TypeOK, Pop
<1>2. TypeOK'
  BY <1>1 DEF Inv, TypeOK, Pop, Goto
<1>3. Leased' = Leased \cup {c}
  BY <1>1 DEF Leased, Inv, TypeOK
<1>4. Partition'
  <2> SUFFICES ASSUME clear # "done" PROVE Partition'
    BY DEF Partition, Pop
  <2>1. c \notin Leased
    BY DEF Inv, Partition
  <2>2. \A v \in Workers : lease[v] # c
    BY <1>1, <2>1 DEF Leased
  <2>3. \A u, v \in Workers : lease'[u] = lease'[v] /\ lease'[u] # None => u = v
    BY <2>2 DEF Inv, Partition, TypeOK
  <2>4. connections' \cap Leased' = {} /\ connections' \cup Leased' = Connections
    BY <1>3, <2>1 DEF Inv, Partition
  <2> QED
    BY <2>3, <2>4 DEF Partition
<1> QED
  BY <1>2, <1>4 DEF Inv

(* A leased connection becomes an idle one.                                *)
LEMMA ReturnInv ==
  ASSUME Inv, NEW w \in Workers, Return(w)
  PROVE  Inv'
<1> USE DEF Return, ReturnTo
<1>1. lease[w] \in Connections /\ lease[w] # None
  BY DEF Inv, TypeOK
<1>2. TypeOK'
  BY <1>1 DEF Inv, TypeOK, Goto
<1>3. Partition'
  <2> SUFFICES ASSUME clear # "done" PROVE Partition'
    BY DEF Partition
  <2>1. \A v \in Workers \ {w} : lease[v] # lease[w] /\ lease'[v] = lease[v]
    BY <1>1 DEF Inv, Partition, TypeOK
  <2>2. lease'[w] = None
    BY DEF Inv, TypeOK
  <2>3. Leased' = Leased \ {lease[w]} /\ lease[w] \in Leased
    BY <1>1, <2>1, <2>2 DEF Leased
  <2>4. connections' \cap Leased' = {} /\ connections' \cup Leased' = Connections
    BY <2>3 DEF Inv, Partition
  <2>5. \A u, v \in Workers : lease'[u] = lease'[v] /\ lease'[u] # None => u = v
    BY <2>1, <2>2 DEF Inv, Partition
  <2> QED
    BY <2>4, <2>5 DEF Partition
<1> QED
  BY <1>2, <1>3 DEF Inv

(* Clear deletes the connections only after the last worker has returned.  *)
LEMMA ClearInv ==
  ASSUME Inv, Clear
  PROVE  Inv'
<1>1. ASSUME SetStop PROVE Inv'
  BY <1>1 DEF Inv, TypeOK, Partition, Leased, SetStop
<1>2. ASSUME NotifyAll PROVE Inv'
  <2>1. TypeOK'
    BY <1>2 DEF Inv, TypeOK, Waiting, NotifyAll, NotifyTo
  <2>2. Partition'
    BY <1>2 DEF Inv, Partition, Leased, NotifyAll, NotifyTo
  <2> QED
    BY <2>1, <2>2 DEF Inv
<1>3. ASSUME Joined PROVE Inv'
  BY <1>3 DEF Inv, TypeOK, Partition, Joined
<1> QED
  BY <1>1, <1>2, <1>3 DEF Clear

-----------------------------------------------------------------------------
LEMMA NextInv == Inv /\ [Next]_vars => Inv'
<1> SUFFICES ASSUME Inv, [Next]_vars PROVE Inv'
  OBVIOUS
<1>1. CASE UNCHANGED vars
  BY <1>1 DEF vars, Inv, TypeOK, Partition, Leased
<1>2. ASSUME NEW j \in Jobs, PushJob(j) PROVE Inv'
  BY <1>2, PushJobInv
<1>3. ASSUME NEW w \in Workers, WorkerStep(w) \/ WakeSpuriously(w) PROVE Inv'
  BY <1>3, AwakeInv, WaitInv, PopInv, ReturnInv DEF WorkerStep
<1>4. CASE Clear
  BY <1>4, ClearInv
<1> QED
  BY <1>1, <1>2, <1>3, <1>4 DEF Next

LEMMA Invariance == Spec => []Inv
  BY InitInv, NextInv, PTL DEF Spec

(* I1, for any size of the pool: no connection is lost or shared, whatever *)
(* becomes of it or of the job, and no worker ever waits in Pop; a worker  *)
(* holds a connection exactly from its Pop to its return.                  *)
THEOREM PoolKeepsSize == Spec => []PoolSound
<1>1. Inv => PoolSound
  BY PopFindsOne DEF Inv, Partition, PoolKept, PoolSound
<1> QED
  BY <1>1, Invariance, PTL

-----------------------------------------------------------------------------
(* The jobs in the queue, and those that a worker has taken out of it.     *)
Queued == {jobs[i] : i \in DOMAIN jobs}
Held == {job[w] : w \in Workers} \ {None}

(* What Clear relies on.  A job pushed is in one of three places until it  *)
(* has run; a worker that returned was told to; the last one to return     *)
(* finds the queue empty, since only a job still running can push another. *)
Accounted ==
  /\ pushed = ran \cup Queued \cup Held
  /\ clear = "no" => ~stop
  /\ \A w \in Workers : pc[w] = "exited" => stop
  /\ (\A w \in Workers : pc[w] = "exited") => jobs = <<>>
  /\ clear = "done" => \A w \in Workers : pc[w] = "exited"

(* Entering and leaving the queue, seen from the set of what is in it.     *)
LEMMA QueueMembers ==
  ASSUME jobs \in Seq(Jobs)
  PROVE  /\ \A j \in Jobs : jobs' = Append(jobs, j) => Queued' = Queued \cup {j}
         /\ jobs # <<>> /\ jobs' = Tail(jobs) => Queued = Queued' \cup {Head(jobs)}
<1>1. ASSUME NEW j \in Jobs, jobs' = Append(jobs, j) PROVE Queued' = Queued \cup {j}
  <2>1. DOMAIN jobs = 1..Len(jobs) /\ DOMAIN jobs' = 1..(Len(jobs) + 1) /\ Len(jobs) \in Nat
    BY <1>1
  <2>2. jobs'[Len(jobs) + 1] = j /\ \A i \in 1..Len(jobs) : jobs'[i] = jobs[i]
    BY <1>1
  <2> QED
    BY <2>1, <2>2 DEF Queued
<1>2. ASSUME jobs # <<>>, jobs' = Tail(jobs) PROVE Queued = Queued' \cup {Head(jobs)}
  <2>1. DOMAIN jobs = 1..Len(jobs) /\ DOMAIN jobs' = 1..(Len(jobs) - 1) /\ Len(jobs) \in Nat \ {0}
    BY <1>2
  <2>2. Head(jobs) = jobs[1] /\ \A i \in 1..(Len(jobs) - 1) : jobs'[i] = jobs[i + 1]
    BY <1>2
  <2>3. ASSUME NEW i \in 1..Len(jobs) PROVE jobs[i] \in Queued' \cup {Head(jobs)}
    <3>1. CASE i = 1
      BY <2>2, <3>1
    <3>2. CASE i # 1
      <4>1. i - 1 \in 1..(Len(jobs) - 1) /\ jobs'[i - 1] = jobs[i]
        BY <2>1, <2>2, <3>2
      <4> QED
        BY <2>1, <4>1 DEF Queued
    <3> QED
      BY <3>1, <3>2
  <2>4. Queued' \cup {Head(jobs)} \subseteq Queued
    BY <2>1, <2>2 DEF Queued
  <2> QED
    BY <2>1, <2>3, <2>4 DEF Queued
<1> QED
  BY <1>1, <1>2

LEMMA InitAccounted == Init => Accounted
<1> SUFFICES ASSUME Init PROVE Accounted
  OBVIOUS
<1>1. Queued = {} /\ Held = {}
  BY DEF Init, Queued, Held
<1> QED
  BY <1>1 DEF Init, Accounted

LEMMA PushJobAccounted ==
  ASSUME Inv, Accounted, NEW j \in Jobs, PushJob(j)
  PROVE  Accounted'
<1> USE DEF PushJob
<1>1. Queued' = Queued \cup {j} /\ Held' = Held
  BY QueueMembers DEF Held, Inv, TypeOK
<1>2. \E w \in Workers : pc[w] # "exited"
  BY PoolAssumption DEF Accounted
<1>3. \A w \in Workers : pc'[w] = "exited" <=> pc[w] = "exited"
  BY DEF Waiting, Goto, Inv, TypeOK
<1> QED
  BY <1>1, <1>2, <1>3 DEF Accounted

(* The worker that finds the queue empty and _stop set returns.            *)
LEMMA AwakeAccounted ==
  ASSUME Inv, Accounted, NEW w \in Workers, Awake(w)
  PROVE  Accounted'
<1> USE DEF Awake, Proceed, Goto
<1>1. CASE stop /\ jobs = <<>>
  <2>1. Queued' = Queued /\ Held' = Held /\ jobs' = <<>>
    BY <1>1 DEF Queued, Held
  <2>2. pc[w] = "check" /\ \A v \in Workers : pc'[v] = "exited" => v = w \/ pc[v] = "exited"
    BY <1>1 DEF Inv, TypeOK
  <2> QED
    BY <1>1, <2>1, <2>2 DEF Accounted
<1>2. CASE ~(stop /\ jobs = <<>>)
  <2>1. /\ jobs # <<>> /\ jobs' = Tail(jobs) /\ Head(jobs) \in Jobs
        /\ job' = [job EXCEPT ![w] = Head(jobs)] /\ pc' = [pc EXCEPT ![w] = "pop"]
    BY <1>2 DEF Inv, TypeOK
  <2>2. Queued = Queued' \cup {Head(jobs)}
    BY <2>1, QueueMembers DEF Inv, TypeOK
  <2>3. Held' = Held \cup {Head(jobs)}
    <3>1. job[w] = None /\ Head(jobs) # None
      BY <2>1, PoolAssumption DEF Inv, TypeOK
    <3> QED
      BY <2>1, <3>1 DEF Held, Inv, TypeOK
  <2>4. pc[w] = "check" /\ pc'[w] = "pop" /\ \A v \in Workers \ {w} : pc'[v] = pc[v]
    BY <2>1 DEF Inv, TypeOK
  <2> QED
    BY <2>2, <2>3, <2>4 DEF Accounted
<1> QED
  BY <1>1, <1>2

(* The job of the worker has run: it is not held any more.                 *)
LEMMA RunAccounted ==
  ASSUME Inv, Accounted, NEW w \in Workers, NEW healthy \in BOOLEAN, RunJob(w, healthy)
  PROVE  Accounted'
<1> USE DEF RunJob, RunWhen, Goto
<1>1. job[w] # None /\ ran' = ran \cup {job[w]} /\ job' = [job EXCEPT ![w] = None]
  BY DEF Inv, TypeOK
<1>2. Held \cup ran' = Held' \cup ran' /\ job[w] \in Held
  BY <1>1 DEF Held, Inv, TypeOK
<1>3. Queued' = Queued
  BY DEF Queued
<1>4. pc'[w] = "return" /\ \A v \in Workers \ {w} : pc'[v] = pc[v]
  BY DEF Inv, TypeOK
<1> QED
  BY <1>1, <1>2, <1>3, <1>4 DEF Accounted

(* Steps that touch neither the queue nor a job, and let nobody return.    *)
LEMMA RestAccounted ==
  ASSUME Inv, Accounted, NEW w \in Workers,
         Decide(w) \/ Wait(w) \/ WakeSpuriously(w) \/ Pop(w) \/ Return(w)
  PROVE  Accounted'
<1> USE DEF Decide, Wait, WakeSpuriously, Pop, Return, ReturnTo, Goto
<1>1. Queued' = Queued /\ Held' = Held
  BY DEF Queued, Held
<1>2. pc[w] # "exited" /\ pc'[w] # "exited" /\ \A v \in Workers \ {w} : pc'[v] = pc[v]
  BY DEF Inv, TypeOK
<1>3. UNCHANGED <<jobs, stop, clear, pushed, ran>>
  OBVIOUS
<1> QED
  BY <1>1, <1>2, <1>3 DEF Accounted

LEMMA ClearAccounted ==
  ASSUME Inv, Accounted, Clear
  PROVE  Accounted'
<1>1. Queued' = Queued /\ Held' = Held
  BY DEF Queued, Held, Clear, SetStop, NotifyAll, NotifyTo, Joined
<1>2. \A w \in Workers : pc'[w] = "exited" <=> pc[w] = "exited"
  BY DEF Clear, SetStop, NotifyAll, NotifyTo, Joined, Waiting, Inv, TypeOK
<1> QED
  BY <1>1, <1>2 DEF Accounted, Clear, SetStop, NotifyAll, NotifyTo, Joined

LEMMA NextAccounted == Inv /\ Accounted /\ [Next]_vars => Accounted'
<1> SUFFICES ASSUME Inv, Accounted, [Next]_vars PROVE Accounted'
  OBVIOUS
<1>1. CASE UNCHANGED vars
  BY <1>1 DEF vars, Accounted, Queued, Held
<1>2. ASSUME NEW j \in Jobs, PushJob(j) PROVE Accounted'
  BY <1>2, PushJobAccounted
<1>3. ASSUME NEW w \in Workers, WorkerStep(w) \/ WakeSpuriously(w) PROVE Accounted'
  BY <1>3, AwakeAccounted, RunAccounted, RestAccounted DEF WorkerStep
<1>4. CASE Clear
  BY <1>4, ClearAccounted
<1> QED
  BY <1>1, <1>2, <1>3, <1>4 DEF Next

(* Once Clear has returned every job pushed has run, those pushed by jobs  *)
(* during the shutdown too, and every connection was given back, for any   *)
(* number of workers, connections and jobs.                                *)
THEOREM NothingLeftByClear == Spec => []FlushedByClear
<1>1. Spec => []Accounted
  BY InitAccounted, NextAccounted, Invariance, PTL DEF Spec
<1>2. Inv /\ Accounted => FlushedByClear
  <2> SUFFICES ASSUME Inv, Accounted, clear = "done" PROVE ran = pushed /\ Leased = {}
    BY DEF FlushedByClear
  <2>1. jobs = <<>> /\ \A w \in Workers : job[w] = None /\ lease[w] = None
    BY DEF Accounted, Inv, TypeOK
  <2>2. Queued = {} /\ Held = {} /\ Leased = {}
    BY <2>1 DEF Queued, Held, Leased
  <2> QED
    BY <2>2 DEF Accounted
<1> QED
  BY <1>1, <1>2, Invariance, PTL

=============================================================================
