---------------------------- MODULE JobQueueProofs ----------------------------
(***************************************************************************)
(* JobQueue for any number of threads and jobs: its type invariant, the    *)
(* safety invariants that make it a serial executor, the order of the jobs *)
(* and the refinement of SerialExecutor.                                   *)
(*                                                                         *)
(* The argument.  A thread that counted from 0, or is in Execute, owns the *)
(* queue.  There is at most one owner, and there is one exactly while jobs *)
(* are counted; the two facts need each other (Push becomes an owner only  *)
(* when the count is 0) and an exact account of _jobCount, since the owner *)
(* leaves when the count equals its batch: nothing else is counted then.   *)
(*                                                                         *)
(* With one owner, the jobs that ended, the rest of its batch and the      *)
(* queue are one line of jobs.  The first half of a Push appends to it;    *)
(* popping, running and handing the ownership over only move the marks     *)
(* between its three parts.                                                *)
(***************************************************************************)
EXTENDS JobQueue, FiniteSetTheorems, SequenceTheorems, TLAPS

(* The queue has at most one owner.                                        *)
OneOwner == \A t, u \in Threads : Owns(t) /\ Owns(u) => t = u

(* What a thread's local variables are at each place.                      *)
Coherent ==
  \A t \in Threads :
    /\ pushPc[t] # "idle" => pushJob[t] \in Jobs
    /\ execPc[t] = "none" => batch[t] = <<>>
    /\ execPc[t] \in {"none", "drain"} => at[t] = 1
    /\ execPc[t] = "job" => at[t] <= Len(batch[t])
    /\ execPc[t] = "settle" => at[t] = Len(batch[t]) + 1
    /\ execPc[t] \in {"drain", "settle"} => pushPc[t] = "idle"

Inv == /\ TypeOK /\ Coherent
       /\ OneOwner /\ NoReentry /\ OwnedWhileCounted /\ CountAccounts

-----------------------------------------------------------------------------
(* Any set of threads is finite, and its cardinality a natural number.     *)
LEMMA FiniteThreads ==
  ASSUME NEW S \in SUBSET Threads
  PROVE  IsFiniteSet(S) /\ Cardinality(S) \in Nat
  BY ThreadsAssumption, FS_Subset, FS_CardinalityType

LEMMA InitInv == Init => Inv
<1> SUFFICES ASSUME Init PROVE Inv
  OBVIOUS
<1>1. TypeOK
  BY DEF Init, TypeOK
<1>2. Counted = {} /\ Len(queue) = 0
  BY DEF Init, Counted
<1>3. CountAccounts
  BY <1>2, FS_EmptySet DEF Init, CountAccounts, Executing
<1>4. Coherent /\ OneOwner /\ NoReentry /\ OwnedWhileCounted
  BY DEF Init, Coherent, OneOwner, NoReentry, OwnedWhileCounted, Owns, Executing
<1> QED
  BY <1>1, <1>3, <1>4 DEF Inv

(* _jobCount.fetch_add: the one step that can make an owner.               *)
LEMMA CountInv ==
  ASSUME Inv, NEW t \in Threads, NEW j \in Jobs, Count(t, j)
  PROVE  Inv'
<1> USE DEF Inv
<1>1. TypeOK'
  BY DEF TypeOK, Count, executing
<1>2. Coherent'
  BY DEF Coherent, TypeOK, Count, executing
<1>3. /\ \A u \in Threads \ {t} : Owns(u)' <=> Owns(u)
      /\ Owns(t)' <=> Owns(t) \/ jobCount = 0
      /\ \A u \in Threads : Executing(u)' <=> Executing(u)
  BY DEF Owns, Executing, TypeOK, Count, executing
<1>4. jobCount = 0 => \A u \in Threads : ~Owns(u)
  BY DEF OwnedWhileCounted, TypeOK
<1>5. OneOwner'
  BY <1>3, <1>4 DEF OneOwner
<1>6. NoReentry'
  BY <1>3, <1>4 DEF NoReentry, Owns, TypeOK, Count, executing
<1>7. OwnedWhileCounted'
  BY <1>3, <1>4 DEF OwnedWhileCounted, TypeOK, Count
<1>8. Cardinality(Counted') = Cardinality(Counted) + 1 /\ Cardinality(Counted) \in Nat
  <2>1. Counted' = Counted \cup {t} /\ t \notin Counted
    BY DEF Counted, TypeOK, Count
  <2> QED
    BY <2>1, FiniteThreads, FS_AddElement DEF Counted
<1>9. CountAccounts'
  <2>1. Len(queue) \in Nat /\ \A u \in Threads : Len(batch[u]) \in Nat
    BY DEF TypeOK
  <2>2. jobCount' = jobCount + 1 /\ queue' = queue /\ batch' = batch /\ jobCount \in Nat
    BY DEF Count, executing, TypeOK
  <2>3. jobCount = Cardinality(Counted) + Len(queue)
          => jobCount' = Cardinality(Counted') + Len(queue')
    BY <1>8, <2>1, <2>2
  <2>4. ASSUME NEW u \in Threads,
               jobCount = Cardinality(Counted) + Len(queue) + Len(batch[u])
        PROVE  jobCount' = Cardinality(Counted') + Len(queue') + Len(batch'[u])
    BY <1>8, <2>1, <2>2, <2>4
  <2> QED
    BY <1>3, <2>3, <2>4 DEF CountAccounts
<1> QED
  BY <1>1, <1>2, <1>5, <1>6, <1>7, <1>9

(* _jobs.Push, first half: a counted job is in the queue instead.          *)
LEMMA EnterQueueInv ==
  ASSUME Inv, NEW t \in Threads, EnterQueue(t)
  PROVE  Inv'
<1> USE DEF Inv
<1>1. /\ queue' \in Seq(Q!Entry)
      /\ Len(queue') = Len(queue) + 1 /\ Len(queue) \in Nat
  <2>1. [item |-> pushJob[t], by |-> t] \in Q!Entry
    BY DEF EnterQueue, Coherent, Q!Entry
  <2> QED
    BY <2>1 DEF EnterQueue, Q!Enter, TypeOK
<1>2. TypeOK'
  BY <1>1 DEF TypeOK, EnterQueue, executing
<1>3. Coherent'
  BY DEF Coherent, TypeOK, EnterQueue, executing
<1>4. \A u \in Threads : (Owns(u)' <=> Owns(u)) /\ (Executing(u)' <=> Executing(u))
  BY DEF Owns, Executing, TypeOK, EnterQueue, executing
<1>5. OneOwner' /\ OwnedWhileCounted'
  BY <1>4 DEF OneOwner, OwnedWhileCounted, EnterQueue
<1>6. NoReentry'
  BY <1>4 DEF NoReentry, TypeOK, EnterQueue
<1>7. Cardinality(Counted') = Cardinality(Counted) - 1 /\ Cardinality(Counted) \in Nat
  <2>1. Counted' = Counted \ {t} /\ t \in Counted
    BY DEF Counted, TypeOK, EnterQueue
  <2> QED
    BY <2>1, FiniteThreads, FS_RemoveElement DEF Counted
<1>8. CountAccounts'
  <2>1. /\ jobCount' = jobCount /\ batch' = batch
        /\ jobCount \in Nat /\ \A u \in Threads : Len(batch[u]) \in Nat
    BY DEF EnterQueue, executing, TypeOK
  <2> QED
    BY <1>1, <1>4, <1>7, <2>1 DEF CountAccounts
<1> QED
  BY <1>2, <1>3, <1>5, <1>6, <1>8

(* _jobs.Push, second half: the thread that counted from 0 goes on to      *)
(* Execute, so its ownership has no gap; it was not executing before.      *)
LEMMA FinishPushInv ==
  ASSUME Inv, NEW t \in Threads, FinishPush(t)
  PROVE  Inv'
<1> USE DEF Inv, FinishPush, FinishPushAnd
<1>1. /\ queue' \in Seq(Q!Entry)
      /\ Len(queue') = Len(queue) /\ Len(queue) \in Nat
  <2>1. ASSUME NEW e \in Q!Entry PROVE [e EXCEPT !.by = Nobody] \in Q!Entry
    BY DEF Q!Entry
  <2>2. DOMAIN queue = 1..Len(queue) /\ Len(queue) \in Nat
    BY DEF TypeOK
  <2>3. \A i \in DOMAIN queue : queue[i] \in Q!Entry
    BY <2>2 DEF TypeOK
  <2>4. queue' \in [1..Len(queue) -> Q!Entry]
    BY <2>1, <2>2, <2>3 DEF Q!Finish
  <2> QED
    BY <2>2, <2>4
<1>2. TypeOK'
  BY <1>1 DEF TypeOK
<1>3. prevCount[t] = 0 => execPc[t] = "none"
  BY DEF NoReentry, Executing
<1>4. Coherent'
  BY <1>3 DEF Coherent, TypeOK
<1>5. /\ \A u \in Threads : Owns(u)' <=> Owns(u)
      /\ \A u \in Threads \ {t} : Executing(u)' <=> Executing(u)
      /\ Executing(t)' <=> Executing(t) \/ prevCount[t] = 0
  BY <1>3 DEF Owns, Executing, TypeOK
<1>6. OneOwner' /\ OwnedWhileCounted'
  BY <1>5 DEF OneOwner, OwnedWhileCounted
<1>7. NoReentry'
  BY <1>5 DEF NoReentry, TypeOK
<1>8. CountAccounts'
  <2>1. Counted' = Counted
    BY DEF Counted, TypeOK
  <2>2. jobCount' = jobCount /\ batch' = batch
    OBVIOUS
  <2>3. CASE prevCount[t] = 0
    <3>1. Owns(t)
      BY <2>3 DEF Owns
    <3>2. \A u \in Threads : ~Executing(u)
      BY <1>3, <2>3, <3>1 DEF OneOwner, Owns, Executing
    <3>3. batch[t] = <<>> /\ Len(batch[t]) = 0
      BY <1>3, <2>3 DEF Coherent
    <3>4. jobCount = Cardinality(Counted) + Len(queue) /\ Cardinality(Counted) \in Nat
      BY <3>2, FiniteThreads DEF CountAccounts, Counted
    <3> QED
      BY <1>1, <1>5, <2>1, <2>2, <2>3, <3>2, <3>3, <3>4 DEF CountAccounts
  <2>4. CASE prevCount[t] # 0
    BY <1>1, <1>5, <2>1, <2>2, <2>4 DEF CountAccounts
  <2> QED
    BY <2>3, <2>4
<1> QED
  BY <1>2, <1>4, <1>6, <1>7, <1>8

-----------------------------------------------------------------------------
(* Execute, one Pop: a job moves from the queue to the batch.              *)
LEMMA DrainOneInv ==
  ASSUME Inv, NEW t \in Threads, DrainOne(t)
  PROVE  Inv'
<1> USE DEF Inv, DrainOne, DrainInto
<1>1. /\ queue # <<>> /\ queue' = Tail(queue) /\ queue \in Seq(Q!Entry)
      /\ queue' \in Seq(Q!Entry) /\ Head(queue) \in Q!Entry
      /\ Len(queue') = Len(queue) - 1 /\ Len(queue) \in Nat
  BY DEF Q!Take, Q!Poppable, TypeOK
<1>2. /\ batch[t] \in Seq(Jobs) /\ Head(queue).item \in Jobs
      /\ batch'[t] \in Seq(Jobs) /\ Len(batch'[t]) = Len(batch[t]) + 1
      /\ batch' = [batch EXCEPT ![t] = batch'[t]]
  BY <1>1 DEF TypeOK, Q!Entry
<1>3. TypeOK'
  BY <1>1, <1>2 DEF TypeOK, pushing
<1>4. Coherent'
  BY DEF Coherent, TypeOK, pushing
<1>5. \A u \in Threads : (Owns(u)' <=> Owns(u)) /\ (Executing(u)' <=> Executing(u))
  BY DEF Owns, Executing, pushing
<1>6. OneOwner' /\ OwnedWhileCounted' /\ NoReentry'
  BY <1>5 DEF OneOwner, OwnedWhileCounted, NoReentry, pushing
<1>7. CountAccounts'
  <2>1. Executing(t) /\ \A u \in Threads : Executing(u) => u = t
    BY DEF OneOwner, Owns, Executing
  <2>2. /\ Counted' = Counted /\ jobCount' = jobCount
        /\ Cardinality(Counted) \in Nat /\ Len(batch[t]) \in Nat
    BY <1>2, FiniteThreads DEF Counted, pushing
  <2>3. jobCount' = Cardinality(Counted') + Len(queue') + Len(batch'[t])
    BY <1>1, <1>2, <2>1, <2>2 DEF CountAccounts
  <2> QED
    BY <1>5, <2>1, <2>3 DEF CountAccounts
<1> QED
  BY <1>3, <1>4, <1>6, <1>7

(* Execute, the end of the draining: only the place changes.               *)
LEMMA DrainDoneInv ==
  ASSUME Inv, NEW t \in Threads, DrainDone(t)
  PROVE  Inv'
<1> USE DEF Inv, DrainDone, RunBatch
<1>1. TypeOK'
  BY DEF TypeOK, pushing
<1>2. Coherent'
  <2>1. batch[t] # <<>> => 1 <= Len(batch[t])
    BY DEF TypeOK
  <2> QED
    BY <2>1 DEF Coherent, TypeOK, pushing
<1>3. \A u \in Threads : (Owns(u)' <=> Owns(u)) /\ (Executing(u)' <=> Executing(u))
  BY DEF Owns, Executing, TypeOK, pushing
<1>4. OneOwner' /\ OwnedWhileCounted' /\ NoReentry'
  BY <1>3 DEF OneOwner, OwnedWhileCounted, NoReentry, pushing
<1>5. CountAccounts'
  BY <1>3 DEF CountAccounts, Counted, pushing
<1> QED
  BY <1>1, <1>2, <1>4, <1>5

(* Execute, one job: the index advances within the batch.                  *)
LEMMA EndJobInv ==
  ASSUME Inv, NEW t \in Threads, EndJob(t)
  PROVE  Inv'
<1> USE DEF Inv, EndJob
<1>1. at[t] \in 1..Len(batch[t]) /\ batch[t][at[t]] \in Jobs
  BY DEF Coherent, TypeOK
<1>2. TypeOK'
  BY <1>1 DEF TypeOK, pushing
<1>3. Coherent'
  <2>1. at[t] # Len(batch[t]) => at[t] + 1 <= Len(batch[t])
    BY <1>1
  <2> QED
    BY <2>1 DEF Coherent, TypeOK, pushing
<1>4. \A u \in Threads : (Owns(u)' <=> Owns(u)) /\ (Executing(u)' <=> Executing(u))
  BY DEF Owns, Executing, TypeOK, pushing
<1>5. OneOwner' /\ OwnedWhileCounted' /\ NoReentry'
  BY <1>4 DEF OneOwner, OwnedWhileCounted, NoReentry, pushing
<1>6. CountAccounts'
  BY <1>4 DEF CountAccounts, Counted, pushing
<1> QED
  BY <1>2, <1>3, <1>5, <1>6

(* _jobCount.fetch_sub: the owner leaves exactly when it subtracts         *)
(* everything that was counted.                                            *)
LEMMA SettleInv ==
  ASSUME Inv, NEW t \in Threads, Settle(t)
  PROVE  Inv'
<1> USE DEF Inv, Settle, SettleWith
<1>1. Executing(t) /\ \A u \in Threads : Owns(u) <=> u = t
  BY DEF OneOwner, Owns, Executing
<1>2. /\ Len(batch[t]) \in Nat /\ Len(queue) \in Nat /\ Cardinality(Counted) \in Nat
      /\ jobCount \in Nat /\ jobCount = Cardinality(Counted) + Len(queue) + Len(batch[t])
  BY <1>1, FiniteThreads DEF TypeOK, CountAccounts, Counted
<1>3. jobCount' \in Nat /\ jobCount' = Cardinality(Counted) + Len(queue)
  BY <1>2
<1>4. TypeOK'
  BY <1>3 DEF TypeOK, pushing
<1>5. Coherent'
  BY DEF Coherent, TypeOK, pushing
<1>6. Executing(t)' <=> jobCount' # 0
  BY <1>2 DEF Executing, TypeOK
<1>7. /\ pushPc[t] = "idle" /\ pushPc' = pushPc /\ prevCount' = prevCount
      /\ \A u \in Threads \ {t} : execPc'[u] = execPc[u]
  BY DEF Coherent, TypeOK, pushing
<1>8. \A u \in Threads : Owns(u)' => u = t
  BY <1>1, <1>7 DEF Owns, Executing
<1>9. Owns(t)' <=> Executing(t)'
  BY <1>7 DEF Owns
<1>10. OneOwner' /\ OwnedWhileCounted' /\ NoReentry'
  <2>1. OneOwner'
    BY <1>8 DEF OneOwner
  <2>2. OwnedWhileCounted'
    BY <1>3, <1>6, <1>8, <1>9 DEF OwnedWhileCounted
  <2>3. NoReentry'
    BY <1>7 DEF NoReentry, Executing
  <2> QED
    BY <2>1, <2>2, <2>3
<1>11. CountAccounts'
  <2>1. Counted' = Counted /\ queue' = queue /\ Len(batch'[t]) = 0
    BY DEF Counted, TypeOK, pushing
  <2>2. jobCount' = Cardinality(Counted') + Len(queue') + Len(batch'[t])
    BY <1>2, <1>3, <2>1
  <2>3. \A u \in Threads : Executing(u)' => u = t
    BY <1>8 DEF Owns
  <2> QED
    BY <1>2, <1>3, <2>1, <2>2, <2>3 DEF CountAccounts
<1> QED
  BY <1>4, <1>5, <1>10, <1>11

-----------------------------------------------------------------------------
(* Every step keeps the invariant.                                         *)
LEMMA NextInv == Inv /\ [Next]_vars => Inv'
<1> SUFFICES ASSUME Inv, [Next]_vars PROVE Inv'
  OBVIOUS
<1>1. CASE UNCHANGED vars
  BY <1>1 DEF vars, pushing, executing, Inv, TypeOK, Coherent, OneOwner, NoReentry,
              OwnedWhileCounted, CountAccounts, Owns, Executing, Counted
<1>2. ASSUME NEW t \in Threads, NEW j \in Jobs, Count(t, j) PROVE Inv'
  BY <1>2, CountInv
<1>3. ASSUME NEW t \in Threads, Step(t) PROVE Inv'
  BY <1>3, EnterQueueInv, FinishPushInv, DrainOneInv, DrainDoneInv, EndJobInv, SettleInv
     DEF Step
<1> QED
  BY <1>1, <1>2, <1>3 DEF Next

LEMMA Invariance == Spec => []Inv
  BY InitInv, NextInv, PTL DEF Spec

(* Whatever threads push and whenever they are preempted, one thread at a  *)
(* time drains the queue and runs jobs, and a job that pushes into its own *)
(* queue never enters Execute again.                                       *)
THEOREM OneExecutor == Spec => []OneAtATime
<1>1. Inv => OneAtATime
  BY DEF Inv, OneAtATime, OneOwner, SingleExecutor, Owns
<1> QED
  BY <1>1, Invariance, PTL

(* _jobCount is exactly what is being pushed, queued or in the batch; and  *)
(* a counted job always has an owner, an owner a counted job: no job waits *)
(* in a queue that nobody is going to drain.                               *)
THEOREM NoJobLeftBehind == Spec => []CountKept
<1>1. Inv => CountKept
  BY DEF Inv, CountKept
<1> QED
  BY <1>1, Invariance, PTL

-----------------------------------------------------------------------------
(* Sequences cut and joined.                                               *)
LEMMA AppendConcat ==
  ASSUME NEW S, NEW s \in Seq(S), NEW t \in Seq(S), NEW e \in S
  PROVE  s \o Append(t, e) = Append(s \o t, e)
<1>1. /\ Append(t, e) \in Seq(S) /\ s \o t \in Seq(S) /\ <<e>> \in Seq(S)
      /\ Append(t, e) = t \o <<e>> /\ Append(s \o t, e) = (s \o t) \o <<e>>
  BY AppendProperties, ConcatProperties, AppendIsConcat
<1> QED
  BY <1>1, ConcatAssociative

LEMMA HeadThenTail ==
  ASSUME NEW S, NEW s \in Seq(S), s # <<>>
  PROVE  /\ Head(s) \in S /\ Tail(s) \in Seq(S) /\ <<Head(s)>> \in Seq(S)
         /\ s = <<Head(s)>> \o Tail(s)
<1>1. /\ Head(s) \in S /\ Tail(s) \in Seq(S) /\ <<Head(s)>> \in Seq(S)
      /\ Len(s) \in Nat \ {0} /\ Len(Tail(s)) = Len(s) - 1
      /\ \A i \in 1..(Len(s) - 1) : Tail(s)[i] = s[i + 1]
  BY HeadTailProperties, EmptySeq
<1> DEFINE u == <<Head(s)>> \o Tail(s)
<1>2. /\ u \in Seq(S) /\ Len(u) = Len(s)
      /\ \A i \in 1..Len(s) : u[i] = IF i <= 1 THEN Head(s) ELSE Tail(s)[i - 1]
  BY <1>1, ConcatProperties
<1>3. ASSUME NEW i \in 1..Len(s) PROVE u[i] = s[i]
  BY <1>1, <1>2, <1>3
<1> HIDE DEF u
<1>4. s = u
  BY <1>2, <1>3, SeqEqual
<1> QED
  BY <1>1, <1>4 DEF u

(* The head of one sequence is moved to the end of the one before it.      *)
LEMMA MoveHead ==
  ASSUME NEW S, NEW s \in Seq(S), NEW t \in Seq(S), t # <<>>
  PROVE  Append(s, Head(t)) \o Tail(t) = s \o t
<1>1. /\ Head(t) \in S /\ Tail(t) \in Seq(S) /\ <<Head(t)>> \in Seq(S)
      /\ t = <<Head(t)>> \o Tail(t)
  BY HeadThenTail
<1>2. Append(s, Head(t)) = s \o <<Head(t)>>
  BY <1>1, AppendIsConcat
<1>3. (s \o <<Head(t)>>) \o Tail(t) = s \o (<<Head(t)>> \o Tail(t))
  BY <1>1, ConcatAssociative
<1> QED
  BY <1>1, <1>2, <1>3, Zenon

LEMMA HeadTailOfConcat ==
  ASSUME NEW S, NEW s \in Seq(S), NEW t \in Seq(S), s # <<>>
  PROVE  s \o t # <<>> /\ Head(s \o t) = Head(s) /\ Tail(s \o t) = Tail(s) \o t
<1>1. /\ Head(s) \in S /\ Tail(s) \in Seq(S)
      /\ Len(s) \in Nat \ {0} /\ Len(Tail(s)) = Len(s) - 1 /\ Len(t) \in Nat
      /\ \A i \in 1..(Len(s) - 1) : Tail(s)[i] = s[i + 1]
      /\ Head(s) = s[1]
  BY HeadTailProperties, EmptySeq
<1> DEFINE u == s \o t
<1>2. /\ u \in Seq(S) /\ Len(u) = Len(s) + Len(t)
      /\ \A i \in 1..(Len(s) + Len(t)) : u[i] = IF i <= Len(s) THEN s[i] ELSE t[i - Len(s)]
  BY ConcatProperties
<1> HIDE DEF u
<1>3. u # <<>> /\ Head(u) = u[1] /\ u[1] = s[1]
  <2>1. u # <<>>
    BY <1>1, <1>2
  <2>2. 1 \in 1..(Len(s) + Len(t)) /\ 1 <= Len(s)
    BY <1>1
  <2> QED
    BY <1>2, <2>1, <2>2
<1>4. /\ Tail(u) \in Seq(S) /\ Len(Tail(u)) = Len(s) + Len(t) - 1
      /\ \A i \in 1..(Len(s) + Len(t) - 1) : Tail(u)[i] = u[i + 1]
  BY <1>1, <1>2, <1>3, HeadTailProperties
<1> DEFINE v == Tail(s) \o t
<1>5. /\ v \in Seq(S) /\ Len(v) = Len(s) - 1 + Len(t)
      /\ \A i \in 1..(Len(s) - 1 + Len(t)) :
           v[i] = IF i <= Len(s) - 1 THEN Tail(s)[i] ELSE t[i - (Len(s) - 1)]
  BY <1>1, ConcatProperties
<1> HIDE DEF v
<1>6. ASSUME NEW i \in 1..(Len(s) + Len(t) - 1) PROVE Tail(u)[i] = v[i]
  <2>1. CASE i <= Len(s) - 1
    <3>1. /\ i + 1 \in 1..(Len(s) + Len(t)) /\ i + 1 <= Len(s)
          /\ i \in 1..(Len(s) - 1) /\ i \in 1..(Len(s) - 1 + Len(t))
      BY <1>1, <2>1
    <3>2. u[i + 1] = s[i + 1]
      BY <1>2, <3>1
    <3>3. v[i] = Tail(s)[i]
      BY <1>5, <2>1, <3>1
    <3>4. Tail(s)[i] = s[i + 1]
      BY <1>1, <3>1
    <3>5. Tail(u)[i] = u[i + 1]
      BY <1>4
    <3> QED
      BY <3>2, <3>3, <3>4, <3>5
  <2>2. CASE ~(i <= Len(s) - 1)
    <3>1. /\ i + 1 \in 1..(Len(s) + Len(t)) /\ ~(i + 1 <= Len(s)) /\ ~(i <= Len(s) - 1)
          /\ i \in 1..(Len(s) - 1 + Len(t)) /\ (i + 1) - Len(s) = i - (Len(s) - 1)
      BY <1>1, <2>2
    <3>2. u[i + 1] = t[(i + 1) - Len(s)]
      BY <1>2, <3>1
    <3>3. v[i] = t[i - (Len(s) - 1)]
      BY <1>5, <3>1
    <3> QED
      BY <1>4, <3>1, <3>2, <3>3
  <2> QED
    BY <2>1, <2>2
<1>7. Tail(u) = v
  <2>1. Len(Tail(u)) = Len(v)
    BY <1>1, <1>4, <1>5
  <2>2. \A i \in 1..Len(Tail(u)) : Tail(u)[i] = v[i]
    BY <1>4, <1>6
  <2> QED
    BY <1>4, <1>5, <2>1, <2>2, SeqEqual
<1> QED
  BY <1>1, <1>3, <1>7 DEF u, v

-----------------------------------------------------------------------------
(* What waits: the rest of the one executor's batch, then the queue.       *)
Waiting == RestOfBatch \o QueuedJobs

Parts ==
  /\ \A t \in Threads : Executing(t) =>
       /\ batch[t] \in Seq(Jobs) /\ at[t] \in 1..(Len(batch[t]) + 1)
       /\ RestOfBatch = SubSeq(batch[t], at[t], Len(batch[t]))
  /\ (\A t \in Threads : ~Executing(t)) => RestOfBatch = <<>>
  /\ RestOfBatch \in Seq(Jobs) /\ QueuedJobs \in Seq(Jobs)
  /\ Len(queue) \in Nat /\ Len(QueuedJobs) = Len(queue) /\ DOMAIN queue = 1..Len(queue)
  /\ \A i \in 1..Len(queue) : QueuedJobs[i] = queue[i].item

LEMMA PartsHold == Inv => Parts
<1> SUFFICES ASSUME Inv PROVE Parts
  OBVIOUS
<1>1. TypeOK /\ Coherent
  BY DEF Inv
<1>2. ASSUME NEW t \in Threads, Executing(t)
      PROVE  /\ batch[t] \in Seq(Jobs) /\ at[t] \in 1..(Len(batch[t]) + 1)
             /\ RestOfBatch = SubSeq(batch[t], at[t], Len(batch[t]))
             /\ RestOfBatch \in Seq(Jobs)
  <2>1. \A u \in Threads : Executing(u) <=> u = t
    BY <1>2 DEF Inv, OneOwner, Owns
  <2>2. (CHOOSE u \in Threads : Executing(u)) = t
    BY <2>1
  <2>3. RestOfBatch = SubSeq(batch[t], at[t], Len(batch[t]))
    BY <1>2, <2>2 DEF RestOfBatch
  <2>4. batch[t] \in Seq(Jobs) /\ at[t] \in Nat \ {0} /\ Len(batch[t]) \in Nat
    BY <1>1 DEF TypeOK
  <2>5. at[t] <= Len(batch[t]) + 1
    <3>1. execPc[t] \in {"drain", "job", "settle"}
      BY <1>1, <1>2 DEF TypeOK, Executing
    <3>2. CASE execPc[t] = "drain"
      BY <1>1, <2>4, <3>2 DEF Coherent
    <3>3. CASE execPc[t] = "job"
      BY <1>1, <2>4, <3>3 DEF Coherent
    <3>4. CASE execPc[t] = "settle"
      BY <1>1, <2>4, <3>4 DEF Coherent
    <3> QED
      BY <3>1, <3>2, <3>3, <3>4
  <2>6. \A i \in at[t]..Len(batch[t]) : batch[t][i] \in Jobs
    BY <2>4
  <2>7. SubSeq(batch[t], at[t], Len(batch[t])) \in Seq(Jobs)
    BY <2>4, <2>6, SubSeqProperties
  <2> QED
    BY <2>3, <2>4, <2>5, <2>7
<1>3. (\A t \in Threads : ~Executing(t)) => RestOfBatch = <<>>
  BY DEF RestOfBatch
<1>4. RestOfBatch \in Seq(Jobs)
  BY <1>2, <1>3, EmptySeq
<1>5. queue \in Seq(Q!Entry) /\ Len(queue) \in Nat /\ DOMAIN queue = 1..Len(queue)
  BY <1>1 DEF TypeOK
<1>6. QueuedJobs = [i \in 1..Len(queue) |-> queue[i].item]
  BY <1>5 DEF QueuedJobs
<1>7. \A i \in 1..Len(queue) : queue[i].item \in Jobs
  <2>1. \A i \in 1..Len(queue) : queue[i] \in Q!Entry
    BY <1>5
  <2> QED
    BY <2>1 DEF Q!Entry
<1>8. QueuedJobs \in Seq(Jobs) /\ Len(QueuedJobs) = Len(queue)
  BY <1>5, <1>6, <1>7
<1> QED
  BY <1>2, <1>3, <1>4, <1>5, <1>6, <1>8 DEF Parts

LEMMA PartsNext == Inv' => Parts'
  BY PartsHold, PTL

(* A step that leaves the executors, their batches and places alone.       *)
LEMMA SameRest ==
  ASSUME UNCHANGED <<execPc, batch, at>>
  PROVE  RestOfBatch' = RestOfBatch
  BY DEF RestOfBatch, Executing

(* _jobs.Push, first half: the job waits, behind everything that waits.    *)
LEMMA EnterAppends ==
  ASSUME Inv, Inv', NEW t \in Threads, EnterQueue(t)
  PROVE  Waiting' = Append(Waiting, pushJob[t]) /\ UNCHANGED ended
<1> DEFINE j == pushJob[t]
<1>1. Parts /\ Parts'
  BY PartsHold, PartsNext
<1>2. RestOfBatch' = RestOfBatch /\ UNCHANGED ended
  BY SameRest DEF EnterQueue, executing
<1>3. j \in Jobs /\ queue \in Seq(Q!Entry)
  BY DEF Inv, Coherent, EnterQueue, TypeOK
<1> DEFINE e == [item |-> pushJob[t], by |-> t]
<1>4. /\ Len(queue') = Len(queue) + 1 /\ Len(queue) \in Nat
      /\ \A i \in 1..Len(queue) : queue'[i] = queue[i]
      /\ queue'[Len(queue) + 1] = e
  <2>1. queue' = Append(queue, e)
    BY DEF EnterQueue, Q!Enter
  <2>2. e \in Q!Entry
    BY <1>3 DEF Q!Entry
  <2> HIDE DEF e
  <2> QED
    BY <1>1, <1>3, <2>1, <2>2, AppendProperties DEF Parts
<1>5. QueuedJobs' = Append(QueuedJobs, j)
  <2>1. /\ QueuedJobs \in Seq(Jobs) /\ QueuedJobs' \in Seq(Jobs)
        /\ Len(QueuedJobs) = Len(queue) /\ Len(QueuedJobs') = Len(queue) + 1
    BY <1>1, <1>4 DEF Parts
  <2>2. /\ Append(QueuedJobs, j) \in Seq(Jobs) /\ Len(Append(QueuedJobs, j)) = Len(queue) + 1
        /\ \A i \in 1..Len(queue) : Append(QueuedJobs, j)[i] = QueuedJobs[i]
        /\ Append(QueuedJobs, j)[Len(queue) + 1] = j
    BY <1>3, <2>1, AppendProperties
  <2>3. ASSUME NEW i \in 1..(Len(queue) + 1) PROVE QueuedJobs'[i] = Append(QueuedJobs, j)[i]
    <3>1. QueuedJobs'[i] = queue'[i].item
      BY <1>1, <1>4 DEF Parts
    <3>2. CASE i = Len(queue) + 1
      BY <1>4, <2>2, <3>1, <3>2
    <3>3. CASE i # Len(queue) + 1
      <4>1. i \in 1..Len(queue)
        BY <1>4, <3>3
      <4> QED
        BY <1>1, <1>4, <2>2, <3>1, <4>1 DEF Parts
    <3> QED
      BY <3>2, <3>3
  <2> HIDE DEF j
  <2> QED
    BY <2>1, <2>2, <2>3, SeqEqual
<1>6. RestOfBatch \o Append(QueuedJobs, j) = Append(RestOfBatch \o QueuedJobs, j)
  <2>1. RestOfBatch \in Seq(Jobs) /\ QueuedJobs \in Seq(Jobs)
    BY <1>1 DEF Parts
  <2> HIDE DEF j
  <2> QED
    BY <1>3, <2>1, AppendConcat
<1> QED
  BY <1>2, <1>5, <1>6 DEF Waiting

(* _jobs.Push, second half: nothing new waits; a new executor's batch is   *)
(* empty, and there was no other.                                          *)
LEMMA FinishPushWaits ==
  ASSUME Inv, Inv', NEW t \in Threads, FinishPush(t)
  PROVE  UNCHANGED <<Waiting, ended>>
<1>1. Parts /\ Parts'
  BY PartsHold, PartsNext
<1>2. /\ UNCHANGED <<batch, at, ended>> /\ Q!Finish(t)
      /\ execPc' = IF prevCount[t] = 0 THEN [execPc EXCEPT ![t] = "drain"] ELSE execPc
  BY DEF FinishPush, FinishPushAnd
<1>3. RestOfBatch' = RestOfBatch
  <2>1. CASE prevCount[t] # 0
    BY <1>2, <2>1, SameRest
  <2>2. CASE prevCount[t] = 0
    <3>1. execPc[t] = "none" /\ Owns(t)
      BY <2>2 DEF Inv, NoReentry, Executing, Owns, FinishPush, FinishPushAnd
    <3>2. \A u \in Threads : ~Executing(u)
      BY <3>1 DEF Inv, OneOwner, Owns, Executing
    <3>3. batch[t] = <<>> /\ at[t] = 1
      BY <3>1 DEF Inv, Coherent
    <3>4. Executing(t)'
      BY <1>2, <2>2 DEF Inv, TypeOK, Executing
    <3>5. RestOfBatch' = SubSeq(<<>>, 1, Len(<<>>))
      BY <1>1, <1>2, <3>3, <3>4 DEF Parts
    <3>6. SubSeq(<<>>, 1, Len(<<>>)) = <<>>
      BY SubSeqEmpty
    <3> QED
      BY <1>1, <3>2, <3>5, <3>6 DEF Parts
  <2> QED
    BY <2>1, <2>2
<1>4. QueuedJobs' = QueuedJobs
  <2>1. DOMAIN queue' = DOMAIN queue /\ \A i \in DOMAIN queue : queue'[i].item = queue[i].item
    <3>1. \A i \in DOMAIN queue : queue[i] \in Q!Entry
      BY DEF Inv, TypeOK
    <3>2. \A e \in Q!Entry : [e EXCEPT !.by = Nobody].item = e.item
      BY DEF Q!Entry
    <3> QED
      BY <1>2, <3>1, <3>2 DEF Q!Finish
  <2> QED
    BY <2>1 DEF QueuedJobs
<1> QED
  BY <1>2, <1>3, <1>4 DEF Waiting

(* Execute, one Pop: the first queued job moves to the end of the batch,   *)
(* none of which has run yet.                                              *)
LEMMA DrainWaits ==
  ASSUME Inv, Inv', NEW t \in Threads, DrainOne(t)
  PROVE  UNCHANGED <<Waiting, ended>>
<1> DEFINE d == Head(queue).item
<1>1. Parts /\ Parts'
  BY PartsHold, PartsNext
<1>2. /\ execPc[t] = "drain" /\ at[t] = 1 /\ UNCHANGED <<at, execPc, ended>>
      /\ queue # <<>> /\ queue' = Tail(queue) /\ queue \in Seq(Q!Entry)
      /\ batch' = [batch EXCEPT ![t] = Append(batch[t], d)]
      /\ batch[t] \in Seq(Jobs)
  BY DEF DrainOne, DrainInto, Q!Take, Q!Poppable, Inv, Coherent, TypeOK
<1>3. Executing(t) /\ Executing(t)'
  BY <1>2 DEF Executing
<1>4. /\ queue[1] \in Q!Entry /\ d = queue[1].item /\ d \in Jobs
      /\ Len(queue) \in Nat \ {0} /\ Len(queue') = Len(queue) - 1
      /\ \A i \in 1..(Len(queue) - 1) : queue'[i] = queue[i + 1]
  <2>1. Head(queue) = queue[1] /\ Head(queue) \in Q!Entry
    BY <1>2
  <2>2. d \in Jobs
    BY <2>1 DEF Q!Entry
  <2>3. /\ Len(queue') = Len(queue) - 1
        /\ \A i \in 1..Len(queue') : queue'[i] = queue[i + 1]
    BY <1>2, HeadTailProperties
  <2>4. Len(queue) \in Nat \ {0}
    BY <1>2, EmptySeq
  <2> QED
    BY <2>1, <2>2, <2>3, <2>4
<1>5. RestOfBatch = batch[t]
  <2>1. RestOfBatch = SubSeq(batch[t], 1, Len(batch[t]))
    BY <1>1, <1>2, <1>3 DEF Parts
  <2> QED
    BY <1>2, <2>1, SubSeqFull
<1>6. RestOfBatch' = Append(batch[t], d)
  <2>1. batch'[t] = Append(batch[t], d) /\ at'[t] = 1
    BY <1>2 DEF Inv, TypeOK
  <2>2. RestOfBatch' = SubSeq(batch'[t], at'[t], Len(batch'[t])) /\ batch'[t] \in Seq(Jobs)
    BY <1>1, <1>3 DEF Parts
  <2>3. SubSeq(batch'[t], 1, Len(batch'[t])) = batch'[t]
    BY <2>2, SubSeqFull
  <2> QED
    BY <2>1, <2>2, <2>3
<1>7. /\ QueuedJobs \in Seq(Jobs) /\ QueuedJobs' \in Seq(Jobs) /\ QueuedJobs # <<>>
      /\ Len(QueuedJobs) = Len(queue) /\ Len(QueuedJobs') = Len(queue) - 1
  <2>1. /\ QueuedJobs \in Seq(Jobs) /\ QueuedJobs' \in Seq(Jobs)
        /\ Len(QueuedJobs) = Len(queue) /\ Len(QueuedJobs') = Len(queue')
    BY <1>1 DEF Parts
  <2> QED
    BY <1>4, <2>1
<1>8. Head(QueuedJobs) = d
  <2>1. Head(QueuedJobs) = QueuedJobs[1] /\ 1 \in 1..Len(queue)
    BY <1>4, <1>7
  <2> QED
    BY <1>1, <1>4, <2>1 DEF Parts
<1>9. QueuedJobs' = Tail(QueuedJobs)
  <2>1. /\ Tail(QueuedJobs) \in Seq(Jobs) /\ Len(Tail(QueuedJobs)) = Len(queue) - 1
        /\ \A i \in 1..Len(Tail(QueuedJobs)) : Tail(QueuedJobs)[i] = QueuedJobs[i + 1]
    BY <1>7, HeadTailProperties
  <2>2. ASSUME NEW i \in 1..(Len(queue) - 1) PROVE QueuedJobs'[i] = Tail(QueuedJobs)[i]
    <3>1. i \in 1..Len(queue') /\ i + 1 \in 1..Len(queue) /\ i \in 1..Len(Tail(QueuedJobs))
      BY <1>4, <2>1
    <3>2. QueuedJobs'[i] = queue'[i].item
      BY <1>1, <3>1 DEF Parts
    <3>3. QueuedJobs[i + 1] = queue[i + 1].item
      BY <1>1, <3>1 DEF Parts
    <3> QED
      BY <1>4, <2>1, <3>1, <3>2, <3>3
  <2> QED
    BY <1>7, <2>1, <2>2, SeqEqual
<1>10. Append(batch[t], Head(QueuedJobs)) \o Tail(QueuedJobs) = batch[t] \o QueuedJobs
  BY <1>2, <1>7, MoveHead
<1> QED
  BY <1>2, <1>5, <1>6, <1>8, <1>9, <1>10 DEF Waiting

(* Execute, one job: it is the head of what waits.                         *)
LEMMA EndJobRuns ==
  ASSUME Inv, Inv', NEW t \in Threads, EndJob(t)
  PROVE  /\ Waiting # <<>> /\ ended' = Append(ended, Head(Waiting))
         /\ Waiting' = Tail(Waiting)
<1> DEFINE b == batch[t]
           i == at[t]
<1>1. Parts /\ Parts'
  BY PartsHold, PartsNext
<1>2. /\ b \in Seq(Jobs) /\ Len(b) \in Nat /\ i \in 1..Len(b) /\ Executing(t) /\ Executing(t)'
      /\ ended' = Append(ended, b[i]) /\ at'[t] = i + 1 /\ batch' = batch
      /\ queue' = queue
  BY DEF EndJob, Inv, Coherent, TypeOK, Executing
<1>3. RestOfBatch = SubSeq(b, i, Len(b)) /\ RestOfBatch' = SubSeq(b, i + 1, Len(b))
  BY <1>1, <1>2 DEF Parts
<1> HIDE DEF b, i
<1>4. RestOfBatch # <<>> /\ Head(RestOfBatch) = b[i] /\ Tail(RestOfBatch) = RestOfBatch'
  <2>1. Len(b) \in i..Len(b)
    BY <1>2
  <2>2. Head(SubSeq(b, i, Len(b))) = b[i] /\ Tail(SubSeq(b, i, Len(b))) = SubSeq(b, i + 1, Len(b))
    BY <1>2, <2>1, HeadTailOfSubSeq
  <2>3. Len(SubSeq(b, i, Len(b))) = Len(b) - i + 1
    <3>1. i \in Int /\ Len(b) \in Int /\ i <= Len(b) /\ \A k \in i..Len(b) : b[k] \in Jobs
      BY <1>2
    <3> QED
      BY <3>1, SubSeqProperties
  <2>4. RestOfBatch # <<>>
    BY <1>2, <1>3, <2>3
  <2> QED
    BY <1>3, <2>2, <2>4
<1>5. QueuedJobs' = QueuedJobs
  BY <1>2 DEF QueuedJobs
<1>6. RestOfBatch \in Seq(Jobs) /\ QueuedJobs \in Seq(Jobs)
  BY <1>1 DEF Parts
<1>7. /\ Waiting # <<>> /\ Head(Waiting) = Head(RestOfBatch)
      /\ Tail(Waiting) = Tail(RestOfBatch) \o QueuedJobs
  BY <1>4, <1>6, HeadTailOfConcat DEF Waiting
<1> QED
  BY <1>2, <1>4, <1>5, <1>7 DEF Waiting

(* _jobCount.fetch_sub: the whole batch has run.                           *)
LEMMA SettleWaits ==
  ASSUME Inv, Inv', NEW t \in Threads, Settle(t)
  PROVE  UNCHANGED <<Waiting, ended>>
<1>1. Parts /\ Parts'
  BY PartsHold, PartsNext
<1>2. /\ Executing(t) /\ at[t] = Len(batch[t]) + 1 /\ batch[t] \in Seq(Jobs) /\ Len(batch[t]) \in Nat
      /\ batch'[t] = <<>> /\ at'[t] = 1 /\ UNCHANGED <<queue, ended>>
      /\ \A u \in Threads \ {t} : ~Executing(u) /\ ~Executing(u)'
  BY DEF Settle, SettleWith, Inv, Coherent, TypeOK, Executing, OneOwner, Owns
<1>3. RestOfBatch = <<>>
  <2>1. RestOfBatch = SubSeq(batch[t], Len(batch[t]) + 1, Len(batch[t]))
    BY <1>1, <1>2 DEF Parts
  <2>2. SubSeq(batch[t], Len(batch[t]) + 1, Len(batch[t])) = <<>>
    BY <1>2, SubSeqEmpty
  <2> QED
    BY <2>1, <2>2
<1>4. RestOfBatch' = <<>>
  <2>1. CASE Executing(t)'
    <3>1. RestOfBatch' = SubSeq(<<>>, 1, Len(<<>>))
      BY <1>1, <1>2, <2>1 DEF Parts
    <3>2. SubSeq(<<>>, 1, Len(<<>>)) = <<>>
      BY SubSeqEmpty
    <3> QED
      BY <3>1, <3>2
  <2>2. CASE ~Executing(t)'
    BY <1>1, <1>2, <2>2 DEF Parts
  <2> QED
    BY <2>1, <2>2
<1> QED
  BY <1>2, <1>3, <1>4 DEF Waiting, QueuedJobs

LEMMA OtherWaits ==
  ASSUME Inv, Inv', NEW t \in Threads, (\E j \in Jobs : Count(t, j)) \/ DrainDone(t)
  PROVE  UNCHANGED <<Waiting, ended>>
<1>1. CASE \E j \in Jobs : Count(t, j)
  BY <1>1, SameRest DEF Count, executing, Waiting, QueuedJobs
<1>2. CASE DrainDone(t)
  <2>1. Parts /\ Parts'
    BY PartsHold, PartsNext
  <2>2. UNCHANGED <<queue, batch, at, ended>> /\ Executing(t) /\ Executing(t)'
    BY <1>2 DEF DrainDone, RunBatch, Inv, TypeOK, Executing
  <2>3. RestOfBatch' = RestOfBatch
    BY <2>1, <2>2 DEF Parts
  <2> QED
    BY <2>2, <2>3 DEF Waiting, QueuedJobs
<1> QED
  BY <1>1, <1>2

-----------------------------------------------------------------------------
(* Every job that was queued, in queue order: those that ended and then    *)
(* those that wait.  Only the first half of a Push changes this line.      *)
Line == ended \o Waiting

(* A job stands in the line once, and was pushed.                          *)
OnceInLine == \A m, n \in 1..Len(Line) : Line[m] = Line[n] => m = n

PushedInLine ==
  \A n \in 1..Len(Line) : \E t \in Threads : \E i \in 1..Len(issued[t]) : Line[n] = issued[t][i]

(* No job is pushed twice; one that is counted only is its thread's last,  *)
(* and not in the line.                                                    *)
PushedOnce ==
  \A t, u \in Threads : \A i \in 1..Len(issued[t]), k \in 1..Len(issued[u]) :
    issued[t][i] = issued[u][k] => t = u /\ i = k

CountedIsLast ==
  \A t \in Threads : pushPc[t] = "counted" =>
    /\ issued[t] # <<>> /\ pushJob[t] = issued[t][Len(issued[t])]
    /\ \A n \in 1..Len(Line) : Line[n] # pushJob[t]

(* Everything else that was pushed is in the line, behind what its thread  *)
(* pushed before it.                                                       *)
NoneLeftOut ==
  \A t \in Threads : \A i \in 1..Len(issued[t]) :
    \/ \E n \in 1..Len(Line) : Line[n] = issued[t][i]
    \/ pushPc[t] = "counted" /\ i = Len(issued[t])

BehindEarlier ==
  \A t \in Threads : \A i, k \in 1..Len(issued[t]), n \in 1..Len(Line) :
    i < k /\ Line[n] = issued[t][k] => \E m \in 1..(n - 1) : Line[m] = issued[t][i]

LineOrdered == /\ OnceInLine /\ PushedInLine
               /\ PushedOnce /\ CountedIsLast
               /\ NoneLeftOut /\ BehindEarlier

LEMMA LineIsSeq ==
  ASSUME Inv
  PROVE  /\ Waiting \in Seq(Jobs) /\ ended \in Seq(Jobs)
         /\ Line \in Seq(Jobs) /\ Len(Line) \in Nat /\ Len(Line) = Len(ended) + Len(Waiting)
         /\ \A n \in 1..Len(ended) : n \in 1..Len(Line) /\ Line[n] = ended[n]
         /\ \A n \in 1..Len(Waiting) :
              Len(ended) + n \in 1..Len(Line) /\ Line[Len(ended) + n] = Waiting[n]
<1>1. RestOfBatch \in Seq(Jobs) /\ QueuedJobs \in Seq(Jobs) /\ ended \in Seq(Jobs)
  BY PartsHold DEF Parts, Inv, TypeOK
<1>2. Waiting \in Seq(Jobs)
  BY <1>1, ConcatProperties DEF Waiting
<1>3. /\ Line \in Seq(Jobs) /\ Len(Line) = Len(ended) + Len(Waiting)
      /\ \A n \in 1..(Len(ended) + Len(Waiting)) :
           Line[n] = IF n <= Len(ended) THEN ended[n] ELSE Waiting[n - Len(ended)]
  BY <1>1, <1>2, ConcatProperties DEF Line
<1>4. Len(ended) \in Nat /\ Len(Waiting) \in Nat
  BY <1>1, <1>2
<1>5. ASSUME NEW n \in 1..Len(ended) PROVE n \in 1..Len(Line) /\ Line[n] = ended[n]
  BY <1>3, <1>4
<1>6. ASSUME NEW n \in 1..Len(Waiting)
      PROVE  Len(ended) + n \in 1..Len(Line) /\ Line[Len(ended) + n] = Waiting[n]
  <2>1. /\ Len(ended) + n \in 1..(Len(ended) + Len(Waiting)) /\ ~(Len(ended) + n <= Len(ended))
        /\ (Len(ended) + n) - Len(ended) = n
    BY <1>4
  <2> QED
    BY <1>3, <2>1
<1> QED
  BY <1>1, <1>2, <1>3, <1>4, <1>5, <1>6

LEMMA EnterLine ==
  ASSUME Inv, Inv', NEW t \in Threads, EnterQueue(t)
  PROVE  Line' = Append(Line, pushJob[t])
<1>1. Waiting' = Append(Waiting, pushJob[t]) /\ ended' = ended
  BY EnterAppends
<1>2. pushJob[t] \in Jobs
  BY DEF Inv, Coherent, EnterQueue
<1>3. ended \o Append(Waiting, pushJob[t]) = Append(ended \o Waiting, pushJob[t])
  BY <1>2, LineIsSeq, AppendConcat
<1> QED
  BY <1>1, <1>3 DEF Line

LEMMA OtherLine ==
  ASSUME Inv, Inv', NEW t \in Threads,
         \/ \E j \in Jobs : Count(t, j)
         \/ FinishPush(t) \/ DrainOne(t) \/ DrainDone(t) \/ EndJob(t) \/ Settle(t)
  PROVE  Line' = Line
<1>1. CASE EndJob(t)
  <2>1. Waiting # <<>> /\ ended' = Append(ended, Head(Waiting)) /\ Waiting' = Tail(Waiting)
    BY <1>1, EndJobRuns
  <2>2. Append(ended, Head(Waiting)) \o Tail(Waiting) = ended \o Waiting
    BY <2>1, LineIsSeq, MoveHead
  <2> QED
    BY <2>1, <2>2 DEF Line
<1>2. CASE ~EndJob(t)
  BY <1>2, OtherWaits, FinishPushWaits, DrainWaits, SettleWaits DEF Line
<1> QED
  BY <1>1, <1>2

-----------------------------------------------------------------------------
(* A counted job is new: it is in nobody's history and not in the line.    *)
LEMMA CountOrdered ==
  ASSUME Inv, Inv', LineOrdered, NEW t \in Threads, NEW j \in Jobs, Count(t, j)
  PROVE  LineOrdered'
<1>1. Line' = Line /\ Len(Line) \in Nat
  BY OtherLine, LineIsSeq
<1>2. /\ pushPc[t] = "idle" /\ pushPc' = [pushPc EXCEPT ![t] = "counted"]
      /\ pushJob' = [pushJob EXCEPT ![t] = j] /\ TypeOK
      /\ issued[t] \in Seq(Jobs) /\ issued' = [issued EXCEPT ![t] = Append(issued[t], j)]
  BY DEF Count, Inv, TypeOK
<1>3. \A u \in Threads : \A i \in 1..Len(issued[u]) : issued[u][i] # j
  <2>1. \A u \in Threads : DOMAIN issued[u] = 1..Len(issued[u])
    BY <1>2 DEF TypeOK
  <2> QED
    BY <2>1 DEF Count, Issued, Members
<1>4. \A n \in 1..Len(Line) : Line[n] # j
  BY <1>3 DEF LineOrdered, PushedInLine
<1>5. /\ Len(issued[t]) \in Nat /\ Len(issued'[t]) = Len(issued[t]) + 1
      /\ \A i \in 1..Len(issued[t]) : issued'[t][i] = issued[t][i]
      /\ issued'[t][Len(issued[t]) + 1] = j /\ issued'[t] # <<>>
      /\ pushJob'[t] = j /\ pushPc'[t] = "counted"
  <2>1. issued'[t] = Append(issued[t], j) /\ pushJob'[t] = j /\ pushPc'[t] = "counted"
    BY <1>2 DEF TypeOK
  <2>2. Len(issued[t]) \in Nat
    BY <1>2
  <2> QED
    BY <1>2, <2>1, <2>2, AppendProperties
<1>6. \A u \in Threads : u # t =>
        issued'[u] = issued[u] /\ pushPc'[u] = pushPc[u] /\ pushJob'[u] = pushJob[u]
  BY <1>2 DEF TypeOK
<1>7. ASSUME NEW u \in Threads, NEW i \in 1..Len(issued'[u])
      PROVE  \/ i \in 1..Len(issued[u]) /\ issued'[u][i] = issued[u][i]
             \/ u = t /\ i = Len(issued[t]) + 1 /\ issued'[u][i] = j
  <2>1. CASE u # t
    BY <1>6, <2>1
  <2>2. CASE u = t
    <3>1. i \in 1..Len(issued[t]) \/ i = Len(issued[t]) + 1
      BY <1>5, <2>2
    <3> QED
      BY <1>5, <2>2, <3>1
  <2> QED
    BY <2>1, <2>2
<1>8. ASSUME NEW u \in Threads, NEW i \in 1..Len(issued[u])
      PROVE  i \in 1..Len(issued'[u]) /\ issued'[u][i] = issued[u][i]
  <2>1. CASE u # t
    BY <1>6, <2>1
  <2>2. CASE u = t
    BY <1>5, <2>2
  <2> QED
    BY <2>1, <2>2
<1>9. \A n \in 1..Len(Line) : \E u \in Threads : \E i \in 1..Len(issued'[u]) : Line[n] = issued'[u][i]
  BY <1>8 DEF LineOrdered, PushedInLine
<1>10. ASSUME NEW u \in Threads, NEW v \in Threads,
              NEW i \in 1..Len(issued'[u]), NEW k \in 1..Len(issued'[v]),
              issued'[u][i] = issued'[v][k]
       PROVE  u = v /\ i = k
  <2>1. CASE u = t /\ i = Len(issued[t]) + 1
    BY <1>3, <1>5, <1>7, <1>10, <2>1
  <2>2. CASE v = t /\ k = Len(issued[t]) + 1
    BY <1>3, <1>5, <1>7, <1>10, <2>2
  <2>3. CASE ~(u = t /\ i = Len(issued[t]) + 1) /\ ~(v = t /\ k = Len(issued[t]) + 1)
    BY <1>7, <1>10, <2>3 DEF LineOrdered, PushedOnce
  <2> QED
    BY <2>1, <2>2, <2>3
<1>11. ASSUME NEW u \in Threads, pushPc'[u] = "counted"
       PROVE  /\ issued'[u] # <<>> /\ pushJob'[u] = issued'[u][Len(issued'[u])]
              /\ \A n \in 1..Len(Line) : Line[n] # pushJob'[u]
  <2>1. CASE u # t
    BY <1>6, <1>11, <2>1 DEF LineOrdered, CountedIsLast
  <2>2. CASE u = t
    BY <1>4, <1>5, <2>2
  <2> QED
    BY <2>1, <2>2
<1>12. ASSUME NEW u \in Threads, NEW i \in 1..Len(issued'[u])
       PROVE  \/ \E n \in 1..Len(Line) : Line[n] = issued'[u][i]
              \/ pushPc'[u] = "counted" /\ i = Len(issued'[u])
  <2>1. CASE u = t /\ i = Len(issued[t]) + 1
    BY <1>5, <2>1
  <2>2. CASE ~(u = t /\ i = Len(issued[t]) + 1)
    <3>1. i \in 1..Len(issued[u]) /\ issued'[u][i] = issued[u][i]
      BY <1>7, <2>2
    <3>2. \/ \E n \in 1..Len(Line) : Line[n] = issued[u][i]
          \/ pushPc[u] = "counted" /\ i = Len(issued[u])
      BY <3>1 DEF LineOrdered, NoneLeftOut
    <3> QED
      BY <1>2, <1>6, <3>1, <3>2
  <2> QED
    BY <2>1, <2>2
<1>13. ASSUME NEW u \in Threads, NEW i \in 1..Len(issued'[u]), NEW k \in 1..Len(issued'[u]),
              NEW n \in 1..Len(Line), i < k, Line[n] = issued'[u][k]
       PROVE  \E m \in 1..(n - 1) : Line[m] = issued'[u][i]
  <2>1. k \in 1..Len(issued[u]) /\ issued'[u][k] = issued[u][k]
    BY <1>4, <1>7, <1>13
  <2>2. ~(u = t /\ i = Len(issued[t]) + 1)
    BY <1>5, <1>13, <2>1
  <2>3. i \in 1..Len(issued[u]) /\ issued'[u][i] = issued[u][i]
    BY <1>7, <2>2
  <2> QED
    BY <1>13, <2>1, <2>3 DEF LineOrdered, BehindEarlier
<1> QED
  <2>1. OnceInLine' /\ PushedInLine'
    BY <1>1, <1>9 DEF LineOrdered, OnceInLine, PushedInLine
  <2>2. PushedOnce'
    BY <1>10 DEF PushedOnce
  <2>3. CountedIsLast'
    BY <1>1, <1>11 DEF CountedIsLast
  <2>4. NoneLeftOut'
    BY <1>1, <1>12 DEF NoneLeftOut
  <2>5. BehindEarlier'
    <3> SUFFICES ASSUME NEW u \in Threads, NEW i \in 1..Len(issued'[u]),
                        NEW k \in 1..Len(issued'[u]), NEW n \in 1..Len(Line'),
                        i < k, Line'[n] = issued'[u][k]
                 PROVE  \E m \in 1..(n - 1) : Line'[m] = issued'[u][i]
      BY DEF BehindEarlier
    <3>1. n \in 1..Len(Line) /\ Line[n] = issued'[u][k]
      BY <1>1
    <3> QED
      BY <1>1, <1>13, <3>1
  <2> QED
    BY <2>1, <2>2, <2>3, <2>4, <2>5 DEF LineOrdered

(* The counted job takes the end of the line; what its thread pushed       *)
(* before is in the line already.                                          *)
LEMMA EnterOrdered ==
  ASSUME Inv, Inv', LineOrdered, NEW t \in Threads, EnterQueue(t)
  PROVE  LineOrdered'
<1> DEFINE j == pushJob[t]
<1>1. /\ j \in Jobs /\ pushPc[t] = "counted" /\ UNCHANGED <<issued, pushJob>>
      /\ pushPc' = [pushPc EXCEPT ![t] = "entered"] /\ TypeOK
      /\ \A u \in Threads : issued[u] \in Seq(Jobs) /\ Len(issued[u]) \in Nat
  BY DEF EnterQueue, Inv, Coherent, TypeOK
<1>2. /\ Len(Line) \in Nat /\ Len(Line') = Len(Line) + 1
      /\ \A n \in 1..Len(Line) : Line'[n] = Line[n]
      /\ Line'[Len(Line) + 1] = j
  <2>1. Line' = Append(Line, j) /\ Line \in Seq(Jobs) /\ Len(Line) \in Nat
    BY EnterLine, LineIsSeq
  <2> HIDE DEF j
  <2> QED
    BY <1>1, <2>1, AppendProperties
<1>3. ASSUME NEW n \in 1..Len(Line')
      PROVE  \/ n \in 1..Len(Line) /\ Line'[n] = Line[n]
             \/ n = Len(Line) + 1 /\ Line'[n] = j
  <2>1. n \in 1..Len(Line) \/ n = Len(Line) + 1
    BY <1>2
  <2> QED
    BY <1>2, <2>1
<1>4. \A n \in 1..Len(Line) : n \in 1..Len(Line')
  BY <1>2
<1>5. /\ \A n \in 1..Len(Line) : Line[n] # j
      /\ issued[t] # <<>> /\ j = issued[t][Len(issued[t])] /\ Len(issued[t]) \in 1..Len(issued[t])
  <2>1. /\ \A n \in 1..Len(Line) : Line[n] # j
        /\ issued[t] # <<>> /\ j = issued[t][Len(issued[t])]
    BY <1>1 DEF LineOrdered, CountedIsLast
  <2>2. Len(issued[t]) # 0
    BY <1>1, <2>1
  <2> QED
    BY <1>1, <2>1, <2>2
<1>6. OnceInLine'
  <2> SUFFICES ASSUME NEW m \in 1..Len(Line'), NEW n \in 1..Len(Line'), Line'[m] = Line'[n]
               PROVE  m = n
    BY DEF OnceInLine
  <2> QED
    BY <1>3, <1>5 DEF LineOrdered, OnceInLine
<1>7. PushedInLine'
  <2> SUFFICES ASSUME NEW n \in 1..Len(Line')
               PROVE  \E u \in Threads : \E i \in 1..Len(issued[u]) : Line'[n] = issued[u][i]
    BY <1>1 DEF PushedInLine
  <2>1. CASE n \in 1..Len(Line) /\ Line'[n] = Line[n]
    BY <2>1 DEF LineOrdered, PushedInLine
  <2>2. CASE Line'[n] = j
    BY <1>5, <2>2
  <2> QED
    BY <1>3, <2>1, <2>2
<1>8. PushedOnce'
  BY <1>1 DEF LineOrdered, PushedOnce
<1>9. CountedIsLast'
  <2> SUFFICES ASSUME NEW u \in Threads, pushPc'[u] = "counted"
               PROVE  /\ issued[u] # <<>> /\ pushJob[u] = issued[u][Len(issued[u])]
                      /\ \A n \in 1..Len(Line') : Line'[n] # pushJob[u]
    BY <1>1 DEF CountedIsLast
  <2>1. u # t /\ pushPc[u] = "counted"
    BY <1>1 DEF TypeOK
  <2>2. /\ issued[u] # <<>> /\ pushJob[u] = issued[u][Len(issued[u])]
        /\ \A n \in 1..Len(Line) : Line[n] # pushJob[u]
    BY <2>1 DEF LineOrdered, CountedIsLast
  <2>3. Len(issued[u]) \in 1..Len(issued[u])
    <3>1. Len(issued[u]) # 0
      BY <1>1, <2>2
    <3> QED
      BY <1>1, <3>1
  <2>4. pushJob[u] # j
    BY <1>5, <2>1, <2>2, <2>3 DEF LineOrdered, PushedOnce
  <2> QED
    BY <1>3, <2>2, <2>4
<1>10. NoneLeftOut'
  <2> SUFFICES ASSUME NEW u \in Threads, NEW i \in 1..Len(issued[u])
               PROVE  \/ \E n \in 1..Len(Line') : Line'[n] = issued[u][i]
                      \/ pushPc'[u] = "counted" /\ i = Len(issued[u])
    BY <1>1 DEF NoneLeftOut
  <2>1. CASE \E n \in 1..Len(Line) : Line[n] = issued[u][i]
    BY <1>2, <1>4, <2>1
  <2>2. CASE pushPc[u] = "counted" /\ i = Len(issued[u]) /\ u # t
    BY <1>1, <2>2 DEF TypeOK
  <2>3. CASE u = t /\ i = Len(issued[u])
    <3>1. Len(Line) + 1 \in 1..Len(Line')
      BY <1>2
    <3> QED
      BY <1>2, <1>5, <2>3, <3>1
  <2> QED
    BY <2>1, <2>2, <2>3 DEF LineOrdered, NoneLeftOut
<1>11. BehindEarlier'
  <2> SUFFICES ASSUME NEW u \in Threads, NEW i \in 1..Len(issued[u]), NEW k \in 1..Len(issued[u]),
                      NEW n \in 1..Len(Line'), i < k, Line'[n] = issued[u][k]
               PROVE  \E m \in 1..(n - 1) : Line'[m] = issued[u][i]
    BY <1>1 DEF BehindEarlier
  <2>1. CASE n \in 1..Len(Line) /\ Line'[n] = Line[n]
    <3>1. PICK m \in 1..(n - 1) : Line[m] = issued[u][i]
      BY <2>1 DEF LineOrdered, BehindEarlier
    <3>2. m \in 1..Len(Line)
      BY <1>2, <2>1
    <3> QED
      BY <1>2, <3>1, <3>2
  <2>2. CASE n = Len(Line) + 1 /\ Line'[n] = j
    <3>1. u = t /\ k = Len(issued[t])
      BY <1>5, <2>2 DEF LineOrdered, PushedOnce
    <3>2. i # Len(issued[t])
      BY <1>1, <3>1
    <3>3. PICK m \in 1..Len(Line) : Line[m] = issued[u][i]
      BY <3>1, <3>2 DEF LineOrdered, NoneLeftOut
    <3>4. m \in 1..(n - 1)
      BY <1>2, <2>2
    <3> QED
      BY <1>2, <3>3, <3>4
  <2> QED
    BY <1>3, <2>1, <2>2
<1> QED
  BY <1>6, <1>7, <1>8, <1>9, <1>10, <1>11 DEF LineOrdered

(* The other steps leave the line, the histories and who is counted alone. *)
LEMMA OtherOrdered ==
  ASSUME Inv, Inv', LineOrdered, NEW t \in Threads,
         FinishPush(t) \/ DrainOne(t) \/ DrainDone(t) \/ EndJob(t) \/ Settle(t)
  PROVE  LineOrdered'
<1>1. Line' = Line
  BY OtherLine
<1>2. /\ issued' = issued
      /\ \A u \in Threads : (pushPc'[u] = "counted" <=> pushPc[u] = "counted")
                            /\ (pushPc[u] = "counted" => pushJob'[u] = pushJob[u])
  BY DEF FinishPush, FinishPushAnd, DrainOne, DrainInto, DrainDone, RunBatch, EndJob,
         Settle, SettleWith, pushing, Inv, TypeOK
<1> QED
  BY <1>1, <1>2 DEF LineOrdered, OnceInLine, PushedInLine, PushedOnce, CountedIsLast,
                    NoneLeftOut, BehindEarlier

LEMMA LineInit == Init => LineOrdered
<1> SUFFICES ASSUME Init PROVE LineOrdered
  OBVIOUS
<1>1. Line = <<>>
  <2>1. RestOfBatch = <<>> /\ ended = <<>>
    BY DEF Init, RestOfBatch, Executing
  <2>2. QueuedJobs = <<>>
    <3>1. DOMAIN queue = {}
      BY DEF Init
    <3> QED
      BY <3>1 DEF QueuedJobs
  <2> QED
    BY <2>1, <2>2 DEF Line, Waiting
<1>2. Len(Line) = 0 /\ \A t \in Threads : Len(issued[t]) = 0 /\ pushPc[t] = "idle"
  BY <1>1 DEF Init
<1> QED
  BY <1>2 DEF LineOrdered, OnceInLine, PushedInLine, PushedOnce, CountedIsLast,
              NoneLeftOut, BehindEarlier

LEMMA LineStep == Inv /\ Inv' /\ LineOrdered /\ [Next]_vars => LineOrdered'
<1> SUFFICES ASSUME Inv, Inv', LineOrdered, [Next]_vars PROVE LineOrdered'
  OBVIOUS
<1>1. CASE UNCHANGED vars
  <2>1. UNCHANGED <<execPc, batch, at, queue, ended, issued, pushPc, pushJob>>
    BY <1>1 DEF vars, pushing, executing
  <2>2. Line' = Line
    BY <2>1, SameRest DEF Line, Waiting, QueuedJobs
  <2> QED
    BY <2>1, <2>2 DEF LineOrdered, OnceInLine, PushedInLine, PushedOnce, CountedIsLast,
                      NoneLeftOut, BehindEarlier
<1>2. ASSUME NEW t \in Threads, NEW j \in Jobs, Count(t, j) PROVE LineOrdered'
  BY <1>2, CountOrdered
<1>3. ASSUME NEW t \in Threads, Step(t) PROVE LineOrdered'
  BY <1>3, EnterOrdered, OtherOrdered DEF Step
<1> QED
  BY <1>1, <1>2, <1>3 DEF Next

LEMMA LineInvariance == Spec => [](Inv /\ LineOrdered)
<1>1. Init => Inv /\ LineOrdered
  BY InitInv, LineInit
<1>2. (Inv /\ LineOrdered) /\ [Next]_vars => (Inv /\ LineOrdered)'
  BY NextInv, LineStep
<1> QED
  BY <1>1, <1>2, PTL DEF Spec

(* Executors come and go between two jobs of one thread, and yet its jobs  *)
(* end once each, in the order in which it pushed them, none left out.     *)
THEOREM JobsInProgramOrder == Spec => []ProgramOrder
<1>1. Inv /\ LineOrdered => ProgramOrder
  <2> SUFFICES ASSUME Inv, LineOrdered PROVE ProgramOrder
    OBVIOUS
  <2>1. /\ DOMAIN ended = 1..Len(ended) /\ Len(ended) \in Nat
        /\ \A t \in Threads : DOMAIN issued[t] = 1..Len(issued[t])
    BY DEF Inv, TypeOK
  <2>2. \A n \in 1..Len(ended) : n \in 1..Len(Line) /\ Line[n] = ended[n]
    BY LineIsSeq
  <2>3. \A m, n \in DOMAIN ended : ended[m] = ended[n] => m = n
    BY <2>1, <2>2 DEF LineOrdered, OnceInLine
  <2>4. ASSUME NEW t \in Threads, NEW n \in DOMAIN ended,
               NEW i \in DOMAIN issued[t], NEW k \in DOMAIN issued[t],
               i < k, ended[n] = issued[t][k]
        PROVE  \E m \in 1..(n - 1) : ended[m] = issued[t][i]
    <3>1. PICK m \in 1..(n - 1) : Line[m] = issued[t][i]
      BY <2>1, <2>2, <2>4 DEF LineOrdered, BehindEarlier
    <3>2. m \in 1..Len(ended)
      BY <2>1
    <3> QED
      BY <2>2, <3>1, <3>2
  <2> QED
    BY <2>3, <2>4 DEF ProgramOrder
<1> QED
  BY <1>1, LineInvariance, PTL

-----------------------------------------------------------------------------
LEMMA StepSerial == Inv /\ Inv' /\ LineOrdered /\ [Next]_vars => [Serial!SNext]_(Serial!svars)
<1> SUFFICES ASSUME Inv, Inv', LineOrdered, [Next]_vars PROVE [Serial!SNext]_(Serial!svars)
  OBVIOUS
<1>1. CASE UNCHANGED vars
  BY <1>1 DEF vars, pushing, executing, Serial!svars, RestOfBatch, QueuedJobs, Executing
<1>2. ASSUME NEW t \in Threads, EnterQueue(t) PROVE Serial!SNext
  <2>1. pushJob[t] \in Jobs /\ pushPc[t] = "counted"
    BY <1>2 DEF EnterQueue, Inv, Coherent
  <2>2. Waiting' = Append(Waiting, pushJob[t]) /\ ended' = ended
    BY <1>2, EnterAppends
  <2>3. \A n \in 1..Len(Line) : Line[n] # pushJob[t]
    BY <2>1 DEF LineOrdered, CountedIsLast
  <2>4. pushJob[t] \notin Serial!Members(Waiting) \cup Serial!Members(ended)
    <3>1. DOMAIN Waiting = 1..Len(Waiting) /\ DOMAIN ended = 1..Len(ended)
      BY LineIsSeq
    <3> QED
      BY <2>3, <3>1, LineIsSeq DEF Serial!Members
  <2>5. Serial!Submit(pushJob[t])
    BY <2>2, <2>4 DEF Serial!Submit, Waiting
  <2> QED
    BY <2>1, <2>5 DEF Serial!SNext
<1>3. ASSUME NEW t \in Threads, EndJob(t) PROVE Serial!SNext
  BY <1>3, EndJobRuns DEF Serial!SNext, Serial!Run, Waiting
<1>4. ASSUME NEW t \in Threads,
             \/ \E j \in Jobs : Count(t, j)
             \/ FinishPush(t) \/ DrainOne(t) \/ DrainDone(t) \/ Settle(t)
      PROVE  UNCHANGED Serial!svars
  <2>1. UNCHANGED <<Waiting, ended>>
    BY <1>4, OtherWaits, FinishPushWaits, DrainWaits, SettleWaits
  <2> QED
    BY <2>1 DEF Serial!svars, Waiting
<1> QED
  BY <1>1, <1>2, <1>3, <1>4 DEF Next, Step

(* Seen from the room, the lock-free push, the handover of the ownership   *)
(* and the batches are a serial executor: jobs run one at a time, each     *)
(* once, in the order in which they were queued.                           *)
THEOREM QueueIsSerial == Spec => ImplementsSerial
<1>1. Init => Serial!SInit
  <2> SUFFICES ASSUME Init PROVE RestOfBatch \o QueuedJobs = <<>> /\ ended = <<>>
    BY DEF Serial!SInit
  <2>1. RestOfBatch = <<>> /\ ended = <<>>
    BY DEF Init, RestOfBatch, Executing
  <2>2. DOMAIN queue = {}
    BY DEF Init
  <2>3. QueuedJobs = <<>>
    BY <2>2 DEF QueuedJobs
  <2> QED
    BY <2>1, <2>3
<1> QED
  BY <1>1, LineInvariance, StepSerial, PTL DEF Spec, ImplementsSerial, Serial!SSpec
=============================================================================
