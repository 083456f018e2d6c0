------------------------------- MODULE JobQueue -------------------------------
(***************************************************************************)
(* ServerCore/JobQueue.cpp: the serial executor every room derives from.   *)
(* Push counts the job (_jobCount.fetch_add), enters it into the lock-free *)
(* queue in that queue's two steps, and the thread that counted from 0     *)
(* becomes the executor: it drains the queue into a batch, runs the batch, *)
(* subtracts what it ran and stops when that was all there was.            *)
(*                                                                         *)
(* Any thread may push: the I/O workers, the main thread through JobTimer, *)
(* a DB worker resuming a coroutine, and a running job into its own queue. *)
(* No caller passes pushOnly = true, so Push is modelled without it.       *)
(***************************************************************************)
EXTENDS Naturals, Sequences, FiniteSets

CONSTANTS Threads,  \* the threads that call Push
          Jobs,     \* the jobs, each pushed at most once
          Nobody    \* no thread, no job

ASSUME ThreadsAssumption == IsFiniteSet(Threads) /\ Nobody \notin Threads /\ Nobody \notin Jobs

VARIABLES jobCount,   \* _jobCount
          queue,      \* _jobs, as MpscQueue describes it
          pushPc,     \* thread -> where its Push is
          pushJob,    \* thread -> the job it pushes
          prevCount,  \* thread -> what fetch_add returned
          execPc,     \* thread -> where its Execute is
          batch,      \* thread -> Execute's local vector jobs
          at,         \* thread -> index in batch of the job to run
          issued,     \* history: thread -> the jobs it pushed, in program order
          ended       \* history: the jobs that ended, in that order

pushing == <<pushPc, pushJob, prevCount, issued>>
executing == <<execPc, batch, at, ended>>
vars == <<jobCount, queue, pushing, executing>>

Q == INSTANCE MpscQueue WITH Producers <- Threads, Items <- Jobs, out <- Nobody

Members(s) == {s[i] : i \in DOMAIN s}

Issued == UNION {Members(issued[t]) : t \in Threads}

TypeOK ==
  /\ jobCount \in Nat
  /\ queue \in Seq(Q!Entry)
  /\ pushPc \in [Threads -> {"idle", "counted", "entered"}]
  /\ pushJob \in [Threads -> Jobs \cup {Nobody}]
  /\ prevCount \in [Threads -> Nat]
  /\ execPc \in [Threads -> {"none", "drain", "job", "settle"}]
  /\ batch \in [Threads -> Seq(Jobs)]
  /\ at \in [Threads -> Nat \ {0}]
  /\ issued \in [Threads -> Seq(Jobs)]
  /\ ended \in Seq(Jobs)

Init ==
  /\ jobCount = 0
  /\ queue = <<>>
  /\ pushPc = [t \in Threads |-> "idle"]
  /\ pushJob = [t \in Threads |-> Nobody]
  /\ prevCount = [t \in Threads |-> 0]
  /\ execPc = [t \in Threads |-> "none"]
  /\ batch = [t \in Threads |-> <<>>]
  /\ at = [t \in Threads |-> 1]
  /\ issued = [t \in Threads |-> <<>>]
  /\ ended = <<>>

-----------------------------------------------------------------------------
(* Push: _jobCount.fetch_add(1), by a thread outside Execute or by the job *)
(* it is running.                                                          *)
Count(t, j) ==
  /\ pushPc[t] = "idle" /\ execPc[t] \in {"none", "job"}
  /\ j \notin Issued
  /\ prevCount' = [prevCount EXCEPT ![t] = jobCount]
  /\ jobCount' = jobCount + 1
  /\ pushPc' = [pushPc EXCEPT ![t] = "counted"]
  /\ pushJob' = [pushJob EXCEPT ![t] = j]
  /\ issued' = [issued EXCEPT ![t] = Append(@, j)]
  /\ UNCHANGED <<queue, executing>>

(* Push: _jobs.Push(job), first half.                                      *)
EnterQueue(t) ==
  /\ pushPc[t] = "counted"
  /\ Q!Enter(t, pushJob[t])
  /\ pushPc' = [pushPc EXCEPT ![t] = "entered"]
  /\ UNCHANGED <<jobCount, pushJob, prevCount, issued, executing>>

(* Push: _jobs.Push(job), second half; then Execute() or return.           *)
FinishPushAnd(t, execute) ==
  /\ pushPc[t] = "entered"
  /\ Q!Finish(t)
  /\ pushPc' = [pushPc EXCEPT ![t] = "idle"]
  /\ pushJob' = [pushJob EXCEPT ![t] = Nobody]
  /\ execPc' = IF execute THEN [execPc EXCEPT ![t] = "drain"] ELSE execPc
  /\ UNCHANGED <<jobCount, prevCount, issued, batch, at, ended>>

(* Mutant of FinishPush: the decision reads the counter again.             *)
FinishPushByLoad(t) == FinishPushAnd(t, jobCount = 1)

(* The thread that counted from 0 executes.                                *)
FinishPush(t) == FinishPushAnd(t, prevCount[t] = 0)

(* Execute: one successful _jobs.Pop(job) into the batch.                  *)
DrainInto(t, jobs) ==
  /\ execPc[t] = "drain" /\ Q!Take
  /\ batch' = [batch EXCEPT ![t] = jobs]
  /\ UNCHANGED <<jobCount, pushing, execPc, at, ended>>

(* Mutant of DrainOne: the batch is filled from the front.                 *)
DrainOneInFront(t) == DrainInto(t, <<Head(queue).item>> \o batch[t])

DrainOne(t) == DrainInto(t, Append(batch[t], Head(queue).item))

(* Execute: Pop returned false and the loop over the batch starts.  The    *)
(* batch is empty when the oldest push is half finished: Execute spins.    *)
RunBatch(t) ==
  /\ execPc[t] = "drain" /\ ~Q!Poppable
  /\ execPc' = [execPc EXCEPT ![t] = IF batch[t] = <<>> THEN "settle" ELSE "job"]
  /\ UNCHANGED <<queue, pushing, batch, at, ended>>

(* Mutant of DrainDone: the batch is subtracted before it runs.            *)
DrainDoneSubtracting(t) == RunBatch(t) /\ jobCount' = jobCount - Len(batch[t])

DrainDone(t) == RunBatch(t) /\ UNCHANGED jobCount

(* Execute: a job returns, or throws and is dropped by the catch clauses;  *)
(* either way the loop goes on with the next one.                          *)
EndJob(t) ==
  /\ execPc[t] = "job" /\ pushPc[t] = "idle"
  /\ ended' = Append(ended, batch[t][at[t]])
  /\ at' = [at EXCEPT ![t] = @ + 1]
  /\ execPc' = [execPc EXCEPT ![t] = IF at[t] = Len(batch[t]) THEN "settle" ELSE "job"]
  /\ UNCHANGED <<jobCount, queue, pushing, batch>>

(* Execute: _jobCount.fetch_sub(n), then break or another round of the     *)
(* loop, with its own vector.                                              *)
SettleWith(t, leave) ==
  /\ execPc[t] = "settle"
  /\ jobCount' = jobCount - Len(batch[t])
  /\ execPc' = [execPc EXCEPT ![t] = IF leave THEN "none" ELSE "drain"]
  /\ batch' = [batch EXCEPT ![t] = <<>>]
  /\ at' = [at EXCEPT ![t] = 1]
  /\ UNCHANGED <<queue, pushing, ended>>

(* Mutant of Settle: leave when the queue looks empty.                     *)
SettleWhenEmpty(t) == SettleWith(t, ~Q!Poppable)

(* Leave when nothing but the batch was counted.                           *)
Settle(t) == SettleWith(t, jobCount = Len(batch[t]))

(* What a thread does once it is inside Push or Execute.                   *)
Step(t) == \/ EnterQueue(t) \/ FinishPush(t)
           \/ DrainOne(t) \/ DrainDone(t) \/ EndJob(t) \/ Settle(t)

Next == \E t \in Threads : (\E j \in Jobs : Count(t, j)) \/ Step(t)

Spec == Init /\ [][Next]_vars

(* A thread inside Push or Execute is scheduled again and again, and every *)
(* job returns or throws.  Nobody is obliged to push.                      *)
FairSpec == Spec /\ \A t \in Threads : WF_vars(Step(t))

-----------------------------------------------------------------------------
Executing(t) == execPc[t] # "none"

(* The thread that executes, or that will as soon as its Push returns.     *)
Owns(t) == Executing(t) \/ (pushPc[t] # "idle" /\ prevCount[t] = 0)

(* The queue is drained and jobs run by one thread at a time: Pop has a    *)
(* single consumer, and no two jobs of one room overlap.                   *)
SingleExecutor == \A t, u \in Threads : Executing(t) /\ Executing(u) => t = u

(* A job that pushes into its own queue never finds the count at 0, so     *)
(* Execute is never entered again from within itself.                      *)
NoReentry == \A t \in Threads : Executing(t) /\ pushPc[t] # "idle" => prevCount[t] # 0

(* The room's promise to its jobs: one of them at a time, on one thread.   *)
OneAtATime == TypeOK /\ SingleExecutor /\ NoReentry

(* No job is left behind: somebody owns the queue exactly while jobs are   *)
(* counted, so a job is never queued with nobody to run it.                *)
OwnedWhileCounted == jobCount > 0 <=> \E t \in Threads : Owns(t)

Counted == {t \in Threads : pushPc[t] = "counted"}

(* _jobCount is the jobs counted but not in the queue yet, those in the    *)
(* queue and those in the executor's batch, the ones already run included. *)
CountAccounts ==
  /\ \A t \in Threads : Executing(t) =>
       jobCount = Cardinality(Counted) + Len(queue) + Len(batch[t])
  /\ (\A t \in Threads : ~Executing(t)) => jobCount = Cardinality(Counted) + Len(queue)

(* The count that decides who executes is right at every step, and so is   *)
(* what is concluded from it.                                              *)
CountKept == OwnedWhileCounted /\ CountAccounts

(* A job ends once, and one thread's jobs end in the order in which it     *)
(* pushed them, none left out: a session's Enter before its Leave, a Leave *)
(* before its save.                                                        *)
ProgramOrder ==
  /\ \A m, n \in DOMAIN ended : ended[m] = ended[n] => m = n
  /\ \A t \in Threads, n \in DOMAIN ended :
       \A i, k \in DOMAIN issued[t] :
         i < k /\ ended[n] = issued[t][k] => \E m \in 1..(n - 1) : ended[m] = issued[t][i]

(* Every job pushed ends, although executors come and go.                  *)
EveryJobRuns == \A j \in Jobs : j \in Issued ~> j \in Members(ended)

-----------------------------------------------------------------------------
(* The implementation of SerialExecutor: what waits is the rest of the     *)
(* executor's batch and then the queue.                                    *)
RestOfBatch ==
  IF \E t \in Threads : Executing(t)
    THEN LET t == CHOOSE u \in Threads : Executing(u)
         IN  SubSeq(batch[t], at[t], Len(batch[t]))
    ELSE <<>>

QueuedJobs == [i \in DOMAIN queue |-> queue[i].item]

Serial == INSTANCE SerialExecutor WITH waiting <- RestOfBatch \o QueuedJobs, finished <- ended

(* Seen from the room, jobs run one at a time, once each, in queue order.  *)
ImplementsSerial == Serial!SSpec

=============================================================================
