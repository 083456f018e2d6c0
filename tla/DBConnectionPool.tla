--------------------------- MODULE DBConnectionPool ---------------------------
(***************************************************************************)
(* ServerCore/DBConnectionPool.cpp: a job queue with its condition         *)
(* variable, as many workers as connections, and the shutdown by Clear.    *)
(* A worker takes a job, leases a connection, runs the job whether or not  *)
(* the connection could be revived, and returns the connection even when   *)
(* the job throws.                                                         *)
(*                                                                         *)
(* _jobCv.wait(lock, p) is a loop: p is evaluated with _jobLock held; when *)
(* it is false the worker starts to wait and only then is _jobLock free.   *)
(* PushJob changes the queue with _jobLock held.  Clear sets _stop, which  *)
(* is an atomic, without it.                                               *)
(***************************************************************************)
EXTENDS Naturals, Sequences, FiniteSets

CONSTANTS Workers,      \* the worker threads
          Connections,  \* the connections made by Connect, one for each worker
          Jobs,         \* the jobs, each pushed at most once
          None

ASSUME PoolAssumption == /\ IsFiniteSet(Workers) /\ IsFiniteSet(Connections) /\ Workers # {}
                         /\ Cardinality(Workers) = Cardinality(Connections)
                         /\ None \notin Workers \cup Connections \cup Jobs

VARIABLES connections,  \* _connections, the idle ones
          jobs,         \* _jobs
          stop,         \* _stop
          pc,           \* worker -> where it is in WorkerThread
          job,          \* worker -> its job
          lease,        \* worker -> its connection
          clear,        \* where Clear is: "no", "notify", "join", "done"
          pushed,       \* history: jobs pushed
          ran           \* history: jobs whose lambda was called

vars == <<connections, jobs, stop, pc, job, lease, clear, pushed, ran>>

TypeOK ==
  /\ connections \subseteq Connections
  /\ jobs \in Seq(Jobs)
  /\ stop \in BOOLEAN
  /\ pc \in [Workers -> {"check", "decided", "waiting", "pop", "run", "return", "exited"}]
  /\ job \in [Workers -> Jobs \cup {None}]
  /\ lease \in [Workers -> Connections \cup {None}]
  /\ \A w \in Workers : /\ job[w] # None <=> pc[w] \in {"pop", "run"}
                        /\ lease[w] # None <=> pc[w] \in {"run", "return"}
  /\ clear \in {"no", "notify", "join", "done"}
  /\ pushed \subseteq Jobs /\ ran \subseteq Jobs

(* After Connect, which returns true only with every connection made.      *)
Init ==
  /\ connections = Connections
  /\ jobs = <<>>
  /\ stop = FALSE
  /\ pc = [w \in Workers |-> "check"]
  /\ job = [w \in Workers |-> None]
  /\ lease = [w \in Workers |-> None]
  /\ clear = "no"
  /\ pushed = {} /\ ran = {}

Goto(w, place) == pc' = [pc EXCEPT ![w] = place]

(* Nobody holds _jobLock: a worker holds it from its check until it waits. *)
JobLockFree == \A w \in Workers : pc[w] # "decided"

Waiting == {w \in Workers : pc[w] = "waiting"}

-----------------------------------------------------------------------------
(* PushJob, by a thread outside the pool while it is in service, or by a   *)
(* job: the queue grows and one waiting worker, if there is one, is woken. *)
PushJob(j) ==
  /\ j \notin pushed /\ JobLockFree
  /\ clear = "no" \/ \E w \in Workers : pc[w] = "run"
  /\ pushed' = pushed \cup {j}
  /\ jobs' = Append(jobs, j)
  /\ IF Waiting = {} THEN UNCHANGED pc ELSE \E w \in Waiting : Goto(w, "check")
  /\ UNCHANGED <<connections, stop, job, lease, clear, ran>>

(* The wait ends: the worker takes a job, or returns if it may.            *)
Proceed(w, mayExit) ==
  /\ pc[w] = "check" /\ JobLockFree
  /\ jobs # <<>> \/ stop
  /\ IF mayExit
       THEN Goto(w, "exited") /\ UNCHANGED <<jobs, job>>
       ELSE /\ jobs # <<>>
            /\ job' = [job EXCEPT ![w] = Head(jobs)]
            /\ jobs' = Tail(jobs)
            /\ Goto(w, "pop")
  /\ UNCHANGED <<connections, stop, lease, clear, pushed, ran>>

(* Mutant of Awake: a stopped worker returns and leaves the queue.         *)
AwakeLeaving(w) == Proceed(w, stop)

(* It returns when the pool is stopped and the queue is drained.           *)
Awake(w) == Proceed(w, stop /\ jobs = <<>>)

(* The predicate is false, _jobLock still held.                            *)
Decide(w) ==
  /\ pc[w] = "check" /\ JobLockFree /\ jobs = <<>> /\ ~stop
  /\ Goto(w, "decided")
  /\ UNCHANGED <<connections, jobs, stop, job, lease, clear, pushed, ran>>

(* The worker waits, and releases _jobLock in the same step.               *)
Wait(w) ==
  /\ pc[w] = "decided"
  /\ Goto(w, "waiting")
  /\ UNCHANGED <<connections, jobs, stop, job, lease, clear, pushed, ran>>

(* A condition variable may wake a thread nobody notified.                 *)
WakeSpuriously(w) ==
  /\ pc[w] = "waiting"
  /\ Goto(w, "check")
  /\ UNCHANGED <<connections, jobs, stop, job, lease, clear, pushed, ran>>

(* Pop: blocks while no connection is idle.                                *)
Pop(w) ==
  /\ pc[w] = "pop"
  /\ \E c \in connections :
       /\ lease' = [lease EXCEPT ![w] = c]
       /\ connections' = connections \ {c}
  /\ Goto(w, "run")
  /\ UNCHANGED <<jobs, stop, job, clear, pushed, ran>>

(* EnsureHealthy and the job: `healthy` says whether the connection lives  *)
(* or was revived, and `run` what is then done with the job, which may     *)
(* throw: the catch clauses go on in the same way.                         *)
RunWhen(w, run) ==
  /\ pc[w] = "run"
  /\ ran' = IF run THEN ran \cup {job[w]} ELSE ran
  /\ job' = [job EXCEPT ![w] = None]
  /\ Goto(w, "return")
  /\ UNCHANGED <<connections, jobs, stop, lease, clear, pushed>>

(* Mutant of RunJob: a dead connection makes the worker skip the job.      *)
RunJobIfHealthy(w, healthy) == RunWhen(w, healthy)

RunJob(w, healthy) == RunWhen(w, TRUE)

(* ~ConnectionLease, with these connections idle afterwards.               *)
ReturnTo(w, idle) ==
  /\ pc[w] = "return"
  /\ connections' = idle
  /\ lease' = [lease EXCEPT ![w] = None]
  /\ Goto(w, "check")
  /\ UNCHANGED <<jobs, stop, job, clear, pushed, ran>>

(* Mutant of Return: a dead connection is thrown away.                     *)
ReturnNothing(w) == ReturnTo(w, connections)

Return(w) == ReturnTo(w, connections \cup {lease[w]})

-----------------------------------------------------------------------------
(* Clear: _stop = true, without _jobLock.                                  *)
SetStop ==
  /\ clear = "no"
  /\ stop' = TRUE /\ clear' = "notify"
  /\ UNCHANGED <<connections, jobs, pc, job, lease, pushed, ran>>

NotifyTo(woken) ==
  /\ clear = "notify"
  /\ pc' = [w \in Workers |-> IF w \in woken THEN "check" ELSE pc[w]]
  /\ clear' = "join"
  /\ UNCHANGED <<connections, jobs, stop, job, lease, pushed, ran>>

(* Mutant of NotifyAll: notify_one.                                        *)
NotifyOne == IF Waiting = {} THEN NotifyTo({}) ELSE \E w \in Waiting : NotifyTo({w})

(* Clear: _jobCv.notify_all().                                             *)
NotifyAll == NotifyTo(Waiting)

(* Clear: every worker is joined, then the idle connections are deleted.   *)
Joined ==
  /\ clear = "join" /\ \A w \in Workers : pc[w] = "exited"
  /\ clear' = "done" /\ connections' = {}
  /\ UNCHANGED <<jobs, stop, pc, job, lease, pushed, ran>>

Clear == SetStop \/ NotifyAll \/ Joined

WorkerStep(w) == \/ Awake(w) \/ Decide(w) \/ Wait(w)
                 \/ Pop(w) \/ (\E healthy \in BOOLEAN : RunJob(w, healthy)) \/ Return(w)

Next == \/ \E j \in Jobs : PushJob(j)
        \/ \E w \in Workers : WorkerStep(w) \/ WakeSpuriously(w)
        \/ Clear

Spec == Init /\ [][Next]_vars

(* A worker that can take a step takes one, a query ends (the connection   *)
(* has read and write timeouts), and Clear goes on once it was called.     *)
(* Nobody has to push a job or to call Clear.                              *)
FairSpec == /\ Spec
            /\ \A w \in Workers : WF_vars(WorkerStep(w))
            /\ WF_vars(NotifyAll) /\ WF_vars(Joined)

-----------------------------------------------------------------------------
Leased == {lease[w] : w \in Workers} \ {None}

(* I1: the pool keeps its size.  While it is in service every connection   *)
(* is idle or leased to one worker, so that a worker with a job finds one. *)
PoolKept ==
  clear # "done" =>
    /\ connections \cap Leased = {} /\ connections \cup Leased = Connections
    /\ \A v, w \in Workers : lease[v] = lease[w] /\ lease[v] # None => v = w
    /\ \A w \in Workers : pc[w] = "pop" => connections # {}

(* I1, with the lease that each place of a worker implies.                 *)
PoolSound == TypeOK /\ PoolKept

(* I2: every job pushed is run, on a live connection or a dead one, during *)
(* the shutdown too, or its coroutine would be suspended for ever.         *)
EveryJobRuns == \A j \in Jobs : j \in pushed ~> j \in ran

(* When Clear has returned nothing is left in the queue or half done.      *)
FlushedByClear == clear = "done" => ran = pushed /\ Leased = {}

(* Clear collects its workers and returns, unless one of them has found    *)
(* the queue empty and _stop false and does not wait yet when it notifies: *)
(* that worker misses the notification for good, since _stop is set        *)
(* without _jobLock.                                                       *)
ClearReturns == clear = "notify" /\ JobLockFree ~> clear = "done"

=============================================================================
