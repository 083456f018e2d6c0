---------------------------- MODULE SerialExecutor ----------------------------
(***************************************************************************)
(* What ServerCore/JobQueue promises the objects that derive from it (the  *)
(* rooms): the jobs handed to DoAsync run one at a time, each once, in the *)
(* order in which they were queued, whichever threads queue and run them.  *)
(* The head of `waiting` is the job that is running or runs next; what a   *)
(* job does to its object therefore is one atomic step, Run.               *)
(***************************************************************************)
EXTENDS Sequences

CONSTANT Jobs

VARIABLES waiting,   \* queued jobs not finished yet, in queue order
          finished   \* finished jobs, in the order they finished

svars == <<waiting, finished>>

Members(s) == {s[i] : i \in DOMAIN s}

SInit == waiting = <<>> /\ finished = <<>>

Submit(j) ==
  /\ j \notin Members(waiting) \cup Members(finished)
  /\ waiting' = Append(waiting, j)
  /\ UNCHANGED finished

Run ==
  /\ waiting # <<>>
  /\ finished' = Append(finished, Head(waiting))
  /\ waiting' = Tail(waiting)

SNext == (\E j \in Jobs : Submit(j)) \/ Run

SSpec == SInit /\ [][SNext]_svars

=============================================================================
