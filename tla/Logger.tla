-------------------------------- MODULE Logger --------------------------------
(***************************************************************************)
(* ServerCore/Logger.cpp after Logger::Init has started it in asynchronous *)
(* mode.  Producers put records into a bounded queue (front); one backend  *)
(* thread swaps it for an empty one and writes the batch (back).  An ERROR *)
(* waits until its record is written, a TRACE is dropped when the queue is *)
(* full, Flush waits for all that was queued before it.  Main switches the *)
(* logger to synchronous mode (Configure with Async false, or at exit):    *)
(* Async, Draining, Sync.  A thread that crashes writes what is queued and *)
(* ends the process (PanicFlush).                                          *)
(*                                                                         *)
(* A step is one critical section of queueLock or writeLock, or one access *)
(* to gMode; a batch is written record by record under one writeLock.  The *)
(* log is what has been written to the files of the process, in order, and *)
(* begun says where the present file begins: a record of another day rolls *)
(* to a new one, and which records do so is left open.  What the sink      *)
(* cannot write is lost: there is no file because a roll could not open    *)
(* one, or formatting throws.  The file is enabled and at its lowest       *)
(* level, and the waits for the two locks in PanicFlush succeed.           *)
(***************************************************************************)
EXTENDS Naturals, Sequences, FiniteSets

CONSTANTS Producers,   \* threads that log
          Levels,      \* of the records they log
          capacity,    \* records that fit into the queue
          MaxCalls,    \* bound: calls of Submit and Flush together
          MaxTroubles  \* bound: rolls, and records whose formatting throws

ASSUME LevelsAssumption == Levels \subseteq {"Trace", "Info", "Error"}
ASSUME CapacityAssumption == capacity \in Nat \ {0}
ASSUME BoundsAssumption == {MaxCalls, MaxTroubles} \subseteq Nat

VARIABLES mode,             \* gMode
          front, back,      \* the two buffers of the backend
          enqueuedSeq,      \* last sequence number given
          flushedSeq,       \* last sequence number written
          droppedTotal,     \* TRACE records dropped
          droppedReported,  \* of these, the ones a note accounts for
          running, stopping, errorPending,
          batch,            \* what the backend remembers of the swap
          backend,          \* where the backend is
          main,             \* where main is in SwitchToSync and at exit
          panic,            \* where a crashing thread is
          pending,          \* the records that thread took out of front
          pc, call,         \* producer -> where it is, and in which call
          log,              \* the records in the files
          begun,            \* how many of them are in earlier files
          open,             \* the sink has a file
          troubles,         \* rolls and exceptions so far
          synced,           \* the places of the log that were forced to the disk
          noted,            \* history: drops the notes in the files tell of
          unnoted,          \* history: drops whose note was lost
          lost,             \* history: records the sink could not write
          records, flushes, \* history: how many calls so far
          kept, dropped,    \* history: records queued or written; dropped
          promised,         \* history: the highest number a wait vouched for
          expired           \* history: who gave up waiting for the drain

queueVars == <<front, enqueuedSeq, droppedTotal, errorPending>>
backendVars == <<back, batch, backend, flushedSeq, droppedReported, running>>
switchVars == <<mode, main, stopping>>
panicVars == <<panic, pending>>
sinkVars == <<log, begun, open, troubles, lost>>
fileVars == <<sinkVars, synced, noted, unnoted>>
calls == <<pc, call, records, flushes>>
history == <<kept, dropped, promised, expired>>
vars == <<queueVars, backendVars, switchVars, panicVars, fileVars, calls, history>>

Record == [by: Producers, no: 1..MaxCalls, level: Levels, seq: Nat]
Call == [no: 0..MaxCalls, level: Levels \cup {"Flush"}, seq: Nat]
NoBatch == [durable |-> FALSE, note |-> 0, lastSeq |-> 0]
NoCall == [no |-> 0, level |-> "Flush", seq |-> 0]
Alive == panic # "dead"
Members(s) == {s[i] : i \in DOMAIN s}
Larger(a, b) == IF a < b THEN b ELSE a

TypeOK ==
  /\ mode \in {"Async", "Draining", "Sync"}
  /\ front \in Seq(Record) /\ Len(front) <= capacity
  /\ back \in Seq(Record) /\ pending \in Seq(Record) /\ log \in Seq(Record)
  /\ enqueuedSeq \in Nat /\ flushedSeq \in 0..enqueuedSeq /\ promised \in 0..enqueuedSeq
  /\ droppedTotal \in Nat /\ droppedReported \in 0..droppedTotal
  /\ noted \in 0..droppedTotal /\ unnoted \in 0..droppedTotal
  /\ running \in BOOLEAN /\ stopping \in BOOLEAN /\ errorPending \in BOOLEAN
  /\ batch \in [durable: BOOLEAN, note: Nat, lastSeq: Nat]
  /\ backend \in {"wait", "write", "writing", "publish", "done"}
  /\ main \in {"running", "stop", "join", "announce", "switched", "exited"}
  /\ panic \in {"none", "holding", "writing", "dead"}
  /\ pc \in [Producers -> {"idle", "enqueue", "flushed", "drain", "write"}]
  /\ call \in [Producers -> Call]
  /\ begun \in 0..Len(log) /\ open \in BOOLEAN /\ troubles \in 0..MaxTroubles
  /\ synced \subseteq 1..Len(log) /\ lost \subseteq Record
  /\ records \in 0..MaxCalls /\ flushes \in 0..MaxCalls
  /\ kept \subseteq 1..records /\ dropped \subseteq 1..records
  /\ expired \subseteq Producers

(* Logger::Init with async: StartBackend, then gMode = Async.              *)
Init ==
  /\ mode = "Async" /\ main = "running" /\ stopping = FALSE
  /\ front = <<>> /\ enqueuedSeq = 0 /\ droppedTotal = 0 /\ errorPending = FALSE
  /\ back = <<>> /\ backend = "wait" /\ flushedSeq = 0 /\ droppedReported = 0 /\ running = TRUE
  /\ batch = NoBatch
  /\ panic = "none" /\ pending = <<>>
  /\ log = <<>> /\ begun = 0 /\ open = TRUE /\ troubles = 0 /\ synced = {} /\ lost = {}
  /\ noted = 0 /\ unnoted = 0
  /\ pc = [p \in Producers |-> "idle"]
  /\ call = [p \in Producers |-> NoCall]
  /\ records = 0 /\ flushes = 0
  /\ kept = {} /\ dropped = {} /\ promised = 0 /\ expired = {}

At(p, place) == Alive /\ pc[p] = place
Goto(p, place) == pc' = [pc EXCEPT ![p] = place]

(* The call returns: what it remembered is gone.                           *)
Return(p) == Goto(p, "idle") /\ call' = [call EXCEPT ![p] = NoCall]

(* The record of p's present call.                                         *)
Rec(p, seq) == [by |-> p, no |-> call[p].no, level |-> call[p].level, seq |-> seq]

-----------------------------------------------------------------------------
(* The bound on rolls and exceptions.                                      *)
Trouble == troubles < MaxTroubles /\ troubles' = troubles + 1

(* RollIfNeeded: the record is of the day of the file, or there is none;   *)
(* or the file is closed, forced to nothing, and the next may not open.    *)
RollIfNeeded ==
  \/ UNCHANGED <<begun, open, troubles>>
  \/ open /\ begun' = Len(log) /\ open' \in BOOLEAN /\ Trouble

(* WriteRecordLocked, under writeLock: FileSink::Write, or an exception    *)
(* before it.  A note on drops goes the same way (Noted).                  *)
WriteRecord(r) ==
  \/ RollIfNeeded /\ open' /\ log' = Append(log, r) /\ UNCHANGED lost
  \/ RollIfNeeded /\ ~open' /\ lost' = lost \cup {r} /\ UNCHANGED log
  \/ Trouble /\ lost' = lost \cup {r} /\ UNCHANGED <<log, begun, open>>

Noted(drops) ==
  \/ drops = 0 /\ UNCHANGED <<begun, open, troubles, noted, unnoted>>
  \/ drops > 0 /\ RollIfNeeded /\ open' /\ noted' = noted + drops /\ UNCHANGED unnoted
  \/ drops > 0 /\ RollIfNeeded /\ ~open' /\ unnoted' = unnoted + drops /\ UNCHANGED noted
  \/ drops > 0 /\ Trouble /\ unnoted' = unnoted + drops /\ UNCHANGED <<begun, open, noted>>

(* FileSink::Flush: what is in the present file reaches the disk, if it is *)
(* to be durable.                                                          *)
FlushSink(durable) ==
  synced' = IF durable THEN synced \cup (begun' + 1)..Len(log') ELSE synced

(* Nobody is in the middle of a batch with writeLock.                      *)
WriteLockFree == backend # "writing" /\ panic # "writing"

-----------------------------------------------------------------------------
(* Submit reads gMode and decides where the record goes.                   *)
Submit(p, level) ==
  /\ At(p, "idle") /\ records + flushes < MaxCalls
  /\ records' = records + 1
  /\ call' = [call EXCEPT ![p] = [no |-> records + 1, level |-> level, seq |-> 0]]
  /\ Goto(p, IF mode = "Async" THEN "enqueue" ELSE "drain")
  /\ UNCHANGED <<queueVars, backendVars, switchVars, panicVars, fileVars, flushes, history>>

(* Flush reads gMode and waits for the queue only in asynchronous mode.    *)
Flush(p) ==
  /\ At(p, "idle") /\ records + flushes < MaxCalls
  /\ flushes' = flushes + 1
  /\ Goto(p, IF mode = "Async" THEN "enqueue" ELSE "drain")
  /\ UNCHANGED <<queueVars, backendVars, switchVars, panicVars, fileVars, call, records, history>>

(* Flush: target = enqueuedSeq under queueLock.                            *)
FlushTarget(p) ==
  /\ At(p, "enqueue") /\ call[p].level = "Flush"
  /\ call' = [call EXCEPT ![p].seq = enqueuedSeq]
  /\ Goto(p, "flushed")
  /\ UNCHANGED <<queueVars, backendVars, switchVars, panicVars, fileVars, records, flushes,
                 history>>

(* Mutant of Enqueue: it does not look whether the backend still runs.     *)
EnqueueBlindly(p) ==
  /\ At(p, "enqueue") /\ call[p].level # "Flush" /\ Len(front) < capacity
  /\ front' = Append(front, Rec(p, enqueuedSeq + 1))
  /\ enqueuedSeq' = enqueuedSeq + 1
  /\ errorPending' = (errorPending \/ call[p].level = "Error")
  /\ kept' = kept \cup {call[p].no}
  /\ IF call[p].level = "Error"
       THEN Goto(p, "flushed") /\ call' = [call EXCEPT ![p].seq = enqueuedSeq + 1]
       ELSE Return(p)
  /\ UNCHANGED <<droppedTotal, backendVars, switchVars, panicVars, fileVars, records, flushes,
                 dropped, promised, expired>>

(* Enqueue while the backend runs: the record gets the next number.  A     *)
(* producer that finds the queue full waits in cvSpace until it has room.  *)
Enqueue(p) ==
  /\ At(p, "enqueue") /\ call[p].level # "Flush"
  /\ running /\ Len(front) < capacity
  /\ front' = Append(front, Rec(p, enqueuedSeq + 1))
  /\ enqueuedSeq' = enqueuedSeq + 1
  /\ errorPending' = (errorPending \/ call[p].level = "Error")
  /\ kept' = kept \cup {call[p].no}
  /\ IF call[p].level = "Error"
       THEN Goto(p, "flushed") /\ call' = [call EXCEPT ![p].seq = enqueuedSeq + 1]
       ELSE Return(p)
  /\ UNCHANGED <<droppedTotal, backendVars, switchVars, panicVars, fileVars, records, flushes,
                 dropped, promised, expired>>

(* Enqueue: a TRACE that finds the queue full is counted and dropped.      *)
DropTrace(p) ==
  /\ At(p, "enqueue") /\ call[p].level = "Trace"
  /\ running /\ Len(front) >= capacity
  /\ droppedTotal' = droppedTotal + 1
  /\ dropped' = dropped \cup {call[p].no}
  /\ Return(p)
  /\ UNCHANGED <<front, enqueuedSeq, errorPending, backendVars, switchVars, panicVars, fileVars,
                 records, flushes, kept, promised, expired>>

(* Mutant of NotRunning: the record is given up.                           *)
GiveUpNotRunning(p) ==
  /\ At(p, "enqueue") /\ call[p].level # "Flush" /\ ~running
  /\ Return(p)
  /\ UNCHANGED <<queueVars, backendVars, switchVars, panicVars, fileVars, records, flushes,
                 history>>

(* Enqueue returns NotRunning, before or after a wait for space: Submit    *)
(* goes on to the synchronous path.                                        *)
NotRunning(p) ==
  /\ At(p, "enqueue") /\ call[p].level # "Flush" /\ ~running
  /\ Goto(p, "drain")
  /\ UNCHANGED <<queueVars, backendVars, switchVars, panicVars, fileVars, call, records, flushes,
                 history>>

(* Submit returns after the wait, Flush goes on to the file.               *)
AfterWait(p) ==
  IF call[p].level = "Flush" THEN Goto(p, "drain") /\ UNCHANGED call ELSE Return(p)

(* WaitFlushed ends because the record is written or the backend is gone.  *)
WaitFlushed(p) ==
  /\ At(p, "flushed")
  /\ flushedSeq >= call[p].seq \/ ~running
  /\ promised' = Larger(promised, call[p].seq)
  /\ AfterWait(p)
  /\ UNCHANGED <<queueVars, backendVars, switchVars, panicVars, fileVars, records, flushes,
                 kept, dropped, expired>>

(* WaitFlushed times out.                                                  *)
FlushedExpires(p) ==
  /\ At(p, "flushed")
  /\ AfterWait(p)
  /\ UNCHANGED <<queueVars, backendVars, switchVars, panicVars, fileVars, records, flushes,
                 history>>

(* Mutant of WaitWhileDraining: it does not wait.                          *)
NoDrainWait(p) ==
  /\ At(p, "drain")
  /\ Goto(p, "write")
  /\ UNCHANGED <<queueVars, backendVars, switchVars, panicVars, fileVars, call, records, flushes,
                 history>>

(* WaitWhileDraining: the switch is over (or has not begun).               *)
WaitWhileDraining(p) ==
  /\ At(p, "drain") /\ mode # "Draining"
  /\ Goto(p, "write")
  /\ UNCHANGED <<queueVars, backendVars, switchVars, panicVars, fileVars, call, records, flushes,
                 history>>

(* WaitWhileDraining times out.                                            *)
DrainExpires(p) ==
  /\ At(p, "drain") /\ mode = "Draining"
  /\ expired' = expired \cup {p}
  /\ Goto(p, "write")
  /\ UNCHANGED <<queueVars, backendVars, switchVars, panicVars, fileVars, call, records, flushes,
                 kept, dropped, promised>>

(* WriteDirect under writeLock; an ERROR is forced to the disk.            *)
WriteDirect(p) ==
  /\ At(p, "write") /\ call[p].level # "Flush" /\ WriteLockFree
  /\ WriteRecord(Rec(p, 0))
  /\ FlushSink(call[p].level = "Error")
  /\ kept' = kept \cup {call[p].no}
  /\ Return(p)
  /\ UNCHANGED <<queueVars, backendVars, switchVars, panicVars, noted, unnoted, records, flushes,
                 dropped, promised, expired>>

(* Flush: file.Flush(false), which forces nothing to the disk.             *)
FlushFile(p) ==
  /\ At(p, "write") /\ call[p].level = "Flush" /\ WriteLockFree
  /\ Return(p)
  /\ UNCHANGED <<queueVars, backendVars, switchVars, panicVars, fileVars, records, flushes,
                 history>>

-----------------------------------------------------------------------------
(* Mutant of Swap: the number of drops it reports is not remembered.       *)
SwapForgetsDrops ==
  /\ Alive /\ backend = "wait" /\ front # <<>>
  /\ back' = front /\ front' = <<>>
  /\ batch' = [durable |-> errorPending, note |-> 0, lastSeq |-> front[Len(front)].seq]
  /\ errorPending' = FALSE
  /\ droppedReported' = droppedTotal
  /\ backend' = "write"
  /\ UNCHANGED <<enqueuedSeq, droppedTotal, flushedSeq, running, switchVars, panicVars, fileVars,
                 calls, history>>

(* BackendThreadMain under queueLock: take what is queued.  Its wait ends  *)
(* every 200 ms at the latest, so no notification can be missed for good.  *)
Swap ==
  /\ Alive /\ backend = "wait" /\ front # <<>>
  /\ back' = front /\ front' = <<>>
  /\ batch' = [durable |-> errorPending, note |-> droppedTotal - droppedReported,
               lastSeq |-> front[Len(front)].seq]
  /\ errorPending' = FALSE
  /\ droppedReported' = droppedTotal
  /\ backend' = "write"
  /\ UNCHANGED <<enqueuedSeq, droppedTotal, flushedSeq, running, switchVars, panicVars, fileVars,
                 calls, history>>

(* BackendThreadMain: nothing is queued and the thread is to stop.         *)
Quit ==
  /\ Alive /\ backend = "wait" /\ front = <<>> /\ stopping
  /\ running' = FALSE
  /\ backend' = "done"
  /\ UNCHANGED <<queueVars, back, batch, flushedSeq, droppedReported, switchVars, panicVars,
                 fileVars, calls, history>>

(* BackendThreadMain under writeLock: the records of the batch, one after  *)
(* the other...                                                            *)
WriteBatch ==
  /\ Alive /\ back # <<>>
  /\ (backend = "write" /\ WriteLockFree) \/ backend = "writing"
  /\ WriteRecord(Head(back))
  /\ back' = Tail(back)
  /\ backend' = "writing"
  /\ UNCHANGED <<queueVars, batch, flushedSeq, droppedReported, running, switchVars, panicVars,
                 synced, noted, unnoted, calls, history>>

(* ...the note on drops, and the flush, which is durable when the batch    *)
(* holds an ERROR.                                                         *)
FlushBatch ==
  /\ Alive /\ backend = "writing" /\ back = <<>>
  /\ Noted(batch.note) /\ UNCHANGED <<log, lost>>
  /\ FlushSink(batch.durable)
  /\ backend' = "publish"
  /\ UNCHANGED <<queueVars, back, batch, flushedSeq, droppedReported, running, switchVars,
                 panicVars, calls, history>>

(* Mutant of Publish: it publishes the last number given, not written.     *)
PublishAll ==
  /\ Alive /\ backend = "publish"
  /\ flushedSeq' = enqueuedSeq
  /\ batch' = NoBatch
  /\ backend' = "wait"
  /\ UNCHANGED <<queueVars, back, droppedReported, running, switchVars, panicVars, fileVars,
                 calls, history>>

(* BackendThreadMain under queueLock again: flushedSeq = lastSeq.          *)
Publish ==
  /\ Alive /\ backend = "publish"
  /\ flushedSeq' = batch.lastSeq
  /\ batch' = NoBatch
  /\ backend' = "wait"
  /\ UNCHANGED <<queueVars, back, droppedReported, running, switchVars, panicVars, fileVars,
                 calls, history>>

-----------------------------------------------------------------------------
(* SwitchToSync: the exchange of Async for Draining.                       *)
BeginSwitch ==
  /\ Alive /\ main = "running" /\ mode = "Async"
  /\ mode' = "Draining"
  /\ main' = "stop"
  /\ UNCHANGED <<queueVars, backendVars, stopping, panicVars, fileVars, calls, history>>

(* StopAndDrain: ask the backend to stop.                                  *)
RequestStop ==
  /\ Alive /\ main = "stop"
  /\ stopping' = (stopping \/ running)
  /\ main' = IF running THEN "join" ELSE "announce"
  /\ UNCHANGED <<queueVars, backendVars, mode, panicVars, fileVars, calls, history>>

(* StopAndDrain: join, then release the buffers.                           *)
Clear ==
  /\ Alive /\ main = "join" /\ backend = "done"
  /\ running' = FALSE
  /\ flushedSeq' = enqueuedSeq
  /\ front' = <<>> /\ back' = <<>>
  /\ main' = "announce"
  /\ UNCHANGED <<enqueuedSeq, droppedTotal, errorPending, batch, backend, droppedReported, mode,
                 stopping, panicVars, fileVars, calls, history>>

(* SwitchToSync: gMode = Sync, under modeLock.                             *)
Announce ==
  /\ Alive /\ main = "announce"
  /\ mode' = "Sync"
  /\ main' = "switched"
  /\ UNCHANGED <<queueVars, backendVars, stopping, panicVars, fileVars, calls, history>>

(* OnProcessExit after the switch: the file is forced to the disk.         *)
ExitFlush ==
  /\ Alive /\ main = "switched" /\ WriteLockFree
  /\ UNCHANGED sinkVars /\ FlushSink(TRUE)
  /\ main' = "exited"
  /\ UNCHANGED <<queueVars, backendVars, mode, stopping, panicVars, noted, unnoted, calls, history>>

(* PanicFlush: the first crashing thread takes what is queued...           *)
PanicTake ==
  /\ panic = "none"
  /\ pending' = front /\ front' = <<>>
  /\ panic' = "holding"
  /\ UNCHANGED <<enqueuedSeq, droppedTotal, errorPending, backendVars, switchVars, fileVars, calls,
                 history>>

(* ...writes it under writeLock...                                         *)
PanicWrite ==
  /\ pending # <<>>
  /\ (panic = "holding" /\ WriteLockFree) \/ panic = "writing"
  /\ WriteRecord(Head(pending))
  /\ pending' = Tail(pending)
  /\ panic' = "writing"
  /\ UNCHANGED <<queueVars, backendVars, switchVars, synced, noted, unnoted, calls, history>>

(* ...and a PANIC record, which may roll as well, forces the file to the   *)
(* disk, and the process ends.                                             *)
PanicEnd ==
  /\ pending = <<>>
  /\ (panic = "holding" /\ WriteLockFree) \/ panic = "writing"
  /\ RollIfNeeded /\ UNCHANGED <<log, lost>>
  /\ FlushSink(TRUE)
  /\ panic' = "dead"
  /\ UNCHANGED <<queueVars, backendVars, switchVars, pending, noted, unnoted, calls, history>>

-----------------------------------------------------------------------------
Calls(p) == Flush(p) \/ \E level \in Levels : Submit(p, level)

Continue(p) ==
  \/ FlushTarget(p) \/ Enqueue(p) \/ DropTrace(p) \/ NotRunning(p)
  \/ WaitFlushed(p) \/ WaitWhileDraining(p) \/ WriteDirect(p) \/ FlushFile(p)

TimesOut(p) == FlushedExpires(p) \/ DrainExpires(p)

Backend == Swap \/ Quit \/ WriteBatch \/ FlushBatch \/ Publish

Switch == RequestStop \/ Clear \/ Announce

Next ==
  \/ \E p \in Producers : Calls(p) \/ Continue(p) \/ TimesOut(p)
  \/ Backend
  \/ BeginSwitch \/ Switch \/ ExitFlush
  \/ PanicTake \/ PanicWrite \/ PanicEnd

Spec == Init /\ [][Next]_vars

(* Every thread of the process is scheduled.                               *)
FairSpec ==
  /\ Spec
  /\ \A p \in Producers : WF_vars(Continue(p))
  /\ WF_vars(Backend) /\ WF_vars(Switch) /\ WF_vars(PanicWrite \/ PanicEnd)

-----------------------------------------------------------------------------
Numbers(s) == [i \in DOMAIN s |-> s[i].no]
Held == Numbers(log \o back \o pending \o front)

(* A record that was queued or written directly is in exactly one place,   *)
(* once: the files, the batch being written, the hands of a crashing       *)
(* thread or the queue, or among the records the sink could not write.     *)
(* The switch to Sync, which throws the buffers away (652), loses none and *)
(* writes none twice.                                                      *)
RecordsKept ==
  /\ TypeOK
  /\ Members(Held) \cup {r.no : r \in lost} = kept
  /\ Len(Held) + Cardinality(lost) = Cardinality(kept)

(* The files hold the records of one thread in the order it logged them,   *)
(* also over the switch from queue to direct writing, except when the      *)
(* thread gave up its 5 s wait for the drain (732) or the process crashes. *)
WrittenInOrder ==
  \A i, j \in DOMAIN log :
    i < j /\ log[i].by = log[j].by /\ log[i].by \notin expired /\ panic = "none"
      => log[i].no < log[j].no

(* When an ERROR call or Flush returns without having timed out, each      *)
(* record queued up to then is in the files, unless the sink lost it, and  *)
(* the ERRORs among them are on the disk, unless a roll has closed their   *)
(* file.  A crashing thread may still hold or be writing some of them,     *)
(* which it forces to the disk before the process ends.  Logger.h:30       *)
(* promises more, "no loss", which the sink does not keep.                 *)
PromiseKept ==
  \A n \in 1..promised :
    \/ \E r \in Members(pending) \cup lost : r.seq = n
    \/ \E i \in DOMAIN log : /\ log[i].seq = n
                            /\ \/ log[i].level # "Error" \/ i \in synced \cup 1..begun
                               \/ panic = "writing"

(* Once the logger is synchronous, the files tell of every dropped TRACE,  *)
(* but for those whose note the sink could not write, unless a crashing    *)
(* thread took the records the note would have followed.                   *)
DropsReported == mode = "Sync" /\ panic = "none" => noted + unnoted = droppedTotal

(* Every record is written, is a dropped TRACE or is one the sink could    *)
(* not write, and every call returns, in each mode and over the switch,    *)
(* unless the process crashes.                                             *)
Settled ==
  /\ \A p \in Producers : pc[p] = "idle"
  /\ 1..records \subseteq Members(Numbers(log)) \cup dropped \cup {r.no : r \in lost}
EveryRecordIsWritten == []<>(Settled \/ ~Alive)
=============================================================================
