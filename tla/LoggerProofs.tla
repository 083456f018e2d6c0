----------------------------- MODULE LoggerProofs -----------------------------
(***************************************************************************)
(* Proofs about Logger: each record is in one place, once, the files keep  *)
(* the order of each thread, a wait that ends keeps its promise and every  *)
(* drop is accounted for, for any number of producers, any levels, any     *)
(* capacity and any number of calls, rolls and exceptions, over the switch *)
(* to synchronous mode and a crash.                                        *)
(***************************************************************************)
EXTENDS Logger, SequenceTheorems, FiniteSetTheorems, TLAPS

-----------------------------------------------------------------------------
(* What is in a queue, and the numbers of the calls it holds.              *)
Nos(s) == {r.no : r \in Members(s)}

LEMMA MembersOfEmpty == Members(<<>>) = {}
  BY DEF Members

LEMMA MembersTyped ==
  ASSUME NEW S, NEW s \in Seq(S)
  PROVE  Members(s) \subseteq S
  BY DEF Members

LEMMA MembersOfAppend ==
  ASSUME NEW S, NEW s \in Seq(S), NEW x \in S
  PROVE  Members(Append(s, x)) = Members(s) \cup {x}
<1> DEFINE r == Append(s, x)
<1>1. /\ Len(s) \in Nat /\ DOMAIN s = 1..Len(s) /\ DOMAIN r = 1..(Len(s) + 1)
      /\ \A i \in 1..Len(s) : r[i] = s[i]
      /\ r[Len(s) + 1] = x
  BY AppendProperties
<1> HIDE DEF r
<1>2. \A i \in DOMAIN r : (i \in DOMAIN s /\ r[i] = s[i]) \/ r[i] = x
  BY <1>1
<1>3. \A i \in DOMAIN s : i \in DOMAIN r /\ r[i] = s[i]
  BY <1>1
<1>4. Len(s) + 1 \in DOMAIN r
  BY <1>1
<1>5. Members(r) \subseteq Members(s) \cup {x}
  BY <1>2 DEF Members
<1>6. Members(s) \cup {x} \subseteq Members(r)
  BY <1>1, <1>3, <1>4 DEF Members
<1> QED BY <1>5, <1>6 DEF r

LEMMA MembersOfConcat ==
  ASSUME NEW S, NEW s \in Seq(S), NEW t \in Seq(S)
  PROVE  Members(s \o t) = Members(s) \cup Members(t)
<1> DEFINE r == s \o t
<1>1. /\ r \in Seq(S) /\ Len(r) = Len(s) + Len(t) /\ Len(s) \in Nat /\ Len(t) \in Nat
      /\ \A i \in 1..(Len(s) + Len(t)) : r[i] = IF i <= Len(s) THEN s[i] ELSE t[i - Len(s)]
  BY ConcatProperties
<1>2. DOMAIN r = 1..(Len(s) + Len(t)) /\ DOMAIN s = 1..Len(s) /\ DOMAIN t = 1..Len(t)
  BY <1>1, LenProperties
<1> HIDE DEF r
<1>3. \A i \in DOMAIN r : (i \in DOMAIN s /\ r[i] = s[i]) \/ (i - Len(s) \in DOMAIN t /\ r[i] = t[i - Len(s)])
  BY <1>1, <1>2
<1>4. \A i \in DOMAIN s : i \in DOMAIN r /\ r[i] = s[i]
  BY <1>1, <1>2
<1>5. \A i \in DOMAIN t : i + Len(s) \in DOMAIN r /\ r[i + Len(s)] = t[i]
  <2> SUFFICES ASSUME NEW i \in DOMAIN t
               PROVE  i + Len(s) \in DOMAIN r /\ r[i + Len(s)] = t[i]
    OBVIOUS
  <2>1. i + Len(s) \in 1..(Len(s) + Len(t)) /\ ~(i + Len(s) <= Len(s)) /\ (i + Len(s)) - Len(s) = i
    BY <1>1, <1>2
  <2> QED BY <1>1, <1>2, <2>1
<1>6. Members(r) \subseteq Members(s) \cup Members(t)
  BY <1>3 DEF Members
<1>7. Members(s) \cup Members(t) \subseteq Members(r)
  BY <1>4, <1>5 DEF Members
<1> QED BY <1>6, <1>7 DEF r

LEMMA MembersOfTail ==
  ASSUME NEW S, NEW s \in Seq(S), s # <<>>
  PROVE  /\ Head(s) \in S /\ Tail(s) \in Seq(S) /\ Len(s) = Len(Tail(s)) + 1
         /\ Head(s) \in Members(s) /\ Members(s) = {Head(s)} \cup Members(Tail(s))
<1> DEFINE r == Tail(s)
<1>1. /\ Head(s) \in S /\ r \in Seq(S) /\ Len(r) = Len(s) - 1
      /\ \A i \in 1..Len(r) : r[i] = s[i + 1]
  BY HeadTailProperties
<1>2. /\ Len(s) \in Nat /\ Len(r) \in Nat /\ DOMAIN s = 1..Len(s) /\ DOMAIN r = 1..Len(r)
      /\ Head(s) = s[1] /\ Len(s) = Len(r) + 1
  BY <1>1, LenProperties
<1> HIDE DEF r
<1>3. 1 \in DOMAIN s /\ \A i \in DOMAIN r : i + 1 \in DOMAIN s /\ r[i] = s[i + 1]
  BY <1>1, <1>2
<1>4. \A i \in DOMAIN s : s[i] = s[1] \/ (i - 1 \in DOMAIN r /\ r[i - 1] = s[i])
  <2> SUFFICES ASSUME NEW i \in DOMAIN s, i # 1
               PROVE  i - 1 \in DOMAIN r /\ r[i - 1] = s[i]
    OBVIOUS
  <2>1. i - 1 \in 1..Len(r) /\ (i - 1) + 1 = i
    BY <1>2
  <2> QED BY <1>1, <1>2, <2>1
<1>5. Members(s) \subseteq {s[1]} \cup Members(r)
  BY <1>4 DEF Members
<1>6. {s[1]} \cup Members(r) \subseteq Members(s)
  BY <1>3 DEF Members
<1> QED BY <1>1, <1>2, <1>5, <1>6 DEF r

-----------------------------------------------------------------------------
(* The invariant.  Busy: p's call has a record that is nowhere yet.        *)
Busy(p) == pc[p] \in {"enqueue", "drain", "write"} /\ call[p].level # "Flush"

(* Where the backend, main and a crashing thread are tells which buffers   *)
(* are empty.                                                              *)
Places ==
  /\ running <=> backend # "done"
  /\ backend \notin {"write", "writing"} => back = <<>>
  /\ backend \in {"wait", "done"} => batch = NoBatch
  /\ backend = "done" => front = <<>>
  /\ panic \notin {"holding", "writing"} => pending = <<>>
  /\ mode = "Async" <=> main = "running"
  /\ mode = "Sync" => main \in {"switched", "exited"}
  /\ main \in {"announce", "switched", "exited"} => ~running
  /\ stopping \/ ~running => main # "running"

(* A drop has had its note, or will by that of the batch being written, or *)
(* there is a record in the queue that will bring another note.            *)
Reported ==
  /\ noted + unnoted + (IF backend \in {"write", "writing"} THEN batch.note ELSE 0)
       = droppedReported
  /\ panic = "none" /\ front = <<>> => droppedReported = droppedTotal

(* Every number given belongs to a record; up to flushedSeq, and up to     *)
(* what a wait vouched for, to one that is in the files, in a crashing     *)
(* thread's hands or lost; what is still queued has a higher number.       *)
Everywhere ==
  Members(log) \cup Members(back) \cup Members(pending) \cup Members(front) \cup lost

Numbered ==
  /\ \A r \in Members(front) : r.seq <= enqueuedSeq
  /\ batch.lastSeq <= enqueuedSeq
  /\ \A r \in Members(front) :
       backend \in {"write", "writing", "publish"} => r.seq > batch.lastSeq
  /\ \A p \in Producers : call[p].seq <= enqueuedSeq
  /\ \A n \in 1..enqueuedSeq : \E r \in Everywhere : r.seq = n
  /\ \A n \in (1..flushedSeq) \cup (1..promised) :
       \E r \in Members(log) \cup Members(pending) \cup lost : r.seq = n

Promised ==
  /\ \A r \in Members(back) \cup Members(front) : r.seq > flushedSeq
  /\ backend \in {"write", "writing", "publish"} => batch.lastSeq >= flushedSeq
  /\ running => promised <= flushedSeq

(* ERRORs in the files are on the disk, or in a file that a roll closed,   *)
(* unless somebody is still writing; those on their way will be.           *)
BeingWritten(n) ==
  panic = "writing" \/ (backend = "writing" /\ batch.durable /\ n > flushedSeq)

ErrorsForced ==
  /\ \A i \in DOMAIN log :
       log[i].level = "Error" => i \in synced \cup 1..begun \/ BeingWritten(log[i].seq)
  /\ \A r \in Members(front) : r.level = "Error" => errorPending
  /\ \A r \in Members(back) : r.level = "Error" => batch.durable

(* A record is in one place, and a busy call's in none.                    *)
NosLost == {r.no : r \in lost}

EachOnce ==
  /\ IsFiniteSet(lost)
  /\ kept = Nos(log) \cup Nos(back) \cup Nos(pending) \cup Nos(front) \cup NosLost
  /\ Cardinality(kept) = Len(log) + Len(back) + Len(pending) + Len(front) + Cardinality(lost)
  /\ \A p \in Producers : Busy(p) => call[p].no \in 1..records /\ call[p].no \notin kept
  /\ \A p, q \in Producers : Busy(p) /\ Busy(q) /\ call[p].no = call[q].no => p = q

(* A busy producer reaches the file directly only when the queue has been  *)
(* drained, unless it gave up waiting for that.                            *)
Direct ==
  \A p \in Producers : Busy(p) => /\ pc[p] = "drain" => mode # "Async"
                                  /\ pc[p] = "write" => p \in expired \/ mode = "Sync"

(* A thread that is in no call remembers none.                             *)
Rested == \A p \in Producers : pc[p] = "idle" => call[p] = NoCall

Core ==
  /\ TypeOK /\ Places /\ Reported /\ Numbered /\ Promised /\ ErrorsForced
  /\ EachOnce /\ Direct /\ Rested

-----------------------------------------------------------------------------
(* What writing one record and a flush do to the sink.                     *)
LEMMA Sink ==
  ASSUME TypeOK, NEW r \in Record, WriteRecord(r)
  PROVE  /\ \/ log' = Append(log, r) /\ lost' = lost
            \/ log' = log /\ lost' = lost \cup {r}
         /\ begun' = begun \/ begun' = Len(log)
         /\ log' \in Seq(Record) /\ lost' \subseteq Record
         /\ Len(log') \in Nat /\ Len(log) \in Nat /\ Len(log) <= Len(log')
         /\ begun' \in 0..Len(log') /\ open' \in BOOLEAN /\ troubles' \in 0..MaxTroubles
<1>1. /\ \/ log' = Append(log, r) /\ lost' = lost
         \/ log' = log /\ lost' = lost \cup {r}
      /\ begun' = begun \/ begun' = Len(log)
  BY DEF WriteRecord, RollIfNeeded
<1>2. /\ log \in Seq(Record) /\ Len(log) \in Nat /\ lost \subseteq Record
      /\ begun \in 0..Len(log) /\ open \in BOOLEAN /\ troubles \in 0..MaxTroubles
      /\ MaxTroubles \in Nat
  BY BoundsAssumption, LenProperties DEF TypeOK
<1>3. log' \in Seq(Record) /\ (Len(log') = Len(log) \/ Len(log') = Len(log) + 1)
  BY <1>1, <1>2, AppendProperties
<1>4. lost' \subseteq Record
  BY <1>1, <1>2
<1>5. open' \in BOOLEAN
  BY <1>2 DEF WriteRecord, RollIfNeeded
<1>6. troubles' = troubles \/ (troubles < MaxTroubles /\ troubles' = troubles + 1)
  BY DEF WriteRecord, RollIfNeeded, Trouble
<1>7. troubles' \in 0..MaxTroubles
  BY <1>2, <1>6
<1> QED BY <1>1, <1>2, <1>3, <1>4, <1>5, <1>7

LEMMA SinkMembers ==
  ASSUME TypeOK, NEW r \in Record, WriteRecord(r)
  PROVE  /\ Members(log') \cup lost' = Members(log) \cup lost \cup {r}
         /\ Members(log') \subseteq Members(log) \cup {r}
         /\ Members(log) \subseteq Members(log') /\ lost \subseteq lost'
<1>1. log \in Seq(Record)
  BY DEF TypeOK
<1>2. Members(Append(log, r)) = Members(log) \cup {r}
  BY <1>1, MembersOfAppend
<1> QED BY <1>2, Sink

(* What is in the log stays in its place, a record written comes behind    *)
(* it, and a roll leaves everything before in closed files.                *)
LEMMA SinkPlaces ==
  ASSUME TypeOK, NEW r \in Record, WriteRecord(r), NEW i \in DOMAIN log'
  PROVE  \/ /\ i \in DOMAIN log /\ log'[i] = log[i]
            /\ i \in 1..begun => i \in 1..begun'
         \/ /\ log'[i] = r /\ i = Len(log') /\ i \notin 1..begun'
<1>1. /\ log \in Seq(Record) /\ Len(log) \in Nat /\ DOMAIN log = 1..Len(log)
      /\ begun \in 0..Len(log)
  BY LenProperties DEF TypeOK
<1>2. /\ log' = Append(log, r) \/ log' = log
      /\ begun' = begun \/ begun' = Len(log)
  BY Sink
<1>3. ASSUME NEW k \in DOMAIN log, k \in 1..begun PROVE k \in 1..begun'
  BY <1>1, <1>2, <1>3
<1>4. CASE log' = log
  BY <1>3, <1>4
<1>5. CASE log' = Append(log, r)
  <2>1. /\ DOMAIN log' = 1..(Len(log) + 1) /\ Len(log') = Len(log) + 1
        /\ \A k \in 1..Len(log) : log'[k] = log[k]
        /\ log'[Len(log) + 1] = r
    BY <1>1, <1>5, AppendProperties
  <2>2. CASE i = Len(log) + 1
    <3>1. i \notin 1..begun'
      BY <1>1, <1>2, <2>2
    <3> QED BY <2>1, <2>2, <3>1
  <2>3. CASE i # Len(log) + 1
    <3>1. i \in DOMAIN log /\ log'[i] = log[i]
      BY <1>1, <2>1, <2>3
    <3> QED BY <1>3, <3>1
  <2> QED BY <2>2, <2>3
<1> QED BY <1>2, <1>4, <1>5

LEMMA FlushTypes ==
  ASSUME synced \subseteq 1..Len(log), Len(log) \in Nat, Len(log') \in Nat, Len(log) <= Len(log'),
         begun' \in Nat, NEW durable, FlushSink(durable)
  PROVE  synced' \subseteq 1..Len(log')
<1>1. synced \subseteq 1..Len(log') /\ (begun' + 1)..Len(log') \subseteq 1..Len(log')
  OBVIOUS
<1> QED BY <1>1 DEF FlushSink

-----------------------------------------------------------------------------
(* Steps of a call that touch nothing but the call.                        *)
CallStep(p) ==
  \/ Calls(p) \/ FlushTarget(p) \/ NotRunning(p) \/ WaitFlushed(p) \/ FlushedExpires(p)
  \/ WaitWhileDraining(p) \/ DrainExpires(p) \/ FlushFile(p)

LEMMA CallStepQuiet ==
  ASSUME NEW p, CallStep(p)
  PROVE  UNCHANGED <<queueVars, backendVars, switchVars, panicVars, fileVars>> /\ UNCHANGED <<kept, dropped>>
  BY DEF CallStep, Calls, Submit, Flush, FlushTarget, NotRunning, WaitFlushed, FlushedExpires,
         WaitWhileDraining, DrainExpires, FlushFile, history

LEMMA NextCases ==
  ASSUME [Next]_vars
  PROVE  \/ \E p \in Producers : CallStep(p) \/ Enqueue(p) \/ DropTrace(p) \/ WriteDirect(p)
         \/ Swap \/ Quit \/ WriteBatch \/ FlushBatch \/ Publish
         \/ BeginSwitch \/ RequestStop \/ Clear \/ Announce \/ ExitFlush
         \/ PanicTake \/ PanicWrite \/ PanicEnd \/ UNCHANGED vars
  BY DEF Next, CallStep, Continue, TimesOut, Backend, Switch

(* The record a busy producer adds.                                        *)
LEMMA RecTyped ==
  ASSUME Core, NEW p \in Producers, Busy(p), NEW n \in Nat
  PROVE  /\ Rec(p, n) \in Record
         /\ Rec(p, n).by = p /\ Rec(p, n).no = call[p].no /\ Rec(p, n).level = call[p].level
         /\ Rec(p, n).seq = n
         /\ call[p].no \in 1..records /\ call[p].no \notin kept
<1>1. call[p].no \in 1..records /\ call[p].no \notin kept
  BY DEF Core, EachOnce
<1>2. records \in 0..MaxCalls /\ MaxCalls \in Nat
  BY BoundsAssumption DEF Core, TypeOK
<1>3. call[p].no \in 1..MaxCalls
  BY <1>1, <1>2
<1>4. call[p].level \in Levels
  BY DEF Core, TypeOK, Call, Busy
<1> QED BY <1>1, <1>3, <1>4 DEF Rec, Record

(* Who enqueues is busy, and its number is one.                            *)
LEMMA EnqueueBusy ==
  ASSUME Core, NEW p \in Producers, Enqueue(p)
  PROVE  Busy(p) /\ enqueuedSeq + 1 \in Nat
<1>1. Busy(p)
  BY DEF Enqueue, Busy, At
<1>2. enqueuedSeq \in Nat
  BY DEF Core, TypeOK
<1> QED BY <1>1, <1>2

LEMMA CallStepTypes ==
  ASSUME Core, NEW p \in Producers, CallStep(p)
  PROVE  TypeOK'
<1>1. UNCHANGED <<queueVars, backendVars, switchVars, panicVars, fileVars>> /\ UNCHANGED <<kept, dropped>>
  BY CallStepQuiet
<1>2. TypeOK /\ MaxCalls \in Nat
  BY BoundsAssumption DEF Core
<1> DEFINE Typed ==
      /\ pc' \in [Producers -> {"idle", "enqueue", "flushed", "drain", "write"}]
      /\ call' \in [Producers -> Call]
      /\ records' \in 0..MaxCalls /\ flushes' \in 0..MaxCalls
      /\ records <= records'
      /\ promised' \in 0..enqueuedSeq
      /\ expired' \subseteq Producers
<1>3. Typed
  <2>1. ASSUME NEW level \in Levels, Submit(p, level) PROVE Typed
    <3>1. records + 1 \in 0..MaxCalls
      BY <1>2, <2>1 DEF Submit, TypeOK
    <3>2. [no |-> records + 1, level |-> level, seq |-> 0] \in Call
      BY <3>1 DEF Call
    <3> QED BY <1>2, <2>1, <3>1, <3>2 DEF Submit, Goto, TypeOK, history
  <2>2. ASSUME Flush(p) PROVE Typed
    BY <1>2, <2>2 DEF Flush, Goto, TypeOK, history
  <2>3. ASSUME FlushTarget(p) PROVE Typed
    <3>1. [call[p] EXCEPT !.seq = enqueuedSeq] \in Call
      BY <1>2 DEF TypeOK, Call
    <3>2. call' \in [Producers -> Call]
      BY <1>2, <2>3, <3>1 DEF FlushTarget, TypeOK
    <3> QED BY <1>2, <2>3, <3>2 DEF FlushTarget, Goto, TypeOK, history
  <2>4. ASSUME NotRunning(p) \/ WaitWhileDraining(p) PROVE Typed
    <3>1. /\ pc \in [Producers -> {"idle", "enqueue", "flushed", "drain", "write"}] /\ call \in [Producers -> Call]
          /\ records \in 0..MaxCalls /\ flushes \in 0..MaxCalls /\ promised \in 0..enqueuedSeq
          /\ expired \subseteq Producers
      BY <1>2 DEF TypeOK
    <3>2. /\ Goto(p, "drain") \/ Goto(p, "write")
          /\ UNCHANGED <<call, records, flushes, promised, expired>>
      BY <2>4 DEF NotRunning, WaitWhileDraining, history
    <3> QED BY <1>2, <3>1, <3>2 DEF Goto
  <2>5. ASSUME AfterWait(p)
        PROVE  /\ pc' \in [Producers -> {"idle", "enqueue", "flushed", "drain", "write"}]
               /\ call' \in [Producers -> Call]
    <3>1. NoCall \in Call
      BY <1>2 DEF NoCall, Call
    <3> QED BY <1>2, <2>5, <3>1 DEF AfterWait, Return, Goto, TypeOK
  <2>6. ASSUME WaitFlushed(p) PROVE Typed
    <3>1. call[p].seq \in Nat /\ call[p].seq <= enqueuedSeq
      BY <1>2 DEF Core, Numbered, TypeOK, Call
    <3>2. promised' \in 0..enqueuedSeq
      BY <1>2, <2>6, <3>1 DEF WaitFlushed, Larger, TypeOK
    <3> QED BY <1>2, <2>5, <2>6, <3>2 DEF WaitFlushed, TypeOK
  <2>7. ASSUME FlushedExpires(p) PROVE Typed
    BY <1>2, <2>5, <2>7 DEF FlushedExpires, TypeOK, history
  <2>8. ASSUME DrainExpires(p) PROVE Typed
    BY <1>2, <2>8 DEF DrainExpires, Goto, TypeOK
  <2>9. ASSUME FlushFile(p) PROVE Typed
    <3>1. NoCall \in Call
      BY <1>2 DEF NoCall, Call
    <3> QED BY <1>2, <2>9, <3>1 DEF FlushFile, Return, Goto, TypeOK, history
  <2> QED BY <2>1, <2>2, <2>3, <2>4, <2>6, <2>7, <2>8, <2>9 DEF CallStep, Calls
<1>4. kept' \subseteq 1..records' /\ dropped' \subseteq 1..records'
  BY <1>1, <1>2, <1>3 DEF TypeOK
<1> QED BY <1>1, <1>2, <1>3, <1>4
        DEF TypeOK, queueVars, backendVars, switchVars, panicVars, fileVars, sinkVars

(* TypeOK by parts, and what each part depends on: a step that leaves the  *)
(* variables of a part alone keeps the part.                               *)
QueueTypes ==
  /\ front \in Seq(Record) /\ Len(front) <= capacity /\ errorPending \in BOOLEAN
  /\ enqueuedSeq \in Nat /\ flushedSeq \in 0..enqueuedSeq /\ promised \in 0..enqueuedSeq
DropTypes ==
  /\ droppedTotal \in Nat /\ droppedReported \in 0..droppedTotal
  /\ noted \in 0..droppedTotal /\ unnoted \in 0..droppedTotal
BackendTypes ==
  /\ back \in Seq(Record) /\ running \in BOOLEAN
  /\ batch \in [durable: BOOLEAN, note: Nat, lastSeq: Nat]
  /\ backend \in {"wait", "write", "writing", "publish", "done"}
MainTypes ==
  /\ mode \in {"Async", "Draining", "Sync"} /\ stopping \in BOOLEAN
  /\ main \in {"running", "stop", "join", "announce", "switched", "exited"}
PanicTypes == pending \in Seq(Record) /\ panic \in {"none", "holding", "writing", "dead"}
FileTypes ==
  /\ log \in Seq(Record) /\ begun \in 0..Len(log) /\ open \in BOOLEAN
  /\ troubles \in 0..MaxTroubles /\ synced \subseteq 1..Len(log) /\ lost \subseteq Record
CallTypes ==
  /\ pc \in [Producers -> {"idle", "enqueue", "flushed", "drain", "write"}]
  /\ call \in [Producers -> Call]
  /\ records \in 0..MaxCalls /\ flushes \in 0..MaxCalls
  /\ kept \subseteq 1..records /\ dropped \subseteq 1..records
  /\ expired \subseteq Producers

LEMMA TypeParts ==
  /\ TypeOK <=> /\ QueueTypes /\ DropTypes /\ BackendTypes /\ MainTypes
                /\ PanicTypes /\ FileTypes /\ CallTypes
  /\ TypeOK' <=> /\ QueueTypes' /\ DropTypes' /\ BackendTypes' /\ MainTypes'
                 /\ PanicTypes' /\ FileTypes' /\ CallTypes'
<1>1. TypeOK <=> /\ QueueTypes /\ DropTypes /\ BackendTypes /\ MainTypes
                 /\ PanicTypes /\ FileTypes /\ CallTypes
  BY Zenon DEF TypeOK, QueueTypes, DropTypes, BackendTypes, MainTypes, PanicTypes, FileTypes, CallTypes
<1>2. TypeOK' <=> /\ QueueTypes' /\ DropTypes' /\ BackendTypes' /\ MainTypes'
                  /\ PanicTypes' /\ FileTypes' /\ CallTypes'
  BY Zenon DEF TypeOK, QueueTypes, DropTypes, BackendTypes, MainTypes, PanicTypes, FileTypes, CallTypes
<1> QED BY <1>1, <1>2

LEMMA TypeFrames ==
  /\ QueueTypes /\ UNCHANGED <<front, errorPending, enqueuedSeq, flushedSeq, promised>>
       => QueueTypes'
  /\ DropTypes /\ UNCHANGED <<droppedTotal, droppedReported, noted, unnoted>> => DropTypes'
  /\ BackendTypes /\ UNCHANGED <<back, running, batch, backend>> => BackendTypes'
  /\ MainTypes /\ UNCHANGED switchVars => MainTypes'
  /\ PanicTypes /\ UNCHANGED panicVars => PanicTypes'
  /\ FileTypes /\ UNCHANGED <<sinkVars, synced>> => FileTypes'
  /\ CallTypes /\ UNCHANGED <<calls, kept, dropped, expired>> => CallTypes'
<1>1. QueueTypes /\ UNCHANGED <<front, errorPending, enqueuedSeq, flushedSeq, promised>>
        => QueueTypes'
  BY DEF QueueTypes
<1>2. DropTypes /\ UNCHANGED <<droppedTotal, droppedReported, noted, unnoted>> => DropTypes'
  BY DEF DropTypes
<1>3. BackendTypes /\ UNCHANGED <<back, running, batch, backend>> => BackendTypes'
  BY DEF BackendTypes
<1>4. MainTypes /\ UNCHANGED switchVars => MainTypes'
  BY DEF MainTypes, switchVars
<1>5. PanicTypes /\ UNCHANGED panicVars => PanicTypes'
  BY DEF PanicTypes, panicVars
<1>6. FileTypes /\ UNCHANGED <<sinkVars, synced>> => FileTypes'
  BY DEF FileTypes, sinkVars
<1>7. CallTypes /\ UNCHANGED <<calls, kept, dropped, expired>> => CallTypes'
  BY DEF CallTypes, calls
<1> QED BY <1>1, <1>2, <1>3, <1>4, <1>5, <1>6, <1>7

LEMMA NextTypes == Core /\ [Next]_vars => TypeOK'
<1> SUFFICES ASSUME Core, [Next]_vars PROVE TypeOK'
  OBVIOUS
<1>1. /\ TypeOK /\ NoCall \in Call /\ capacity \in Nat \ {0}
      /\ NoBatch \in [durable: BOOLEAN, note: Nat, lastSeq: Nat]
  <2>1. NoCall \in Call
    BY BoundsAssumption DEF NoCall, Call
  <2>2. NoBatch \in [durable: BOOLEAN, note: Nat, lastSeq: Nat]
    BY DEF NoBatch
  <2> QED BY <2>1, <2>2, CapacityAssumption DEF Core
<1>a. /\ enqueuedSeq \in Nat /\ flushedSeq \in 0..enqueuedSeq /\ promised \in 0..enqueuedSeq
      /\ droppedTotal \in Nat /\ droppedReported \in 0..droppedTotal
      /\ noted \in 0..droppedTotal /\ unnoted \in 0..droppedTotal
      /\ kept \subseteq 1..records /\ dropped \subseteq 1..records
  BY <1>1 DEF TypeOK
<1>b. /\ QueueTypes /\ DropTypes /\ BackendTypes /\ MainTypes
      /\ PanicTypes /\ FileTypes /\ CallTypes
  BY <1>1, TypeParts
<1>2. ASSUME NEW p \in Producers, CallStep(p) PROVE TypeOK'
  BY <1>2, CallStepTypes
<1>3. ASSUME NEW p \in Producers, Enqueue(p) PROVE TypeOK'
  <2> DEFINE r == Rec(p, enqueuedSeq + 1)
  <2>1. Busy(p) /\ enqueuedSeq + 1 \in Nat
    BY <1>3, EnqueueBusy
  <2>2. r \in Record /\ call[p].no \in 1..records
    BY <2>1, RecTyped
  <2> HIDE DEF r
  <2>3. front' = Append(front, r) /\ Len(front) < capacity
    BY <1>3 DEF Enqueue, r
  <2>4. front' \in Seq(Record) /\ Len(front') <= capacity
    BY <1>1, <2>2, <2>3, AppendProperties DEF TypeOK
  <2>5. call' \in [Producers -> Call] /\ pc' \in [Producers -> {"idle", "enqueue", "flushed", "drain", "write"}]
    <3>1. [call[p] EXCEPT !.seq = enqueuedSeq + 1] \in Call
      BY <1>1, <2>1 DEF TypeOK, Call
    <3>2. CASE call[p].level = "Error"
      BY <1>1, <1>3, <3>1, <3>2 DEF Enqueue, Goto, TypeOK
    <3>3. CASE call[p].level # "Error"
      BY <1>1, <1>3, <3>3 DEF Enqueue, Return, Goto, TypeOK
    <3> QED BY <3>2, <3>3
  <2>6. kept' \subseteq 1..records'
    BY <1>1, <1>3, <2>2 DEF Enqueue, TypeOK
  <2>7. /\ enqueuedSeq' \in Nat /\ flushedSeq' \in 0..enqueuedSeq' /\ promised' \in 0..enqueuedSeq'
        /\ errorPending' \in BOOLEAN
    <3>1. enqueuedSeq' = enqueuedSeq + 1 /\ flushedSeq' = flushedSeq /\ promised' = promised
      BY <1>3 DEF Enqueue, backendVars
    <3>2. errorPending' \in BOOLEAN
      BY <1>3 DEF Enqueue
    <3> QED BY <1>a, <3>1, <3>2
  <2>8. /\ droppedTotal' = droppedTotal /\ records' = records /\ flushes' = flushes /\ dropped' = dropped
        /\ expired' = expired /\ UNCHANGED <<backendVars, switchVars, panicVars, fileVars>>
    BY <1>3 DEF Enqueue
  <2> QED
    <3>1. DropTypes' /\ BackendTypes' /\ MainTypes' /\ PanicTypes' /\ FileTypes'
      BY <1>b, <2>8, TypeFrames DEF queueVars, backendVars, switchVars, panicVars, fileVars, sinkVars, calls, history
    <3>2. QueueTypes'
      BY <1>b, <1>1, <2>4, <2>7 DEF QueueTypes
    <3>3. CallTypes'
      BY <1>b, <2>5, <2>6, <2>8 DEF CallTypes, calls, history
    <3> QED BY <3>1, <3>2, <3>3, TypeParts
<1>4. ASSUME NEW p \in Producers, DropTrace(p) PROVE TypeOK'
  <2>1. Busy(p)
    BY <1>4 DEF DropTrace, Busy, At
  <2>2. call[p].no \in 1..records
    BY <2>1 DEF Core, EachOnce
  <2>3. /\ dropped' \subseteq 1..records' /\ droppedTotal' \in Nat
        /\ droppedReported' \in 0..droppedTotal'
        /\ noted' \in 0..droppedTotal' /\ unnoted' \in 0..droppedTotal'
    <3>1. /\ droppedTotal' = droppedTotal + 1 /\ dropped' = dropped \cup {call[p].no}
          /\ records' = records /\ droppedReported' = droppedReported
          /\ noted' = noted /\ unnoted' = unnoted
      BY <1>4 DEF DropTrace, backendVars, fileVars
    <3>2. dropped' \subseteq 1..records'
      BY <1>a, <2>2, <3>1
    <3>3. /\ droppedTotal' \in Nat /\ droppedReported' \in 0..droppedTotal'
          /\ noted' \in 0..droppedTotal' /\ unnoted' \in 0..droppedTotal'
      BY <1>a, <3>1
    <3> QED BY <3>2, <3>3
  <2>4. call' \in [Producers -> Call] /\ pc' \in [Producers -> {"idle", "enqueue", "flushed", "drain", "write"}]
    BY <1>1, <1>4 DEF DropTrace, Return, Goto, TypeOK
  <2>5. UNCHANGED <<front, enqueuedSeq, errorPending, backendVars, switchVars, panicVars, fileVars,
                    records, flushes, kept, promised, expired>>
    BY <1>4 DEF DropTrace
  <2> QED
    <3>1. QueueTypes' /\ BackendTypes' /\ MainTypes' /\ PanicTypes' /\ FileTypes'
      BY <1>b, <2>5, TypeFrames DEF queueVars, backendVars, switchVars, panicVars, fileVars, sinkVars, calls, history
    <3>2. DropTypes'
      BY <1>b, <2>3 DEF DropTypes
    <3>3. CallTypes'
      BY <1>b, <2>3, <2>4, <2>5 DEF CallTypes
    <3> QED BY <3>1, <3>2, <3>3, TypeParts
<1>5. ASSUME NEW p \in Producers, WriteDirect(p) PROVE TypeOK'
  <2> DEFINE r == Rec(p, 0)
  <2>1. Busy(p)
    BY <1>5 DEF WriteDirect, Busy, At
  <2>2. r \in Record /\ call[p].no \in 1..records
    BY <2>1, RecTyped
  <2> HIDE DEF r
  <2>3. WriteRecord(r)
    BY <1>5 DEF WriteDirect, r
  <2>4. /\ log' \in Seq(Record) /\ lost' \subseteq Record /\ begun' \in 0..Len(log')
        /\ Len(log) \in Nat /\ Len(log') \in Nat /\ Len(log) <= Len(log')
        /\ open' \in BOOLEAN /\ troubles' \in 0..MaxTroubles
    BY <1>1, <2>2, <2>3, Sink
  <2>5. synced' \subseteq 1..Len(log')
    <3>1. synced \subseteq 1..Len(log) /\ begun' \in Nat
      BY <1>1, <2>4 DEF TypeOK
    <3> QED BY <1>5, <2>4, <3>1, FlushTypes DEF WriteDirect
  <2>6. kept' \subseteq 1..records'
    BY <1>1, <1>5, <2>2 DEF WriteDirect, TypeOK
  <2>7. call' \in [Producers -> Call] /\ pc' \in [Producers -> {"idle", "enqueue", "flushed", "drain", "write"}]
    BY <1>1, <1>5 DEF WriteDirect, Return, Goto, TypeOK
  <2>8. UNCHANGED <<queueVars, backendVars, switchVars, panicVars, noted, unnoted, records, flushes,
                    dropped, promised, expired>>
    BY <1>5 DEF WriteDirect
  <2> QED
    <3>1. QueueTypes' /\ DropTypes' /\ BackendTypes' /\ MainTypes' /\ PanicTypes'
      BY <1>b, <2>8, TypeFrames DEF queueVars, backendVars, switchVars, panicVars, fileVars, sinkVars, calls, history
    <3>2. FileTypes'
      BY <1>b, <2>4, <2>5 DEF FileTypes
    <3>3. CallTypes'
      BY <1>b, <2>6, <2>7, <2>8 DEF CallTypes
    <3> QED BY <3>1, <3>2, <3>3, TypeParts
<1>6. CASE Swap
  <2>1. Len(front) \in DOMAIN front /\ front[Len(front)] \in Record
    <3>1. Len(front) \in Nat /\ Len(front) # 0
      BY <1>1, <1>6, EmptySeq DEF Swap, TypeOK
    <3>2. Len(front) \in 1..Len(front)
      BY <3>1
    <3> QED BY <1>1, <3>2 DEF TypeOK
  <2>2. batch' \in [durable: BOOLEAN, note: Nat, lastSeq: Nat]
    <3>1. front[Len(front)].seq \in Nat /\ droppedTotal - droppedReported \in Nat /\ errorPending \in BOOLEAN
      BY <1>1, <2>1 DEF TypeOK, Record
    <3> QED BY <1>6, <3>1 DEF Swap
  <2>3. front' \in Seq(Record) /\ Len(front') <= capacity /\ back' \in Seq(Record)
    BY <1>1, <1>6 DEF Swap, TypeOK
  <2>4. /\ flushedSeq' = flushedSeq /\ promised' = promised /\ enqueuedSeq' = enqueuedSeq
        /\ droppedTotal' = droppedTotal /\ noted' = noted /\ unnoted' = unnoted
        /\ droppedReported' = droppedTotal
        /\ errorPending' = FALSE /\ backend' = "write" /\ running' = running
    BY <1>6 DEF Swap, fileVars, sinkVars, history
  <2>5. droppedReported' \in 0..droppedTotal'
    BY <1>a, <2>4
  <2>6. UNCHANGED <<switchVars, panicVars, fileVars, calls, history>>
    BY <1>6 DEF Swap
  <2> QED
    <3>1. MainTypes' /\ PanicTypes' /\ FileTypes' /\ CallTypes'
      BY <1>b, <2>6, TypeFrames DEF queueVars, backendVars, switchVars, panicVars, fileVars, sinkVars, calls, history
    <3>2. QueueTypes'
      BY <1>b, <2>3, <2>4 DEF QueueTypes
    <3>3. DropTypes'
      BY <1>b, <2>4, <2>5 DEF DropTypes
    <3>4. BackendTypes'
      BY <1>b, <2>2, <2>3, <2>4 DEF BackendTypes
    <3> QED BY <3>1, <3>2, <3>3, <3>4, TypeParts
<1>7. CASE Quit
  <2>1. BackendTypes'
    BY <1>b, <1>7 DEF Quit, BackendTypes
  <2>2. UNCHANGED <<queueVars, flushedSeq, droppedReported, switchVars, panicVars, fileVars, calls,
                    history>>
    BY <1>7 DEF Quit
  <2> QED BY <1>b, <2>1, <2>2, TypeFrames, TypeParts DEF queueVars, fileVars, history
<1>8. CASE WriteBatch
  <2>1. Head(back) \in Record /\ back' \in Seq(Record)
    BY <1>1, <1>8, MembersOfTail DEF WriteBatch, TypeOK
  <2>2. /\ log' \in Seq(Record) /\ lost' \subseteq Record /\ begun' \in 0..Len(log')
        /\ Len(log) \in Nat /\ Len(log') \in Nat /\ Len(log) <= Len(log')
        /\ open' \in BOOLEAN /\ troubles' \in 0..MaxTroubles
    BY <1>1, <1>8, <2>1, Sink DEF WriteBatch
  <2>3. synced' \subseteq 1..Len(log')
    BY <1>1, <1>8, <2>2 DEF WriteBatch, TypeOK
  <2>4. /\ backend' = "writing"
        /\ UNCHANGED <<queueVars, batch, flushedSeq, droppedReported, running, switchVars, panicVars,
                       noted, unnoted, calls, history>>
    BY <1>8 DEF WriteBatch
  <2> QED
    <3>1. QueueTypes' /\ DropTypes' /\ MainTypes' /\ PanicTypes' /\ CallTypes'
      BY <1>b, <2>4, TypeFrames DEF queueVars, backendVars, switchVars, panicVars, fileVars, sinkVars, calls, history
    <3>2. BackendTypes'
      BY <1>b, <2>1, <2>4 DEF BackendTypes
    <3>3. FileTypes'
      BY <1>b, <2>2, <2>3 DEF FileTypes
    <3> QED BY <3>1, <3>2, <3>3, TypeParts
<1>16. CASE FlushBatch
  <2>1. /\ begun' = begun \/ begun' = Len(log)
        /\ open' \in BOOLEAN
        /\ troubles' = troubles \/ (troubles < MaxTroubles /\ troubles' = troubles + 1)
        /\ log' = log /\ lost' = lost
        /\ \/ noted' = noted /\ unnoted' = unnoted
           \/ noted' = noted + batch.note /\ unnoted' = unnoted
           \/ noted' = noted /\ unnoted' = unnoted + batch.note
    BY <1>1, <1>16 DEF FlushBatch, Noted, RollIfNeeded, Trouble, TypeOK
  <2>2. /\ begun \in 0..Len(log) /\ Len(log) \in Nat /\ troubles \in 0..MaxTroubles /\ MaxTroubles \in Nat
        /\ synced \subseteq 1..Len(log) /\ batch.note \in Nat
    BY <1>1, BoundsAssumption, LenProperties DEF TypeOK
  <2>3. begun' \in 0..Len(log') /\ troubles' \in 0..MaxTroubles
    BY <2>1, <2>2
  <2>4. synced' \subseteq 1..Len(log')
    BY <1>16, <2>1, <2>2, <2>3, FlushTypes DEF FlushBatch
  <2>5. noted' \in 0..droppedTotal' /\ unnoted' \in 0..droppedTotal'
    <3>1. noted + unnoted + batch.note = droppedReported /\ droppedTotal' = droppedTotal
      BY <1>16 DEF Core, Reported, FlushBatch, queueVars
    <3>2. /\ noted \in Nat /\ unnoted \in Nat /\ batch.note \in Nat /\ droppedTotal \in Nat
          /\ noted + unnoted + batch.note <= droppedTotal
      BY <1>a, <2>2, <3>1
    <3>3. /\ noted' \in {noted, noted + batch.note} /\ unnoted' \in {unnoted, unnoted + batch.note}
      BY <2>1
    <3> QED BY <3>1, <3>2, <3>3
  <2>6. /\ backend' = "publish"
        /\ UNCHANGED <<queueVars, back, batch, flushedSeq, droppedReported, running, switchVars,
                       panicVars, calls, history>>
    BY <1>16 DEF FlushBatch
  <2> QED
    <3>1. QueueTypes' /\ MainTypes' /\ PanicTypes' /\ CallTypes'
      BY <1>b, <2>6, TypeFrames DEF queueVars, backendVars, switchVars, panicVars, fileVars, sinkVars, calls, history
    <3>2. DropTypes'
      BY <1>b, <2>5, <2>6 DEF DropTypes, queueVars
    <3>3. BackendTypes'
      BY <1>b, <2>6 DEF BackendTypes
    <3>4. FileTypes'
      BY <1>b, <2>1, <2>3, <2>4 DEF FileTypes
    <3> QED BY <3>1, <3>2, <3>3, <3>4, TypeParts
<1>9. CASE Publish
  <2>1. flushedSeq' \in 0..enqueuedSeq'
    BY <1>1, <1>9 DEF Publish, Core, Numbered, TypeOK, queueVars
  <2>2. /\ batch' \in [durable: BOOLEAN, note: Nat, lastSeq: Nat] /\ backend' = "wait"
        /\ UNCHANGED <<queueVars, back, droppedReported, running, switchVars, panicVars, fileVars,
                       calls, history>>
    BY <1>1, <1>9 DEF Publish
  <2> QED
    <3>1. DropTypes' /\ MainTypes' /\ PanicTypes' /\ FileTypes' /\ CallTypes'
      BY <1>b, <2>2, TypeFrames DEF queueVars, backendVars, switchVars, panicVars, fileVars, sinkVars, calls, history
    <3>2. QueueTypes'
      BY <1>b, <2>1, <2>2 DEF QueueTypes, queueVars, history
    <3>3. BackendTypes'
      BY <1>b, <2>2 DEF BackendTypes
    <3> QED BY <3>1, <3>2, <3>3, TypeParts
<1>10. CASE BeginSwitch \/ RequestStop \/ Announce
  <2>1. /\ mode' \in {"Async", "Draining", "Sync"}
        /\ main' \in {"running", "stop", "join", "announce", "switched", "exited"}
        /\ stopping' \in BOOLEAN
    BY <1>1, <1>10 DEF BeginSwitch, RequestStop, Announce, TypeOK
  <2>2. UNCHANGED <<queueVars, backendVars, panicVars, fileVars, calls, history>>
    BY <1>10 DEF BeginSwitch, RequestStop, Announce
  <2> QED
    <3>1. QueueTypes' /\ DropTypes' /\ BackendTypes' /\ PanicTypes' /\ FileTypes' /\ CallTypes'
      BY <1>b, <2>2, TypeFrames DEF queueVars, backendVars, switchVars, panicVars, fileVars, sinkVars, calls, history
    <3>2. MainTypes'
      BY <1>b, <2>1 DEF MainTypes
    <3> QED BY <3>1, <3>2, TypeParts
<1>11. CASE Clear
  <2>1. front' \in Seq(Record) /\ back' \in Seq(Record) /\ Len(front') <= capacity
    BY <1>1, <1>11 DEF Clear
  <2>2. flushedSeq' \in 0..enqueuedSeq'
    BY <1>a, <1>11 DEF Clear
  <2>3. /\ running' = FALSE /\ main' = "announce"
        /\ UNCHANGED <<enqueuedSeq, droppedTotal, errorPending, batch, backend, droppedReported, mode,
                       stopping, panicVars, fileVars, calls, history>>
    BY <1>11 DEF Clear
  <2> QED
    <3>1. DropTypes' /\ PanicTypes' /\ FileTypes' /\ CallTypes'
      BY <1>b, <2>3, TypeFrames DEF queueVars, backendVars, switchVars, panicVars, fileVars, sinkVars, calls, history
    <3>2. QueueTypes'
      BY <1>b, <2>1, <2>2, <2>3 DEF QueueTypes, history
    <3>3. BackendTypes'
      BY <1>b, <2>1, <2>3 DEF BackendTypes
    <3>4. MainTypes'
      BY <1>b, <2>3 DEF MainTypes
    <3> QED BY <3>1, <3>2, <3>3, <3>4, TypeParts
<1>12. CASE ExitFlush
  <2>1. synced' \subseteq 1..Len(log') /\ UNCHANGED sinkVars
    <3>1. synced \subseteq 1..Len(log) /\ Len(log) \in Nat /\ begun \in Nat
      BY <1>1, LenProperties DEF TypeOK
    <3>2. /\ UNCHANGED sinkVars /\ log' = log /\ begun' = begun
          /\ synced' = synced \cup (begun' + 1)..Len(log')
      BY <1>12 DEF ExitFlush, FlushSink, sinkVars
    <3>3. (begun' + 1)..Len(log') \subseteq 1..Len(log')
      BY <3>1, <3>2
    <3> QED BY <3>1, <3>2, <3>3
  <2>2. /\ main' = "exited"
        /\ UNCHANGED <<queueVars, backendVars, mode, stopping, panicVars, noted, unnoted, calls, history>>
    BY <1>12 DEF ExitFlush
  <2> QED
    <3>1. QueueTypes' /\ DropTypes' /\ BackendTypes' /\ PanicTypes' /\ CallTypes'
      BY <1>b, <2>2, TypeFrames DEF queueVars, backendVars, switchVars, panicVars, fileVars, sinkVars, calls, history
    <3>2. MainTypes'
      BY <1>b, <2>2 DEF MainTypes
    <3>3. FileTypes'
      BY <1>b, <2>1 DEF FileTypes, sinkVars
    <3> QED BY <3>1, <3>2, <3>3, TypeParts
<1>13. CASE PanicTake
  <2>1. front' \in Seq(Record) /\ Len(front') <= capacity /\ pending' \in Seq(Record)
    BY <1>1, <1>13 DEF PanicTake, TypeOK
  <2>2. /\ panic' = "holding"
        /\ UNCHANGED <<enqueuedSeq, droppedTotal, errorPending, backendVars, switchVars, fileVars,
                       calls, history>>
    BY <1>13 DEF PanicTake
  <2> QED
    <3>1. DropTypes' /\ BackendTypes' /\ MainTypes' /\ FileTypes' /\ CallTypes'
      BY <1>b, <2>2, TypeFrames DEF queueVars, backendVars, switchVars, panicVars, fileVars, sinkVars, calls, history
    <3>2. QueueTypes'
      BY <1>b, <2>1, <2>2 DEF QueueTypes, backendVars, history
    <3>3. PanicTypes'
      BY <1>b, <2>1, <2>2 DEF PanicTypes
    <3> QED BY <3>1, <3>2, <3>3, TypeParts
<1>14. CASE PanicWrite
  <2>1. Head(pending) \in Record /\ pending' \in Seq(Record)
    BY <1>1, <1>14, MembersOfTail DEF PanicWrite, TypeOK
  <2>2. /\ log' \in Seq(Record) /\ lost' \subseteq Record /\ begun' \in 0..Len(log')
        /\ Len(log) \in Nat /\ Len(log') \in Nat /\ Len(log) <= Len(log')
        /\ open' \in BOOLEAN /\ troubles' \in 0..MaxTroubles
    BY <1>1, <1>14, <2>1, Sink DEF PanicWrite
  <2>3. synced' \subseteq 1..Len(log')
    BY <1>1, <1>14, <2>2 DEF PanicWrite, TypeOK
  <2>4. panic' = "writing" /\ UNCHANGED <<queueVars, backendVars, switchVars, noted, unnoted, calls, history>>
    BY <1>14 DEF PanicWrite
  <2> QED
    <3>1. QueueTypes' /\ DropTypes' /\ BackendTypes' /\ MainTypes' /\ CallTypes'
      BY <1>b, <2>4, TypeFrames DEF queueVars, backendVars, switchVars, panicVars, fileVars, sinkVars, calls, history
    <3>2. PanicTypes'
      BY <1>b, <2>1, <2>4 DEF PanicTypes
    <3>3. FileTypes'
      BY <1>b, <2>2, <2>3 DEF FileTypes
    <3> QED BY <3>1, <3>2, <3>3, TypeParts
<1>17. CASE PanicEnd
  <2>1. /\ begun' = begun \/ begun' = Len(log)
        /\ open' \in BOOLEAN
        /\ troubles' = troubles \/ (troubles < MaxTroubles /\ troubles' = troubles + 1)
        /\ log' = log /\ lost' = lost
    BY <1>1, <1>17 DEF PanicEnd, RollIfNeeded, Trouble, TypeOK
  <2>2. /\ begun \in 0..Len(log) /\ Len(log) \in Nat /\ troubles \in 0..MaxTroubles /\ MaxTroubles \in Nat
        /\ synced \subseteq 1..Len(log)
    BY <1>1, BoundsAssumption, LenProperties DEF TypeOK
  <2>3. begun' \in 0..Len(log') /\ troubles' \in 0..MaxTroubles
    BY <2>1, <2>2
  <2>4. synced' \subseteq 1..Len(log')
    <3>1. synced' = synced \cup (begun' + 1)..Len(log')
      BY <1>17 DEF PanicEnd, FlushSink
    <3>2. (begun' + 1)..Len(log') \subseteq 1..Len(log')
      BY <2>1, <2>2, <2>3
    <3> QED BY <2>1, <2>2, <3>1, <3>2
  <2>5. /\ pending' = pending /\ panic' = "dead"
        /\ UNCHANGED <<queueVars, backendVars, switchVars, noted, unnoted, calls, history>>
    BY <1>17 DEF PanicEnd
  <2> QED
    <3>1. QueueTypes' /\ DropTypes' /\ BackendTypes' /\ MainTypes' /\ CallTypes'
      BY <1>b, <2>5, TypeFrames DEF queueVars, backendVars, switchVars, panicVars, fileVars, sinkVars, calls, history
    <3>2. PanicTypes'
      BY <1>b, <2>5 DEF PanicTypes
    <3>3. FileTypes'
      BY <1>b, <2>1, <2>3, <2>4 DEF FileTypes
    <3> QED BY <3>1, <3>2, <3>3, TypeParts
<1>15. CASE UNCHANGED vars
  BY <1>1, <1>15 DEF vars, TypeOK, queueVars, backendVars, switchVars, panicVars, fileVars, sinkVars, calls, history
<1> QED BY <1>2, <1>3, <1>4, <1>5, <1>6, <1>7, <1>8, <1>9, <1>10, <1>11, <1>12, <1>13, <1>14, <1>15,
           <1>16, <1>17, NextCases

-----------------------------------------------------------------------------
(* Places, Reported.                                                       *)
LEMMA NextPlaces == Core /\ [Next]_vars => Places'
<1> SUFFICES ASSUME Core, [Next]_vars PROVE Places'
  OBVIOUS
<1>1. /\ Places /\ running \in BOOLEAN /\ stopping \in BOOLEAN
      /\ backend \in {"wait", "write", "writing", "publish", "done"}
      /\ main \in {"running", "stop", "join", "announce", "switched", "exited"}
      /\ panic \in {"none", "holding", "writing", "dead"} /\ mode \in {"Async", "Draining", "Sync"}
  BY DEF Core, TypeOK
<1>2. ASSUME NEW p \in Producers, CallStep(p) PROVE Places'
  BY <1>1, <1>2, CallStepQuiet DEF Places, queueVars, backendVars, switchVars, panicVars
<1>3. ASSUME NEW p \in Producers, Enqueue(p) PROVE Places'
  <2>1. backend # "done"
    BY <1>1, <1>3 DEF Enqueue, Places
  <2> QED BY <1>1, <1>3, <2>1 DEF Enqueue, Places, backendVars, switchVars, panicVars
<1>4. ASSUME NEW p \in Producers, DropTrace(p) \/ WriteDirect(p) PROVE Places'
  BY <1>1, <1>4 DEF DropTrace, WriteDirect, Places, queueVars, backendVars, switchVars, panicVars
<1>5. CASE Swap \/ Quit
  BY <1>1, <1>5 DEF Swap, Quit, Places, queueVars, switchVars, panicVars
<1>6. CASE WriteBatch \/ FlushBatch
  <2>1. /\ backend \in {"write", "writing"} /\ backend' \in {"writing", "publish"}
        /\ backend' = "publish" => back' = <<>>
        /\ UNCHANGED <<running, front, panic, pending, mode, main, stopping, batch>>
    BY <1>1, <1>6 DEF WriteBatch, FlushBatch, Places, queueVars, switchVars, panicVars
  <2> QED BY <1>1, <2>1 DEF Places
<1>10. CASE Publish
  <2>1. /\ backend = "publish" /\ backend' = "wait" /\ batch' = NoBatch
        /\ UNCHANGED <<back, running, front, panic, pending, mode, main, stopping>>
    BY <1>10 DEF Publish, queueVars, switchVars, panicVars
  <2> QED BY <1>1, <2>1 DEF Places
<1>7. CASE BeginSwitch \/ RequestStop \/ Announce \/ ExitFlush
  <2>0. UNCHANGED <<front, back, backend, batch, running, panic, pending>>
    BY <1>7 DEF BeginSwitch, RequestStop, Announce, ExitFlush, queueVars, backendVars, panicVars
  <2>1. CASE BeginSwitch
    <3>1. main = "running" /\ main' = "stop" /\ mode' = "Draining" /\ stopping' = stopping
      BY <2>1 DEF BeginSwitch
    <3> QED BY <1>1, <2>0, <3>1 DEF Places
  <2>2. CASE RequestStop
    <3>1. /\ main = "stop" /\ mode' = mode
          /\ \/ running /\ main' = "join"
             \/ ~running /\ main' = "announce"
      BY <1>1, <2>2 DEF RequestStop
    <3> QED BY <1>1, <2>0, <3>1 DEF Places
  <2>3. CASE Announce
    <3>1. main = "announce" /\ main' = "switched" /\ mode' = "Sync" /\ stopping' = stopping
      BY <2>3 DEF Announce
    <3> QED BY <1>1, <2>0, <3>1 DEF Places
  <2>4. CASE ExitFlush
    <3>1. main = "switched" /\ main' = "exited" /\ mode' = mode /\ stopping' = stopping
      BY <2>4 DEF ExitFlush
    <3> QED BY <1>1, <2>0, <3>1 DEF Places
  <2> QED BY <1>7, <2>1, <2>2, <2>3, <2>4
<1>11. CASE Clear
  <2>1. /\ main = "join" /\ main' = "announce" /\ backend = "done" /\ running' = FALSE
        /\ front' = <<>> /\ back' = <<>>
        /\ UNCHANGED <<backend, batch, panic, pending, mode, stopping>>
    BY <1>11 DEF Clear, panicVars
  <2> QED BY <1>1, <2>1 DEF Places
<1>8. CASE PanicTake \/ PanicWrite \/ PanicEnd
  <2>1. UNCHANGED <<back, backend, batch, running, mode, main, stopping>>
    BY <1>8 DEF PanicTake, PanicWrite, PanicEnd, backendVars, switchVars
  <2>2. CASE PanicTake
    <3>1. panic' = "holding" /\ front' = <<>>
      BY <2>2 DEF PanicTake
    <3> QED BY <1>1, <2>1, <3>1 DEF Places
  <2>3. CASE PanicWrite
    <3>1. panic' = "writing" /\ front' = front
      BY <2>3 DEF PanicWrite, queueVars
    <3> QED BY <1>1, <2>1, <3>1 DEF Places
  <2>4. CASE PanicEnd
    <3>1. pending' = <<>> /\ front' = front
      BY <2>4 DEF PanicEnd, queueVars
    <3> QED BY <1>1, <2>1, <3>1 DEF Places
  <2> QED BY <1>8, <2>2, <2>3, <2>4
<1>9. CASE UNCHANGED vars
  BY <1>1, <1>9 DEF vars, Places, queueVars, backendVars, switchVars, panicVars
<1> QED BY <1>2, <1>3, <1>4, <1>5, <1>6, <1>7, <1>8, <1>9, <1>10, <1>11, NextCases

LEMMA NextReported == Core /\ [Next]_vars => Reported'
<1> SUFFICES ASSUME Core, [Next]_vars PROVE Reported'
  OBVIOUS
<1>1. TypeOK /\ Places /\ Reported /\ capacity \in Nat \ {0}
  BY CapacityAssumption DEF Core
<1>2. ASSUME NEW p \in Producers, CallStep(p) \/ WriteDirect(p) PROVE Reported'
  BY <1>1, <1>2, CallStepQuiet DEF WriteDirect, Reported, queueVars, backendVars, panicVars, fileVars
<1>3. ASSUME NEW p \in Producers, Enqueue(p) PROVE Reported'
  <2>1. front' # <<>>
    <3>1. front' = Append(front, Rec(p, enqueuedSeq + 1)) /\ front \in Seq(Record)
      BY <1>1, <1>3 DEF Enqueue, TypeOK
    <3>2. Rec(p, enqueuedSeq + 1) \in Record
      <4>1. Busy(p)
        BY <1>3 DEF Enqueue, Busy, At
      <4>2. enqueuedSeq + 1 \in Nat
        BY <1>1 DEF TypeOK
      <4> QED BY <4>1, <4>2, RecTyped
    <3> QED BY <3>1, <3>2, AppendProperties
  <2> QED BY <1>1, <1>3, <2>1 DEF Enqueue, Reported, backendVars, panicVars, fileVars
<1>4. ASSUME NEW p \in Producers, DropTrace(p) PROVE Reported'
  <2>1. front # <<>>
    BY <1>1, <1>4, EmptySeq DEF DropTrace, TypeOK
  <2> QED BY <1>1, <1>4, <2>1 DEF DropTrace, Reported, backendVars, panicVars, fileVars
<1>5. CASE Swap
  BY <1>1, <1>5 DEF Swap, Reported, TypeOK, panicVars, fileVars
<1>6. CASE Quit
  BY <1>1, <1>6 DEF Quit, Reported, queueVars, panicVars, fileVars
<1>7. CASE WriteBatch
  BY <1>1, <1>7 DEF WriteBatch, Reported, TypeOK, queueVars, panicVars
<1>13. CASE FlushBatch
  <2>1. noted' + unnoted' = noted + unnoted + batch.note
    BY <1>1, <1>13 DEF FlushBatch, Noted, TypeOK
  <2> QED BY <1>1, <1>13, <2>1 DEF FlushBatch, Reported, TypeOK, queueVars, panicVars
<1>8. CASE Publish
  BY <1>1, <1>8 DEF Publish, Reported, queueVars, panicVars, fileVars
<1>9. CASE BeginSwitch \/ RequestStop \/ Announce \/ ExitFlush
  BY <1>1, <1>9 DEF BeginSwitch, RequestStop, Announce, ExitFlush, Reported,
                    queueVars, backendVars, panicVars, fileVars
<1>10. CASE Clear
  BY <1>1, <1>10 DEF Clear, Reported, Places, panicVars, fileVars
<1>11. CASE PanicTake \/ PanicWrite \/ PanicEnd
  BY <1>1, <1>11 DEF PanicTake, PanicWrite, PanicEnd, Reported, queueVars, backendVars, fileVars
<1>12. CASE UNCHANGED vars
  BY <1>1, <1>12 DEF vars, Reported, queueVars, backendVars, panicVars, fileVars
<1> QED BY <1>2, <1>3, <1>4, <1>5, <1>6, <1>7, <1>8, <1>9, <1>10, <1>11, <1>12, <1>13, NextCases

-----------------------------------------------------------------------------
(* Numbered: every number given belongs to a record.                       *)
LEMMA CallStepNumbers ==
  ASSUME Core, NEW p \in Producers, CallStep(p)
  PROVE  /\ \A q \in Producers : call'[q].seq <= enqueuedSeq
         /\ \A n \in 1..promised' : \E r \in Members(log) \cup Members(pending) \cup lost : r.seq = n
<1>1. /\ TypeOK /\ enqueuedSeq \in Nat /\ flushedSeq \in 0..enqueuedSeq /\ promised \in 0..enqueuedSeq
      /\ \A q \in Producers : call[q].seq <= enqueuedSeq /\ call[q].seq \in Nat
      /\ \A n \in 1..promised : \E r \in Members(log) \cup Members(pending) \cup lost : r.seq = n
      /\ NoCall.seq = 0
  BY DEF Core, Numbered, TypeOK, Call, NoCall
<1>2. \A q \in Producers : call'[q].seq <= enqueuedSeq
  <2> SUFFICES ASSUME NEW q \in Producers PROVE call'[q].seq <= enqueuedSeq
    OBVIOUS
  <2>1. ASSUME NEW level \in Levels, Submit(p, level) PROVE call'[q].seq <= enqueuedSeq
    BY <1>1, <2>1 DEF Submit, TypeOK
  <2>2. ASSUME FlushTarget(p) PROVE call'[q].seq <= enqueuedSeq
    <3>1. call' = [call EXCEPT ![p].seq = enqueuedSeq]
      BY <2>2 DEF FlushTarget
    <3>2. call \in [Producers -> Call]
      BY <1>1 DEF TypeOK
    <3>3. q = p => call'[q].seq = enqueuedSeq
      BY <3>1, <3>2 DEF Call
    <3>4. q # p => call'[q] = call[q]
      BY <3>1, <3>2
    <3> QED BY <1>1, <3>3, <3>4
  <2>3. ASSUME Flush(p) \/ NotRunning(p) \/ WaitWhileDraining(p) \/ DrainExpires(p)
        PROVE  call'[q].seq <= enqueuedSeq
    BY <1>1, <2>3 DEF Flush, NotRunning, WaitWhileDraining, DrainExpires
  <2>4. ASSUME AfterWait(p) \/ Return(p) PROVE call'[q].seq <= enqueuedSeq
    BY <1>1, <2>4 DEF AfterWait, Return, TypeOK
  <2>5. ASSUME WaitFlushed(p) \/ FlushedExpires(p) \/ FlushFile(p) PROVE call'[q].seq <= enqueuedSeq
    BY <2>4, <2>5 DEF WaitFlushed, FlushedExpires, FlushFile
  <2> QED BY <2>1, <2>2, <2>3, <2>5 DEF CallStep, Calls
<1>3. ASSUME NEW n \in 1..promised'
      PROVE  \E r \in Members(log) \cup Members(pending) \cup lost : r.seq = n
  <2>1. CASE promised' = promised
    BY <1>1, <1>3, <2>1
  <2>2. CASE WaitFlushed(p)
    <3>1. promised' = promised \/ promised' = call[p].seq
      BY <2>2 DEF WaitFlushed, Larger
    <3>2. CASE promised' = promised
      BY <1>1, <1>3, <3>2
    <3>3. CASE promised' = call[p].seq /\ flushedSeq >= call[p].seq
      <4>1. n \in 1..flushedSeq
        BY <1>1, <1>3, <3>3
      <4> QED BY <4>1 DEF Core, Numbered
    <3>4. CASE promised' = call[p].seq /\ ~running
      <4>1. n \in 1..enqueuedSeq
        BY <1>1, <1>3, <3>4
      <4>2. Members(front) = {} /\ Members(back) = {}
        BY <3>4, MembersOfEmpty DEF Core, Places
      <4>3. \E r \in Everywhere : r.seq = n
        BY <4>1 DEF Core, Numbered
      <4> QED BY <4>2, <4>3 DEF Everywhere
    <3> QED BY <2>2, <3>1, <3>2, <3>3, <3>4 DEF WaitFlushed
  <2> QED BY <2>1, <2>2 DEF CallStep, Calls, Submit, Flush, FlushTarget, NotRunning, FlushedExpires,
                            WaitWhileDraining, DrainExpires, FlushFile, history
<1> QED BY <1>2, <1>3

LEMMA NextNumbered == Core /\ [Next]_vars => Numbered'
<1> SUFFICES ASSUME Core, [Next]_vars PROVE Numbered'
  OBVIOUS
<1>1. /\ TypeOK /\ Places /\ Numbered /\ Members(<<>>) = {}
      /\ enqueuedSeq \in Nat /\ flushedSeq \in 0..enqueuedSeq /\ promised \in 0..enqueuedSeq
      /\ batch.lastSeq \in Nat
      /\ \A r \in Everywhere : r.seq \in Nat
  <2>1. Members(log) \subseteq Record /\ Members(back) \subseteq Record
        /\ Members(pending) \subseteq Record /\ Members(front) \subseteq Record
        /\ lost \subseteq Record
    BY MembersTyped DEF Core, TypeOK
  <2>2. \A r \in Everywhere : r.seq \in Nat
    BY <2>1 DEF Everywhere, Record
  <2> QED BY <2>2, MembersOfEmpty DEF Core, TypeOK
<1>2. ASSUME NEW p \in Producers, CallStep(p) PROVE Numbered'
  <2>1. UNCHANGED <<front, back, pending, log, lost, enqueuedSeq, flushedSeq, batch, backend>>
    BY <1>2, CallStepQuiet DEF queueVars, backendVars, panicVars, fileVars, sinkVars
  <2>2. /\ \A q \in Producers : call'[q].seq <= enqueuedSeq
        /\ \A n \in 1..promised' : \E r \in Members(log) \cup Members(pending) \cup lost : r.seq = n
    BY <1>2, CallStepNumbers
  <2> QED BY <1>1, <2>1, <2>2 DEF Numbered, Everywhere
<1>3. ASSUME NEW p \in Producers, Enqueue(p) PROVE Numbered'
  <2> DEFINE r == Rec(p, enqueuedSeq + 1)
  <2>1. r \in Record /\ r.seq = enqueuedSeq + 1
    <3>1. Busy(p) /\ enqueuedSeq + 1 \in Nat
      BY <1>3, EnqueueBusy
    <3> QED BY <3>1, RecTyped
  <2> HIDE DEF r
  <2>2. front' = Append(front, r) /\ front \in Seq(Record)
    BY <1>1, <1>3 DEF Enqueue, r, TypeOK
  <2>3. Members(front') = Members(front) \cup {r}
    BY <2>1, <2>2, MembersOfAppend
  <2>4. UNCHANGED <<back, pending, log, lost, flushedSeq, promised, batch, backend>>
        /\ enqueuedSeq' = enqueuedSeq + 1
    BY <1>3 DEF Enqueue, backendVars, panicVars, fileVars, sinkVars
  <2>5. \A q \in Producers : call'[q].seq <= enqueuedSeq'
    <3> SUFFICES ASSUME NEW q \in Producers PROVE call'[q].seq <= enqueuedSeq + 1
      BY <2>4
    <3>1. call[q].seq \in Nat /\ call[q].seq <= enqueuedSeq /\ NoCall.seq = 0
      BY <1>1 DEF TypeOK, Call, Numbered, NoCall
    <3>2. call' = [call EXCEPT ![p].seq = enqueuedSeq + 1] \/ call' = [call EXCEPT ![p] = NoCall]
      BY <1>3 DEF Enqueue, Return
    <3>3. call \in [Producers -> Call]
      BY <1>1 DEF TypeOK
    <3>4. CASE q # p
      <4>1. call'[q] = call[q]
        BY <3>2, <3>3, <3>4
      <4> QED BY <1>1, <3>1, <4>1
    <3>5. CASE q = p
      <4>1. call[p] \in Call
        BY <3>3
      <4>2. [call[p] EXCEPT !.seq = enqueuedSeq + 1].seq = enqueuedSeq + 1
        BY <4>1 DEF Call
      <4>3. call'[q] = [call[p] EXCEPT !.seq = enqueuedSeq + 1] \/ call'[q] = NoCall
        BY <3>2, <3>3, <3>5
      <4> DEFINE c == [call[p] EXCEPT !.seq = enqueuedSeq + 1]
      <4> HIDE DEF c
      <4>4. c.seq = enqueuedSeq + 1 /\ (call'[q] = c \/ call'[q] = NoCall)
        BY <4>2, <4>3 DEF c
      <4>5. call'[q].seq = enqueuedSeq + 1 \/ call'[q].seq = 0
        BY <3>1, <4>4
      <4> QED BY <1>1, <4>5
    <3> QED BY <3>4, <3>5
  <2>6. \A x \in Members(front') : x.seq <= enqueuedSeq' /\ (backend' \in {"write", "writing", "publish"} => x.seq > batch'.lastSeq)
    BY <1>1, <2>1, <2>3, <2>4 DEF Numbered, Everywhere
  <2>7. \A n \in 1..enqueuedSeq' : \E x \in Everywhere' : x.seq = n
    <3> SUFFICES ASSUME NEW n \in 1..enqueuedSeq' PROVE \E x \in Everywhere' : x.seq = n
      OBVIOUS
    <3>1. Everywhere' = Everywhere \cup {r}
      BY <2>3, <2>4 DEF Everywhere
    <3>2. n = enqueuedSeq + 1 \/ n \in 1..enqueuedSeq
      BY <1>1, <2>4
    <3> QED BY <1>1, <2>1, <3>1, <3>2 DEF Numbered
  <2>8. batch'.lastSeq <= enqueuedSeq'
    BY <1>1, <2>4 DEF Numbered
  <2>9. \A n \in (1..flushedSeq') \cup (1..promised') : \E x \in Members(log') \cup Members(pending') \cup lost' : x.seq = n
    BY <1>1, <2>4 DEF Numbered
  <2> QED BY <2>5, <2>6, <2>7, <2>8, <2>9 DEF Numbered
<1>4. ASSUME NEW p \in Producers, DropTrace(p) \/ WriteDirect(p) PROVE Numbered'
  <2>1. UNCHANGED <<front, back, pending, enqueuedSeq, flushedSeq, promised, batch, backend>>
    BY <1>4 DEF DropTrace, WriteDirect, queueVars, backendVars, panicVars
  <2>2. \A q \in Producers : call'[q].seq <= enqueuedSeq
    <3> SUFFICES ASSUME NEW q \in Producers PROVE call'[q].seq <= enqueuedSeq
      OBVIOUS
    <3>1. call' = [call EXCEPT ![p] = NoCall] /\ call \in [Producers -> Call]
      BY <1>1, <1>4 DEF DropTrace, WriteDirect, Return, TypeOK
    <3>2. call'[q] = call[q] \/ call'[q] = NoCall
      BY <3>1
    <3>3. NoCall.seq = 0
      BY DEF NoCall
    <3> QED BY <1>1, <3>2, <3>3 DEF Numbered
  <2>3. Members(log) \subseteq Members(log') /\ lost \subseteq lost'
    <3>1. CASE DropTrace(p)
      BY <3>1 DEF DropTrace, fileVars, sinkVars
    <3>2. CASE WriteDirect(p)
      <4>1. Busy(p)
        BY <3>2 DEF WriteDirect, Busy, At
      <4>2. Rec(p, 0) \in Record
        BY <4>1, RecTyped
      <4> QED BY <1>1, <3>2, <4>2, SinkMembers DEF WriteDirect
    <3> QED BY <1>4, <3>1, <3>2
  <2> QED BY <1>1, <2>1, <2>2, <2>3 DEF Numbered, Everywhere
<1>5. CASE Swap
  <2>1. /\ back = <<>> /\ back' = front /\ front' = <<>> /\ backend' = "write"
        /\ batch'.lastSeq = front[Len(front)].seq
        /\ UNCHANGED <<log, lost, pending, enqueuedSeq, flushedSeq, promised, call>>
    BY <1>1, <1>5 DEF Swap, Places, panicVars, fileVars, sinkVars, calls, history
  <2>2. front[Len(front)] \in Members(front)
    <3>1. Len(front) \in Nat /\ Len(front) # 0 /\ DOMAIN front = 1..Len(front)
      BY <1>1, <1>5, EmptySeq DEF Swap, TypeOK
    <3>2. Len(front) \in DOMAIN front
      BY <3>1
    <3> QED BY <3>2 DEF Members
  <2>3. batch'.lastSeq <= enqueuedSeq'
    BY <1>1, <2>1, <2>2 DEF Numbered
  <2>4. Members(back') = Members(front) /\ Members(front') = {} /\ Members(back) = {}
    BY <1>1, <2>1
  <2>5. Everywhere' = Everywhere
    BY <2>1, <2>4 DEF Everywhere
  <2> QED BY <1>1, <2>1, <2>3, <2>4, <2>5 DEF Numbered
<1>6. CASE Quit
  BY <1>1, <1>6 DEF Quit, Numbered, Everywhere, queueVars, panicVars, fileVars, sinkVars, calls, history
<1>7. CASE WriteBatch
  <2>1. /\ backend \in {"write", "writing"} /\ backend' = "writing"
        /\ UNCHANGED <<front, pending, enqueuedSeq, flushedSeq, promised, call, batch>>
    BY <1>7 DEF WriteBatch, queueVars, panicVars, calls, history
  <2>2. Head(back) \in Record /\ Members(back) = {Head(back)} \cup Members(back')
    BY <1>1, <1>7, MembersOfTail DEF WriteBatch, TypeOK
  <2>3. /\ Members(log') \cup lost' = Members(log) \cup lost \cup {Head(back)}
    BY <1>1, <1>7, <2>2, SinkMembers DEF WriteBatch
  <2>4. Everywhere' = Everywhere
    BY <2>1, <2>2, <2>3 DEF Everywhere
  <2>5. Members(log) \cup Members(pending) \cup lost \subseteq Members(log') \cup Members(pending') \cup lost'
    BY <2>1, <2>3
  <2> QED BY <1>1, <2>1, <2>4, <2>5 DEF Numbered
<1>14. CASE FlushBatch
  <2>1. /\ backend = "writing" /\ backend' = "publish"
        /\ UNCHANGED <<front, back, log, lost, pending, enqueuedSeq, flushedSeq, promised, call, batch>>
    BY <1>14 DEF FlushBatch, queueVars, panicVars, calls, history
  <2> QED BY <1>1, <2>1 DEF Numbered, Everywhere
<1>8. CASE Publish
  <2>1. /\ backend = "publish" /\ back = <<>> /\ flushedSeq' = batch.lastSeq
        /\ batch'.lastSeq = 0 /\ backend' = "wait"
        /\ UNCHANGED <<front, back, pending, log, lost, enqueuedSeq, promised, call>>
    BY <1>1, <1>8 DEF Publish, Places, NoBatch, queueVars, panicVars, fileVars, sinkVars, calls, history
  <2>2. ASSUME NEW n \in 1..batch.lastSeq
        PROVE  \E r \in Members(log) \cup Members(pending) \cup lost : r.seq = n
    <3>1. n \in 1..enqueuedSeq
      BY <1>1, <2>2 DEF Numbered
    <3>2. PICK r \in Everywhere : r.seq = n
      BY <1>1, <3>1 DEF Numbered
    <3>3. r \notin Members(front)
      BY <1>1, <2>1, <2>2, <3>2 DEF Numbered
    <3>4. r \notin Members(back)
      BY <1>1, <2>1
    <3> QED BY <3>2, <3>3, <3>4 DEF Everywhere
  <2>3. Everywhere' = Everywhere
    BY <2>1 DEF Everywhere
  <2>4. \A n \in (1..flushedSeq') \cup (1..promised') : \E r \in Members(log') \cup Members(pending') \cup lost' : r.seq = n
    BY <1>1, <2>1, <2>2 DEF Numbered
  <2> QED BY <1>1, <2>1, <2>3, <2>4 DEF Numbered
<1>9. CASE BeginSwitch \/ RequestStop \/ Announce \/ ExitFlush
  BY <1>1, <1>9 DEF BeginSwitch, RequestStop, Announce, ExitFlush, Numbered, Everywhere,
                    queueVars, backendVars, panicVars, fileVars, sinkVars, calls, history
<1>10. CASE Clear
  <2>1. /\ front = <<>> /\ back = <<>> /\ front' = <<>> /\ back' = <<>> /\ flushedSeq' = enqueuedSeq
        /\ UNCHANGED <<pending, log, lost, enqueuedSeq, promised, call, batch, backend>>
    BY <1>1, <1>10 DEF Clear, Places, panicVars, fileVars, sinkVars, calls, history
  <2>2. Everywhere' = Everywhere /\ Everywhere = Members(log) \cup Members(pending) \cup lost
    BY <1>1, <2>1 DEF Everywhere
  <2> QED BY <1>1, <2>1, <2>2 DEF Numbered
<1>11. CASE PanicTake
  <2>1. /\ pending = <<>> /\ pending' = front /\ front' = <<>>
        /\ UNCHANGED <<back, log, lost, enqueuedSeq, flushedSeq, promised, call, batch, backend>>
    BY <1>1, <1>11 DEF PanicTake, Places, backendVars, fileVars, sinkVars, calls, history
  <2>2. Members(pending') = Members(front) /\ Members(front') = {} /\ Members(pending) = {}
    BY <1>1, <2>1
  <2>3. Everywhere' = Everywhere
    BY <2>1, <2>2 DEF Everywhere
  <2> QED BY <1>1, <2>1, <2>2, <2>3 DEF Numbered
<1>12. CASE PanicWrite
  <2>1. UNCHANGED <<front, back, enqueuedSeq, flushedSeq, promised, call, batch, backend>>
    BY <1>12 DEF PanicWrite, queueVars, backendVars, calls, history
  <2>2. Head(pending) \in Record /\ Members(pending) = {Head(pending)} \cup Members(pending')
    BY <1>1, <1>12, MembersOfTail DEF PanicWrite, TypeOK
  <2>3. /\ Members(log') \cup lost' = Members(log) \cup lost \cup {Head(pending)}
    BY <1>1, <1>12, <2>2, SinkMembers DEF PanicWrite
  <2>4. Everywhere' = Everywhere
    BY <2>1, <2>2, <2>3 DEF Everywhere
  <2>5. Members(log) \cup Members(pending) \cup lost = Members(log') \cup Members(pending') \cup lost'
    BY <2>2, <2>3
  <2> QED BY <1>1, <2>1, <2>4, <2>5 DEF Numbered
<1>15. CASE PanicEnd
  <2>1. UNCHANGED <<front, back, log, lost, pending, enqueuedSeq, flushedSeq, promised, call, batch, backend>>
    BY <1>15 DEF PanicEnd, queueVars, backendVars, calls, history
  <2> QED BY <1>1, <2>1 DEF Numbered, Everywhere
<1>13. CASE UNCHANGED vars
  BY <1>1, <1>13 DEF vars, Numbered, Everywhere, queueVars, backendVars, panicVars, fileVars, sinkVars, calls, history
<1> QED BY <1>2, <1>3, <1>4, <1>5, <1>6, <1>7, <1>8, <1>9, <1>10, <1>11, <1>12, <1>13, <1>14, <1>15, NextCases

(* Promised: what is queued comes after what is published, and while the   *)
(* backend runs no wait vouches for more than that.                        *)
LEMMA NextPromised == Core /\ [Next]_vars => Promised'
<1> SUFFICES ASSUME Core, [Next]_vars PROVE Promised'
  OBVIOUS
<1>1. /\ TypeOK /\ Places /\ Promised /\ Members(<<>>) = {}
      /\ enqueuedSeq \in Nat /\ flushedSeq \in 0..enqueuedSeq /\ promised \in 0..enqueuedSeq
      /\ batch.lastSeq \in Nat /\ batch.lastSeq <= enqueuedSeq
  BY MembersOfEmpty DEF Core, TypeOK, Numbered
<1>2. ASSUME NEW p \in Producers, CallStep(p) PROVE Promised'
  <2>1. UNCHANGED <<front, back, flushedSeq, batch, backend, running>>
    BY <1>2, CallStepQuiet DEF queueVars, backendVars
  <2>2. running => promised' <= flushedSeq
    <3>1. promised' = promised \/ WaitFlushed(p)
      BY <1>2 DEF CallStep, Calls, Submit, Flush, FlushTarget, NotRunning, FlushedExpires,
                  WaitWhileDraining, DrainExpires, FlushFile, history
    <3>2. CASE WaitFlushed(p)
      <4>1. call[p].seq \in Nat
        BY <1>1 DEF TypeOK, Call
      <4> QED BY <1>1, <3>2, <4>1 DEF WaitFlushed, Larger, Promised
    <3> QED BY <1>1, <3>1, <3>2 DEF Promised
  <2> QED BY <1>1, <2>1, <2>2 DEF Promised
<1>3. ASSUME NEW p \in Producers, Enqueue(p) PROVE Promised'
  <2> DEFINE r == Rec(p, enqueuedSeq + 1)
  <2>1. r \in Record /\ r.seq = enqueuedSeq + 1
    <3>1. Busy(p) /\ enqueuedSeq + 1 \in Nat
      BY <1>3, EnqueueBusy
    <3> QED BY <3>1, RecTyped
  <2> HIDE DEF r
  <2>2. front' = Append(front, r) /\ front \in Seq(Record)
    BY <1>1, <1>3 DEF Enqueue, r, TypeOK
  <2>3. Members(front') = Members(front) \cup {r}
    BY <2>1, <2>2, MembersOfAppend
  <2>4. UNCHANGED <<back, flushedSeq, promised, batch, backend, running>>
    BY <1>3 DEF Enqueue, backendVars
  <2>5. \A x \in Members(back') \cup Members(front') : x.seq > flushedSeq'
    BY <1>1, <2>1, <2>3, <2>4 DEF Promised
  <2> QED BY <1>1, <2>4, <2>5 DEF Promised
<1>4. ASSUME UNCHANGED <<front, back, flushedSeq, promised, batch, backend, running>> PROVE Promised'
  BY <1>1, <1>4 DEF Promised
<1>5. ASSUME NEW p \in Producers, DropTrace(p) \/ WriteDirect(p) PROVE Promised'
  BY <1>4, <1>5 DEF DropTrace, WriteDirect, queueVars, backendVars
<1>6. CASE Swap
  <2>1. /\ back' = front /\ front' = <<>> /\ batch'.lastSeq = front[Len(front)].seq
        /\ UNCHANGED <<flushedSeq, promised, running>>
    BY <1>6 DEF Swap, history
  <2>2. front[Len(front)] \in Members(front)
    <3>1. Len(front) \in Nat /\ Len(front) # 0 /\ DOMAIN front = 1..Len(front)
      BY <1>1, <1>6, EmptySeq DEF Swap, TypeOK
    <3>2. Len(front) \in DOMAIN front
      BY <3>1
    <3> QED BY <3>2 DEF Members
  <2>3. batch'.lastSeq \in Nat /\ batch'.lastSeq > flushedSeq
    <3>1. Members(front) \subseteq Record
      BY <1>1, MembersTyped DEF TypeOK
    <3> QED BY <1>1, <2>1, <2>2, <3>1 DEF Promised, Record
  <2>4. batch'.lastSeq >= flushedSeq'
    BY <1>1, <2>1, <2>3
  <2> QED BY <1>1, <2>1, <2>4 DEF Promised
<1>7. CASE Quit
  BY <1>1, <1>7 DEF Quit, Promised, queueVars, history
<1>8. CASE WriteBatch
  <2>1. Members(back') \subseteq Members(back)
    BY <1>1, <1>8, MembersOfTail DEF WriteBatch, TypeOK
  <2> QED BY <1>1, <1>8, <2>1 DEF WriteBatch, Promised, queueVars, history
<1>9. CASE FlushBatch
  BY <1>1, <1>9 DEF FlushBatch, Promised, queueVars, history
<1>10. CASE Publish
  <2>1. /\ flushedSeq' = batch.lastSeq /\ backend' = "wait" /\ backend = "publish"
        /\ UNCHANGED <<front, back, promised, running>> /\ back = <<>>
    BY <1>1, <1>10 DEF Publish, Places, queueVars, history
  <2>2. \A r \in Members(back') \cup Members(front') : r.seq > flushedSeq'
    BY <1>1, <2>1 DEF Core, Numbered
  <2>3. running' => promised' <= flushedSeq'
    BY <1>1, <2>1 DEF Promised
  <2> QED BY <2>1, <2>2, <2>3 DEF Promised
<1>11. CASE Clear
  BY <1>1, <1>11 DEF Clear, Promised, Places, history
<1>12. CASE PanicTake
  BY <1>1, <1>12 DEF PanicTake, Promised, backendVars, history
<1>13. CASE \/ BeginSwitch \/ RequestStop \/ Announce \/ ExitFlush
            \/ PanicWrite \/ PanicEnd \/ UNCHANGED vars
  BY <1>4, <1>13 DEF BeginSwitch, RequestStop, Announce, ExitFlush, PanicWrite, PanicEnd, vars,
                     queueVars, backendVars, history
<1> QED BY <1>2, <1>3, <1>5, <1>6, <1>7, <1>8, <1>9, <1>10, <1>11, <1>12, <1>13, NextCases

-----------------------------------------------------------------------------
(* ErrorsForced: an ERROR in the file is on the disk.                      *)
LEMMA NextErrorsForced == Core /\ [Next]_vars => ErrorsForced'
<1> SUFFICES ASSUME Core, [Next]_vars PROVE ErrorsForced'
  OBVIOUS
<1>1. /\ TypeOK /\ Places /\ ErrorsForced /\ Members(<<>>) = {}
      /\ log \in Seq(Record) /\ back \in Seq(Record) /\ pending \in Seq(Record) /\ front \in Seq(Record)
      /\ Len(log) \in Nat /\ Len(back) \in Nat /\ DOMAIN log = 1..Len(log) /\ DOMAIN back = 1..Len(back)
      /\ begun \in 0..Len(log) /\ synced \subseteq 1..Len(log)
  BY MembersOfEmpty, LenProperties DEF Core, TypeOK
<1>a. \A i \in DOMAIN log :
        log[i].level = "Error" => i \in synced \cup 1..begun \/ BeingWritten(log[i].seq)
  BY <1>1 DEF ErrorsForced
<1>2. ASSUME NEW p \in Producers, CallStep(p) PROVE ErrorsForced'
  BY <1>1, <1>2, CallStepQuiet
     DEF ErrorsForced, BeingWritten, queueVars, backendVars, panicVars, fileVars, sinkVars
<1>3. ASSUME NEW p \in Producers, Enqueue(p) PROVE ErrorsForced'
  <2> DEFINE r == Rec(p, enqueuedSeq + 1)
  <2>1. r \in Record /\ r.level = call[p].level
    <3>1. Busy(p) /\ enqueuedSeq + 1 \in Nat
      BY <1>3, EnqueueBusy
    <3> QED BY <3>1, RecTyped
  <2> HIDE DEF r
  <2>2. front' = Append(front, r)
    BY <1>3 DEF Enqueue, r
  <2>3. Members(front') = Members(front) \cup {r}
    BY <1>1, <2>1, <2>2, MembersOfAppend
  <2> QED BY <1>1, <1>3, <2>1, <2>3
          DEF Enqueue, ErrorsForced, BeingWritten, backendVars, panicVars, fileVars, sinkVars
<1>4. ASSUME NEW p \in Producers, DropTrace(p) PROVE ErrorsForced'
  BY <1>1, <1>4 DEF DropTrace, ErrorsForced, BeingWritten, backendVars, panicVars, fileVars, sinkVars
<1>5. ASSUME NEW p \in Producers, WriteDirect(p) PROVE ErrorsForced'
  <2> DEFINE r == Rec(p, 0)
  <2>1. r \in Record /\ r.level = call[p].level
    <3>1. Busy(p)
      BY <1>5 DEF WriteDirect, Busy, At
    <3> QED BY <3>1, RecTyped
  <2> HIDE DEF r
  <2>2. WriteRecord(r) /\ FlushSink(call[p].level = "Error") /\ backend # "writing" /\ panic # "writing"
        /\ UNCHANGED <<queueVars, backendVars, panicVars>>
    BY <1>5 DEF WriteDirect, WriteLockFree, r
  <2>3. synced \subseteq synced' /\ Len(log') \in Nat /\ begun' \in Nat
    BY <1>1, <2>1, <2>2, Sink DEF FlushSink
  <2>4. ASSUME NEW i \in DOMAIN log', log'[i].level = "Error"
        PROVE  i \in synced' \cup 1..begun'
    <3>1. CASE i \in DOMAIN log /\ log'[i] = log[i] /\ (i \in 1..begun => i \in 1..begun')
      <4>1. i \in synced \cup 1..begun
        BY <1>a, <2>2, <2>4, <3>1 DEF BeingWritten
      <4> QED BY <2>3, <3>1, <4>1
    <3>2. CASE log'[i] = r /\ i = Len(log') /\ i \notin 1..begun'
      <4>1. i \in DOMAIN log' /\ i \in Nat /\ i >= 1
        BY <1>1, <2>1, <2>2, Sink, LenProperties
      <4>2. i \in (begun' + 1)..Len(log')
        BY <2>3, <3>2, <4>1
      <4>3. call[p].level = "Error"
        BY <2>1, <2>4, <3>2
      <4> QED BY <2>2, <4>2, <4>3 DEF FlushSink
    <3> QED BY <1>1, <2>1, <2>2, <3>1, <3>2, SinkPlaces
  <2> QED BY <1>1, <2>2, <2>4 DEF ErrorsForced, queueVars, backendVars
<1>6. CASE Swap
  <2>1. /\ Members(front') = {} /\ back' = front /\ batch'.durable = errorPending
        /\ backend = "wait" /\ UNCHANGED <<log, begun, synced, panic>>
    BY <1>1, <1>6 DEF Swap, fileVars, sinkVars, panicVars
  <2>2. \A i \in DOMAIN log' :
          log'[i].level = "Error" => i \in synced' \cup 1..begun' \/ BeingWritten(log[i].seq)'
    BY <1>a, <2>1 DEF BeingWritten
  <2> QED BY <1>1, <2>1, <2>2 DEF ErrorsForced, BeingWritten
<1>7. CASE WriteBatch
  <2>1. /\ WriteRecord(Head(back)) /\ back' = Tail(back) /\ back # <<>> /\ backend' = "writing"
        /\ UNCHANGED <<front, errorPending, batch, flushedSeq, panic, synced>>
    BY <1>7 DEF WriteBatch, queueVars, panicVars
  <2>2. /\ Head(back) \in Record /\ Head(back) \in Members(back) /\ Members(back') \subseteq Members(back)
    BY <1>1, <2>1, MembersOfTail
  <2>3. ASSUME NEW i \in DOMAIN log', log'[i].level = "Error"
        PROVE  i \in synced' \cup 1..begun' \/ BeingWritten(log[i].seq)'
    <3>1. CASE i \in DOMAIN log /\ log'[i] = log[i] /\ (i \in 1..begun => i \in 1..begun')
      <4>1. i \in synced \cup 1..begun \/ BeingWritten(log[i].seq)
        BY <1>a, <2>3, <3>1
      <4>2. CASE i \in synced \cup 1..begun
        BY <2>1, <3>1, <4>2
      <4>3. CASE panic = "writing"
        BY <2>1, <4>3 DEF BeingWritten
      <4>4. CASE batch.durable /\ log[i].seq > flushedSeq
        BY <2>1, <3>1, <4>4 DEF BeingWritten
      <4>5. BeingWritten(log[i].seq) => panic = "writing" \/ (batch.durable /\ log[i].seq > flushedSeq)
        BY DEF BeingWritten
      <4> QED BY <4>1, <4>2, <4>3, <4>4, <4>5
    <3>2. CASE log'[i] = Head(back)
      <4>1. batch.durable
        BY <1>1, <2>2, <2>3, <3>2 DEF ErrorsForced
      <4>2. Head(back).seq > flushedSeq
        BY <2>2 DEF Core, Promised
      <4> QED BY <2>1, <3>2, <4>1, <4>2 DEF BeingWritten
    <3>3. \/ i \in DOMAIN log /\ log'[i] = log[i] /\ (i \in 1..begun => i \in 1..begun')
          \/ log'[i] = Head(back)
      BY <1>1, <2>1, <2>2, SinkPlaces
    <3> QED BY <3>1, <3>2, <3>3
  <2>4. \A r \in Members(back') : r.level = "Error" => batch'.durable
    BY <1>1, <2>1, <2>2 DEF ErrorsForced
  <2>5. \A r \in Members(front') : r.level = "Error" => errorPending'
    BY <1>1, <2>1 DEF ErrorsForced
  <2> QED BY <2>3, <2>4, <2>5 DEF ErrorsForced
<1>15. CASE FlushBatch
  <2>1. /\ FlushSink(batch.durable) /\ log' = log /\ back' = back
        /\ begun' = begun \/ begun' = Len(log)
        /\ backend' = "publish" /\ backend = "writing"
        /\ UNCHANGED <<front, errorPending, batch, panic>>
    BY <1>15 DEF FlushBatch, Noted, RollIfNeeded, queueVars, panicVars
  <2>a. \A r \in Members(back) : r.level = "Error" => batch.durable
    BY <1>1 DEF ErrorsForced
  <2>2. ASSUME NEW i \in DOMAIN log', log'[i].level = "Error"
        PROVE  i \in synced' \cup 1..begun' \/ BeingWritten(log[i].seq)'
    <3>1. i \in 1..Len(log) /\ i \in DOMAIN log /\ (i \in 1..begun => i \in 1..begun')
      BY <1>1, <2>1
    <3>2. CASE batch.durable
      <4>1. i \in (begun' + 1)..Len(log') \/ i \in 1..begun'
        BY <1>1, <2>1, <3>1
      <4>2. synced' = synced \cup (begun' + 1)..Len(log')
        BY <2>1, <3>2 DEF FlushSink
      <4> QED BY <4>1, <4>2
    <3>3. CASE ~batch.durable
      <4>1. synced' = synced /\ (i \in synced \cup 1..begun \/ BeingWritten(log[i].seq))
        BY <1>a, <2>1, <2>2, <3>1, <3>3 DEF FlushSink
      <4>2. CASE i \in synced \cup 1..begun
        BY <3>1, <4>1, <4>2
      <4>3. CASE panic = "writing"
        BY <2>1, <4>3 DEF BeingWritten
      <4> QED BY <3>3, <4>1, <4>2, <4>3 DEF BeingWritten
    <3> QED BY <3>2, <3>3
  <2>4. \A r \in Members(back') : r.level = "Error" => batch'.durable
    BY <2>1, <2>a
  <2>5. \A r \in Members(front') : r.level = "Error" => errorPending'
    BY <1>1, <2>1 DEF ErrorsForced
  <2> QED BY <2>2, <2>4, <2>5 DEF ErrorsForced
<1>8. CASE Publish
  <2>1. back' = <<>>
    BY <1>1, <1>8 DEF Publish, Places
  <2>2. /\ backend = "publish" /\ UNCHANGED <<log, begun, synced, panic, front, errorPending>>
    BY <1>8 DEF Publish, fileVars, sinkVars, queueVars, panicVars
  <2> QED BY <1>1, <2>1, <2>2 DEF ErrorsForced, BeingWritten
<1>9. CASE BeginSwitch \/ RequestStop \/ Announce
  BY <1>1, <1>9 DEF BeginSwitch, RequestStop, Announce, ErrorsForced, BeingWritten,
                    queueVars, backendVars, panicVars, fileVars, sinkVars
<1>16. CASE Quit
  BY <1>1, <1>16 DEF Quit, ErrorsForced, BeingWritten, queueVars, panicVars, fileVars, sinkVars
<1>10. CASE Clear
  BY <1>1, <1>10 DEF Clear, ErrorsForced, BeingWritten, panicVars, fileVars, sinkVars
<1>11. CASE ExitFlush
  <2>1. synced \subseteq synced' /\ UNCHANGED sinkVars
    BY <1>11 DEF ExitFlush, FlushSink
  <2> QED BY <1>1, <1>11, <2>1 DEF ExitFlush, ErrorsForced, BeingWritten, queueVars, backendVars, panicVars, sinkVars
<1>12. CASE PanicTake
  <2>1. panic = "none" /\ UNCHANGED <<backendVars, log, begun, synced, errorPending>> /\ front' = <<>>
    BY <1>12 DEF PanicTake, fileVars, sinkVars
  <2> QED BY <1>1, <2>1 DEF ErrorsForced, BeingWritten, backendVars
<1>13. CASE PanicWrite
  <2>1. panic' = "writing" /\ UNCHANGED <<queueVars, backendVars>>
    BY <1>13 DEF PanicWrite
  <2> QED BY <1>1, <2>1 DEF ErrorsForced, BeingWritten, queueVars, backendVars
<1>17. CASE PanicEnd
  <2>1. /\ FlushSink(TRUE) /\ log' = log
        /\ begun' = begun \/ begun' = Len(log)
        /\ UNCHANGED <<queueVars, backendVars>>
    BY <1>17 DEF PanicEnd, RollIfNeeded
  <2>2. ASSUME NEW i \in DOMAIN log' PROVE i \in synced' \cup 1..begun'
    <3>1. i \in 1..Len(log) /\ Len(log') = Len(log) /\ begun' \in Nat
      BY <1>1, <2>1
    <3>2. i \in (begun' + 1)..Len(log') \/ i \in 1..begun'
      BY <1>1, <3>1
    <3>3. synced' = synced \cup (begun' + 1)..Len(log')
      BY <2>1 DEF FlushSink
    <3> QED BY <3>2, <3>3
  <2> QED BY <1>1, <2>1, <2>2 DEF ErrorsForced, queueVars, backendVars
<1>14. CASE UNCHANGED vars
  BY <1>1, <1>14 DEF vars, ErrorsForced, BeingWritten, queueVars, backendVars, panicVars, fileVars, sinkVars
<1> QED BY <1>2, <1>3, <1>4, <1>5, <1>6, <1>7, <1>8, <1>9, <1>10, <1>11, <1>12, <1>13, <1>14,
           <1>15, <1>16, <1>17, NextCases

-----------------------------------------------------------------------------
(* What a step does to busy producers: it starts one with a new number, or *)
(* ends one, and leaves the others as they were.                           *)
LEMMA NosOfEmpty == Nos(<<>>) = {}
  BY MembersOfEmpty DEF Nos

LEMMA NosOfAppend ==
  ASSUME NEW S, NEW s \in Seq(S), NEW x \in S
  PROVE  Nos(Append(s, x)) = Nos(s) \cup {x.no}
<1>1. Members(Append(s, x)) = Members(s) \cup {x}
  BY MembersOfAppend
<1> QED BY <1>1 DEF Nos

LEMMA NosOfConcat ==
  ASSUME NEW S, NEW s \in Seq(S), NEW t \in Seq(S)
  PROVE  Nos(s \o t) = Nos(s) \cup Nos(t)
<1>1. Members(s \o t) = Members(s) \cup Members(t)
  BY MembersOfConcat
<1> QED BY <1>1 DEF Nos

Stays(q) == Busy(q) /\ call'[q].no = call[q].no
Starts(q) == call'[q].no = records + 1 /\ records' = records + 1 /\ UNCHANGED <<kept, log, back, pending, front, lost>>

LEMMA AloneActs ==
  ASSUME Core, NEW p \in Producers, NEW q \in Producers, q # p,
         CallStep(p) \/ Enqueue(p) \/ DropTrace(p) \/ WriteDirect(p)
  PROVE  pc'[q] = pc[q] /\ call'[q] = call[q]
<1>1. pc \in [Producers -> {"idle", "enqueue", "flushed", "drain", "write"}] /\ call \in [Producers -> Call]
  BY DEF Core, TypeOK
<1>2. ASSUME NEW place, Goto(p, place) PROVE pc'[q] = pc[q]
  BY <1>1, <1>2 DEF Goto
<1>3. ASSUME Return(p) PROVE pc'[q] = pc[q] /\ call'[q] = call[q]
  BY <1>1, <1>3 DEF Return, Goto
<1>4. ASSUME AfterWait(p) PROVE pc'[q] = pc[q] /\ call'[q] = call[q]
  BY <1>2, <1>3, <1>4 DEF AfterWait
<1>5. ASSUME NEW level \in Levels, Submit(p, level) PROVE pc'[q] = pc[q] /\ call'[q] = call[q]
  BY <1>1, <1>5 DEF Submit, Goto
<1>6. ASSUME Flush(p) \/ FlushTarget(p) \/ NotRunning(p) \/ WaitWhileDraining(p) \/ DrainExpires(p)
      PROVE  pc'[q] = pc[q] /\ call'[q] = call[q]
  BY <1>1, <1>6 DEF Flush, FlushTarget, NotRunning, WaitWhileDraining, DrainExpires, Goto
<1>7. ASSUME WaitFlushed(p) \/ FlushedExpires(p) \/ FlushFile(p) \/ DropTrace(p) \/ WriteDirect(p)
      PROVE  pc'[q] = pc[q] /\ call'[q] = call[q]
  BY <1>3, <1>4, <1>7 DEF WaitFlushed, FlushedExpires, FlushFile, DropTrace, WriteDirect
<1>8. ASSUME Enqueue(p) PROVE pc'[q] = pc[q] /\ call'[q] = call[q]
  <2>1. CASE call[p].level = "Error"
    BY <1>1, <1>8, <2>1 DEF Enqueue, Goto
  <2>2. CASE call[p].level # "Error"
    BY <1>3, <1>8, <2>2 DEF Enqueue
  <2> QED BY <2>1, <2>2
<1> QED BY <1>5, <1>6, <1>7, <1>8 DEF CallStep, Calls

LEMMA CallStepBusy ==
  ASSUME Core, NEW p \in Producers, CallStep(p), Busy(p)'
  PROVE  Starts(p) \/ (Stays(p) /\ records' = records)
<1>1. pc \in [Producers -> {"idle", "enqueue", "flushed", "drain", "write"}] /\ call \in [Producers -> Call]
      /\ NoCall.level = "Flush" /\ (pc[p] = "idle" => call[p] = NoCall)
  BY DEF Core, TypeOK, NoCall, Rested
<1>2. ASSUME Return(p) PROVE FALSE
  BY <1>1, <1>2 DEF Return, Goto, Busy
<1>3. ASSUME AfterWait(p) PROVE FALSE
  BY <1>1, <1>2, <1>3 DEF AfterWait, Goto, Busy
<1>4. ASSUME NEW level \in Levels, Submit(p, level) PROVE Starts(p)
  BY <1>1, <1>4 DEF Submit, Starts, queueVars, backendVars, panicVars, fileVars, sinkVars, history
<1>5. ASSUME Flush(p) PROVE FALSE
  BY <1>1, <1>5 DEF Flush, At, Goto, Busy
<1>6. ASSUME FlushTarget(p) PROVE FALSE
  BY <1>1, <1>6 DEF FlushTarget, Goto, Busy
<1>7. ASSUME NotRunning(p) PROVE Stays(p) /\ records' = records
  BY <1>1, <1>7 DEF NotRunning, At, Stays, Busy
<1>8. ASSUME WaitWhileDraining(p) \/ DrainExpires(p) PROVE Stays(p) /\ records' = records
  BY <1>1, <1>8 DEF WaitWhileDraining, DrainExpires, At, Goto, Stays, Busy
<1> QED BY <1>2, <1>3, <1>4, <1>5, <1>6, <1>7, <1>8
        DEF CallStep, Calls, WaitFlushed, FlushedExpires, FlushFile

LEMMA AddStepNotBusy ==
  ASSUME Core, NEW p \in Producers, Enqueue(p) \/ DropTrace(p) \/ WriteDirect(p)
  PROVE  Busy(p) /\ ~Busy(p)' /\ records' = records
<1>1. pc \in [Producers -> {"idle", "enqueue", "flushed", "drain", "write"}] /\ call \in [Producers -> Call]
      /\ NoCall.level = "Flush"
  BY DEF Core, TypeOK, NoCall
<1>2. Busy(p) /\ records' = records
  BY DEF Enqueue, DropTrace, WriteDirect, Busy, At
<1>3. Goto(p, "idle") \/ Goto(p, "flushed")
  BY DEF Enqueue, DropTrace, WriteDirect, Return
<1>4. pc'[p] \in {"idle", "flushed"}
  BY <1>1, <1>3 DEF Goto
<1> QED BY <1>2, <1>4 DEF Busy

LEMMA BusySteps ==
  ASSUME Core, [Next]_vars, NEW q \in Producers, Busy(q)'
  PROVE  Starts(q) \/ Stays(q)
<1>1. ASSUME NEW p \in Producers, CallStep(p) PROVE Starts(q) \/ Stays(q)
  <2>1. CASE p = q
    BY <1>1, <2>1, CallStepBusy
  <2>2. CASE p # q
    BY <1>1, <2>2, AloneActs DEF Busy, Stays
  <2> QED BY <2>1, <2>2
<1>2. ASSUME NEW p \in Producers, Enqueue(p) \/ DropTrace(p) \/ WriteDirect(p) PROVE Stays(q)
  <2>1. p # q
    BY <1>2, AddStepNotBusy
  <2> QED BY <1>2, <2>1, AloneActs DEF Busy, Stays
<1>3. ASSUME UNCHANGED calls PROVE Stays(q)
  BY <1>3 DEF calls, Busy, Stays
<1>4. CASE \/ Swap \/ Quit \/ WriteBatch \/ FlushBatch \/ Publish
           \/ BeginSwitch \/ RequestStop \/ Clear \/ Announce \/ ExitFlush
           \/ PanicTake \/ PanicWrite \/ PanicEnd \/ UNCHANGED vars
  BY <1>3, <1>4 DEF Swap, Quit, WriteBatch, FlushBatch, Publish, BeginSwitch, RequestStop, Clear, Announce,
                    ExitFlush, PanicTake, PanicWrite, PanicEnd, vars
<1> QED BY <1>1, <1>2, <1>4, NextCases

-----------------------------------------------------------------------------
(* Rested, Direct.                                                         *)
LEMMA NextRested == Core /\ [Next]_vars => Rested'
<1> SUFFICES ASSUME Core, [Next]_vars PROVE Rested'
  OBVIOUS
<1>1. /\ pc \in [Producers -> {"idle", "enqueue", "flushed", "drain", "write"}]
      /\ call \in [Producers -> Call] /\ Rested
  BY DEF Core, TypeOK
<1>2. ASSUME NEW p \in Producers,
             CallStep(p) \/ Enqueue(p) \/ DropTrace(p) \/ WriteDirect(p)
      PROVE  pc'[p] = "idle" => call'[p] = NoCall
  <2>1. ASSUME Return(p) PROVE call'[p] = NoCall
    BY <1>1, <2>1 DEF Return
  <2>2. ASSUME NEW place, Goto(p, place), place # "idle" PROVE pc'[p] # "idle"
    BY <1>1, <2>2 DEF Goto
  <2>3. ASSUME AfterWait(p) PROVE pc'[p] = "idle" => call'[p] = NoCall
    BY <2>1, <2>2, <2>3 DEF AfterWait
  <2>4. ASSUME NEW level \in Levels, Submit(p, level) PROVE pc'[p] # "idle"
    BY <2>2, <2>4 DEF Submit
  <2>5. ASSUME Flush(p) PROVE pc'[p] # "idle"
    BY <2>2, <2>5 DEF Flush
  <2> QED BY <1>2, <2>1, <2>2, <2>3, <2>4, <2>5
          DEF CallStep, Calls, FlushTarget, NotRunning, WaitFlushed, FlushedExpires,
              WaitWhileDraining, DrainExpires, FlushFile, Enqueue, DropTrace, WriteDirect
<1>3. ASSUME NEW p \in Producers,
             CallStep(p) \/ Enqueue(p) \/ DropTrace(p) \/ WriteDirect(p)
      PROVE  Rested'
  <2> SUFFICES ASSUME NEW q \in Producers PROVE pc'[q] = "idle" => call'[q] = NoCall
    BY DEF Rested
  <2>1. CASE q = p
    BY <1>2, <1>3, <2>1
  <2>2. CASE q # p
    BY <1>1, <1>3, <2>2, AloneActs DEF Rested
  <2> QED BY <2>1, <2>2
<1>4. ASSUME UNCHANGED calls PROVE Rested'
  BY <1>1, <1>4 DEF calls, Rested
<1>5. CASE \/ Swap \/ Quit \/ WriteBatch \/ FlushBatch \/ Publish
           \/ BeginSwitch \/ RequestStop \/ Clear \/ Announce \/ ExitFlush
           \/ PanicTake \/ PanicWrite \/ PanicEnd \/ UNCHANGED vars
  BY <1>4, <1>5 DEF Swap, Quit, WriteBatch, FlushBatch, Publish, BeginSwitch, RequestStop, Clear, Announce,
                    ExitFlush, PanicTake, PanicWrite, PanicEnd, vars
<1> QED BY <1>3, <1>5, NextCases

LEMMA NextDirect == Core /\ [Next]_vars => Direct'
<1> SUFFICES ASSUME Core, [Next]_vars, NEW q \in Producers, Busy(q)'
             PROVE  /\ pc'[q] = "drain" => mode' # "Async"
                    /\ pc'[q] = "write" => q \in expired' \/ mode' = "Sync"
  BY DEF Direct
<1> DEFINE Good == /\ pc'[q] = "drain" => mode' # "Async"
                   /\ pc'[q] = "write" => q \in expired' \/ mode' = "Sync"
<1>1. /\ pc \in [Producers -> {"idle", "enqueue", "flushed", "drain", "write"}]
      /\ call \in [Producers -> Call] /\ Direct /\ Places
      /\ mode \in {"Async", "Draining", "Sync"}
      /\ main \in {"running", "stop", "join", "announce", "switched", "exited"}
  BY DEF Core, TypeOK
<1>2. ASSUME NEW p \in Producers, CallStep(p), p = q PROVE Good
  <2>1. mode' = mode
    BY <1>2, CallStepQuiet DEF switchVars
  <2>2. ASSUME NEW level \in Levels, Submit(p, level) PROVE Good
    BY <1>1, <1>2, <2>1, <2>2 DEF Submit, Goto
  <2>3. ASSUME Starts(p), ~\E level \in Levels : Submit(p, level) PROVE FALSE
    BY <1>2, <2>3 DEF Starts, CallStep, Calls, Flush, FlushTarget, NotRunning, WaitFlushed, FlushedExpires,
                      WaitWhileDraining, DrainExpires, FlushFile, Core, TypeOK
  <2>4. CASE Stays(p)
    <3>1. CASE NotRunning(p)
      BY <1>1, <1>2, <2>1, <3>1 DEF NotRunning, Goto, Places
    <3>2. CASE WaitWhileDraining(p)
      BY <1>1, <1>2, <2>1, <2>4, <3>2 DEF WaitWhileDraining, At, Goto, Direct, Stays
    <3>3. CASE DrainExpires(p)
      BY <1>1, <1>2, <2>1, <3>3 DEF DrainExpires, Goto
    <3>4. CASE Calls(p) \/ FlushTarget(p) \/ WaitFlushed(p) \/ FlushedExpires(p) \/ FlushFile(p)
      BY <2>4, <3>4 DEF Calls, Submit, Flush, FlushTarget, WaitFlushed, FlushedExpires, FlushFile,
                        At, Stays, Busy
    <3> QED BY <1>2, <3>1, <3>2, <3>3, <3>4 DEF CallStep
  <2> QED BY <1>2, <2>2, <2>3, <2>4, CallStepBusy
<1>3. ASSUME NEW p \in Producers, CallStep(p) \/ Enqueue(p) \/ DropTrace(p) \/ WriteDirect(p), p # q
      PROVE  Good
  <2>1. pc'[q] = pc[q] /\ Busy(q)
    BY <1>3, AloneActs DEF Busy
  <2>2. mode' = mode
    BY <1>3, CallStepQuiet DEF Enqueue, DropTrace, WriteDirect, switchVars
  <2>3. expired \subseteq expired'
    BY <1>3 DEF CallStep, Calls, Submit, Flush, FlushTarget, NotRunning, WaitFlushed, FlushedExpires,
                WaitWhileDraining, DrainExpires, FlushFile, Enqueue, DropTrace, WriteDirect, history
  <2> QED BY <1>1, <2>1, <2>2, <2>3 DEF Direct
<1>4. ASSUME NEW p \in Producers, Enqueue(p) \/ DropTrace(p) \/ WriteDirect(p), p = q PROVE FALSE
  BY <1>4, AddStepNotBusy
<1>5. ASSUME UNCHANGED calls, expired' = expired, mode' = mode PROVE Good
  BY <1>1, <1>5 DEF calls, Direct, Busy
<1>6. CASE \/ Swap \/ Quit \/ WriteBatch \/ FlushBatch \/ Publish \/ RequestStop \/ Clear
           \/ ExitFlush \/ PanicTake \/ PanicWrite \/ PanicEnd \/ UNCHANGED vars
  BY <1>5, <1>6 DEF Swap, Quit, WriteBatch, FlushBatch, Publish, RequestStop, Clear, ExitFlush,
                    PanicTake, PanicWrite, PanicEnd, vars, history, switchVars
<1>7. CASE BeginSwitch \/ Announce
  <2>1. UNCHANGED calls /\ expired' = expired /\ mode' \in {"Draining", "Sync"} /\ (mode = "Sync" => mode' = "Sync")
    BY <1>1, <1>7 DEF BeginSwitch, Announce, history
  <2> QED BY <1>1, <2>1 DEF calls, Direct, Busy
<1> QED BY <1>2, <1>3, <1>4, <1>6, <1>7, NextCases

-----------------------------------------------------------------------------
(* EachOnce: a record is in one place.                                     *)
LEMMA NosAtMost ==
  ASSUME NEW s \in Seq(Record)
  PROVE  IsFiniteSet(Nos(s)) /\ Cardinality(Nos(s)) <= Len(s) /\ Cardinality(Nos(s)) \in Nat
<1> DEFINE f == [i \in 1..Len(s) |-> s[i].no]
<1>1. Len(s) \in Nat /\ DOMAIN s = 1..Len(s)
  BY LenProperties
<1>2. f \in Surjection(1..Len(s), Nos(s))
  BY <1>1 DEF Surjection, Nos, Members
<1>3. IsFiniteSet(1..Len(s)) /\ Cardinality(1..Len(s)) = Len(s)
  BY <1>1, FS_Interval
<1> HIDE DEF f
<1>4. IsFiniteSet(Nos(s)) /\ Cardinality(Nos(s)) <= Len(s)
  BY <1>2, <1>3, FS_Surjection
<1> QED BY <1>4, FS_CardinalityType

LEMMA NosLostAtMost ==
  ASSUME IsFiniteSet(lost)
  PROVE  IsFiniteSet(NosLost) /\ Cardinality(NosLost) <= Cardinality(lost) /\ Cardinality(NosLost) \in Nat
<1> DEFINE f == [r \in lost |-> r.no]
<1>1. f \in Surjection(lost, NosLost)
  BY DEF Surjection, NosLost
<1> HIDE DEF f
<1>2. IsFiniteSet(NosLost) /\ Cardinality(NosLost) <= Cardinality(lost)
  BY <1>1, FS_Surjection
<1> QED BY <1>2, FS_CardinalityType

LEMMA UnionAtMost ==
  ASSUME NEW A, NEW B, IsFiniteSet(A), IsFiniteSet(B),
         NEW a \in Nat, NEW b \in Nat, Cardinality(A) <= a, Cardinality(B) <= b
  PROVE  IsFiniteSet(A \cup B) /\ Cardinality(A \cup B) <= a + b
<1>1. IsFiniteSet(A \cap B)
  BY FS_Subset
<1>2. Cardinality(A) \in Nat /\ Cardinality(B) \in Nat /\ Cardinality(A \cap B) \in Nat
  BY <1>1, FS_CardinalityType
<1>3. IsFiniteSet(A \cup B) /\ Cardinality(A \cup B) = Cardinality(A) + Cardinality(B) - Cardinality(A \cap B)
  BY FS_Union
<1> QED BY <1>2, <1>3

(* Records in four queues and among the lost have no more numbers than     *)
(* there are of them.                                                      *)
LEMMA FiveAtMost ==
  ASSUME NEW s \in Seq(Record), NEW t \in Seq(Record), NEW u \in Seq(Record), NEW v \in Seq(Record),
         IsFiniteSet(lost)
  PROVE  Cardinality(Nos(s) \cup Nos(t) \cup Nos(u) \cup Nos(v) \cup NosLost)
           <= Len(s) + Len(t) + Len(u) + Len(v) + Cardinality(lost)
<1>1. Len(s) \in Nat /\ Len(t) \in Nat /\ Len(u) \in Nat /\ Len(v) \in Nat /\ Cardinality(lost) \in Nat
  BY LenProperties, FS_CardinalityType
<1> DEFINE A == Nos(s) \cup Nos(t)
           B == Nos(u) \cup Nos(v)
           C == A \cup B
<1>2. IsFiniteSet(A) /\ Cardinality(A) <= Len(s) + Len(t)
  BY <1>1, NosAtMost, UnionAtMost
<1>3. IsFiniteSet(B) /\ Cardinality(B) <= Len(u) + Len(v)
  BY <1>1, NosAtMost, UnionAtMost
<1> DEFINE U == Nos(s) \cup Nos(t) \cup Nos(u) \cup Nos(v) \cup NosLost
<1>a. U = C \cup NosLost
  OBVIOUS
<1>b. Len(s) + Len(t) \in Nat /\ Len(u) + Len(v) \in Nat
  BY <1>1
<1> HIDE DEF A, B
<1>4. IsFiniteSet(C) /\ Cardinality(C) <= (Len(s) + Len(t)) + (Len(u) + Len(v))
  BY <1>b, <1>2, <1>3, UnionAtMost
<1> HIDE DEF C
<1>c. (Len(s) + Len(t)) + (Len(u) + Len(v)) \in Nat
  BY <1>b
<1>5. Cardinality(C \cup NosLost) <= ((Len(s) + Len(t)) + (Len(u) + Len(v))) + Cardinality(lost)
  BY <1>1, <1>c, <1>4, NosLostAtMost, UnionAtMost
<1> HIDE DEF U
<1>6. Cardinality(U) <= Len(s) + Len(t) + Len(u) + Len(v) + Cardinality(lost)
  BY <1>1, <1>a, <1>5
<1> QED BY <1>6 DEF U

LEMMA BusyNumbers ==
  ASSUME Core, NEW p \in Producers,
         CallStep(p) \/ Enqueue(p) \/ DropTrace(p) \/ WriteDirect(p),
         kept' \subseteq kept \cup (IF CallStep(p) THEN {} ELSE {call[p].no})
  PROVE  /\ \A q \in Producers : Busy(q)' => call'[q].no \in 1..records' /\ call'[q].no \notin kept'
         /\ \A q, q2 \in Producers : Busy(q)' /\ Busy(q2)' /\ call'[q].no = call'[q2].no => q = q2
<1>1. /\ records \in Nat /\ kept \subseteq 1..records /\ records + 1 \notin 1..records
      /\ \A q \in Producers : Busy(q) => call[q].no \in 1..records /\ call[q].no \notin kept
      /\ \A q, q2 \in Producers : Busy(q) /\ Busy(q2) /\ call[q].no = call[q2].no => q = q2
  BY DEF Core, TypeOK, EachOnce
<1>2. \A q \in Producers : q # p => (Busy(q)' <=> Busy(q)) /\ call'[q] = call[q]
  BY AloneActs DEF Busy
<1>3. CASE CallStep(p)
  <2>1. Busy(p)' => (call'[p].no = records + 1 /\ records' = records + 1)
                    \/ (Busy(p) /\ call'[p].no = call[p].no /\ records' = records)
    BY <1>3, CallStepBusy DEF Starts, Stays
  <2>2. records' = records \/ records' = records + 1
    BY <1>3 DEF CallStep, Calls, Submit, Flush, FlushTarget, NotRunning, WaitFlushed, FlushedExpires,
                WaitWhileDraining, DrainExpires, FlushFile
  <2>3. kept' \subseteq kept /\ 1..records \subseteq 1..records' /\ (records' = records + 1 => records' \in 1..records')
    BY <1>1, <1>3, <2>2
  <2>4. ASSUME NEW q \in Producers, Busy(q)'
        PROVE  call'[q].no \in 1..records' /\ call'[q].no \notin kept'
    BY <1>1, <1>2, <2>1, <2>3, <2>4
  <2>5. ASSUME NEW q \in Producers, NEW q2 \in Producers, Busy(q)', Busy(q2)', call'[q].no = call'[q2].no
        PROVE  q = q2
    BY <1>1, <1>2, <2>1, <2>5
  <2> QED BY <2>4, <2>5
<1>4. CASE ~CallStep(p)
  <2>1. Busy(p) /\ ~Busy(p)' /\ records' = records
    BY <1>4, AddStepNotBusy
  <2>2. kept' \subseteq kept \cup {call[p].no}
    BY <1>4
  <2> QED BY <1>1, <1>2, <2>1, <2>2
<1> QED BY <1>3, <1>4

LEMMA NextEachOnce == Core /\ [Next]_vars => EachOnce'
<1> SUFFICES ASSUME Core, [Next]_vars PROVE EachOnce'
  OBVIOUS
<1> DEFINE Alone ==
      /\ \A q \in Producers : Busy(q)' => call'[q].no \in 1..records' /\ call'[q].no \notin kept'
      /\ \A q, q2 \in Producers : Busy(q)' /\ Busy(q2)' /\ call'[q].no = call'[q2].no => q = q2
<1>1. /\ TypeOK /\ Places /\ EachOnce /\ Nos(<<>>) = {} /\ Len(<<>>) = 0
      /\ log \in Seq(Record) /\ back \in Seq(Record) /\ pending \in Seq(Record) /\ front \in Seq(Record)
      /\ Len(log) \in Nat /\ Len(back) \in Nat /\ Len(pending) \in Nat /\ Len(front) \in Nat
      /\ IsFiniteSet(lost) /\ Cardinality(lost) \in Nat
      /\ kept = Nos(log) \cup Nos(back) \cup Nos(pending) \cup Nos(front) \cup NosLost
      /\ Cardinality(kept) = Len(log) + Len(back) + Len(pending) + Len(front) + Cardinality(lost)
  BY NosOfEmpty, LenProperties, EmptySeq, FS_CardinalityType DEF Core, TypeOK, EachOnce
<1>2. IsFiniteSet(kept)
  <2>1. records \in Nat /\ kept \subseteq 1..records
    BY <1>1 DEF TypeOK
  <2>2. IsFiniteSet(1..records)
    BY <2>1, FS_Interval
  <2> QED BY <2>1, <2>2, FS_Subset
<1>3. ASSUME NEW x, x \notin kept PROVE Cardinality(kept \cup {x}) = Cardinality(kept) + 1
  BY <1>2, <1>3, FS_AddElement
<1>a. ASSUME lost' = lost PROVE NosLost' = NosLost
  BY <1>a DEF NosLost
<1>b. ASSUME NEW r, lost' = lost \cup {r}, r \notin lost
      PROVE  /\ NosLost' = NosLost \cup {r.no} /\ IsFiniteSet(lost')
             /\ Cardinality(lost') = Cardinality(lost) + 1
  <2>1. NosLost' = NosLost \cup {r.no}
    BY <1>b DEF NosLost
  <2> QED BY <1>1, <1>b, <2>1, FS_AddElement
<1>4. ASSUME NEW p \in Producers, CallStep(p) PROVE EachOnce'
  <2>1. UNCHANGED <<log, back, pending, front, lost, kept>>
    BY <1>4, CallStepQuiet DEF queueVars, backendVars, panicVars, fileVars, sinkVars
  <2>2. Alone
    BY <1>4, <2>1, BusyNumbers
  <2> QED BY <1>1, <1>a, <2>1, <2>2 DEF EachOnce
<1>5. ASSUME NEW p \in Producers, Enqueue(p) PROVE EachOnce'
  <2> DEFINE r == Rec(p, enqueuedSeq + 1)
  <2>1. r \in Record /\ r.no = call[p].no /\ call[p].no \notin kept
    <3>1. Busy(p)
      BY <1>5 DEF Enqueue, Busy, At
    <3>2. enqueuedSeq + 1 \in Nat
      BY <1>1 DEF TypeOK
    <3> QED BY <3>1, <3>2, RecTyped
  <2> HIDE DEF r
  <2>2. front' = Append(front, r)
    BY <1>5 DEF Enqueue, r
  <2>3. Nos(front') = Nos(front) \cup {call[p].no} /\ Len(front') = Len(front) + 1
    BY <1>1, <2>1, <2>2, NosOfAppend, AppendProperties
  <2>4. UNCHANGED <<log, back, pending, lost>> /\ NosLost' = NosLost /\ kept' = kept \cup {call[p].no}
    BY <1>5, <1>a DEF Enqueue, backendVars, panicVars, fileVars, sinkVars
  <2>5. Cardinality(kept') = Cardinality(kept) + 1
    BY <1>3, <2>1, <2>4
  <2>6. ~CallStep(p)
    BY <1>1, <1>5, CallStepQuiet, <2>1, <2>4
  <2>7. Alone
    BY <1>5, <2>4, <2>6, BusyNumbers
  <2>8. kept' = Nos(log') \cup Nos(back') \cup Nos(pending') \cup Nos(front') \cup NosLost'
    BY <1>1, <2>3, <2>4
  <2>9. Cardinality(kept') = Len(log') + Len(back') + Len(pending') + Len(front') + Cardinality(lost')
    BY <1>1, <2>3, <2>4, <2>5
  <2> QED BY <1>1, <2>4, <2>7, <2>8, <2>9 DEF EachOnce
<1>6. ASSUME NEW p \in Producers, DropTrace(p) PROVE EachOnce'
  <2>1. UNCHANGED <<log, back, pending, front, lost, kept>>
    BY <1>6 DEF DropTrace, backendVars, panicVars, fileVars, sinkVars
  <2>2. Alone
    BY <1>6, <2>1, BusyNumbers
  <2> QED BY <1>1, <1>a, <2>1, <2>2 DEF EachOnce
<1>7. ASSUME NEW p \in Producers, WriteDirect(p) PROVE EachOnce'
  <2> DEFINE r == Rec(p, 0)
  <2>1. r \in Record /\ r.no = call[p].no /\ call[p].no \notin kept
    <3>1. Busy(p)
      BY <1>7 DEF WriteDirect, Busy, At
    <3> QED BY <3>1, RecTyped
  <2> HIDE DEF r
  <2>2. WriteRecord(r)
    BY <1>7 DEF WriteDirect, r
  <2>3. UNCHANGED <<front, back, pending>> /\ kept' = kept \cup {call[p].no}
    BY <1>7 DEF WriteDirect, queueVars, backendVars, panicVars
  <2> DEFINE Moved ==
        /\ Nos(log') \cup NosLost' = Nos(log) \cup NosLost \cup {call[p].no}
        /\ Len(log') + Cardinality(lost') = Len(log) + Cardinality(lost) + 1
        /\ IsFiniteSet(lost') /\ Len(log') \in Nat /\ Cardinality(lost') \in Nat
  <2>4. Moved
    <3>1. CASE log' = Append(log, r) /\ lost' = lost
      <4>1. Nos(log') = Nos(log) \cup {call[p].no} /\ Len(log') = Len(log) + 1
        BY <1>1, <2>1, <3>1, NosOfAppend, AppendProperties
      <4>2. NosLost' = NosLost /\ Cardinality(lost') = Cardinality(lost) /\ IsFiniteSet(lost')
        BY <1>1, <1>a, <3>1
      <4>3. Nos(log') \cup NosLost' = Nos(log) \cup NosLost \cup {call[p].no}
        BY <4>1, <4>2
      <4> QED BY <1>1, <4>1, <4>2, <4>3
    <3>2. CASE log' = log /\ lost' = lost \cup {r}
      <4>1. r \notin lost
        BY <1>1, <2>1 DEF NosLost
      <4>2. /\ NosLost' = NosLost \cup {call[p].no} /\ IsFiniteSet(lost')
            /\ Cardinality(lost') = Cardinality(lost) + 1
        BY <1>b, <2>1, <3>2, <4>1
      <4>3. Nos(log') = Nos(log) /\ Len(log') = Len(log)
        BY <3>2
      <4>4. Nos(log') \cup NosLost' = Nos(log) \cup NosLost \cup {call[p].no}
        BY <4>2, <4>3
      <4> QED BY <1>1, <4>2, <4>3, <4>4
    <3>3. (log' = Append(log, r) /\ lost' = lost) \/ (log' = log /\ lost' = lost \cup {r})
      BY <1>1, <2>1, <2>2, Sink
    <3> HIDE DEF Moved
    <3> QED BY <3>1, <3>2, <3>3
  <2>5. Cardinality(kept') = Cardinality(kept) + 1
    BY <1>3, <2>1, <2>3
  <2>6. ~CallStep(p)
    BY <1>1, <1>7, CallStepQuiet, <2>1, <2>3
  <2>7. Alone
    BY <1>7, <2>3, <2>6, BusyNumbers
  <2>8. kept' = Nos(log') \cup Nos(back') \cup Nos(pending') \cup Nos(front') \cup NosLost'
    <3> DEFINE K == Nos(back) \cup Nos(pending) \cup Nos(front)
    <3>1. K = Nos(back') \cup Nos(pending') \cup Nos(front')
      BY <2>3
    <3>2. kept = K \cup (Nos(log) \cup NosLost)
      BY <1>1
    <3> HIDE DEF K
    <3>3. kept' = K \cup (Nos(log') \cup NosLost')
      BY <2>3, <2>4, <3>2
    <3> QED BY <3>1, <3>3
  <2>9. Cardinality(kept') = Len(log') + Len(back') + Len(pending') + Len(front') + Cardinality(lost')
    <3>1. Len(back') = Len(back) /\ Len(pending') = Len(pending) /\ Len(front') = Len(front)
      BY <2>3
    <3>2. /\ Cardinality(kept) = Len(log) + Len(back) + Len(pending) + Len(front) + Cardinality(lost)
          /\ Len(log') + Cardinality(lost') = Len(log) + Cardinality(lost) + 1
          /\ Len(log') \in Nat /\ Cardinality(lost') \in Nat
      BY <1>1, <2>4
    <3>3. /\ Len(log) \in Nat /\ Len(back) \in Nat /\ Len(pending) \in Nat /\ Len(front) \in Nat
          /\ Cardinality(lost) \in Nat
      BY <1>1
    <3> QED BY <2>5, <3>1, <3>2, <3>3
  <2> QED BY <2>4, <2>7, <2>8, <2>9 DEF EachOnce
<1>8. ASSUME UNCHANGED calls, kept' = kept PROVE Alone
  BY <1>1, <1>8 DEF calls, EachOnce, Busy
<1> HIDE DEF Alone
<1>9. ASSUME UNCHANGED calls, kept' = kept, IsFiniteSet(lost'),
             Nos(log') \cup Nos(back') \cup Nos(pending') \cup Nos(front') \cup NosLost' = kept,
             Len(log') + Len(back') + Len(pending') + Len(front') + Cardinality(lost')
               = Len(log) + Len(back) + Len(pending) + Len(front) + Cardinality(lost)
      PROVE  EachOnce'
  BY <1>1, <1>8, <1>9 DEF EachOnce, Alone
(* A record goes from a buffer s to the log or to the lost.                *)
<1>c. ASSUME NEW s \in Seq(Record), NEW t \in Seq(Record), NEW u \in Seq(Record), s # <<>>,
             WriteRecord(Head(s)),
             kept = Nos(log) \cup Nos(s) \cup Nos(t) \cup Nos(u) \cup NosLost,
             Cardinality(kept) = Len(log) + Len(s) + Len(t) + Len(u) + Cardinality(lost)
      PROVE  /\ IsFiniteSet(lost') /\ Cardinality(lost') \in Nat /\ Len(log') \in Nat
             /\ Nos(log') \cup Nos(Tail(s)) \cup NosLost' = Nos(log) \cup Nos(s) \cup NosLost
             /\ Len(log') + Len(Tail(s)) + Cardinality(lost') = Len(log) + Len(s) + Cardinality(lost)
  <2>1. /\ Head(s) \in Record /\ Tail(s) \in Seq(Record) /\ Len(s) = Len(Tail(s)) + 1
        /\ Members(s) = {Head(s)} \cup Members(Tail(s))
    BY <1>c, MembersOfTail
  <2>2. Nos(s) = {Head(s).no} \cup Nos(Tail(s))
    BY <2>1 DEF Nos
  <2>3. Len(Tail(s)) \in Nat /\ Len(t) \in Nat /\ Len(u) \in Nat
    BY <2>1, LenProperties
  <2>4. Head(s) \notin lost
    <3> SUFFICES ASSUME Head(s) \in lost PROVE FALSE
      OBVIOUS
    <3>1. Head(s).no \in NosLost
      BY DEF NosLost
    <3>2. kept = Nos(log) \cup Nos(Tail(s)) \cup Nos(t) \cup Nos(u) \cup NosLost
      BY <1>c, <2>2, <3>1
    <3>3. Cardinality(kept) <= Len(log) + Len(Tail(s)) + Len(t) + Len(u) + Cardinality(lost)
      BY <1>1, <2>1, <3>2, FiveAtMost
    <3> QED BY <1>1, <1>c, <2>1, <2>3, <3>3
  <2>5. CASE log' = Append(log, Head(s)) /\ lost' = lost
    <3>1. Nos(log') = Nos(log) \cup {Head(s).no} /\ Len(log') = Len(log) + 1
      BY <1>1, <2>1, <2>5, NosOfAppend, AppendProperties
    <3>2. NosLost' = NosLost /\ Cardinality(lost') = Cardinality(lost) /\ IsFiniteSet(lost')
      BY <1>1, <1>a, <2>5
    <3>3. Nos(log') \cup Nos(Tail(s)) \cup NosLost' = Nos(log) \cup Nos(s) \cup NosLost
      BY <2>2, <3>1, <3>2
    <3>4. Len(log') + Len(Tail(s)) + Cardinality(lost') = Len(log) + Len(s) + Cardinality(lost)
      BY <1>1, <2>1, <2>3, <3>1, <3>2
    <3>5. Len(log') \in Nat /\ Cardinality(lost') \in Nat
      BY <1>1, <3>1, <3>2
    <3> QED BY <3>2, <3>3, <3>4, <3>5
  <2>6. CASE log' = log /\ lost' = lost \cup {Head(s)}
    <3>1. /\ NosLost' = NosLost \cup {Head(s).no} /\ IsFiniteSet(lost')
          /\ Cardinality(lost') = Cardinality(lost) + 1
      BY <1>b, <2>4, <2>6
    <3>2. Nos(log') = Nos(log) /\ Len(log') = Len(log)
      BY <2>6
    <3>3. Nos(log') \cup Nos(Tail(s)) \cup NosLost' = Nos(log) \cup Nos(s) \cup NosLost
      BY <2>2, <3>1, <3>2
    <3>4. Len(log') + Len(Tail(s)) + Cardinality(lost') = Len(log) + Len(s) + Cardinality(lost)
      BY <1>1, <2>1, <2>3, <3>1, <3>2
    <3> QED BY <1>1, <3>1, <3>2, <3>3, <3>4
  <2>7. \/ log' = Append(log, Head(s)) /\ lost' = lost
        \/ log' = log /\ lost' = lost \cup {Head(s)}
    BY <1>1, <1>c, <2>1, Sink
  <2> QED BY <2>5, <2>6, <2>7
<1>10. CASE Swap
  <2>1. /\ back = <<>> /\ back' = front /\ front' = <<>> /\ UNCHANGED <<log, lost, pending, kept>>
        /\ UNCHANGED calls
    BY <1>1, <1>10 DEF Swap, Places, panicVars, fileVars, sinkVars, history
  <2> QED BY <1>1, <1>9, <1>a, <2>1
<1>11. CASE WriteBatch
  <2>1. /\ back # <<>> /\ WriteRecord(Head(back)) /\ back' = Tail(back)
        /\ UNCHANGED <<front, pending, kept>> /\ UNCHANGED calls
    BY <1>11 DEF WriteBatch, queueVars, panicVars, history
  <2>2. /\ IsFiniteSet(lost') /\ Cardinality(lost') \in Nat /\ Len(log') \in Nat
        /\ Nos(log') \cup Nos(back') \cup NosLost' = Nos(log) \cup Nos(back) \cup NosLost
        /\ Len(log') + Len(back') + Cardinality(lost') = Len(log) + Len(back) + Cardinality(lost)
    BY <1>1, <1>c, <2>1
  <2>3. Len(back') \in Nat
    BY <1>1, <2>1, MembersOfTail, LenProperties
  <2>4. Nos(log') \cup Nos(back') \cup Nos(pending') \cup Nos(front') \cup NosLost' = kept
    <3>1. Nos(pending') = Nos(pending) /\ Nos(front') = Nos(front)
      BY <2>1
    <3> QED BY <1>1, <2>2, <3>1
  <2>5. Len(log') + Len(back') + Len(pending') + Len(front') + Cardinality(lost')
          = Len(log) + Len(back) + Len(pending) + Len(front) + Cardinality(lost)
    <3>1. Len(pending') = Len(pending) /\ Len(front') = Len(front)
      BY <2>1
    <3>2. Len(log) \in Nat /\ Len(back) \in Nat /\ Len(pending) \in Nat /\ Len(front) \in Nat /\ Cardinality(lost) \in Nat
      BY <1>1
    <3> QED BY <2>2, <2>3, <3>1, <3>2
  <2> QED BY <1>9, <2>1, <2>2, <2>4, <2>5
<1>12. CASE Clear
  <2>1. /\ front = <<>> /\ back = <<>> /\ front' = <<>> /\ back' = <<>>
        /\ UNCHANGED <<log, lost, pending, kept>> /\ UNCHANGED calls
    BY <1>1, <1>12 DEF Clear, Places, panicVars, fileVars, sinkVars, history
  <2> QED BY <1>1, <1>9, <1>a, <2>1
<1>13. CASE PanicTake
  <2>1. /\ pending = <<>> /\ pending' = front /\ front' = <<>> /\ UNCHANGED <<log, lost, back, kept>>
        /\ UNCHANGED calls
    BY <1>1, <1>13 DEF PanicTake, Places, backendVars, fileVars, sinkVars, history
  <2> QED BY <1>1, <1>9, <1>a, <2>1
<1>14. CASE PanicWrite
  <2>1. /\ pending # <<>> /\ WriteRecord(Head(pending)) /\ pending' = Tail(pending)
        /\ UNCHANGED <<front, back, kept>> /\ UNCHANGED calls
    BY <1>14 DEF PanicWrite, queueVars, backendVars, history
  <2>a. /\ kept = Nos(log) \cup Nos(pending) \cup Nos(back) \cup Nos(front) \cup NosLost
        /\ Cardinality(kept) = Len(log) + Len(pending) + Len(back) + Len(front) + Cardinality(lost)
    BY <1>1
  <2>2. /\ IsFiniteSet(lost') /\ Cardinality(lost') \in Nat /\ Len(log') \in Nat
        /\ Nos(log') \cup Nos(pending') \cup NosLost' = Nos(log) \cup Nos(pending) \cup NosLost
        /\ Len(log') + Len(pending') + Cardinality(lost') = Len(log) + Len(pending) + Cardinality(lost)
    BY <1>1, <1>c, <2>1, <2>a
  <2>3. Len(pending') \in Nat
    BY <1>1, <2>1, MembersOfTail, LenProperties
  <2>4. Nos(log') \cup Nos(back') \cup Nos(pending') \cup Nos(front') \cup NosLost' = kept
    <3>1. Nos(back') = Nos(back) /\ Nos(front') = Nos(front)
      BY <2>1
    <3> QED BY <1>1, <2>2, <3>1
  <2>5. Len(log') + Len(back') + Len(pending') + Len(front') + Cardinality(lost')
          = Len(log) + Len(back) + Len(pending) + Len(front) + Cardinality(lost)
    <3>1. Len(back') = Len(back) /\ Len(front') = Len(front)
      BY <2>1
    <3>2. Len(log) \in Nat /\ Len(back) \in Nat /\ Len(pending) \in Nat /\ Len(front) \in Nat /\ Cardinality(lost) \in Nat
      BY <1>1
    <3> QED BY <2>2, <2>3, <3>1, <3>2
  <2> QED BY <1>9, <2>1, <2>2, <2>4, <2>5
<1>15. CASE \/ Quit \/ FlushBatch \/ Publish \/ BeginSwitch \/ RequestStop \/ Announce \/ ExitFlush
            \/ PanicEnd \/ UNCHANGED vars
  <2>1. UNCHANGED <<log, back, pending, front, lost, kept>> /\ UNCHANGED calls
    BY <1>15 DEF Quit, FlushBatch, Publish, BeginSwitch, RequestStop, Announce, ExitFlush, PanicEnd, vars,
                 queueVars, backendVars, panicVars, fileVars, sinkVars, history
  <2> QED BY <1>1, <1>9, <1>a, <2>1
<1> QED BY <1>4, <1>5, <1>6, <1>7, <1>10, <1>11, <1>12, <1>13, <1>14, <1>15, NextCases

-----------------------------------------------------------------------------
(* The order.  In a queue the records of one thread rise; what is further  *)
(* on its way to the file comes first; and the record of a busy producer   *)
(* comes after all of its records.  E is who gave up waiting.              *)
Rising(s, E) ==
  \A i, j \in DOMAIN s : i < j /\ s[i].by = s[j].by /\ s[i].by \notin E => s[i].no < s[j].no
Ahead(s, t, E) ==
  \A a \in Members(s), b \in Members(t) : a.by = b.by /\ a.by \notin E => a.no < b.no
InTurn(s) == \A a \in Members(s) : Busy(a.by) => a.no < call[a.by].no

Ordered ==
  panic = "none" =>
    /\ Rising(log, expired) /\ Rising(back, expired) /\ Rising(front, expired)
    /\ Ahead(log, back, expired) /\ Ahead(log, front, expired) /\ Ahead(back, front, expired)
    /\ InTurn(log) /\ InTurn(back) /\ InTurn(front)

LEMMA RisingAppend ==
  ASSUME NEW s \in Seq(Record), NEW r \in Record, NEW E, Rising(s, E),
         \A a \in Members(s) : a.by = r.by /\ a.by \notin E => a.no < r.no
  PROVE  Rising(Append(s, r), E)
<1> DEFINE t == Append(s, r)
<1>1. /\ Len(s) \in Nat /\ DOMAIN s = 1..Len(s) /\ DOMAIN t = 1..(Len(s) + 1)
      /\ \A i \in 1..Len(s) : t[i] = s[i]
      /\ t[Len(s) + 1] = r
  BY AppendProperties
<1> HIDE DEF t
<1> SUFFICES ASSUME NEW i \in DOMAIN t, NEW j \in DOMAIN t, i < j, t[i].by = t[j].by, t[i].by \notin E
             PROVE  t[i].no < t[j].no
  BY DEF Rising, t
<1>2. i \in DOMAIN s /\ t[i] = s[i] /\ s[i] \in Members(s)
  BY <1>1 DEF Members
<1>3. CASE j = Len(s) + 1
  BY <1>1, <1>2, <1>3
<1>4. CASE j # Len(s) + 1
  <2>1. j \in DOMAIN s /\ t[j] = s[j]
    BY <1>1, <1>4
  <2> QED BY <1>2, <2>1 DEF Rising
<1> QED BY <1>3, <1>4

LEMMA RisingTail ==
  ASSUME NEW s \in Seq(Record), NEW E, s # <<>>, Rising(s, E)
  PROVE  /\ Rising(Tail(s), E)
         /\ \A a \in Members(Tail(s)) : a.by = Head(s).by /\ a.by \notin E => Head(s).no < a.no
<1> DEFINE t == Tail(s)
<1>1. /\ t \in Seq(Record) /\ Len(t) = Len(s) - 1
      /\ \A i \in 1..Len(t) : t[i] = s[i + 1]
  BY HeadTailProperties
<1>2. /\ Len(s) \in Nat /\ Len(t) \in Nat /\ DOMAIN s = 1..Len(s) /\ DOMAIN t = 1..Len(t)
      /\ Head(s) = s[1] /\ Len(s) = Len(t) + 1
  BY <1>1, LenProperties
<1> HIDE DEF t
<1>3. \A i \in DOMAIN t : i \in Nat /\ i > 0 /\ i + 1 \in DOMAIN s /\ t[i] = s[i + 1]
  BY <1>1, <1>2
<1>4. 1 \in DOMAIN s
  BY <1>2
<1>5. Rising(t, E)
  <2> SUFFICES ASSUME NEW i \in DOMAIN t, NEW j \in DOMAIN t, i < j, t[i].by = t[j].by, t[i].by \notin E
               PROVE  t[i].no < t[j].no
    BY DEF Rising
  <2>1. i + 1 < j + 1
    BY <1>3
  <2> QED BY <1>3, <2>1 DEF Rising
<1>6. ASSUME NEW i \in DOMAIN t, t[i].by = s[1].by, t[i].by \notin E PROVE s[1].no < t[i].no
  <2>1. 1 < i + 1
    BY <1>3
  <2> QED BY <1>3, <1>4, <1>6, <2>1 DEF Rising
<1>7. \A a \in Members(t) : a.by = s[1].by /\ a.by \notin E => s[1].no < a.no
  BY <1>6 DEF Members
<1> QED BY <1>2, <1>5, <1>7 DEF t

LEMMA WeakerOrder ==
  ASSUME NEW s, NEW t, NEW E, NEW F, E \subseteq F
  PROVE  (Rising(s, E) => Rising(s, F)) /\ (Ahead(s, t, E) => Ahead(s, t, F))
  BY DEF Rising, Ahead

LEMMA OrderOfEmpty ==
  ASSUME NEW s, NEW E
  PROVE  Rising(<<>>, E) /\ Ahead(<<>>, s, E) /\ Ahead(s, <<>>, E)
<1>1. Members(<<>>) = {}
  BY MembersOfEmpty
<1> QED BY <1>1 DEF Rising, Ahead

(* Where the records move and what busy producers do leaves InTurn as is.  *)
LEMMA StaysInTurn ==
  ASSUME Core, [Next]_vars, NEW s, NEW M, InTurn(s), Members(s) \subseteq Record,
         Nos(s) \subseteq kept, M \subseteq Members(s)
  PROVE  \A a \in M : Busy(a.by)' => a.no < call'[a.by].no
<1> SUFFICES ASSUME NEW a \in Members(s), Busy(a.by)' PROVE a.no < call'[a.by].no
  OBVIOUS
<1>1. a.by \in Producers /\ a.no \in kept
  BY DEF Record, Nos
<1>2. Starts(a.by) \/ Stays(a.by)
  BY <1>1, BusySteps
<1>3. kept \subseteq 1..records /\ records \in Nat
  BY DEF Core, TypeOK
<1>4. a.no \in 1..records
  BY <1>1, <1>3
<1> QED BY <1>2, <1>3, <1>4 DEF InTurn, Starts, Stays

LEMMA NextOrdered == Core /\ Ordered /\ [Next]_vars => Ordered'
<1> SUFFICES ASSUME Core, Ordered, [Next]_vars, panic' = "none" PROVE Ordered'
  BY DEF Ordered
<1>0. TypeOK
  BY DEF Core
<1>1. /\ Places /\ panic = "none"
      /\ log \in Seq(Record) /\ back \in Seq(Record) /\ front \in Seq(Record)
      /\ Members(<<>>) = {}
  <2>1. panic = "none"
    BY NextCases, CallStepQuiet
    DEF Enqueue, DropTrace, WriteDirect, Swap, Quit, WriteBatch, FlushBatch, Publish, BeginSwitch,
        RequestStop, Clear, Announce, ExitFlush, PanicTake, PanicWrite, PanicEnd, vars, panicVars
  <2> QED BY <2>1, MembersOfEmpty DEF Core, TypeOK
<1>2. /\ Rising(log, expired) /\ Rising(back, expired) /\ Rising(front, expired)
      /\ Ahead(log, back, expired) /\ Ahead(log, front, expired) /\ Ahead(back, front, expired)
      /\ InTurn(log) /\ InTurn(back) /\ InTurn(front)
  BY <1>1 DEF Ordered
<1>3. /\ \A a \in Members(log) : Busy(a.by)' => a.no < call'[a.by].no
      /\ \A a \in Members(back) : Busy(a.by)' => a.no < call'[a.by].no
      /\ \A a \in Members(front) : Busy(a.by)' => a.no < call'[a.by].no
  <2>1. Members(log) \subseteq Record /\ Members(back) \subseteq Record /\ Members(front) \subseteq Record
    BY <1>1, MembersTyped
  <2>2. Nos(log) \subseteq kept /\ Nos(back) \subseteq kept /\ Nos(front) \subseteq kept
    BY DEF Core, EachOnce
  <2> QED BY <1>2, <2>1, <2>2, StaysInTurn
<1>4. ASSUME NEW p \in Producers, CallStep(p) PROVE Ordered'
  <2>1. UNCHANGED <<log, back, front>>
    BY <1>4, CallStepQuiet DEF queueVars, backendVars, fileVars, sinkVars
  <2>2. expired \subseteq expired'
    BY <1>4 DEF CallStep, Calls, Submit, Flush, FlushTarget, NotRunning, WaitFlushed, FlushedExpires,
                WaitWhileDraining, DrainExpires, FlushFile, history
  <2>3. /\ Rising(log, expired') /\ Rising(back, expired') /\ Rising(front, expired')
        /\ Ahead(log, back, expired') /\ Ahead(log, front, expired') /\ Ahead(back, front, expired')
    BY <1>2, <2>2, WeakerOrder
  <2> QED BY <1>3, <2>1, <2>3 DEF Ordered, InTurn
<1>5. ASSUME NEW p \in Producers, Enqueue(p) PROVE Ordered'
  <2> DEFINE r == Rec(p, enqueuedSeq + 1)
  <2>1. /\ r \in Record /\ r.by = p /\ r.no = call[p].no /\ Busy(p) /\ ~Busy(p)'
    <3>1. Busy(p) /\ enqueuedSeq + 1 \in Nat /\ ~Busy(p)'
      BY <1>5, AddStepNotBusy DEF Core, TypeOK
    <3> QED BY <3>1, RecTyped
  <2> HIDE DEF r
  <2>2. front' = Append(front, r)
    BY <1>5 DEF Enqueue, r
  <2>3. Members(front') = Members(front) \cup {r}
    BY <1>1, <2>1, <2>2, MembersOfAppend
  <2>4. UNCHANGED <<log, back, expired>>
    BY <1>5 DEF Enqueue, backendVars, fileVars, sinkVars
  <2>5. /\ \A a \in Members(log) : a.by = r.by => a.no < r.no
        /\ \A a \in Members(back) : a.by = r.by => a.no < r.no
        /\ \A a \in Members(front) : a.by = r.by => a.no < r.no
    BY <1>2, <2>1 DEF InTurn
  <2>6. Rising(front', expired)
    BY <1>1, <1>2, <2>1, <2>2, <2>5, RisingAppend
  <2>7. Ahead(log, front', expired) /\ Ahead(back, front', expired)
    BY <1>2, <2>3, <2>5 DEF Ahead
  <2>8. \A a \in Members(front') : Busy(a.by)' => a.no < call'[a.by].no
    BY <1>3, <2>1, <2>3
  <2> QED BY <1>2, <1>3, <2>4, <2>6, <2>7, <2>8 DEF Ordered, InTurn
<1>6. ASSUME NEW p \in Producers, WriteDirect(p) PROVE Ordered'
  <2> DEFINE r == Rec(p, 0)
  <2>1. /\ r \in Record /\ r.by = p /\ r.no = call[p].no /\ Busy(p) /\ ~Busy(p)'
    <3>1. Busy(p) /\ ~Busy(p)'
      BY <1>6, AddStepNotBusy
    <3> QED BY <3>1, RecTyped
  <2> HIDE DEF r
  <2>2. WriteRecord(r)
    BY <1>6 DEF WriteDirect, r
  <2>a. log' = Append(log, r) \/ log' = log
    BY <1>0, <2>1, <2>2, Sink
  <2>3. Members(log') \subseteq Members(log) \cup {r}
    BY <1>0, <2>1, <2>2, SinkMembers
  <2>4. UNCHANGED <<front, back, expired>>
    BY <1>6 DEF WriteDirect, queueVars, backendVars
  <2>5. \A a \in Members(log) : a.by = r.by => a.no < r.no
    BY <1>2, <2>1 DEF InTurn
  <2>6. Rising(log', expired)
    <3>1. Rising(Append(log, r), expired)
      BY <1>1, <1>2, <2>1, <2>5, RisingAppend
    <3> QED BY <1>2, <2>a, <3>1
  <2>7. r.by \notin expired => back = <<>> /\ front = <<>>
    <3>1. r.by \notin expired => mode = "Sync"
      BY <1>6, <2>1 DEF Core, Direct, WriteDirect, At
    <3>2. mode = "Sync" => backend = "done"
      BY <1>1 DEF Places
    <3> QED BY <1>1, <3>1, <3>2 DEF Places
  <2>8. Ahead(log', back, expired) /\ Ahead(log', front, expired)
    BY <1>1, <1>2, <2>3, <2>7 DEF Ahead
  <2>9. \A a \in Members(log') : Busy(a.by)' => a.no < call'[a.by].no
    BY <1>3, <2>1, <2>3
  <2> QED BY <1>2, <1>3, <2>4, <2>6, <2>8, <2>9 DEF Ordered, InTurn
<1>7. CASE Swap
  <2>1. back' = front /\ front' = <<>> /\ UNCHANGED <<log, expired>>
    BY <1>7 DEF Swap, fileVars, sinkVars, history
  <2>2. Rising(<<>>, expired) /\ Ahead(log, <<>>, expired) /\ Ahead(front, <<>>, expired)
    BY OrderOfEmpty
  <2> QED BY <1>1, <1>2, <1>3, <2>1, <2>2 DEF Ordered, InTurn
<1>8. CASE WriteBatch
  <2> DEFINE h == Head(back)
             rest == Tail(back)
  <2>1. back # <<>> /\ WriteRecord(h) /\ back' = rest /\ UNCHANGED <<front, expired>>
    BY <1>8 DEF WriteBatch, queueVars, history
  <2>2. h \in Record /\ rest \in Seq(Record) /\ h \in Members(back) /\ Members(back) = {h} \cup Members(rest)
    BY <1>1, <2>1, MembersOfTail
  <2>3. /\ Rising(rest, expired)
        /\ \A a \in Members(rest) : a.by = h.by /\ a.by \notin expired => h.no < a.no
    BY <1>1, <1>2, <2>1, RisingTail
  <2>4. log' = Append(log, h) \/ log' = log
    BY <1>0, <2>1, <2>2, Sink
  <2>5. Members(log') \subseteq Members(log) \cup {h}
    BY <1>0, <2>1, <2>2, SinkMembers
  <2> HIDE DEF h, rest
  <2>6. Rising(log', expired)
    <3>1. \A a \in Members(log) : a.by = h.by /\ a.by \notin expired => a.no < h.no
      BY <1>2, <2>2 DEF Ahead
    <3>2. Rising(Append(log, h), expired)
      BY <1>1, <1>2, <2>2, <3>1, RisingAppend
    <3> QED BY <1>2, <2>4, <3>2
  <2>7. Ahead(log', rest, expired)
    <3>1. Members(rest) \subseteq Members(back)
      BY <2>2
    <3> QED BY <1>2, <2>3, <2>5, <3>1 DEF Ahead
  <2>8. Ahead(log', front, expired) /\ Ahead(rest, front, expired)
    BY <1>2, <2>2, <2>5 DEF Ahead
  <2>9. /\ \A a \in Members(log') : Busy(a.by)' => a.no < call'[a.by].no
        /\ \A a \in Members(rest) : Busy(a.by)' => a.no < call'[a.by].no
    BY <1>3, <2>2, <2>5
  <2> QED BY <1>2, <1>3, <2>1, <2>3, <2>6, <2>7, <2>8, <2>9 DEF Ordered, InTurn
<1>9. CASE Clear
  <2>1. front' = <<>> /\ back' = <<>> /\ UNCHANGED <<log, expired>>
    BY <1>9 DEF Clear, fileVars, sinkVars, history
  <2>2. Rising(<<>>, expired) /\ Ahead(log, <<>>, expired) /\ Ahead(<<>>, <<>>, expired)
    BY OrderOfEmpty
  <2> QED BY <1>1, <1>2, <1>3, <2>1, <2>2 DEF Ordered, InTurn
<1>10. CASE PanicTake \/ PanicWrite \/ PanicEnd
  BY <1>10 DEF PanicTake, PanicWrite, PanicEnd
<1>11. ASSUME UNCHANGED <<log, back, front, expired>> PROVE Ordered'
  BY <1>2, <1>3, <1>11 DEF Ordered, InTurn
<1>12. ASSUME NEW p \in Producers, DropTrace(p) PROVE Ordered'
  BY <1>11, <1>12 DEF DropTrace, backendVars, fileVars, sinkVars
<1>13. CASE \/ Quit \/ FlushBatch \/ Publish \/ BeginSwitch \/ RequestStop \/ Announce \/ ExitFlush
            \/ UNCHANGED vars
  BY <1>11, <1>13 DEF Quit, FlushBatch, Publish, BeginSwitch, RequestStop, Announce, ExitFlush, vars,
                      queueVars, backendVars, fileVars, sinkVars, history
<1> QED BY <1>4, <1>5, <1>6, <1>7, <1>8, <1>9, <1>10, <1>12, <1>13, NextCases

-----------------------------------------------------------------------------
(* The invariant holds.                                                    *)
LEMMA InitCore == Init => Core /\ Ordered
<1> SUFFICES ASSUME Init PROVE Core /\ Ordered
  OBVIOUS
<1>1. /\ NoCall \in Call /\ NoCall.level = "Flush" /\ NoCall.seq = 0
      /\ NoBatch \in [durable: BOOLEAN, note: Nat, lastSeq: Nat] /\ NoBatch.lastSeq = 0
      /\ MaxCalls \in Nat /\ MaxTroubles \in Nat /\ capacity \in Nat \ {0}
      /\ Members(<<>>) = {} /\ Nos(<<>>) = {} /\ Len(<<>>) = 0 /\ <<>> \in Seq(Record)
      /\ Cardinality({}) = 0 /\ IsFiniteSet({})
  BY BoundsAssumption, CapacityAssumption, MembersOfEmpty, NosOfEmpty, EmptySeq, FS_EmptySet
  DEF NoCall, NoBatch, Call
<1>2. TypeOK
  <2>1. front \in Seq(Record) /\ back \in Seq(Record) /\ pending \in Seq(Record) /\ log \in Seq(Record)
    BY <1>1 DEF Init
  <2>2. /\ Len(front) <= capacity /\ synced \subseteq 1..Len(log) /\ begun \in 0..Len(log)
        /\ troubles \in 0..MaxTroubles /\ open \in BOOLEAN /\ lost \subseteq Record
        /\ records \in 0..MaxCalls /\ flushes \in 0..MaxCalls
    BY <1>1 DEF Init
  <2>3. /\ enqueuedSeq \in Nat /\ flushedSeq \in 0..enqueuedSeq /\ promised \in 0..enqueuedSeq
        /\ droppedTotal \in Nat /\ droppedReported \in 0..droppedTotal /\ noted \in 0..droppedTotal
        /\ unnoted \in 0..droppedTotal
    BY DEF Init
  <2>4. pc \in [Producers -> {"idle", "enqueue", "flushed", "drain", "write"}] /\ call \in [Producers -> Call]
    BY <1>1 DEF Init
  <2>5. running \in BOOLEAN /\ stopping \in BOOLEAN /\ errorPending \in BOOLEAN
    BY DEF Init
  <2> QED BY <1>1, <2>1, <2>2, <2>3, <2>4, <2>5 DEF Init, TypeOK
<1>3. Places /\ Reported
  BY <1>1 DEF Init, Places, Reported
<1>4. \A p \in Producers : ~Busy(p) /\ call[p] = NoCall
  BY DEF Init, Busy
<1>5. Numbered
  BY <1>1, <1>4 DEF Init, Numbered, Everywhere
<1>a. Promised
  BY <1>1 DEF Init, Promised
<1>6. ErrorsForced
  BY <1>1 DEF Init, ErrorsForced
<1>7. EachOnce
  BY <1>1, <1>4 DEF Init, EachOnce, NosLost
<1>8. Direct /\ Rested
  BY <1>4 DEF Direct, Rested
<1>9. Ordered
  BY <1>1, OrderOfEmpty DEF Init, Ordered, InTurn
<1> QED BY <1>2, <1>3, <1>5, <1>a, <1>6, <1>7, <1>8, <1>9 DEF Core

LEMMA CoreHolds == Spec => [](Core /\ Ordered)
<1>1. Core /\ Ordered /\ [Next]_vars => Core' /\ Ordered'
  BY NextTypes, NextPlaces, NextReported, NextNumbered, NextPromised, NextErrorsForced, NextEachOnce,
     NextDirect, NextRested, NextOrdered DEF Core
<1> QED BY <1>1, InitCore, PTL DEF Spec

(* No record is lost or written twice: what was queued or written directly *)
(* is in one place, over Swap, the batch, the switch and a crash, unless   *)
(* the sink could not write it.                                            *)
THEOREM NoneLostOrTwice == Spec => []RecordsKept
<1>1. Core => RecordsKept
  <2> SUFFICES ASSUME Core PROVE RecordsKept
    OBVIOUS
  <2> DEFINE s2 == log \o back
             s3 == s2 \o pending
             s == s3 \o front
  <2>1. log \in Seq(Record) /\ back \in Seq(Record) /\ pending \in Seq(Record) /\ front \in Seq(Record)
    BY DEF Core, TypeOK
  <2>2. s2 \in Seq(Record) /\ Len(s2) = Len(log) + Len(back) /\ Nos(s2) = Nos(log) \cup Nos(back)
    BY <2>1, ConcatProperties, NosOfConcat
  <2>a. s = (log \o back) \o pending \o front
    OBVIOUS
  <2> HIDE DEF s2
  <2>3. s3 \in Seq(Record) /\ Len(s3) = Len(s2) + Len(pending) /\ Nos(s3) = Nos(s2) \cup Nos(pending)
    BY <2>1, <2>2, ConcatProperties, NosOfConcat
  <2> HIDE DEF s3
  <2>4. s \in Seq(Record) /\ Len(s) = Len(s3) + Len(front) /\ Nos(s) = Nos(s3) \cup Nos(front)
    <3>1. s3 \in Seq(Record) /\ front \in Seq(Record)
      BY <2>1, <2>3
    <3>2. s \in Seq(Record) /\ Len(s) = Len(s3) + Len(front)
      BY <3>1, ConcatProperties
    <3>3. Nos(s) = Nos(s3) \cup Nos(front)
      BY <3>1, NosOfConcat
    <3> QED BY <3>2, <3>3
  <2> HIDE DEF s
  <2>5. Members(Numbers(s)) = Nos(s)
    <3>1. DOMAIN Numbers(s) = DOMAIN s /\ \A i \in DOMAIN s : Numbers(s)[i] = s[i].no
      BY DEF Numbers
    <3> HIDE DEF Numbers
    <3> QED BY <3>1 DEF Members, Nos
  <2>6. Len(Numbers(s)) = Len(s)
    <3>1. Len(s) \in Nat /\ DOMAIN s = 1..Len(s)
      BY <2>4, LenProperties
    <3>2. Numbers(s) \in [1..Len(s) -> Nos(s)]
      BY <3>1 DEF Numbers, Nos, Members
    <3> QED BY <3>1, <3>2, LenProperties, SeqDef
  <2>7. Held = Numbers(s)
    BY <2>a DEF Held
  <2>8. Members(Numbers(s)) \cup {r.no : r \in lost} = kept
    BY <2>2, <2>3, <2>4, <2>5 DEF Core, EachOnce, NosLost
  <2>9. Len(Numbers(s)) + Cardinality(lost) = Cardinality(kept)
    <3>1. Cardinality(kept) = Len(log) + Len(back) + Len(pending) + Len(front) + Cardinality(lost)
      BY DEF Core, EachOnce
    <3>2. Len(Numbers(s)) = Len(log) + Len(back) + Len(pending) + Len(front)
      BY <2>2, <2>3, <2>4, <2>6
    <3> QED BY <3>1, <3>2
  <2> QED BY <2>7, <2>8, <2>9 DEF RecordsKept, Core
<1> QED BY <1>1, CoreHolds, PTL

(* The file has the records of one thread in the order it logged them,     *)
(* also over the switch from queued to direct writing, unless the thread   *)
(* gave up its wait for the drain or the process crashes.                  *)
THEOREM FileKeepsOrder == Spec => []WrittenInOrder
<1>1. Ordered => WrittenInOrder
  BY DEF Ordered, Rising, WrittenInOrder
<1> QED BY <1>1, CoreHolds, PTL

(* When an ERROR call or Flush has returned without timing out, what was   *)
(* queued before is in the files, unless the sink lost it, and the ERRORs  *)
(* of it are on the disk, unless a roll has closed their file.             *)
THEOREM WaitsKeepPromise == Spec => []PromiseKept
<1>1. Core => PromiseKept
  <2> SUFFICES ASSUME Core, NEW n \in 1..promised, ~\E r \in Members(pending) \cup lost : r.seq = n
               PROVE  \E i \in DOMAIN log :
                        /\ log[i].seq = n
                        /\ \/ log[i].level # "Error" \/ i \in synced \cup 1..begun
                           \/ panic = "writing"
    BY DEF PromiseKept
  <2>1. \E r \in Members(log) : r.seq = n
    BY DEF Core, Numbered
  <2>2. PICK i \in DOMAIN log : log[i].seq = n
    BY <2>1 DEF Members
  <2>3. log[i].level = "Error" => i \in synced \cup 1..begun \/ BeingWritten(n)
    BY <2>2 DEF Core, ErrorsForced
  <2>4. backend = "writing" => n <= flushedSeq
    <3>1. backend = "writing" => promised <= flushedSeq
      BY DEF Core, Places, Promised
    <3>2. promised \in Nat /\ flushedSeq \in Nat /\ n \in Nat /\ n <= promised
      BY DEF Core, TypeOK
    <3> QED BY <3>1, <3>2
  <2>5. BeingWritten(n) => panic = "writing"
    <3>1. flushedSeq \in Nat /\ n \in Nat
      BY DEF Core, TypeOK
    <3> QED BY <2>4, <3>1 DEF BeingWritten
  <2> QED BY <2>2, <2>3, <2>5
<1> QED BY <1>1, CoreHolds, PTL

(* Once the logger is synchronous, the notes in the files account for      *)
(* every dropped TRACE, but for those whose note the sink could not write. *)
THEOREM EveryDropReported == Spec => []DropsReported
<1>1. Core => DropsReported
  <2> SUFFICES ASSUME Core, mode = "Sync", panic = "none" PROVE noted + unnoted = droppedTotal
    BY DEF DropsReported
  <2>1. backend = "done" /\ front = <<>>
    BY DEF Core, Places
  <2> QED BY <2>1 DEF Core, Reported, TypeOK
<1> QED BY <1>1, CoreHolds, PTL

=============================================================================
