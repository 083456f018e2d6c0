--------------------------- MODULE SessionLifecycle ---------------------------
(***************************************************************************)
(* A session from its accept event to its destructor (Session.cpp,         *)
(* Listener.cpp, Service.cpp, IocpCore.cpp): the I/O workers take          *)
(* completions and run ProcessAccept, ProcessConnect, ProcessRecv or       *)
(* ProcessDisconnect; the sweeper disconnects the sessions that are silent *)
(* for too long; the send path and handlers disconnect, too.               *)
(*                                                                         *)
(* A session object exists as long as a shared_ptr to it does, and its     *)
(* memory may come back as a later session.  Time is relative: silence[s]  *)
(* is the time since _lastActiveTick, and the clock the sweeper read is    *)
(* sweep.since behind.                                                     *)
(***************************************************************************)
EXTENDS Integers, FiniteSets

CONSTANTS Sessions,  \* memory for session objects
          Accepts,   \* the listener's accept events
          Workers,   \* I/O workers
          Timeout,   \* 60 s of SweepSessions
          MaxSweep,  \* bound: how old the sweeper's clock is when it looks at a session
          MaxDepth,  \* how many nested calls of RegisterAccept the stack has room for
          None

ASSUME TimeAssumption == Timeout \in Nat /\ MaxSweep \in Nat
ASSUME DepthAssumption == MaxDepth \in Nat \ {0}
ASSUME ObjectsAssumption == None \notin Sessions \cup Accepts

VARIABLES allocated,  \* the session objects that exist
          accept,     \* accept event -> its session (None: bound, no memory for one)
          listening,  \* accept events posted with AcceptEx
          tried,      \* worker -> the sessions of its calls of RegisterAccept that failed
          connected,  \* session -> _connected
          silence,    \* session -> age of _lastActiveTick, Never when that is 0
          recvs,      \* session -> receives posted
          recvOwned,  \* the sessions whose _recvEvent.owner is set
          closes,     \* session -> DisconnectEx posted (_disconnectEvent.owner is set)
          refused,    \* the sessions whose DisconnectEx failed at once
          sessions,   \* Service::_sessions
          sweep,      \* SweepSessions: where it is, zombieSessions, age of its clock
          work,       \* worker -> where it is, with which session and accept event
          crashed     \* what ended the process, "no" while it runs: the ASSERT_CRASH of
                      \* ReleaseSession, no session in RegisterAccept, its recursion

listener == <<accept, listening, tried>>
socket == <<connected, closes, refused>>
vars == <<allocated, listener, socket, silence, recvs, recvOwned, sessions, sweep,
          work, crashed>>

Never == -1
Oldest == Timeout + MaxSweep + 1   \* older makes no difference

Places == {"idle", "add", "arm", "post", "drop", "accept", "handle", "release"}

TypeOK ==
  /\ allocated \subseteq Sessions
  /\ accept \in [Accepts -> Sessions \cup {None}]
  /\ listening \subseteq Accepts
  /\ connected \in [Sessions -> BOOLEAN]
  /\ silence \in [Sessions -> Never..Oldest]
  /\ recvs \in [Sessions -> 0..1]    \* an OVERLAPPED is posted once at a time
  /\ closes \in [Sessions -> 0..1]
  /\ recvOwned \subseteq Sessions /\ refused \subseteq Sessions /\ sessions \subseteq Sessions
  /\ sweep \in [at : {"asleep", "look", "kick"}, zombies : SUBSET Sessions, since : 0..MaxSweep]
  /\ work \in [Workers -> [at : Places, session : Sessions \cup {None},
                           event : Accepts \cup {None}]]
  /\ tried \in [Workers -> SUBSET Sessions]
  /\ crashed \in {"no", "assert", "session", "stack"}

Idle == [at |-> "idle", session |-> None, event |-> None]
NoSweep == [at |-> "asleep", zombies |-> {}, since |-> 0]

(* After Listener::StartAccept.                                            *)
Init ==
  /\ accept \in [Accepts -> Sessions]
  /\ \A d, e \in Accepts : accept[d] = accept[e] => d = e
  /\ allocated = {accept[e] : e \in Accepts} /\ listening = Accepts
  /\ connected = [s \in Sessions |-> FALSE] /\ silence = [s \in Sessions |-> Never]
  /\ recvs = [s \in Sessions |-> 0] /\ closes = [s \in Sessions |-> 0]
  /\ recvOwned = {} /\ refused = {} /\ sessions = {}
  /\ sweep = NoSweep
  /\ work = [w \in Workers |-> Idle]
  /\ tried = [w \in Workers |-> {}]
  /\ crashed = "no"

Free == Sessions \ allocated

Up == crashed = "no"

At(w, place) == work[w].at = place /\ Up

Goto(w, place) == work' = [work EXCEPT ![w].at = place]

(* ProcessAccept goes on with RegisterAccept; other handlers are done.     *)
Done(w) == work' = [work EXCEPT ![w] = IF @.event = None THEN Idle ELSE [@ EXCEPT !.at = "accept"]]

-----------------------------------------------------------------------------
(* DisconnectEx by a thread that found _connected[s] = was; `works` says   *)
(* whether it is accepted.  Its failure is ignored, although the event's   *)
(* owner is dropped and no completion will come.                           *)
DisconnectIf(s, was, works) ==
  IF was
    THEN /\ connected' = [connected EXCEPT ![s] = FALSE]
         /\ closes' = IF works THEN [closes EXCEPT ![s] = @ + 1] ELSE closes
         /\ refused' = IF works THEN refused ELSE refused \cup {s}
    ELSE UNCHANGED socket

(* Mutant of Disconnect: without the exchange, every caller goes on.       *)
DisconnectAgain(s, works) == DisconnectIf(s, TRUE, works)

(* Disconnect: one step, since between the exchange and DisconnectEx       *)
(* nothing but the flag can be noticed.                                    *)
Disconnect(s, works) == DisconnectIf(s, connected[s], works)

(* The completion of an AcceptEx.  ProcessAccept gives up on the session   *)
(* when SetUpdateAcceptSocket or getpeername fails; else ProcessConnect    *)
(* stores true in _connected and stamps the time.                          *)
AcceptThen(w, e, ok, stamp, failed) ==
  LET s == accept[e]
  IN  /\ At(w, "idle") /\ e \in listening
      /\ listening' = listening \ {e}
      /\ connected' = [connected EXCEPT ![s] = ok]
      /\ silence' = IF ok THEN [silence EXCEPT ![s] = stamp] ELSE silence
      /\ work' = [work EXCEPT ![w] = IF ok THEN [at |-> "add", session |-> s, event |-> e]
                                            ELSE [at |-> failed, session |-> s, event |-> e]]
      /\ UNCHANGED <<allocated, accept, tried, closes, refused, recvs, recvOwned, sessions, sweep,
                     crashed>>

(* Mutants of TakeAccept: a failure returns without RegisterAccept;        *)
(* ProcessConnect does not call UpdateActiveTick.                          *)
TakeAcceptOrForget(w, e, ok) ==
  IF ok THEN AcceptThen(w, e, ok, 0, "accept")
        ELSE /\ At(w, "idle") /\ e \in listening
             /\ listening' = listening \ {e}
             /\ UNCHANGED <<allocated, accept, tried, socket, silence, recvs, recvOwned, sessions,
                            sweep, work, crashed>>
TakeAcceptUnstamped(w, e, ok) == AcceptThen(w, e, ok, Never, "accept")

TakeAccept(w, e, ok) == AcceptThen(w, e, ok, 0, "accept")

(* One call of RegisterAccept: the event gets a new session, and AcceptEx  *)
(* posts it, or fails.  Then the function calls itself, with the session   *)
(* of this call still in its frame.                                        *)
RegisterAccept(w, s, posted) ==
  LET e == work[w].event
  IN  /\ At(w, "accept") /\ s \in Free
      /\ allocated' = allocated \cup {s}
      /\ accept' = [accept EXCEPT ![e] = s]
      /\ IF posted
           THEN /\ listening' = listening \cup {e}
                /\ work' = [work EXCEPT ![w] = Idle] /\ tried' = [tried EXCEPT ![w] = {}]
                /\ UNCHANGED crashed
           ELSE /\ tried' = [tried EXCEPT ![w] = @ \cup {s}]
                /\ crashed' = IF Cardinality(tried'[w]) < MaxDepth THEN "no" ELSE "stack"
                /\ UNCHANGED <<listening, work>>
      /\ UNCHANGED <<socket, silence, recvs, recvOwned, sessions, sweep>>

(* RegisterAccept: the session cannot be registered with the IOCP, so that *)
(* CreateSession returns nullptr, which is dereferenced.                   *)
NoSession(w) ==
  /\ At(w, "accept") /\ Free # {}
  /\ accept' = [accept EXCEPT ![work[w].event] = None]
  /\ crashed' = "session"
  /\ UNCHANGED <<allocated, listening, tried, socket, silence, recvs, recvOwned, sessions, sweep,
                 work>>

(* Bound: with no memory for a session the calls return, and the event     *)
(* waits until a worker can call RegisterAccept for it again.              *)
NoMemory(w) ==
  /\ At(w, "accept") /\ Free = {}
  /\ accept' = [accept EXCEPT ![work[w].event] = None]
  /\ work' = [work EXCEPT ![w] = Idle] /\ tried' = [tried EXCEPT ![w] = {}]
  /\ UNCHANGED <<allocated, listening, socket, silence, recvs, recvOwned, sessions, sweep, crashed>>

AcceptAgain(w, e) ==
  /\ At(w, "idle") /\ accept[e] = None /\ Free # {}
  /\ \A v \in Workers : work[v].event # e
  /\ work' = [work EXCEPT ![w] = [at |-> "accept", session |-> None, event |-> e]]
  /\ UNCHANGED <<allocated, listener, socket, silence, recvs, recvOwned, sessions, sweep, crashed>>

Reaccept(w) ==
  \/ NoSession(w) \/ NoMemory(w)
  \/ \E s \in Sessions, posted \in BOOLEAN : RegisterAccept(w, s, posted)

(* Service::_lock: SweepSessions holds it throughout.                      *)
LockFree == sweep.at = "asleep"

(* ProcessConnect: AddSession and OnConnected.                             *)
AddSession(w) ==
  /\ At(w, "add") /\ LockFree
  /\ sessions' = sessions \cup {work[w].session}
  /\ Goto(w, "arm")
  /\ UNCHANGED <<allocated, listener, socket, silence, recvs, recvOwned, sweep, crashed>>

-----------------------------------------------------------------------------
(* RegisterRecv, unless disconnected: the event takes a reference.         *)
Arm(w) ==
  LET s == work[w].session
  IN  /\ At(w, "arm")
      /\ IF connected[s] THEN recvOwned' = recvOwned \cup {s} /\ Goto(w, "post")
                         ELSE Done(w) /\ UNCHANGED recvOwned
      /\ UNCHANGED <<allocated, listener, socket, silence, recvs, sessions, sweep, crashed>>

Posted(w) ==
  /\ At(w, "post")
  /\ recvs' = [recvs EXCEPT ![work[w].session] = @ + 1]
  /\ UNCHANGED <<allocated, listener, socket, silence, recvOwned, sessions, sweep, crashed>>

(* Mutant of PostRecv: the reference is dropped whatever WSARecv returns.  *)
PostRecvAndDrop(w) == Posted(w) /\ Goto(w, "drop")

(* RegisterRecv: WSARecv is accepted.  Another worker may have its         *)
(* completion at once.                                                     *)
PostRecv(w) == Posted(w) /\ Done(w)

(* RegisterRecv: WSARecv fails, and HandleError disconnects on a reset.    *)
PostRecvFails(w, reset, works) ==
  /\ At(w, "post")
  /\ IF reset THEN Disconnect(work[w].session, works) ELSE UNCHANGED socket
  /\ Goto(w, "drop")
  /\ UNCHANGED <<allocated, listener, silence, recvs, recvOwned, sessions, sweep, crashed>>

(* RegisterRecv after a failure: the event drops its reference.            *)
DropRecv(w) ==
  /\ At(w, "drop")
  /\ recvOwned' = recvOwned \ {work[w].session}
  /\ Done(w)
  /\ UNCHANGED <<allocated, listener, socket, silence, recvs, sessions, sweep, crashed>>

(* The completion of a receive with `left` more receives posted: the event *)
(* drops its reference, the time is stamped, and without bytes (an end of  *)
(* stream, or an error) the session is disconnected.                       *)
Received(w, s, bytes, works, left) ==
  /\ At(w, "idle") /\ recvs[s] > 0
  /\ recvs' = [recvs EXCEPT ![s] = left]
  /\ recvOwned' = recvOwned \ {s}
  /\ silence' = [silence EXCEPT ![s] = 0]
  /\ IF bytes THEN /\ work' = [work EXCEPT ![w] = [at |-> "handle", session |-> s, event |-> None]]
                   /\ UNCHANGED socket
              ELSE Disconnect(s, works) /\ UNCHANGED work
  /\ UNCHANGED <<allocated, listener, sessions, sweep, crashed>>

(* Mutant of TakeRecv: the next receive is registered before the handlers. *)
TakeRecvAndRearm(w, s, bytes, works) == Received(w, s, bytes, works, recvs[s])

TakeRecv(w, s, bytes, works) == Received(w, s, bytes, works, recvs[s] - 1)

(* ProcessRecv: the packets are handled; a malformed packet, an exception  *)
(* or a full buffer disconnects.  The code returns at once after an        *)
(* overflow; RegisterRecv would then return as well.                       *)
EndHandle(w, fault, works) ==
  /\ At(w, "handle")
  /\ IF fault THEN Disconnect(work[w].session, works) ELSE UNCHANGED socket
  /\ Goto(w, "arm")
  /\ UNCHANGED <<allocated, listener, silence, recvs, recvOwned, sessions, sweep, crashed>>

(* Disconnect by the send path, another session's handler or a coroutine.  *)
DisconnectElsewhere(s, works) ==
  /\ s \in sessions /\ connected[s] /\ Up
  /\ Disconnect(s, works)
  /\ UNCHANGED <<allocated, listener, silence, recvs, recvOwned, sessions, sweep, work, crashed>>

(* The completion of a DisconnectEx: the event drops its reference, and    *)
(* OnDisconnected runs.                                                    *)
TakeDisconnect(w, s) ==
  /\ At(w, "idle") /\ closes[s] > 0
  /\ closes' = [closes EXCEPT ![s] = @ - 1]
  /\ work' = [work EXCEPT ![w] = [at |-> "release", session |-> s, event |-> None]]
  /\ UNCHANGED <<allocated, listener, connected, refused, silence, recvs, recvOwned, sessions,
                 sweep, crashed>>

(* Mutant of ReleaseSession: OnDisconnected runs, the list is forgotten.   *)
ReleaseNothing(w) ==
  /\ At(w, "release") /\ LockFree
  /\ Done(w)
  /\ UNCHANGED <<allocated, listener, socket, silence, recvs, recvOwned, sessions, sweep, crashed>>

(* ReleaseSession, with its assertion that the session was there.          *)
ReleaseSession(w) ==
  /\ At(w, "release") /\ LockFree
  /\ sessions' = sessions \ {work[w].session}
  /\ crashed' = IF work[w].session \in sessions THEN "no" ELSE "assert"
  /\ Done(w)
  /\ UNCHANGED <<allocated, listener, socket, silence, recvs, recvOwned, sweep>>

(* Somebody has a shared_ptr to the session.                               *)
Referenced(s) ==
  \/ s \in sessions \cup recvOwned \cup sweep.zombies
  \/ closes[s] > 0
  \/ \E e \in Accepts : accept[e] = s
  \/ \E w \in Workers : work[w].session = s \/ s \in tried[w]

(* The last reference is gone; one of a Player or of the send path may     *)
(* keep the object longer.                                                 *)
Destroy(s) ==
  /\ s \in allocated /\ ~Referenced(s) /\ Up
  /\ allocated' = allocated \ {s}
  /\ connected' = [connected EXCEPT ![s] = FALSE]
  /\ silence' = [silence EXCEPT ![s] = Never]
  /\ refused' = refused \ {s}
  /\ UNCHANGED <<listener, closes, recvs, recvOwned, sessions, sweep, work, crashed>>

-----------------------------------------------------------------------------
(* SweepSessions: the lock and the clock, a look at every session, a       *)
(* disconnection of each one found.                                        *)
SweepBegin ==
  /\ sweep.at = "asleep" /\ Up
  /\ sweep' = [NoSweep EXCEPT !.at = "look"]
  /\ UNCHANGED <<allocated, listener, socket, silence, recvs, recvOwned, sessions, work, crashed>>

(* Mutant of Expired: currentTick - lastTick > 60000, unsigned: a tick     *)
(* later than the clock makes the difference huge.                         *)
ExpiredBySubtraction(s) ==
  silence[s] # Never /\ (silence[s] - sweep.since > Timeout \/ silence[s] < sweep.since)

(* lastTick > 0 && currentTick > lastTick + 60000                          *)
Expired(s) == silence[s] # Never /\ silence[s] > sweep.since + Timeout

(* Nothing compares the ticks of two sessions, so they are read at once.   *)
SweepLook ==
  /\ sweep.at = "look" /\ Up
  /\ sweep' = [at |-> "kick", zombies |-> {s \in sessions : Expired(s)}, since |-> 0]
  /\ UNCHANGED <<allocated, listener, socket, silence, recvs, recvOwned, sessions, work, crashed>>

SweepKick(s, works) ==
  /\ s \in sweep.zombies /\ Up
  /\ Disconnect(s, works)
  /\ sweep' = [sweep EXCEPT !.zombies = @ \ {s}]
  /\ UNCHANGED <<allocated, listener, silence, recvs, recvOwned, sessions, work, crashed>>

SweepEnd ==
  /\ sweep.at = "kick" /\ sweep.zombies = {} /\ Up
  /\ sweep' = NoSweep
  /\ UNCHANGED <<allocated, listener, socket, silence, recvs, recvOwned, sessions, work, crashed>>

Sweeper == \/ SweepBegin \/ SweepLook \/ SweepEnd
           \/ \E s \in Sessions, works \in BOOLEAN : SweepKick(s, works)

(* Time passes.                                                            *)
Tick ==
  /\ sweep.since < MaxSweep /\ Up
  /\ silence' = [s \in Sessions |-> IF silence[s] \in {Never, Oldest} THEN silence[s]
                                    ELSE silence[s] + 1]
  /\ sweep' = IF sweep.at = "look" THEN [sweep EXCEPT !.since = @ + 1] ELSE sweep
  /\ UNCHANGED <<allocated, listener, socket, recvs, recvOwned, sessions, work, crashed>>

-----------------------------------------------------------------------------
(* What a worker does once it has a completion; the other steps need the   *)
(* lock.                                                                   *)
WorkerStep(w) ==
  \/ Arm(w) \/ PostRecv(w) \/ DropRecv(w) \/ Reaccept(w)
  \/ \E b, works \in BOOLEAN : PostRecvFails(w, b, works) \/ EndHandle(w, b, works)

LockStep(w) == AddSession(w) \/ ReleaseSession(w)

Next ==
  \/ \E w \in Workers :
       \/ WorkerStep(w) \/ LockStep(w)
       \/ \E e \in Accepts : AcceptAgain(w, e) \/ \E ok \in BOOLEAN : TakeAccept(w, e, ok)
       \/ \E s \in Sessions :
            TakeDisconnect(w, s) \/ \E bytes, works \in BOOLEAN : TakeRecv(w, s, bytes, works)
  \/ \E s \in Sessions : \/ Destroy(s)
                         \/ \E works \in BOOLEAN : DisconnectElsewhere(s, works)
  \/ Sweeper \/ Tick

Spec == Init /\ [][Next]_vars

(* The sweeper sweeps and time passes.  It sleeps a second between sweeps, *)
(* so that a thread that waits for the lock gets it.  Clients need not     *)
(* connect, send or hang up, and workers may be busy.                      *)
FairSpec == /\ Spec /\ WF_vars(Sweeper) /\ WF_vars(Tick)
            /\ \A w \in Workers : SF_vars(LockStep(w))

-----------------------------------------------------------------------------
(* The assertion in ReleaseSession never fails: a session is disconnected  *)
(* once, and not before it was added, whoever disconnects it and when.     *)
NoAssert == crashed # "assert"

(* ReleaseSession is called once for each session, because at most one     *)
(* disconnection of it, and one receive, is ever posted.                   *)
ReleasedOnce == TypeOK /\ NoAssert

InRecv(w) == work[w].at \in {"add", "arm", "post", "drop", "handle"}

(* The receive buffer and _recvEvent have no lock: one worker at a time    *)
(* handles a session's bytes or registers its next receive, and none while *)
(* a receive is posted (but for the one that posted it and is leaving).    *)
RecvExclusive ==
  \A w \in Workers : InRecv(w) =>
    /\ recvs[work[w].session] = 0
    /\ \A v \in Workers : InRecv(v) /\ work[v].session = work[w].session => v = w

(* A posted receive or disconnection keeps its session in memory: the      *)
(* OVERLAPPED of the operation is a member of the session.  And memory is  *)
(* given back only when no reference to it is left.                        *)
PostedIsHeld ==
  \A s \in Sessions : /\ recvs[s] > 0 => s \in recvOwned
                      /\ Referenced(s) => s \in allocated

(* As long as the process runs no accept event is lost: it is posted, or a *)
(* worker is about to post it again, with a session nobody else has (or    *)
(* there is no memory for one).  AcceptEx and SetUpdateAcceptSocket may    *)
(* fail; the process ends when a session cannot be registered, and when    *)
(* AcceptEx fails more often in a row than the stack has room for calls.   *)
ListenerKeepsAccepting == Up =>
  /\ \A e \in Accepts : \/ e \in listening \/ accept[e] = None
                       \/ \E w \in Workers : work[w].event = e
  /\ \A e \in listening :
       /\ accept[e] \in allocated \ sessions /\ ~connected[accept[e]]
       /\ \A d \in listening : accept[d] = accept[e] => d = e

(* The sweeper picks no session that was active within the time-out, even  *)
(* when a packet arrives after the sweeper has read the clock.             *)
SweeperSparesActive ==
  [][\A s \in Sessions : s \in sweep'.zombies \ sweep.zombies => silence[s] > Timeout]_vars

(* A connected session that stays silent is disconnected, also one whose   *)
(* receive could not be registered: the sweeper misses nobody, as long as  *)
(* the process runs.                                                       *)
SilentIsSwept ==
  \A s \in Sessions :
    connected[s] /\ silence[s] # 0 ~> ~connected[s] \/ silence[s] = 0 \/ ~Up

(* The disconnection of s was accepted and ReleaseSession is to come.      *)
Leaving(s) == closes[s] > 0 \/ \E w \in Workers : work[w].at = "release" /\ work[w].session = s

(* A session in the service's list is connected or about to leave it, but  *)
(* for those whose DisconnectEx failed at once.                            *)
ListedIsServed == \A s \in sessions : connected[s] \/ Leaving(s) \/ s \in refused

=============================================================================
