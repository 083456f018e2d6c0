------------------------ MODULE SessionLifecycleProofs ------------------------
(***************************************************************************)
(* Proofs about SessionLifecycle, for any sets of sessions, accept events  *)
(* and workers and any time-out.                                           *)
(*                                                                         *)
(* The argument.  _connected goes from true to false once in a session's   *)
(* life, in the list of the service, so at most one disconnection is       *)
(* posted and one worker releases the session.  A receive is posted or     *)
(* with one worker, so the worker that registers the next one is alone.    *)
(* Whatever refers to a session keeps it allocated, so a session that      *)
(* comes from free memory has none of this.                                *)
(***************************************************************************)
EXTENDS SessionLifecycle, TLAPS

(* A worker without a completion has neither session nor accept event; one *)
(* that runs ProcessAccept has both, and RegisterAccept needs the event.   *)
WorkShape ==
  \A w \in Workers :
    /\ work[w].at = "idle" => work[w].session = None /\ work[w].event = None
    /\ work[w].session = None => work[w].at \in {"idle", "accept"}
    /\ work[w].at \in {"add", "accept"} => work[w].event # None

(* An accept event is posted, waits for memory or is with one worker.      *)
EventsHaveOnePlace ==
  /\ \A e \in Accepts : \/ e \in listening \/ accept[e] = None
                       \/ \E w \in Workers : work[w].event = e
  /\ \A w \in Workers : work[w].event # None => work[w].event \notin listening
  /\ \A v, w \in Workers : work[v].event = work[w].event /\ work[w].event # None => v = w

(* The session of a posted accept event is unused.                         *)
AcceptedAreFresh ==
  \A e \in listening :
    /\ accept[e] \in allocated \ sessions
    /\ ~connected[accept[e]] /\ closes[accept[e]] = 0
    /\ recvs[accept[e]] = 0 /\ accept[e] \notin recvOwned
    /\ \A w \in Workers : work[w].session # accept[e]
    /\ \A d \in Accepts : accept[d] = accept[e] => d = e

(* Whoever posts a receive, or has seen it fail, has set the owner.        *)
OwnedWhilePosted ==
  /\ \A s \in Sessions : recvs[s] > 0 => s \in recvOwned
  /\ \A w \in Workers : work[w].at \in {"post", "drop"} => work[w].session \in recvOwned

(* A session is being added, connected, or on its way out: its DisconnectEx *)
(* is posted, or one worker runs OnDisconnected.                           *)
LifeIsOneWay ==
  /\ \A s \in Sessions :
       /\ connected[s] => /\ closes[s] = 0
                          /\ \/ s \in sessions
                             \/ \E w \in Workers : work[w].at = "add" /\ work[w].session = s
       /\ closes[s] > 0 => s \in sessions
  /\ \A w \in Workers : work[w].at = "add" =>
       connected[work[w].session] /\ work[w].session \notin sessions
  /\ \A w \in Workers : work[w].at = "release" =>
       /\ work[w].session \in sessions
       /\ ~connected[work[w].session] /\ closes[work[w].session] = 0
       /\ \A v \in Workers : work[v].at = "release" /\ work[v].session = work[w].session => v = w

(* The sweeper works on sessions in the list, and only under the lock.     *)
SweepUnderLock ==
  /\ sweep.zombies \subseteq sessions
  /\ sweep.at # "kick" => sweep.zombies = {}

(* The inductive invariant.                                                *)
Inv ==
  /\ TypeOK /\ WorkShape /\ EventsHaveOnePlace /\ AcceptedAreFresh /\ RecvExclusive
  /\ OwnedWhilePosted /\ PostedIsHeld /\ LifeIsOneWay /\ SweepUnderLock
  /\ NoAssert /\ ListedIsServed

(* After StartAccept nothing is connected or posted but the accepts.       *)
LEMMA InitInv == Init => Inv
<1> SUFFICES ASSUME Init PROVE Inv
  OBVIOUS
<1>1. TypeOK
  <2>1. /\ allocated \subseteq Sessions /\ accept \in [Accepts -> Sessions \cup {None}]
        /\ listening \subseteq Accepts
    BY DEF Init
  <2>2. /\ connected \in [Sessions -> BOOLEAN] /\ tried \in [Workers -> SUBSET Sessions]
        /\ crashed \in {"no", "assert", "session", "stack"}
    BY Zenon DEF Init
  <2>3. /\ silence \in [Sessions -> Never..Oldest]
        /\ recvs \in [Sessions -> 0..1] /\ closes \in [Sessions -> 0..1]
        /\ recvOwned \subseteq Sessions /\ refused \subseteq Sessions /\ sessions \subseteq Sessions
    BY TimeAssumption DEF Init, Never, Oldest
  <2>4. /\ sweep \in [at : {"asleep", "look", "kick"}, zombies : SUBSET Sessions,
                      since : 0..MaxSweep]
        /\ work \in [Workers -> [at : Places, session : Sessions \cup {None},
                                 event : Accepts \cup {None}]]
    BY TimeAssumption DEF Init, NoSweep, Idle, Places
  <2> QED
    BY <2>1, <2>2, <2>3, <2>4 DEF TypeOK
<1>2. WorkShape /\ EventsHaveOnePlace /\ AcceptedAreFresh
  BY ObjectsAssumption DEF Init, WorkShape, EventsHaveOnePlace, AcceptedAreFresh, Idle
<1>3. RecvExclusive /\ OwnedWhilePosted
  BY DEF Init, RecvExclusive, OwnedWhilePosted, InRecv, Idle
<1>4. LifeIsOneWay /\ SweepUnderLock /\ NoAssert /\ ListedIsServed
  BY DEF Init, LifeIsOneWay, SweepUnderLock, NoAssert, ListedIsServed, Idle, NoSweep
<1>5. PostedIsHeld
  <2>1. /\ \A s \in Sessions : /\ closes[s] = 0 /\ recvs[s] = 0
                              /\ s \notin sessions \cup recvOwned \cup sweep.zombies
        /\ \A w \in Workers : work[w].session = None /\ tried[w] = {}
        /\ \A e \in Accepts : accept[e] \in allocated
    BY DEF Init, Idle, NoSweep
  <2> SUFFICES ASSUME NEW s \in Sessions
               PROVE  ~(recvs[s] > 0) /\ (Referenced(s) => s \in allocated)
    BY DEF PostedIsHeld
  <2>2. ~(recvs[s] > 0) /\ ~(closes[s] > 0) /\ s # None
    BY <2>1, ObjectsAssumption
  <2> QED
    BY <2>1, <2>2 DEF Referenced
<1> QED
  BY <1>1, <1>2, <1>3, <1>4, <1>5 DEF Inv

(* Disconnect keeps the types: a connected session has no disconnection    *)
(* posted, so one is the most there can be.                                *)
LEMMA DisconnectTypes ==
  ASSUME Inv, NEW s \in Sessions, NEW works \in BOOLEAN, Disconnect(s, works)
  PROVE  /\ connected' \in [Sessions -> BOOLEAN]
         /\ closes' \in [Sessions -> 0..1]
         /\ refused' \subseteq Sessions
<1>1. connected' \in [Sessions -> BOOLEAN]
  BY DEF Inv, TypeOK, Disconnect, DisconnectIf, socket
<1>2. CASE connected[s]
  <2>1. closes[s] = 0
    BY <1>2 DEF Inv, LifeIsOneWay
  <2>2. closes' \in [Sessions -> 0..1]
    BY <1>2, <2>1 DEF Inv, TypeOK, Disconnect, DisconnectIf
  <2>3. refused' \subseteq Sessions
    BY <1>2 DEF Inv, TypeOK, Disconnect, DisconnectIf
  <2> QED
    BY <1>1, <2>2, <2>3
<1>3. CASE ~connected[s]
  BY <1>1, <1>3 DEF Inv, TypeOK, Disconnect, DisconnectIf, socket
<1> QED
  BY <1>2, <1>3

(* Goto moves one worker and leaves it its session and event.              *)
LEMMA GotoEffect ==
  ASSUME Inv, NEW w \in Workers, NEW place \in Places, Goto(w, place)
  PROVE  /\ \A v \in Workers \ {w} : work'[v] = work[v]
         /\ \A v \in Workers : work'[v].session = work[v].session /\ work'[v].event = work[v].event
         /\ work'[w].at = place
<1>1. work' = [work EXCEPT ![w] = [@ EXCEPT !.at = place]]
  BY DEF Goto
<1>2. DOMAIN work = Workers /\ DOMAIN work[w] = {"at", "session", "event"}
  BY DEF Inv, TypeOK
<1> QED
  BY <1>1, <1>2

(* Done: the worker is idle again, or goes on with RegisterAccept.         *)
LEMMA DoneEffect ==
  ASSUME Inv, NEW w \in Workers, Done(w)
  PROVE  /\ \A v \in Workers \ {w} : work'[v] = work[v]
         /\ work'[w].event = work[w].event
         /\ \/ work'[w].at = "idle" /\ work'[w].session = None /\ work[w].event = None
            \/ /\ work'[w].at = "accept" /\ work'[w].session = work[w].session
               /\ work[w].event # None
<1>1. DOMAIN work = Workers /\ DOMAIN work[w] = {"at", "session", "event"}
  BY DEF Inv, TypeOK
<1>2. CASE work[w].event = None
  BY <1>1, <1>2 DEF Done, Idle
<1>3. CASE work[w].event # None
  <2>1. work' = [work EXCEPT ![w] = [@ EXCEPT !.at = "accept"]]
    BY <1>3 DEF Done
  <2> QED
    BY <1>1, <1>3, <2>1
<1> QED
  BY <1>2, <1>3

(* Workers that neither add nor release a session do not touch its life.   *)
LEMMA WorkersLeaveLife ==
  ASSUME Inv, UNCHANGED <<connected, closes, sessions>>,
         \A v \in Workers : \/ work'[v] = work[v]
                            \/ /\ work[v].at \notin {"add", "release"}
                               /\ work'[v].at \notin {"add", "release"}
  PROVE  LifeIsOneWay'
<1>1. \A v \in Workers : work[v].at \in {"add", "release"} \/ work'[v].at \in {"add", "release"}
                         => work'[v] = work[v]
  OBVIOUS
<1> QED
  BY <1>1 DEF Inv, LifeIsOneWay

(* Disconnect of a session that is in the list if it is connected, by a    *)
(* worker or somebody else: nobody adds or releases it.                    *)
LEMMA DisconnectInLife ==
  ASSUME Inv, NEW s \in Sessions, NEW works \in BOOLEAN, Disconnect(s, works),
         connected[s] => s \in sessions, sessions' = sessions,
         \A v \in Workers : \/ work'[v] = work[v]
                            \/ /\ work[v].at \notin {"add", "release"}
                               /\ work'[v].at \notin {"add", "release"}
  PROVE  LifeIsOneWay'
<1>1. CASE connected[s]
  <2>1. \A v \in Workers : work[v].at \in {"add", "release"} => work[v].session # s
    BY <1>1 DEF Inv, LifeIsOneWay
  <2>2. /\ ~connected'[s] /\ \A r \in Sessions \ {s} : connected'[r] = connected[r]
        /\ \A r \in Sessions \ {s} : closes'[r] = closes[r]
    BY <1>1 DEF Inv, TypeOK, Disconnect, DisconnectIf
  <2>3. \A v \in Workers : work'[v].at \in {"add", "release"} =>
          work'[v] = work[v] /\ work[v].session \in Sessions \ {s}
    BY <2>1 DEF Inv, TypeOK, WorkShape
  <2>4. \A v \in Workers : work[v].at \in {"add", "release"} => work'[v] = work[v]
    OBVIOUS
  <2> QED
    BY <1>1, <2>2, <2>3, <2>4 DEF Inv, LifeIsOneWay
<1>2. CASE ~connected[s]
  BY <1>2 DEF Inv, LifeIsOneWay, Disconnect, DisconnectIf, socket
<1> QED
  BY <1>1, <1>2

(* The accept events stay where they are as long as their workers do.      *)
LEMMA EventsKept ==
  ASSUME Inv, accept' = accept, listening' = listening,
         \A v \in Workers : /\ work'[v].event = work[v].event
                            /\ work[v].event # None => work'[v].session = work[v].session
  PROVE  EventsHaveOnePlace'
BY DEF Inv, EventsHaveOnePlace

(* A step that changes no more than times and the sweeper.                 *)
LEMMA QuietStep ==
  ASSUME Inv, TypeOK', SweepUnderLock',
         UNCHANGED <<allocated, listener, socket, recvs, recvOwned, sessions, work,
           crashed>>
  PROVE  Inv'
<1>1. WorkShape' /\ EventsHaveOnePlace' /\ AcceptedAreFresh'
  BY DEF Inv, WorkShape, EventsHaveOnePlace, AcceptedAreFresh, socket, listener
<1>2. RecvExclusive' /\ OwnedWhilePosted'
  BY DEF Inv, RecvExclusive, InRecv, OwnedWhilePosted
<1>3. LifeIsOneWay' /\ NoAssert' /\ ListedIsServed'
  BY DEF Inv, LifeIsOneWay, NoAssert, ListedIsServed, Leaving, socket
<1>4. PostedIsHeld'
  BY DEF Inv, PostedIsHeld, Referenced, SweepUnderLock, socket, listener
<1> QED
  BY <1>1, <1>2, <1>3, <1>4 DEF Inv

-----------------------------------------------------------------------------

(* The session of the completed accept event was unused: its worker is the *)
(* first to refer to it.                                                   *)
LEMMA TakeAcceptInv ==
  ASSUME Inv, NEW w \in Workers, NEW e \in Accepts, NEW ok \in BOOLEAN, TakeAccept(w, e, ok)
  PROVE  Inv'
<1>1. TypeOK'
  BY TimeAssumption DEF Inv, TypeOK, Places, AcceptedAreFresh, Never, Oldest, TakeAccept, AcceptThen
<1>2. WorkShape' /\ EventsHaveOnePlace' /\ AcceptedAreFresh'
  BY ObjectsAssumption
     DEF Inv, TypeOK, WorkShape, EventsHaveOnePlace, AcceptedAreFresh, TakeAccept, AcceptThen, At
<1>3. RecvExclusive' /\ OwnedWhilePosted'
  BY DEF Inv, RecvExclusive, OwnedWhilePosted, InRecv, AcceptedAreFresh, TakeAccept, AcceptThen
<1>4. LifeIsOneWay' /\ SweepUnderLock' /\ NoAssert' /\ ListedIsServed'
  BY DEF Inv, TypeOK, LifeIsOneWay, SweepUnderLock, NoAssert, ListedIsServed, Leaving,
         AcceptedAreFresh, TakeAccept, AcceptThen, At
<1>5. PostedIsHeld'
  BY DEF Inv, PostedIsHeld, Referenced, TakeAccept, AcceptThen
<1> QED
  BY <1>1, <1>2, <1>3, <1>4, <1>5 DEF Inv

(* What is in free memory is unused, since nothing refers to it.           *)
LEMMA FreeIsUnused ==
  ASSUME Inv, NEW s \in Free
  PROVE  /\ s \in Sessions /\ s # None /\ s \notin sessions \cup recvOwned
         /\ ~connected[s] /\ closes[s] = 0 /\ recvs[s] = 0
         /\ \A v \in Workers : work[v].session # s
         /\ \A e \in Accepts : accept[e] # s
BY ObjectsAssumption DEF Inv, TypeOK, Free, PostedIsHeld, Referenced, LifeIsOneWay

(* Whoever is in RegisterAccept has an accept event that is not posted.    *)
LEMMA AcceptEvent ==
  ASSUME Inv, NEW w \in Workers, At(w, "accept")
  PROVE  work[w].event \in Accepts /\ work[w].event \notin listening
BY DEF Inv, TypeOK, WorkShape, EventsHaveOnePlace, At

(* A call of RegisterAccept that posts the event with a new session.       *)
LEMMA AcceptPostedInv ==
  ASSUME Inv, NEW w \in Workers, NEW s \in Sessions, RegisterAccept(w, s, TRUE)
  PROVE  Inv'
<1>1. At(w, "accept") /\ work[w].event \in Accepts /\ work[w].event \notin listening /\ s \in Free
  BY AcceptEvent DEF RegisterAccept
<1>2. /\ allocated' = allocated \cup {s} /\ accept' = [accept EXCEPT ![work[w].event] = s]
      /\ listening' = listening \cup {work[w].event}
      /\ work' = [work EXCEPT ![w] = Idle] /\ tried' = [tried EXCEPT ![w] = {}]
      /\ UNCHANGED <<connected, closes, refused, silence, recvs, recvOwned, sessions, sweep,
                     crashed>>
  BY DEF RegisterAccept, socket
<1>3. TypeOK'
  BY <1>1, <1>2 DEF Inv, TypeOK, Places, Idle
<1>4. WorkShape' /\ EventsHaveOnePlace'
  BY <1>1, <1>2 DEF Inv, TypeOK, WorkShape, EventsHaveOnePlace, Idle
<1>5. AcceptedAreFresh'
  <2>1. /\ accept'[work[w].event] = s
        /\ \A e \in Accepts \ {work[w].event} : accept'[e] = accept[e]
    BY <1>1, <1>2 DEF Inv, TypeOK
  <2>2. \A v \in Workers : work'[v].session \in {work[v].session, None}
    BY <1>2 DEF Inv, TypeOK, Idle
  <2>3. /\ s # None /\ s \notin sessions \cup recvOwned /\ ~connected[s] /\ closes[s] = 0
        /\ recvs[s] = 0 /\ \A v \in Workers : work[v].session # s
        /\ \A e \in Accepts : accept[e] # s
    BY <1>1, FreeIsUnused
  <2>4. \A e \in listening : accept[e] # None /\ e \in Accepts
    BY ObjectsAssumption DEF Inv, TypeOK, AcceptedAreFresh
  <2> QED
    BY <1>1, <1>2, <2>1, <2>2, <2>3, <2>4 DEF Inv, AcceptedAreFresh
<1>6. RecvExclusive' /\ OwnedWhilePosted'
  BY <1>2 DEF Inv, RecvExclusive, OwnedWhilePosted, InRecv, Idle
<1>7. LifeIsOneWay' /\ SweepUnderLock' /\ NoAssert' /\ ListedIsServed'
  BY <1>1, <1>2
     DEF Inv, LifeIsOneWay, SweepUnderLock, NoAssert, ListedIsServed, Leaving, At, Idle
<1>8. PostedIsHeld'
  BY <1>1, <1>2, ObjectsAssumption DEF Inv, TypeOK, PostedIsHeld, Referenced, Idle
<1> QED
  BY <1>3, <1>4, <1>5, <1>6, <1>7, <1>8 DEF Inv

(* A step in RegisterAccept that leaves the posted events as they are: a   *)
(* call that fails, has no session or has no memory.  Nobody looked at     *)
(* what accept said of the worker's event.                                 *)
LEMMA AcceptUnposted ==
  ASSUME Inv, TypeOK', NEW w \in Workers, At(w, "accept"), NEW s,
         s = None \/ s \in Free, allocated \subseteq allocated', s = None \/ s \in allocated',
         accept' = [accept EXCEPT ![work[w].event] = s],
         \A v \in Workers \ {w} : work'[v] = work[v] /\ tried'[v] = tried[v],
         work'[w] = work[w] \/ (work'[w] = Idle /\ s = None),
         \A r \in tried'[w] : r \in tried[w] \/ r = s,
         UNCHANGED <<listening, connected, closes, refused, recvs, recvOwned, sessions, sweep>>,
         crashed' # "assert"
  PROVE  Inv'
<1>1. work[w].event \in Accepts /\ work[w].event \notin listening
  BY AcceptEvent
<1>2. WorkShape'
  BY DEF Inv, TypeOK, WorkShape, Idle
<1>3. EventsHaveOnePlace'
  <2>1. \A e \in Accepts \ {work[w].event} : accept'[e] = accept[e]
    BY <1>1 DEF Inv, TypeOK
  <2>2. \A v \in Workers : work'[v].event \in {work[v].event, None}
    BY DEF Idle
  <2>3. work'[w].event = work[w].event \/ accept'[work[w].event] = None
    BY <1>1 DEF Inv, TypeOK
  <2>4. \A v \in Workers : v # w => work'[v].event = work[v].event
    OBVIOUS
  <2> QED
    BY <1>1, <2>1, <2>2, <2>3, <2>4 DEF Inv, EventsHaveOnePlace
<1>4. AcceptedAreFresh'
  <2>1. \A e \in listening : accept'[e] = accept[e] /\ accept[e] # s /\ accept[e] # None
    BY <1>1, FreeIsUnused, ObjectsAssumption DEF Inv, TypeOK, AcceptedAreFresh
  <2>2. \A v \in Workers : work'[v].session \in {work[v].session, None}
    BY DEF Idle
  <2>3. \A e \in Accepts : accept'[e] \in {accept[e], s}
    BY <1>1 DEF Inv, TypeOK
  <2> QED
    BY <2>1, <2>2, <2>3 DEF Inv, TypeOK, AcceptedAreFresh
<1>5. RecvExclusive' /\ OwnedWhilePosted'
  BY DEF Inv, RecvExclusive, OwnedWhilePosted, InRecv, Idle
<1>6. LifeIsOneWay' /\ ListedIsServed'
  BY DEF Inv, LifeIsOneWay, ListedIsServed, Leaving, At, Idle
<1>7. SweepUnderLock' /\ NoAssert'
  BY DEF Inv, SweepUnderLock, NoAssert
<1>8. PostedIsHeld'
  <2>1. \A r \in Sessions : recvs[r] > 0 => r \in recvOwned
    BY DEF Inv, PostedIsHeld
  <2> SUFFICES ASSUME NEW r \in Sessions, Referenced(r)' PROVE r \in allocated'
    BY <2>1 DEF PostedIsHeld
  <2>2. CASE r = s
    BY <2>2, ObjectsAssumption
  <2>3. CASE r # s
    <3>1. \A e \in Accepts : accept'[e] = r => accept[e] = r
      BY <1>1, <2>3 DEF Inv, TypeOK
    <3>2. \A v \in Workers : /\ work'[v].session = r => work[v].session = r
                             /\ r \in tried'[v] => r \in tried[v]
      BY <2>3, ObjectsAssumption DEF Idle
    <3>3. CASE r \in sessions' \cup recvOwned' \cup sweep'.zombies \/ closes'[r] > 0
      BY <3>3 DEF Inv, PostedIsHeld, Referenced
    <3>4. ASSUME NEW e \in Accepts, accept'[e] = r PROVE Referenced(r)
      BY <3>1, <3>4 DEF Referenced
    <3>5. ASSUME NEW v \in Workers, work'[v].session = r \/ r \in tried'[v] PROVE Referenced(r)
      BY <3>2, <3>5 DEF Referenced
    <3>6. Referenced(r) => r \in allocated'
      BY DEF Inv, PostedIsHeld
    <3> QED
      BY <3>3, <3>4, <3>5, <3>6 DEF Referenced
  <2> QED
    BY <2>2, <2>3
<1> QED
  BY <1>2, <1>3, <1>4, <1>5, <1>6, <1>7, <1>8 DEF Inv

(* RegisterAccept, with what may fail in it.                               *)
LEMMA ReacceptInv ==
  ASSUME Inv, NEW w \in Workers, Reaccept(w)
  PROVE  Inv'
<1>1. CASE NoSession(w)
  <2>1. TypeOK'
    BY <1>1 DEF Inv, TypeOK, NoSession, socket
  <2> QED
    BY <1>1, <2>1, AcceptUnposted DEF NoSession, socket
<1>2. CASE NoMemory(w)
  <2>1. TypeOK' /\ work'[w] = Idle /\ tried'[w] = {}
    BY <1>2 DEF Inv, TypeOK, NoMemory, Places, Idle, socket
  <2>2. /\ \A v \in Workers \ {w} : work'[v] = work[v] /\ tried'[v] = tried[v]
        /\ crashed' # "assert"
    BY <1>2 DEF Inv, TypeOK, NoMemory, NoAssert
  <2> QED
    BY <1>2, <2>1, <2>2, AcceptUnposted DEF NoMemory, socket
<1>3. ASSUME NEW s \in Sessions, RegisterAccept(w, s, FALSE)
      PROVE  Inv'
  <2>1. /\ At(w, "accept") /\ s \in Free /\ allocated' = allocated \cup {s}
        /\ accept' = [accept EXCEPT ![work[w].event] = s]
        /\ tried' = [tried EXCEPT ![w] = @ \cup {s}]
        /\ UNCHANGED <<listening, connected, closes, refused, silence, recvs, recvOwned, sessions,
                       sweep, work>>
    BY <1>3 DEF RegisterAccept, socket
  <2>2. crashed' \in {"no", "stack"}
    BY <1>3, Zenon DEF RegisterAccept
  <2>3. TypeOK'
    BY <2>1, <2>2 DEF Inv, TypeOK
  <2>4. /\ \A v \in Workers \ {w} : tried'[v] = tried[v] /\ work'[v] = work[v]
        /\ \A r \in tried'[w] : r \in tried[w] \/ r = s
        /\ s \in allocated' /\ crashed' # "assert" /\ work'[w] = work[w]
    BY <2>1, <2>2 DEF Inv, TypeOK
  <2>5. \A v \in Workers : work'[v] = work[v]
    BY <2>1
  <2> QED
    BY <2>1, <2>3, <2>4, <2>5, AcceptUnposted
<1> QED
  BY <1>1, <1>2, <1>3, AcceptPostedInv DEF Reaccept

(* A worker takes up an accept event that waited for memory.               *)
LEMMA AcceptAgainInv ==
  ASSUME Inv, NEW w \in Workers, NEW e \in Accepts, AcceptAgain(w, e)
  PROVE  Inv'
<1>1. TypeOK'
  BY DEF Inv, TypeOK, Places, AcceptAgain, listener, socket
<1>2. WorkShape' /\ EventsHaveOnePlace' /\ AcceptedAreFresh'
  <2>1. /\ At(w, "idle") /\ work'[w] = [at |-> "accept", session |-> None, event |-> e]
        /\ \A v \in Workers \ {w} : work'[v] = work[v]
        /\ UNCHANGED <<allocated, accept, listening, connected, closes, recvs, recvOwned, sessions>>
    BY DEF Inv, TypeOK, AcceptAgain, listener, socket
  <2>2. accept[e] = None /\ e \notin listening /\ e # None /\ \A v \in Workers : work[v].event # e
    BY ObjectsAssumption DEF Inv, TypeOK, AcceptAgain, AcceptedAreFresh
  <2>3. WorkShape'
    BY <2>1, <2>2 DEF Inv, WorkShape
  <2>4. EventsHaveOnePlace'
    BY <2>1, <2>2, ObjectsAssumption DEF Inv, EventsHaveOnePlace, WorkShape, At
  <2>5. AcceptedAreFresh'
    BY <2>1, ObjectsAssumption DEF Inv, TypeOK, AcceptedAreFresh
  <2> QED
    BY <2>3, <2>4, <2>5
<1>3. RecvExclusive' /\ OwnedWhilePosted'
  BY DEF Inv, RecvExclusive, OwnedWhilePosted, InRecv, AcceptAgain
<1>4. LifeIsOneWay' /\ SweepUnderLock' /\ NoAssert' /\ ListedIsServed'
  BY DEF Inv, LifeIsOneWay, SweepUnderLock, NoAssert, ListedIsServed, Leaving, AcceptAgain, At,
         socket
<1>5. PostedIsHeld'
  BY ObjectsAssumption DEF Inv, PostedIsHeld, Referenced, AcceptAgain, listener, socket
<1> QED
  BY <1>1, <1>2, <1>3, <1>4, <1>5 DEF Inv

(* The session enters the list connected; the sweeper holds no lock.       *)
LEMMA AddSessionInv ==
  ASSUME Inv, NEW w \in Workers, AddSession(w)
  PROVE  Inv'
<1>1. TypeOK'
  BY DEF Inv, TypeOK, Places, WorkShape, AddSession, At, Goto, socket, listener
<1>2. WorkShape' /\ EventsHaveOnePlace' /\ AcceptedAreFresh'
  BY DEF Inv, WorkShape, EventsHaveOnePlace, AcceptedAreFresh, AddSession, At, Goto, socket,
         listener
<1>3. RecvExclusive' /\ OwnedWhilePosted'
  BY DEF Inv, RecvExclusive, OwnedWhilePosted, InRecv, AddSession, At, Goto
<1>4. LifeIsOneWay' /\ SweepUnderLock' /\ NoAssert' /\ ListedIsServed'
  BY DEF Inv, TypeOK, LifeIsOneWay, SweepUnderLock, NoAssert, ListedIsServed, Leaving,
         RecvExclusive, InRecv, AddSession, At, Goto, socket, listener
<1>5. PostedIsHeld'
  BY DEF Inv, PostedIsHeld, Referenced, AddSession, Goto, socket, listener
<1> QED
  BY <1>1, <1>2, <1>3, <1>4, <1>5 DEF Inv

(* The worker is the only one with the session's receive.                  *)
LEMMA ArmInv ==
  ASSUME Inv, NEW w \in Workers, Arm(w)
  PROVE  Inv'
<1>1. work[w].at = "arm" /\ work[w].session \in Sessions /\ recvs[work[w].session] = 0
  BY DEF Inv, TypeOK, WorkShape, RecvExclusive, InRecv, Arm, At, listener
<1>2. TypeOK'
  <2>1. CASE connected[work[w].session]
    BY <1>1, <2>1 DEF Inv, TypeOK, Places, Arm, Goto, socket, listener
  <2>2. CASE ~connected[work[w].session]
    BY <1>1, <2>2 DEF Inv, TypeOK, Places, Arm, Done, Idle, socket, listener
  <2> QED
    BY <2>1, <2>2
<1>3. CASE connected[work[w].session]
  <2>1. /\ \A v \in Workers \ {w} : work'[v] = work[v]
        /\ \A v \in Workers : work'[v].session = work[v].session /\ work'[v].event = work[v].event
        /\ work'[w].at = "post"
    BY <1>1, <1>3, GotoEffect DEF Arm, Places, listener
  <2>2. WorkShape' /\ EventsHaveOnePlace' /\ AcceptedAreFresh'
    <3>1. WorkShape'
      BY <1>1, <2>1 DEF Inv, WorkShape
    <3>2. EventsHaveOnePlace'
      BY <2>1, EventsKept DEF Arm, listener
    <3>3. AcceptedAreFresh'
      BY <1>3, <2>1 DEF Inv, TypeOK, AcceptedAreFresh, Arm, socket, listener
    <3> QED
      BY <3>1, <3>2, <3>3
  <2>3. RecvExclusive' /\ OwnedWhilePosted'
    <3>1. \A v \in Workers : InRecv(v)' <=> InRecv(v)
      BY <1>1, <2>1 DEF InRecv
    <3>2. RecvExclusive'
      BY <2>1, <3>1 DEF Inv, RecvExclusive, Arm, listener
    <3>3. OwnedWhilePosted'
      BY <1>1, <1>3, <2>1 DEF Inv, OwnedWhilePosted, Arm, listener
    <3> QED
      BY <3>2, <3>3
  <2>4. LifeIsOneWay' /\ SweepUnderLock' /\ NoAssert'
    BY <1>1, <2>1, WorkersLeaveLife DEF Inv, SweepUnderLock, NoAssert, Arm, socket, listener
  <2>5. ListedIsServed'
    <3>1. \A v \in Workers : work[v].at = "release" => work'[v] = work[v]
      BY <1>1, <2>1
    <3> QED
      BY <3>1 DEF Inv, ListedIsServed, Leaving, Arm, socket, listener
  <2>6. PostedIsHeld'
    <3>1. work[w].session \in allocated
      BY <1>1 DEF Inv, PostedIsHeld, Referenced
    <3> QED
      BY <1>1, <1>3, <2>1, <3>1 DEF Inv, PostedIsHeld, Referenced, Arm, socket, listener
  <2> QED
    BY <1>2, <2>2, <2>3, <2>4, <2>5, <2>6 DEF Inv
<1>4. CASE ~connected[work[w].session]
  <2>1. /\ \A v \in Workers \ {w} : work'[v] = work[v]
        /\ work'[w].event = work[w].event
        /\ \/ work'[w].at = "idle" /\ work'[w].session = None /\ work[w].event = None
           \/ /\ work'[w].at = "accept" /\ work'[w].session = work[w].session
              /\ work[w].event # None
    BY <1>1, <1>4, DoneEffect DEF Arm, listener
  <2>2. WorkShape' /\ EventsHaveOnePlace' /\ AcceptedAreFresh'
    <3>1. WorkShape'
      BY <1>1, <2>1, ObjectsAssumption DEF Inv, WorkShape
    <3>2. EventsHaveOnePlace'
      BY <1>4, <2>1, EventsKept DEF Arm, listener
    <3>3. AcceptedAreFresh'
      BY <1>4, <2>1, ObjectsAssumption DEF Inv, TypeOK, AcceptedAreFresh, Arm, socket, listener
    <3> QED
      BY <3>1, <3>2, <3>3
  <2>3. RecvExclusive' /\ OwnedWhilePosted'
    <3>1. \A v \in Workers : InRecv(v)' => InRecv(v) /\ work'[v] = work[v]
      BY <2>1 DEF InRecv
    <3>2. RecvExclusive'
      BY <3>1 DEF Inv, RecvExclusive, Arm, listener
    <3>3. OwnedWhilePosted'
      BY <1>4, <2>1 DEF Inv, OwnedWhilePosted, Arm, listener
    <3> QED
      BY <3>2, <3>3
  <2>4. LifeIsOneWay' /\ SweepUnderLock' /\ NoAssert'
    BY <1>1, <1>4, <2>1, WorkersLeaveLife DEF Inv, SweepUnderLock, NoAssert, Arm, socket, listener
  <2>5. ListedIsServed'
    <3>1. \A v \in Workers : work[v].at = "release" => work'[v] = work[v]
      BY <1>1, <2>1
    <3> QED
      BY <1>4, <3>1 DEF Inv, ListedIsServed, Leaving, Arm, socket, listener
  <2>6. PostedIsHeld'
    BY <1>4, <2>1, ObjectsAssumption DEF Inv, PostedIsHeld, Referenced, Arm, socket, listener
  <2> QED
    BY <1>2, <2>2, <2>3, <2>4, <2>5, <2>6 DEF Inv
<1> QED
  BY <1>3, <1>4

(* The worker hands its right to receive to the posted receive.            *)
LEMMA PostRecvInv ==
  ASSUME Inv, NEW w \in Workers, PostRecv(w)
  PROVE  Inv'
<1>1. TypeOK'
  BY DEF Inv, TypeOK, Places, RecvExclusive, InRecv, WorkShape, PostRecv, Posted, At, Done, Idle,
         socket, listener
<1>2. WorkShape' /\ EventsHaveOnePlace' /\ AcceptedAreFresh'
  BY ObjectsAssumption
     DEF Inv, TypeOK, WorkShape, EventsHaveOnePlace, AcceptedAreFresh, PostRecv, Posted, Done,
         Idle, socket, listener
<1>3. RecvExclusive' /\ OwnedWhilePosted'
  BY DEF Inv, TypeOK, RecvExclusive, OwnedWhilePosted, InRecv, PostRecv, Posted, At, Done, Idle
<1>4. LifeIsOneWay' /\ SweepUnderLock' /\ NoAssert' /\ ListedIsServed'
  BY DEF Inv, LifeIsOneWay, SweepUnderLock, NoAssert, ListedIsServed, Leaving, PostRecv, Posted,
         At, Done, Idle, socket, listener
<1>5. PostedIsHeld'
  BY ObjectsAssumption
     DEF Inv, PostedIsHeld, Referenced, OwnedWhilePosted, PostRecv, Posted, At, Done, Idle,
         socket, listener
<1> QED
  BY <1>1, <1>2, <1>3, <1>4, <1>5 DEF Inv

(* Only a session in the list is disconnected, since its worker is not     *)
(* adding it.                                                              *)
LEMMA PostRecvFailsInv ==
  ASSUME Inv, NEW w \in Workers, NEW b \in BOOLEAN, NEW works \in BOOLEAN, PostRecvFails(w, b,
         works)
  PROVE  Inv'
<1>1. TypeOK'
  <2>1. work[w].session \in Sessions
    BY DEF Inv, TypeOK, WorkShape, PostRecvFails, At, listener
  <2>2. /\ connected' \in [Sessions -> BOOLEAN] /\ closes' \in [Sessions -> 0..1]
        /\ refused' \subseteq Sessions
    BY <2>1, DisconnectTypes DEF Inv, TypeOK, PostRecvFails, socket, listener
  <2> QED
    BY <2>1, <2>2 DEF Inv, TypeOK, Places, PostRecvFails, Goto, listener
<1>2. WorkShape' /\ EventsHaveOnePlace' /\ AcceptedAreFresh'
  BY DEF Inv, TypeOK, WorkShape, EventsHaveOnePlace, AcceptedAreFresh, PostRecvFails, At, Goto,
         Disconnect, DisconnectIf, socket, listener
<1>3. RecvExclusive' /\ OwnedWhilePosted'
  BY DEF Inv, RecvExclusive, OwnedWhilePosted, InRecv, PostRecvFails, At, Goto
<1>4. LifeIsOneWay' /\ SweepUnderLock' /\ NoAssert' /\ ListedIsServed'
  <2>1. work[w].at = "post" /\ work[w].session \in Sessions /\ InRecv(w)
    BY DEF Inv, TypeOK, WorkShape, InRecv, PostRecvFails, At, listener
  <2>2. connected[work[w].session] => work[w].session \in sessions
    BY <2>1 DEF Inv, LifeIsOneWay, RecvExclusive, InRecv
  <2>3. LifeIsOneWay' /\ SweepUnderLock' /\ NoAssert'
    <3>1. CASE b
      <4>1. work'[w].at = "drop" /\ \A v \in Workers \ {w} : work'[v] = work[v]
        BY GotoEffect DEF PostRecvFails, Places, listener
      <4>2. LifeIsOneWay'
        BY <2>1, <2>2, <3>1, <4>1, DisconnectInLife DEF PostRecvFails, listener
      <4> QED
        BY <4>2 DEF Inv, SweepUnderLock, NoAssert, PostRecvFails, listener
    <3>2. CASE ~b
      BY <2>1, <3>2 DEF Inv, LifeIsOneWay, SweepUnderLock, NoAssert, PostRecvFails, Goto, socket,
             listener
    <3> QED
      BY <3>1, <3>2
  <2>4. ListedIsServed'
    BY <2>1
       DEF Inv, TypeOK, ListedIsServed, Leaving, PostRecvFails, Goto, Disconnect, DisconnectIf,
           socket, listener
  <2> QED
    BY <2>3, <2>4
<1>5. PostedIsHeld'
  BY DEF Inv, TypeOK, PostedIsHeld, Referenced, PostRecvFails, Goto, Disconnect, DisconnectIf,
         socket, listener
<1> QED
  BY <1>1, <1>2, <1>3, <1>4, <1>5 DEF Inv

(* No receive is posted while a worker has failed to post one.             *)
LEMMA DropRecvInv ==
  ASSUME Inv, NEW w \in Workers, DropRecv(w)
  PROVE  Inv'
<1>1. TypeOK'
  BY DEF Inv, TypeOK, Places, DropRecv, Done, Idle, socket, listener
<1>2. WorkShape' /\ EventsHaveOnePlace' /\ AcceptedAreFresh'
  BY ObjectsAssumption
     DEF Inv, TypeOK, WorkShape, EventsHaveOnePlace, AcceptedAreFresh, DropRecv, Done, Idle,
         socket, listener
<1>3. RecvExclusive' /\ OwnedWhilePosted'
  BY DEF Inv, TypeOK, RecvExclusive, OwnedWhilePosted, InRecv, DropRecv, At, Done, Idle
<1>4. LifeIsOneWay' /\ SweepUnderLock' /\ NoAssert' /\ ListedIsServed'
  BY DEF Inv, LifeIsOneWay, SweepUnderLock, NoAssert, ListedIsServed, Leaving, DropRecv, At, Done,
         Idle, socket, listener
<1>5. PostedIsHeld'
  <2>1. recvs[work[w].session] = 0 /\ At(w, "drop")
    BY DEF Inv, RecvExclusive, InRecv, DropRecv, At
  <2> QED
    BY <2>1, ObjectsAssumption DEF Inv, PostedIsHeld, Referenced, DropRecv, Done, Idle, socket,
           listener
<1> QED
  BY <1>1, <1>2, <1>3, <1>4, <1>5 DEF Inv

(* The completion gives the right to receive to its worker, or to nobody.  *)
LEMMA TakeRecvInv ==
  ASSUME Inv, NEW w \in Workers, NEW s \in Sessions, NEW bytes \in BOOLEAN, NEW works \in BOOLEAN,
         TakeRecv(w, s, bytes, works)
  PROVE  Inv'
<1>1. /\ recvs[s] = 1 /\ At(w, "idle")
      /\ \A v \in Workers : InRecv(v) => work[v].session # s
  BY DEF Inv, TypeOK, RecvExclusive, TakeRecv, Received, listener
<1>2. CASE bytes
  <2>1. TypeOK'
    BY <1>1, <1>2, TimeAssumption
       DEF Inv, TypeOK, Places, TakeRecv, Received, socket, Never, Oldest, listener
  <2>2. WorkShape' /\ AcceptedAreFresh'
    <3>1. /\ work'[w] = [at |-> "handle", session |-> s, event |-> None]
          /\ \A v \in Workers \ {w} : work'[v] = work[v]
          /\ \A r \in Sessions \ {s} : recvs'[r] = recvs[r]
          /\ recvOwned' = recvOwned \ {s}
          /\ UNCHANGED <<allocated, accept, listening, connected, closes, sessions>>
      BY <1>2 DEF Inv, TypeOK, TakeRecv, Received, socket, listener
    <3>2. WorkShape'
      BY <3>1, ObjectsAssumption DEF Inv, WorkShape
    <3>3. \A e \in listening : accept[e] # s /\ accept[e] \in Sessions
      BY <1>1 DEF Inv, TypeOK, AcceptedAreFresh
    <3>4. AcceptedAreFresh'
      BY <3>1, <3>3 DEF Inv, AcceptedAreFresh
    <3> QED
      BY <3>2, <3>4
  <2>3. EventsHaveOnePlace'
    BY <1>1, <1>2, EventsKept DEF Inv, TypeOK, WorkShape, TakeRecv, Received, At, listener
  <2>4. RecvExclusive' /\ OwnedWhilePosted'
    <3>1. RecvExclusive'
      <4>1. /\ work'[w] = [at |-> "handle", session |-> s, event |-> None]
            /\ \A v \in Workers \ {w} : work'[v] = work[v]
            /\ recvs'[s] = 0 /\ \A r \in Sessions \ {s} : recvs'[r] = recvs[r]
        BY <1>1, <1>2 DEF Inv, TypeOK, TakeRecv, Received
      <4>2. \A v \in Workers : InRecv(v) => work[v].session \in Sessions \ {s}
        BY <1>1 DEF Inv, TypeOK, WorkShape, InRecv
      <4> QED
        BY <4>1, <4>2 DEF Inv, RecvExclusive, InRecv
    <3>2. OwnedWhilePosted'
      BY <1>1, <1>2 DEF Inv, TypeOK, OwnedWhilePosted, InRecv, TakeRecv, Received, listener
    <3> QED
      BY <3>1, <3>2
  <2>5. LifeIsOneWay' /\ SweepUnderLock' /\ NoAssert'
    <3>1. work'[w].at = "handle" /\ \A v \in Workers \ {w} : work'[v] = work[v]
      BY <1>2 DEF Inv, TypeOK, TakeRecv, Received, listener
    <3>2. work[w].at = "idle"
      BY <1>1 DEF At
    <3> QED
      BY <1>2, <3>1, <3>2, WorkersLeaveLife
         DEF Inv, SweepUnderLock, NoAssert, TakeRecv, Received, socket, listener
  <2>6. ListedIsServed'
    BY <1>1, <1>2 DEF Inv, TypeOK, ListedIsServed, Leaving, TakeRecv, Received, socket, At,
           listener
  <2>7. PostedIsHeld'
    BY <1>1, <1>2
       DEF Inv, TypeOK, PostedIsHeld, Referenced, OwnedWhilePosted, TakeRecv, Received, socket,
           At, listener
  <2> QED
    BY <2>1, <2>2, <2>3, <2>4, <2>5, <2>6, <2>7 DEF Inv
<1>3. CASE ~bytes
  <2>1. TypeOK'
    BY <1>1, <1>3, DisconnectTypes, TimeAssumption
       DEF Inv, TypeOK, TakeRecv, Received, Never, Oldest, listener
  <2>2. WorkShape' /\ AcceptedAreFresh'
    BY <1>1, <1>3
       DEF Inv, TypeOK, WorkShape, AcceptedAreFresh, TakeRecv, Received, Disconnect, DisconnectIf,
           socket, listener
  <2>3. EventsHaveOnePlace'
    BY <1>1, <1>3 DEF Inv, EventsHaveOnePlace, TakeRecv, Received, listener
  <2>4. RecvExclusive' /\ OwnedWhilePosted'
    BY <1>1, <1>3 DEF Inv, TypeOK, RecvExclusive, OwnedWhilePosted, InRecv, TakeRecv, Received
  <2>5. LifeIsOneWay' /\ SweepUnderLock' /\ NoAssert'
    <3>1. connected[s] => s \in sessions
      BY <1>1 DEF Inv, LifeIsOneWay, InRecv
    <3>2. LifeIsOneWay'
      BY <1>3, <3>1, DisconnectInLife DEF TakeRecv, Received, listener
    <3> QED
      BY <3>2 DEF Inv, SweepUnderLock, NoAssert, TakeRecv, Received, listener
  <2>6. ListedIsServed'
    BY <1>1, <1>3
       DEF Inv, TypeOK, ListedIsServed, Leaving, TakeRecv, Received, Disconnect, DisconnectIf,
           socket, listener
  <2>7. PostedIsHeld'
    BY <1>1, <1>3
       DEF Inv, TypeOK, PostedIsHeld, Referenced, TakeRecv, Received, Disconnect, DisconnectIf,
           socket, listener
  <2> QED
    BY <2>1, <2>2, <2>3, <2>4, <2>5, <2>6, <2>7 DEF Inv
<1> QED
  BY <1>2, <1>3

(* The worker keeps the right to receive; a session it disconnects is in   *)
(* the list.                                                               *)
LEMMA EndHandleInv ==
  ASSUME Inv, NEW w \in Workers, NEW b \in BOOLEAN, NEW works \in BOOLEAN, EndHandle(w, b, works)
  PROVE  Inv'
<1>1. TypeOK'
  <2>1. work[w].session \in Sessions
    BY DEF Inv, TypeOK, WorkShape, EndHandle, At, listener
  <2>2. /\ connected' \in [Sessions -> BOOLEAN] /\ closes' \in [Sessions -> 0..1]
        /\ refused' \subseteq Sessions
    BY <2>1, DisconnectTypes DEF Inv, TypeOK, EndHandle, socket, listener
  <2> QED
    BY <2>1, <2>2 DEF Inv, TypeOK, Places, EndHandle, Goto, listener
<1>2. WorkShape' /\ EventsHaveOnePlace' /\ AcceptedAreFresh'
  BY DEF Inv, TypeOK, WorkShape, EventsHaveOnePlace, AcceptedAreFresh, EndHandle, At, Goto,
         Disconnect, DisconnectIf, socket, listener
<1>3. RecvExclusive' /\ OwnedWhilePosted'
  BY DEF Inv, RecvExclusive, OwnedWhilePosted, InRecv, EndHandle, At, Goto
<1>4. LifeIsOneWay' /\ SweepUnderLock' /\ NoAssert' /\ ListedIsServed'
  <2>1. /\ At(w, "handle") /\ work[w].session \in Sessions
        /\ connected[work[w].session] => work[w].session \in sessions
    BY DEF Inv, TypeOK, WorkShape, EndHandle, At, LifeIsOneWay, RecvExclusive, InRecv
  <2>2. work'[w].at = "arm" /\ \A v \in Workers \ {w} : work'[v] = work[v]
    BY GotoEffect DEF EndHandle, Places
  <2>3. LifeIsOneWay'
    <3>1. CASE b
      BY <2>1, <2>2, <3>1, DisconnectInLife DEF EndHandle, At
    <3>2. CASE ~b
      BY <2>1, <2>2, <3>2, WorkersLeaveLife DEF EndHandle, At, socket
    <3> QED
      BY <3>1, <3>2
  <2>4. ListedIsServed'
    <3>1. \A v \in Workers : work[v].at = "release" => work'[v] = work[v]
      BY <2>1, <2>2 DEF At
    <3>2. CASE b /\ connected[work[w].session]
      <4> DEFINE s == work[w].session
      <4>1. closes[s] = 0
        BY <2>1, <3>2 DEF Inv, LifeIsOneWay
      <4>2. /\ \A r \in Sessions \ {s} : connected'[r] = connected[r] /\ closes'[r] = closes[r]
            /\ closes'[s] > 0 \/ s \in refused'
            /\ refused \subseteq refused' /\ sessions \subseteq Sessions /\ sessions' = sessions
        BY <2>1, <3>2, <4>1 DEF Inv, TypeOK, EndHandle, Disconnect, DisconnectIf
      <4> HIDE DEF s
      <4> QED
        BY <3>1, <4>2 DEF Inv, ListedIsServed, Leaving
    <3>3. CASE ~(b /\ connected[work[w].session])
      BY <3>1, <3>3 DEF Inv, ListedIsServed, Leaving, EndHandle, Disconnect, DisconnectIf, socket
    <3> QED
      BY <3>2, <3>3
  <2> QED
    BY <2>3, <2>4 DEF Inv, SweepUnderLock, NoAssert, EndHandle
<1>5. PostedIsHeld'
  BY DEF Inv, TypeOK, PostedIsHeld, Referenced, EndHandle, Goto, Disconnect, DisconnectIf, socket,
         listener
<1> QED
  BY <1>1, <1>2, <1>3, <1>4, <1>5 DEF Inv

(* A session in the list that is connected has no disconnection yet.       *)
LEMMA DisconnectElsewhereInv ==
  ASSUME Inv, NEW s \in Sessions, NEW works \in BOOLEAN, DisconnectElsewhere(s, works)
  PROVE  Inv'
<1>1. TypeOK'
  BY DisconnectTypes DEF Inv, TypeOK, DisconnectElsewhere, listener
<1>2. WorkShape' /\ EventsHaveOnePlace' /\ AcceptedAreFresh'
  BY DEF Inv, TypeOK, WorkShape, EventsHaveOnePlace, AcceptedAreFresh, DisconnectElsewhere,
         Disconnect, DisconnectIf, listener
<1>3. RecvExclusive' /\ OwnedWhilePosted'
  BY DEF Inv, RecvExclusive, OwnedWhilePosted, InRecv, DisconnectElsewhere
<1>4. LifeIsOneWay' /\ SweepUnderLock' /\ NoAssert' /\ ListedIsServed'
  <2>1. LifeIsOneWay'
    BY DisconnectInLife DEF DisconnectElsewhere
  <2>2. ListedIsServed'
    <3>1. connected[s] /\ closes[s] = 0
      BY DEF Inv, LifeIsOneWay, DisconnectElsewhere
    <3>2. /\ \A r \in Sessions \ {s} : connected'[r] = connected[r] /\ closes'[r] = closes[r]
          /\ closes'[s] > 0 \/ s \in refused'
          /\ refused \subseteq refused' /\ sessions \subseteq Sessions
          /\ UNCHANGED <<sessions, work>>
      BY <3>1 DEF Inv, TypeOK, DisconnectElsewhere, Disconnect, DisconnectIf
    <3> QED
      BY <3>2 DEF Inv, ListedIsServed, Leaving
  <2> QED
    BY <2>1, <2>2 DEF Inv, SweepUnderLock, NoAssert, DisconnectElsewhere
<1>5. PostedIsHeld'
  BY DEF Inv, TypeOK, PostedIsHeld, Referenced, DisconnectElsewhere, Disconnect, DisconnectIf,
         listener
<1> QED
  BY <1>1, <1>2, <1>3, <1>4, <1>5 DEF Inv

(* The only disconnection of the session goes to one worker.               *)
LEMMA TakeDisconnectInv ==
  ASSUME Inv, NEW w \in Workers, NEW s \in Sessions, TakeDisconnect(w, s)
  PROVE  Inv'
<1>1. TypeOK'
  BY DEF Inv, TypeOK, Places, TakeDisconnect, listener
<1>2. WorkShape' /\ EventsHaveOnePlace' /\ AcceptedAreFresh'
  BY ObjectsAssumption DEF Inv, WorkShape, EventsHaveOnePlace, AcceptedAreFresh, TakeDisconnect,
         At, listener
<1>3. RecvExclusive' /\ OwnedWhilePosted'
  BY DEF Inv, RecvExclusive, OwnedWhilePosted, InRecv, TakeDisconnect
<1>4. LifeIsOneWay' /\ SweepUnderLock' /\ NoAssert' /\ ListedIsServed'
  BY DEF Inv, TypeOK, LifeIsOneWay, SweepUnderLock, NoAssert, ListedIsServed, Leaving,
         TakeDisconnect, At, listener
<1>5. PostedIsHeld'
  BY DEF Inv, PostedIsHeld, Referenced, TakeDisconnect, listener
<1> QED
  BY <1>1, <1>2, <1>3, <1>4, <1>5 DEF Inv

(* The session is in the list, and no disconnection is left that would     *)
(* release it again.                                                       *)
LEMMA ReleaseSessionInv ==
  ASSUME Inv, NEW w \in Workers, ReleaseSession(w)
  PROVE  Inv'
<1>1. TypeOK'
  BY DEF Inv, TypeOK, Places, ReleaseSession, Done, Idle, socket, listener
<1>2. WorkShape' /\ EventsHaveOnePlace' /\ AcceptedAreFresh'
  BY ObjectsAssumption
     DEF Inv, TypeOK, WorkShape, EventsHaveOnePlace, AcceptedAreFresh, ReleaseSession, Done, Idle,
         socket, listener
<1>3. RecvExclusive' /\ OwnedWhilePosted'
  BY DEF Inv, RecvExclusive, OwnedWhilePosted, InRecv, ReleaseSession, Done, Idle
<1>4. LifeIsOneWay' /\ SweepUnderLock' /\ NoAssert' /\ ListedIsServed'
  BY DEF Inv, TypeOK, LifeIsOneWay, SweepUnderLock, NoAssert, ListedIsServed, Leaving,
         ReleaseSession, At, LockFree, Done, Idle, socket, listener
<1>5. PostedIsHeld'
  BY ObjectsAssumption DEF Inv, PostedIsHeld, Referenced, ReleaseSession, Done, Idle, socket,
         listener
<1> QED
  BY <1>1, <1>2, <1>3, <1>4, <1>5 DEF Inv

(* Nothing refers to the session.                                          *)
LEMMA DestroyInv ==
  ASSUME Inv, NEW s \in Sessions, Destroy(s)
  PROVE  Inv'
<1>1. TypeOK'
  BY TimeAssumption DEF Inv, TypeOK, Never, Oldest, Destroy, listener
<1>2. WorkShape' /\ EventsHaveOnePlace' /\ AcceptedAreFresh'
  BY DEF Inv, TypeOK, WorkShape, EventsHaveOnePlace, AcceptedAreFresh, Referenced, Destroy,
         listener
<1>3. RecvExclusive' /\ OwnedWhilePosted'
  BY DEF Inv, RecvExclusive, OwnedWhilePosted, InRecv, Destroy
<1>4. LifeIsOneWay' /\ SweepUnderLock' /\ NoAssert' /\ ListedIsServed'
  BY DEF Inv, LifeIsOneWay, SweepUnderLock, NoAssert, ListedIsServed, Leaving, Destroy,
         Referenced, listener
<1>5. PostedIsHeld'
  BY DEF Inv, PostedIsHeld, Referenced, Destroy, listener
<1> QED
  BY <1>1, <1>2, <1>3, <1>4, <1>5 DEF Inv

(* The sweeper's sessions are in the list.                                 *)
LEMMA SweepKickInv ==
  ASSUME Inv, NEW s \in Sessions, NEW works \in BOOLEAN, SweepKick(s, works)
  PROVE  Inv'
<1>1. TypeOK'
  BY DisconnectTypes DEF Inv, TypeOK, SweepKick, listener
<1>2. WorkShape' /\ EventsHaveOnePlace' /\ AcceptedAreFresh'
  BY DEF Inv, TypeOK, WorkShape, EventsHaveOnePlace, AcceptedAreFresh, SweepKick, Disconnect,
         DisconnectIf, socket, listener
<1>3. RecvExclusive' /\ OwnedWhilePosted'
  BY DEF Inv, RecvExclusive, OwnedWhilePosted, InRecv, SweepKick
<1>4. LifeIsOneWay' /\ SweepUnderLock' /\ NoAssert' /\ ListedIsServed'
  BY ObjectsAssumption, TimeAssumption
     DEF Inv, TypeOK, Places, LifeIsOneWay, SweepUnderLock, NoAssert, ListedIsServed, Leaving,
         WorkShape, AcceptedAreFresh, RecvExclusive, SweepKick, Disconnect, DisconnectIf, socket,
         listener
<1>5. PostedIsHeld'
  BY DEF Inv, TypeOK, PostedIsHeld, Referenced, SweepKick, Disconnect, DisconnectIf, socket,
         listener
<1> QED
  BY <1>1, <1>2, <1>3, <1>4, <1>5 DEF Inv

(* SweepSessions before and after its disconnections, and time.            *)
LEMMA QuietInv ==
  ASSUME Inv, SweepBegin \/ SweepLook \/ SweepEnd \/ Tick \/ UNCHANGED vars
  PROVE  Inv'
<1>1. CASE SweepBegin
  BY <1>1, QuietStep, TimeAssumption DEF Inv, TypeOK, SweepUnderLock, SweepBegin, NoSweep, socket,
         listener
<1>2. CASE SweepLook
  BY <1>2, QuietStep, TimeAssumption DEF Inv, TypeOK, SweepUnderLock, SweepLook, socket, listener
<1>3. CASE SweepEnd
  BY <1>3, QuietStep, TimeAssumption DEF Inv, TypeOK, SweepUnderLock, SweepEnd, NoSweep, socket,
         listener
<1>4. CASE Tick
  <2>1. silence' \in [Sessions -> Never..Oldest]
    <3>1. \A s \in Sessions : silence[s] \in Never..Oldest /\ silence[s] \in Int
      BY TimeAssumption DEF Inv, TypeOK, Never, Oldest
    <3>2. \A s \in Sessions : silence[s] \notin {Never, Oldest} => silence[s] + 1 \in Never..Oldest
      BY <3>1, TimeAssumption DEF Never, Oldest
    <3> QED
      BY <1>4, <3>1, <3>2 DEF Tick, listener
  <2> QED
    BY <1>4, <2>1, QuietStep, TimeAssumption DEF Inv, TypeOK, SweepUnderLock, Tick, socket,
           listener
<1>5. CASE UNCHANGED vars
  BY <1>5, QuietStep DEF Inv, TypeOK, SweepUnderLock, vars, socket, listener
<1> QED
  BY <1>1, <1>2, <1>3, <1>4, <1>5

-----------------------------------------------------------------------------
(* Every step keeps the invariant.                                         *)
LEMMA Inductive == Inv /\ [Next]_vars => Inv'
<1> SUFFICES ASSUME Inv, [Next]_vars PROVE Inv'
  OBVIOUS
<1>1. ASSUME NEW w \in Workers, WorkerStep(w) \/ LockStep(w) PROVE Inv'
  BY <1>1, ArmInv, PostRecvInv, DropRecvInv, ReacceptInv, PostRecvFailsInv, EndHandleInv,
     AddSessionInv, ReleaseSessionInv DEF WorkerStep, LockStep
<1>2. ASSUME NEW w \in Workers, NEW e \in Accepts, NEW ok \in BOOLEAN, TakeAccept(w, e,
  ok) PROVE Inv'
  BY <1>2, TakeAcceptInv
<1>3. ASSUME NEW w \in Workers, NEW s \in Sessions, TakeDisconnect(w, s) PROVE Inv'
  BY <1>3, TakeDisconnectInv
<1>4. ASSUME NEW w \in Workers, NEW s \in Sessions, NEW bytes \in BOOLEAN, NEW works \in BOOLEAN,
             TakeRecv(w, s, bytes, works)
      PROVE  Inv'
  BY <1>4, TakeRecvInv
<1>5. ASSUME NEW s \in Sessions, Destroy(s) PROVE Inv'
  BY <1>5, DestroyInv
<1>6. ASSUME NEW w \in Workers, NEW e \in Accepts, AcceptAgain(w, e) PROVE Inv'
  BY <1>6, AcceptAgainInv
<1>7. ASSUME NEW s \in Sessions, NEW works \in BOOLEAN,
             DisconnectElsewhere(s, works) \/ SweepKick(s, works)
      PROVE  Inv'
  BY <1>7, DisconnectElsewhereInv, SweepKickInv
<1>8. ASSUME SweepBegin \/ SweepLook \/ SweepEnd \/ Tick \/ UNCHANGED vars PROVE Inv'
  BY <1>8, QuietInv
<1> QED
  BY <1>1, <1>2, <1>3, <1>4, <1>5, <1>6, <1>7, <1>8 DEF Next, Sweeper

(* So it holds always.                                                     *)
LEMMA InvAlways == Spec => []Inv
  BY InitInv, Inductive, PTL DEF Spec

(* ASSERT_CRASH of ReleaseSession never fails, and a session has at most   *)
(* one receive and one disconnection posted, whoever receives, fails and   *)
(* disconnects.                                                            *)
THEOREM NeverReleasedTwice == Spec => []ReleasedOnce
<1>1. Inv => ReleasedOnce
  BY DEF Inv, ReleasedOnce
<1> QED
  BY <1>1, InvAlways, PTL

(* The receive buffer and event of a session have one user at a time.      *)
THEOREM OneReceiver == Spec => []RecvExclusive
<1>1. Inv => RecvExclusive
  BY DEF Inv
<1> QED
  BY <1>1, InvAlways, PTL

(* Nothing posted and no reference survives its session.                   *)
THEOREM AliveWhilePosted == Spec => []PostedIsHeld
<1>1. Inv => PostedIsHeld
  BY DEF Inv
<1> QED
  BY <1>1, InvAlways, PTL

(* As long as the process runs no accept event is lost, and no two posted  *)
(* ones have the same session, whatever AcceptEx and CreateSession return. *)
THEOREM AcceptsForEver == Spec => []ListenerKeepsAccepting
<1>1. Inv => ListenerKeepsAccepting
  BY DEF Inv, TypeOK, EventsHaveOnePlace, AcceptedAreFresh, ListenerKeepsAccepting
<1> QED
  BY <1>1, InvAlways, PTL

(* A session in the list is connected or about to leave it, unless its     *)
(* DisconnectEx failed at once.                                            *)
THEOREM OnlyRefusedStay == Spec => []ListedIsServed
<1>1. Inv => ListedIsServed
  BY DEF Inv
<1> QED
  BY <1>1, InvAlways, PTL

(* The sweeper takes no session that was active within the time-out.       *)
THEOREM SweeperIsExact == Spec => SweeperSparesActive
<1>1. Inv /\ [Next]_vars =>
        [\A s \in Sessions : s \in sweep'.zombies \ sweep.zombies => silence[s] > Timeout]_vars
  BY TimeAssumption
     DEF Inv, TypeOK, Next, Sweeper, WorkerStep, LockStep, TakeAccept, AcceptThen, Reaccept,
     RegisterAccept, NoSession, NoMemory,
         AcceptAgain, AddSession, Arm, PostRecv, Posted, PostRecvFails, DropRecv, TakeRecv,
         Received, EndHandle, DisconnectElsewhere, TakeDisconnect, ReleaseSession, Destroy,
         SweepBegin, SweepLook, SweepKick, SweepEnd, Tick, NoSweep, Expired, Never, Oldest,
         SweepUnderLock, listener
<1> QED
  BY <1>1, InvAlways, PTL DEF Spec, SweeperSparesActive

=============================================================================
