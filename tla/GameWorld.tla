------------------------------ MODULE GameWorld ------------------------------
(***************************************************************************)
(* From a client's connection to its place in the room and back            *)
(* (GameSession.cpp, ServerPacketHandler.cpp, GameRoom.cpp): a session     *)
(* asks to enter, a coroutine loads the character on a DB worker and,      *)
(* still on that worker, gives the session its Player and asks the room to *)
(* let it in; packets become jobs of the room; a disconnection asks the    *)
(* room to let the player out, and leaving saves it.                       *)
(*                                                                         *)
(* Actors: an I/O worker per session for its packets, another one for its  *)
(* disconnection, DbWorkers DB workers, and whichever thread executes the  *)
(* room's queue (a SerialExecutor).  DB jobs start in queue order; those   *)
(* that run are the first DbWorkers unfinished ones.  A coroutine belongs  *)
(* to the Player object it will make, so Objects names both.               *)
(***************************************************************************)
EXTENDS GameRoom, Sequences, SequencesExt

CONSTANTS Sessions,
          SessionOf,     \* object -> the session whose C_ENTER_GAME makes it
          DbWorkers,     \* number of DB workers
          MaxMoves,      \* bound: C_MOVE packets handled
          MaxLost,       \* bound: sessions disconnected
          MaxAutoSaves   \* bound: runs of AutoSave

ASSUME SessionsAssumption == SessionOf \in [Objects -> Sessions] /\ None \notin Sessions
ASSUME BoundsAssumption ==
  /\ DbWorkers \in Nat \ {0} /\ {MaxMoves, MaxLost, MaxAutoSaves} \subseteq Nat
ASSUME IdsAssumption == IsFiniteSet(Ids)

VARIABLES session,    \* session -> "connected", "closing" (Disconnect was called), "closed"
          attached,   \* session -> GameSession::_player
          linked,     \* the objects whose Player::_session is set
          stage,      \* object -> how far its LoadPlayerTask is
          greeted,    \* the objects whose client was sent S_ENTER_GAME
          handler,    \* session -> the job its packet handler is about to queue
          jobs,       \* the room's queue
          dbJobs,     \* the DB pool's unfinished jobs, in queue order
          row,        \* id -> the position in its Player row
          moves,      \* C_MOVE packets so far
          autoSaves,  \* AutoSave jobs so far
          unsaved,    \* history: ids whose row does not have their last save
          lastOut,    \* history: id -> the object of it whose Leave ran last
          replaced,   \* history: objects whose session was given another one
          late        \* history: objects whose Enter ran after OnDisconnected

sessionVars == <<session, attached, linked, stage, greeted, handler, moves, replaced>>
dbVars == <<dbJobs, row, unsaved>>
roomHistory == <<lastOut, late>>
vars == <<roomVars, sessionVars, jobs, autoSaves, dbVars, roomHistory>>

RoomJobs ==
  [op : {"Enter", "Leave"}, who : Objects]
    \cup [op : {"Move"}, who : Objects, to : Positions]
    \cup [op : {"Save"}, id : Ids, at : Positions] \cup [op : {"AutoSave"}]

(* passed: a later write of the same row has already ended.                *)
DbJobs ==
  [op : {"Load"}, who : Objects]
    \cup [op : {"Write"}, id : Ids, at : Positions, passed : BOOLEAN]

TypeOK ==
  /\ RoomTypeOK
  /\ session \in [Sessions -> {"connected", "closing", "closed"}]
  /\ attached \in [Sessions -> Objects \cup {None}]
  /\ linked \subseteq Objects
  /\ stage \in [Objects -> {"none", "loading", "attached", "done"}]
  /\ greeted \subseteq Objects
  /\ handler \in [Sessions -> RoomJobs \cup {None}]
  /\ jobs \in Seq(RoomJobs)
  /\ dbJobs \in Seq(DbJobs)
  /\ row \in [Ids -> Positions]
  /\ moves \in 0..MaxMoves /\ autoSaves \in 0..MaxAutoSaves
  /\ unsaved \subseteq Ids /\ lastOut \in [Ids -> Objects \cup {None}]
  /\ replaced \subseteq Objects /\ late \subseteq Objects

Init ==
  /\ RoomInit
  /\ session = [s \in Sessions |-> "connected"]
  /\ attached = [s \in Sessions |-> None]
  /\ linked = {}
  /\ stage = [o \in Objects |-> "none"]
  /\ greeted = {}
  /\ handler = [s \in Sessions |-> None]
  /\ jobs = <<>> /\ dbJobs = <<>>
  /\ row = [i \in Ids |-> Origin]
  /\ moves = 0 /\ autoSaves = 0
  /\ unsaved = {} /\ lastOut = [i \in Ids |-> None]
  /\ replaced = {} /\ late = {}

Connected(s) == session[s] = "connected"

(* The bound on disconnections.                                            *)
MayLose == Cardinality({s \in Sessions : ~Connected(s)}) < MaxLost

(* The objects whose Player::Send reaches a connected session.             *)
Live == {o \in linked : Connected(SessionOf[o])}

Post(job) == jobs' = Append(jobs, job)

-----------------------------------------------------------------------------
(* C_ENTER_GAME: LoadPlayerTask runs up to its co_await, which queues the  *)
(* query.  A worker still in its loop over received packets handles them   *)
(* whatever has become of the session.                                     *)
EnterGame(o) ==
  /\ stage[o] = "none" /\ handler[SessionOf[o]] = None
  /\ stage' = [stage EXCEPT ![o] = "loading"]
  /\ dbJobs' = Append(dbJobs, [op |-> "Load", who |-> o])
  /\ UNCHANGED <<roomVars, session, attached, linked, greeted, handler, moves, replaced,
                 jobs, autoSaves, row, unsaved, roomHistory>>

(* C_MOVE: the session has a player, and the player has a room.            *)
ReceiveMove(s, p) ==
  /\ handler[s] = None /\ attached[s] \in inRoom /\ moves < MaxMoves
  /\ handler' = [handler EXCEPT ![s] = [op |-> "Move", who |-> attached[s], to |-> p]]
  /\ moves' = moves + 1
  /\ UNCHANGED <<roomVars, session, attached, linked, stage, greeted, replaced,
                 jobs, autoSaves, dbVars, roomHistory>>

(* C_MOVE: DoAsync.                                                        *)
PostMove(s) ==
  /\ handler[s] # None
  /\ Post(handler[s])
  /\ handler' = [handler EXCEPT ![s] = None]
  /\ UNCHANGED <<roomVars, session, attached, linked, stage, greeted, moves, replaced,
                 autoSaves, dbVars, roomHistory>>

(* Session::Disconnect: by the sweeper, a receive of 0 bytes, an error.    *)
Disconnect(s) ==
  /\ Connected(s) /\ MayLose
  /\ session' = [session EXCEPT ![s] = "closing"]
  /\ UNCHANGED <<roomVars, attached, linked, stage, greeted, handler, moves, replaced,
                 jobs, autoSaves, dbVars, roomHistory>>

(* OnDisconnected, which ProcessDisconnect calls: the room of the player   *)
(* `left`, if it has one, is asked to let it out, and the player and the   *)
(* session forget each other.  One step: what others change between its    *)
(* reads (_player, _room) might as well come before the first or after the *)
(* last of them.                                                           *)
Disconnected(s, left) ==
  /\ session[s] = "closing"
  /\ session' = [session EXCEPT ![s] = "closed"]
  /\ jobs' = IF left \in inRoom THEN Append(jobs, [op |-> "Leave", who |-> left]) ELSE jobs
  /\ linked' = linked \ {attached[s]}
  /\ attached' = [attached EXCEPT ![s] = None]
  /\ UNCHANGED <<roomVars, stage, greeted, handler, moves, replaced, autoSaves, dbVars,
                 roomHistory>>

(* Mutant of OnDisconnected: _player is cleared before it is used.         *)
OnDisconnectedCleared(s) == Disconnected(s, None)

OnDisconnected(s) == Disconnected(s, attached[s])

-----------------------------------------------------------------------------
(* A DB worker has job i of the pool, a LoadPlayerTask at that stage.      *)
Loading(i, o, s) ==
  /\ i \in 1..DbWorkers /\ i \in DOMAIN dbJobs
  /\ dbJobs[i] = [op |-> "Load", who |-> o] /\ stage[o] = s

(* The query's job returns, the coroutine resumes on the worker, makes the *)
(* Player and gives it to the session.  A SELECT that fails looks like one *)
(* that finds no row: the character starts afresh (and the INSERT of its   *)
(* row fails, on the same connection or on the key).                       *)
Attach(i, o, selected) ==
  /\ Loading(i, o, "loading")
  /\ pos' = [pos EXCEPT ![o] = IF selected THEN row[IdOf[o]] ELSE Origin]
  /\ linked' = linked \cup {o}
  /\ attached' = [attached EXCEPT ![SessionOf[o]] = o]
  /\ replaced' = replaced \cup ({attached[SessionOf[o]]} \ {None})
  /\ stage' = [stage EXCEPT ![o] = "attached"]
  /\ UNCHANGED <<players, sectors, inRoom, shown, muddled, session, greeted, handler, moves,
                 jobs, autoSaves, dbVars, roomHistory>>

(* The query's job throws: the session is disconnected.                    *)
LoadFails(i, o) ==
  /\ Loading(i, o, "loading") /\ MayLose
  /\ stage' = [stage EXCEPT ![o] = "done"]
  /\ session' = [session EXCEPT ![SessionOf[o]] = IF @ = "connected" THEN "closing" ELSE @]
  /\ dbJobs' = RemoveAt(dbJobs, i)
  /\ UNCHANGED <<roomVars, attached, linked, greeted, handler, moves, replaced,
                 jobs, autoSaves, row, unsaved, roomHistory>>

(* The rest of the coroutine: S_ENTER_GAME is sent, then the room is asked *)
(* to let the player in.  Nothing looks whether the session is still       *)
(* connected.  A disconnection between the two might as well come after.   *)
AskEnterAfter(i, o, sent) ==
  /\ Loading(i, o, "attached")
  /\ greeted' = IF sent THEN greeted \cup {o} ELSE greeted
  /\ Post([op |-> "Enter", who |-> o])
  /\ stage' = [stage EXCEPT ![o] = "done"]
  /\ dbJobs' = RemoveAt(dbJobs, i)
  /\ UNCHANGED <<roomVars, session, attached, linked, handler, moves, replaced, autoSaves,
                 row, unsaved, roomHistory>>

(* Mutant of AskEnter: S_ENTER_GAME is left to a later step.               *)
AskEnterUngreeted(i, o) == AskEnterAfter(i, o, FALSE)

AskEnter(i, o) == AskEnterAfter(i, o, Connected(SessionOf[o]))

OlderWrite(j, i) == j < i /\ dbJobs[j].op = "Write" /\ dbJobs[j].id = dbJobs[i].id

(* The UPSERT of a snapshot; it may also fail, which is only logged.  One  *)
(* that runs on another worker may end after a later one of the same row.  *)
Write(i, ok) ==
  /\ i \in 1..DbWorkers /\ i \in DOMAIN dbJobs /\ dbJobs[i].op = "Write"
  /\ LET w == dbJobs[i]
     IN  /\ row' = IF ok THEN [row EXCEPT ![w.id] = w.at] ELSE row
         /\ unsaved' = CASE ok /\ ~w.passed -> unsaved \ {w.id}
                        [] ~ok /\ w.passed -> unsaved
                        [] OTHER           -> unsaved \cup {w.id}
  /\ dbJobs' = RemoveAt([j \in DOMAIN dbJobs |->
                           IF OlderWrite(j, i) THEN [dbJobs[j] EXCEPT !.passed = TRUE]
                           ELSE dbJobs[j]], i)
  /\ UNCHANGED <<roomVars, sessionVars, jobs, autoSaves, roomHistory>>

-----------------------------------------------------------------------------
(* The room's timer, or BroadcastAutoSave at the shutdown.                 *)
PostAutoSave ==
  /\ autoSaves < MaxAutoSaves
  /\ autoSaves' = autoSaves + 1
  /\ Post([op |-> "AutoSave"])
  /\ UNCHANGED <<roomVars, sessionVars, dbVars, roomHistory>>

(* The room's executor runs the oldest job, which may queue more.          *)
Running(op, more) ==
  /\ jobs # <<>> /\ Head(jobs).op = op
  /\ jobs' = Tail(jobs) \o more

Snapshot(o) == [op |-> "Save", id |-> IdOf[o], at |-> pos[o]]

RunEnter ==
  /\ Running("Enter", <<>>)
  /\ LET o == Head(jobs).who
     IN  /\ Enter(o, Live)
         /\ late' = IF session[SessionOf[o]] = "closed" THEN late \cup {o} ELSE late
  /\ UNCHANGED <<sessionVars, autoSaves, dbVars, lastOut>>

(* Leave, once it has queued these jobs.                                   *)
RunLeaveQueueing(more) ==
  /\ Running("Leave", more)
  /\ LET o == Head(jobs).who
     IN  Leave(o, Live) /\ lastOut' = [lastOut EXCEPT ![IdOf[o]] = o]
  /\ UNCHANGED <<sessionVars, autoSaves, dbVars, late>>

(* Mutant of RunLeave: nothing is saved.                                   *)
RunLeaveUnsaved == RunLeaveQueueing(<<>>)

(* Leave starts with the snapshot, whether the player is in the room or    *)
(* not.                                                                    *)
RunLeave == RunLeaveQueueing(<<Snapshot(Head(jobs).who)>>)

RunMove ==
  /\ Running("Move", <<>>)
  /\ HandleMove(Head(jobs).who, Head(jobs).to)
  /\ UNCHANGED <<sessionVars, autoSaves, dbVars, roomHistory>>

(* AutoSave takes a snapshot of every player, in the order of the table.   *)
RunAutoSave ==
  /\ \E more \in SetToSeqs({Snapshot(players[i]) : i \in Present}) : Running("AutoSave", more)
  /\ UNCHANGED <<roomVars, sessionVars, autoSaves, dbVars, roomHistory>>

(* SavePlayerToDB runs up to its co_await, which queues the UPSERT.  What  *)
(* comes after it only logs.                                               *)
RunSave ==
  /\ Running("Save", <<>>)
  /\ dbJobs' = Append(dbJobs, [op |-> "Write", id |-> Head(jobs).id, at |-> Head(jobs).at,
                                passed |-> FALSE])
  /\ UNCHANGED <<roomVars, sessionVars, autoSaves, row, unsaved, roomHistory>>

RunJob == RunEnter \/ RunLeave \/ RunMove \/ RunAutoSave \/ RunSave

DbStep == \E i \in 1..DbWorkers :
  \/ \E o \in Objects : \/ \E selected \in BOOLEAN : Attach(i, o, selected)
                        \/ LoadFails(i, o) \/ AskEnter(i, o)
  \/ \E ok \in BOOLEAN : Write(i, ok)

Next ==
  \/ \E o \in Objects : EnterGame(o)
  \/ \E s \in Sessions : \/ \E p \in Positions : ReceiveMove(s, p)
                         \/ PostMove(s) \/ Disconnect(s) \/ OnDisconnected(s)
  \/ PostAutoSave \/ DbStep \/ RunJob

Spec == Init /\ [][Next]_vars

-----------------------------------------------------------------------------
(* Every member of the room whose client can be reached sees exactly the   *)
(* players in the room: two players meet whichever of them came first and  *)
(* however far apart they are, and lose sight when one of them leaves.     *)
ScreensAgree == \A o \in Live : IsMember(o) => shown[o] = Present

(* The first thing a client learns is which player it is: no player is     *)
(* shown to it before S_ENTER_GAME.                                        *)
EnterGameFirst == TypeOK /\ \A o \in Objects : shown[o] # {} => o \in greeted

Closed(o) == session[SessionOf[o]] = "closed"

LeaveQueued(o) == \E i \in DOMAIN jobs : jobs[i] = [op |-> "Leave", who |-> o]

(* A player whose session was closed stays in the room only until its      *)
(* Leave has run: OnDisconnected misses nobody but those whose Enter was   *)
(* still to run and those whose session sent another C_ENTER_GAME, which   *)
(* is not refused (ServerPacketHandler.cpp:172) and makes the session      *)
(* forget its first player.                                                *)
GhostsEnterLate ==
  \A o \in Objects :
    IsMember(o) /\ Closed(o) /\ o \notin late \cup replaced => LeaveQueued(o)

(* Once nothing is queued, the row of a character that has left says where *)
(* it was last, whichever of its sessions that was and however its moves,  *)
(* its leaving, snapshots by timer and the disconnections were             *)
(* interleaved.  Apart are a last save that failed or that an older one    *)
(* has overtaken on another DB worker, moves after the leave and two       *)
(* players of one character in the room.                                   *)
SavedWhereLeft ==
  jobs = <<>> /\ dbJobs = <<>> =>
    \A i \in Ids : lastOut[i] # None /\ i \notin Present \cup muddled \cup unsaved
                     => row[i] = pos[lastOut[i]]

=============================================================================
