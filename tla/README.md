# Verification of the MMORPG server

TLA+ models of the server under `src/Server` (a Windows IOCP server in C++20 with rooms that
run as serial executors, a MySQL pool with coroutines, and a Redis login), with the login request of the
web backend and the receive loop of the client beside it; their TLC runs; and TLAPS proofs about
nine of the modules.  `PROJECT.json` lists the components,
the runs, a mutant for every property, the source lines of every definition, the findings, the
hazards and the theorems.

Run everything from this directory:

    tlc -workers 2 -config MCJobQueue.cfg MCJobQueue      # one run, see "Runs"
    tlapm JobQueueProofs.tla                              # one proof module

## 1. Inventory of the system

### Threads

Five I/O workers (`GameServer.cpp:128-135`) take completions from the IOCP and run packet
handlers; a thread of its own sweeps sessions; the main thread distributes `JobTimer`; one DB
worker per connection runs DB jobs *and the coroutines that resume after them*; any of these
becomes the executor of a room when it pushes the room's first job; one thread writes the log of all
of them.  The web backend and the Unreal client are other processes.

### Components

| component | state | operations | works with | what is hard |
|---|---|---|---|---|
| **LockFreeQueue** | `_head`, `_tail`, nodes | `Push`, `Pop`, destructor | base of JobQueue and of the send queue | two-step push, node deletion with no lock, reuse of memory |
| **JobQueue** | `_jobCount`, `_jobs` | `DoAsync`/`Push`, `Execute`, `DoTimer` | rooms derive from it; JobTimer pushes into it | who executes; hand-over at count 0; jobs that push; jobs that throw |
| **Session, send** | `_sendQueue`, `_sendRegistered`, the one `_sendEvent` | `Send`, `RegisterSend`, `ProcessSend` | broadcasts of rooms, coroutines and handlers send; IocpCore dispatches completions | a flag instead of a lock around event, buffers and reference |
| **Session, life** | `_connected`, `_recvEvent`, `_disconnectEvent`, references | `ProcessConnect`, `RegisterRecv`, `ProcessRecv`, `Disconnect`, `ProcessDisconnect` | Service, Listener, sweeper | disconnect by several threads, failed `DisconnectEx`, late completions |
| **Service, Listener, sweeper** | `_sessions`, accept events, last receive times | `AddSession`, `ReleaseSession`, `SweepSessions`, accept | Session | accepts that fail, time-out against a late packet |
| **GameRoom** | `_players`, `_sectors`, `Player` position, `_room` | `Enter`, `Leave`, `HandleMove`, `HandleAttack`, `Update`, `AutoSave`, mailbox, grid query | jobs of its JobQueue; sends to sessions; DB pool | all broadcasts, the grid and `_players` agree; ids against objects |
| **GameSession and handlers** | `_player`, `Player::_session`, login state | `C_LOGIN`, `C_ENTER_GAME`, `C_MOVE`, ..., `OnDisconnected` | room jobs, DB coroutine, Redis | a coroutine that resumes on another thread after the session is gone |
| **DBConnectionPool** | `_connections`, `_jobs`, `_stop` | `Connect`, `PushJob`, worker loop, `Clear` | coroutines wait for its jobs | two condition variables, dead connections, shutdown |
| **RecvBuffer, PacketSession** | read and write position | `OnRead`, `OnWrite`, `Clean`, `OnRecv` | handlers | packets cut at any byte, data moved to the front, four ways to end |
| **JobTimer** | heap of timed jobs with weak owners | `Reserve`, `Distribute`, `Clear` | JobQueue, self-renewing room timers | owner dies, a chain that breaks |
| **Login** | Redis tickets, player rows, `_playerId` | `AuthController.Login`, `C_LOGIN`, `C_ENTER_GAME` | web backend, Redis, MySQL | GET and DEL not atomic, concurrent first logins, expiry |
| **Player store** | rows, gold, mailbox, snapshots, the AutoSave timer | load, `HandleAttack`, `ProcessMailboxDB`, `Leave`, `AutoSave`, `SavePlayerToDB`, shutdown | GameRoom, DB pool, JobTimer | order of saves on several workers, several objects of one character |
| **Logger** | two buffers, `gMode`, `flushedSeq`, drop counters | `Submit`, `Flush`, back-end thread, `SwitchToSync`, `PanicFlush` | every thread | switch Async, Draining, Sync; bounded queue; time-outs; a file that rolls |
| **Client** | object map, receive bytes | network worker, object manager | S_ENTER_GAME, S_SPAWN, S_DESPAWN | same ids twice, order of spawn and despawn |
| GlobalQueue, configuration, fault points, buffers, socket helpers, thread manager, dummy client, tools | | | | no logic of concurrency of their own, or unused |

### What makes each component correct

* LockFreeQueue: FIFO in exchange order; nothing used after it is freed; nothing leaked.
* JobQueue: one job at a time, each once, in queue order, and none left without an executor.
* Session, send: one user of the event; order on the wire; nothing stranded; the session lives
  as long as a send is in flight.
* GameRoom and GameSession: clients see who is there; the grid files every player where it is, and
  nobody else; whoever disconnects leaves and is saved; a new login is not harmed by the old.
* DBConnectionPool: the pool keeps its size; every job runs; shutdown flushes and returns.
* RecvBuffer and OnRecv: handlers get the client's packets whole, in order, however the stream is
  cut, and there is always room for the next receive.
* Login: one character for an account, and a ticket that lets in once.
* Player store: what a character was given is in its row after it left, and soon if it stays.
* Logger: no record doubled, out of order or gone between its buffers, none forgotten by a wait that
  returned, over files that roll and cannot be opened.

## 2. Modules

The abstractions are stacked, each level using what the level below was shown to implement:

    MpscQueue  <-- implemented by --  LockFreeQueue
        |  its actions Enter / Finish / Take are used by
        +--> JobQueue  -- implements -->  SerialExecutor
        |                                      |  justifies: a room job is one step
        +--> SessionSend                  GameRoom  -- extended by -->  GameWorld
    DBConnectionPool   (its queue order and its flush are the dbJobs of GameWorld and PlayerStore)
    SessionLifecycle   (says when GameWorld's OnDisconnected comes, and when it does not)
    PacketFraming -- implements --> PacketStream   (its packets are the handlers' actions elsewhere)
    Login              (gives GameWorld's and PlayerStore's sessions their character)
    PlayerStore        (room jobs and DB jobs as in GameWorld, followed to the shutdown)
    Logger, ClientReceive

| module | models | state and actions |
|---|---|---|
| `MpscQueue` | promise of `LockFreeQueue.h` | `queue` of entries; a Push is `Enter` (fixes the order) and `Finish` (makes it reachable), a Pop is `Take` or returns false |
| `LockFreeQueue` | `LockFreeQueue.h` node by node | cells as memory, `Exchange`, `Link`, `Pop`, `PopFalse`, destructor |
| `SerialExecutor` | promise of `JobQueue` | `Submit`, `Run` |
| `JobQueue` | `JobQueue.cpp` | `Count`, `EnterQueue`, `FinishPush` are Push; `DrainOne`, `DrainDone`, `EndJob`, `Settle` are Execute |
| `SessionSend` | send path of `Session.cpp` | one action per shared access of `Send`, `RegisterSend`, `ProcessSend`, and the owner read in `IocpCore::Dispatch` |
| `GameRoom` | `GameRoom.cpp`, `SectorMath.h` | `Enter`, `Leave`, `HandleMove`, each with its upkeep of the grid; `shown` is what the broadcasts told each client |
| `GameWorld` | `GameSession.cpp`, handlers, coroutines | sessions, packet handlers in two steps, load coroutine in two steps on DB workers, room queue with `AutoSave`, DB queue whose writes may overtake each other, rows |
| `DBConnectionPool` | `DBConnectionPool.cpp` | worker loop, `PushJob`, `Clear` in its three steps |
| `SessionLifecycle` | `Session.cpp` but for sending, `Listener.cpp`, `Service.cpp` | per session: `_connected`, age of `_lastActiveTick`, receives and disconnections posted, owners of events; workers with `TakeAccept`, `RegisterAccept`, `AddSession`, `Arm`, `PostRecv`, `TakeRecv`, `EndHandle`, `TakeDisconnect`, `ReleaseSession`; the sweeper; `Destroy` and reuse of memory |
| `PacketStream` | promise of a receiver of packets | `Send`, `Handle` some packets or close at a bad one, `Lose` |
| `PacketFraming` | `RecvBuffer.cpp`, `PacketSession::OnRecv`, `ProcessRecv` | `rb` is the buffer with its positions; `Clean` and `OnRecv` are operators; `Receive` is one completion |
| `ClientReceive` | `NetworkWorker.cpp`, the client | `Receive` is one `Recv` with the parsing loop |
| `Login` | `AuthController.Login`, `C_LOGIN`, `C_ENTER_GAME` | requests in `stage`s (`FindPlayer`, `CreatePlayer`, `IssueTicket`), `GetTicket` and `DelTicket` apart, `Expire` |
| `PlayerStore` | gold of a character in `GameSession.cpp`, `GameRoom.cpp`, `JobTimer.cpp`, `GameServer.cpp` | `row`; per session its object's `place` and `gold`; room queue and DB queue with one action per job; `Distribute` for the timer, `BroadcastAutoSave` for the shutdown |
| `Logger` | `Logger.cpp` after `Init` | one action per critical section or access to `gMode` of `Submit`, `Flush`, the back end, `SwitchToSync`, `PanicFlush`; a batch is written record by record, and each may roll the file |
| `*Proofs` | | theorems, see section 6 |
| `MC*` | | values of the constants for TLC |

Some conventions.  A definition announced as "Mutant of X" is never part of a specification;
it is a plausible bug used to show that a property can fail.  Variables marked "history" are
read by properties only.  Several jobs or steps are parameterised by what their mutant varies
(`FinishPushAnd`, `LeaveRoom`), so that the code's form is the last, short definition.

How fine the steps are:

* `LockFreeQueue`, `JobQueue`, `SessionSend`: one access to shared memory per action, several
  only where no other thread can tell their order (a node before it is published, for example).
  Memory is sequentially consistent.
* `DBConnectionPool`: one critical section per action, except that the worker's wait is split
  into predicate and wait, because `Clear` does not take the lock in between.
* `SessionLifecycle`: one access to what threads share per action; `Disconnect` is one step, since
  only its exchange can be noticed before `DisconnectEx`.  `SweepSessions` holds the lock throughout.
* `GameWorld`: one room job per action, justified by `ImplementsSerial`; a packet handler is
  split between reading `_player`/`_room` and queueing its job; the coroutine is split where
  it gives the Player to the session.  `OnDisconnected` is one action: another thread's change
  between its reads is the same as the change before or after it.
* `PlayerStore`: one room job, one half of a coroutine or one query per action; a packet handler is
  split as in `GameWorld`.  The DB workers hold the first unfinished jobs and end them in any order.
* `Login`: one query or one Redis command per action, since there is an `await` or a network round
  trip between them.
* `PacketFraming`: one completion per action, because `SessionLifecycle` shows (`RecvExclusive`) that
  one worker at a time has the receive buffer.
* `Logger`: one critical section of `queueLock` or `writeLock` per action, as far as they are apart; under `writeLock`
  one record per action, since a crash may end the process between two of them.

## 3. Runs

| run | question | bounds | states | result |
|---|---|---|---|---|
| `lock_free_queue` | is the list a FIFO, memory-safe, leak-free? | 3 producers, 2 values, 5 cells, symmetric | 1.6 thousand | pass |
| `job_queue` | one executor, none missing, order, every job ends, refinement | 3 threads, 3 jobs | 35 thousand | pass |
| `session_send` | one user of the event, wire order, fate of every buffer | 3 threads, 3 buffers, both kinds of error | 390 thousand | pass |
| `send_held_while_in_flight` | does a send in flight hold its session? | same | | violation |
| `packet_framing` | are packets whole, in order, none left out, none left waiting; is there room? | 3 packets of 6 kinds, header 2, limit 4, buffer 2 x 4 | 6 thousand | pass |
| `client_keeps_packets` | does the client keep the packets whole? | 3 packets, receives of up to 5 bytes | | violation |
| `game_world` | screens, grid and references agree; who stays after a disconnection? are rows the last position? | 2 characters, 2 sessions, 3 players, 2 DB workers, 3 places, 1 move, 1 AutoSave, 2 disconnections | 2.1 million | pass |
| `player_store` | does the row get what the character was given? | 2 sessions, 2 DB workers, 1 letter, 1 gain, 1 failure | 0.7 million | pass |
| `login` | one character, one login a ticket? | 3 requests, 2 sessions, symmetric | 80 thousand | pass |
| `db_pool` | pool size, every job runs, flush at shutdown, Clear returns | 3 workers, 3 connections, 3 jobs | 28 thousand | pass |
| `session_lifecycle` | released once, one receiver, in memory while posted, sweeper exact, no accept lost | 2 workers, 1 accept event, memory for 2 sessions | 220 thousand | pass |
| `logger` | no record gone, doubled, out of order; waits and notes are true; all is written | 2 producers, queue of 2, 3 calls, 1 roll or exception | 1.2 million | pass |

Why the bounds are enough for the cases that matter.

* *Queue.*  Three producers give a finished push between two half-finished ones, and a half
  push in front of and behind the dummy.  Five cells: a dummy, three nodes and one that is free
  to be reused at once.  The number of operations is not bounded.
* *JobQueue.*  An executor, a thread between count and link (Execute spins), and one that
  arrives as the executor leaves.  Three jobs allow a batch of two and a second round, or a job
  that pushes a job.  `Jobs` bounds the pushes (each job once).
* *SessionSend.*  A drainer, a sender and a worker with the completion at the same time; three
  buffers allow a batch of two behind one in flight.
* *PacketFraming.*  The sizes of the code are scaled down, their order is kept: header < limit <=
  buffer, capacity a multiple of the buffer.  The kinds have sizes one below the header, from the
  header to the limit, one above it, and one packet whose handler throws.  With a buffer of two
  receives (10 in the code) the data has to be moved to the front after the second, and three
  packets allow a whole one, a bad one and one behind it, cut at every byte.
* *ClientReceive.*  Two packets and one receive that ends inside one suffice.
* *GameWorld.*  Character a plays in both sessions, which is the second login; the first session logs in
  again with a ticket of b and sends a second C_ENTER_GAME, neither of which the code refuses, so that it
  forgets one of its two players.  Of a place nothing matters but its cell, and `CellOf` may give any
  cell to any place, so that floats, rounding and casts are left to it; two of the three places are in
  one cell, so that a move may change the cell or not.
  `MaxMoves = 1` moves once (from every place, in every session), `MaxLost = 2` closes both sessions.
  `MaxAutoSaves = 1` puts a snapshot by timer beside those of the leaves, on two DB workers that may end
  them in either order; the constraint `Few` explores it for each two of the three players, and
  the three of them without it.
* *PlayerStore.*  Two sessions of one character: one after the other, or overlapping.  Two DB
  workers let one save overtake another or a load.  One gain (`MaxGains`, an attack or a letter) is
  enough to make a row wrong for good, one failure (`MaxFailures`) may hit any query.  `MaxPending`
  holds the AutoSave timer back while two jobs wait, which bounds the queues; the clock is a minute.
  Gold is counted in gains; a new character's is 1.
* *Login.*  Three requests: two race for the first character and one comes later.  Two sessions
  race for a ticket, and each may log in again with another.
* *SessionLifecycle.*  Two sessions are one that lives and one that waits in the accept event; when
  one ends its memory comes back, so the number of connections is not bounded.  Two workers take
  completions of one session at the same time, and the sweeper and the senders are further actors.
  Time is the age of `_lastActiveTick` in units a little over the time-out (`Timeout = 0`), and
  `MaxSweep = 1` lets the sweeper's clock be one such unit old while it looks at the sessions.
  `Accepts` is one event of the hundred; it waits when there is no memory for its next session.
  `MaxDepth = 2` is how many calls of `RegisterAccept` fit on the stack: one fails and the next
  succeeds, or the stack is full.
* *Pool.*  Three workers contend for jobs and connections; three jobs include one pushed by a
  job during the shutdown.
* *Logger.*  A queue of two is full after two records: an INFO waits for space, a TRACE is dropped.
  Two producers and three calls (`MaxCalls`) put one record behind another of the same thread, with
  a third of the other thread or a Flush between, while main switches.  A batch
  of two is what a roll may split: an ERROR in the old file, a record in the new one.  One roll or
  exception (`MaxTroubles`) may hit any record or note; after one that could not open a file the sink
  loses all that follow.  An INFO takes no path that an ERROR or a TRACE does not take, and is left out.
  The constraint `Few` keeps the third call from a process in which a thread crashes; only calls
  and the crash can lead outside of it, and neither is fair, so that no behaviour is cut
  whose liveness is in question.

`CHECK_DEADLOCK FALSE` is set in every configuration but that of Login, where a session can always
send another packet, because each of the other systems may come to rest: all jobs were pushed, the
object was destroyed, the pool was cleared, the log is written, the process of the listener crashed.
A run of threads that stops too early is excluded by the liveness properties instead.

## 4. Fairness

* `JobQueue!FairSpec`: a thread inside Push or Execute is scheduled again, and a job returns or
  throws.  Pushing is not fair.  (Weak fairness per thread suffices: no other thread disables a
  step of an executor; when it spins on a half push, that push's thread is fair too.)
* `SessionSend!FairSpec`: the same for threads, and a posted send completes and is taken by
  some worker; Windows completes each accepted operation, with an error if the socket is closed.
  Sending and disconnecting are not fair.
* `DBConnectionPool!FairSpec`: a worker that can continue does, a query ends (the connections have
  time-outs), and Clear goes on once it was called.  Pushing and calling Clear are not fair.  A
  worker that re-acquires `_jobLock` while others keep taking it needs no strong fairness here,
  because jobs run out.
* `SessionLifecycle!FairSpec`: the sweeper goes on and time passes; a worker that waits for
  `Service::_lock` gets it (strong fairness: the sweeper sleeps a second between its critical
  sections).  Clients need not connect, send or hang up, completions of disconnections may be late, and
  workers may be busy for ever: `SilentIsSwept` needs none of them.
* `FairFramingSpec` of `PacketFraming`: bytes on the wire are received while the session is open.  The client
  need not send, and may leave at any time.
* `PlayerStore!FairSpec`: the oldest DB job ends (queries have time-outs, and `DBConnectionPool` shows
  that every job runs), the room is executed (`JobQueue!EveryJobRuns`), and the main loop distributes
  the AutoSave timer while the server is up.  No client acts fairly.
* `Logger!FairSpec`: a producer inside a call, the back end, main inside `SwitchToSync` and a crashing
  thread go on; the back end's wait ends every 200 ms, so that a missed notification does not matter.
  Time-outs are never fair: the waits have to end without them.
* `GameWorld`, `LockFreeQueue` and `Login` have safety properties only.

## 5. What the passing runs and the findings show

**Queues and executors.**  The linked list refines the two-step queue (`ImplementsMpsc`), is one
chain of linked and half-linked nodes (`WellLinked`), and neither uses nor leaks a node
(`MemorySafe`).  The room executor refines a serial executor (`ImplementsSerial`), its counter is exact
(`CountKept`), nobody enters Execute twice (`OneAtATime`), and every job runs (`EveryJobRuns`).

**Sending.**  The flag `_sendRegistered` does give the event to one user (`EventHasOneUser`), the wire
keeps each sender's order (`WireOrder`), and a buffer has one of the fates that `SentOrStranded` names:
sent, thrown away by a failed send, lost with its connection or its process, or stranded.  There are
two ways to be stranded.  A Push between the draining thread's last Pop (`Session.cpp:165`) and its
`store(false)` (172) finds the flag set; its buffer waits for some later Send.  And where the race of
`HeldWhileInFlight` has taken the owner away, `IocpCore.cpp:44` ignores a *failed* completion
(`ignored`; a successful one dereferences null at 34): the flag stays set, nothing is in flight and
nobody uses the event, the buffers of that send are kept in it, and every later Send only queues.

**Receiving.**  However the stream is cut, handlers get whole packets in order and nothing is lost by
the moves of the buffer (`FramesIntact`); there is always room for the next receive, so the server
never takes a full buffer for a client that left (`RoomToReceive`); and the receiver refines
`PacketStream`: it handles every acceptable packet before the first bad one, sooner or later, and
nothing behind that one (`ImplementsPacketStream`).

**Sessions.**  Whoever disconnects and whenever, a session is released once and only after it was added
(`ReleasedOnce`), one thread at a time has its receive buffer (`RecvExclusive`), it is in memory while a
receive or disconnection is posted (`PostedIsHeld`), the sweeper spares who was active
(`SweeperSparesActive`) and misses nobody (`SilentIsSwept`).  No accept event is lost as long as the
process runs (`ListenerKeepsAccepting`).  Two failures end it, and the model has both: a session that
cannot be registered with the IOCP (`Service.cpp:39-40`) is dereferenced at `Listener.cpp:84`, and
`RegisterAccept` calls itself for each failing AcceptEx (89), with the session of every failed call
still in its frame, until the stack is used up.  `ListedIsServed` names the exception: where `DisconnectEx` fails at once
(`Session.cpp:123`) no completion comes, and the session stays in the list for ever, not connected;
the sweeper finds it each second and `Disconnect` returns at 48.

**World.**  Reachable clients see exactly who is in the room (`ScreensAgree`), never before
S_ENTER_GAME (`EnterGameFirst`); the grid files every player once, in the cell of where it is, and nobody
else (`GridFollowsPlayers`, the duty that `GameRoom.h:62` states); and rows hold the last position
(`SavedWhereLeft`).  A player is left in the room after its session closed (`GhostsEnterLate`) only if the
load coroutine entered it late (`GameSession.cpp:155` does not look whether the session is still
connected), or if its session sent another C_ENTER_GAME, which nothing refuses
(`ServerPacketHandler.cpp:172`): the session then has a new player, and `OnDisconnected` lets only that
one leave.  The properties name the exceptions the code has: `muddled` ids (a second login of the same
character, whose older session's Leave erases by id whatever object is there, `GameRoom.cpp:122`; a move
that ran after its leave), `late` and `replaced` objects, and `unsaved` ids: the last save failed, which the
code only logs, or a snapshot that AutoSave took before it (`GameRoom.cpp:35-39`) was written by another
DB worker after it.  The run finds that order, and nothing in the code prevents it.

**Player store.**  Once nobody of a character is in the room and nothing is queued, its row is what it
was given (`LeftIsSaved`), and while it plays the row gets there again and again (`EarnedIsSaved`),
through AutoSaves that renew each other.  `excused` lists what the code leaves open, and without any one
of these excuses the run fails: (1) two objects of the character overlap, or one loads before the
other's save is written; (2) a SELECT that fails without an exception is taken for "no row"
(`GameSession.cpp:58`), so that the character enters with the gold of a new one; (3) the last save
fails; (4) a save is overtaken by an older one on another worker; (5) gold arrives after the last
copy was taken: a letter for a player who left (`GameRoom.cpp:344`), or anything after the AutoSave of
the shutdown.  That a letter is paid whether or not a row was deleted (`GameRoom.cpp:329`) is part of
`worth`: the row may hold what no letter paid for.

**Login.**  An account has one character and whatever is loaded is one of it, unless two requests found
none at the same time, which `FindPlayer` and `CreatePlayer` do not exclude and no unique index of
`schema.sql` prevents (`OneCharacter`).  A ticket that let somebody in is gone and let in a second
session only if both had read it before one deleted it (`TicketSpent`).

**Pool.**  It keeps its size (`PoolSound`), runs every job, is flushed by a Clear that returns
(`FlushedByClear`), and Clear returns (`ClearReturns`) unless a worker was between its predicate and its
wait when `_stop` was set: `Clear` notifies without `_jobLock` (`DBConnectionPool.cpp:272`), and
that worker is joined for ever.

**Logger.**  Over the switch from Async to Sync no record is lost by the buffers or written twice
(`RecordsKept`), the files have each thread's records in order unless the thread gave up its five seconds
of waiting (`WrittenInOrder`), what an ERROR or Flush that returns without a time-out vouches for was
written, the ERRORs to the disk (`PromiseKept`), dropped TRACEs are reported (`DropsReported`), and every
call ends and every record is written unless the process crashes (`EveryRecordIsWritten`).  All but the
order of the records have the exceptions of the file sink: `lost` are records (and `unnoted` the notes) that
it threw away, because a roll at midnight could not open the next file (`Logger.cpp:353-361`) or because
formatting threw (523); and the ERRORs of a batch that were written before the roll are in a file that
was closed (338-346) without being forced to the disk, as `PromiseKept` says.  So the promise of
`Logger.h:30`, that the caller of an ERROR waits until it is in the file and none is lost, is not kept then:
the call returns as if the record were written.

Findings, each a violation run with its counterexample:

1. `HeldWhileInFlight`, `Session.cpp:173`: the owner of a send in flight is cleared by the thread
   that un-registered before; `Dispatch` then dereferences null.
2. `ClientFramesIntact`, `NetworkWorker.cpp:54`: the client does not keep the beginning of a packet
   that is not complete at the end of a Recv.

## 6. What is proved

For every value of the constants (any number of threads, messages, workers, players, records),
from the named assumptions of the modules:

| assumption | says | because |
|---|---|---|
| `ThreadsAssumption`, `NilAssumption`, `ObjectsAssumption`, `SessionsAssumption`, `LoginAssumption` | the null value is no thread, cell, object, session or request; in `JobQueue`, threads are finitely many; in the world, every object has an id and a session | null is not an object |
| `FramingAssumption` | a header has a byte; header <= limit <= bytes of a receive; the buffer holds two receives | 4, 0x4000, 0x10000, 10 receives (`Session.h`, `RecvBuffer.h`) |
| `SocketErrorsAssumption` | a failed send is a reset or another error | the two branches of `HandleError` |
| `PoolAssumption` | as many workers as connections, finitely many and at least one | one worker is started for each connection (`DBConnectionPool.cpp`) |
| `PlacesAssumption` | there is a place, and each has a cell | `GetSectorIndex` is a function of the coordinates |
| `IdsAssumption` | ids are finitely many | they are integers of 64 bits |
| `LevelsAssumption` | levels are among TRACE, INFO and ERROR | `WARN` is handled as INFO (`Logger.cpp`) |
| `TimeAssumption`, `DepthAssumption`, `CapacityAssumption`, `BoundsAssumption` | times, depths, capacities and bounds are natural numbers, the queue of the logger, the DB pool and the stack are not empty | |
| `StoreAssumption` | a new character has some gold, there are a DB worker and a session, the other bounds are natural numbers | a new character has 100 gold (`GameSession.cpp:68`); there are 5 connections, a worker for each (`GameServer.cpp:92`) |

The bounds on calls, moves or disconnections are such constants too: the theorems hold for each
value of them.

**JobQueueProofs** - `OneAtATime` (with the types), `CountKept`, `ProgramOrder`, and the refinement
`ImplementsSerial`.  Neither of the first two is inductive alone: that a thread which counted from 0 may
execute needs that nobody else does, which needs that the count is at least what the executor still has
in its batch, which needs the exact accounting, also of pushes between count and link.  `Inv` joins
them with who may be pushing.  The argument: the count is the number of counted pushes plus the
queue plus the batch (`CountAccounts`); so it is positive while anyone owns the queue, a push that
reads 0 has no rival, and the executor that subtracts down to 0 leaves nothing behind.  The
cardinality of the counted pushes changes by one in `Count` and `EnterQueue`, for which threads have
to be finite.  For order and refinement, what has ended, the rest of the executor's batch and the queue
are one line of jobs: only the first half of a push appends to it, and popping, running and handing
over only move the marks between its parts.

**LockFreeQueueProofs** - `WellLinked`, `MemorySafe`, and the refinement `ImplementsMpsc`.  The chain from
the dummy to the tail is inductive with the gaps that half-finished pushes leave: each gap belongs to
one producer, whose `prev` and `node` are its two ends, so `Link` closes that gap and no other, and Pop,
which stops at a gap, never frees a node a producer still writes to.  Cells are recycled: a freed cell
may be any producer's next node.  The refinement maps the nodes behind the dummy to the entries of
`MpscQueue`; `Exchange` is Enter, `Link` is Finish, `Pop` is Take, the other steps are stutters.

**SessionStreamProofs** - `EventHasOneUser` and `WireOrder` of `SessionSend`; `FramesIntact`,
`RoomToReceive` and the steps of `ImplementsPacketStream` of `PacketFraming`, whose general definitions carry
`Framing` in their names so that one module can extend both.  The types, which say that the event is not
posted twice, and `SendIsExclusive` are inductive together: a thread comes to use the event only by
turning the flag from false to true, when nobody uses it and nothing is in flight, or by taking the only
completion.  For the order, the wire, the event's buffers until they are posted, and the queue are one
line (`Flow`), from which a failed send or a disconnection only removes; that there is one batch at a
time is exclusiveness.

For receiving, `FramingInv`: the handled packets are the first of those sent, and while the connection
is open they, the unread bytes and the bytes to come are together the stream.  `OnRecv` is a
recursive function of the position in the buffer.  What it returns for every input (`OnRecvFrames`) is
proved with the greatest position at which it would be wrong: from there it cuts out one packet,
which is the next of the stream (`HeaderFound`), and goes on at a later position, where it is right.
That a set of positions has a greatest element is `FS_StrictSubsetOrderingWellFounded` with `WFMin`,
which need no operator as a parameter; that the recursion has a solution, and that `FlattenSeq` of
one sequence more is what it should be, are proved in the same way.  `Written`, `ReadOff` and `Cleaned`
say what the buffer's operations do to the unread bytes; room is left because what `OnRecv` leaves is
less than the greatest packet, and the buffer holds two receives.

**DBConnectionPoolProofs** - `PoolSound` and `FlushedByClear`.  The last conjunct of the first, a worker in
Pop finds a connection, is a pigeonhole: were none idle, all connections would be leased to other
workers, injectively, and there would be more workers than connections (`PopFindsOne`).  For the
second, a pushed job is queued, held by one worker, or ran; a worker ends only when the queue is
empty and `_stop` set; and a job pushed by a job is pushed by a worker that has not ended and looks at
the queue once more.

**SessionLifecycleProofs** - `ReleasedOnce`, `RecvExclusive`, `PostedIsHeld`, `ListenerKeepsAccepting`,
`ListedIsServed` and the action property `SweeperSparesActive`.  The inductive invariant adds where an
accept event is (`EventsHaveOnePlace`), that the session of a posted
one is unused (`AcceptedAreFresh`), who has set an event's owner (`OwnedWhilePosted`), that adding,
connected and leaving follow each other (`LifeIsOneWay`), and that the sweeper works on the list under
its lock (`SweepUnderLock`).  Memory that comes back is covered: whatever refers to a session keeps it
allocated, the frames of failed calls of `RegisterAccept` included, so a session from free memory has
no past.  What a crash leaves behind is excluded where it matters: after one no step is enabled.

**GameWorldProofs** - all six invariants of the run, for sessions that make any number of Player
objects.  The invariants stand on each other.  `Orderly`: an object has one place in the queues at a
time (its load, its Enter, its Leave), a Leave is queued only behind its Enter, and what a handler
holds was attached and entered; this is what makes a room job meet the object in the state it was
queued for.  From it `EnterGameFirst`, `ScreensAgree` (with who is in the room and whom the broadcasts
reached) and `RoomKnowsMembers`.  `GridRight`: every cell entry is of a present player in that player's
cell, and every present player has its entry, outside the `muddled` ids.  `NoGhosts`: while a session is open,
the object on its way in or in the room is the one it holds, unless it was `replaced`.

`SavedWhereLeft` needs to know where the last position is while snapshots by timer and on Leave are on
their way.  For a character that left (`SavesOnTheirWay`): if the room's queue has a save of it, the last
one is of the position it left at; else, if the DB queue has a write of it that no later one has
passed, the last such write is; else the row is, or the id is `unsaved`.  While a character is in the room
nothing is claimed, since its next Leave takes a new snapshot.  `LeftIsDone` adds that an object that
has left is through its load, so that only a late move, which makes the id `muddled`, changes
where it is; and an AutoSave that runs after the Leave does not find it.  The saves of an AutoSave enter the queue in the
unknown order of a hash table: the proof uses only that they are of members.

**CharacterProofs** - what concerns one character: `OneCharacter` and `TicketSpent` of `Login`, and
`LeftIsSaved` of `PlayerStore`.  It extends both modules, which is why the definitions that every module
has are called `LoginInit`, `LoginNext` and so on in `Login`.  For the login, `Unraced`: until two
requests have found nothing at a time, at most one is about to create the character, and then there is
none yet, so `new` is 1.
`SpentOrContested`: a ticket is stored once, before anybody can read it; who reads it finds it in Redis,
where the tickets already logged in with are no longer; so a second login with it comes from a
session that had read it when the first deleted it, which is what makes it contested.

For the gold, `StoreInv`.  What was given to the character is somewhere, or owed: a letter that is removed
and not yet paid is counted by who waits to pay it (`Owed`, a cardinality).  While nothing is excused,
one object at a time is loaded, attached or in the room, with gold plus owed equal to what was given
(`OneObject`, `InOnce`).  When there is none, `LastKept` follows the copy that Leave took: it is in the
last save of the room's queue, or in the last write of the DB queue or a worker's, or in the
row; a write that it overtakes or that overtakes it can only repeat it, or is an excuse.  A load
that no other session overlaps therefore finds all of it in the row, and a new row of
`StartGold` is made only when nothing was given.

**LoggerProofs** - `RecordsKept`, `WrittenInOrder`, `PromiseKept` and `DropsReported`, for any number of rolls,
failed openings and exceptions.  Where the back end,
main and a crashing thread are tells which buffers are empty (`Places`): the back end ends only with
both empty, so the buffers that the switch throws away hold nothing.  `EachOnce`: `kept` are the numbers
in the files, the three buffers and among the lost, as many as these add up to, and the number of a
call that has not queued its record yet is not among them.  `Ordered`: in each buffer and from file to
queue the records of one thread rise, and a busy call's number is above all of them; a thread writes
directly only in mode Sync, when the buffers are empty, or after giving up.  `Numbered`: every sequence
number given belongs to a record, lost ones included, and up to `lastSeq` of the batch being written none
of them is in the queue, so that publishing it is true; `Promised` compares what waits have vouched
for with what was published.  `ErrorsForced` says where the written ERRORs are: on the disk, in a file that
a roll has closed, or in a durable batch (or a crashing thread's) whose flush is to come.  `Reported`: the drops that no note has told of
have a record behind them in the queue, since a TRACE is dropped only when the queue is full.

Each proof has the form Init => Inv, Inv /\ [Next]_vars => Inv', Inv => property, with one step for
each action; the inductive invariants were model-checked before they were proved.

## 7. What is only model-checked, and what is not modelled

Only model-checked:

* Liveness (`EveryJobRuns`, `SentOrStranded`, `ClearReturns`, `SilentIsSwept`, `EarnedIsSaved`,
  `EveryRecordIsWritten`, and the fair half of `ImplementsPacketStream`), which is out of the prover's
  reach.
* `ClientFramesIntact` and `HeldWhileInFlight`, the two findings, are false.

Abstractions to be aware of:

* Weak memory.  The atomics are modelled as sequentially consistent.
* `shared_ptr` races.  `Player::_session` and `GameSession::_player` are read and written by several
  threads without synchronisation; the models treat each access as atomic.
* `pushOnly` of `JobQueue::Push` is never passed and is left out.
* The DB health check is a choice; the client library of MySQL is a query that returns or throws.
* One room, as `GameServer.cpp` creates one.  A session may send C_ENTER_GAME several times; in
  the run one session does, once for each of two characters.
* AOI queries (`GameRoom.cpp:412-449`) compare float distances of the players in a square of cells.  They
  change nothing but counters and are left out: at the border of a cell, where float32 rounds, and far away, where the
  cast to int32 overflows, they need not find what a walk over all players finds, and nothing
  here says so.  What is checked is that the grid they read is right.
* Positions take the way through the text of a query unchanged (six decimals in the code).
* In `GameWorld` AutoSave is queued by its timer or at the shutdown at any time, up to a bound; that the
  timer renews itself is in `PlayerStore`.  An AutoSave that throws, and with it ends the chain of
  timers, is in neither.
* The shutdown's wait of one second (`GameServer.cpp:156`) is long enough: `PlayerStore` lets the
  queues run dry.  That Clear then waits for the DB jobs is `DBConnectionPool!FlushedByClear`.
* `Login` leaves out the comparison of the password and payloads that are no number.
* `Logger` leaves out records before Init, level filters, a file that is switched off, the console, and a
  PanicFlush that does not get its locks within 100 ms (which then writes beside the back end).  Which
  records are of another day is left open, so that any record may roll the file.
* `ClientReceive` takes a size read inside a packet for one of `Junk`, and leaves out size 0, on which
  the client's loop does not end.

Not modelled, and why: the start-up order (sequential), configuration and fault points (read once),
buffers and socket wrappers (sequential, no shared state), `GlobalQueue` (no user), the client beyond
its receive loop (one thread; rendering, input, UI), the dummy client, tests, tools and
infrastructure.  Generated protocol code, protobuf and abseil headers and `json.hpp`, which are most
of the repository's lines, are not the project's own logic.

## 8. Plan

1. *(done)* `MpscQueue`, `LockFreeQueue`, `SerialExecutor`, `JobQueue`, `SessionSend`, `GameRoom`,
   `GameWorld`, `DBConnectionPool`; proofs of JobQueue, SessionSend and DBConnectionPool.
2. *(done)* `SessionLifecycle`: accept, receive and disconnect events with their references, Service
   and sweeper, with proofs of all its invariants.
3. *(done)* `PlayerStore`, with the timers of AutoSave and the shutdown; `PacketFraming` with
   `PacketStream`; `ClientReceive`; `Login`; `Logger`.
4. *(done)* Proofs of `OneCharacter` and `TicketSpent` of Login.
5. *(done)* Proofs of `FlushedByClear`; of `WellLinked`, `MemorySafe` and the refinement of LockFreeQueue;
   of the order and the refinement of JobQueue; of `WireOrder`; of all invariants of GameWorld and Logger;
   of `LeftIsSaved` of PlayerStore; of `FramesIntact`, `RoomToReceive` and the steps of the refinement of PacketFraming.
