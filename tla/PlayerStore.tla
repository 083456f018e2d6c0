----------------------------- MODULE PlayerStore -----------------------------
(***************************************************************************)
(* What a character earns and what its Player row keeps (GameSession.cpp,  *)
(* GameRoom.cpp, JobTimer.cpp, GameServer.cpp).  One character is          *)
(* followed: each session that logs in for it loads the row on a DB worker *)
(* into a Player object of its own; attacks and the mailbox add gold to    *)
(* the object; Leave, the periodic AutoSave and the AutoSave of the        *)
(* shutdown write a copy of it back, through the room's queue and then the *)
(* DB queue, which several workers serve.                                  *)
(*                                                                         *)
(* The room's queue runs one job at a time (JobQueue) and DB jobs start in *)
(* the order of theirs (DBConnectionPool).  A coroutine that resumes only  *)
(* to log is left out.                                                     *)
(***************************************************************************)
EXTENDS Naturals, Sequences, SequencesExt

CONSTANTS SessionCount, \* number of sessions of the character
          DbWorkers,    \* number of DB workers
          StartGold,    \* the gold of a new character
          MaxMails,     \* bound: letters in the mailbox
          MaxGains,     \* bound: C_ATTACK and C_CHECK_MAILBOX packets handled
          MaxFailures,  \* bound: failed queries and DB jobs that throw
          MaxPending    \* bound: jobs that wait when the autosave timer fires

ASSUME StoreAssumption == /\ {StartGold, DbWorkers, SessionCount} \subseteq Nat \ {0}
                          /\ {MaxMails, MaxGains, MaxFailures, MaxPending} \subseteq Nat

(* The sessions, in the order in which they enter.                         *)
Sessions == 1..SessionCount

VARIABLES row,       \* the Gold of the character's row; 0 when there is none
          mails,     \* its rows in Mailbox
          entered,   \* sessions whose C_ENTER_GAME was handled
          closed,    \* sessions whose OnDisconnected ran
          player,    \* sessions whose _player is set
          place,     \* session -> what its object is to the room
          gold,      \* session -> _gold of its object
          acting,    \* session -> the job its packet handler is about to queue
          inRoom,    \* whose object _players holds for the character
          jobs,      \* the room's queue
          dbJobs,    \* the DB pool's unfinished jobs, in queue order
          timer,     \* the AutoSave timer: "armed" or "queued"
          server,    \* "up", "stopping" (last AutoSave queued), "saved" (it ran)
          worth,     \* history: what the character was given
          excused,   \* history: something happened that may lose gold
          gains, failures

sessionVars == <<entered, closed, player, acting, gains>>
objectVars == <<place, gold, inRoom>>
roomVars == <<timer, server>>
vars == <<row, mails, sessionVars, objectVars, jobs, dbJobs, roomVars,
          worth, excused, failures>>

RoomJobs ==
  [op : {"Enter", "Leave", "HandleAttack", "HandleCheckMailbox", "ProcessMailboxDB"},
   who : Sessions]
    \cup [op : {"Claimed"}, who : Sessions, removed : BOOLEAN]
    \cup [op : {"AutoSave"}, last : BOOLEAN]
    \cup [op : {"Save"}, gold : Nat, last : BOOLEAN]

DbJobs == [op : {"Load", "Claim"}, who : Sessions]
            \cup [op : {"Loaded"}, who : Sessions, gold : Nat]
            \cup [op : {"Write"}, gold : Nat, last : BOOLEAN, passed : BOOLEAN]

None == 0

TypeOK ==
  /\ row \in Nat /\ mails \in 0..MaxMails
  /\ entered \subseteq Sessions /\ closed \subseteq Sessions /\ player \subseteq Sessions
  /\ place \in [Sessions -> {"none", "attached", "in", "out"}]
  /\ gold \in [Sessions -> Nat]
  /\ acting \in [Sessions -> {"none", "HandleAttack", "HandleCheckMailbox"}]
  /\ inRoom \in Sessions \cup {None}
  /\ jobs \in Seq(RoomJobs) /\ dbJobs \in Seq(DbJobs)
  /\ timer \in {"armed", "queued"} /\ server \in {"up", "stopping", "saved"}
  /\ worth \in Nat /\ excused \in BOOLEAN
  /\ gains \in 0..MaxGains /\ failures \in 0..MaxFailures

(* The server has started; the character is new, or has a row.             *)
Init ==
  /\ row \in {0, StartGold} /\ worth = row
  /\ mails = MaxMails
  /\ entered = {} /\ closed = {} /\ player = {}
  /\ place = [s \in Sessions |-> "none"] /\ gold = [s \in Sessions |-> 0]
  /\ acting = [s \in Sessions |-> "none"]
  /\ inRoom = None
  /\ jobs = <<>> /\ dbJobs = <<>>
  /\ timer = "armed" /\ server = "up"
  /\ excused = FALSE /\ gains = 0 /\ failures = 0

Post(job) == jobs' = Append(jobs, job)
Excuse(reason) == excused' = (excused \/ reason)
Fails(n) == failures + n <= MaxFailures /\ failures' = failures + n

-----------------------------------------------------------------------------
(* The sessions' packets and disconnections, on I/O workers.               *)

(* C_ENTER_GAME after C_LOGIN: LoadPlayerTask up to its co_await.          *)
EnterGame(s) ==
  /\ s \notin entered /\ \A r \in 1 .. s-1 : r \in entered
  /\ entered' = entered \cup {s}
  /\ dbJobs' = Append(dbJobs, [op |-> "Load", who |-> s])
  /\ UNCHANGED <<row, mails, closed, player, acting, gains, objectVars, jobs, roomVars,
                 worth, excused, failures>>

(* C_ATTACK and C_CHECK_MAILBOX: the session has a player, it has a room.  *)
Receive(s, handler) ==
  /\ acting[s] = "none" /\ s \in player /\ place[s] = "in"
  /\ gains < MaxGains /\ gains' = gains + 1
  /\ acting' = [acting EXCEPT ![s] = handler]
  /\ UNCHANGED <<row, mails, entered, closed, player, objectVars, jobs, dbJobs,
                 roomVars, worth, excused, failures>>

(* ... and then its DoAsync.                                               *)
PostHandler(s) ==
  /\ acting[s] # "none"
  /\ Post([op |-> acting[s], who |-> s])
  /\ acting' = [acting EXCEPT ![s] = "none"]
  /\ UNCHANGED <<row, mails, entered, closed, player, gains, objectVars, dbJobs,
                 roomVars, worth, excused, failures>>

(* OnDisconnected: Leave is queued when the player has a room.             *)
OnDisconnected(s) ==
  /\ s \notin closed
  /\ closed' = closed \cup {s}
  /\ player' = player \ {s}
  /\ jobs' = IF s \in player /\ place[s] = "in"
               THEN Append(jobs, [op |-> "Leave", who |-> s]) ELSE jobs
  /\ UNCHANGED <<row, mails, entered, acting, gains, objectVars, dbJobs,
                 roomVars, worth, excused, failures>>

-----------------------------------------------------------------------------
(* The DB workers: they hold the first DbWorkers unfinished jobs, and any  *)
(* of these may be the next to end.                                        *)

Running(i, op) == i \in DOMAIN dbJobs /\ i <= DbWorkers /\ dbJobs[i].op = op
Finished(i) == dbJobs' = RemoveAt(dbJobs, i)

JobsOf(queue, ops) == \E i \in DOMAIN queue : queue[i].op \in ops

(* Another object of the character is not done with: it was just loaded,   *)
(* is in the room or on its way there, or has a copy still to be written.  *)
Overlaps(s) ==
  \/ \E t \in Sessions \ {s} : place[t] \in {"attached", "in"}
  \/ JobsOf(jobs, {"Save"}) \/ JobsOf(dbJobs, {"Write", "Loaded"})

(* The query of LoadPlayerTask.  `found`: the SELECT returned the row.  A  *)
(* SELECT that fails looks like a character without a row, which gets one  *)
(* (`inserted`) unless the INSERT fails, as it does when there is one.     *)
Load(i, found, inserted) ==
  /\ Running(i, "Load")
  /\ found => row > 0
  /\ inserted => ~found /\ row = 0
  /\ Fails(IF found \/ inserted THEN 0 ELSE 1)
  /\ dbJobs' = [dbJobs EXCEPT ![i] = [op |-> "Loaded", who |-> dbJobs[i].who,
                                      gold |-> IF found THEN row ELSE StartGold]]
  /\ row' = IF inserted THEN StartGold ELSE row
  /\ worth' = IF worth = 0 THEN StartGold ELSE worth
  /\ Excuse(Overlaps(dbJobs[i].who) \/ (~found /\ row > 0))
  /\ UNCHANGED <<mails, sessionVars, objectVars, jobs, roomVars>>

(* LoadPlayerTask resumes on the DB worker, whatever became of the session *)
(* meanwhile: the object is made and asks the room to let it in.           *)
Attach(i) ==
  /\ Running(i, "Loaded") /\ Finished(i)
  /\ LET s == dbJobs[i].who IN
       /\ place' = [place EXCEPT ![s] = "attached"]
       /\ gold' = [gold EXCEPT ![s] = dbJobs[i].gold]
       /\ player' = player \cup {s}
       /\ Post([op |-> "Enter", who |-> s])
  /\ UNCHANGED <<row, mails, entered, closed, acting, gains, inRoom, roomVars,
                 worth, excused, failures>>

(* A query throws.  LoadPlayerTask resumes with false, disconnects the     *)
(* session and ends; ProcessMailboxDB resumes with false: no gold.         *)
Throws(i) ==
  /\ Running(i, "Load") \/ Running(i, "Claim")
  /\ Finished(i) /\ Fails(1)
  /\ UNCHANGED <<row, mails, sessionVars, objectVars, jobs, roomVars, worth, excused>>

(* The UPSERT of SavePlayerToDB.  A failure is only logged.  The older     *)
(* copies still being written are overtaken.                               *)
Write(i, ok) ==
  /\ Running(i, "Write") /\ Fails(IF ok THEN 0 ELSE 1)
  /\ LET job == dbJobs[i]
         Overtaken(j) == ok /\ j < i /\ dbJobs[j].op = "Write"
     IN /\ row' = IF ok THEN job.gold ELSE row
        /\ dbJobs' = RemoveAt([j \in DOMAIN dbJobs |->
                                 IF Overtaken(j) THEN [dbJobs[j] EXCEPT !.passed = TRUE]
                                                 ELSE dbJobs[j]], i)
        /\ Excuse((~ok /\ job.last) \/ (ok /\ job.passed /\ job.gold < row))
  /\ UNCHANGED <<mails, sessionVars, objectVars, jobs, roomVars, worth>>

(* The DELETE ... LIMIT 1 of ProcessMailboxDB; its result is not looked    *)
(* at, so that the coroutine goes on with a letter or without one.         *)
Claim(i, ok) ==
  LET removed == ok /\ mails > 0 IN
  /\ Running(i, "Claim") /\ Finished(i)
  /\ Fails(IF ok THEN 0 ELSE 1)
  /\ mails' = IF removed THEN mails - 1 ELSE mails
  /\ worth' = IF removed THEN worth + 1 ELSE worth
  /\ Post([op |-> "Claimed", who |-> dbJobs[i].who, removed |-> removed])
  /\ UNCHANGED <<row, sessionVars, objectVars, roomVars, excused>>

DbStep(i) ==
  \/ Attach(i) \/ Throws(i)
  \/ \E found, inserted \in BOOLEAN : Load(i, found, inserted)
  \/ \E ok \in BOOLEAN : Write(i, ok) \/ Claim(i, ok)

-----------------------------------------------------------------------------
(* The room's jobs, one at a time; `Job(op)` is the one at the head.       *)

Job(op) == jobs # <<>> /\ Head(jobs).op = op
Who == Head(jobs).who
Done == jobs' = Tail(jobs)
DoneAndPost(job) == jobs' = Append(Tail(jobs), job)
Save(s, last) == [op |-> "Save", gold |-> gold[s], last |-> last]

(* GameRoom::Enter: the entry of the character is overwritten.             *)
Enter ==
  /\ Job("Enter") /\ Done
  /\ inRoom' = Who
  /\ place' = [place EXCEPT ![Who] = "in"]
  /\ Excuse(server = "saved" /\ gold[Who] > row)
  /\ UNCHANGED <<row, mails, sessionVars, gold, dbJobs, roomVars, worth, failures>>

(* GameRoom::Leave: a copy is queued to be saved, whether or not the       *)
(* character still has an entry; only the object that had one forgets the  *)
(* room.                                                                   *)
LeaveSaving(post) ==
  /\ Job("Leave") /\ post
  /\ inRoom' = None
  /\ place' = IF inRoom = None THEN place ELSE [place EXCEPT ![Who] = "out"]
  /\ UNCHANGED <<row, mails, sessionVars, gold, dbJobs, roomVars, worth, excused, failures>>

(* Mutant of Leave: nothing is saved.                                      *)
LeaveUnsaved == LeaveSaving(Done)

Leave == LeaveSaving(DoneAndPost(Save(Who, TRUE)))

(* AddGold, on an object that may have left the room meanwhile, or after   *)
(* the last AutoSave.                                                      *)
AddGold(s, earned) ==
  /\ gold' = [gold EXCEPT ![s] = @ + 1]
  /\ worth' = worth + earned
  /\ Excuse(place[s] = "out" \/ server = "saved")
  /\ UNCHANGED <<row, mails, sessionVars, place, inRoom, dbJobs, roomVars, failures>>

HandleAttack == Job("HandleAttack") /\ Done /\ AddGold(Who, 1)

(* ProcessMailboxDB resumes: a removed letter was counted with the DELETE. *)
Claimed == Job("Claimed") /\ Done /\ AddGold(Who, IF Head(jobs).removed THEN 0 ELSE 1)

HandleCheckMailbox ==
  /\ Job("HandleCheckMailbox")
  /\ DoneAndPost([op |-> "ProcessMailboxDB", who |-> Who])
  /\ UNCHANGED <<row, mails, sessionVars, objectVars, dbJobs, roomVars,
                 worth, excused, failures>>

(* A room job that only hands a DB job over.                               *)
HandOver(job) ==
  /\ Done /\ dbJobs' = Append(dbJobs, job)
  /\ UNCHANGED <<row, mails, sessionVars, objectVars, roomVars, worth, excused, failures>>

ProcessMailboxDB == Job("ProcessMailboxDB") /\ HandOver([op |-> "Claim", who |-> Who])

SavePlayerToDB ==
  /\ Job("Save")
  /\ HandOver([op |-> "Write", gold |-> Head(jobs).gold, last |-> Head(jobs).last,
                  passed |-> FALSE])

(* GameRoom::AutoSave, which reserves the next one: `next` is the timer.   *)
AutoSaveThen(next) ==
  /\ Job("AutoSave")
  /\ IF inRoom = None THEN Done ELSE DoneAndPost(Save(inRoom, Head(jobs).last))
  /\ timer' = next
  /\ server' = IF Head(jobs).last THEN "saved" ELSE server
  /\ UNCHANGED <<row, mails, sessionVars, objectVars, dbJobs, worth, excused, failures>>

(* Mutant of AutoSave: the next one is not reserved.                       *)
AutoSaveOnce == AutoSaveThen(timer)

AutoSave == AutoSaveThen("armed")

RoomStep ==
  \/ Enter \/ Leave \/ HandleAttack \/ Claimed \/ HandleCheckMailbox
  \/ ProcessMailboxDB \/ SavePlayerToDB \/ AutoSave

(* JobTimer::Distribute, by the main thread until the shutdown begins.     *)
Distribute ==
  /\ timer = "armed" /\ server = "up"
  /\ Len(jobs) + Len(dbJobs) < MaxPending
  /\ timer' = "queued"
  /\ Post([op |-> "AutoSave", last |-> FALSE])
  /\ UNCHANGED <<row, mails, sessionVars, objectVars, dbJobs, server, worth, excused, failures>>

(* The shutdown: BroadcastAutoSave.  Join and the pool's Clear wait until  *)
(* the queues are empty (DBConnectionPool!FlushedByClear).                 *)
BroadcastAutoSave ==
  /\ server = "up" /\ server' = "stopping"
  /\ Post([op |-> "AutoSave", last |-> TRUE])
  /\ UNCHANGED <<row, mails, sessionVars, objectVars, dbJobs, timer, worth, excused, failures>>

Next ==
  \/ \E s \in Sessions : \/ EnterGame(s) \/ PostHandler(s) \/ OnDisconnected(s)
                         \/ \E h \in {"HandleAttack", "HandleCheckMailbox"} : Receive(s, h)
  \/ \E i \in 1..DbWorkers : DbStep(i)
  \/ RoomStep \/ Distribute \/ BroadcastAutoSave

Spec == Init /\ [][Next]_vars

(* The oldest DB job ends (queries time out), the room is executed and the *)
(* clock reaches the next AutoSave.  No client has to act.                 *)
FairSpec == Spec /\ WF_vars(DbStep(1)) /\ WF_vars(RoomStep) /\ WF_vars(Distribute)

-----------------------------------------------------------------------------
Quiet ==
  /\ jobs = <<>> /\ dbJobs = <<>>
  /\ \A s \in Sessions : place[s] # "attached" /\ acting[s] = "none"
  /\ inRoom = None

(* Players who left find all they were given in their row, and the row and *)
(* the objects never hold more than that.  `excused` lists what the code   *)
(* leaves open: objects of the character that overlap, a SELECT taken for  *)
(* "no row", a last save that failed or was overtaken, gold for an object  *)
(* that has left or after the last AutoSave.                               *)
LeftIsSaved ==
  /\ TypeOK
  /\ row <= worth /\ \A s \in Sessions : gold[s] <= worth
  /\ Quiet => row = worth \/ excused

(* What a connected player, or one whose disconnection the room was never  *)
(* told of, was given, the paid letters included, reaches the row within   *)
(* some AutoSave.                                                          *)
EarnedIsSaved == []<>(row = worth \/ excused)

=============================================================================
