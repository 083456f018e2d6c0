------------------------------- MODULE GameRoom -------------------------------
(***************************************************************************)
(* GameServer/Game/Room/GameRoom.cpp: who is in the room (_players), where *)
(* the uniform grid files them (_sectors), and which players each client   *)
(* has been shown (S_SPAWN) and not yet hidden (S_DESPAWN).                *)
(*                                                                         *)
(* Every operation is a job of the room's JobQueue and so one atomic step  *)
(* of the room (JobQueue!ImplementsSerial).  The module has no Next of its *)
(* own: GameWorld says when which job runs.                                *)
(*                                                                         *)
(* A Player object is a member of Objects; the id under which _players and *)
(* _sectors know it is IdOf[object], and two objects of one character have *)
(* the same id.  A position is a value of its own; of its float coordinates*)
(* nothing matters but the cell they fall into.  The distance test of an   *)
(* AOI query reads this state and changes none of it: it is left out.      *)
(***************************************************************************)
EXTENDS Naturals, FiniteSets

CONSTANTS Objects,    \* Player objects
          Ids,        \* player ids
          IdOf,       \* object -> its id
          Positions,  \* places a player can be
          CellOf,     \* position -> the cell GetSectorIndex computes for it
          None        \* no object

ASSUME PlacesAssumption == Positions # {} /\ Positions \subseteq DOMAIN CellOf
ASSUME ObjectsAssumption == IdOf \in [Objects -> Ids] /\ None \notin Objects

VARIABLES players,  \* _players: id -> the object, None when the id is not in it
          sectors,  \* _sectors, as the set of its pairs <<cell, id>>
          pos,      \* object -> its PosInfo
          inRoom,   \* the objects whose _room is set
          shown,    \* object -> the ids its client has been shown and not hidden since
          muddled   \* history: the ids with two objects, or moved by an object that had left

roomVars == <<players, sectors, pos, inRoom, shown, muddled>>

(* Where a new character starts.                                           *)
Origin == CHOOSE p \in Positions : TRUE

(* GetSectorIndex: division, floor and cast, whose rounding (and overflow, *)
(* far away) is in CellOf; the same coordinates give the same cell.        *)
Sector(p) == CellOf[p]

RoomTypeOK ==
  /\ players \in [Ids -> Objects \cup {None}]
  /\ sectors \subseteq {Sector(p) : p \in Positions} \X Ids
  /\ pos \in [Objects -> Positions]
  /\ inRoom \subseteq Objects
  /\ shown \in [Objects -> SUBSET Ids]
  /\ muddled \subseteq Ids

RoomInit ==
  /\ players = [i \in Ids |-> None]
  /\ sectors = {}
  /\ pos = [o \in Objects |-> Origin]
  /\ inRoom = {}
  /\ shown = [o \in Objects |-> {}]
  /\ muddled = {}

Present == {i \in Ids : players[i] # None}

IsMember(o) == players[IdOf[o]] = o

(* What Broadcast changes on the screens: screen[o] for the clients of the *)
(* members whose Player::Send reaches a connected session.                 *)
Broadcast(members, live, screen) ==
  shown' = [o \in Objects |-> IF o \in members \cap live THEN screen[o] ELSE shown[o]]

-----------------------------------------------------------------------------
(* Enter with the newcomer's spawn sent to the members in `to`.            *)
EnterTelling(o, to, live) ==
  LET id == IdOf[o]
      here == Present \cup {id}
      members == {u \in Objects : IsMember(u) /\ IdOf[u] # id} \cup {o}
  IN  /\ players' = [players EXCEPT ![id] = o]
      /\ inRoom' = inRoom \cup {o}
      /\ sectors' = sectors \cup {<<Sector(pos[o]), id>>}
      /\ Broadcast(members \cap (to \cup {o}), live,
                   [u \in Objects |-> shown[u] \cup (IF u = o THEN here ELSE {id})])
      /\ muddled' = IF id \in Present THEN muddled \cup {id} ELSE muddled
      /\ UNCHANGED pos

(* Mutant of Enter: the spawn goes to players nearby only, as it did before*)
(* V19.                                                                    *)
EnterNearby(o, live) ==
  EnterTelling(o, {u \in Objects : Sector(pos[u]) = Sector(pos[o])}, live)

(* Enter: the object takes its id's place in _players, whoever had it; the *)
(* grid files it; the whole room, itself included, is told of it, and it   *)
(* is told of everybody else.                                              *)
Enter(o, live) == EnterTelling(o, Objects, live)

(* Leave, with the room's reference of the object left at `rooms`.         *)
LeaveRoom(o, live, rooms) ==
  LET id == IdOf[o]
  IN  /\ sectors' = sectors \ {<<Sector(pos[o]), id>>}
      /\ IF id \in Present
           THEN /\ players' = [players EXCEPT ![id] = None]
                /\ inRoom' = rooms
                /\ Broadcast({u \in Objects : IsMember(u) /\ IdOf[u] # id}, live,
                             [u \in Objects |-> shown[u] \ {id}])
           ELSE UNCHANGED <<players, inRoom, shown>>
      /\ UNCHANGED <<pos, muddled>>

(* Mutant of Leave: SetRoom(nullptr) is forgotten.                         *)
LeaveKeepingRoom(o, live) == LeaveRoom(o, live, inRoom)

(* Leave: the grid drops the id from the object's cell, _players drops the *)
(* id whichever object has it, the room is told.  Nothing else happens if  *)
(* the id was not there.  (The snapshot it saves first is in GameWorld.)   *)
Leave(o, live) == LeaveRoom(o, live, inRoom \ {o})

(* HandleMove, with the grid's entry moved from the cell `from`.  The code *)
(* does not ask whether the object is still in the room.                   *)
MoveFrom(o, p, from) ==
  LET id == IdOf[o]
  IN  /\ pos' = [pos EXCEPT ![o] = p]
      /\ sectors' = IF from = Sector(p) THEN sectors
                    ELSE (sectors \ {<<from, id>>}) \cup {<<Sector(p), id>>}
      /\ muddled' = IF IsMember(o) THEN muddled ELSE muddled \cup {id}
      /\ UNCHANGED <<players, inRoom, shown>>

(* Mutant of HandleMove: the old coordinates are read after CopyFrom.      *)
HandleMoveTooLate(o, p) == MoveFrom(o, p, Sector(p))

HandleMove(o, p) == MoveFrom(o, p, Sector(pos[o]))

-----------------------------------------------------------------------------
(* GameRoom.h:62, "_sectors must be updated together with _players": the   *)
(* grid files every player once, in the cell of where it is now, and       *)
(* nobody else, so that a query looks for each where it is.  The code      *)
(* loses this for an id with two objects at a time and for one whose move  *)
(* runs after its leave.                                                   *)
GridFollowsPlayers ==
  {e \in sectors : e[2] \notin muddled} =
    {<<Sector(pos[players[i]]), i>> : i \in Present \ muddled}

(* Handlers reach the room through Player::_room: outside the muddled ids, *)
(* it is set exactly for the objects in _players.                          *)
RoomKnowsMembers ==
  \A o \in Objects : IdOf[o] \notin muddled => (o \in inRoom <=> IsMember(o))

=============================================================================
