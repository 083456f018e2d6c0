-------------------------------- MODULE Login --------------------------------
(***************************************************************************)
(* How a client proves who it is (AuthController.cs, ServerPacketHandler): *)
(* a web request finds or creates the account's character and leaves a     *)
(* ticket for it in Redis; the client hands the ticket to the game server, *)
(* which reads it, deletes it and binds the character to the session;      *)
(* C_ENTER_GAME loads the character that is bound.                         *)
(*                                                                         *)
(* The requests and sessions followed are those of one account.  A query   *)
(* of a request, or a command to Redis, is a step of its own: awaits lie   *)
(* between them in the controller, and I/O workers handle the packets of   *)
(* different sessions at once.  The ticket of request r is called r: it is *)
(* a new GUID.                                                             *)
(*                                                                         *)
(* Init, Next and the like carry the module's name, so that the module can *)
(* be extended beside PlayerStore.                                         *)
(***************************************************************************)
EXTENDS Naturals, FiniteSets

CONSTANTS Requests,   \* requests to log in for the account
          LoginSessions,   \* sessions of the game server
          NoTicket    \* what a client without a ticket sends

ASSUME LoginAssumption == NoTicket \notin Requests

VARIABLES players,    \* PlayerId of the account's rows in Player: 1, 2, ...
          stage,      \* request -> how far Login is
          chosen,     \* request -> the PlayerId it has, 0 at first
          tickets,    \* the tickets in Redis
          value,      \* ticket -> the value it was stored with
          read,       \* session -> the ticket its handler has read and not deleted yet
          playerId,   \* session -> _playerId, 0 before C_LOGIN
          cut,        \* sessions for which Disconnect was called
          loaded,     \* session -> the characters LoadPlayerTask was called for
          logins,     \* history: <<session, ticket>> logged in
          contested,  \* history: tickets deleted while another handler had read them
          raced       \* history: two requests found no character at a time

webVars == <<players, stage, chosen, value, raced>>
gameVars == <<read, playerId, cut, loaded, logins, contested>>
loginVars == <<webVars, tickets, gameVars>>

LoginTypeOK ==
  /\ players \subseteq Nat /\ IsFiniteSet(players)
  /\ stage \in [Requests -> {"find", "create", "issue", "answered", "failed"}]
  /\ chosen \in [Requests -> Nat] /\ value \in [Requests -> Nat]
  /\ tickets \subseteq Requests
  /\ read \in [LoginSessions -> Requests \cup {NoTicket}]
  /\ playerId \in [LoginSessions -> Nat] /\ loaded \in [LoginSessions -> SUBSET Nat]
  /\ cut \subseteq LoginSessions
  /\ logins \subseteq LoginSessions \X Requests
  /\ contested \subseteq Requests /\ raced \in BOOLEAN

(* The account exists; it may have a character.                            *)
LoginInit ==
  /\ players \in {{}, {1}}
  /\ stage = [r \in Requests |-> "find"]
  /\ chosen = [r \in Requests |-> 0] /\ value = [r \in Requests |-> 0]
  /\ tickets = {}
  /\ read = [s \in LoginSessions |-> NoTicket]
  /\ playerId = [s \in LoginSessions |-> 0] /\ loaded = [s \in LoginSessions |-> {}]
  /\ cut = {} /\ logins = {} /\ contested = {} /\ raced = FALSE

Goto(r, next) == stage' = [stage EXCEPT ![r] = next]

-----------------------------------------------------------------------------
(* AuthController.Login of request r, once the password is right.          *)

(* FirstOrDefaultAsync over the account's characters, which sees `found`.  *)
FindAmong(r, found) ==
  /\ stage[r] = "find"
  /\ IF found = {}
       THEN /\ Goto(r, "create") /\ UNCHANGED chosen
            /\ raced' = (raced \/ \E q \in Requests \ {r} : stage[q] = "create")
       ELSE /\ Goto(r, "issue") /\ UNCHANGED raced
            /\ \E p \in found : chosen' = [chosen EXCEPT ![r] = p]
  /\ UNCHANGED <<players, value, tickets, gameVars>>

(* Mutant of FindPlayer: the account's character is not looked for.        *)
FindNobody(r) == FindAmong(r, {})

FindPlayer(r) == FindAmong(r, players)

(* SaveChangesAsync: AUTO_INCREMENT gives the id.  No index of the table   *)
(* keeps AccountId unique.                                                 *)
CreatePlayer(r) ==
  /\ stage[r] = "create"
  /\ LET new == Cardinality(players) + 1
     IN players' = players \cup {new} /\ chosen' = [chosen EXCEPT ![r] = new]
  /\ Goto(r, "issue")
  /\ UNCHANGED <<value, tickets, raced, gameVars>>

(* StringSetAsync with a time to live, and Ok(ticket).                     *)
IssueTicket(r) ==
  /\ stage[r] = "issue"
  /\ tickets' = tickets \cup {r} /\ value' = [value EXCEPT ![r] = chosen[r]]
  /\ Goto(r, "answered")
  /\ UNCHANGED <<players, chosen, raced, gameVars>>

(* A query or the command to Redis throws: no ticket is handed out.        *)
RequestFails(r) ==
  /\ stage[r] \in {"find", "create", "issue"}
  /\ Goto(r, "failed")
  /\ UNCHANGED <<players, chosen, value, tickets, raced, gameVars>>

(* The time to live ends.                                                  *)
Expire(t) ==
  /\ t \in tickets /\ tickets' = tickets \ {t}
  /\ UNCHANGED <<webVars, gameVars>>

-----------------------------------------------------------------------------
(* The game server.  A session that was told to disconnect still has the   *)
(* packets it already received handled; one that is logged in may log in   *)
(* again.                                                                  *)

Disconnect(s) == cut' = cut \cup {s}

(* C_LOGIN: get(key).  No such key, or an error of Redis: disconnected.    *)
GetTicket(s, t) ==
  /\ read[s] = NoTicket
  /\ t \in Requests => stage[t] = "answered"
  /\ \/ t \in tickets /\ read' = [read EXCEPT ![s] = t] /\ UNCHANGED cut
     \/ Disconnect(s) /\ UNCHANGED read
  /\ UNCHANGED <<webVars, tickets, playerId, loaded, logins, contested>>

(* C_LOGIN: del(key), which leaves `rest`, and SetPlayerId.                *)
Delete(s, rest) ==
  LET t == read[s] IN
  /\ t # NoTicket
  /\ tickets' = rest
  /\ playerId' = [playerId EXCEPT ![s] = value[t]]
  /\ logins' = logins \cup {<<s, t>>}
  /\ contested' = IF \E o \in LoginSessions \ {s} : read[o] = t THEN contested \cup {t} ELSE contested
  /\ read' = [read EXCEPT ![s] = NoTicket]
  /\ UNCHANGED <<webVars, cut, loaded>>

(* Mutant of DelTicket: the ticket stays in Redis.                         *)
DelNothing(s) == Delete(s, tickets)

DelTicket(s) == Delete(s, tickets \ {read[s]})

(* An error of Redis, before or after it deleted the ticket.               *)
DelFails(s) ==
  /\ read[s] # NoTicket
  /\ tickets' \in {tickets, tickets \ {read[s]}}
  /\ read' = [read EXCEPT ![s] = NoTicket]
  /\ Disconnect(s)
  /\ UNCHANGED <<webVars, playerId, loaded, logins, contested>>

(* C_ENTER_GAME: LoadPlayerTask for the session's character, if it has one.*)
EnterGameBound(s) ==
  /\ read[s] = NoTicket
  /\ IF playerId[s] = 0
       THEN Disconnect(s) /\ UNCHANGED loaded
       ELSE loaded' = [loaded EXCEPT ![s] = @ \cup {playerId[s]}] /\ UNCHANGED cut
  /\ UNCHANGED <<webVars, tickets, read, playerId, logins, contested>>

LoginNext ==
  \/ \E r \in Requests : \/ FindPlayer(r) \/ CreatePlayer(r) \/ IssueTicket(r)
                         \/ RequestFails(r) \/ Expire(r)
  \/ \E s \in LoginSessions : \/ \E t \in Requests \cup {NoTicket} : GetTicket(s, t)
                         \/ DelTicket(s) \/ DelFails(s) \/ EnterGameBound(s)

LoginSpec == LoginInit /\ [][LoginNext]_loginVars

-----------------------------------------------------------------------------
(* Whatever is loaded is a character of the account; the account has one   *)
(* character, and all its sessions play that one, unless two requests      *)
(* found none at the same time.                                            *)
OneCharacter ==
  /\ LoginTypeOK
  /\ UNION {loaded[s] : s \in LoginSessions} \subseteq players
  /\ \A r \in Requests : r \in tickets => value[r] \in players
  /\ Cardinality(players) > 1 => raced

(* A ticket that let a session in is gone for good, and let in a second    *)
(* session only if both had read it before one of them deleted it.         *)
TicketSpent ==
  \A s, o \in LoginSessions, t \in Requests :
    <<s, t>> \in logins =>
      /\ t \notin tickets
      /\ <<o, t>> \in logins => o = s \/ t \in contested

=============================================================================
