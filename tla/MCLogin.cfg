SPECIFICATION LoginSpec
CONSTANTS
  Requests = {r1, r2, r3}
  LoginSessions = {s1, s2}
  NoTicket = NoTicket
SYMMETRY Symmetry
INVARIANTS OneCharacter TicketSpent
