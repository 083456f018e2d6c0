SPECIFICATION Spec
CONSTANTS
  a = a
  b = b
  s1 = s1
  s2 = s2
  a1 = a1
  a2 = a2
  b1 = b1
  north = north
  south = south
  coast = coast
  None = None
  Objects = {a1, a2, b1}
  Ids = {a, b}
  Sessions = {s1, s2}
  IdOf <- MCIdOf
  SessionOf <- MCSessionOf
  Positions = {north, south, coast}
  CellOf <- MCCellOf
  DbWorkers = 2
  MaxMoves = 1
  MaxLost = 2
  MaxAutoSaves = 1
CONSTRAINT Few
INVARIANTS ScreensAgree EnterGameFirst   GhostsEnterLate SavedWhereLeft
\* every session is closed and saved
CHECK_DEADLOCK FALSE
