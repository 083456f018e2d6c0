SPECIFICATION Spec
CONSTANTS
  Threads = {t1, t2, t3}
  Messages = {m1, m2, m3}
  SocketErrors = {"reset"}
  Nobody = Nobody
SYMMETRY Symmetry
INVARIANT HeldWhileInFlight
\* everything was sent, or the connection is gone
CHECK_DEADLOCK FALSE
