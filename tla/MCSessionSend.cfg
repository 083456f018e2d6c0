SPECIFICATION FairSpec
CONSTANTS
  Threads = {t1, t2, t3}
  Messages = {m1, m2, m3}
  SocketErrors = {"reset", "other"}
  Nobody = Nobody
INVARIANTS EventHasOneUser WireOrder
PROPERTY SentOrStranded
\* everything was sent, or the connection is gone
CHECK_DEADLOCK FALSE
