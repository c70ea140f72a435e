\* One engine open at a time, the time of its opening and closing included.
\* Three threads, so that two are in calls while a third one waits; any
\* operation of RCM may fail.
SPECIFICATION Spec
CONSTANTS
  Threads = {t1, t2, t3}
  Engines = {e1, e2}
  Codecs = {c1, c2}
  Conns = {r1, r2}
  Null = Null
  Garbage = Garbage
  MaxSessions = 1
  RcmMayFail = TRUE
SYMMETRY Symmetry
INVARIANTS InFlightConnected ConnectedWhileOpen NoLeakedConnection
