\* Two engines open at a time: closing one disconnects the process.
SPECIFICATION Spec
CONSTANTS
  Threads = {t1, t2}
  Engines = {e1, e2}
  Codecs = {c1}
  Conns = {r1, r2}
  Null = Null
  Garbage = Garbage
  MaxSessions = 2
  RcmMayFail = FALSE
SYMMETRY Symmetry
INVARIANTS ConnectedWhileOpen
