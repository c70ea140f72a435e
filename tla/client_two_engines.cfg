\* Two engines open at a time, for which the use count is wrong: calls fail,
\* but init and deinit do not mix and every call returns.  The only codec is the
\* garbage VIDDEC3_create may return: none matters to init and deinit.
SPECIFICATION FairSpec
CONSTANTS
  Threads = {t1, t2}
  Engines = {e1, e2}
  Codecs = {}
  Conns = {r1, r2}
  Null = Null
  Garbage = Garbage
  MaxSessions = 2
  RcmMayFail = TRUE
INVARIANTS TypeOK IpcUnderConnection
PROPERTIES AllCallsReturn
