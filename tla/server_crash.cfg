\* Two clients that may die in the middle of a call, one worker for both,
\* one slot for both.  In the end all may be dead.
SPECIFICATION FairSpec
CONSTANTS
    p1 = p1
    p2 = p2
    e1 = e1
    e2 = e2
    c1 = c1
    Null = Null
    Pids = {p1, p2}
    Engines = {e1, e2}
    Codecs = {c1}
    NumClients = 1
    NumEngines = 1
    NumCodecs = 1
    ThreadsPerClient = 1
    NumWorkers = 1
    EnginesPerClient = 1
    CodecsFirst = TRUE
    IdleCrashOnly = FALSE
    PidReuse = FALSE
CHECK_DEADLOCK FALSE
INVARIANTS
    TypeOK
    OppMatchesUse
PROPERTIES
    CallReturns
    Reclaimed
