\* A client that may die while the server creates a codec for it.
SPECIFICATION Spec
CONSTANTS
    p1 = p1
    e1 = e1
    c1 = c1
    Null = Null
    Pids = {p1}
    Engines = {e1}
    Codecs = {c1}
    NumClients = 1
    NumEngines = 1
    NumCodecs = 1
    ThreadsPerClient = 1
    NumWorkers = 3
    EnginesPerClient = 1
    CodecsFirst = TRUE
    IdleCrashOnly = FALSE
    PidReuse = FALSE
CHECK_DEADLOCK FALSE
INVARIANT
    DeadOwnNothing
