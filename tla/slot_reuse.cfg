\* Two clients that work with two engines each and die only between calls.
SPECIFICATION Spec
CONSTANTS
    p1 = p1
    p2 = p2
    e1 = e1
    e2 = e2
    e3 = e3
    Null = Null
    Pids = {p1, p2}
    Engines = {e1, e2, e3}
    Codecs = {}
    NumClients = 2
    NumEngines = 2
    NumCodecs = 1
    ThreadsPerClient = 2
    NumWorkers = 3
    EnginesPerClient = 2
    CodecsFirst = TRUE
    IdleCrashOnly = TRUE
    PidReuse = TRUE
INVARIANT
    HeldAreLive
