\* One client that works with up to three engines in two threads, with room
\* for two engines and one codec in its tables and more slots than it needs.
SPECIFICATION Spec
CONSTANTS
    p1 = p1
    e1 = e1
    e2 = e2
    e3 = e3
    c1 = c1
    c2 = c2
    Null = Null
    Pids = {p1}
    Engines = {e1, e2, e3}
    Codecs = {c1, c2}
    NumClients = 2
    NumEngines = 2
    NumCodecs = 1
    ThreadsPerClient = 2
    NumWorkers = 3
    EnginesPerClient = 3
    CodecsFirst = TRUE
    IdleCrashOnly = TRUE
    PidReuse = TRUE
SYMMETRY Symmetry
INVARIANTS
    OneSlotPerPid
    RegistryExact
