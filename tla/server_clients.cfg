\* Two clients of two threads that die only between calls, each with one
\* engine at a time; more threads than workers; tables that are larger than needed.
SPECIFICATION Spec
CONSTANTS
    p1 = p1
    p2 = p2
    e1 = e1
    e2 = e2
    c1 = c1
    c2 = c2
    c3 = c3
    Null = Null
    Pids = {p1, p2}
    Engines = {e1, e2}
    Codecs = {c1, c2, c3}
    NumClients = 2
    NumEngines = 2
    NumCodecs = 3
    ThreadsPerClient = 2
    NumWorkers = 3
    EnginesPerClient = 1
    CodecsFirst = TRUE
    IdleCrashOnly = TRUE
    PidReuse = TRUE
SYMMETRY Symmetry
INVARIANTS
    OppMatchesUse
    HeldAreLive
    CallsOnLiveHandles
    CloseFindsNoCodec
    RegistryExact
    DeadOwnNothing
    DeadHaveNoSlot
PROPERTY
    OwnershipKept
