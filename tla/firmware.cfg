\* Two workers, and a heap that has room for the manager of HDVICP, unless
\* its blocks leave no gap for the last one, and for one codec but not for two.
SPECIFICATION FairSpec
CONSTANTS
    Workers = {w1, w2}
    Boot = Boot
    HeapSize = 104
    BufferSize = 8
    HandleSize = 4
    ManagerTab <- MCManagerTab
    Peers <- MCPeers
    Symbols <- MCSymbols
INVARIANTS
    TypeOK
    NothingUndefined
    BlocksOwned
    HeaderFits
    ResetOrdered
    ServesWhenReady
PROPERTY
    BootEnds
CHECK_DEADLOCK FALSE
