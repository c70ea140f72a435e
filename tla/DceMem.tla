------------------------------- MODULE DceMem -------------------------------
(***************************************************************************)
(* The blocks in which the arguments of the codec calls travel (src/dce.c, *)
(* "Memory allocation/mapping").  The application's processor (A9) maps    *)
(* them uncached.  The co-processor (M3) sees them through a cache with    *)
(* write-back: a line is fetched when it is touched, keeps what was        *)
(* written until it is cleaned or evicted, and nothing tells it of writes  *)
(* on the other side.  Contents are abstracted to whether they include all *)
(* the writes made, whoever made them: what either side writes to a block  *)
(* is part of it, so a write does not bring back another one.              *)
(***************************************************************************)
CONSTANTS
    Blocks,        \* the argument blocks an application may have
    Leftover       \* those whose memory a former user may have left in the cache

ASSUME MemAssumption == Leftover \subseteq Blocks

VARIABLES
    allocated,     \* blocks that dce_alloc returned and dce_free has not had
    cached,        \* blocks with lines in the cache of the M3
    dirty,         \* those of them that the M3 has written to
    oldLine,       \* those of them whose lines lack a write
    oldMemory      \* blocks whose memory lacks a write

mem_vars == <<allocated, cached, dirty, oldLine, oldMemory>>

MemTypeOK == /\ allocated \subseteq Blocks
             /\ cached \subseteq Blocks
             /\ dirty \subseteq cached
             /\ oldLine \subseteq cached
             /\ oldMemory \subseteq Blocks

\* Nobody invalidates what the cache has of the memory of a block to come.
MemInit == /\ allocated = {}
           /\ cached \in SUBSET Leftover
           /\ dirty \in SUBSET cached
           /\ oldLine = {}
           /\ oldMemory = dirty

\* Lines the M3 may have of S are not told of a write on the A9.
missed(S) == /\ oldLine' = oldLine \cup (S \cap cached)
             /\ UNCHANGED <<cached, dirty>>

\* The A9 writes to the blocks of S.
write(S) == missed(S) /\ UNCHANGED <<allocated, oldMemory>>

\* A header and sz zeroed bytes each, so that the memory has nothing else; the
\* tiler is assumed to have room, as dce_alloc assumes.
dce_alloc(S) == /\ allocated' = allocated \cup S
                /\ oldMemory' = oldMemory \ S
                /\ missed(S)

dce_free(S) == /\ allocated' = allocated \ S
               /\ UNCHANGED <<cached, dirty, oldLine, oldMemory>>

(***************************************************************************)
(* What the A9 hands over for a pointer is the address stored in the       *)
(* header, or zero, which is no block, for NULL: a block not allocated.    *)
(***************************************************************************)
virt2ducati(S) == S \cap allocated

\* A codec on the M3 reads the blocks of R and writes those of W.
touch(R, W) ==
    /\ cached' = cached \cup R \cup W
    /\ dirty' = dirty \cup W
    /\ oldLine' = oldLine \cup (((R \cup W) \ cached) \cap oldMemory)
    /\ oldMemory' = oldMemory \cup W
    /\ UNCHANGED allocated

\* The lines of b leave the cache; what the M3 wrote reaches the memory,
\* and if the lines lack a write, it is undone there.
write_back(b) ==
    /\ cached' = cached \ {b}
    /\ dirty' = dirty \ {b}
    /\ oldLine' = oldLine \ {b}
    /\ oldMemory' = IF b \notin dirty THEN oldMemory
                    ELSE IF b \in oldLine THEN oldMemory \cup {b}
                    ELSE oldMemory \ {b}
    /\ UNCHANGED allocated

\* Invalidation without the write-back.
slip_dce_clean_inv(b) ==
    /\ cached' = cached \ {b}
    /\ dirty' = dirty \ {b}
    /\ oldLine' = oldLine \ {b}
    /\ UNCHANGED <<allocated, oldMemory>>

\* Write-back without the invalidation.
slip_dce_clean_wb(b) ==
    /\ dirty' = dirty \ {b}
    /\ oldMemory' = oldMemory \ {b}
    /\ UNCHANGED <<allocated, cached, oldLine>>

\* Cache_wbInv over the size found in the header of b.
dce_clean(b) == write_back(b)

\* The cache needs room.
evict == \E b \in cached : write_back(b)

\* What a read on the M3 would return now lacks a write.
Outdated(b) == IF b \in cached THEN b \in oldLine ELSE b \in oldMemory
=============================================================================
