\* One output buffer more than the decoder keeps, one frame in two calls, so
\* that the free list can run empty; four frames, then the end of the input.
\* Two blocks, one of them only read by the codec, whose memory a former user
\* may have left in the cache.
SPECIFICATION FairSpec
CONSTANTS
    Blocks <- MCBlocks
    Leftover = {"status", "inArgs"}
    Buffers = {b1, b2, b3}
    NoBuffer = NoBuffer
    MaxHeld = 2
    Frames = 4
    MaxFields = 1
INVARIANTS
    TypeOK
    ArgumentsCurrent
    ResultsCurrent
    
    FreeListSound
    EnoughBuffers
    CodecGoneAtClose
PROPERTIES
    LoanKept
    Terminates
CHECK_DEADLOCK FALSE
