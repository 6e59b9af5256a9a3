\* Two calls of any kind, every reply.
CONSTANT Calls = {k1, k2}
SPECIFICATION FairSpec
CHECK_DEADLOCK FALSE
INVARIANTS
    MemoryIsSound
    CompletesOnce
    ToldTheTruth
    NoCallSticks
PROPERTY AsyncResultCompletes
