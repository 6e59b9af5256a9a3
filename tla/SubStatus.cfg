\* One installing thread beside the delivering one, two watchers, two
\* installs and two establishments.
CONSTANTS
    Callers = {c1}
    Loop = loop
    Watchers = {w1, w2}
    None = None
    MaxGeneration = 2
    MaxInstalls = 2
SPECIFICATION FairSpec
CHECK_DEADLOCK FALSE
INVARIANTS
    WatcherIsNotMisled
    OnlyTheMutexBlocks
PROPERTIES
    CallsReturn
