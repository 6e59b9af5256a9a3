\* Main thread and two workers over a Qt-affine transport.
CONSTANTS
    Threads = {main, w1, w2}
    Main = main
    Clients = {c1, c2, c3}
    Null = Null
    Waiting = Waiting
    QtAffine = TRUE
SPECIFICATION FairSpec
CHECK_DEADLOCK FALSE
INVARIANTS
    UsesTheLivePublishedClient
    NoClientLeaked
    NobodyBlocks
PROPERTIES
    ImplementsCreateOnce
    EnsureReturns
