\* Dispatches nested two deep on two threads, every kind of document.
CONSTANTS
    Names = {"a", "b"}
    Threads = {t1, t2}
    Inbound <- MCInbound
    MaxDepth = 2
SPECIFICATION Spec
SYMMETRY Symmetry
INVARIANTS
    HandlersSeeTheirCaller
    WholeOrUnknown
    NeverWidens
