\* The documented race of a ticket with the owner's destructor.
CONSTANTS
    Threads = {t1, t2, t3}
    Subs = {s1}
    Slots = {x1, x2}
    None = None
SPECIFICATION Spec
CHECK_DEADLOCK FALSE
INVARIANT RacedCallbackHasItsBox
