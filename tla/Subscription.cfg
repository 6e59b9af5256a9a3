\* Two threads and two subscriptions: tickets, cancels and the end of the
\* owners in every overlap and every caution, and what they come to.
CONSTANTS
    Threads = {t1, t2}
    Subs = {s1, s2}
    Slots = {x1, x2}
    None = None
SPECIFICATION FairSpec
CHECK_DEADLOCK FALSE
INVARIANTS
    OwnedOnce
    
PROPERTIES
    OwnerReleasesAll
    ImplementsSoleOwner
