\* Two additions to one playlist and a bulk removal, two deliveries of each.
SPECIFICATION FairSpec
CONSTANTS
    e1 = e1
    e2 = e2
    b = b
    k1 = k1
    Events = {e1, e2, b}
    Bulk = {b}
    Keys = {k1}
    KeyOf <- OneKey
    MaxDeliveries = 2
INVARIANTS
    TypeOK
    ToldOnce
    FlushIsDue
    NothingThrownAway
PROPERTIES
    CountedIsFlushed
CHECK_DEADLOCK FALSE
