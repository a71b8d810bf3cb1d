\* Two callbacks and two worker loops on one queue.
SPECIFICATION FairSpec
CONSTANTS
    Items = {"a", "b"}
    Nothing = "nothing"
    Producers = {"p1", "p2"}
    Consumers = {"c1", "c2"}
    MaxItems = 3
INVARIANTS
    TypeOK
    PermitsCovered
PROPERTIES
    ImplementsFifo
    EveryItemReturned
CHECK_DEADLOCK FALSE
