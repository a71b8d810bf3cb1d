\* The map-reduce tasks over three measurements of two sites, two runs at a time.
SPECIFICATION FairSpec
CONSTANTS
    Tasks = {"site", "whole", "example"}
    Sites = {1, 2}
    Whole = 0
    Documents <- MCDocuments
    Bare = Bare
    NaN = NaN
    None = None
    PerHour = 2
    Runs = {r1, r2}
    MaxDocs = 3
    MaxFaults = 1
INVARIANTS
    TypeOK
    ExactInOnePass
    CountExact
    NeverOverstated
PROPERTIES
    FreshWhenAlone
    EventuallyCovered
\* The timers are stopped for good in the end.
CHECK_DEADLOCK FALSE
