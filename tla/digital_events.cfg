\* The alarm poller with exceptions, a crash and acknowledgements.
SPECIFICATION Spec
CONSTANTS
    Flags <- MCFlags
    Digits <- MCDigits
    Underscore = 10
    MaxInst = 2
    Maps <- MCMaps
    Groups <- MCGroups
    FlagSeq <- MCFlagSeq
    Disabled = {}
    Silent = {"ctl"}
    Mapped = {"f13", "f39"}
    MaxChanges = 4
    MaxFaults = 1
    MaxAcks = 1
INVARIANTS
    TypeOK
    TableFollowsRedis
    StatusFollowsRedis
    OnlyNewestOpen
    AnnouncedBeforeRecorded
    AnnouncedMatches
PROPERTIES
    RowsOnlyAdvance
    AckLostOnlyToRecovery
