\* What the poller gets done in the end, when its steps are taken.
SPECIFICATION FairSpec
CONSTANTS
    Flags <- MCFlags
    Digits <- MCDigits
    Underscore = 10
    MaxInst = 2
    Maps <- MCMaps
    Groups <- MCGroups
    FlagSeq <- MCFlagSeq
    Disabled = {"ctl"}
    Silent = {}
    Mapped = {"f13", "f39"}
    MaxChanges = 3
    MaxFaults = 1
    MaxAcks = 1
PROPERTIES
    EventuallyRecorded
    EventuallyRecovered
