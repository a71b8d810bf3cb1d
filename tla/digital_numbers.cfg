\* Flags No 1 and No 10 of one register: no faults, no acknowledgements.
SPECIFICATION Spec
CONSTANTS
    Flags <- MCFlags
    Digits <- MCDigits
    Underscore = 10
    MaxInst = 2
    Maps <- MCMaps
    Groups <- MCGroups
    FlagSeq <- MCFlagSeq
    Disabled = {}
    Silent = {}
    Mapped = {"f1", "f10"}
    MaxChanges = 3
    MaxFaults = 0
    MaxAcks = 0
INVARIANTS
    SetFlagHasOwnRow
