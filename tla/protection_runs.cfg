\* The protection of a PCS that the hub has set to automatic mode.
SPECIFICATION FairSpec
CONSTANTS
    NPcs = 1
    Powers = {60}
    SocLevels = {"below", "inside"}
    PvPowers = {50}
    Keyed = {}
    MaxCommands = 0
    MaxWrites = 1
    MaxFaults = 0
    MaxCrashes = 0
PROPERTIES
    ProtectionRuns
