\* A command that stays current reaches every PCS.
SPECIFICATION FairSpec
CONSTANTS
    NPcs = 2
    Powers = {60}
    SocLevels = {"below", "inside"}
    PvPowers = {50}
    Keyed = {1, 2}
    MaxCommands = 2
    MaxWrites = 1
    MaxFaults = 1
    MaxCrashes = 1
PROPERTIES
    CommandArrives
