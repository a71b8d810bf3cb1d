\* The direction of the protection's command.
SPECIFICATION Spec
CONSTANTS
    NPcs = 1
    Powers = {60}
    SocLevels = {"below", "inside"}
    PvPowers = {50}
    Keyed = {1}
    MaxCommands = 1
    MaxWrites = 1
    MaxFaults = 0
    MaxCrashes = 0
INVARIANTS
    ProtectionCharges
