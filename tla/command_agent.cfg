\* Two PCSs, two commands, readings that change, exceptions and a restart.
SPECIFICATION Spec
CONSTANTS
    NPcs = 2
    Powers <- MCPowers
    SocLevels = {"below", "max"}
    PvPowers = {50, 100}
    Keyed = {1, 2}
    MaxCommands = 2
    MaxWrites = 1
    MaxFaults = 1
    MaxCrashes = 1
INVARIANTS
    TypeOK
    SentOncePerLife
    DirectionKept
PROPERTIES
    CommandsInOrder
    SentWithinLimits
