\* The two pollers over one connection that is lost, restored and stopped.
SPECIFICATION FairSpec
CONSTANTS
    Callers <- Pollers
    Kind <- MCKind
    Reconnects <- MCReconnects
    TryCount <- MCTryCount
    Sockets = {s1, s2, s3}
    MaxLosses = 1
    None = None
    Unbound = Unbound
INVARIANTS
    TypeOK
    MasterFollowsClient
    OneOpenSocket
    TrueMeansMaster
PROPERTIES
    AnalogOutlivesFirstMaster
    Recovers
