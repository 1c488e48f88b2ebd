SPECIFICATION Spec
CONSTANTS
    Loop = {"tls", "ws", "client"}
    NContexts = 3
    MaxPeers = 2
    MaxErrors = 1
    MaxConnects = 3
INVARIANTS
    OneAccept
PROPERTIES
    PeersAreServed
    ShutdownCompletes
CHECK_DEADLOCK FALSE
