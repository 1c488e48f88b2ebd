SPECIFICATION Spec
CONSTANTS
    Relay = {r1, r2}
    Target = {t1, t2}
    SidSpace = 3
    MaxChannel = 2
    MaxStops = 1
    MaxNet = 1
INVARIANTS RegistrySound RepliesWereAsked NothingStuckPending
SYMMETRY Symmetry
CHECK_DEADLOCK FALSE
