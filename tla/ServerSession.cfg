SPECIFICATION FairSpec
CONSTANTS
    Capacity = 2
    MaxRead = 2
    SizeT = 8
    Transport = "ws"
    MaxStream = 4
INVARIANTS OneOpPerSocket StreamIntegrity NoLostWakeup EofAfterDrain Inv
PROPERTIES NothingAfterDestroy DestroyedIsFreed RelayImplementsPipe
