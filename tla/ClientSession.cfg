SPECIFICATION FairSpec
CONSTANTS
    MaxRead = 2
    Transport = "ws"
    MaxStream = 4
INVARIANTS OneOpPerSocket CountedOnce OneReply
PROPERTIES DestroyedIsFreed RelayImplementsPipe
