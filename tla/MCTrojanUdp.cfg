SPECIFICATION FairSpec
CONSTANTS
    Packets = 6
    End <- MCEnd
    Malformed <- MCMalformed
    MaxBuff = 4
    MaxReplies = 1
INVARIANTS PacketsInOrder InSync OnlyLongPacketsClose
PROPERTIES NothingAfterDestroy DestroyedIsFreed
