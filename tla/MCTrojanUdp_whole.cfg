SPECIFICATION FairSpec
CONSTANTS
    Packets = 2
    End <- ShortEnd
    Malformed = {}
    MaxBuff = 4
    MaxReplies = 1
PROPERTY WholePacketIsForwarded
