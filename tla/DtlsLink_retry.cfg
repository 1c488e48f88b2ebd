SPECIFICATION FairSpec
CONSTANTS
    Frame = {f1}
    Oversize = {}
    BigReply = {}
    MaxTimeout = 1
    MaxNet = 2
    MaxSession = 2
PROPERTIES RetryGetsThrough
CHECK_DEADLOCK FALSE
