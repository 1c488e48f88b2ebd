SPECIFICATION FairSpec
CONSTANTS
    Frame = {f1, f2, f3}
    Oversize = {f2}
    BigReply = {f3}
    MaxTimeout = 1
    MaxNet = 2
    MaxSession = 2
INVARIANTS WrongPasswordRefused ReadyMeansConnected
PROPERTIES FlushedBehindPassword FramesAnswered
CHECK_DEADLOCK FALSE
