SPECIFICATION CodecsSpec
CONSTANTS
    Kind = {"v4", "v6", "other"}
    PayloadLen <- Lengths
    DomainLen = {1, 2, 255}
    HostLen = {1, 3, 255}
    Greeting <- Greetings
    AfterLen = {0, 3}
INVARIANTS PayloadReachesTarget ReplyReachesApp OnlyUncarriedDropped NeverMisread OnlyCutRefused
