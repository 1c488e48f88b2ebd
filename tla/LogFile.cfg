SPECIFICATION Spec
CONSTANTS
    Writer = {w1, w2}
    DayLen = 2
    Shift = 1
    RollSize = 2
    CheckEveryN = 2
    FlushInterval = 1
    KeepDays = 2
    MaxTime = 6
    MaxLines = 4
INVARIANTS LinesKept ErrorsSurvive DayChangeNoticed PurgeSpares
