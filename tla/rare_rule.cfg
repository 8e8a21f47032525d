SPECIFICATION Spec
CONSTANTS
    Proposals <- EveryRareRule
    Windows <- NoWindows
    Horizon = 6
    Year = 12
    MaxOccurrences = 3
    Last = 24
    Minute = 2
    Hour = 4
    Day = 8
    ClockChange = 8
INVARIANTS NilMeansEnded
CHECK_DEADLOCK FALSE
