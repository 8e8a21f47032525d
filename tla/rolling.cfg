SPECIFICATION Spec
CONSTANTS
    Proposals <- AllProposals
    Windows <- AllWindows
    Horizon = 6
    Year = 10
    MaxOccurrences = 2
    Last = 12
    Minute = 2
    Hour = 4
    Day = 8
    ClockChange = 8
INVARIANTS RollsThroughTheSeries RetiresAtTheEnd PreviewHidesNothing PreviewForetellsRolls LeadsFallAsWritten
CHECK_DEADLOCK FALSE
