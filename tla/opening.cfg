SPECIFICATION FairSpec
CONSTANTS
    p1 = p1  p2 = p2  old = old  new = new
    Processes <- TwoProcesses
    Rows <- TwoRows
    LegacyRows <- OneLegacyRow
    Patience = 3
    MaxFailures = 1
    MaxCrashes = 1
INVARIANTS TypeOK OpenStoreHasColumns OpenStoreIsWAL IndexCompleteWhenQuiet OnlyLegacyRowsUnsearchable
PROPERTIES EveryOpenEnds OpeningGoesFurther
