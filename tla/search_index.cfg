SPECIFICATION Spec
CONSTANTS
    p1 = p1  p2 = p2  old = old  new = new
    Processes <- TwoProcesses
    Rows <- TwoRows
    LegacyRows <- OneLegacyRow
    Patience = 3
    MaxFailures = 0
    MaxCrashes = 1

INVARIANTS SearchIndexComplete
