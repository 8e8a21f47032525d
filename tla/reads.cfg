SPECIFICATION ReadsSpec
CONSTANTS
    a = a  b = b  d = d  e = e  f = f
    c1 = c1  c2 = c2
    r1 = r1
    draft = draft  final = final
    NoItem = NoItem  Free = Free  Absent = Absent
    Contents <- TwoContents
    Items <- FiveItems
    Calls <- TwoCalls
    Requests <- Writes
    InitialStores <- Stores
    MaxFaults = 0
    Readers <- OneReader
    Questions <- Asks
    DefaultLimit = 3
SYMMETRY SymmetricPair
INVARIANTS ReadsTypeOK SteadyIdsAccountedFor NullSlotsWereGone
PROPERTIES DiscoveryHonoursHolds
