SPECIFICATION Spec
CONSTANTS
    a = a  b = b  x = x  y = y  z = z
    c1 = c1  c2 = c2  c3 = c3
    draft = draft  final = final
    NoItem = NoItem  Free = Free  Absent = Absent
    Contents <- TwoContents
    Items <- TwoItems
    Calls <- TwoCalls
    Requests <- PurgeRaceRequests
    InitialStores <- SaveStores
    MaxFaults = 0
PROPERTIES PurgeKeepsContent
