SPECIFICATION Spec
CONSTANTS
    a = a  b = b  x = x  y = y  z = z
    c1 = c1  c2 = c2  c3 = c3
    draft = draft  final = final
    NoItem = NoItem  Free = Free  Absent = Absent
    Contents <- TwoContents
    Items <- ThreeItems
    Calls <- ThreeCalls
    Requests <- SaveRequests
    InitialStores <- SaveStores
    MaxFaults = 1
SYMMETRY Symmetric
INVARIANTS TypeOK OneWinner
PROPERTIES OverwriteOnRecord PurgeIsFinal
