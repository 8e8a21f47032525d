SPECIFICATION FairSpec
CONSTANTS
    a = a  b = b  x = x  y = y  z = z
    c1 = c1  c2 = c2  c3 = c3
    draft = draft  final = final
    NoItem = NoItem  Free = Free  Absent = Absent
    Contents <- TwoContents
    Items <- FourItems
    Calls <- TwoCalls
    Requests <- EveryRequest
    InitialStores <- EveryStore
    MaxFaults = 1
INVARIANTS PurgeOnRecord MutexHeldByEditor RuleHasAnchor IInv
PROPERTIES EveryCallAnswered CallsGoOnward LedgerSpec
