\* o1 and o2 want the last piece of i1 and i2 on backorder; o3 has a line that does
\* not count stock (i3) and one without an inventory row (i4).  Two requests run
\* side by side, three in a behaviour, of every handler.
SPECIFICATION FairSpec
CONSTANTS
    Orders = {"o1", "o2", "o3"}
    Items = {"i1", "i2", "i3", "i4"}
    Carts = {"c1"}
    Requests = {r1, r2}
    None = None
    MaxRequests = 3
    MaxEntries = 2
    CartOf <- SharedCart
    Quantity <- OddLinesApart
    InitialStock <- LastPiece
    Backordered = {"i2"}
    Unmanaged = {"i3"}
    Missing = {"i4"}
    Handlers = {"submit", "admin", "refund", "callback", "paylink", "ship", "init"}
CHECK_DEADLOCK FALSE
INVARIANTS TypeOK LedgerBalance NoOversell HeldFollowsHistory
    WritesUnderLock
PROPERTIES LockedReadersFollowTable ImplementsAtomicOrders SubmittedOnce RequestsEnd
