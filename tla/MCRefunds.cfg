\* One order of three units of money; two refunds side by side, four in all.
SPECIFICATION Spec
CONSTANTS
    Requests = {r1, r2}
    Lines <- LineIds
    Quantity <- TwoAndOne
    GrandTotal = 3
    Payloads <- DistinctLines
    Keys = {k1}
    NoKey = NoKey
    MaxRequests = 4
    None = None
    Lost = Lost
SYMMETRY Symmetry
CHECK_DEADLOCK FALSE
INVARIANTS TypeOK RefundsBounded AskedWithinOutstanding LinesBounded
    PaidBackBounded
PROPERTIES FullMeansRefunded
