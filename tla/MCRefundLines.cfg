\* A body that names one line twice.
SPECIFICATION Spec
CONSTANTS
    Requests = {r1, r2}
    Lines <- LineIds
    Quantity <- TwoAndOne
    GrandTotal = 3
    Payloads <- RepeatedLines
    Keys = {k1}
    NoKey = NoKey
    MaxRequests = 4
    None = None
    Lost = Lost
SYMMETRY Symmetry
CHECK_DEADLOCK FALSE
INVARIANTS LinesBounded
