\* A pay-link is opened after the payment was verified.
SPECIFICATION Spec
CONSTANTS
    Orders = {o1}
    Attempts = {a1, a2}
    Requests = {r1, r2}
    Keys = {k1}
    NoKey = NoKey
    None = None
    Silent = {}
    LedgerKeyed = TRUE
    MaxRequests = 3
SYMMETRY Symmetry
CHECK_DEADLOCK FALSE
PROPERTIES PayLinkRetriesUnpaid
