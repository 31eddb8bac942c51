\* The schema of this commit: the ledger's unique key names the tenant as well.  One
\* payment and its callback, nothing breaks down.
SPECIFICATION CalmSpec
CONSTANTS
    Orders = {o1}
    Attempts = {a1, a2}
    Requests = {r1, r2}
    Keys = {k1}
    NoKey = NoKey
    None = None
    Silent = {}
    LedgerKeyed = FALSE
    MaxRequests = 2
CHECK_DEADLOCK FALSE
PROPERTIES CallbackRecorded
