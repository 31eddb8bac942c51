\* One order, two attempts, the adapter of a2 reports no amount; two requests side
\* by side, three in a behaviour.
SPECIFICATION Spec
CONSTANTS
    Orders = {o1}
    Attempts = {a1, a2}
    Requests = {r1, r2}
    Keys = {k1}
    NoKey = NoKey
    None = None
    Silent = {a2}
    LedgerKeyed = TRUE
    MaxRequests = 3
SYMMETRY Symmetry
CHECK_DEADLOCK FALSE
INVARIANTS TypeOK LedgerMatchesAttempt VerifyExclusive ChargeIsSettled OneAttemptPerKey
PROPERTIES VerifiedIsFinal
