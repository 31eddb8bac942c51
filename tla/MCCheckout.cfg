CONSTANTS
    Orders = {o1, o2}
    Carts = {k1, k2}
    Shopper <- OneShopper
    InitiallyApplied <- AllApplied
    Coupons = {"limited", "free"}
    Restricted = {}
    Spend <- MaximumSpend
    Invited <- Everybody
    InitialCoupons <- OneUse
    Limits = {1, NoLimit}
    NoLimit = NoLimit
    Prices = {1, 2}
    InitialPrice = 1
    Empty = Empty
    Keys = {key}
    NoKey = NoKey
    Requests = {r1, r2}
    MaxRequests = 4
    MaxEdits = 1
    None = None

SPECIFICATION FairSpec
INVARIANTS TypeOK OneDraftPerCart OneOrderPerKey RedeemedWithOrder
PROPERTIES LimitHolds CustomerLimitHolds RequestsEnd
CHECK_DEADLOCK FALSE
