\* The limited coupon is for listed products, so checkEligibility never reaches its limit.
CONSTANTS
    Orders = {o1, o2}
    Carts = {k1, k2}
    Shopper <- OneShopper
    InitiallyApplied <- AllApplied
    Coupons = {"limited"}
    Restricted = {"limited"}
    Spend <- MaximumSpend
    Invited <- Everybody
    InitialCoupons <- OneUse
    Limits = {1, NoLimit}
    NoLimit = NoLimit
    Prices = {1}
    InitialPrice = 1
    Empty = Empty
    Keys = {}
    NoKey = NoKey
    Requests = {r1, r2}
    MaxRequests = 4
    MaxEdits = 0
    None = None

SPECIFICATION Spec
PROPERTIES NoUsePastTheLimit
CHECK_DEADLOCK FALSE
