\* Carts of three lines, up to three of eight coupons, three addresses or none.
SPECIFICATION FairSpec
CONSTANTS
    Baskets <- SomeBaskets
    Coupons <- SomeCoupons
    Applied <- UpToThree
    Unlimited = Unlimited
    Hundred = 1000
    TaxRates <- SomeRates
    Standard = "standard"
    Zones <- SomeZones
    Bucket = 10
    Spends <- SomeSpends
    Addresses <- SomeAddresses
    NoAddress = NoAddress
    Selections = {"flat", "free", "local"}
    Null = Null
CHECK_DEADLOCK FALSE
INVARIANTS TypeOK FixedCartExact UnitsCapped TotalsAgree
PROPERTY Terminates
