------------------------------- MODULE Pricing -------------------------------
(***************************************************************************)
(* What a cart costs: coupons, taxes, shipping                             *)
(* (apps/api/app/services/discounter_service.ts, cart_totals_service.ts,   *)
(* tax_calculator.ts, shipping_rate_service.ts, shipping_zone_match.ts,    *)
(* rounding.ts), in the cart and in the draft that order_factory.ts makes  *)
(* of it.                                                                  *)
(*                                                                         *)
(* The code is a pure function; here it is run step by step, one line of   *)
(* one coupon at a time, so that what is said of its result can be checked *)
(* on the way.  Amounts are whole minor units.  What the code computes in  *)
(* floating point before it rounds is an exact fraction here.              *)
(***************************************************************************)
EXTENDS Integers, Sequences, FiniteSets, SequencesExt

CONSTANTS
    Baskets,    \* carts: sequences of lines
    Coupons,    \* coupons of the shop
    Applied,    \* sets of coupons that may be applied to a cart
    Unlimited,  \* limit_usage_to_x_items is null
    Hundred,    \* 100 percent, in the unit of percentages: the columns have decimals
    TaxRates,   \* tax_rates: a sequence, by priority and ordering; sets of rates
                \* are sets of its indices
    Standard,   \* the tax class of that name
    Zones,      \* shipping_zones with their methods: a sequence, by id
    Bucket,     \* SHIPPING_TOTAL_BUCKET_MINOR
    Spends,     \* what the carts of other customers come to
    Addresses,  \* what the address of the cart may be, or NoAddress
    NoAddress,  \* the cart has no country yet
    Selections, \* shipping methods the cart may have selected
    Null        \* of a column

Line == [ price : Nat, quantity : Nat, onSale : BOOLEAN,
          tags : SUBSET STRING,    \* the product and its categories
          taxable : BOOLEAN,       \* products.tax_status is taxable
          class : STRING \cup {Null} ]

Rate == [ percent : Nat, priority : Int,
          compound : BOOLEAN,
          shipping : BOOLEAN,      \* applies_to_shipping
          class : STRING, country : STRING \cup {Null}, region : STRING \cup {Null} ]

Types == {"fixed_product", "percent", "fixed_cart", "free_shipping"}

ASSUME PricingAssumption ==
    /\ \A b \in Baskets : b \in Seq(Line)
    /\ \A c \in Coupons :
          /\ c.type \in Types /\ c.amount \in Nat
          /\ c.limit \in Nat \cup {Unlimited}
          /\ c.excludeSale \in BOOLEAN /\ c.individual \in BOOLEAN
          /\ c.freeShipping \in BOOLEAN
    /\ \A c \in Coupons : c.type = "percent" => c.amount <= Hundred
    /\ \A S \in Applied : S \subseteq Coupons /\ IsFiniteSet(S)
    /\ Unlimited \notin Nat
    /\ Hundred \in Nat \ {0}
    /\ TaxRates \in Seq(Rate)
    /\ \A i, j \in DOMAIN TaxRates :
          i < j => TaxRates[i].priority <= TaxRates[j].priority
    /\ \A z \in DOMAIN Zones : \A i \in DOMAIN Zones[z].methods :
          Zones[z].methods[i].free \in BOOLEAN /\ Zones[z].methods[i].amount \in Nat
    /\ Bucket \in Nat \ {0} /\ Spends \subseteq Nat

\* shipping_rate_service.ts:42-48: the thresholds of free shipping are multiples of
\* the width of the bucket.
ASSUME ThresholdInvariant ==
    \A z \in DOMAIN Zones : \A i \in DOMAIN Zones[z].methods :
        LET m == Zones[z].methods[i] IN m.free => m.amount % Bucket = 0

VARIABLES
    basket,     \* the lines of the cart
    applied,    \* the coupons applied to it
    active,     \* those that take part, in the order they are applied
    at,         \* the coupon that is being applied, as an index of active
    line,       \* the next line it looks at; 0: it is not opened yet
    units,      \* the units it may still discount
    before,     \* remaining when it was opened
    remaining,  \* what is left of each line
    perLine,    \* what has been taken off each line
    residual,   \* what fixed_cart has still to hand out
    result      \* the totals, or <<>>

vars == <<basket, applied, active, at, line, units, before, remaining,
          perLine, residual, result>>

Lines == DOMAIN basket

Subtotal(l) == basket[l].price * basket[l].quantity

Sum(f) == FoldFunction(+, 0, f)

Least(x, y) == IF x <= y THEN x ELSE y
----------------------------------------------------------------------------
(* The order of the coupons.                                               *)

Rank(c) == CASE c.type = "fixed_product" -> 0
             [] c.type = "percent" -> 1
             [] c.type = "fixed_cart" -> 2
             [] c.type = "free_shipping" -> 3

\* sortCouponsByType is stable, and the rows come as the database returns them.
Sorted(S) ==
    {s \in [1..Cardinality(S) -> S] :
        /\ IsInjective(s)
        /\ \A i, j \in DOMAIN s : i < j => Rank(s[i]) <= Rank(s[j])}

\* pickActiveCoupons: the first individual_use coupon, alone.
PickActive(s) ==
    LET individual == {i \in DOMAIN s : s[i].individual}
    IN  IF individual = {} THEN s
        ELSE <<s[CHOOSE i \in individual : \A j \in individual : i <= j]>>

Init ==
    /\ basket \in Baskets
    /\ applied \in Applied
    /\ \E s \in Sorted(applied) : active = PickActive(s)
    /\ at = 1 /\ line = 0 /\ units = Unlimited
    /\ remaining = [l \in Lines |-> Subtotal(l)]
    /\ before = remaining
    /\ perLine = [l \in Lines |-> 0]
    /\ residual = 0
    /\ result = <<>>
----------------------------------------------------------------------------
(* computeDiscounts, applyCouponToLines.                                   *)

Coupon == active[at]

\* isItemEligible: include lists are united, an exclude list always wins.
IsItemEligible(l, c) ==
    /\ c.excludes \cap basket[l].tags = {}
    /\ c.includes = {} \/ c.includes \cap basket[l].tags # {}

Eligible(c) == {l \in Lines : IsItemEligible(l, c)}

\* The coupon finds something to discount.
Applies(c) ==
    /\ c.type # "free_shipping" /\ c.amount > 0
    /\ \E l \in Eligible(c) : ~c.excludeSale \/ ~basket[l].onSale

Applying == at <= Len(active)

Inputs == <<basket, applied, active>>

NextCoupon ==
    /\ at' = at + 1 /\ line' = 0 /\ units' = Unlimited
    /\ UNCHANGED <<Inputs, before, remaining, perLine, residual, result>>

SkipCoupon == Applying /\ line = 0 /\ ~Applies(Coupon) /\ NextCoupon

OpenCoupon ==
    /\ Applying /\ line = 0 /\ Applies(Coupon)
    /\ line' = 1 /\ units' = Coupon.limit /\ before' = remaining
    /\ UNCHANGED <<Inputs, at, remaining, perLine, residual, result>>

\* addLineDiscount; Math.max(0, ...) is never needed.
Discounts(l, amount) ==
    /\ perLine' = [perLine EXCEPT ![l] = @ + amount]
    /\ remaining' = [remaining EXCEPT ![l] = @ - amount]
    /\ UNCHANGED <<Inputs, at, before, result>>

UnitsOn(l) ==
    IF units = Unlimited THEN basket[l].quantity ELSE Least(basket[l].quantity, units)

\* Math.round, of a fraction that is not negative.
RoundHalfUp(n, d) == (2 * n + d) \div (2 * d)

\* Mutant: the amount is not capped at what is left of the line.
UncappedDiscount(l) ==
    IF Coupon.type = "fixed_product" THEN Coupon.amount * UnitsOn(l)
    ELSE RoundHalfUp(basket[l].price * UnitsOn(l) * Coupon.amount, Hundred)

\* applyFixedProduct and applyPercent: what they take off a line.
LineDiscount(l) ==
    IF Coupon.type = "fixed_product" THEN Least(Coupon.amount * UnitsOn(l), remaining[l])
    ELSE LET basis == Least(basket[l].price * UnitsOn(l), remaining[l])
         IN  Least(RoundHalfUp(basis * Coupon.amount, Hundred), remaining[l])

\* The loops pass over a line that is not eligible, or on sale, or that nothing is
\* taken off; they stop when the units are used up.
Passes(l) ==
    \/ l \notin Eligible(Coupon)
    \/ Coupon.excludeSale /\ basket[l].onSale
    \/ LineDiscount(l) = 0

ByLine == Applying /\ Coupon.type \in {"fixed_product", "percent"} /\ line \in Lines

PassLine ==
    /\ ByLine /\ units # 0 /\ Passes(line)
    /\ line' = line + 1
    /\ UNCHANGED <<Inputs, at, units, before, remaining, perLine, residual, result>>

\* Mutant: the units are not counted down.
UnitsKept == units

UnitsLeft == IF units = Unlimited THEN Unlimited ELSE units - UnitsOn(line)

DiscountLine ==
    /\ ByLine /\ units # 0 /\ ~Passes(line)
    /\ Discounts(line, LineDiscount(line))
    /\ units' = UnitsLeft
    /\ line' = line + 1
    /\ UNCHANGED residual

\* applyFixedCart: the lines with something left share the amount, in proportion,
\* rounded down.  Lines on sale and limit_usage_to_x_items are not looked at.
Share(l, S) ==
    LET total == Sum([m \in S |-> remaining[m]])
    IN  (remaining[l] * Least(Coupon.amount, total)) \div total

\* Mutant: what the rounding leaves over is lost.
RoundingLost(total, shares) == 0

Residue(total, shares) == Least(Coupon.amount, total) - Sum(shares)

Apportion ==
    LET S == {l \in Eligible(Coupon) : remaining[l] > 0}
        total == Sum([l \in S |-> remaining[l]])
        shares == [l \in Lines |-> IF l \in S THEN Share(l, S) ELSE 0]
    IN
    /\ Applying /\ Coupon.type = "fixed_cart" /\ line = 1
    /\ perLine' = [l \in Lines |-> perLine[l] + shares[l]]
    /\ remaining' = [l \in Lines |-> remaining[l] - shares[l]]
    /\ residual' = Residue(total, shares)
    /\ line' = Len(basket) + 1
    /\ UNCHANGED <<Inputs, at, units, before, result>>

\* Mutant: the residual goes to the first line.
FirstLine(l) == l = 1

\* Of the lines with room, the one that had most left; of equal ones the first.
TakesResidual(l) ==
    /\ l \in Eligible(Coupon) /\ remaining[l] > 0
    /\ \A m \in Eligible(Coupon) :
          remaining[m] > 0 /\ m # l =>
              before[m] < before[l] \/ (before[m] = before[l] /\ l < m)

HandOutResidual ==
    /\ Applying /\ residual > 0
    /\ \E l \in Lines :
          /\ TakesResidual(l)
          /\ Discounts(l, Least(remaining[l], residual))
          /\ residual' = residual - Least(remaining[l], residual)
    /\ UNCHANGED <<line, units>>

Opened == Applying /\ line > 0

CouponDone ==
    /\ Opened /\ residual = 0
    /\ line > Len(basket) \/ (ByLine /\ units = 0)

CloseCoupon == CouponDone /\ NextCoupon
----------------------------------------------------------------------------
(* calculateTax.                                                           *)

\* bankersRound, of a fraction that is not negative.
BankersRound(n, d) ==
    LET floor == n \div d
        rest == 2 * (n % d)
    IN  CASE rest < d -> floor
          [] rest > d -> floor + 1
          [] OTHER -> IF floor % 2 = 0 THEN floor ELSE floor + 1

\* pickEffectiveRates: of each priority the compound rates and the first other.
Fires(rates, i) ==
    /\ i \in rates
    /\ \/ TaxRates[i].compound
       \/ \A j \in rates : j < i /\ TaxRates[j].priority = TaxRates[i].priority
                               => TaxRates[j].compound

\* The tax on a base: every rate is rounded by itself, a compound one is taken of
\* the base with the taxes before it.
TaxOn(base, rates) ==
    LET add(tax, i) ==
            IF ~Fires(rates, i) THEN tax
            ELSE tax + BankersRound(
                    (IF TaxRates[i].compound THEN base + tax ELSE base)
                        * TaxRates[i].percent, Hundred)
    IN  FoldLeftDomain(add, 0, TaxRates)

\* What a gross amount is multiplied with and divided by: the sum of the plain rates
\* and then every compound one makes it larger than its base.
Factor(rates) ==
    LET plain(sum, i) == IF Fires(rates, i) /\ ~TaxRates[i].compound
                         THEN sum + TaxRates[i].percent ELSE sum
        compound(f, i) ==
            IF Fires(rates, i) /\ TaxRates[i].compound
            THEN <<f[1] * Hundred, f[2] * (Hundred + TaxRates[i].percent)>> ELSE f
        factor == FoldLeftDomain(plain, Hundred, TaxRates)
    IN  FoldLeftDomain(compound, <<Hundred, factor>>, TaxRates)

\* extractBase: the gross amount without the taxes.
ExtractBase(gross, rates) == BankersRound(gross * Factor(rates)[1], Factor(rates)[2])

CalculateTax(amount, rates, inclusive) ==
    LET base == IF inclusive THEN ExtractBase(amount, rates) ELSE amount
    IN  IF rates = {} \/ amount = 0 THEN [base |-> amount, tax |-> 0]
        ELSE [base |-> base, tax |-> TaxOn(base, rates)]
----------------------------------------------------------------------------
(* enumerateShippingRates.                                                 *)

\* shipping_zone_match.ts: how well a location fits; 0: it does not.
Specificity(location, address) ==
    CASE location.code = Null -> 0
      [] location = [type |-> "postcode", code |-> address.postcode] -> 4
      [] location = [type |-> "state", code |-> address.region] -> 3
      [] location = [type |-> "country", code |-> address.country] -> 2
      [] OTHER -> 0

Fit(z, address) ==
    Max({0} \cup {Specificity(location, address) : location \in Zones[z].locations})

\* The zone that fits best, of equal ones the first; if none fits, the fallback.
MatchedZones(address) ==
    LET best == Max({Fit(z, address) : z \in DOMAIN Zones} \cup {0})
        fitting == IF best > 0 THEN {z \in DOMAIN Zones : Fit(z, address) = best}
                   ELSE {z \in DOMAIN Zones : Zones[z].fallback}
    IN  {z \in fitting : \A y \in fitting : z <= y}

\* resolveMethodCost: amount is the threshold of free_shipping and the cost of others.
Options(address, spend) ==
    IF address = NoAddress THEN {}
    ELSE {[id |-> m.id, cost |-> IF m.free THEN 0 ELSE m.amount, taxable |-> m.taxable] :
             m \in {m \in UNION {Range(Zones[z].methods) : z \in MatchedZones(address)} :
                      m.enabled /\ (m.free => spend >= m.amount)}}

ItemsTotal == Sum([l \in Lines |-> Subtotal(l)])

BucketOf(spend) == (spend \div Bucket) * Bucket

InBucket(bucket) == {spend \in Spends : BucketOf(spend) = bucket}

\* What the cache has for the address and the bucket was computed for another cart.
CachedOptions(in) == Options(in.address, in.seen)

\* A selection that is not offered (any more) is dropped.
Chosen(options, selected) ==
    IF \E o \in options : o.id = selected
    THEN CHOOSE o \in options : o.id = selected ELSE Null
----------------------------------------------------------------------------
(* calculateCartTotals, and the coupon lines of the draft.                 *)

FreeShipping == \E i \in DOMAIN active :
    active[i].freeShipping \/ active[i].type = "free_shipping"

\* writeCouponLines: equal shares, whatever each coupon did; the first row takes the
\* rest.
CouponLines(total, n) ==
    [i \in 1..n |-> total \div n + IF i = 1 THEN total % n ELSE 0]

\* fetchRates: a null country or region stands for all of them.
Matches(rate, address) ==
    rate.country \in {Null, address.country} /\ rate.region \in {Null, address.region}

FetchRates(classes, address) ==
    {i \in DOMAIN TaxRates :
        TaxRates[i].class \in classes /\ Matches(TaxRates[i], address)}

\* The draft takes every line for taxable, the cart looks at the product.
Taxed(l, in) == (in.draft \/ basket[l].taxable) /\ basket[l].class # Null

Stack(l, in) ==
    IF Taxed(l, in) /\ in.address # NoAddress
    THEN FetchRates({basket[l].class}, in.address) ELSE {}

\* The rates of all classes in the cart that apply to shipping, or of the standard
\* class.
ShippingRates(in) ==
    LET classes == {basket[l].class : l \in {m \in Lines : Taxed(m, in)}}
    IN  {i \in FetchRates(IF classes = {} THEN {Standard} ELSE classes, in.address) :
            TaxRates[i].shipping}

Full(l, in) == CalculateTax(Subtotal(l), Stack(l, in), in.inclusive)

\* Mutant: tax and base of a discounted line are not computed again.
Stale(l, in) == Full(l, in)

Net(l, in) == CalculateTax(Subtotal(l) - perLine[l], Stack(l, in), in.inclusive)

\* in: what the cart's total depends on beside its lines and coupons.
CartTotals(in) ==
    LET full == [l \in Lines |-> Full(l, in)]
        net == [l \in Lines |-> Net(l, in)]
        carrier == Chosen(CachedOptions(in), in.selected)
        cost == IF carrier = Null \/ FreeShipping THEN 0 ELSE carrier.cost
        shipping == CalculateTax(cost,
                        IF carrier # Null /\ carrier.taxable THEN ShippingRates(in)
                        ELSE {}, in.inclusive)
        itemsTotal == Sum([l \in Lines |-> full[l].base])
        taxTotal == Sum([l \in Lines |-> net[l].tax]) + shipping.tax
        discountTotal == Sum(perLine)
    IN  [ full |-> full, lines |-> net, carrier |-> carrier, shipping |-> shipping,
          discount |-> discountTotal,
          couponLines |-> CouponLines(discountTotal, Cardinality(applied)),
          grand |-> itemsTotal + shipping.base + taxTotal - discountTotal,
          in |-> in ]

\* buildCartView and OrderFactory.computeTotals.
Total ==
    /\ ~Applying /\ result = <<>>
    /\ \E in \in [ address : Addresses \cup {NoAddress}, inclusive : BOOLEAN,
                    draft : BOOLEAN, selected : Selections,
                    seen : InBucket(BucketOf(ItemsTotal)) ] :
          result' = <<CartTotals(in)>>
    /\ UNCHANGED <<Inputs, at, line, units, before, remaining, perLine, residual>>
----------------------------------------------------------------------------
Next ==
    \/ SkipCoupon \/ OpenCoupon \/ PassLine \/ DiscountLine
    \/ Apportion \/ HandOutResidual \/ CloseCoupon
    \/ Total

Spec == Init /\ [][Next]_vars

\* The function is run to its end.
FairSpec == Spec /\ WF_vars(Next)
----------------------------------------------------------------------------
(* Properties.                                                             *)

\* Every variable has its type, and what was taken off a line and what is left of
\* it make up its price (discounter_service.ts:440-443).
TypeOK ==
    /\ basket \in Baskets /\ applied \in Applied
    /\ active \in Seq(applied)
    /\ at \in 1..(Len(active) + 1)
    /\ line \in 0..(Len(basket) + 1)
    /\ units \in Nat \cup {Unlimited}
    /\ \A f \in {before, remaining, perLine} : f \in [Lines -> Nat]
    /\ residual \in Nat
    /\ \A l \in Lines : perLine[l] + remaining[l] = Subtotal(l)

\* discounter_service.ts:406, 418: a fixed_cart coupon takes exactly its amount, or
\* all that is left of its lines, whatever the rounding of the shares.
FixedCartExact ==
    CouponDone /\ Coupon.type = "fixed_cart" =>
        Sum([l \in Lines |-> before[l] - remaining[l]])
            = Least(Coupon.amount, Sum([l \in Eligible(Coupon) |-> before[l]]))

\* discounter_service.ts:348, 370: with limit_usage_to_x_items a coupon takes its
\* amount, or its percentage of the dearest line, no more often than the limit says,
\* but for half a unit of rounding a line.
UnitsCapped ==
    Opened /\ Coupon.type \in {"fixed_product", "percent"} /\ Coupon.limit # Unlimited =>
        LET taken == Sum([l \in Lines |-> before[l] - remaining[l]])
            touched == Cardinality({l \in Lines : before[l] # remaining[l]})
        IN  /\ touched <= Coupon.limit
            /\ Coupon.type = "fixed_product" => taken <= Coupon.amount * Coupon.limit
            /\ Coupon.type = "percent" => \E l \in Lines :
                  2 * (Hundred * taken) <= 2 * (Coupon.amount * Coupon.limit * basket[l].price)
                                           + Hundred * Coupon.limit

\* cart_totals_service.ts:166-168: where prices exclude tax, the customer pays what
\* the lines and the carrier come to after the discount.  Where they include it, as
\* they do by default (cart_view_builder.ts:44), this only says that no coupon makes
\* the cart dearer: the total there subtracts too much.  In both, the shares of the
\* coupons come to the discount; and the carrier is paid what it costs for this cart,
\* although its price was cached for another (shipping_rate_service.ts:37-48).
TotalsAgree ==
    \A i \in DOMAIN result :
        LET t == result[i]
            worth(x) == x.base + x.tax
            full == Sum([l \in Lines |-> worth(t.full[l])])
        IN
        /\ ~t.in.inclusive =>
              t.grand = Sum([l \in Lines |-> worth(t.lines[l])]) + worth(t.shipping)
        /\ t.grand <= full + worth(t.shipping)
        /\ Sum(t.couponLines) = t.discount
        /\ t.carrier = Chosen(Options(t.in.address, ItemsTotal), t.in.selected)

\* extractBase divides by the plain rates first and the compound ones on top of them,
\* so it undoes calculateTax where no plain rate follows a compound one.
CompoundLast(rates) ==
    \A i, j \in rates :
        Fires(rates, j) /\ TaxRates[i].compound /\ ~TaxRates[j].compound => j < i

\* The taxes do not double the price: beyond that, what the rounding of the base
\* loses is multiplied (300% on a gross amount of 2 is a base of 0 and no tax).
Moderate(rates) == Factor(rates)[2] < 2 * Factor(rates)[1]

\* tax_calculator.ts:68-82, 140: a price that includes tax is taken apart into base and
\* tax, and both come to the price again but for half a unit of rounding on the base
\* and on each rate that fires.  (The comment at line 31 says exactly: base "is `input -
\* tax`".  10 % on a price of 6 is a base of 5 and a tax of 0.)
TaxRoundTrip ==
    \A i \in DOMAIN result :
        LET t == result[i] IN
        t.in.inclusive => \A l \in Lines :
            LET off == t.lines[l].base + t.lines[l].tax - remaining[l]
                stack == Stack(l, t.in)
                n == Cardinality({j \in stack : Fires(stack, j)})
            IN  CompoundLast(stack) /\ Moderate(stack) => off \in -n..n

\* discounter_service.ts:402, 409: every loop comes to its end; what the rounding
\* leaves over always finds a line with room.
Terminates == <>(result # <<>>)
=============================================================================
