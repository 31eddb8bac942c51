----------------------------- MODULE MCPricing -----------------------------
(* An instance of Pricing for TLC.                                         *)
EXTENDS Pricing, TLC

LineOf(price, quantity, onSale, tag, class) ==
    [price |-> price, quantity |-> quantity, onSale |-> onSale, tags |-> {tag},
     taxable |-> tag # "b", class |-> class]

\* Carts of three lines: two of product a, one of them on sale and with or without a
\* tax class, and one of product b, which is not taxable and of a class of its own.
SomeBaskets ==
    { <<LineOf(p, 2, FALSE, "a", "standard"),
        LineOf(q, 1, TRUE, "a", IF q = 1 THEN Null ELSE "standard"),
        LineOf(r, 1, FALSE, "b", "reduced")>> :
        p \in {1, 7}, q \in {1, 16}, r \in {0, 5} }

\* Percentages have one decimal.
CouponOf(type, amount) ==
    [type |-> type, amount |-> amount, limit |-> Unlimited, excludeSale |-> FALSE,
     individual |-> FALSE, freeShipping |-> FALSE, includes |-> {}, excludes |-> {}]

SomeCoupons ==
    { CouponOf("fixed_product", 3),
      [CouponOf("fixed_product", 2) EXCEPT !.limit = 2, !.excludes = {"b"}],
      [CouponOf("percent", 500) EXCEPT !.limit = 1],
      [CouponOf("percent", 125) EXCEPT !.excludeSale = TRUE, !.freeShipping = TRUE],
      CouponOf("fixed_cart", 10),
      [CouponOf("fixed_cart", 4) EXCEPT !.excludeSale = TRUE, !.includes = {"a"}],
      [CouponOf("fixed_cart", 0) EXCEPT !.individual = TRUE],
      CouponOf("free_shipping", 0) }

\* At most three coupons on a cart.
UpToThree == {S \in SUBSET Coupons : Cardinality(S) <= 3}

RateOf(percent, priority, compound, shipping, class, region) ==
    [percent |-> percent, priority |-> priority, compound |-> compound,
     shipping |-> shipping, class |-> class, country |-> "IR", region |-> region]

\* In the country one rate, in one region a second that does not fire beside it and a
\* compound one on top; the reduced class has one, in another region on top of a
\* compound one.
SomeRates ==
    << RateOf(400, 0, TRUE, FALSE, "reduced", "08"),
       RateOf(100, 1, FALSE, TRUE, "standard", Null),
       RateOf(50, 1, FALSE, TRUE, "standard", "07"),
       RateOf(30, 1, FALSE, FALSE, "reduced", Null),
       RateOf(95, 2, TRUE, TRUE, "standard", "07") >>

AddressIn(country, region, postcode) ==
    [country |-> country, region |-> region, postcode |-> postcode]

\* A region with rates of its own, a postcode with a zone of its own, another country.
SomeAddresses ==
    { AddressIn("IR", "07", Null), AddressIn("IR", "08", "11"), AddressIn("TR", Null, Null) }

MethodOf(id, free, amount, taxable) ==
    [id |-> id, free |-> free, amount |-> amount, taxable |-> taxable, enabled |-> TRUE]

\* Flat rates and free shipping from 20 on; the postcode has a carrier of its own and
\* one that is switched off, and the rest of the world the fallback.
SomeZones ==
    << [locations |-> {[type |-> "country", code |-> "IR"]}, fallback |-> FALSE,
        methods |-> <<MethodOf("flat", FALSE, 25, TRUE), MethodOf("free", TRUE, 20, TRUE)>>],
       [locations |-> {[type |-> "postcode", code |-> "11"]}, fallback |-> FALSE,
        methods |-> <<MethodOf("local", FALSE, 5, FALSE),
                      [MethodOf("off", TRUE, 0, TRUE) EXCEPT !.enabled = FALSE]>>],
       [locations |-> {}, fallback |-> TRUE, methods |-> <<MethodOf("abroad", FALSE, 40, TRUE)>>] >>

\* One end of every bucket that carts fall into.
SomeSpends == {0, 19, 20, 39}
=============================================================================
