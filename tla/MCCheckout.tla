----------------------------- MODULE MCCheckout -----------------------------
(* An instance of Checkout for TLC.                                        *)
EXTENDS Checkout

\* Both carts belong to one customer: a phone and a laptop, before the log-in.
OneShopper == [c \in Carts |-> "guest"]

\* One of the coupons has one use in all, or one use per customer.
OneUse ==
    LET unlimited == [live |-> TRUE, active |-> TRUE,
                      global |-> NoLimit, perUser |-> NoLimit]
        limited == {[unlimited EXCEPT !.global = 1], [unlimited EXCEPT !.perUser = 1]}
    IN  {[c \in Coupons |-> IF c = "limited" THEN row ELSE unlimited] : row \in limited}

\* The limited coupon has a maximum, which an order at the higher price passes.
MaximumSpend == [c \in Coupons |-> IF c = "limited" THEN {1} ELSE Prices]

Everybody == [c \in Coupons |-> {"guest"}]

\* Both coupons are in both carts.
AllApplied == [c \in Carts |-> Coupons]
=============================================================================
