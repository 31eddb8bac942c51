-------------------------- MODULE MCProductImports --------------------------
(* Instances of ProductImports for TLC.                                    *)
EXTENDS ProductImports, TLC

LowerCase == [s \in Skus |-> s]

\* Only a is there to begin with, at price 1.
OnlyA == {[n \in Names |-> IF n = "a" THEN [sku |-> "a", price |-> 1] ELSE Absent]}

\* Two imports that write the same products in opposite order.
Opposite ==
    LET row(s) == [sku |-> s, price |-> 2]
    IN  [i \in Imports |->
            CASE i = "first" -> <<row("a"), EmptyRow, row("b"), NamelessRow>>
              [] i = "second" -> <<row("b"), row("b"), row("a"), SkulessRow>>]

\* In the second import the first row names a category without a name, the second has
\* another error, and the anomaly detector warns of the third.
Second(k) == [i \in Imports |-> IF i = "second" THEN {k} ELSE {}]
FirstPathless == Second(1)
SecondInvalid == Second(2)
ThirdFlagged == Second(3)

\* The second may be run to skip whatever can be skipped.
SecondFiltered == [i \in Imports |-> IF i = "second" THEN {{}, Skips} ELSE {{}}]

\* One import of two chunks, the first of which creates a product.
NoProducts == {[n \in Names |-> Absent]}
TwoChunks == [i \in Imports |-> <<[sku |-> "a", price |-> 2], NamelessRow>>]
NoRows == [i \in Imports |-> {}]
NoFilters == [i \in Imports |-> {{}}]
=============================================================================
