-------------------------- MODULE MCOrderRequests --------------------------
(* Instances of OrderRequests for TLC.                                     *)
EXTENDS OrderRequests, TLC

\* Every order wants one piece of every item.
OneOfEach == [o \in Orders |-> [i \in Items |-> 1]]

\* o3 wants what has no row or does not count stock, the others everything else.
OddLinesApart ==
    [o \in Orders |-> [i \in Items |->
        IF (i \in Missing \cup Unmanaged) = (o = "o3") THEN 1 ELSE 0]]

\* One piece of the items that refuse backorders, none of the others.
LastPiece == [i \in Items |-> IF i \in Backordered THEN 0 ELSE 1]

TwoPieces == [i \in Items |-> 2]

\* All orders are drafts of one cart.
SharedCart == [o \in Orders |-> CHOOSE c \in Carts : TRUE]

\* Requests differ in nothing but their name.
Symmetry == Permutations(Requests)
=============================================================================
