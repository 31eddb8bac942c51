----------------------------- MODULE MCRefunds -----------------------------
(* Instances of Refunds for TLC: one order of two lines, two pieces of one *)
(* and one of the other.                                                   *)
EXTENDS Refunds, Sequences, SequencesExt, FiniteSetsExt, TLC

LineIds == {"l1", "l2"}

TwoAndOne == [l \in LineIds |-> IF l = "l1" THEN 2 ELSE 1]

Entry(l, n, amount) == [line |-> l, quantity |-> n, amount |-> amount]

\* What Refunds keeps of a body with an amount, or with a sequence of entries.
OfAmount(n) == [kind |-> "amount", amount |-> n, largest |-> NoLines, total |-> NoLines]

OfLines(s) ==
    LET at(l) == SelectSeq(s, LAMBDA e : e.line = l) IN
    [ kind    |-> "lines",
      amount  |-> FoldLeft(LAMBDA n, e : n + e.amount, 0, s),
      largest |-> [l \in Lines |-> Max({0} \cup {e.quantity : e \in ToSet(at(l))})],
      total   |-> [l \in Lines |-> FoldLeft(LAMBDA n, e : n + e.quantity, 0, at(l))] ]

\* Bodies that name each line at most once.
DistinctLines ==
    {Empty, OfAmount(0), OfAmount(1), OfAmount(2), OfAmount(3)} \cup
    { OfLines(s) : s \in { <<Entry("l1", 1, 1)>>, <<Entry("l1", 2, 1)>>,
                           <<Entry("l2", 1, 1)>>, <<Entry("l1", 1, 0)>>,
                           <<Entry("l1", 1, 1), Entry("l2", 1, 1)>> } }

\* The same and a body with two entries for one line.
RepeatedLines ==
    DistinctLines \cup {OfLines(<<Entry("l2", 1, 1), Entry("l2", 1, 0)>>)}

\* Requests differ in nothing but their name.
Symmetry == Permutations(Requests)
=============================================================================
