---------------------------- MODULE MCRookieDraft ----------------------------
EXTENDS RookieDraft, TLC
CONSTANTS a, b

\* Two rounds of two franchises; b traded for a's second pick, its third.
TradedOwner == [r \in 1..2 |-> [f \in {a, b} |-> IF r = 2 THEN b ELSE f]]
OneRoundOwner == [r \in 1..1 |-> [f \in {a, b} |-> f]]
AB == <<a, b>>
BA == <<b, a>>
TwoOrders == {AB, BA}
Interchangeable == Permutations(Players)
=============================================================================
