------------------------------- MODULE Ordering -------------------------------
(***************************************************************************)
(* ORDER BY, sorted, LIMIT and aggregates.  An order is the set of the     *)
(* pairs <<x, y>> with x before y; it is given with the whole sort key, so *)
(* that no two elements tie.                                               *)
(***************************************************************************)
EXTENDS Integers, FiniteSets

Place(x, S, order) == Cardinality({y \in S : <<y, x>> \in order}) + 1

InOrder(S, order) == [k \in 1..Cardinality(S) |-> CHOOSE x \in S : Place(x, S, order) = k]

Leading(n, S, order) == {x \in S : Place(x, S, order) <= n}

\* MIN and MAX.
Least(S) == CHOOSE x \in S : \A y \in S : x <= y
Greatest(S) == CHOOSE x \in S : \A y \in S : y <= x

\* SUM of the values of f, which are natural: as many units as they have together.
Units(f) == UNION {{x} \X (1..f[x]) : x \in DOMAIN f}
Total(f) == Cardinality(Units(f))

\* Lexicographic order of tuples of one length, greater first.
Exceeds(x, y) == \E k \in DOMAIN x : x[k] > y[k] /\ \A l \in 1..(k - 1) : x[l] = y[l]
=============================================================================
