------------------------------ MODULE Counting ------------------------------
(* What is counted. The total of a function of numbers, unit by unit: hours  *)
(* of parts (PartStaffing), assignments of cohorts (Coverage). And the order *)
(* of letters and of groups (DemandPlan).                                    *)
EXTENDS Integers, FiniteSets

Units(v) == UNION {{x} \X (1..v[x]) : x \in DOMAIN v}
Total(v) == Cardinality(Units(v))

\* The place of x among the numbers of S, beginning with 0; the one at a place;
\* the first n; the elements of a sequence at the indices I.
Rank(S, x) == Cardinality({y \in S : y < x})
Nth(S, r) == CHOOSE x \in S : Rank(S, x) = r
First(S, n) == {x \in S : Rank(S, x) < n}
Chosen(seq, I) == [r \in 1..Cardinality(I) |-> seq[Nth(I, r - 1)]]
=============================================================================
