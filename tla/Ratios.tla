------------------------------- MODULE Ratios -------------------------------
(***************************************************************************)
(* Fractions as the readers report them: pairs of a numerator and a        *)
(* denominator.                                                            *)
(***************************************************************************)
EXTENDS Integers

Ratio(a, b) == <<a, b>>
AtMost(r, q) == r[1] * q[2] <= q[1] * r[2]
Clamp(r) == IF r[1] > r[2] THEN Ratio(1, 1) ELSE r
AddRatios(r, q) == Ratio(r[1] * q[2] + q[1] * r[2], r[2] * q[2])
Largest(ratios) == CHOOSE r \in ratios : \A q \in ratios : AtMost(q, r)
=============================================================================
