------------------------------- MODULE Totals -------------------------------
(***************************************************************************)
(* Sums over rows numbered 1..n, and the rounding of a stored amount.      *)
(*                                                                         *)
(* Every money column of the billing tables is DECIMAL(18,6), while a      *)
(* charge is computed as tokens * price / 1000000 with a price that itself *)
(* has six decimals: an exact amount has up to six digits more than the    *)
(* column that stores it.  An exact amount is therefore an integer number  *)
(* of sub-units, a stored amount an integer number of units, and a unit is *)
(* Scale sub-units.                                                        *)
(***************************************************************************)
EXTENDS Integers

Scale == 1000000

\* What a DECIMAL(18,6) column keeps of an exact amount: the nearest unit, a
\* half-unit going away from zero (PostgreSQL's rounding of numeric).
Stored(exact) ==
    IF exact >= 0
    THEN (exact + 500000) \div Scale
    ELSE -((500000 - exact) \div Scale)

\* The exact value of a stored amount.
Exact(stored) == stored * Scale

\* A half-unit: the only remainder for which rounding depends on the sign.
IsTie(exact) == exact % Scale = 500000

\* Total(f, n) = f[1] + ... + f[n].
Total(f, n) ==
    LET upto[i \in 0..n] == IF i = 0 THEN 0 ELSE upto[i - 1] + f[i]
    IN  upto[n]
=============================================================================
