----------------------------- MODULE MCInsights -----------------------------
(* A small instance of Insights for TLC. *)
EXTENDS Insights

CONSTANTS p1, p2, k1

MCProviderOf == [k \in Keys |-> p1]
=============================================================================
