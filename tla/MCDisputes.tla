----------------------------- MODULE MCDisputes -----------------------------
(* Small instances of Disputes for TLC.                                      *)
EXTENDS Disputes, TLC

\* A full refund of the purchase of two cents in cash, and halves of it in cash
\* and in credits, which together refund it.
HalvesAndAll ==
    {[kind |-> "CASH", amount |-> 20, capped |-> TRUE],
     [kind |-> "CASH", amount |-> 10, capped |-> TRUE],
     [kind |-> "WALLET_CREDIT", amount |-> 10, capped |-> TRUE]}
DebitOnly == {[type |-> "DISPUTE_RESOLUTION", amount |-> -10]}

\* Bound: with a dispute, a single refund; up to MaxRefunds without one.
RefundsOrDispute == Len(refunds) <= 1 \/ \A d \in DisputeIds : disputes[d] = "NONE"

\* Less than half a cent in cash, and the whole price in credits.
SubCentAndAll ==
    {[kind |-> "CASH", amount |-> 4, capped |-> TRUE],
     [kind |-> "WALLET_CREDIT", amount |-> 20, capped |-> TRUE]}

OneRefund == {[kind |-> "CASH", amount |-> 20, capped |-> TRUE]}
BonusAndDebit == {[type |-> "BONUS_CREDIT", amount |-> 5],
                  [type |-> "DISPUTE_RESOLUTION", amount |-> -10]}

\* Requests are interchangeable: no property names one.
AdminSymmetry == Permutations(Admins)
=============================================================================
