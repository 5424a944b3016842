---------------------------- MODULE MCPurchases -----------------------------
(* A small instance of Purchases for TLC. *)
EXTENDS Purchases, TLC

\* Purchase 1 goes through Stripe, purchase 2 is a bank transfer.
MCPrice == (1 :> 2) @@ (2 :> 3)
\* A cash refund elsewhere, which may leave the wallet overdrawn.
MCPostings == {[type |-> "REFUND", amount |-> -3000000, allowNegative |-> TRUE]}
=============================================================================
