---------------------------- MODULE MCWalletLocks ---------------------------
(* A small instance of WalletLocks for TLC. *)
EXTENDS WalletLocks

\* A purchase of 3 units and a cash refund of 2 that may overdraw.
MCPostings == {[type |-> "PURCHASE", amount |-> 3000000, allowNegative |-> FALSE],
               [type |-> "REFUND", amount |-> -2000000, allowNegative |-> TRUE]}
=============================================================================
