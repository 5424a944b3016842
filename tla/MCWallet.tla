------------------------------ MODULE MCWallet ------------------------------
(* A small instance of Wallet for TLC. *)
EXTENDS Wallet

\* A purchase of 3 units.
MCPostings == {[type |-> "PURCHASE", amount |-> 3000000, allowNegative |-> FALSE]}
=============================================================================
