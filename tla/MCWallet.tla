------------------------------ MODULE MCWallet ------------------------------
(* Instances of Wallet for TLC.                                             *)
EXTENDS Wallet, TLC

\* Customers, orders and request slots are interchangeable.
Symmetry == Permutations(Users) \cup Permutations(Orders) \cup Permutations(Requests)
=============================================================================
