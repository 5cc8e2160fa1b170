------------------------------ MODULE MCAccounts ------------------------------
(* Instances of Accounts for TLC.                                           *)
EXTENDS Accounts, TLC

Interchangeable == Permutations(Users) \cup Permutations(Invites)
=============================================================================
