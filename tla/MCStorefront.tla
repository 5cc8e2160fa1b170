----------------------------- MODULE MCStorefront -----------------------------
(* An instance of Storefront for TLC.                                       *)
EXTENDS Storefront, TLC

Interchangeable ==
  Permutations(Branches) \cup Permutations(Categories) \cup Permutations(Services)
    \cup Permutations(Requests)
=============================================================================
