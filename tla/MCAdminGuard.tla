---------------------------- MODULE MCAdminGuard ----------------------------
(* AdminGuard for TLC: people and clients are interchangeable.              *)
EXTENDS AdminGuard, TLC

Symmetry == Permutations(Person) \cup Permutations(Client)
=============================================================================
