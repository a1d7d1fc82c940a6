---------------------------- MODULE MCWishRound ----------------------------
(* WishRound for TLC.                                                       *)
EXTENDS WishRound, TLC

Symmetry == Permutations(Client) \cup Permutations(Cohort)
=============================================================================
