--------------------------- MODULE MCPartStaffing ---------------------------
(* PartStaffing for TLC: the ids that nothing tells apart.                  *)
EXTENDS PartStaffing, TLC

Symmetry ==
    Permutations(Client) \cup Permutations(Who) \cup Permutations(Screen)
        \cup Permutations(Part \ InitialPart)
=============================================================================
