----------------------------- MODULE MCCoverage -----------------------------
(* Coverage for TLC: three cohorts, two of them in one programme.           *)
EXTENDS Coverage, TLC

CONSTANTS A, B

Programmes == {A, B}
ProgrammeOf == <<A, B, B>>
Symmetry == Permutations(Client)
=============================================================================
