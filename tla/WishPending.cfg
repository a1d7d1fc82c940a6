SPECIFICATION Spec
CONSTANTS
    Person = {p1}
    Cohort = {c1, c2}
    Client = {k1, k2}
    LastPhase = 3
    Weakest = 2
    Nothing = Nothing
SYMMETRY Symmetry
INVARIANTS
    NothingPendsAfterRelease
