SPECIFICATION Spec
CONSTANTS
    A = A
    B = B
    Cohort = {1, 2, 3}
    Programme <- Programmes
    programmeOf <- ProgrammeOf
    Client = {k1, k2}
    Operation = {"declare", "request", "accept", "release", "withdraw", "addPart"}
    MaxParts = 2
    MaxStaffed = 2
    Nothing = Nothing
SYMMETRY Symmetry
INVARIANTS
    AcceptedGuestsHoldNothing
CHECK_DEADLOCK FALSE
