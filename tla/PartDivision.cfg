SPECIFICATION Spec
CONSTANTS
    Part = {p1, p2, p3}
    InitialPart = {p1}
    Who = {w1}
    Client = {k1, k2}
    Screen = {s1}
    MaxHours = 3
    MaxId = 0
    Nothing = Nothing
    Absent = Absent
    Open = Open
    Elsewhere = Elsewhere
SYMMETRY Symmetry
INVARIANTS
    PiecesNameAnUndividedPart
    NobodyWaitsForAWaiter
PROPERTIES
    HoursAreMoved
