SPECIFICATION FairSpec
CONSTANTS
    Part = {p1, p2}
    InitialPart = {p1}
    Who = {w1, w2}
    Client = {k1, k2}
    Screen = {s1}
    MaxHours = 2
    MaxId = 2
    Nothing = Nothing
    Absent = Absent
    Open = Open
    Elsewhere = Elsewhere
INVARIANTS
    TypeOK
    NeverStaffedElsewhere
    AssignedPartsAreStored
PROPERTIES
    ImplementsTeaching
    TransactionsEnd
