SPECIFICATION Spec
CONSTANTS
    Part = {p1}
    InitialPart = {p1}
    Who = {w1, w2}
    Client = {k1}
    Screen = {s1, s2}
    MaxHours = 2
    MaxId = 2
    Nothing = Nothing
    Absent = Absent
    Open = Open
    Elsewhere = Elsewhere
PROPERTIES
    ReplacesWhatWasSeen
