SPECIFICATION QuietSpec
CONSTANTS
    Person = {a, b, c}
    Client = {k1, k2, k3}
    Nothing = Nothing
SYMMETRY Symmetry
INVARIANTS
    TypeOK
    SomebodyAdministers
    OneAtATime
