SPECIFICATION MCSpec
CONSTANTS
    Semester = {s1, s2, s3}
    Client = {k1, k2, k3}
    Attempts = 2
    Nothing = Nothing
    Letter = {1, 2}
    Kind = {LECTURE, LAB, EXERCISE}
    LECTURE = LECTURE
    LAB = LAB
    EXERCISE = EXERCISE
    Lecture = LECTURE
    NoKind = NoKind
    Splits <- MCSplits
    LastYear <- MCLastYear
    Screens <- MCScreens
    MaxCohorts = 2
    MaxGroups = 2
    MaxParts = 4
    MaxShared = 1
    MaxArranged = 1
SYMMETRY Symmetry
INVARIANTS
    TypeOK
    RingsShareATarget
    DemandTypeOK
    PlanIsDoneOrRefused
    RepeatingChangesNothing
PROPERTIES
    TakeTurns
    MarkStays
    ToldOnlyWhenOvertaken
    LectureIsHeldOnce
