SPECIFICATION Spec
CONSTANTS
    Turns = 6
    MaxPickPlace = 2
    MaxPush = 1
    MaxInsert = 2
    Goals <- MCGoals
    Inherited = {TRUE, FALSE}
INVARIANTS
    PlacementKept
    SuccessEndorsed
    QualifierKept
    OpeningKept
