CONSTANTS
    Floors = {f, g}
    MaxEdits = 2
    MaxOther = 1
    Patient = TRUE
    InOrder = TRUE
    NoFloor = NoFloor
    NoIcons = NoIcons
    f = f
    g = g
SPECIFICATION FairSpec
INVARIANTS
    TypeOK
    
    

    
