CONSTANTS
    Scenes = {a, b}
    MaxEdits = 1
    MaxOther = 1
    MaxPuts = 2
    UndoLimit = 1
    Patient = TRUE
    NoScene = NoScene
    NoGet = NoGet
    a = a
    b = b
SPECIFICATION Spec
INVARIANTS
    TypeOK
    
    UndoOfScene
    
