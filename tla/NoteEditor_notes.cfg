CONSTANTS
    Notes = {a, b}
    MaxEdits = 2
    MaxSaves = 2
    NoNote = NoNote
    Blank = Blank
    a = a
    b = b
SPECIFICATION Spec
INVARIANTS
    TypeOK
    
    

    
