CONSTANTS
    Chats = {c1}
    MaxAsked = 1
    MaxDeltas = 1
    Prompt = FALSE
    Closed = Closed
    None = None
    c1 = c1
SPECIFICATION Spec
INVARIANTS
    ResultIsWritten
