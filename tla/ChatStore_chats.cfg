CONSTANTS
    Chats = {c1, c2}
    MaxAsked = 2
    MaxDeltas = 1
    Prompt = TRUE
    Closed = Closed
    None = None
    c1 = c1
    c2 = c2
SPECIFICATION FairSpec
INVARIANTS
    TypeOK
    ResultIsWritten
    AnswersMatch
    PageIsCurrent
PROPERTIES
    DirtyIsFlushed
