CONSTANTS
    Docs = {d1, d2}
    CoraxDocs = {d1}
    Editors = {e1}
    MaxVersion = 2
    NoDoc = NoDoc
    d1 = d1
    d2 = d2
    e1 = e1
SPECIFICATION FairSpec
PROPERTIES
    EnqueuedIsRead
