CONSTANTS
    MaxJobs = 1
    QueueMax = 1
    Editors = {e1}
    Pollers = {p1}
    Calls = {c1, c2}
    Posts = {q1}
    Paths = 2
    HomePaths = 1
    StatusJobs = {1}
    NoCall = NoCall
    c1 = c1
    c2 = c2
    e1 = e1
    p1 = p1
    q1 = q1
SPECIFICATION FairSpec
PROPERTIES
    Settles
