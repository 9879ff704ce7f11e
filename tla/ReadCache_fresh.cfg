CONSTANTS
    Keys = {k1, k2}
    Readers = {r1, r2}
    Writers = {w1}
    MaxWrites = 2
    MaxEntries = 1
    MaxLocks = 2
    NoKey = NoKey
    NoLock = NoLock
    k1 = k1
    k2 = k2
    r1 = r1
    r2 = r2
    w1 = w1
SPECIFICATION Spec
INVARIANTS
    FreshAfterWrite
