SPECIFICATION Spec
CONSTANTS
    a = a
    b = b
    c = c
    Ops = {a, b, c}
    Rejected = {c}
    SyncEvery = 2
    MaxLsn = 4
INVARIANT DurableAtWal
