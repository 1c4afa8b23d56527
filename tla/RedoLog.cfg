SPECIFICATION Spec
CONSTANTS
    a = a
    b = b
    c = c
    Ops = {a, b, c}
    Rejected = {c}
    SyncEvery = 2
    MaxLsn = 4
SYMMETRY Symmetry
INVARIANTS TypeOK LsnOrder SkippedIsOnHeap Recoverable Survives IndexComplete LossWindow
PROPERTY LeavesCovered
