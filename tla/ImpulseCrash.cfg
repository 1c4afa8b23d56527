SPECIFICATION Spec
CONSTANTS
    A = A
    B = B
    C = C
    HotKeys = {A, B, C}
    JobIds = {A, B}
    BondKeys = {A}
    RecallKeys = {A}
    Times = {1, 2}
    Ttls = {0, 1}
    Setups <- JobsOnFreedPages
    PageCap = 1
    MaxNow = 2
    MaxCalls = 3
    MaxFlushes = 1
    MaxCkpts = 1
SYMMETRY Symmetry
INVARIANT JobsAreKept
CHECK_DEADLOCK FALSE
