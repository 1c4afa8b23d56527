SPECIFICATION Spec
CONSTANTS
    A = A
    B = B
    C = C
    HotKeys = {A, B, C}
    JobIds = {A, B}
    BondKeys = {A}
    RecallKeys = {A}
    Times = {1, 2}
    Ttls = {0, 1}
    Setups <- SoundSetups
    PageCap = 2
    MaxNow = 2
    MaxCalls = 4
    MaxFlushes = 1
    MaxCkpts = 1
SYMMETRY Symmetry
INVARIANTS TypeOK HotIsFresh LastHotIsKept JobsAreKept BondsAreListed JobsAreSingle DueAnswers ChainsAreApart RecallsAreLast
CHECK_DEADLOCK FALSE
