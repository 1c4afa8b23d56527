SPECIFICATION FairSpec
CONSTANTS
    p = p
    q = q
    r = r
    s = s
    Pages = {p, q, r, s}
    Values = {0, 1}
    Blank = 0
    MaxFrames = 2
    MaxPinned = 2
    MaxPins = 1
INVARIANTS TypeOK CleanIsSaved FlushSaves Bounded SweepIsOutcome
PROPERTIES HandlesStay ImplementsPageStore GetReturns
