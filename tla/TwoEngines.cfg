SPECIFICATION Spec
CONSTANTS
    Engines = {"native", "ts"}
    Messages = {m1, m2}
    MaxCkpts = 1
    MaxKills = 1
INVARIANT AckedServed
CHECK_DEADLOCK FALSE
