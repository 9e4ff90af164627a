CONSTANTS
    Clients = {c1, c2}
    Pollers = {p1}
    Units = {u1, u2}
    Free = Free
    Listed = Listed
    NoUnit = NoUnit
    TokenMod = 2
    MaxDelay = 1
    MaxTime = 1
    MaxAdds = 2
    PipeCap = 1
    ReadMax = 1
SPECIFICATION LoopFairSpec
INVARIANTS Attentive
PROPERTIES DueIsServed
CHECK_DEADLOCK FALSE
