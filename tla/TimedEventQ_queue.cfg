CONSTANTS
    Clients = {c1, c2}
    Pollers = {p1, p2}
    Units = {u1, u2}
    Free = Free
    Listed = Listed
    NoUnit = NoUnit
    TokenMod = 4
    MaxDelay = 1
    MaxTime = 1
    MaxAdds = 3
SPECIFICATION Spec
SYMMETRY Symmetry
INVARIANTS Ownership NoLeak DeadlineOrder DiscardedTimedGone
PROPERTIES PeriodSpacing
CHECK_DEADLOCK FALSE
