CONSTANTS
    Clients = {c1}
    Pollers = {p1}
    Units = {u1}
    Free = Free
    Listed = Listed
    NoUnit = NoUnit
    TokenMod = 4
    MaxDelay = 1
    MaxTime = 2
    MaxAdds = 1
SPECIFICATION Spec
INVARIANTS DiscardRemoves
CHECK_DEADLOCK FALSE
