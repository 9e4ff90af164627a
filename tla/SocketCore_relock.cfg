CONSTANTS
    Trans = {t1, t2}
    RawCreated = {}
    NoTrans = NoTrans
    Poller = Poller
    Nobody = Nobody
    Fds = {3, 4}
    Limit = 2
    MaxEvents = 2
    PassiveClose = FALSE
    AddMayFail = FALSE
SPECIFICATION Spec
SYMMETRY Symmetry
INVARIANTS NeverRelocks
CHECK_DEADLOCK FALSE
