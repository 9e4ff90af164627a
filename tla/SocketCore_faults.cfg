CONSTANTS
    Trans = {t1, t2, t3}
    RawCreated = {t1, t2}
    NoTrans = NoTrans
    Poller = Poller
    Nobody = Nobody
    Fds = {3, 4, 5}
    Limit = 2
    MaxEvents = 2
    PassiveClose = TRUE
    AddMayFail = TRUE
SPECIFICATION Spec
SYMMETRY Symmetry
INVARIANTS TypeOK QueueSorted
CHECK_DEADLOCK FALSE
