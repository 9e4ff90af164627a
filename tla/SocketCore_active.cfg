CONSTANTS
    Trans = {t1, t2, t3, t4}
    RawCreated = {}
    NoTrans = NoTrans
    Poller = Poller
    Nobody = Nobody
    Fds = {3, 4}
    Limit = 4
    MaxEvents = 2
    PassiveClose = FALSE
    AddMayFail = FALSE
SPECIFICATION Spec
SYMMETRY Symmetry
INVARIANTS ClosesOwn NoDescriptorLeak Coherent FetchedAlive DestroyedOnce
CHECK_DEADLOCK FALSE
