CONSTANTS
    Trans = {t1, t2, t3}
    RawCreated = {}
    NoTrans = NoTrans
    Poller = Poller
    Nobody = Nobody
    Fds = {3, 4}
    Limit = 2
    MaxEvents = 1
    PassiveClose = TRUE
    AddMayFail = FALSE
SPECIFICATION FairSpec
PROPERTIES Reclaimed PollerReturns
CHECK_DEADLOCK FALSE
