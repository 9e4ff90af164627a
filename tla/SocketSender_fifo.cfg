CONSTANTS
    Packets = {b1, b2, b3}
    Trans = {t1, t2}
    NoTrans = NoTrans
    Fds = {f1, f2}
    MaxSending = 2
    Closed = Closed
    PassiveClose = TRUE
SPECIFICATION FairSpec
PROPERTIES ImplementsOutbox SentByOwner AllLeave
CHECK_DEADLOCK FALSE
