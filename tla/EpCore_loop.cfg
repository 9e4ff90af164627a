CONSTANTS
    Nodes = {n1, n2}
    None = None
    Slack = 2
    MaxDelay = 4
    MaxTime = 3
    Transports = {t1, t2}
    NoTransport = NoTransport
    Fds = {f1}
    Closed = Closed
    MaxEvents = 1
SPECIFICATION EpFairSpec
INVARIANTS Representation
PROPERTIES HangUpClosesOwn NoEarlierThanCut UpFires
