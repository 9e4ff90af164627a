\* Sizes at the edges of the headers: an RTP header has 12 bytes, an RTCP header 8,
\* a sender report 28.
CONSTANTS
    Sizes = {0, 8, 12, 28, 36}
    Capacity = 40
    Pads = {0, 4, 24}
    Words = {0, 1, 6}
    Counts = {0, 1}
    MaxAsks = 2
    IdMask = 1
SPECIFICATION Spec
INVARIANTS OneTimer NoOrphan QuietAfterUnset PayloadInside StunWhole
PROPERTIES ReadsInside ReportsFlow
CHECK_DEADLOCK FALSE
