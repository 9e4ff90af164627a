\* A conference of two callers at most one of whom fits, and of one window.
SPECIFICATION Spec
CONSTANTS
    acm = acm
    vscm = vscm
    ann = ann
    ben = ben
    camera = camera
    win1 = win1
    win2 = win2
    encoder = encoder
    Drivers <- MCDrivers
    Codecs <- MCCodecs
    Sample <- MCSample
    Peak = 3
    MaxMix = 4
    MaxVoip = 1
    Cameras <- MCCameras
    Renders <- MCRenders
    Encoders <- MCEncoders
    MaxCamera = 1
    MaxVideoClient = 1
    MaxEncoder = 1
    Old = Old
    None = None
    MaxCalls = 5
INVARIANTS
    CountsAgree
    IndicesInBounds
    MixMinus
    RunsAsPromised
PROPERTIES
    RightPicture
    CallsReturn
CHECK_DEADLOCK FALSE
