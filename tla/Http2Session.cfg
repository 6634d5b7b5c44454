SPECIFICATION Spec
CONSTANTS
    r1 = r1  r2 = r2 
    Reader = Reader  Closer = Closer  None = None
    Requests <- MCTwo
    Uploads <- MCNobody
    Replayable <- MCNobody
    BodySize = 0
    MaxId = 2
    Settings <- MCLimitRises
    Defaults <- MCOneSlot
    MaxFrames = 0
    MaxSettings = 1
    Events <- MCServerAndNetwork
INVARIANTS
    IdsRiseOnTheWire
    NothingStranded
    ReplayIsSafe
    SlotsAreCounted
    DeadHasNoStreams
    PeerNeverCountsTooMany
SYMMETRY Symmetry
