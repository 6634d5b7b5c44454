SPECIFICATION Spec
CONSTANTS
    r1 = r1  r2 = r2 
    Reader = Reader  Closer = Closer  None = None
    Requests <- MCTwo
    Uploads <- MCOne
    Replayable <- MCNobody
    BodySize = 2
    MaxId = 1
    Settings <- MCShutOrWide
    Defaults <- MCOneSlot
    MaxFrames = 1
    MaxSettings = 1
    Events <- MCClosed
INVARIANTS
    TypeOK
    NeverOverrun
PROPERTY
    ExchangeEnds
