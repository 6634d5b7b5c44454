SPECIFICATION Spec
CONSTANTS
    k1 = k1  k2 = k2
    Keys <- MCKeys
    Responses <- MCResponses
    NoStore = NoStore
    None = None
    Failures <- MCFailures
    MaxTotal = 4
    MaxEntry = 3
    MaxDisk = 3
    MaxStores = 3
    MaxNow = 2
INVARIANTS
    SumsAreExact
    OverCapForOneOnly
    FilesFollowEntries
PROPERTIES
    RoomOnDiskFirst
    KeepsPromise
SYMMETRY Symmetry
