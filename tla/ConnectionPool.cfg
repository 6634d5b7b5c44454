SPECIFICATION Spec
CONSTANTS
    f1 = f1  f2 = f2   h1 = h1  s1 = s1  s2 = s2  s3 = s3  s4 = s4
    Fetches <- MCFetches
    Hints <- MCHints
    Sessions <- MCFourSessions
    None = None
    Forgets = FALSE
INVARIANTS
    TypeOK
    ClaimsAreCounted
    SleeperIsAwaited
    ToldOfHttp1
    OneOpensFirst
    FailureIsFresh
SYMMETRY Symmetry
