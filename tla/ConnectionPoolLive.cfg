SPECIFICATION Spec
CONSTANTS
    f1 = f1  f2 = f2   h1 = h1  s1 = s1  s2 = s2  s3 = s3  s4 = s4
    Fetches <- MCFetches
    Hints <- MCNoHints
    Sessions <- MCThreeSessions
    None = None
    Forgets = TRUE
PROPERTY
    EveryFetchEnds
