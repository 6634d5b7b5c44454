SPECIFICATION Spec
CONSTANTS
    f1 = f1  f2 = f2  u1 = u1  u2 = u2  u3 = u3  va = va  vb = vb
    None = None
    Fetches <- MCFetches
    Urls <- MCUrls
    Asked <- MCMethods
    Redirections <- MCTwoStatuses
    Refused <- MCElsewhere
    MaxRedirects = 1
    MaxIdle = 1
    Controls <- MCKeptOrNot
INVARIANTS
    TypeOK
    KeptUnderItsUrl
    RoundsAreCounted
    BodyGoesWithMethod
SYMMETRY Symmetry
