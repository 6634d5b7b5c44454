SPECIFICATION Spec
CONSTANTS
    f1 = f1  f2 = f2  u1 = u1  u2 = u2  u3 = u3  va = va  vb = vb
    None = None
    Fetches <- MCFetches
    Urls <- MCOneUrl
    Asked <- MCMixed
    Redirections <- MCNone
    Refused <- MCNone
    MaxRedirects = 0
    MaxIdle = 0
    Controls <- MCStale
INVARIANT
    AnswersOnlyItsVariant
SYMMETRY Symmetry
