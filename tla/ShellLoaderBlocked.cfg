SPECIFICATION LoaderSpec
CONSTANTS
    p1 = p1  p2 = p2  b1 = b1  b2 = b2  u1 = u1  u2 = u2  t1 = t1
    Jobs <- MCJobs
    Ahead <- MCAhead
    Urls <- MCUrls
    UrlOf <- MCUrlOf
    Takers <- MCNoTakers
    Limit = 2
    None = None
PROPERTY
    EveryFetchEnds
