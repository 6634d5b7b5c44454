SPECIFICATION Spec
CONSTANTS
    o1 = o1  o2 = o2  d1 = d1  t1 = t1  t2 = t2  s1 = s1  s2 = s2  p = p  q = q
    Opens = {o1}
    Deletes = {}
    Made = {t1, t2}
    Stores = {s1, s2}
    Realms = {p}
    ThreadOf <- MCThreadOf
    RealmOf <- MCOnePage
    VersionOf <- MCVersionOf
    PlanOf <- MCApart
    Databases <- MCDatabases
    MaxRequests = 2
    MaxOps <- MCMaxOps
    None = None
CHECK_DEADLOCK FALSE
INVARIANT
    FileIsTheDatabase
