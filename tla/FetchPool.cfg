SPECIFICATION Spec
CONSTANTS
    j1 = j1  j2 = j2  t1 = t1  t2 = t2
    Jobs <- MCJobs
    Takers <- MCTakers
    Limit = 2
    None = None
INVARIANTS
    GoneMeansAnswered
    TakenOnce
PROPERTIES
    WokenAfterAnswer
    KeepsPromise
    EverybodyReturns
