SPECIFICATION FairSpec
CONSTANTS
    Threads = {t1, t2}
    None = None
    MaxCalls = 2
    NumVals = 3
    BatchCount = 2
    MaxCrashes = 1
INVARIANTS
    VectorAtomic
    FetchSeesWholeVectors
    NoTransactionLeftOpen
    ReportedIsDurable
    BatchesArePrefix
    VectorCount
    BrokenOnlyUnlocked
PROPERTIES
    CallsReturn
