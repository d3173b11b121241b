CONSTANTS
    Threads = {t1, t2, t3}
    Ops <- MCOps
    MaxOps = 2
    None = None
    MaxScopes = 2
    MaxRelocks = 1
SPECIFICATION LocksSpec
INVARIANT CountsGuards
PROPERTIES IsAtomic IsReadersWriters GetsLock
