SPECIFICATION Spec
CONSTANTS
    Threads = {t1, t2, t3}
    Hashes = {0, 1, 2, 3}
    NumSlots = 3
    MaxMatches = 2
INVARIANT MatchDataPerThread
