CONSTANTS
    Threads = {t1, t2, t3}
    Hashes = {0, 1, 2, 3}
    MaxNumThreads = 3
    MaxMatches = 2
    ByteCount = 3
    Printable = {1, 2}
    EndOfText <- MCEndOfText
    StartOfText <- MCStartOfText
    Sources <- MCSources
    MaxObjects = 2
SPECIFICATION CoreSpec
INVARIANTS AloneReadsOwn RanksFollowMerges DecodesBack SpecialsBehindRanks HeldIsReachable
SYMMETRY ThreadSymmetry
