CONSTANTS
    Procs = {p1, p2, p3}
    Blocks <- MCBlocks
    Contents <- MCContents
    MaxFds = 2
    MaxFailures = 2
    None = None
SPECIFICATION FairSpec
PROPERTIES ReadsWhole ThrowShutsOut WaitersServed
CHECK_DEADLOCK FALSE
