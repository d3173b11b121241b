SPECIFICATION EncodeSpec
CONSTANTS
    letter = letter
    b0 = b0
    b1 = b1
    open = open
    close = close
    lead = lead
    cont = cont
    Byte <- MCByte
    Pieces <- MCPieces
    RankTables <- MCRankTables
    SizeMax = 99
    Chars <- MCChars
    Leading <- MCLeading
    Continuation <- MCContinuation
    Texts <- MCTexts
    Specials <- MCSpecials
    AllowedArgs <- MCAllowedArgs
    All = All
    NoSpecial = NoSpecial
INVARIANTS
    CacheFresh
    ThrowsOnlyOnUnknownByte
    Lossless
    LosslessToFirstSpecial
    SpecialsAreAllowed
PROPERTIES
    MergesAsPromised
    CallEnds
