SPECIFICATION Spec
CONSTANTS
    letter = letter
    open = open
    close = close
    lead = lead
    cont = cont
    Chars <- MCChars
    Leading <- MCLeading
    Continuation <- MCContinuation
    Texts <- MCTexts
    Specials <- MCSpecials
    AllowedArgs <- MCAllAllowed
    All = All
    NoSpecial = NoSpecial
INVARIANT FindsNextSpecial
