CONSTANTS
    Texts <- MCTexts
    TokenMaxN = 4
    TokenMinN = 2
    MergeLen = 3
SPECIFICATION Spec
CHECK_DEADLOCK FALSE
INVARIANT SentencesFit
