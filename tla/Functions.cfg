CONSTANTS
    Texts <- MCTexts
    TokenMaxN = 4
    TokenMinN = 2
    MergeLen = 3
    Inputs <- MCInputs
    Base = 7
    Quote = 4
    MaxInt = 31
    Blobs <- MCBlobs
    Strings <- MCStrings
    ByteTexts <- MCByteTexts
    UrlTexts <- MCUrlTexts
    Rc4Bytes <- MCRc4Bytes
    Xor <- MCXor
    Rc4Keys <- MCRc4Keys
    Rc4Texts <- MCRc4Texts
    Wrap = 2147483647
    Zones <- MCZones
    Instants <- MCInstants
    Fields <- MCFields
SPECIFICATION FunctionsSpec
CHECK_DEADLOCK FALSE
INVARIANTS KeepsText LengthsKept
    HashesAgree BlobKeepsData WrittenIsRead TextsKept ListsKept
