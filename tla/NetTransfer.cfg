CONSTANTS
    Kinds <- MCKinds
    Responses <- MCResponses
    OldFile <- MCOldFile
    MaxCalls = 3
SPECIFICATION Spec
INVARIANTS Released BodyArrives ReportsOwnResponse FileOfOneResponse
