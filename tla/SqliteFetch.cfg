CONSTANTS
    a = a
    b = b
    c = c
    Objects = {a, b, c}
    Kinds <- MCKinds
    MaxHandles = 3
    query = a
    Statements <- MCStatements
    MaxCalls = 3
    Null = "NULL"
SPECIFICATION FSpec
CHECK_DEADLOCK FALSE
INVARIANTS HandlesAreOwned FetchCompletes
