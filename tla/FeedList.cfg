SPECIFICATION Spec
CONSTANTS
    a = a
    b = b
    c = c
    Docs = {a, b, c}
    Minute <- Times
    Public = {b}
INVARIANTS ListSound RowsAccounted HeardHasRow RowsInRange
PROPERTIES NewDocsAppear
CHECK_DEADLOCK FALSE
