\* Short texts and queries over small alphabets: literals, and regular
\* expressions over the buffer and line by line, and the query ".".
SPECIFICATION Spec
CONSTANTS
    H_SIZE = 16
    CellValues = 256
    Inputs <- Queries
    Initial = 1
INVARIANTS
    TypeOK
    LiteralFindsFirst
    ResultRight
PROPERTIES
    Advances
