\* The patterns of up to four directories against what their lines mean.
CONSTANTS
    Lines <- AllLines
    Tops <- UsualTops
    DirNames <- OneLetter
    Entries <- UsualEntries
    Options <- UsualOptions
    MaxLines = 3
    MaxDepth = 2
SPECIFICATION Spec
INVARIANTS
    TypeOK
    FilterRight
CHECK_DEADLOCK FALSE
