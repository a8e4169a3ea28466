\* Files of up to six lines and standard input, in every format.
SPECIFICATION Spec
CONSTANTS
    Inputs <- All
INVARIANTS
    TypeOK
    ReadsInside
    OutputRight
