\* Files of at most three units and four bytes: sound, damaged, truncated,
\* unreadable and followed by something else.
SPECIFICATION FairSpec
CONSTANTS
    Files <- SmallFiles
    InBuf = 2
    OutBuf = 2
    SkipBuf = 2
    Sizes = {1, 3}
    Offsets = {0, 1, 3}
    Strange = 2
INVARIANTS
    TypeOK
    DeliversStream
PROPERTIES
    ImplementsStream
    CallReturns
