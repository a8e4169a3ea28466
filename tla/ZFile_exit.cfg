\* Sound files.
SPECIFICATION Spec
CONSTANTS
    Files <- SoundFiles
    InBuf = 2
    OutBuf = 2
    SkipBuf = 2
    Sizes = {1, 3}
    Offsets = {0, 1, 3}
    Strange = 2
INVARIANTS
    ExitsOnlyIfShort
