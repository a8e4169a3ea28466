\* Five file systems of three directories, every combination of options.
SPECIFICATION FairSpec
CONSTANTS
    top = top
    sub = sub
    deep = deep
    file = file
    other = other
    here = here
    there = there
    Dirs <- Directories
    Files <- Plain
    Missing = Missing
    NoKey = NoKey
    Worlds <- SmallWorlds
    Depths <- AllDepths
    Formats <- SomeFormats
    NoDevice = NoDevice
    MaxErrors = 1
INVARIANTS
    TypeOK
    SymhashIsStack
    HeadingOffAlone
    WalkComplete
PROPERTIES
    Termination
