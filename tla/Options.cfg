\* Command lines of up to four words.
CONSTANTS
    NULL = NULL
    CommandLines <- UsualCommandLines
    Entries <- all_options
    Reading <- UsualReading
    Numerals <- UsualNumerals
    Dashed = {"-0", "-1"}
    IntBits = 16
    Langs <- TwoLangs
    Environments <- UsualEnvironments
    Heaps <- Zeroed
    Regexes = {"a.", "(", "."}
    Broken = {"("}
    Capitals = {"B"}
    Unslashed <- UsualUnslashed
SPECIFICATION Spec
INVARIANTS
    TypeOK
    LastSettingWins
    SearchAsDocumented
CHECK_DEADLOCK FALSE
