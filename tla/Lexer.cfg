SPECIFICATION LexerSpec
CONSTANTS
    MaxTabs = 2
    MaxSpaces = 2
    MaxNest = 2
    MaxSlips = 1
INVARIANTS
    LexerTypeOK
    IndentsNested
    BlocksMatch
    NestingMatches
\* The stream ends.
CHECK_DEADLOCK FALSE
