SPECIFICATION FairSpec
CONSTANTS
    Chars = {"x", "LF", "CR", "NUL", "NEG"}
    Filtered = {"Comment"}
    TokenCodes = {"Text", "Comment"}
    MaxText = 2
    Scanners = 2
    MaxCalls = 4
    MaxTokens = 1
INVARIANTS
    TypeOK
    TextIsTiled
    EndsWithEndOfFile
    LocationFollowsText
    StuckOnlyAtNonPositive
    ValueFromItsText
PROPERTY Terminates
CHECK_DEADLOCK FALSE
