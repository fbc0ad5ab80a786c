SPECIFICATION FairSpec
CONSTANTS
    Texts <- MCTexts
    TextCodes = {"a", "b"}
    Codes <- MCCodes
    MaxTexts = 3
    MaxMarks = 2
    MaxTokens = 3
    Budget = 6
INVARIANTS
    TypeOK
    CursorOnToken
    TokensPointIntoBuffer
    ParserReadsText
PROPERTY EndIsReached
CHECK_DEADLOCK FALSE
