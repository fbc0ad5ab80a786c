SPECIFICATION ParserSpec
CONSTANTS
    Texts <- MCTexts
    TextCodes = {"a", "Error"}
    Codes <- MCCodes
    Files <- MCFiles
    Bytes <- MCBytes
    Sources <- MCSources
    MaxChanges = 1
    MaxFds = 2
    MaxTexts = 2
    MaxMarks = 2
    MaxTokens = 3
    Budget = 3
INVARIANTS
    ErrorTokensAreReported
    TextOfOneMoment
CHECK_DEADLOCK FALSE
