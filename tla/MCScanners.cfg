SPECIFICATION ScannersSpec
CONSTANTS
    Setups <- MCSetups
    Chars <- MCChars
    Filtered = {}
    TokenCodes = {"Whitespace", "NewLine", "Comment", "Error", "Quoted", "Unclosed", "Integer", "Float", "HexNumber", "Keyword", "Identifier", "Text"}
    MaxText = 6
    Scanners = 3
    MaxCalls = 20
    MaxTokens = 20
INVARIANTS
    LockedScannerSucceeds
    StringsAreDecoded
    CommentsReachTheirEnd
    LinesAreKept
    NumbersAreNumerals
    KeywordsAreWords
    TokenValueIsTheNumber
    PairsAreTheText
PROPERTIES
    ScannersAreAllowed
CHECK_DEADLOCK FALSE
