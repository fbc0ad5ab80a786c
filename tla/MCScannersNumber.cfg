SPECIFICATION ScannersSpec
CONSTANTS
    Setups <- Numbers
    Chars <- MCChars
    Filtered = {}
    TokenCodes = {"Whitespace", "NewLine", "Comment", "Error", "Quoted", "Unclosed", "Integer", "Float", "HexNumber", "Keyword", "Identifier", "Text"}
    MaxText = 6
    Scanners = 3
    MaxCalls = 20
    MaxTokens = 20
INVARIANT ZeroesAreStripped
CHECK_DEADLOCK FALSE
