SPECIFICATION ScannersSpec
CONSTANTS
    Setups <- SlashComments
    Chars <- MCChars
    Filtered = {}
    TokenCodes = {"Whitespace", "NewLine", "Comment", "Error", "Quoted", "Unclosed", "Integer", "Float", "HexNumber", "Keyword", "Identifier", "Text"}
    MaxText = 6
    Scanners = 3
    MaxCalls = 20
    MaxTokens = 20
INVARIANT CommentEndsAtFirstMarker
CHECK_DEADLOCK FALSE
