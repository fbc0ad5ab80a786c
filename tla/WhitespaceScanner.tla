------------------------- MODULE WhitespaceScanner -------------------------
(***************************************************************************)
(* lexer/WhitespaceScanner.cpp.  setup.whitespace has the options that are *)
(* set of "ignoreNewlines", "ignoreSpaces" and "newlinesAreSpaces".        *)
(***************************************************************************)
EXTENDS ConcreteScanner

IsSpace(ch) == ch = Space \/ IsNewline(ch)

\* A line end that is not just another space.
EndsLine == IsNewline(Peek) /\ "newlinesAreSpaces" \notin setup.whitespace

FinishWhitespace(option, code, place) ==
    IF option \in setup.whitespace THEN Accepts(Skip, place)
    ELSE AcceptToken(code, place)

WhitespaceStarts ==
    /\ Running("whitespace", "start")
    /\ \/ IsSpace(Peek) /\ ~EndsLine /\ Edits(Push, "spaces")
       \/ EndsLine /\ GoesTo("newline")
       \/ ~IsSpace(Peek) /\ Returns
    /\ UNCHANGED memo

WhitespaceGoesOn ==
    /\ Running("whitespace", "spaces")
    /\ \/ IsSpace(Peek) /\ ~EndsLine /\ Edits(Push, "spaces")
       \/ EndsLine /\ FinishWhitespace("ignoreSpaces", "Whitespace", "newline")
       \/ ~IsSpace(Peek) /\ FinishWhitespace("ignoreSpaces", "Whitespace", "returned")
    /\ UNCHANGED memo

WhitespaceTakesNewline ==
    /\ Running("whitespace", "newline")
    /\ TakesNewline("newline", "line")
    /\ UNCHANGED memo

WhitespaceEndsLine ==
    /\ Running("whitespace", "line")
    /\ FinishWhitespace("ignoreNewlines", "NewLine", "returned")
    /\ UNCHANGED memo

Whitespace ==
    \/ WhitespaceStarts \/ WhitespaceGoesOn
    \/ WhitespaceTakesNewline \/ WhitespaceEndsLine
=============================================================================
