--------------------------- MODULE WordScanners ---------------------------
(***************************************************************************)
(* lexer/KeywordScanner.cpp and lexer/IdentifierScanner.cpp, the latter    *)
(* with its default configuration.  setup.keywords are the keywords, as    *)
(* sequences of characters.                                                *)
(***************************************************************************)
EXTENDS ConcreteScanner

\* Keywords that start with a string: the range of the sorted m_keywords from
\* m_match_min to m_match_max once the string was scanned.
StartingWith(s) == {kw \in setup.keywords : StartsWith(kw, s)}

\* The text of the window.
Window == TextOf(mark + 1, pos)

IsOperator(kw) == ~IsWordChar(kw[Len(kw)])

KeywordStates == {"start", "prefix", "full", "fullAndPrefixes"}

\* match_character() on the next character.
KeywordMatches ==
    LET scanned == Append(Window, Peek)
        matches == StartingWith(scanned)
    IN  IF scanned \notin matches THEN "prefix"
        ELSE IF matches = {scanned} THEN "full" ELSE "fullAndPrefixes"

StillMatches == Peek # Nul /\ StartingWith(Append(Window, Peek)) # {}

KeywordGoesOn ==
    /\ \E place \in KeywordStates : Running("keyword", place)
    /\ StillMatches
    /\ Edits(Push, KeywordMatches)
    /\ UNCHANGED memo

\* Mutant: a keyword is one also where it goes on as another word.
KeywordIsAcceptedAnywhere ==
    \/ Peek = Nul /\ at = "full"
    \/ Peek # Nul /\ at \in {"full", "fullAndPrefixes"}

\* A match that is lost, or that the text ends.  At the end of the text a
\* keyword is not recognised if it is the start of another one.
KeywordIsAccepted ==
    \/ Peek = Nul /\ at = "full"
    \/ /\ Peek # Nul /\ at \in {"full", "fullAndPrefixes"}
       /\ IsOperator(Window) \/ ~IsWordChar(Peek)

KeywordEnds ==
    /\ \E place \in KeywordStates : Running("keyword", place)
    /\ ~StillMatches
    /\ IF KeywordIsAccepted THEN AcceptToken("Keyword", "returned") ELSE Returns
    /\ UNCHANGED memo

Keyword == KeywordGoesOn \/ KeywordEnds

-----------------------------------------------------------------------------
\* filter_character()
IdentifierTakes ==
    IF pos = mark THEN IsWordChar(Peek) /\ Peek \notin Digits ELSE IsWordChar(Peek)

Identifier ==
    /\ Running("identifier", "start")
    /\ \/ IdentifierTakes /\ Edits(Push, "start")
       \/ ~IdentifierTakes /\ pos > mark /\ AcceptToken("Identifier", "returned")
       \/ ~IdentifierTakes /\ pos = mark /\ Returns
    /\ UNCHANGED memo
=============================================================================
