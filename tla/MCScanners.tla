---------------------------- MODULE MCScanners ----------------------------
(***************************************************************************)
(* Scanners with the setups of lexer/test: each of the scanners, with      *)
(* identifiers and whitespace or with strings, on every short text of the  *)
(* characters that matter to it.                                           *)
(***************************************************************************)
EXTENDS Scanners

Plain == [
    order |-> <<"qstring", "identifier", "whitespace">>,
    alphabet |-> {},
    length |-> 5,
    whitespace |-> {"newlinesAreSpaces"},
    keepsLines |-> FALSE,
    quotes |-> {},
    verbatim |-> FALSE,
    markers |-> {},
    split |-> FALSE,
    number |-> {},
    keywords |-> {}]

\* QStringTest
Strings == {[Plain EXCEPT !.quotes = {"Q", "'"}, !.verbatim = v,
                          !.alphabet = {"Q", "'", Backslash, "n"}] : v \in BOOLEAN}

\* WhitespaceTest
Blanks ==
    {[Plain EXCEPT !.whitespace = options, !.alphabet = {"a", Space, LineFeed, Return},
                   !.length = 4, !.keepsLines = options \subseteq {"ignoreSpaces"}] :
        options \in SUBSET {"ignoreNewlines", "ignoreSpaces", "newlinesAreSpaces"}}

Slashes == {
    [start |-> <<"/", "*">>, end |-> <<"*", "/">>, eol |-> FALSE, hashpling |-> FALSE],
    [start |-> <<"/", "/">>, end |-> <<>>, eol |-> TRUE, hashpling |-> FALSE],
    [start |-> <<"#">>, end |-> <<>>, eol |-> TRUE, hashpling |-> TRUE]}

Hashes == {
    [start |-> <<"/">>, end |-> <<"*", "#", "/">>, eol |-> FALSE, hashpling |-> FALSE]}

\* CommentTest, CommentTestSplitLines, and a longer end marker
Comments ==
    {[Plain EXCEPT !.order = <<"comment", "identifier", "whitespace">>,
                   !.whitespace = {},
                   !.markers = s.markers, !.alphabet = {"/", "*"} \union s.others,
                   !.length = s.length, !.split = s.split, !.keepsLines = s.split] :
        s \in {[markers |-> Slashes, split |-> FALSE, others |-> {"#", LineFeed}, length |-> 5],
               [markers |-> Slashes, split |-> TRUE, others |-> {LineFeed, Return}, length |-> 5],
               [markers |-> Slashes, split |-> TRUE, others |-> {LineFeed}, length |-> 6],
               [markers |-> Hashes, split |-> FALSE, others |-> {"#"}, length |-> 6]}}

\* Those with the markers of CommentTest
SlashComments == {s \in Comments : s.markers = Slashes}

\* A comment that starts like a number with a sign
Dashes ==
    {[Plain EXCEPT !.order = <<"comment", "number", "whitespace">>,
                   !.markers = {[start |-> <<"-", "-">>, end |-> <<>>, eol |-> TRUE,
                                 hashpling |-> FALSE]},
                   !.number = {"scientific", "sign", "hex", "fractions"},
                   !.alphabet = {"-", "7", "e", LineFeed}]}

\* NumberTest
Numbers ==
    {[Plain EXCEPT !.order = <<"number", "identifier", "whitespace">>,
                   !.number = {"scientific", "sign", "hex", "fractions"},
                   !.alphabet = {"0", "7", "e"} \union other] :
        other \in {{Period, "-"}, {"+", "-", "x"}}}

\* KeywordTest
Keywords ==
    {[Plain EXCEPT !.order = <<"keyword", "identifier", "whitespace">>,
                   !.keywords = {<<"i", "f">>, <<"i", "f", "f", "i">>, <<">">>, <<">", ">", "=">>},
                   !.alphabet = {"i", "f", ">", "="}]}

\* PlainTextParser, with the settings of a client in its lines
PlainTexts ==
    {[Plain EXCEPT !.order = <<"plaintext", "identifier", "whitespace">>,
                   !.alphabet = {"a", ";", "=", Space, LineFeed},
                   !.whitespace = {}, !.keepsLines = TRUE]}

MCSetups == Strings \union Blanks \union Comments \union Dashes \union Numbers
            \union Keywords \union PlainTexts
MCChars == UNION {s.alphabet : s \in MCSetups}

\* The keywords are some for which KeywordsAreAlwaysWords holds.
ASSUME WordsAssumption == KeywordsComeFirst

\* The scanners leave the line ends to those for which LinesAreAlwaysKept holds.
ASSUME LinesAssumption == LineEndsAreApart

\* The markers of comments are some for which CommentsAlwaysReachTheirEnd holds.
ASSUME MarkersAssumption == MarkersAreApart

\* The features of numbers are some for which NumbersAreAlwaysNumerals holds.
ASSUME NumbersAssumption == NumbersAreComplete
=============================================================================
