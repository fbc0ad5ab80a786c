----------------------------- MODULE Scanners -----------------------------
(***************************************************************************)
(* The Tokenizer with the scanners of src/lexer in place of any scanner:   *)
(* tokenize() for one text, with the scanners of one setup.  The texts     *)
(* have no NUL and no negative characters, see Tokenizer!Terminates.       *)
(***************************************************************************)
EXTENDS WhitespaceScanner, QStringScanner, CommentScanner, NumberScanner,
        WordScanners, PlainTextScanner, Token

\* The codes of the scanners.
ScannerCodes ==
    {"Whitespace", "NewLine", "Comment", "Error", "Quoted", "Unclosed", "Integer", "Float",
     "HexNumber", "Keyword", "Identifier", "Text"}

\* The bounds of Tokenizer leave room for what the scanners do with a text.
ASSUME BoundsAssumption ==
    /\ ScannerCodes \subseteq TokenCodes
    /\ MaxCalls > 2 * MaxText + 1
    /\ MaxTokens >= 2 * MaxText

scannerVars == <<matchVars, commentVars>>

ScannersInit ==
    /\ setup \in Setups
    /\ text \in UNION {[1..n -> setup.alphabet] : n \in 0..setup.length}
    /\ AtStart
    /\ DriverInit
    /\ at = "none"
    /\ memo = "none"
    /\ CommentInit

\* A step of tokenize() or match_token(), which may call match().
Driver ==
    /\ StartRound \/ (at = "returned" /\ MatchEnds) \/ CatchAll \/ EndRound
    /\ at' = IF pc' \in {"match", "lockedMatch"} THEN "start" ELSE "none"
    /\ memo' = "none"
    /\ UNCHANGED <<setup, commentVars>>

Scanner ==
    \/ (Whitespace \/ QString \/ Number \/ Keyword \/ Identifier \/ PlainText)
        /\ UNCHANGED commentVars
    \/ CommentNext

ScannersNext == Driver \/ Scanner

ScannersSpec == ScannersInit /\ [][ScannersNext]_<<vars, scannerVars>>

-----------------------------------------------------------------------------
(* Properties.                                                             *)

\* Where a token starts and ends in the text.
First(token) == token.start.index + 1
Last(token) == token.end.index

TokensWith(codes) == {k \in 1..Len(tokens) : tokens[k].code \in codes}

\* A number that starts with several zeroes, or with one and a digit, and ends
\* at a period.
CutsAfterZeroes ==
    /\ NumberDropsPeriod
    /\ tokenString # <<>>

\* The scanners only do what Tokenizer expects of any scanner, so that its
\* theorems are about them, with one exception: NumberScanner gives a period
\* back when leading zeroes have already made the token shorter than its text.
ScannersAreAllowed == [][Next \/ CutsAfterZeroes]_vars

\* The oassert in match_token() holds: the locked scanner, the one in the
\* middle of a comment of several lines, finds the comment's next line.
LockedScannerSucceeds == pc # "failed"

\* How many times in a row ch stands before i, down to a.
RunBefore(ch, a, i) == Cardinality({j \in a..i - 1 : \A k \in j..i - 1 : text[k] = ch})

BackslashesBefore(a, i) == RunBefore(Backslash, a, i)

\* In the string that opens at a, the character at i is escaped, or escapes
\* the next one.
IsEscaped(a, i) == ~setup.verbatim /\ BackslashesBefore(a + 1, i) % 2 = 1
IsEscape(a, i) == ~setup.verbatim /\ text[i] = Backslash /\ ~IsEscaped(a, i)

Closes(a, i) == text[i] = text[a] /\ ~IsEscaped(a, i)

\* The value is what the text from first to last means in the string that
\* opens at a: its characters in order without the escaping ones, and another
\* one for each of those that stand for a control character.
IsDecoded(value, a, first, last) ==
    LET kept == {i \in first..last : ~IsEscape(a, i)}
        Rank(i) == Cardinality({j \in kept : j <= i})
    IN  /\ Len(value) = Cardinality(kept)
        /\ \A i \in kept :
              value[Rank(i)] = IF IsEscaped(a, i) /\ text[i] \in Escapes THEN Foreign ELSE i

\* A string ends at the first quote of its kind that is not escaped, or is
\* unclosed if there is none; its value is what is between the quotes with
\* the escapes replaced, or all of it in verbatim mode.
StringsAreDecoded ==
    \A k \in TokensWith({"Quoted", "Unclosed"}) :
        LET a == First(tokens[k])
            b == Last(tokens[k])
            closed == tokens[k].code = "Quoted"
        IN  /\ text[a] \in setup.quotes
            /\ closed <=> b > a /\ Closes(a, b)
            /\ \A i \in a + 1..b - 1 : ~Closes(a, i)
            /\ ~closed => b = Len(text)
            /\ IF setup.verbatim THEN IsDecoded(tokens[k].value, a, a, b)
               ELSE IsDecoded(tokens[k].value, a, a + 1, IF closed THEN b - 1 ELSE b)

\* The text of a token starts with a marker, and where the rest of it starts.
IsOpenedBy(m, token) ==
    /\ TextOf(First(token), First(token) + Len(m.start) - 1) = m.start
    /\ m.hashpling => First(token) = 1
BodyOf(m, token) == First(token) + Len(m.start)

\* Where in that rest the end marker stands.
Ends(m, token) ==
    {i \in BodyOf(m, token)..Last(token) - Len(m.end) + 1 :
        TextOf(i, i + Len(m.end) - 1) = m.end}

\* Less than an end marker before i its first character stands in the comment:
\* an end that was begun there could still go on at i.
IsBegunBefore(m, token, i) ==
    \E j \in BodyOf(m, token)..i - 1 : i - j < Len(m.end) /\ text[j] = m.end[1]

\* A comment that is not split goes from its start marker to an end marker or
\* is an error at the end of the text, and an end marker in it that it goes
\* past is one that stands where another one was begun.  One that ends with the
\* line has no line end in it.  (A marker of one character is always gone past.)
CommentsReachTheirEnd ==
    ~setup.split =>
        \A k \in TokensWith({"Comment", "Error"}), m \in setup.markers :
            LET a == First(tokens[k])
                b == Last(tokens[k])
                closed == tokens[k].code = "Comment"
                last == b - Len(m.end) + 1
            IN  IsOpenedBy(m, tokens[k]) =>
                  IF m.eol
                  THEN /\ \A i \in a..b : ~IsNewline(text[i])
                       /\ b = Len(text) \/ IsNewline(text[b + 1])
                  ELSE /\ closed => last \in Ends(m, tokens[k])
                       /\ ~closed => b = Len(text)
                       /\ Len(m.end) > 1 =>
                             \A i \in Ends(m, tokens[k]) :
                                (closed /\ i = last) \/ IsBegunBefore(m, tokens[k], i)

\* The character at which an end marker is lost may start it again, says a
\* comment in find_end_marker(): no comment goes past an end marker.
CommentEndsAtFirstMarker ==
    ~setup.split =>
        \A k \in TokensWith({"Comment", "Error"}), m \in setup.markers :
            IsOpenedBy(m, tokens[k]) /\ ~m.eol =>
                \A i \in Ends(m, tokens[k]) :
                    tokens[k].code = "Comment" /\ i = Last(tokens[k]) - Len(m.end) + 1

\* What that takes of a configuration: no start marker is empty or how another
\* one starts, no comment that ends with the line starts with a line end, and
\* numbers, the other ones that can be errors, are looked for after comments
\* are, as they are in the order of the scanners' names.
MarkersAreApart ==
    \A s \in Setups : \A m \in s.markers :
        /\ m.start # <<>>
        /\ \A other \in s.markers : StartsWith(other.start, m.start) => other = m
        /\ m.eol => \A i \in 1..Len(m.start) : ~IsNewline(m.start[i])
        /\ \A i \in 1..Scanners :
              s.order[i] = "number" => \E j \in 1..i - 1 : s.order[j] = "comment"

\* No token ends inside a CRLF; and where no scanner drops line ends there is
\* one NewLine token for each, whichever scanner makes it.
LinesAreKept ==
    /\ ~crLfSplit
    /\ pc = "done" /\ setup.keepsLines =>
          Cardinality(TokensWith({"NewLine"})) = Cardinality(LineEnds)

\* What that takes of a configuration: there is no part of a line end in a
\* quote, a keyword or the marker of a comment, and a CR is left to the
\* scanner for whitespace.  Where no scanner drops line ends, that or the one
\* for plain text takes each of them, and none is within a string or a comment
\* that is one token.
LineEndsAreApart ==
    \A s \in Setups :
        LET kinds == {s.order[i] : i \in 1..Scanners}
        IN  /\ \A quote \in s.quotes : ~IsNewline(quote)
            /\ \A kw \in s.keywords : \A i \in 1..Len(kw) : ~IsNewline(kw[i])
            /\ \A m \in s.markers :
                  /\ \A i \in 1..Len(m.start) : ~IsNewline(m.start[i])
                  /\ \A i \in 1..Len(m.end) : ~IsNewline(m.end[i])
                  /\ ~m.eol => m.end # <<>>
            /\ Return \in s.alphabet => "whitespace" \in kinds /\ "plaintext" \notin kinds
            /\ s.keepsLines =>
                  /\ "NewLine" \notin Filtered
                  /\ LineFeed \in s.alphabet => kinds \intersect {"whitespace", "plaintext"} # {}
                  /\ s.whitespace \subseteq {"ignoreSpaces"}
                  /\ s.quotes = {}
                  /\ s.split \/ \A m \in s.markers : m.eol

-----------------------------------------------------------------------------
AreDigits(a, b) == \A i \in a..b : text[i] \in Digits

\* Integers and hexadecimal numbers from a to b, without a sign.
IsInteger(a, b) == a <= b /\ AreDigits(a, b)

IsHex(a, b) ==
    \E x \in a + 1..b - 1 :
        /\ text[x] = "x"
        /\ \A i \in a..x - 1 : text[i] = Zero
        /\ \A i \in x + 1..b : text[i] \in HexDigits

\* What an exponent can follow: `1`, `1.`, `1.5`, `.5` or `0.`, but not `0`.
IsMantissa(a, b) ==
    \/ IsInteger(a, b) /\ \E i \in a..b : text[i] # Zero
    \/ \E p \in a..b :
          /\ text[p] = Period
          /\ AreDigits(a, p - 1) /\ AreDigits(p + 1, b)
          /\ a < b

IsExponent(a, b) ==
    /\ a < b /\ text[a] = "e"
    /\ IsInteger(IF text[a + 1] \in Signs THEN a + 2 ELSE a + 1, b)

IsFloat(a, b) ==
    \/ IsMantissa(a, b) /\ text[b] # Period /\ ~IsInteger(a, b)
    \/ \E e \in a + 1..b : IsMantissa(a, e - 1) /\ IsExponent(e, b)

IsNumeral(code, a, b) ==
    LET n == IF text[a] \in Signs THEN a + 1 ELSE a
    IN  CASE code = "Integer" -> IsInteger(n, b)
          [] code = "Float" -> IsFloat(n, b)
          [] code = "HexNumber" -> IsHex(n, b)

\* A sign and a period without a digit are taken for an integer, and for the
\* mantissa of a float.
IsSignAndPeriod(a) ==
    text[a] \in Signs /\ a < Len(text) /\ text[a + 1] = Period

\* A number token is a numeral of its code, and no numeral goes on after it.
NumbersAreNumerals ==
    \A k \in TokensWith({"Integer", "Float", "HexNumber"}) :
        LET a == First(tokens[k])
        IN  ~IsSignAndPeriod(a) =>
              /\ IsNumeral(tokens[k].code, a, Last(tokens[k]))
              /\ \A c \in Last(tokens[k]) + 1..Len(text) :
                    \A code \in {"Integer", "Float", "HexNumber"} : ~IsNumeral(code, a, c)

\* What that takes of a configuration: the features of numbers that the
\* definitions above have are set, and a `$` starts no hexadecimal number.
NumbersAreComplete ==
    \A s \in Setups :
        "number" \in {s.order[i] : i \in 1..Scanners} =>
            {"scientific", "hex", "fractions"} \subseteq s.number /\ "dollarHex" \notin s.number

\* `We don't want octal numbers. Therefore we strip leading zeroes.`: what is
\* left of an integer with leading zeroes is digits.
ZeroesAreStripped ==
    \A k \in TokensWith({"Integer"}) :
        text[First(tokens[k])] = Zero =>
            \A i \in 1..Len(tokens[k].value) : text[tokens[k].value[i]] \in Digits

-----------------------------------------------------------------------------
\* A keyword token is a keyword, the longest one at its place, and not the
\* beginning of a word; and an identifier is a keyword only where the text ends
\* and the keyword could go on.
KeywordsAreWords ==
    /\ \A k \in TokensWith({"Keyword"}) :
          LET a == First(tokens[k])
              kw == TextOf(a, Last(tokens[k]))
          IN  /\ kw \in setup.keywords
              /\ \A longer \in setup.keywords \ {kw} :
                    Len(longer) > Len(kw) => TextOf(a, a + Len(longer) - 1) # longer
              /\ Last(tokens[k]) < Len(text) /\ ~IsOperator(kw) =>
                    ~IsWordChar(text[Last(tokens[k]) + 1])
    /\ \A k \in TokensWith({"Identifier"}) :
          LET word == TextOf(First(tokens[k]), Last(tokens[k]))
          IN  word \in setup.keywords =>
                /\ Last(tokens[k]) = Len(text)
                /\ StartingWith(word) # {word}

\* What that takes of a configuration: keywords are looked for before
\* identifiers are, and what makes a keyword that is a word longer goes on with
\* the word.
KeywordsComeFirst ==
    \A s \in Setups :
        /\ s.keywords # {} =>
              \A i \in 1..Scanners : s.order[i] = "identifier" =>
                 \E j \in 1..i - 1 : s.order[j] = "keyword"
        /\ \A kw, longer \in s.keywords :
              /\ \A i \in 1..Len(kw) : IsWordChar(kw[i])
              /\ Len(kw) < Len(longer) /\ SubSeq(longer, 1, Len(kw)) = kw
              => IsWordChar(longer[Len(kw) + 1])

-----------------------------------------------------------------------------
(* What the program does with the value of a token.                        *)

\* The types for which token values are asked, as their ranges: one narrower
\* than long, signed and unsigned, long, and unsigned long.
Long == [min |-> -512, max |-> 511]
Types == {[min |-> -8, max |-> 7], [min |-> 0, max |-> 15], Long, [min |-> 0, max |-> 1023]}

\* What a digit with n places after it is worth.
Power(radix, n) ==
    LET power[i \in 0..n] == IF i = 0 THEN 1 ELSE power[i - 1] * radix
    IN  power[n]

\* What the digits from first to b stand for, each by its place.  Before the
\* x of a hexadecimal number are zeroes, which add nothing.
SumOf(first, b, radix) ==
    LET Weight(i) ==
            IF i < first \/ text[i] = "x" THEN 0 ELSE Digit(text[i]) * Power(radix, b - i)
        sum[i \in 0..b] == IF i = 0 THEN 0 ELSE sum[i - 1] + Weight(i)
    IN  sum[b]

\* The number that an Integer or HexNumber from a to b stands for.
NumberOf(code, a, b) ==
    LET first == IF text[a] \in Signs THEN a + 1 ELSE a
        n == SumOf(first, b, IF code = "HexNumber" THEN 16 ELSE 10)
    IN  IF text[a] = "-" THEN -n ELSE n

\* What to_long() does not take: a plus, a minus before the prefix of a
\* hexadecimal number, and the period of ZeroesAreStripped.
NotANumeral(token) ==
    LET a == First(token)
    IN  \/ text[a] = "+"
        \/ text[a] = "-" /\ token.code = "HexNumber"
        \/ Period \in {text[token.value[i]] : i \in DOMAIN token.value}

\* A client that asks a number token for its value in a type gets the number
\* the text spells if that is in the type, and otherwise an error: never
\* another number.  This is so of every number that long can hold, but for a
\* negative one as unsigned long, and where to_long() aborts.  It is written as
\* it would be read.
TokenValueIsTheNumber ==
    pc = "done" =>
        \A k \in TokensWith({"Integer", "HexNumber"}) :
            LET token == tokens[k]
                n == NumberOf(token.code, First(token), Last(token))
            IN  IF NotANumeral(token)
                THEN \A type \in Types : TokenValue(token, type, Long) = Aborts
                ELSE n \in Long.min..Long.max =>
                       /\ \A type \in Types :
                             ~(n < 0 /\ type.max > Long.max) =>
                                TokenValue(token, type, Long) =
                                   IF n \in type.min..type.max THEN Value(n) ELSE SyntaxError
                       /\ TokenTruth(token, Long) = Value(IF n = 0 THEN 0 ELSE 1)
                       /\ StringToInteger(IntegerToString(n, 10), Long) = {n}

\* s without the blanks around it.
IsStripped(stripped, s) ==
    \E i \in 1..Len(s) + 1, j \in 0..Len(s) :
        /\ stripped = SubSeq(s, i, j)
        /\ \A b \in (1..i - 1) \union (j + 1..Len(s)) : IsBlank(s[b])
        /\ i <= j => ~IsBlank(s[i]) /\ ~IsBlank(s[j])

\* The name in a piece is what stands before its first name separator, the
\* value what stands behind it.
NameEnd(piece, sep) ==
    LET ends == {i \in 1..Len(piece) : piece[i] = sep} \union {Len(piece) + 1}
    IN  CHOOSE i \in ends : \A j \in ends : i <= j
NameIn(piece, sep) == SubSeq(piece, 1, NameEnd(piece, sep) - 1)
ValueIn(piece, sep) == SubSeq(piece, NameEnd(piece, sep) + 1, Len(piece))

\* The pairs in a text are the names and values in its pieces, without blanks
\* around them and in their order; a piece without a name is left out, and
\* nothing else is lost: the pieces make the text again.
PairsMatch(s, pairSep, valueSep) ==
    LET pieces == Split(s, pairSep)
        pairs == ParsePairs(s, pairSep, valueSep)
        named == {i \in 1..Len(pieces) : ~IsStripped(<<>>, NameIn(pieces[i], valueSep))}
    IN  /\ Join(pieces, pairSep) = s
        /\ \A i \in 1..Len(pieces) : \A j \in 1..Len(pieces[i]) : pieces[i][j] # pairSep
        /\ Len(pairs) = Cardinality(named)
        /\ \A i \in named :
              LET pair == pairs[Cardinality({j \in named : j <= i})]
              IN  /\ IsStripped(pair[1], NameIn(pieces[i], valueSep))
                  /\ IsStripped(pair[2], ValueIn(pieces[i], valueSep))

\* The names and values that parse_pairs() finds in a token's text are those
\* that are there.
PairsAreTheText ==
    pc = "done" =>
        \A k \in TokensWith({"Text"}) : PairsMatch(Spelling(tokens[k]), ";", "=")
=============================================================================
