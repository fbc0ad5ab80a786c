-------------------------- MODULE ConcreteScanner --------------------------
(***************************************************************************)
(* What the scanners of src/lexer have in common: each is a client of      *)
(* TokenBuffer whose match() runs when Tokenizer offers it the text.  A    *)
(* step of a scanner makes at most one call on the tokenizer.              *)
(*                                                                         *)
(* A setup is what a client configures, as the fixtures in lexer/test do:  *)
(* the scanners and the options of each.  A character is its own name,     *)
(* or one of those below.                                                  *)
(***************************************************************************)
EXTENDS Tokenizer

CONSTANT Setups

VARIABLES
    setup,          \* the configuration and the characters of the text
    at,             \* where the running match() is: m_state of most scanners
    memo            \* what it has to remember: the opening quote

matchVars == <<setup, at, memo>>

Space == "SP"
Backslash == "BS"
Digits == {"0", "1", "7"}
Alphas == {"a", "e", "f", "i", "n", "x"}
HexDigits == Digits \union {"a", "e", "f"}
Signs == {"+", "-"}

\* The texts have no NUL and no negative characters, see Tokenizer!Terminates.
ASSUME SetupsAssumption ==
    \A s \in Setups :
        /\ Len(s.order) = Scanners
        /\ s.length \in 0..MaxText
        /\ s.alphabet \subseteq Chars \ {Nul, Negative}
        /\ s.quotes \intersect {Nul, Backslash} = {}
        /\ s.keywords \subseteq Seq(Chars)
        /\ \A m \in s.markers : m.start \in Seq(Chars) /\ m.end \in Seq(Chars)

IsNewline(ch) == ch \in {LineFeed, Return}
IsWordChar(ch) == ch \in Alphas \union Digits \union {"_"}

\* peek(1)
PeekNext == IF pos + 1 < Len(text) THEN text[pos + 2] ELSE Nul

\* The text from a to b, or to its end.
TextOf(a, b) == SubSeq(text, a, IF b < Len(text) THEN b ELSE Len(text))

StartsWith(s, t) == Len(t) <= Len(s) /\ SubSeq(s, 1, Len(t)) = t

\* The scanners are tried in the order of priority and name.
Running(scanner, place) ==
    Matching /\ setup.order[current] = scanner /\ at = place

\* A step of match(): an edit of the token, an accept() or skip(), or neither.
Edits(edit, place) ==
    /\ edit
    /\ at' = place
    /\ calls' = calls - 1
    /\ UNCHANGED <<pc, current, locked, roundMark, setup>>

Accepts(acceptance, place) ==
    /\ acceptance
    /\ at' = place
    /\ UNCHANGED <<driverVars, setup>>

GoesTo(place) ==
    /\ at' = place
    /\ UNCHANGED <<bufferVars, driverVars, setup>>

Returns == GoesTo("returned")

AcceptToken(code, place) == Accepts(AcceptTo(pos, code, CurrentToken), place)

AcceptError(place) == Accepts(AcceptTo(pos, "Error", Literal), place)

\* Mutant: a CR is a line end of its own.
TakesNewlineCrOnly(here, place) ==
    \/ Peek = Return /\ Edits(PushOther, place)
    \/ Peek = LineFeed /\ Edits(Push, place)

\* A line end becomes one LF in the token: the CR of a CRLF is dropped, another
\* CR is replaced.
TakesNewline(here, place) ==
    \/ Peek = Return /\ PeekNext = LineFeed /\ Edits(Discard, here)
    \/ Peek = Return /\ PeekNext # LineFeed /\ Edits(PushOther, place)
    \/ Peek = LineFeed /\ Edits(Push, place)
=============================================================================
