---------------------------- MODULE TokenBuffer ----------------------------
(***************************************************************************)
(* The calls a Scanner makes on its Tokenizer (lexer/Tokenizer.{h,cpp})    *)
(* and the StringBuffer (core/StringBuffer.cpp) under it: a window         *)
(* [mark, pos) on the text, an optional token string that replaces the     *)
(* window's text once a scanner changes it, and the location of the mark.  *)
(*                                                                         *)
(* A character of a token's value is the position in the text it was       *)
(* copied from, or Foreign when a scanner put in another character.        *)
(***************************************************************************)
EXTENDS Integers, Sequences, FiniteSets

CONSTANTS
    Chars,          \* the characters of the texts
    Filtered,       \* m_filtered_codes
    TokenCodes,     \* the codes scanners accept with
    MaxText         \* bound: the length of the text

\* A filtered end of file would never show up at the back of the tokens:
\* tokenize() loops until it does, so no client filters it.
ASSUME CodesAssumption ==
    /\ "EndOfFile" \notin Filtered
    /\ "EndOfFile" \notin TokenCodes
    /\ MaxText \in Nat

VARIABLES
    text,           \* the characters of the StringBuffer
    pos,            \* m_pos
    mark,           \* StringBuffer::m_mark
    tokenString,    \* m_token_string: <<>> if not set, <<value>> if set
    state,          \* m_state
    loc,            \* Tokenizer::m_mark: index, line and column of the mark
    tokens,         \* *m_tokens
    skipped,        \* history: the positions passed without a token
    crLfSplit       \* history: a token or a skip ended inside a CRLF

bufferVars == <<text, pos, mark, tokenString, state, loc, tokens, skipped,
                crLfSplit>>

\* The characters that mean something here: the line breaks, and those that
\* peek() returns as 0 (NUL) or less (every byte from 0x80 on, char being
\* signed).  Chars has some of them and others.
LineFeed == "LF"
Return == "CR"
Nul == "NUL"
Negative == "NEG"

Foreign == 0
Positions == 0..MaxText

AtStart ==
    /\ pos = 0
    /\ mark = 0
    /\ tokenString = <<>>
    /\ state = "Fresh"
    /\ loc = [index |-> 0, line |-> 1, column |-> 1]
    /\ tokens = <<>>
    /\ skipped = {}
    /\ crLfSplit = FALSE

Init ==
    /\ text \in UNION {[1..n -> Chars] : n \in 0..MaxText}
    /\ AtStart

-----------------------------------------------------------------------------
AtEnd == pos >= Len(text)

\* What peek() returns: 0 at the end of the text.
Peek == IF AtEnd THEN Nul ELSE text[pos + 1]

IsPositive(ch) == ch \notin {Nul, Negative}

\* scanned_string()
Scanned == [i \in 1..(pos - mark) |-> mark + i]

\* current_token()
CurrentToken == IF tokenString = <<>> THEN Scanned ELSE tokenString[1]

\* Mutant: skip() is not clamped.
SkipOneUnclamped == pos' = pos + 1

\* StringBuffer::skip(1) stops at the end of the text.
SkipOne == pos' = IF AtEnd THEN pos ELSE pos + 1

\* push(): one more character.  At the end of the text it is a NUL.
Push ==
    /\ tokenString' =
         IF tokenString = <<>> THEN <<>>
         ELSE <<Append(tokenString[1], IF AtEnd THEN Foreign ELSE pos + 1)>>
    /\ SkipOne
    /\ UNCHANGED <<text, mark, state, loc, tokens, skipped, crLfSplit>>

\* push_as(ch) with a character that is not the one in the text.
PushOther ==
    /\ tokenString' = <<Append(CurrentToken, Foreign)>>
    /\ SkipOne
    /\ UNCHANGED <<text, mark, state, loc, tokens, skipped, crLfSplit>>

\* discard() is push_as(0): where peek() is 0 it is a push().
Discard ==
    IF Peek = Nul THEN Push
    ELSE /\ tokenString' = <<CurrentToken>>
         /\ SkipOne
         /\ UNCHANGED <<text, mark, state, loc, tokens, skipped, crLfSplit>>

\* The first n characters of a value: std::string::substr(0, n).
Prefix(s, n) == SubSeq(s, 1, IF n < Len(s) THEN n ELSE Len(s))

\* chop(num), num > 0
Chop(num) ==
    /\ LET n == IF num > Len(CurrentToken) THEN Len(CurrentToken) ELSE num
       IN  tokenString' = <<Prefix(CurrentToken, Len(CurrentToken) - n)>>
    /\ UNCHANGED <<text, pos, mark, state, loc, tokens, skipped, crLfSplit>>

\* partial_rewind(num): the last num characters go back to the text.
PartialRewind(num) ==
    /\ LET n == IF num > pos - mark THEN pos - mark ELSE num
       IN  /\ tokenString' = IF tokenString = <<>> THEN <<>>
                             ELSE <<Prefix(tokenString[1], pos - mark - n)>>
           /\ pos' = pos - n
    /\ UNCHANGED <<text, mark, state, loc, tokens, skipped, crLfSplit>>

\* Mutant: the token string survives rewind().
RewindKeepsTokenString(newState) ==
    /\ pos' = mark
    /\ state' = newState
    /\ UNCHANGED <<text, mark, tokenString, loc, tokens, skipped, crLfSplit>>

\* rewind(): to the point just after the last token.
RewindTo(newState) ==
    /\ tokenString' = <<>>
    /\ pos' = mark
    /\ state' = newState
    /\ UNCHANGED <<text, mark, loc, tokens, skipped, crLfSplit>>

-----------------------------------------------------------------------------
\* Mutant: a CR is a line end of its own, also in a CRLF.
IsBreakNoLookahead(i, last) == text[i] \in {LineFeed, Return}

\* Where a line ends in the text that reset() drops, up to last: at an LF, or
\* at a CR that is not the first half of a CRLF within it.
IsBreak(i, last) ==
    \/ text[i] = LineFeed
    \/ text[i] = Return /\ ~(i < last /\ text[i + 1] = LineFeed)

CrLfAt(i) ==
    i \in 1..(Len(text) - 1) /\ text[i] = Return /\ text[i + 1] = LineFeed

Breaks(first, last) == {i \in first..last : IsBreak(i, last)}

\* Mutant: the index counts the turns of reset()'s loop, a CRLF as one.
LocationAfterByTurns(last) ==
    LET breaks == Breaks(mark + 1, last)
        tail == {i \in mark + 1..last : \A b \in breaks : b < i}
        crLfs == {i \in mark + 1..last - 1 : CrLfAt(i)}
    IN  [index  |-> loc.index + (last - mark) - Cardinality(crLfs),
         line   |-> loc.line + Cardinality(breaks),
         column |-> Cardinality(tail) + IF breaks = {} THEN loc.column ELSE 1]

\* The location when the text up to last is passed, as reset() counts it: a
\* break starts a new line at column 1, any other character adds a column.
LocationAfter(last) ==
    LET breaks == Breaks(mark + 1, last)
        tail == {i \in mark + 1..last : \A b \in breaks : b < i}
    IN  [index  |-> loc.index + (last - mark),
         line   |-> loc.line + Cardinality(breaks),
         column |-> Cardinality(tail) + IF breaks = {} THEN loc.column ELSE 1]

\* reset() and success: the text up to last is behind the tokenizer.
PassTo(last) ==
    /\ loc' = LocationAfter(last)
    /\ mark' = last
    /\ pos' = last
    /\ tokenString' = <<>>
    /\ state' = "Success"
    /\ crLfSplit' = (crLfSplit \/ CrLfAt(last))
    /\ UNCHANGED text

\* skip(): no token.
SkipTo(last) ==
    /\ PassTo(last)
    /\ skipped' = skipped \union (mark + 1..last)
    /\ UNCHANGED tokens

\* accept(code, value): a token, unless its code is filtered.
AcceptTo(last, code, value) ==
    \/ code \in Filtered /\ SkipTo(last)
    \/ /\ code \notin Filtered
       /\ PassTo(last)
       /\ tokens' = Append(tokens, [start |-> loc, end |-> LocationAfter(last),
                                    code |-> code, value |-> value])
       /\ UNCHANGED skipped

Skip == SkipTo(pos)

\* The value of an accept() with a string that is not in the text.
Literal == <<Foreign>>

-----------------------------------------------------------------------------
Location == [index : Nat, line : Nat, column : Nat]

Token ==
    [start : Location, end : Location,
     code : TokenCodes \union {"ByChar", "EndOfFile"}, value : Seq(Positions)]

\* The window is inside the text, and every variable has its type.
BufferOK ==
    /\ text \in Seq(Chars) /\ Len(text) <= MaxText
    /\ mark \in Nat
    /\ pos \in mark..Len(text)
    /\ tokenString \in Seq(Seq(Positions)) /\ Len(tokenString) <= 1
    /\ state \in {"Fresh", "Init", "Success"}
    /\ loc \in Location
    /\ tokens \in Seq(Token)
    /\ skipped \subseteq Positions
    /\ crLfSplit \in BOOLEAN
=============================================================================
