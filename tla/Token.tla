------------------------------- MODULE Token -------------------------------
(***************************************************************************)
(* lexer/Token.h: the value of a token as a number or a Boolean.           *)
(***************************************************************************)
EXTENDS StringUtil

\* What comes out: a value, a SyntaxError, or an assert() that fails.
Value(n) == [is |-> "value", number |-> n]
SyntaxError == [is |-> "SyntaxError", number |-> 0]
Aborts == [is |-> "aborts", number |-> 0]

\* token.value(), of a scanner that keeps the characters of the text.
Spelling(token) == [i \in DOMAIN token.value |-> text[token.value[i]]]

IsNumberCode(code) == code \in {"Float", "Integer", "HexNumber"}

\* Mutant: the range of the type is not looked at.
InRangeAlways(v, type, long) == TRUE

\* An unsigned type of the width of long: v is compared as an unsigned number,
\* and is never out of range.
InRange(v, type, long) ==
    \/ v \in type.min..type.max
    \/ type.min = 0 /\ type.max = long.max - long.min

\* token_value<T>() for an integral T, by way of to_long().
TokenValue(token, type, long) ==
    LET parsed == StringToInteger(Spelling(token), long)
        v == CHOOSE n \in parsed : TRUE
    IN  IF ~IsNumberCode(token.code) THEN SyntaxError
        ELSE IF parsed = Nothing THEN Aborts
        ELSE IF InRange(v, type, long) THEN Value(Wrapped(v, type))
        ELSE SyntaxError

\* token_value<bool>(): to_long() aborts before another reading is tried.
TokenTruth(token, long) ==
    LET parsed == StringToInteger(Spelling(token), long)
    IN  IF parsed = Nothing THEN Aborts ELSE Value(IF parsed = {0} THEN 0 ELSE 1)
=============================================================================
