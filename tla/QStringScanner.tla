-------------------------- MODULE QStringScanner --------------------------
(***************************************************************************)
(* lexer/QStringScanner.cpp.  setup.quotes are the characters that open a  *)
(* string, setup.verbatim keeps quotes and escapes in the token.  memo is  *)
(* m_quote.                                                                *)
(***************************************************************************)
EXTENDS ConcreteScanner

Escapes == {"r", "n", "t"}

\* A character that goes into the token in verbatim mode only.
Drops(place) == Edits(IF setup.verbatim THEN Push ELSE Discard, place)

QStringStarts ==
    /\ Running("qstring", "start")
    /\ \/ Peek \in setup.quotes /\ Drops("string") /\ memo' = Peek
       \/ Peek \notin setup.quotes /\ Returns /\ UNCHANGED memo

\* Mutant: an escape is not recognised before the quote.
QStringGoesOnQuoteFirst ==
    /\ Running("qstring", "string")
    /\ Peek # Nul
    /\ \/ Peek = memo /\ Drops("closed")
       \/ Peek = Backslash /\ ~setup.verbatim /\ PeekNext # memo /\ Edits(Discard, "escape")
       \/ /\ Peek # memo
          /\ Peek # Backslash \/ setup.verbatim \/ PeekNext = memo
          /\ Edits(Push, "string")
    /\ UNCHANGED memo

QStringGoesOn ==
    /\ Running("qstring", "string")
    /\ Peek # Nul
    /\ \/ Peek = memo /\ Drops("closed")
       \/ Peek = Backslash /\ ~setup.verbatim /\ Edits(Discard, "escape")
       \/ /\ Peek # memo
          /\ Peek # Backslash \/ setup.verbatim
          /\ Edits(Push, "string")
    /\ UNCHANGED memo

\* "Quoted" stands for TokenCode_by_char(m_quote).
QStringCloses ==
    /\ Running("qstring", "closed")
    /\ AcceptToken("Quoted", "returned")
    /\ UNCHANGED memo

QStringEscapes ==
    /\ Running("qstring", "escape")
    /\ Peek # Nul
    /\ Edits(IF Peek \in Escapes THEN PushOther ELSE Push, "string")
    /\ UNCHANGED memo

\* The text ends in the string.  "Unclosed" stands for the code of its quote.
QStringIsUnclosed ==
    /\ Running("qstring", "string") \/ Running("qstring", "escape")
    /\ Peek = Nul
    /\ AcceptToken("Unclosed", "returned")
    /\ UNCHANGED memo

QString ==
    \/ QStringStarts \/ QStringGoesOn \/ QStringCloses
    \/ QStringEscapes \/ QStringIsUnclosed
=============================================================================
