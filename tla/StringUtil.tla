----------------------------- MODULE StringUtil -----------------------------
(***************************************************************************)
(* core/StringUtil.{h,cpp}: texts and what they are converted to.  A text  *)
(* is a sequence of characters.                                            *)
(***************************************************************************)
EXTENDS ConcreteScanner

Seqs == INSTANCE SequencesExt

IsBlank(ch) == ch \in {Space, LineFeed, Return}

LStrip(s) ==
    LET first == Seqs!SelectInSeq(s, LAMBDA ch : ~IsBlank(ch))
    IN  IF first = 0 THEN <<>> ELSE SubSeq(s, first, Len(s))

WithoutBlanksAfter(s) == SubSeq(s, 1, Seqs!SelectLastInSeq(s, LAMBDA ch : ~IsBlank(ch)))

Strip(s) == WithoutBlanksAfter(LStrip(s))

\* There is one piece more than there are separators: a text that is empty, or
\* that ends in one, ends in an empty piece.
Split(s, sep) ==
    LET pieces[i \in 0..Len(s)] ==
            IF i = 0 THEN <<(<<>>)>>
            ELSE IF s[i] = sep THEN Append(pieces[i - 1], <<>>)
            ELSE [pieces[i - 1] EXCEPT ![Len(pieces[i - 1])] = Append(@, s[i])]
    IN  pieces[Len(s)]

Join(pieces, sep) ==
    LET joined[i \in 0..Len(pieces)] ==
            IF i = 0 THEN <<>>
            ELSE IF i = 1 THEN pieces[1]
            ELSE joined[i - 1] \o <<sep>> \o pieces[i]
    IN  joined[Len(pieces)]

\* Mutant: only the second piece is the value.
PairOfTwo(piece, valueSep) ==
    LET nvp == Split(Strip(piece), valueSep)
    IN  <<Strip(nvp[1]), IF Len(nvp) = 1 THEN <<>> ELSE Strip(nvp[2])>>

\* A value that has separators in it is put together again.
PairOf(piece, valueSep) ==
    LET nvp == Split(Strip(piece), valueSep)
    IN  <<Strip(nvp[1]), Strip(Join(Tail(nvp), valueSep))>>

\* parse_pairs()
ParsePairs(s, pairSep, valueSep) ==
    LET pieces == Split(s, pairSep)
        pairs[i \in 0..Len(pieces)] ==
            IF i = 0 THEN <<>>
            ELSE IF PairOf(pieces[i], valueSep)[1] = <<>> THEN pairs[i - 1]
            ELSE Append(pairs[i - 1], PairOf(pieces[i], valueSep))
    IN  pairs[Len(pieces)]

-----------------------------------------------------------------------------
(* Numbers.  A type is the range of its values.                            *)

\* An optional is a set with its value, or an empty one.
Nothing == {}

\* The conversion to a type, which is modulo its width.
Wrapped(n, type) ==
    type.min + ((n - type.min) % (type.max - type.min + 1))

DigitsOf == <<"0", "1", "2", "3", "4", "5", "6", "7", "8", "9", "a", "b", "c", "d", "e", "f">>

\* (toupper(ch) - 'A') + 10 of the characters of the scanners' texts.  It is
\* negative for those that come before the letters.
Digit(ch) ==
    CASE \E i \in 1..16 : DigitsOf[i] = ch -> (CHOOSE i \in 1..16 : DigitsOf[i] = ch) - 1
      [] ch \in Alphas \ {"a", "e", "f"} -> 16
      [] OTHER -> -1

\* integer_to_string() in a radix up to 16: the digits from the last one up.
IntegerToString(n, radix) ==
    LET abs == IF n < 0 THEN -n ELSE n
        digits[m \in 0..abs] ==
            LET last == DigitsOf[(m % radix) + 1]
            IN  IF m < radix THEN <<last>> ELSE Append(digits[m \div radix], last)
    IN  IF n < 0 THEN <<"-">> \o digits[abs] ELSE digits[abs]

\* The digits, each for its power of the radix; Nothing if there is another
\* character.
Evaluated(digits, radix) ==
    LET value[i \in 0..Len(digits)] ==
            IF i = 0 THEN 0 ELSE value[i - 1] * radix + Digit(digits[i])
    IN  IF \E i \in 1..Len(digits) : Digit(digits[i]) \notin 0..radix - 1 THEN Nothing
        ELSE {value[Len(digits)]}

\* How the text after blanks and a sign starts: the radix it is read in and
\* the characters that are skipped.  Both prefixes mean hexadecimal digits, and
\* there is none after a sign.
RadixPrefix(body, signed) ==
    IF signed \/ body = <<>> THEN [radix |-> 10, skip |-> 0]
    ELSE IF body[1] = "$" THEN [radix |-> 16, skip |-> 1]
    ELSE IF body[1] = "0" /\ Len(body) > 2 /\ body[2] \in {"x", "b"} THEN [radix |-> 16, skip |-> 2]
    ELSE [radix |-> 10, skip |-> 0]

\* string_to_integer() without a radix given.  What does not fit the type is
\* wrapped; a text without digits is 0.  A signed type takes a second minus.
StringToInteger(s, type) ==
    LET body0  == LStrip(s)
        signed == body0 # <<>> /\ body0[1] = "-"
        body   == IF signed THEN Tail(body0) ELSE body0
        prefix == RadixPrefix(body, signed)
        rest   == WithoutBlanksAfter(SubSeq(body, prefix.skip + 1, Len(body)))
        minus  == type.min < 0 /\ Len(rest) > 1 /\ rest[1] = "-"
        found  == Evaluated(IF minus THEN Tail(rest) ELSE rest, prefix.radix)
    IN  IF signed /\ type.min = 0 THEN Nothing
        ELSE {Wrapped(IF signed # minus THEN -n ELSE n, type) : n \in found}
=============================================================================
