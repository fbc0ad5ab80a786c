-------------------------- MODULE Tokenizer_proof --------------------------
(***************************************************************************)
(* What holds of the Tokenizer for any text, any number of scanners and    *)
(* whatever a scanner does in its match().                                 *)
(***************************************************************************)
EXTENDS Tokenizer, SequenceTheorems, FiniteSetTheorems, TLAPS

-----------------------------------------------------------------------------
(* The calls of TokenBuffer.                                               *)

\* reset() moves the location to another one, and its index by the length of
\* the text that was passed.
LEMMA LocationAfterType ==
    ASSUME BufferOK, NEW last \in mark..Len(text)
    PROVE  /\ LocationAfter(last) \in Location
           /\ LocationAfter(last).index = loc.index + (last - mark)
<1> DEFINE breaks == Breaks(mark + 1, last)
           tail == {i \in mark + 1..last : \A b \in breaks : b < i}
<1>1. mark \in Nat /\ last \in Nat /\ last - mark \in Nat
  BY LenProperties DEF BufferOK
<1>2. IsFiniteSet(mark + 1..last)
  BY <1>1, FS_Interval
<1>3. breaks \subseteq mark + 1..last /\ tail \subseteq mark + 1..last
  BY DEF Breaks
<1>4. Cardinality(breaks) \in Nat /\ Cardinality(tail) \in Nat
  BY <1>2, <1>3, FS_Subset, FS_CardinalityType
<1>5. loc.index \in Nat /\ loc.line \in Nat /\ loc.column \in Nat
  BY DEF BufferOK, Location
<1>6. LocationAfter(last) =
        [index  |-> loc.index + (last - mark),
         line   |-> loc.line + Cardinality(breaks),
         column |-> Cardinality(tail) + IF breaks = {} THEN loc.column ELSE 1]
  BY DEF LocationAfter
<1> HIDE DEF breaks, tail
<1> DEFINE line == loc.line + Cardinality(breaks)
           column == Cardinality(tail) + IF breaks = {} THEN loc.column ELSE 1
<1>7. loc.index + (last - mark) \in Nat /\ line \in Nat /\ column \in Nat
  <2>1. loc.index + (last - mark) \in Nat
    BY <1>1, <1>5
  <2>2. line \in Nat
    BY <1>4, <1>5
  <2>3. (IF breaks = {} THEN loc.column ELSE 1) \in Nat
    BY <1>5
  <2>4. column \in Nat
    BY <1>4, <2>3
  <2> QED
    BY <2>1, <2>2, <2>4
<1>8. LocationAfter(last) =
        [index |-> loc.index + (last - mark), line |-> line, column |-> column]
  BY <1>6
<1> HIDE DEF line, column
<1> QED
  BY <1>7, <1>8 DEF Location

\* The value of a token is made of positions in the text and other characters.
LEMMA CurrentTokenType ==
    ASSUME BufferOK
    PROVE  CurrentToken \in Seq(Positions)
<1>1. Scanned \in Seq(Positions)
  <2>1. /\ mark \in Nat /\ pos \in Nat /\ pos - mark \in Nat
        /\ pos <= MaxText
    BY LenProperties, CodesAssumption DEF BufferOK
  <2>2. \A i \in 1..(pos - mark) : mark + i \in Positions
    BY <2>1, CodesAssumption DEF Positions
  <2>3. Scanned \in [1..(pos - mark) -> Positions]
    BY <2>2 DEF Scanned
  <2> QED
    BY <2>1, <2>3, SeqDef
<1>2. tokenString # <<>> => tokenString[1] \in Seq(Positions)
  BY EmptySeq, LenProperties DEF BufferOK
<1> QED
  BY <1>1, <1>2 DEF CurrentToken

LEMMA LiteralType == Literal \in Seq(Positions)
BY CodesAssumption DEF Literal, Foreign, Positions

\* A token string that is set to a value has its type.
LEMMA TokenStringType ==
    ASSUME NEW value \in Seq(Positions)
    PROVE  <<value>> \in Seq(Seq(Positions)) /\ Len(<<value>>) <= 1
OBVIOUS

\* The first characters of a value are a value.
LEMMA PrefixType ==
    ASSUME NEW s \in Seq(Positions), NEW n \in Nat
    PROVE  Prefix(s, n) \in Seq(Positions)
<1>1. Len(s) \in Nat /\ \A i \in 1..Len(s) : s[i] \in Positions
  BY LenProperties
<1>2. (IF n < Len(s) THEN n ELSE Len(s)) \in 0..Len(s)
  BY <1>1
<1> QED
  BY <1>1, <1>2, SubSeqProperties DEF Prefix

\* What no call but accept(), skip() and rewind() changes.
Behind == <<text, mark, state, loc, tokens, skipped, crLfSplit>>

\* The calls that edit the token keep the window in the text, and what is
\* behind it as it is.
LEMMA EditType ==
    ASSUME BufferOK,
           \/ Push \/ PushOther \/ Discard
           \/ \E num \in {1, 2} : Chop(num)
           \/ \E num \in {1, 2} : PartialRewind(num)
    PROVE  BufferOK' /\ UNCHANGED Behind
<1>1. UNCHANGED Behind
  BY Zenon DEF Push, PushOther, Discard, Chop, PartialRewind, Behind
<1>2. pos' \in mark..Len(text)
  <2>1. mark \in Nat /\ pos \in mark..Len(text) /\ Len(text) \in Nat
    BY LenProperties DEF BufferOK
  <2>2. CASE Push \/ PushOther \/ Discard
    BY <2>1, <2>2 DEF Push, PushOther, Discard, SkipOne, AtEnd
  <2>3. CASE \E num \in {1, 2} : Chop(num)
    BY <2>1, <2>3 DEF Chop
  <2>4. CASE \E num \in {1, 2} : PartialRewind(num)
    BY <2>1, <2>4 DEF PartialRewind
  <2> QED
    BY <2>2, <2>3, <2>4
<1>3. tokenString' \in Seq(Seq(Positions)) /\ Len(tokenString') <= 1
  <2>1. /\ CurrentToken \in Seq(Positions)
        /\ tokenString # <<>> => tokenString[1] = CurrentToken
    BY CurrentTokenType DEF CurrentToken
  <2>2. <<>> \in Seq(Seq(Positions)) /\ Len(<<>>) <= 1
    OBVIOUS
  <2>3. Foreign \in Positions /\ (~AtEnd => pos + 1 \in Positions)
    BY CodesAssumption, LenProperties DEF BufferOK, Foreign, Positions, AtEnd
  <2>4. \A p \in Positions : Append(CurrentToken, p) \in Seq(Positions)
    BY <2>1, AppendProperties
  <2>5. \A value \in Seq(Positions) :
          <<value>> \in Seq(Seq(Positions)) /\ Len(<<value>>) <= 1
    BY TokenStringType
  <2>6. CASE Push
    <3>1. \/ tokenString' = <<>>
          \/ \E p \in Positions : tokenString' = <<Append(CurrentToken, p)>>
      BY <2>6, <2>1, <2>3 DEF Push
    <3> QED
      BY <3>1, <2>2, <2>4, <2>5
  <2>7. CASE PushOther
    <3>1. tokenString' = <<Append(CurrentToken, Foreign)>>
      BY <2>7 DEF PushOther
    <3> QED
      BY <3>1, <2>3, <2>4, <2>5
  <2>8. CASE Discard /\ ~Push
    <3>1. tokenString' = <<CurrentToken>>
      BY <2>8 DEF Discard
    <3> QED
      BY <3>1, <2>1, <2>5
  <2>9. CASE \E num \in {1, 2} : Chop(num)
    <3>1. PICK num \in {1, 2} : Chop(num)
      BY <2>9
    <3> DEFINE n == IF num > Len(CurrentToken) THEN Len(CurrentToken) ELSE num
    <3>2. Len(CurrentToken) - n \in Nat
      BY <2>1, LenProperties
    <3>3. tokenString' = <<Prefix(CurrentToken, Len(CurrentToken) - n)>>
      BY <3>1 DEF Chop
    <3>4. Prefix(CurrentToken, Len(CurrentToken) - n) \in Seq(Positions)
      BY <2>1, <3>2, PrefixType
    <3> QED
      BY <2>5, <3>3, <3>4
  <2>10. CASE \E num \in {1, 2} : PartialRewind(num)
    <3>1. PICK num \in {1, 2} : PartialRewind(num)
      BY <2>10
    <3> DEFINE n == IF num > pos - mark THEN pos - mark ELSE num
    <3>2. pos - mark - n \in Nat
      BY LenProperties DEF BufferOK
    <3>3. \/ tokenString' = <<>>
          \/ tokenString' = <<Prefix(CurrentToken, pos - mark - n)>>
      BY <2>1, <3>1 DEF PartialRewind
    <3>4. Prefix(CurrentToken, pos - mark - n) \in Seq(Positions)
      BY <2>1, <3>2, PrefixType
    <3> QED
      BY <2>2, <2>5, <3>3, <3>4
  <2> QED
    BY <2>6, <2>7, <2>8, <2>9, <2>10
<1> QED
  BY <1>1, <1>2, <1>3 DEF BufferOK, Behind

\* rewind() as well.
LEMMA RewindType ==
    ASSUME BufferOK, RewindTo("Init")
    PROVE  /\ BufferOK'
           /\ pos' = mark /\ state' = "Init"
           /\ UNCHANGED <<text, mark, loc, tokens, skipped, crLfSplit>>
<1>1. mark \in mark..Len(text)
  BY LenProperties DEF BufferOK
<1>2. <<>> \in Seq(Seq(Positions)) /\ Len(<<>>) <= 1
  OBVIOUS
<1> QED
  BY <1>1, <1>2 DEF BufferOK, RewindTo

\* Every call that takes text moves the window behind it.
LEMMA PassType ==
    ASSUME BufferOK, NEW last \in mark..Len(text), PassTo(last)
    PROVE  /\ loc' \in Location
           /\ loc'.index = loc.index + (last - mark)
           /\ mark' = last /\ pos' = last
           /\ state' = "Success"
           /\ text' = text
           /\ (tokens' \in Seq(Token) /\ skipped' \subseteq Positions) => BufferOK'
<1>1. loc' \in Location /\ loc'.index = loc.index + (last - mark)
  BY LocationAfterType DEF PassTo
<1>2. mark' \in Nat /\ pos' \in mark'..Len(text)
  BY LenProperties DEF BufferOK, PassTo
<1>3. <<>> \in Seq(Seq(Positions)) /\ Len(<<>>) <= 1
  OBVIOUS
<1>4. crLfSplit' \in BOOLEAN
  BY DEF BufferOK, PassTo, CrLfAt
<1> QED
  BY <1>1, <1>2, <1>3, <1>4 DEF BufferOK, PassTo

-----------------------------------------------------------------------------
(* What is behind the window.                                              *)

\* The tokens made so far tile the text together with what was skipped, in
\* the form that a step preserves: position by position.
Tiled ==
    /\ loc.index = mark
    /\ \A k \in 1..Len(tokens) :
          /\ tokens[k].start.index <= tokens[k].end.index
          /\ tokens[k].end.index <= mark
    /\ \A j, k \in 1..Len(tokens) :
          j < k => tokens[j].end.index <= tokens[k].start.index
    /\ skipped \subseteq 1..mark
    /\ \A i \in 1..mark :
          i \notin skipped <=> \E k \in 1..Len(tokens) : i \in Covers(tokens[k])

\* The positions of a token, as numbers.
LEMMA TokenIndexes ==
    ASSUME BufferOK, NEW k \in 1..Len(tokens)
    PROVE  /\ tokens[k] \in Token
           /\ tokens[k].start.index \in Nat
           /\ tokens[k].end.index \in Nat
<1>1. tokens[k] \in Token
  BY LenProperties DEF BufferOK
<1> QED
  BY <1>1 DEF Token, Location

LEMMA TiledIsTextIsTiled ==
    ASSUME BufferOK, Tiled
    PROVE  TextIsTiled
<1>1. \A k \in 1..Len(tokens) : Covers(tokens[k]) \subseteq 1..mark
  <2> SUFFICES ASSUME NEW k \in 1..Len(tokens)
               PROVE  Covers(tokens[k]) \subseteq 1..mark
    OBVIOUS
  <2> QED
    BY TokenIndexes, SMTT(30) DEF Covers, Tiled, BufferOK
<1>2. \A i : i \in 1..mark <=>
               i \in skipped \/ \E k \in 1..Len(tokens) : i \in Covers(tokens[k])
  BY <1>1 DEF Tiled
<1>3. (UNION {Covers(tokens[k]) : k \in 1..Len(tokens)}) \union skipped = 1..mark
  BY <1>2, Zenon
<1>4. \A k \in 1..Len(tokens) : Covers(tokens[k]) \intersect skipped = {}
  BY <1>1, Zenon DEF Tiled
<1> QED
  BY <1>3, <1>4, Zenon DEF Tiled, TextIsTiled

\* skip() adds what it passes to what was skipped.
LEMMA SkipKeepsTiled ==
    ASSUME BufferOK, Tiled, NEW last \in mark..Len(text), SkipTo(last)
    PROVE  BufferOK' /\ Tiled'
<1>1. PassTo(last) /\ tokens' = tokens /\ skipped' = skipped \union (mark + 1..last)
  BY DEF SkipTo
<1>2. mark \in Nat /\ last \in Nat /\ mark <= last /\ last \in Positions
  BY LenProperties, CodesAssumption DEF BufferOK, Positions
<1>3. skipped' \subseteq Positions
  BY <1>1, <1>2, CodesAssumption DEF BufferOK, Positions
<1>4. BufferOK' /\ mark' = last /\ loc'.index = last
  BY <1>1, <1>2, <1>3, PassType DEF BufferOK, Tiled
<1>5. \A k \in 1..Len(tokens) :
        /\ tokens[k].end.index \in Nat
        /\ tokens[k].end.index <= mark
        /\ tokens[k].start.index \in Nat
  BY TokenIndexes DEF Tiled
<1>6. \A k \in 1..Len(tokens), i \in mark + 1..last : i \notin Covers(tokens[k])
  BY <1>2, <1>5 DEF Covers
<1>7. \A i \in 1..last :
        i \notin skipped' <=> \E k \in 1..Len(tokens) : i \in Covers(tokens[k])
  <2> SUFFICES ASSUME NEW i \in 1..last
               PROVE  i \notin skipped' <=>
                        \E k \in 1..Len(tokens) : i \in Covers(tokens[k])
    OBVIOUS
  <2>1. i \in 1..mark \/ i \in mark + 1..last
    BY <1>2
  <2>2. CASE i \in 1..mark
    BY <1>1, <1>2, <2>2 DEF Tiled
  <2>3. CASE i \in mark + 1..last
    BY <1>1, <1>6, <2>3
  <2> QED
    BY <2>1, <2>2, <2>3
<1>8. \A k \in 1..Len(tokens) : tokens[k].end.index <= last
  BY <1>2, <1>5
<1>9. skipped' \subseteq 1..last
  <2>1. skipped \subseteq 1..mark
    BY DEF Tiled
  <2> QED
    BY <1>1, <1>2, <2>1
<1> QED
  BY <1>1, <1>4, <1>7, <1>8, <1>9 DEF Tiled

\* accept() adds a token that covers what it passes.
LEMMA AcceptKeepsTiled ==
    ASSUME BufferOK, Tiled,
           NEW last \in mark..Len(text),
           NEW code \in TokenCodes \union {"ByChar", "EndOfFile"},
           NEW value \in Seq(Positions),
           AcceptTo(last, code, value), code \notin Filtered
    PROVE  /\ BufferOK' /\ Tiled'
           /\ Len(tokens') = Len(tokens) + 1
           /\ \A k \in 1..Len(tokens) : tokens'[k] = tokens[k]
           /\ tokens'[Len(tokens')].code = code
           /\ Covers(tokens'[Len(tokens')]) = mark + 1..last
<1> DEFINE new == [start |-> loc, end |-> LocationAfter(last),
                   code |-> code, value |-> value]
           n == Len(tokens)
<1>1. PassTo(last) /\ tokens' = Append(tokens, new) /\ skipped' = skipped
  BY DEF AcceptTo
<1>2. mark \in Nat /\ last \in Nat /\ mark <= last /\ n \in Nat
  BY LenProperties DEF BufferOK
<1>3. /\ LocationAfter(last) \in Location
      /\ LocationAfter(last).index = last
      /\ loc \in Location /\ loc.index = mark
  BY <1>2, LocationAfterType DEF BufferOK, Tiled
<1>4. new \in Token
  BY <1>3, Zenon DEF Token
<1>5. /\ tokens' \in Seq(Token) /\ Len(tokens') = n + 1
      /\ \A k \in 1..n : tokens'[k] = tokens[k]
      /\ tokens'[n + 1] = new
  BY <1>1, <1>4, AppendProperties DEF BufferOK
<1>6. /\ new.start.index = mark /\ new.end.index = last
      /\ new.code = code
      /\ Covers(new) = mark + 1..last
  BY <1>3, Zenon DEF Covers
<1>7. BufferOK' /\ mark' = last /\ loc'.index = last
  BY <1>1, <1>2, <1>5, PassType DEF BufferOK, Tiled
<1>8. \A k \in 1..n :
        /\ tokens[k].end.index \in Nat
        /\ tokens[k].end.index <= mark
        /\ tokens[k].start.index \in Nat
        /\ tokens[k].start.index <= tokens[k].end.index
  BY TokenIndexes DEF Tiled
<1> HIDE DEF new
<1>9. \A k \in 1..n + 1 :
        /\ tokens'[k].start.index <= tokens'[k].end.index
        /\ tokens'[k].end.index <= last
  <2> SUFFICES ASSUME NEW k \in 1..n + 1
               PROVE  /\ tokens'[k].start.index <= tokens'[k].end.index
                      /\ tokens'[k].end.index <= last
    OBVIOUS
  <2>1. CASE k = n + 1
    BY <1>2, <1>5, <1>6, <2>1
  <2>2. CASE k \in 1..n
    <3>1. tokens'[k] = tokens[k]
      BY <1>5, <2>2
    <3> QED
      BY <1>2, <1>8, <2>2, <3>1
  <2> QED
    BY <1>2, <2>1, <2>2
<1>10. \A j, k \in 1..n + 1 :
         j < k => tokens'[j].end.index <= tokens'[k].start.index
  <2> SUFFICES ASSUME NEW j \in 1..n + 1, NEW k \in 1..n + 1, j < k
               PROVE  tokens'[j].end.index <= tokens'[k].start.index
    OBVIOUS
  <2>1. j \in 1..n /\ tokens'[j] = tokens[j]
    BY <1>2, <1>5
  <2>2. CASE k = n + 1
    BY <1>5, <1>6, <1>8, <2>1, <2>2
  <2>3. CASE k \in 1..n
    <3>1. tokens'[k] = tokens[k]
      BY <1>5, <2>3
    <3> QED
      BY <2>1, <2>3, <3>1 DEF Tiled
  <2> QED
    BY <1>2, <2>2, <2>3
<1>11. skipped' \subseteq 1..last
  BY <1>1, <1>2 DEF Tiled
<1>12. \A i \in 1..last :
         i \notin skipped' <=> \E k \in 1..n + 1 : i \in Covers(tokens'[k])
  <2> SUFFICES ASSUME NEW i \in 1..last
               PROVE  i \notin skipped' <=>
                        \E k \in 1..n + 1 : i \in Covers(tokens'[k])
    OBVIOUS
  <2>1. i \in 1..mark \/ i \in mark + 1..last
    BY <1>2
  <2>2. CASE i \in 1..mark
    <3>1. i \notin Covers(tokens'[n + 1])
      BY <1>2, <1>5, <1>6, <2>2
    <3>2. (\E k \in 1..n + 1 : i \in Covers(tokens'[k]))
            <=> \E k \in 1..n : i \in Covers(tokens[k])
      BY <1>2, <1>5, <3>1, SMTT(30)
    <3> QED
      BY <1>1, <2>2, <3>2 DEF Tiled
  <2>3. CASE i \in mark + 1..last
    <3>1. i \in Covers(tokens'[n + 1]) /\ n + 1 \in 1..n + 1
      BY <1>2, <1>5, <1>6, <2>3
    <3>2. i \notin skipped'
      BY <1>1, <1>2, <2>3 DEF Tiled
    <3> QED
      BY <3>1, <3>2, Zenon
  <2> QED
    BY <2>1, <2>2, <2>3
<1>13. Tiled'
  BY <1>5, <1>7, <1>9, <1>10, <1>11, <1>12 DEF Tiled
<1> QED
  BY <1>5, <1>6, <1>7, <1>13

-----------------------------------------------------------------------------
(* tokenize() and match_token().                                           *)

\* The catch-all starts where the last token ends.  Elsewhere the window may
\* be open: a scanner takes characters, and may return without accepting them.
WindowPlaced == pc = "catchall" => pos = mark

Inv ==
    /\ TypeOK
    /\ Tiled
    /\ WindowPlaced
    /\ EndsWithEndOfFile
    /\ StuckOnlyAtNonPositive

LEMMA InvInit == TokenizerInit => Inv
<1> SUFFICES ASSUME TokenizerInit PROVE Inv
  OBVIOUS
<1>1. BufferOK
  <2>1. PICK n \in 0..MaxText : text \in [1..n -> Chars]
    BY DEF TokenizerInit, DriverInit, Init, AtStart
  <2>2. text \in Seq(Chars) /\ Len(text) = n /\ n \in Nat
    BY <2>1, CodesAssumption, SeqDef
  <2>3. loc \in Location
    BY DEF TokenizerInit, DriverInit, Init, AtStart, Location
  <2>4. mark \in Nat /\ pos \in mark..Len(text) /\ Len(text) <= MaxText
    <3>1. mark = 0 /\ pos = 0
      BY DEF TokenizerInit, DriverInit, Init, AtStart
    <3> QED
      BY <2>2, <3>1, CodesAssumption
  <2>5. /\ skipped \subseteq Positions /\ crLfSplit \in BOOLEAN
        /\ state \in {"Fresh", "Init", "Success"}
    BY DEF TokenizerInit, DriverInit, Init, AtStart
  <2>6. /\ tokenString \in Seq(Seq(Positions)) /\ Len(tokenString) <= 1
        /\ tokens \in Seq(Token)
    BY DEF TokenizerInit, DriverInit, Init, AtStart
  <2> QED
    BY <2>2, <2>3, <2>4, <2>5, <2>6 DEF BufferOK
<1>2. TypeOK
  BY <1>1, ScannersAssumption DEF TokenizerInit, DriverInit, Init, AtStart, TypeOK, None
<1>3. /\ mark = 0 /\ pos = 0 /\ loc.index = 0 /\ Len(tokens) = 0
      /\ skipped = {} /\ pc = "round"
  BY DEF TokenizerInit, DriverInit, Init, AtStart
<1> QED
  BY <1>2, <1>3 DEF Inv, Tiled, WindowPlaced, EndsWithEndOfFile,
                    StuckOnlyAtNonPositive, Matching

\* A step that leaves what is behind the window alone.
LEMMA BehindKeepsTiled ==
    ASSUME Tiled, UNCHANGED <<mark, loc, tokens, skipped>>
    PROVE  Tiled'
BY DEF Tiled

\* Before the end of the file, no token says it is.
LEMMA NoEndBeforeTheEnd ==
    ASSUME EndsWithEndOfFile, pc # "done"
    PROVE  \A k \in 1..Len(tokens) : tokens[k].code # "EndOfFile"
BY DEF EndsWithEndOfFile

\* The text that is taken is behind the window, with a token of that code or
\* as text without one; either way no token says that it is the end.
LEMMA TakeFacts ==
    ASSUME Inv, pc # "done",
           NEW last \in mark..Len(text),
           NEW code \in TokenCodes \union {"ByChar"},
           NEW value \in Seq(Positions),
           AcceptTo(last, code, value) \/ SkipTo(last)
    PROVE  /\ BufferOK' /\ Tiled'
           /\ pos' = last /\ mark' = last /\ state' = "Success" /\ text' = text
           /\ \A k \in 1..Len(tokens') : tokens'[k].code # "EndOfFile"
<1>1. BufferOK /\ Tiled
  BY DEF Inv, TypeOK
<1>2. \A k \in 1..Len(tokens) : tokens[k].code # "EndOfFile"
  BY NoEndBeforeTheEnd DEF Inv
<1>3. PassTo(last)
  BY DEF AcceptTo, SkipTo
<1>4. pos' = last /\ mark' = last /\ state' = "Success" /\ text' = text
  BY <1>3 DEF PassTo
<1>5. CASE SkipTo(last)
  BY <1>1, <1>2, <1>4, <1>5, SkipKeepsTiled DEF SkipTo
<1>6. CASE AcceptTo(last, code, value) /\ code \notin Filtered
  <2>1. code # "EndOfFile"
    BY CodesAssumption
  <2>2. /\ BufferOK' /\ Tiled'
        /\ Len(tokens') = Len(tokens) + 1
        /\ \A k \in 1..Len(tokens) : tokens'[k] = tokens[k]
        /\ tokens'[Len(tokens')].code = code
    BY <1>1, <1>6, AcceptKeepsTiled
  <2>3. Len(tokens) \in Nat
    BY <1>1, LenProperties DEF BufferOK
  <2>4. \A k \in 1..Len(tokens') : k = Len(tokens') \/ k \in 1..Len(tokens)
    BY <2>2, <2>3
  <2>5. \A k \in 1..Len(tokens') : tokens'[k].code # "EndOfFile"
    BY <1>2, <2>1, <2>2, <2>4, Zenon
  <2> QED
    BY <1>4, <2>2, <2>5
<1> QED
  BY <1>5, <1>6 DEF AcceptTo

\* rewind() and the next scanner, or none.
LEMMA OfferFacts ==
    ASSUME Inv, roundMark' \in 0..mark, UNCHANGED locked, pc # "done",
           \/ \E scanner \in 0..Scanners, place \in {"match", "lockedMatch"} :
                 Offer(scanner, place)
           \/ /\ RewindTo("Init")
              /\ pc' = "catchall"
              /\ UNCHANGED <<current, calls>>
    PROVE  Inv'
<1>1. BufferOK /\ Tiled /\ EndsWithEndOfFile /\ TypeOK
  BY DEF Inv, TypeOK
<1>2. RewindTo("Init")
  BY DEF Offer
<1>3. /\ BufferOK' /\ Tiled'
      /\ pos' = mark' /\ state' = "Init" /\ mark' = mark
      /\ UNCHANGED <<text, tokens>>
  BY <1>1, <1>2, RewindType, BehindKeepsTiled
<1>4. pc' \in {"match", "lockedMatch", "catchall"}
  BY DEF Offer
<1>5. current' \in 0..Scanners /\ calls' \in 0..MaxCalls
  BY <1>1, ScannersAssumption DEF Offer, TypeOK
<1>6. TypeOK'
  BY <1>1, <1>3, <1>4, <1>5 DEF TypeOK
<1>7. EndsWithEndOfFile'
  BY <1>1, <1>3, <1>4, NoEndBeforeTheEnd DEF EndsWithEndOfFile
<1>8. WindowPlaced' /\ StuckOnlyAtNonPositive'
  BY <1>3, <1>4 DEF WindowPlaced, StuckOnlyAtNonPositive, Matching
<1> QED
  BY <1>3, <1>6, <1>7, <1>8 DEF Inv

LEMMA InvNext == Inv /\ [Next]_vars => Inv'
<1> SUFFICES ASSUME Inv, [Next]_vars PROVE Inv'
  OBVIOUS
<1>1. /\ TypeOK /\ BufferOK /\ Tiled /\ WindowPlaced
      /\ EndsWithEndOfFile /\ StuckOnlyAtNonPositive
  BY DEF Inv, TypeOK
<1>2. mark \in Nat /\ Len(text) \in Nat /\ pos \in mark..Len(text) /\ roundMark \in 0..mark
  BY <1>1, LenProperties DEF TypeOK, BufferOK
<1>3. CASE StartRound
  <2>1. roundMark' \in 0..mark /\ UNCHANGED locked /\ pc # "done"
    BY <1>2, <1>3 DEF StartRound
  <2>2. locked \in 0..Scanners /\ (0 < Scanners => 1 \in 0..Scanners)
    BY <1>1, ScannersAssumption DEF TypeOK
  <2> QED
    BY <1>3, <2>1, <2>2, OfferFacts DEF StartRound, OfferAfter, None
<1>4. CASE MatchReturns
  <2>1. UNCHANGED <<locked, roundMark>> /\ Matching /\ pc # "done"
    BY <1>4 DEF MatchReturns, MatchEnds, Matching
  <2>2. CASE OfferAfter(current)
    <3>1. current < Scanners => current + 1 \in 0..Scanners
      BY <1>1, ScannersAssumption DEF TypeOK
    <3> QED
      BY <1>2, <2>1, <2>2, <3>1, OfferFacts DEF OfferAfter
  <2>3. CASE /\ UNCHANGED <<bufferVars, current, calls>>
             /\ \/ pc' = "failed"
                \/ ~Owing /\ state = "Success" /\ pc' = "eof"
    <3>1. UNCHANGED bufferVars /\ pc' \in {"failed", "eof"}
      BY <2>3
    <3>2. TypeOK' /\ Tiled'
      BY <1>1, <2>1, <2>3, <3>1, BehindKeepsTiled DEF TypeOK, BufferOK, bufferVars
    <3>3. EndsWithEndOfFile'
      BY <1>1, <2>1, <3>1, NoEndBeforeTheEnd DEF EndsWithEndOfFile, bufferVars
    <3>4. WindowPlaced'
      BY <3>1 DEF WindowPlaced
    <3>5. StuckOnlyAtNonPositive'
      BY <1>2, <2>1, <2>3
      DEF StuckOnlyAtNonPositive, Owing, AtEnd, bufferVars
    <3> QED
      BY <3>2, <3>3, <3>4, <3>5 DEF Inv
  <2> QED
    BY <1>4, <2>2, <2>3 DEF MatchReturns, MatchEnds
<1>5. CASE CatchAll
  <2>1. pc = "catchall" /\ pos = mark /\ pc' = "eof"
        /\ UNCHANGED <<current, locked, calls, roundMark>>
    BY <1>1, <1>5 DEF CatchAll, WindowPlaced
  <2>2. CASE IsPositive(Peek)
    <3>1. ~AtEnd /\ pos + 1 \in mark..Len(text) /\ pos + 1 > roundMark
      BY <1>2, <2>1, <2>2 DEF Peek, IsPositive, AtEnd
    <3>2. <<pos + 1>> \in Seq(Positions)
      BY <1>1, <1>2, <3>1, CodesAssumption DEF BufferOK, Positions
    <3>3. AcceptTo(pos + 1, "ByChar", <<pos + 1>>)
      BY <1>5, <2>2 DEF CatchAll
    <3>4. /\ BufferOK' /\ Tiled'
          /\ pos' = pos + 1 /\ mark' = pos + 1
          /\ \A k \in 1..Len(tokens') : tokens'[k].code # "EndOfFile"
      BY <2>1, <3>1, <3>2, <3>3, TakeFacts
    <3>5. TypeOK'
      BY <1>1, <1>2, <2>1, <3>1, <3>4 DEF TypeOK
    <3>6. EndsWithEndOfFile'
      BY <2>1, <3>4 DEF EndsWithEndOfFile
    <3>7. WindowPlaced' /\ StuckOnlyAtNonPositive'
      BY <1>2, <2>1, <3>1, <3>4 DEF WindowPlaced, StuckOnlyAtNonPositive, Matching
    <3> QED
      BY <3>4, <3>5, <3>6, <3>7 DEF Inv
  <2>3. CASE ~IsPositive(Peek)
    <3>1. UNCHANGED bufferVars
      BY <1>5, <2>3 DEF CatchAll
    <3>2. TypeOK' /\ Tiled'
      BY <1>1, <2>1, <3>1, BehindKeepsTiled DEF TypeOK, BufferOK, bufferVars
    <3>3. EndsWithEndOfFile'
      BY <1>1, <2>1, <3>1, NoEndBeforeTheEnd DEF EndsWithEndOfFile, bufferVars
    <3>4. WindowPlaced' /\ StuckOnlyAtNonPositive'
      BY <2>1, <2>3, <3>1
      DEF WindowPlaced, StuckOnlyAtNonPositive, Matching, bufferVars, Peek, AtEnd
    <3> QED
      BY <3>2, <3>3, <3>4 DEF Inv
  <2> QED
    BY <2>2, <2>3
<1>6. CASE EndRound
  <2>1. pc = "eof" /\ UNCHANGED <<current, locked, calls, roundMark>>
    BY <1>6 DEF EndRound
  <2>2. CASE AtEnd
    <3>1. pos = Len(text)
      BY <1>2, <2>2 DEF AtEnd
    <3>2. AcceptTo(pos, "EndOfFile", Literal) /\ pc' = "done" /\ "EndOfFile" \notin Filtered
      BY <1>6, <2>2, CodesAssumption DEF EndRound
    <3>3. Literal \in Seq(Positions) /\ pos \in mark..Len(text)
      BY <1>2, LiteralType
    <3>4. /\ BufferOK' /\ Tiled'
          /\ Len(tokens') = Len(tokens) + 1
          /\ \A k \in 1..Len(tokens) : tokens'[k] = tokens[k]
          /\ tokens'[Len(tokens')].code = "EndOfFile"
          /\ Covers(tokens'[Len(tokens')]) = mark + 1..pos
      BY <1>1, <3>2, <3>3, AcceptKeepsTiled
    <3>5. PassTo(pos)
      BY <3>2 DEF AcceptTo
    <3>6. mark' = pos /\ pos' = pos /\ text' = text
      BY <3>5 DEF PassTo
    <3>7. TypeOK'
      BY <1>1, <1>2, <2>1, <3>2, <3>4, <3>6 DEF TypeOK
    <3>8. WindowPlaced' /\ StuckOnlyAtNonPositive'
      BY <3>2, <3>6 DEF WindowPlaced, StuckOnlyAtNonPositive, Matching
    <3>9. EndsWithEndOfFile'
      <4>1. Len(tokens) \in Nat
        BY <1>1, LenProperties DEF BufferOK
      <4>2. \A k \in 1..Len(tokens) : tokens[k].code # "EndOfFile"
        BY <1>1, <2>1, NoEndBeforeTheEnd
      <4>3. \A k \in 1..Len(tokens') :
              tokens'[k].code = "EndOfFile" <=> k = Len(tokens')
        <5> SUFFICES ASSUME NEW k \in 1..Len(tokens')
                     PROVE  tokens'[k].code = "EndOfFile" <=> k = Len(tokens')
          OBVIOUS
        <5>1. CASE k = Len(tokens')
          BY <3>4, <5>1
        <5>2. CASE k # Len(tokens')
          <6>1. k \in 1..Len(tokens)
            BY <3>4, <4>1, <5>2
          <6> QED
            BY <3>4, <4>2, <5>2, <6>1, Zenon
        <5> QED
          BY <5>1, <5>2
      <4>4. tokens' # <<>>
        BY <3>4, <4>1
      <4> QED
        BY <3>1, <3>2, <3>6, <4>3, <4>4 DEF EndsWithEndOfFile
    <3> QED
      BY <3>4, <3>7, <3>8, <3>9 DEF Inv
  <2>3. CASE ~AtEnd
    <3>1. UNCHANGED bufferVars /\ pc' = "round"
      BY <1>6, <2>3 DEF EndRound
    <3>2. TypeOK' /\ Tiled'
      BY <1>1, <2>1, <3>1, BehindKeepsTiled DEF TypeOK, BufferOK, bufferVars
    <3>3. EndsWithEndOfFile'
      BY <1>1, <2>1, <3>1, NoEndBeforeTheEnd DEF EndsWithEndOfFile, bufferVars
    <3>4. WindowPlaced' /\ StuckOnlyAtNonPositive'
      BY <2>1, <3>1 DEF WindowPlaced, StuckOnlyAtNonPositive, Matching, bufferVars
    <3> QED
      BY <3>2, <3>3, <3>4 DEF Inv
  <2> QED
    BY <2>2, <2>3
<1>7. CASE ScannerEdits
  <2>1. Matching /\ calls > 0 /\ calls' = calls - 1
        /\ UNCHANGED <<pc, current, locked, roundMark>>
    BY <1>7 DEF ScannerEdits
  <2>2. BufferOK' /\ UNCHANGED Behind
    BY <1>1, <1>7, EditType DEF ScannerEdits
  <2>3. TypeOK' /\ Tiled'
    BY <1>1, <2>1, <2>2, BehindKeepsTiled, ScannersAssumption DEF TypeOK, Behind
  <2>4. EndsWithEndOfFile'
    BY <1>1, <2>1, <2>2 DEF EndsWithEndOfFile, Behind, Matching
  <2>5. WindowPlaced' /\ StuckOnlyAtNonPositive'
    BY <2>1, <2>2 DEF WindowPlaced, StuckOnlyAtNonPositive, Matching, Behind
  <2> QED
    BY <2>3, <2>4, <2>5 DEF Inv
<1>8. CASE ScannerLocks
  <2>1. Matching /\ calls > 0 /\ calls' = calls - 1
        /\ UNCHANGED <<bufferVars, pc, current, roundMark>>
        /\ locked' \in {current, None}
    BY <1>8 DEF ScannerLocks
  <2>2. TypeOK' /\ Tiled'
    BY <1>1, <2>1, BehindKeepsTiled, ScannersAssumption
    DEF TypeOK, BufferOK, bufferVars, None
  <2>3. EndsWithEndOfFile'
    BY <1>1, <2>1 DEF EndsWithEndOfFile, bufferVars
  <2>4. WindowPlaced' /\ StuckOnlyAtNonPositive'
    BY <2>1 DEF WindowPlaced, StuckOnlyAtNonPositive, Matching, bufferVars
  <2> QED
    BY <2>2, <2>3, <2>4 DEF Inv
<1>9. CASE ScannerAccepts
  <2>1. Matching /\ UNCHANGED driverVars
    BY <1>9 DEF ScannerAccepts
  <2>2. /\ BufferOK' /\ Tiled'
        /\ pos' = pos /\ mark' = pos /\ state' = "Success" /\ text' = text
        /\ \A k \in 1..Len(tokens') : tokens'[k].code # "EndOfFile"
    <3>1. /\ pos \in mark..Len(text) /\ pc # "done"
          /\ CurrentToken \in Seq(Positions) /\ Literal \in Seq(Positions)
      BY <1>1, <1>2, <2>1, CurrentTokenType, LiteralType DEF Matching
    <3>2. CASE \E code \in TokenCodes, value \in {CurrentToken, Literal} :
                  AcceptTo(pos, code, value)
      <4>1. PICK code \in TokenCodes, value \in {CurrentToken, Literal} :
                AcceptTo(pos, code, value)
        BY <3>2
      <4>2. value \in Seq(Positions) /\ code \in TokenCodes \union {"ByChar"}
        BY <3>1
      <4> QED
        BY <3>1, <4>1, <4>2, TakeFacts
    <3>3. CASE Skip
      <4>1. "ByChar" \in TokenCodes \union {"ByChar"}
        OBVIOUS
      <4> QED
        BY <3>1, <3>3, <4>1, TakeFacts DEF Skip
    <3> QED
      BY <1>9, <3>2, <3>3 DEF ScannerAccepts
  <2>3. TypeOK'
    BY <1>1, <1>2, <2>1, <2>2 DEF TypeOK, driverVars
  <2>4. EndsWithEndOfFile'
    BY <2>1, <2>2 DEF EndsWithEndOfFile, Matching, driverVars
  <2>5. WindowPlaced' /\ StuckOnlyAtNonPositive'
    BY <1>2, <2>1, <2>2 DEF WindowPlaced, StuckOnlyAtNonPositive, Matching, driverVars
  <2> QED
    BY <2>2, <2>3, <2>4, <2>5 DEF Inv
<1>10. CASE UNCHANGED vars
  <2>1. UNCHANGED bufferVars /\ UNCHANGED driverVars
    BY <1>10 DEF vars
  <2>2. TypeOK' /\ Tiled'
    BY <1>1, <2>1, BehindKeepsTiled DEF TypeOK, BufferOK, bufferVars, driverVars
  <2>3. EndsWithEndOfFile'
    BY <1>1, <2>1 DEF EndsWithEndOfFile, bufferVars, driverVars
  <2>4. WindowPlaced' /\ StuckOnlyAtNonPositive'
    BY <1>1, <2>1
    DEF WindowPlaced, StuckOnlyAtNonPositive, Matching, AtEnd, bufferVars, driverVars
  <2> QED
    BY <2>2, <2>3, <2>4 DEF Inv
<1> QED
  BY <1>3, <1>4, <1>5, <1>6, <1>7, <1>8, <1>9, <1>10 DEF Next

-----------------------------------------------------------------------------
(* Locations.                                                              *)

\* What a step does to the window: nothing, an edit, a rewind, or the text up
\* to last is behind it, with a token whose value is the window's, is one that
\* is not in the text, or is the one character of the catch-all.
EditsToken ==
    \/ Push \/ PushOther \/ Discard
    \/ \E num \in {1, 2} : Chop(num)
    \/ RewindIsAligned /\ \E num \in {1, 2} : PartialRewind(num)

Takes(last, code, value) ==
    /\ last \in mark..Len(text)
    /\ AcceptTo(last, code, value) \/ SkipTo(last)
    /\ \/ last = pos /\ value \in {CurrentToken, Literal}
       \/ last = mark + 1 /\ value = <<mark + 1>>

LEMMA StepKinds ==
    ASSUME Inv, [Next]_vars
    PROVE  \/ UNCHANGED bufferVars
           \/ EditsToken
           \/ RewindTo("Init")
           \/ \E last, code, value : Takes(last, code, value)
<1>1. mark \in Nat /\ Len(text) \in Nat /\ pos \in mark..Len(text)
  BY LenProperties DEF Inv, TypeOK, BufferOK
<1>2. CASE StartRound \/ MatchReturns
  BY <1>2 DEF StartRound, MatchReturns, MatchEnds, OfferAfter, Offer
<1>3. CASE CatchAll
  <2>1. pos = mark
    BY <1>3 DEF CatchAll, Inv, WindowPlaced
  <2>2. CASE IsPositive(Peek)
    <3>1. pos + 1 \in mark..Len(text)
      BY <1>1, <2>2 DEF Peek, IsPositive, AtEnd
    <3>2. AcceptTo(pos + 1, "ByChar", <<pos + 1>>)
      BY <1>3, <2>2 DEF CatchAll
    <3>3. Takes(pos + 1, "ByChar", <<pos + 1>>)
      BY <2>1, <3>1, <3>2 DEF Takes
    <3> QED
      BY <3>3
  <2>3. CASE ~IsPositive(Peek)
    BY <1>3, <2>3 DEF CatchAll
  <2> QED
    BY <2>2, <2>3
<1>4. CASE EndRound
  <2>1. CASE AtEnd
    <3>1. AcceptTo(pos, "EndOfFile", Literal)
      BY <1>4, <2>1 DEF EndRound
    <3>2. Takes(pos, "EndOfFile", Literal)
      BY <1>1, <3>1 DEF Takes
    <3> QED
      BY <3>2
  <2>2. CASE ~AtEnd
    BY <1>4, <2>2 DEF EndRound
  <2> QED
    BY <2>1, <2>2
<1>5. CASE ScannerEdits
  BY <1>5 DEF ScannerEdits, EditsToken
<1>6. CASE ScannerLocks \/ UNCHANGED vars
  BY <1>6 DEF ScannerLocks, vars
<1>7. CASE ScannerAccepts
  <2>1. CASE \E code \in TokenCodes, value \in {CurrentToken, Literal} : AcceptTo(pos, code, value)
    <3>1. PICK code \in TokenCodes, value \in {CurrentToken, Literal} : AcceptTo(pos, code, value)
      BY <2>1
    <3>2. Takes(pos, code, value)
      BY <1>1, <3>1 DEF Takes
    <3> QED
      BY <3>2
  <2>2. CASE Skip
    <3>1. Takes(pos, "ByChar", Literal)
      BY <1>1, <2>2 DEF Takes, Skip
    <3> QED
      BY <3>1
  <2> QED
    BY <1>7, <2>1, <2>2 DEF ScannerAccepts
<1> QED
  BY <1>2, <1>3, <1>4, <1>5, <1>6, <1>7 DEF Next

\* The line ends in what is passed are those that reset() counts, if it does
\* not end inside a CRLF.
LEMMA BreaksAreLineEnds ==
    ASSUME BufferOK, NEW last \in mark..Len(text), ~CrLfAt(last)
    PROVE  Breaks(mark + 1, last) = {i \in LineEnds : i \in mark + 1..last}
<1>1. mark \in Nat /\ Len(text) \in Nat /\ last \in Nat
  BY LenProperties DEF BufferOK
<1>2. ASSUME NEW i \in mark + 1..last
      PROVE  IsBreak(i, last) <=> text[i] \in {LineFeed, Return} /\ ~CrLfAt(i)
  <2>1. LineFeed # Return
    BY DEF LineFeed, Return
  <2>2. i \in 1..Len(text) /\ (i = last \/ (i < last /\ i \in 1..(Len(text) - 1)))
    BY <1>1
  <2> QED
    BY <2>1, <2>2 DEF IsBreak, CrLfAt
<1> QED
  BY <1>1, <1>2 DEF Breaks, LineEnds

EndsUpTo(n) == {i \in LineEnds : i <= n}

Located ==
    ~crLfSplit =>
        /\ loc.line = 1 + Cardinality(EndsUpTo(mark))
        /\ loc.column = 1 + Cardinality({i \in 1..mark : \A b \in EndsUpTo(mark) : b < i})

LEMMA DisjointUnion ==
    ASSUME NEW S, NEW T, IsFiniteSet(S), IsFiniteSet(T), S \intersect T = {}
    PROVE  Cardinality(S \union T) = Cardinality(S) + Cardinality(T)
<1>1. Cardinality(S \union T) = Cardinality(S) + Cardinality(T) - Cardinality(S \intersect T)
  BY FS_Union
<1>2. Cardinality(S \intersect T) = 0
  BY FS_EmptySet
<1>3. Cardinality(S) \in Nat /\ Cardinality(T) \in Nat
  BY FS_CardinalityType
<1> QED
  BY <1>1, <1>2, <1>3

LEMMA PassingKeepsLocated ==
    ASSUME BufferOK, Located, NEW last \in mark..Len(text), PassTo(last)
    PROVE  Located'
<1> SUFFICES ASSUME ~crLfSplit'
             PROVE  /\ loc'.line = 1 + Cardinality(EndsUpTo(mark)')
                    /\ loc'.column = 1 + Cardinality({i \in 1..mark' : \A b \in EndsUpTo(mark)' : b < i})
  BY DEF Located
<1> DEFINE old == EndsUpTo(mark)
           breaks == Breaks(mark + 1, last)
           tail == {i \in mark + 1..last : \A b \in breaks : b < i}
           before == {i \in 1..mark : \A b \in old : b < i}
<1>1. /\ mark \in Nat /\ Len(text) \in Nat /\ last \in Nat /\ mark <= last
      /\ loc.line \in Nat /\ loc.column \in Nat
  BY LenProperties DEF BufferOK, Location
<1>2. ~CrLfAt(last) /\ ~crLfSplit /\ text' = text /\ mark' = last
  BY DEF PassTo
<1>3. /\ loc'.line = loc.line + Cardinality(breaks)
      /\ loc'.column = Cardinality(tail) + IF breaks = {} THEN loc.column ELSE 1
  BY DEF PassTo, LocationAfter
<1>4. breaks = {i \in LineEnds : i \in mark + 1..last}
  BY <1>2, BreaksAreLineEnds
<1>5. EndsUpTo(mark)' = EndsUpTo(last)
  BY <1>2 DEF EndsUpTo, LineEnds, CrLfAt
<1>6. LineEnds \subseteq 1..Len(text)
  BY DEF LineEnds
<1>7. EndsUpTo(last) = old \union breaks /\ old \intersect breaks = {}
  <2>1. \A i \in LineEnds : i \in Nat /\ i >= 1
    BY <1>1, <1>6
  <2>2. \A i \in LineEnds : i <= last <=> (i <= mark \/ i \in mark + 1..last)
    BY <1>1, <2>1
  <2>3. \A i \in LineEnds : ~(i <= mark /\ i \in mark + 1..last)
    BY <1>1, <2>1
  <2>4. old = {i \in LineEnds : i <= mark} /\ EndsUpTo(last) = {i \in LineEnds : i <= last}
    BY DEF EndsUpTo
  <2> HIDE DEF old, breaks
  <2> QED
    BY <1>4, <2>2, <2>3, <2>4
<1>8. old \subseteq 1..mark /\ breaks \subseteq mark + 1..last
  <2>1. \A i \in LineEnds : i <= mark => i \in 1..mark
    BY <1>1, <1>6
  <2>2. old = {i \in LineEnds : i <= mark}
    BY DEF EndsUpTo
  <2> HIDE DEF old, breaks
  <2> QED
    BY <1>4, <2>1, <2>2
<1>9. /\ loc.line = 1 + Cardinality(old)
      /\ loc.column = 1 + Cardinality(before)
  BY <1>2 DEF Located
<1> HIDE DEF old, breaks
<1>10. IsFiniteSet(1..mark) /\ IsFiniteSet(mark + 1..last)
  <2>1. 1 \in Int /\ mark \in Int /\ mark + 1 \in Int /\ last \in Int
    BY <1>1
  <2>2. IsFiniteSet(1..mark)
    BY <2>1, FS_Interval
  <2>3. IsFiniteSet(mark + 1..last)
    BY <2>1, FS_Interval
  <2> QED
    BY <2>2, <2>3
<1>11. IsFiniteSet(old) /\ IsFiniteSet(breaks) /\ IsFiniteSet(before) /\ IsFiniteSet(tail)
  BY <1>8, <1>10, FS_Subset
<1>12. /\ Cardinality(old) \in Nat /\ Cardinality(breaks) \in Nat
       /\ Cardinality(before) \in Nat /\ Cardinality(tail) \in Nat
  BY <1>11, FS_CardinalityType
<1>13. Cardinality(old \union breaks) = Cardinality(old) + Cardinality(breaks)
  BY <1>7, <1>11, DisjointUnion
<1>14. loc'.line = 1 + Cardinality(EndsUpTo(last))
  BY <1>3, <1>7, <1>9, <1>12, <1>13
<1> DEFINE after == {i \in 1..last : \A b \in EndsUpTo(last) : b < i}
<1>15. {i \in 1..mark' : \A b \in EndsUpTo(mark)' : b < i} = after
  BY <1>2, <1>5
<1>16. loc'.line = 1 + Cardinality(EndsUpTo(mark)')
  BY <1>5, <1>14
<1>17. CASE breaks = {}
  <2>1. tail = mark + 1..last
    BY <1>17
  <2>2. after = before \union tail /\ before \intersect tail = {}
    <3>1. EndsUpTo(last) = old
      BY <1>7, <1>17
    <3>2. \A i \in mark + 1..last : i \in 1..last /\ i \notin 1..mark /\ \A b \in old : b < i
      BY <1>1, <1>8
    <3>3. \A i \in 1..last : i \in 1..mark \/ i \in mark + 1..last
      BY <1>1
    <3>4. \A i \in 1..mark : i \in 1..last
      BY <1>1
    <3> HIDE DEF tail
    <3> QED
      BY <2>1, <3>1, <3>2, <3>3, <3>4
  <2> HIDE DEF after, before, tail
  <2>3. Cardinality(after) = Cardinality(before) + Cardinality(tail)
    BY <1>11, <2>2, DisjointUnion
  <2> QED
    <3>1. loc'.column = Cardinality(tail) + loc.column
      BY <1>3, <1>17 DEF tail
    <3>2. loc.column = 1 + Cardinality(before)
      BY <1>9 DEF before
    <3>3. loc'.column = 1 + Cardinality(after)
      BY <1>12, <2>3, <3>1, <3>2 DEF tail, before
    <3> QED
      BY <1>15, <1>16, <3>3
<1>18. CASE breaks # {}
  <2>1. after = tail
    <3>1. PICK c \in breaks : TRUE
      BY <1>18
    <3>2. c > mark
      BY <1>1, <1>8
    <3>3. \A i \in 1..last : (\A b \in EndsUpTo(last) : b < i) => i \in mark + 1..last
      BY <1>1, <1>7, <1>8, <3>1, <3>2
    <3>4. \A i \in mark + 1..last : \A b \in old : b < i
      BY <1>1, <1>8
    <3> QED
      BY <1>1, <1>7, <3>3, <3>4
  <2> HIDE DEF after, tail
  <2> QED
    <3>1. loc'.column = Cardinality(tail) + 1
      BY <1>3, <1>18 DEF tail
    <3>2. Cardinality(tail) \in Nat
      BY <1>12 DEF tail
    <3>3. loc'.column = 1 + Cardinality(after)
      BY <2>1, <3>1, <3>2
    <3> QED
      BY <1>15, <1>16, <3>3
<1> QED
  BY <1>17, <1>18

LEMMA LocatedFollowsText ==
    ASSUME loc.index = mark, Located
    PROVE  LocationFollowsText
BY DEF Located, EndsUpTo, LocationFollowsText

LEMMA LocatedInit == TokenizerInit => Located
<1> SUFFICES ASSUME TokenizerInit PROVE Located
  OBVIOUS
<1>1. mark = 0 /\ loc.line = 1 /\ loc.column = 1
  BY DEF TokenizerInit, Init, AtStart
<1>2. EndsUpTo(mark) = {} /\ 1..mark = {}
  <2>1. text \in Seq(Chars) /\ Len(text) \in Nat
    BY InvInit, LenProperties DEF Inv, TypeOK, BufferOK
  <2> QED
    BY <1>1, <2>1 DEF EndsUpTo, LineEnds
<1>3. {i \in 1..mark : \A b \in EndsUpTo(mark) : b < i} = {}
  BY <1>2
<1> QED
  BY <1>1, <1>2, <1>3, FS_EmptySet DEF Located

LEMMA LocatedNext == Inv /\ Located /\ [Next]_vars => Located'
<1> SUFFICES ASSUME Inv, Located, [Next]_vars PROVE Located'
  OBVIOUS
<1>1. BufferOK
  BY DEF Inv, TypeOK
<1>2. CASE UNCHANGED bufferVars \/ EditsToken \/ RewindTo("Init")
  <2>1. UNCHANGED <<text, mark, loc, crLfSplit>>
    <3>1. CASE EditsToken
      BY <1>1, <3>1, EditType DEF EditsToken, Behind
    <3>2. CASE UNCHANGED bufferVars \/ RewindTo("Init")
      BY <3>2 DEF bufferVars, RewindTo
    <3> QED
      BY <1>2, <3>1, <3>2
  <2> QED
    BY <2>1 DEF Located, EndsUpTo, LineEnds, CrLfAt
<1>3. CASE \E last, code, value : Takes(last, code, value)
  <2>1. PICK last \in mark..Len(text) : PassTo(last)
    BY <1>3 DEF Takes, AcceptTo, SkipTo
  <2> QED
    BY <1>1, <2>1, PassingKeepsLocated
<1> QED
  BY <1>2, <1>3, StepKinds

-----------------------------------------------------------------------------
(* Values.                                                                 *)

\* The characters of a value that are from the text are from that part of it,
\* in order.
Ordered(value, first, last) ==
    \A i \in 1..Len(value) : value[i] # Foreign =>
        /\ value[i] \in first..last
        /\ \A j \in 1..Len(value) : value[j] # Foreign /\ i < j => value[i] < value[j]

Valued ==
    /\ tokenString # <<>> => Ordered(tokenString[1], mark + 1, pos)
    /\ \A k \in 1..Len(tokens) :
          Ordered(tokens[k].value, tokens[k].start.index + 1, tokens[k].end.index)

LEMMA CurrentTokenIsOrdered ==
    ASSUME BufferOK, Valued
    PROVE  Ordered(CurrentToken, mark + 1, pos)
<1>1. mark \in Nat /\ pos \in Nat /\ mark <= pos
  BY LenProperties DEF BufferOK
<1>2. Ordered(Scanned, mark + 1, pos)
  <2>1. Len(Scanned) = pos - mark /\ \A i \in 1..(pos - mark) : Scanned[i] = mark + i
    BY <1>1 DEF Scanned
  <2> QED
    BY <1>1, <2>1 DEF Ordered
<1> QED
  BY <1>2 DEF CurrentToken, Valued

LEMMA PrefixIsOrdered ==
    ASSUME NEW s \in Seq(Positions), NEW n \in Nat, NEW first \in Nat, NEW last \in Nat,
           Ordered(s, first, last)
    PROVE  Ordered(Prefix(s, n), first, last)
<1> DEFINE m == IF n < Len(s) THEN n ELSE Len(s)
<1>1. Len(s) \in Nat /\ m \in 0..Len(s)
  BY LenProperties
<1>2. Prefix(s, n) = SubSeq(s, 1, m)
  BY DEF Prefix
<1>3. Len(Prefix(s, n)) = m /\ \A i \in 1..m : Prefix(s, n)[i] = s[i]
  BY <1>1, <1>2, SubSeqProperties
<1> HIDE DEF m
<1> QED
  BY <1>1, <1>3 DEF Ordered

LEMMA AppendIsOrdered ==
    ASSUME NEW s \in Seq(Positions), NEW p \in Positions, NEW first \in Nat, NEW last \in Nat,
           Ordered(s, first, last), NEW end \in Nat, last <= end,
           p = Foreign \/ (p = last + 1 /\ p = end /\ first <= p)
    PROVE  Ordered(Append(s, p), first, end)
<1>1. Len(s) \in Nat /\ \A i \in 1..Len(s) : s[i] \in Nat
  BY LenProperties, CodesAssumption DEF Positions
<1>2. /\ Len(Append(s, p)) = Len(s) + 1
      /\ \A i \in 1..Len(s) : Append(s, p)[i] = s[i]
      /\ Append(s, p)[Len(s) + 1] = p
  BY AppendProperties
<1>3. p \in Nat
  BY CodesAssumption DEF Positions
<1>4. \A i \in 1..Len(s) + 1 : i \in 1..Len(s) \/ i = Len(s) + 1
  BY <1>1
<1> DEFINE t == Append(s, p)
<1>5. \A i \in 1..Len(s) : s[i] # Foreign => s[i] \in first..last
  BY DEF Ordered
<1>6. ASSUME NEW i \in 1..Len(t), t[i] # Foreign
      PROVE  /\ t[i] \in first..end
             /\ \A j \in 1..Len(t) : t[j] # Foreign /\ i < j => t[i] < t[j]
  <2>1. CASE i = Len(s) + 1
    BY <1>1, <1>2, <1>3, <1>6, <2>1
  <2>2. CASE i \in 1..Len(s)
    <3>1. t[i] = s[i] /\ s[i] \in first..last
      BY <1>2, <1>5, <1>6, <2>2
    <3>2. ASSUME NEW j \in 1..Len(t), t[j] # Foreign, i < j
          PROVE  t[i] < t[j]
      <4>1. CASE j \in 1..Len(s)
        BY <1>2, <1>6, <2>2, <3>2, <4>1 DEF Ordered
      <4>2. CASE j = Len(s) + 1
        BY <1>2, <3>1, <3>2, <4>2
      <4> QED
        BY <1>2, <1>4, <4>1, <4>2
    <3> QED
      BY <3>1, <3>2
  <2> QED
    BY <1>2, <1>4, <2>1, <2>2
<1> HIDE DEF t
<1> QED
  BY <1>6 DEF Ordered, t

LEMMA EditKeepsValued ==
    ASSUME BufferOK, Valued, EditsToken
    PROVE  Valued'
<1> DEFINE s == CurrentToken
<1>1. /\ mark \in Nat /\ pos \in Nat /\ mark <= pos /\ Len(text) \in Nat /\ pos <= Len(text)
      /\ Len(text) <= MaxText
  BY LenProperties DEF BufferOK
<1>2. UNCHANGED <<mark, tokens>>
  BY EditType DEF EditsToken, Behind
<1>3. s \in Seq(Positions) /\ Ordered(s, mark + 1, pos) /\ (tokenString # <<>> => tokenString[1] = s)
  BY CurrentTokenType, CurrentTokenIsOrdered DEF CurrentToken
<1>4. Foreign \in Positions /\ (~AtEnd => pos + 1 \in Positions /\ pos + 1 # Foreign)
  BY <1>1, CodesAssumption DEF Foreign, Positions, AtEnd
<1> HIDE DEF s
<1>5. SUFFICES ASSUME tokenString' # <<>>
               PROVE  Ordered(tokenString'[1], mark + 1, pos')
  BY <1>2 DEF Valued, Ordered
<1>6. pos' \in Nat /\ (Push \/ PushOther \/ Discard => pos <= pos')
  <2>1. BufferOK'
    BY EditType DEF EditsToken
  <2> QED
    BY <1>1, <2>1 DEF BufferOK, Push, PushOther, Discard, SkipOne
<1>7. CASE Push
  <2> DEFINE p == IF AtEnd THEN Foreign ELSE pos + 1
  <2>1. tokenString' = <<Append(s, p)>> /\ (AtEnd => pos' = pos) /\ (~AtEnd => pos' = pos + 1)
    BY <1>3, <1>5, <1>7 DEF Push, SkipOne
  <2>2. p \in Positions /\ (p = Foreign \/ (p = pos + 1 /\ p = pos' /\ mark + 1 <= p))
    BY <1>1, <1>4, <2>1
  <2> HIDE DEF p
  <2>3. Ordered(Append(s, p), mark + 1, pos')
    BY <1>1, <1>3, <1>6, <1>7, <2>2, AppendIsOrdered
  <2> QED
    BY <2>1, <2>3
<1>8. CASE PushOther
  <2>1. tokenString' = <<Append(s, Foreign)>>
    BY <1>8 DEF PushOther, s
  <2>2. Ordered(Append(s, Foreign), mark + 1, pos')
    BY <1>1, <1>3, <1>4, <1>6, <1>8, AppendIsOrdered
  <2> QED
    BY <2>1, <2>2
<1>9. CASE Discard /\ ~Push
  <2>1. tokenString' = <<s>> /\ pos <= pos'
    BY <1>6, <1>9 DEF Discard, s
  <2>2. Ordered(s, mark + 1, pos')
    BY <1>1, <1>3, <1>6, <2>1 DEF Ordered
  <2> QED
    BY <2>1, <2>2
<1>10. CASE \E num \in {1, 2} : Chop(num)
  <2>1. PICK num \in {1, 2} : Chop(num)
    BY <1>10
  <2> DEFINE n == IF num > Len(s) THEN Len(s) ELSE num
  <2>2. tokenString' = <<Prefix(s, Len(s) - n)>> /\ pos' = pos
    BY <2>1 DEF Chop, s
  <2>3. Len(s) - n \in Nat
    BY <1>3, LenProperties
  <2> HIDE DEF n
  <2>4. Ordered(Prefix(s, Len(s) - n), mark + 1, pos)
    BY <1>1, <1>3, <2>3, PrefixIsOrdered
  <2> QED
    BY <2>2, <2>4
<1>11. CASE RewindIsAligned /\ \E num \in {1, 2} : PartialRewind(num)
  <2>1. PICK num \in {1, 2} : PartialRewind(num)
    BY <1>11
  <2> DEFINE n == IF num > pos - mark THEN pos - mark ELSE num
             m == pos - mark - n
  <2>2. tokenString # <<>> /\ tokenString' = <<Prefix(s, m)>> /\ pos' = pos - n
    BY <1>3, <1>5, <2>1 DEF PartialRewind
  <2>3. m \in Nat /\ m <= pos - mark /\ pos' = mark + m
    BY <1>1, <2>2
  <2>4. Len(s) = pos - mark /\ \A i \in 1..(pos - mark) : s[i] \in {mark + i, Foreign}
    BY <1>3, <1>11, <2>2 DEF RewindIsAligned
  <2> HIDE DEF m
  <2>5. Len(Prefix(s, m)) = m /\ \A i \in 1..m : Prefix(s, m)[i] = s[i]
    <3>1. Prefix(s, m) = SubSeq(s, 1, m)
      BY <2>3, <2>4 DEF Prefix
    <3> QED
      BY <1>1, <1>3, <2>3, <2>4, <3>1, SubSeqProperties
  <2>6. \A i \in 1..m : Prefix(s, m)[i] # Foreign => Prefix(s, m)[i] = mark + i
    BY <1>1, <2>3, <2>4, <2>5
  <2>7. Ordered(Prefix(s, m), mark + 1, pos')
    BY <1>1, <2>3, <2>5, <2>6 DEF Ordered
  <2> QED
    BY <2>2, <2>7
<1> QED
  BY <1>7, <1>8, <1>9, <1>10, <1>11 DEF EditsToken

LEMMA TakingKeepsValued ==
    ASSUME BufferOK, Tiled, Valued, NEW last, NEW code, NEW value, Takes(last, code, value)
    PROVE  Valued'
<1>1. mark \in Nat /\ pos \in Nat /\ last \in mark..Len(text) /\ Len(text) \in Nat
  BY LenProperties DEF BufferOK, Takes
<1>2. PassTo(last) /\ tokenString' = <<>>
  BY DEF Takes, AcceptTo, SkipTo, PassTo
<1>3. CASE UNCHANGED tokens
  BY <1>2, <1>3 DEF Valued
<1>4. CASE tokens' = Append(tokens, [start |-> loc, end |-> LocationAfter(last),
                                     code |-> code, value |-> value])
  <2>1. loc.index = mark /\ LocationAfter(last).index = last
    BY <1>1, LocationAfterType DEF Tiled
  <2>2. Ordered(value, mark + 1, last)
    <3>1. CASE last = pos /\ value = CurrentToken
      BY <3>1, CurrentTokenIsOrdered
    <3>2. CASE value = Literal
      <4>1. Len(value) = 1 /\ value[1] = Foreign
        BY <3>2 DEF Literal
      <4> QED
        BY <4>1 DEF Ordered
    <3>3. CASE last = mark + 1 /\ value = <<mark + 1>>
      <4>1. Len(value) = 1 /\ value[1] = mark + 1
        BY <3>3
      <4> QED
        BY <1>1, <3>3, <4>1 DEF Ordered
    <3> QED
      BY <3>1, <3>2, <3>3 DEF Takes
  <2> DEFINE t == [start |-> loc, end |-> LocationAfter(last), code |-> code, value |-> value]
  <2>3. t.start.index = mark /\ t.end.index = last /\ t.value = value
    BY <2>1
  <2> HIDE DEF t
  <2>4. /\ Len(tokens) \in Nat /\ Len(tokens') = Len(tokens) + 1
        /\ \A k \in 1..Len(tokens) : tokens'[k] = tokens[k]
        /\ tokens'[Len(tokens) + 1] = t
    BY <1>4, LenProperties, AppendProperties DEF BufferOK, t
  <2>5. ASSUME NEW k \in 1..Len(tokens')
        PROVE  Ordered(tokens'[k].value, tokens'[k].start.index + 1, tokens'[k].end.index)
    <3>1. CASE k \in 1..Len(tokens)
      BY <2>4, <3>1 DEF Valued
    <3>2. CASE k = Len(tokens) + 1
      BY <2>2, <2>3, <2>4, <3>2
    <3> QED
      BY <2>4, <3>1, <3>2
  <2> QED
    BY <1>2, <2>5 DEF Valued
<1> QED
  BY <1>3, <1>4 DEF Takes, AcceptTo, SkipTo

LEMMA ValuedNext == Inv /\ Valued /\ [Next]_vars => Valued'
<1> SUFFICES ASSUME Inv, Valued, [Next]_vars PROVE Valued'
  OBVIOUS
<1>1. BufferOK /\ Tiled
  BY DEF Inv, TypeOK
<1>2. CASE UNCHANGED bufferVars
  BY <1>2 DEF bufferVars, Valued
<1>3. CASE EditsToken
  BY <1>1, <1>3, EditKeepsValued
<1>4. CASE RewindTo("Init")
  BY <1>4 DEF RewindTo, Valued
<1>5. CASE \E last, code, value : Takes(last, code, value)
  BY <1>1, <1>5, TakingKeepsValued
<1> QED
  BY <1>2, <1>3, <1>4, <1>5, StepKinds

-----------------------------------------------------------------------------
(* The theorems.                                                           *)

\* Every variable has its type; the window never leaves the text.
THEOREM TypeCorrect == Spec => []TypeOK
<1>1. Inv => TypeOK
  BY DEF Inv
<1> QED
  BY <1>1, InvInit, InvNext, PTL DEF Spec

\* No scanner makes the tokenizer lose a character of the text, take one
\* twice or put the tokens out of order.
THEOREM TextIsAlwaysTiled == Spec => []TextIsTiled
<1>1. Inv => TextIsTiled
  BY TiledIsTextIsTiled DEF Inv, TypeOK
<1> QED
  BY <1>1, InvInit, InvNext, PTL DEF Spec

\* tokenize() returns with exactly one end of file token, at the end of the
\* text.
THEOREM EndOfFileEndsTheTokens == Spec => []EndsWithEndOfFile
<1>1. Inv => EndsWithEndOfFile
  BY DEF Inv
<1> QED
  BY <1>1, InvInit, InvNext, PTL DEF Spec

\* A round of match_token() takes text, unless the next character is not
\* positive: the only way in which tokenize() can go on for ever.
THEOREM RoundsMakeProgress == Spec => []StuckOnlyAtNonPositive
<1>1. Inv => StuckOnlyAtNonPositive
  BY DEF Inv
<1> QED
  BY <1>1, InvInit, InvNext, PTL DEF Spec

\* The line and the column of each token are those of the text, for any text
\* and any cut into tokens that is not inside a CRLF.
THEOREM LocationsAreTrue == Spec => []LocationFollowsText
<1>1. Inv /\ Located => LocationFollowsText
  BY LocatedFollowsText DEF Inv, Tiled
<1> QED
  BY <1>1, InvInit, InvNext, LocatedInit, LocatedNext, PTL DEF Spec

\* The value of a token is made of the characters that it covers, in order,
\* whatever its scanner has put in, dropped, chopped and given back.
THEOREM ValuesAreFromTheText == Spec => []ValueFromItsText
<1>1. TokenizerInit => Valued
  BY DEF TokenizerInit, Init, AtStart, Valued
<1>2. Inv /\ Valued => ValueFromItsText
  BY DEF Valued, Ordered, ValueFromItsText, Covers
<1> QED
  BY <1>1, <1>2, InvInit, InvNext, ValuedNext, PTL DEF Spec
=============================================================================
