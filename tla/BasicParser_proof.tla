------------------------- MODULE BasicParser_proof -------------------------
(***************************************************************************)
(* What holds of the Lexer for any texts, any number of bookmarks and any  *)
(* sequence of calls, and then of a BasicParser for any file too: the      *)
(* Lexer in it keeps its invariant, errors are not passed over, and a file *)
(* is read as it was at one moment.                                        *)
(***************************************************************************)
EXTENDS BasicParser, SequenceTheorems, TLAPS

-----------------------------------------------------------------------------
(* The Lexer.                                                              *)

Buffer == [text : Texts, of : Nat \ {0}, read : BOOLEAN]

Bookmark == [at : Nat, list : Nat]

\* A Tokenizer makes at least one token, and all of the text it is given.
LEMMA TokenizedFacts ==
    ASSUME NEW b \in Buffer
    PROVE  /\ Tokenized(b) \in Seq(Token)
           /\ Len(Tokenized(b)) \in Nat \ {0}
           /\ Tokenized(b) # <<>>
           /\ \A k \in 1..Len(Tokenized(b)) : Tokenized(b)[k].of = b.of
<1> DEFINE codes == IF b.read THEN <<>> ELSE Codes[b.text]
           toks == [i \in 1..Len(codes) + 1 |->
                       [of |-> b.of,
                        code |-> IF i <= Len(codes) THEN codes[i] ELSE "EndOfFile"]]
<1>1. codes \in Seq(TextCodes)
  <2>1. Codes[b.text] \in Seq(TextCodes)
    BY TextsAssumption DEF Buffer
  <2>2. <<>> \in Seq(TextCodes)
    OBVIOUS
  <2> QED
    BY <2>1, <2>2
<1>2. Tokenized(b) = toks
  BY DEF Tokenized
<1>3. Len(codes) \in Nat /\ \A i \in 1..Len(codes) : codes[i] \in TextCodes
  BY <1>1, LenProperties
<1> HIDE DEF codes
<1>4. \A i \in 1..Len(codes) + 1 : toks[i] \in Token /\ toks[i].of = b.of
  <2> SUFFICES ASSUME NEW i \in 1..Len(codes) + 1
               PROVE  toks[i] \in Token /\ toks[i].of = b.of
    OBVIOUS
  <2> DEFINE code == IF i <= Len(codes) THEN codes[i] ELSE "EndOfFile"
  <2>1. code \in TextCodes \union {"EndOfFile"}
    <3>1. CASE i <= Len(codes)
      BY <1>3, <3>1
    <3>2. CASE ~(i <= Len(codes))
      BY <3>2
    <3> QED
      BY <3>1, <3>2
  <2>2. b.of \in Nat
    BY DEF Buffer
  <2>3. toks[i] = [of |-> b.of, code |-> code]
    OBVIOUS
  <2> HIDE DEF code, toks
  <2> QED
    BY <2>1, <2>2, <2>3 DEF Token
<1>5. toks \in [1..Len(codes) + 1 -> Token]
  BY <1>4
<1>6. toks \in Seq(Token) /\ Len(toks) = Len(codes) + 1
  BY <1>3, <1>5, SeqDef
<1>7. toks # <<>>
  BY <1>3, <1>6
<1> QED
  BY <1>2, <1>3, <1>4, <1>6, <1>7

\* No buffer was lost and none was read again: the tokens are those of the
\* text.
Reading == ~swapped /\ ~reread

\* Where the cursor and the bookmarks of this list of tokens are.
CursorInv ==
    /\ CursorOnToken
    /\ ~strayed /\ tokens = <<>> => current = 0
    /\ \A k \in 1..Len(bookmarks) :
          /\ bookmarks[k].list <= list
          /\ bookmarks[k].list = list =>
                /\ bookmarks[k].at < Len(Filled)
                /\ tokens = <<>> => bookmarks[k].at = 0

\* What the tokens are, and what the client has passed of them.
TextInv ==
    /\ TokensPointIntoBuffer
    /\ tokens = <<>> => Reading
    /\ ~swapped /\ tokens # <<>> => buffer.read
    /\ Reading /\ tokens # <<>> => Len(tokens) = Len(Whole) /\ FromText(tokens)
    /\ ParserReadsText
    /\ Reading => \A k \in 1..Len(bookmarks) :
          bookmarks[k].list = list =>
              Len(saved[k]) = bookmarks[k].at /\ FromText(saved[k])

Inv == TypeOK /\ CursorInv /\ TextInv

LEMMA InvInit == Init => Inv
<1> SUFFICES ASSUME Init PROVE Inv
  OBVIOUS
<1>1. buffer \in Buffer /\ buffer.of = 1
  <2>1. buffer \in [text : Texts, of : {1}, read : {FALSE}]
    BY DEF Init
  <2>2. /\ buffer = [text |-> buffer.text, of |-> buffer.of, read |-> buffer.read]
        /\ buffer.text \in Texts /\ buffer.of = 1 /\ buffer.read = FALSE
    BY <2>1
  <2>3. buffer.of \in Nat \ {0} /\ buffer.read \in BOOLEAN
    <3>1. buffer.of \in Nat \ {0}
      BY <2>2
    <3>2. buffer.read \in BOOLEAN
      BY <2>2, Zenon
    <3> QED
      BY <3>1, <3>2
  <2> DEFINE t == buffer.text
             o == buffer.of
             r == buffer.read
  <2>4. buffer = [text |-> t, of |-> o, read |-> r]
    BY <2>2
  <2>5. t \in Texts /\ o \in Nat \ {0} /\ r \in BOOLEAN
    BY <2>2, <2>3
  <2> HIDE DEF t, o, r
  <2>6. buffer \in Buffer
    BY <2>4, <2>5 DEF Buffer
  <2> QED
    BY <2>2, <2>6
<1>2. /\ tokens = <<>> /\ bookmarks = <<>> /\ saved = <<>> /\ got = <<>>
      /\ current = 0 /\ list = 1 /\ budget = Budget
      /\ ~aborted /\ ~swapped /\ ~reread /\ ~strayed
      /\ {aborted, swapped, reread, strayed} \subseteq BOOLEAN
  BY DEF Init
<1>3. TypeOK
  BY <1>1, <1>2, BoundsAssumption DEF TypeOK, Buffer
<1>4. Len(Filled) \in Nat \ {0}
  BY <1>1, <1>2, TokenizedFacts DEF Filled
<1>5. CursorInv
  BY <1>2, <1>4 DEF CursorInv, CursorOnToken
<1>6. TextInv
  BY <1>2 DEF TextInv, TokensPointIntoBuffer, ParserReadsText, Reading, FromText
<1> QED
  BY <1>3, <1>5, <1>6 DEF Inv

-----------------------------------------------------------------------------
\* What peek() has before it: at least one token, and those of the text if the
\* buffer is the one they came from.
LEMMA FillFacts ==
    ASSUME Inv, Fill
    PROVE  /\ Filled \in Seq(Token)
           /\ Len(Filled) \in Nat \ {0}
           /\ buffer' \in Buffer
           /\ buffer'.of = buffer.of /\ buffer'.text = buffer.text
           /\ Whole' = Whole
           /\ reread' \in BOOLEAN /\ (reread => reread')
           /\ ~swapped => buffer'.read
           /\ ~swapped => \A k \in 1..Len(Filled) : Filled[k].of \in {NoText, buffer.of}
           /\ ~swapped /\ ~reread' => Len(Filled) = Len(Whole) /\ FromText(Filled)
<1>1. TypeOK /\ TextInv /\ buffer \in Buffer
  BY DEF Inv, TypeOK, Buffer
<1>2. CASE tokens = <<>>
  <2>1. buffer' = [buffer EXCEPT !.read = TRUE] /\ reread' = (reread \/ buffer.read)
    BY <1>2 DEF Fill, ReadBuffer
  <2>2. buffer' \in Buffer /\ buffer'.of = buffer.of /\ buffer'.text = buffer.text
        /\ buffer'.read
    BY <1>1, <2>1 DEF Buffer
  <2>3. [buffer' EXCEPT !.read = FALSE] = [buffer EXCEPT !.read = FALSE]
    BY <1>1, <2>1 DEF Buffer
  <2>4. Whole' = Whole
    BY <2>3, Zenon DEF Whole
  <2>5. Filled = Tokenized(buffer)
    BY <1>2 DEF Filled
  <2>6. ~buffer.read => [buffer EXCEPT !.read = FALSE] = buffer
    BY <1>1 DEF Buffer
  <2>7. ~reread' => Filled = Whole
    BY <2>1, <2>5, <2>6 DEF Whole
  <2>8. reread' \in BOOLEAN /\ (reread => reread')
    BY <1>1, <2>1 DEF TypeOK, Buffer
  <2>9. ~reread' => FromText(Filled)
    BY <2>7 DEF FromText
  <2> QED
    BY <1>1, <2>2, <2>4, <2>5, <2>7, <2>8, <2>9, TokenizedFacts
<1>3. CASE tokens # <<>>
  <2>1. buffer' = buffer /\ reread' = reread /\ Filled = tokens
    BY <1>3 DEF Fill, Filled
  <2>2. Whole' = Whole
    BY <2>1 DEF Whole, Tokenized
  <2>3. tokens \in Seq(Token) /\ Len(tokens) \in Nat \ {0}
    BY <1>1, <1>3, EmptySeq, LenProperties DEF TypeOK
  <2>4. reread \in BOOLEAN
    BY <1>1 DEF TypeOK
  <2> QED
    BY <1>1, <1>3, <2>1, <2>2, <2>3, <2>4 DEF TextInv, TokensPointIntoBuffer, Reading
<1> QED
  BY <1>2, <1>3

\* A bookmark has a position and the number of the token list it is for.
LEMMA BookmarkTypes ==
    ASSUME TypeOK
    PROVE  \A k \in 1..Len(bookmarks) :
              bookmarks[k].at \in Nat /\ bookmarks[k].list \in Nat
<1>1. bookmarks \in Seq(Bookmark)
  BY DEF TypeOK, Bookmark
<1>2. \A k \in 1..Len(bookmarks) : bookmarks[k] \in Bookmark
  BY <1>1, ElementOfSeq
<1> QED
  BY <1>2 DEF Bookmark

\* The cursor stays, or moves by one over a token that was there.
LEMMA MoveFacts ==
    ASSUME Inv, Fill, ~Underflow(0), Advance \/ Stay
    PROVE  /\ current' \in Nat /\ current' < Len(Filled)
           /\ got' \in Seq(Token)
           /\ ~strayed /\ ~swapped /\ ~reread' =>
                 Len(got') = current' /\ FromText(got')
<1>1. /\ TypeOK /\ TextInv
      /\ current \in Nat /\ got \in Seq(Token)
      /\ ~strayed /\ ~swapped /\ ~reread => Len(got) = current /\ FromText(got)
  BY DEF Inv, TypeOK, TextInv, ParserReadsText
<1>2. /\ Filled \in Seq(Token) /\ Len(Filled) \in Nat \ {0}
      /\ reread' \in BOOLEAN /\ (reread => reread')
      /\ ~swapped /\ ~reread' => Len(Filled) = Len(Whole) /\ FromText(Filled)
  BY FillFacts
<1>3. current < Len(Filled)
  BY <1>1, <1>2 DEF Underflow
<1>4. CASE Stay
  BY <1>1, <1>2, <1>3, <1>4 DEF Stay
<1>5. CASE current' = current + 1 /\ got' = Append(got, Filled[current + 1])
           /\ current < Len(Filled) - 1
  <2>1. Filled[current + 1] \in Token /\ current + 1 \in 1..Len(Filled)
    BY <1>1, <1>2, <1>5, LenProperties
  <2>2. /\ got' \in Seq(Token) /\ Len(got') = Len(got) + 1
        /\ \A i \in 1..Len(got) : got'[i] = got[i]
        /\ got'[Len(got) + 1] = Filled[current + 1]
    BY <1>1, <1>5, <2>1, AppendProperties
  <2>3. ASSUME ~strayed, ~swapped, ~reread'
        PROVE  Len(got') = current' /\ FromText(got')
    <3>1. Len(got) = current /\ FromText(got) /\ FromText(Filled)
      BY <1>1, <1>2, <2>3
    <3>2. \A i \in 1..Len(got') : got'[i] = Whole[i] \/ got'[i].of = NoText
      <4> SUFFICES ASSUME NEW i \in 1..Len(got')
                   PROVE  got'[i] = Whole[i] \/ got'[i].of = NoText
        OBVIOUS
      <4>1. CASE i = current + 1
        <5>1. got'[i] = Filled[i] /\ i \in 1..Len(Filled)
          BY <2>1, <2>2, <3>1, <4>1
        <5> QED
          BY <3>1, <5>1 DEF FromText
      <4>2. CASE i # current + 1
        <5>1. i \in 1..Len(got)
          BY <1>1, <2>2, <3>1, <4>2
        <5> QED
          BY <2>2, <3>1, <5>1 DEF FromText
      <4> QED
        BY <4>1, <4>2
    <3> QED
      BY <1>5, <2>2, <3>1, <3>2 DEF FromText
  <2> QED
    BY <1>1, <1>2, <1>5, <2>2, <2>3
<1> QED
  BY <1>4, <1>5 DEF Advance, Stay

\* A token list that does not shrink keeps what the cursor and the bookmarks
\* of this list point at, as long as an empty one means the start.
LEMMA CursorInvKept ==
    ASSUME Inv, NEW n \in Nat \ {0},
           Len(Filled') = n, n >= Len(Filled),
           tokens' = <<>> => tokens = <<>>,
           UNCHANGED <<bookmarks, list, strayed>>,
           ~strayed => current' < n /\ (tokens' = <<>> => current' = 0)
    PROVE  CursorInv'
<1>1. CursorInv /\ TypeOK
  BY DEF Inv
<1>2. \A k \in 1..Len(bookmarks) : bookmarks[k].at \in Nat /\ bookmarks[k].list \in Nat
  BY <1>1, BookmarkTypes
<1>3. Len(Filled) \in Int
  <2>1. buffer \in Buffer /\ tokens \in Seq(Token)
    BY <1>1 DEF TypeOK, Buffer
  <2> QED
    BY <2>1, TokenizedFacts, LenProperties DEF Filled
<1>4. \A k \in 1..Len(bookmarks) :
        /\ bookmarks[k].list <= list
        /\ bookmarks[k].list = list =>
              bookmarks[k].at < n /\ (tokens' = <<>> => bookmarks[k].at = 0)
  BY <1>1, <1>2, <1>3 DEF CursorInv
<1>5. CursorOnToken' /\ (~strayed' /\ tokens' = <<>> => current' = 0)
  BY DEF CursorOnToken
<1> QED
  BY <1>4, <1>5 DEF CursorInv

\* What follows from a call that fills the list, changes the tokens at most by
\* putting in others, and moves the cursor over tokens of the list.
LEMMA MovesKeepInv ==
    ASSUME Inv, Fill, aborted' \in BOOLEAN,
           tokens' \in Seq(Token), Len(tokens') = Len(Filled),
           \A k \in 1..Len(Filled) : tokens'[k] = Filled[k] \/ tokens'[k].of = NoText,
           current' \in Nat, got' \in Seq(Token),
           ~strayed => current' < Len(Filled),
           ~strayed /\ ~swapped /\ ~reread' => Len(got') = current' /\ FromText(got'),
           UNCHANGED <<bookmarks, list, swapped, strayed, saved>>,
           budget' \in 0..Budget
    PROVE  Inv'
<1>1. TypeOK /\ CursorInv /\ TextInv
  BY DEF Inv
<1>2. /\ Filled \in Seq(Token) /\ Len(Filled) \in Nat \ {0}
      /\ buffer' \in Buffer /\ buffer'.of = buffer.of
      /\ Whole' = Whole
      /\ reread' \in BOOLEAN /\ (reread => reread')
      /\ ~swapped => buffer'.read
      /\ ~swapped => \A k \in 1..Len(Filled) : Filled[k].of \in {NoText, buffer.of}
      /\ ~swapped /\ ~reread' => Len(Filled) = Len(Whole) /\ FromText(Filled)
  BY FillFacts
<1>3. tokens' # <<>> /\ Filled' = tokens'
  BY <1>2, EmptySeq DEF Filled
<1>7. TypeOK'
  BY <1>1, <1>2 DEF TypeOK, Buffer
<1>8. CursorInv'
  BY <1>2, <1>3, CursorInvKept
<1>10. TokensPointIntoBuffer'
  BY <1>2 DEF TokensPointIntoBuffer
<1>11. ~swapped' /\ ~reread' => Len(tokens') = Len(Whole') /\ FromText(tokens)'
  BY <1>2 DEF FromText
<1>12. ParserReadsText'
  BY <1>2 DEF ParserReadsText, FromText
<1>13. Reading' => \A k \in 1..Len(bookmarks') :
         bookmarks'[k].list = list' =>
             Len(saved'[k]) = bookmarks'[k].at /\ FromText(saved[k])'
  BY <1>1, <1>2 DEF TextInv, Reading, FromText
<1>14. TextInv'
  BY <1>2, <1>3, <1>10, <1>11, <1>12, <1>13 DEF TextInv, Reading
<1> QED
  BY <1>7, <1>8, <1>14 DEF Inv

\* A call that starts with peek(), and moves by one token or not at all.
LEMMA PeekingFacts ==
    ASSUME Inv, Fill, aborted' \in BOOLEAN,
           tokens' \in Seq(Token), Len(tokens') = Len(Filled),
           \A k \in 1..Len(Filled) : tokens'[k] = Filled[k] \/ tokens'[k].of = NoText,
           Stay \/ (~Underflow(0) /\ Advance),
           UNCHANGED <<bookmarks, list, swapped, strayed, saved>>,
           budget' \in 0..Budget
    PROVE  Inv'
<1>1. /\ TypeOK /\ CursorInv /\ TextInv
      /\ reread' \in BOOLEAN /\ (reread => reread')
      /\ Whole' = Whole
  BY FillFacts DEF Inv
<1>2. /\ current' \in Nat /\ got' \in Seq(Token)
      /\ ~strayed => current' < Len(Filled)
      /\ ~strayed /\ ~swapped /\ ~reread' => Len(got') = current' /\ FromText(got')
  <2>1. CASE Stay
    BY <1>1, <2>1
    DEF Stay, TypeOK, CursorInv, CursorOnToken, TextInv, ParserReadsText
  <2>2. CASE ~Underflow(0) /\ Advance
    BY <2>2, MoveFacts
  <2> QED
    BY <2>1, <2>2
<1> QED
  BY <1>2, MovesKeepInv

\* The calls that start with peek(n).
LEMMA PeekingKeepsInv ==
    ASSUME Inv, NEW n \in {0, 1}, NEW ACTION move, Peeking(n, move), move => Stay \/ Advance,
           n # 0 => (move => Stay), budget' \in 0..Budget
    PROVE  Inv'
<1>1. /\ Fill /\ tokens' = Filled /\ aborted' = Underflow(n)
      /\ UNCHANGED <<bookmarks, list, swapped, strayed, saved>>
      /\ Stay \/ (~Underflow(0) /\ Advance)
  BY DEF Peeking
<1>2. aborted' \in BOOLEAN
  BY <1>1 DEF Underflow
<1> QED
  BY <1>1, <1>2, FillFacts, PeekingFacts

\* assign() of another buffer, under the tokens.
LEMMA AssignBufferKeepsInv ==
    ASSUME Inv, buffer' \in Buffer, swapped' = (tokens # <<>>), budget' \in 0..Budget,
           UNCHANGED <<tokens, current, bookmarks, aborted, list, reread, strayed, got, saved>>
    PROVE  Inv'
<1>1. TypeOK /\ CursorInv /\ TextInv /\ buffer \in Buffer
  BY DEF Inv, TypeOK, Buffer
<1>2. \A k \in 1..Len(bookmarks) : bookmarks[k].at \in Nat /\ bookmarks[k].list \in Nat
  BY <1>1, BookmarkTypes
<1>3. swapped' \in BOOLEAN
  OBVIOUS
<1>4. TypeOK'
  BY <1>1, <1>3 DEF TypeOK, Buffer
<1>5. CASE tokens # <<>>
  <2>1. Filled' = Filled /\ swapped'
    BY <1>5 DEF Filled
  <2>2. CursorInv'
    BY <1>1, <2>1 DEF CursorInv, CursorOnToken
  <2>3. TextInv'
    BY <1>1, <1>5, <2>1
    DEF TextInv, TokensPointIntoBuffer, ParserReadsText, Reading
  <2> QED
    BY <1>4, <2>2, <2>3 DEF Inv
<1>6. CASE tokens = <<>>
  <2>1. Filled' = Tokenized(buffer') /\ ~swapped' /\ Reading /\ Reading'
    BY <1>1, <1>6 DEF Filled, TextInv, Reading
  <2>2. Len(Filled') \in Nat \ {0}
    BY <2>1, TokenizedFacts
  <2>3. CursorInv'
    BY <1>1, <1>2, <1>6, <2>2 DEF CursorInv, CursorOnToken
  <2>4. ~strayed => Len(got) = 0
    BY <1>1, <1>6, <2>1 DEF TextInv, ParserReadsText, CursorInv, Reading
  <2>5. \A k \in 1..Len(bookmarks) :
          bookmarks[k].list = list => Len(saved[k]) = bookmarks[k].at /\ Len(saved[k]) = 0
    BY <1>1, <1>6, <2>1 DEF TextInv, CursorInv
  <2>6. ~strayed => current = 0
    BY <1>1, <1>6 DEF CursorInv
  <2>7. TextInv'
    BY <1>6, <2>1, <2>4, <2>5, <2>6
    DEF TextInv, TokensPointIntoBuffer, ParserReadsText, Reading, FromText
  <2> QED
    BY <1>4, <2>3, <2>7 DEF Inv
<1> QED
  BY <1>5, <1>6

\* A call that leaves the lexer alone.
LEMMA OnlyCalledKeepsInv ==
    ASSUME Inv, budget' \in 0..Budget,
           UNCHANGED <<buffer, tokens, current, bookmarks, aborted, list, swapped, reread,
                       strayed, got, saved>>
    PROVE  Inv'
<1>1. TypeOK /\ CursorInv /\ TextInv
  BY DEF Inv
<1>2. TypeOK'
  BY <1>1 DEF TypeOK
<1>3. Filled' = Filled /\ Whole' = Whole
  BY DEF Filled, Whole, Tokenized
<1>4. CursorInv'
  BY <1>1, <1>3 DEF CursorInv, CursorOnToken
<1>5. TextInv'
  BY <1>1, <1>3
  DEF TextInv, TokensPointIntoBuffer, ParserReadsText, Reading, FromText
<1> QED
  BY <1>2, <1>4, <1>5 DEF Inv

LEMMA InvNext == Inv /\ [Next]_vars => Inv'
<1> SUFFICES ASSUME Inv, [Next]_vars PROVE Inv'
  OBVIOUS
<1>1. TypeOK /\ CursorInv /\ TextInv /\ buffer \in Buffer
  BY DEF Inv, TypeOK, Buffer
<1>2. \A k \in 1..Len(bookmarks) : bookmarks[k].at \in Nat /\ bookmarks[k].list \in Nat
  BY <1>1, BookmarkTypes
<1>3. Called => budget' \in 0..Budget
  BY <1>1, BoundsAssumption DEF Called, TypeOK
<1>4. \A t \in Texts : Assigned(t) => buffer' \in Buffer
  <2> SUFFICES ASSUME NEW t \in Texts, Assigned(t) PROVE buffer' \in Buffer
    OBVIOUS
  <2>1. buffer.of \in Nat
    BY <1>1 DEF Buffer
  <2>2. buffer' = [text |-> t, of |-> buffer.of + 1, read |-> FALSE]
    BY DEF Assigned
  <2> QED
    BY <2>1, <2>2 DEF Buffer
\* The tokens are cleared.
<1>5. ASSUME InvalidateTokens, buffer' \in Buffer, budget' \in 0..Budget,
             UNCHANGED <<bookmarks, aborted, saved>>
      PROVE  Inv'
  <2>1. /\ tokens' = <<>> /\ current' = 0 /\ got' = <<>> /\ list' = list + 1
        /\ ~swapped' /\ ~reread' /\ ~strayed'
        /\ {swapped', reread', strayed'} \subseteq BOOLEAN
    BY <1>5 DEF InvalidateTokens
  <2>2. TypeOK'
    BY <1>1, <1>5, <2>1 DEF TypeOK, Buffer
  <2>3. \A k \in 1..Len(bookmarks) : bookmarks[k].list <= list /\ bookmarks[k].list # list'
    BY <1>1, <1>2, <2>1, SMTT(30) DEF CursorInv, TypeOK
  <2>4. Len(Filled') \in Nat \ {0}
    <3>1. Filled' = Tokenized(buffer')
      BY <2>1 DEF Filled
    <3> QED
      BY <1>5, <3>1, TokenizedFacts
  <2>5. CursorInv'
    <3>1. \A k \in 1..Len(bookmarks) :
            bookmarks[k].list <= list' /\ bookmarks[k].list # list'
      <4>1. list \in Nat
        BY <1>1 DEF TypeOK
      <4> QED
        BY <1>2, <2>1, <2>3, <4>1
    <3>2. 0 < Len(Filled')
      BY <2>4
    <3> QED
      BY <1>5, <2>1, <3>1, <3>2 DEF CursorInv, CursorOnToken
  <2>6. TextInv'
    BY <1>5, <2>1, <2>3
    DEF TextInv, TokensPointIntoBuffer, ParserReadsText, Reading, FromText
  <2> QED
    BY <2>2, <2>5, <2>6 DEF Inv
<1>6. ASSUME NEW t \in Texts, AssignText(t) PROVE Inv'
  BY <1>3, <1>4, <1>5, <1>6 DEF AssignText
<1>7. CASE Invalidate
  BY <1>1, <1>3, <1>5, <1>7 DEF Invalidate
<1>8. ASSUME NEW t \in Texts, AssignBuffer(t) PROVE Inv'
  <2>1. /\ buffer' \in Buffer /\ budget' \in 0..Budget
        /\ swapped' = (tokens # <<>>)
        /\ UNCHANGED <<tokens, current, bookmarks, aborted, list, reread, strayed,
                       got, saved>>
    BY <1>3, <1>4, <1>8 DEF AssignBuffer
  <2> QED
    BY <2>1, AssignBufferKeepsInv
<1>9. CASE Tokenize
  <2>1. /\ budget' \in 0..Budget
        /\ UNCHANGED <<current, bookmarks, aborted, list, swapped, strayed, got, saved>>
    BY <1>3, <1>9 DEF Tokenize
  <2>2. CASE UNCHANGED <<tokens, buffer, reread>>
    <3>1. TypeOK' /\ CursorInv'
      BY <1>1, <2>1, <2>2 DEF TypeOK, CursorInv, CursorOnToken, Filled, Tokenized
    <3>2. Whole' = Whole
      BY <2>2 DEF Whole, Tokenized
    <3>3. TextInv'
      BY <1>1, <2>1, <2>2, <3>2
      DEF TextInv, TokensPointIntoBuffer, ParserReadsText, Reading, FromText
    <3> QED
      BY <3>1, <3>3 DEF Inv
  <2>3. CASE tokens = <<>> /\ tokens' = tokens \o Tokenized(buffer) /\ ReadBuffer
    <3>1. Fill /\ Stay /\ Filled = Tokenized(buffer)
      BY <2>1, <2>3 DEF Fill, Stay, Filled
    <3>2. Tokenized(buffer) \in Seq(Token)
      BY <1>1, TokenizedFacts
    <3>3. tokens' = Filled
      BY <2>3, <3>1, <3>2, ConcatEmptySeq
    <3>4. aborted' \in BOOLEAN
      BY <1>1, <2>1 DEF TypeOK
    <3> QED
      BY <2>1, <3>1, <3>2, <3>3, <3>4, PeekingFacts
  <2>4. CASE tokens # <<>> /\ tokens' = tokens \o Tokenized(buffer) /\ ReadBuffer
    <3> DEFINE more == Tokenized(buffer)
    <3>1. /\ more \in Seq(Token) /\ Len(more) \in Nat \ {0} /\ more # <<>>
          /\ \A k \in 1..Len(more) : more[k].of = buffer.of
      BY <1>1, TokenizedFacts
    <3>2. tokens \in Seq(Token) /\ Len(tokens) \in Nat
      BY <1>1, LenProperties DEF TypeOK
    <3> HIDE DEF more
    <3>3. /\ tokens' \in Seq(Token)
          /\ Len(tokens') = Len(tokens) + Len(more)
          /\ \A k \in 1..Len(tokens) + Len(more) :
                tokens'[k] = IF k <= Len(tokens) THEN tokens[k] ELSE more[k - Len(tokens)]
      BY <2>4, <3>1, <3>2, ConcatProperties DEF more
    <3>4. /\ buffer' \in Buffer /\ buffer'.of = buffer.of
          /\ buffer'.read /\ reread' = (reread \/ buffer.read)
      BY <1>1, <2>4 DEF ReadBuffer, Buffer
    <3>5. tokens' # <<>> /\ Filled' = tokens' /\ Filled = tokens
      BY <2>4, <3>1, <3>2, <3>3 DEF Filled
    <3>6. reread' \in BOOLEAN
      BY <1>1, <3>4 DEF TypeOK, Buffer
    <3>7. TypeOK'
      BY <1>1, <2>1, <3>3, <3>4, <3>6 DEF TypeOK, Buffer
    <3>8. CursorInv'
      <4>1. Len(Filled') \in Nat \ {0} /\ Len(Filled') >= Len(Filled)
        BY <3>1, <3>2, <3>3, <3>5
      <4>2. ~strayed => current < Len(Filled')
        BY <1>1, <3>1, <3>2, <3>3, <3>5 DEF CursorInv, CursorOnToken, TypeOK
      <4> QED
        BY <2>1, <3>5, <4>1, <4>2, CursorInvKept
    <3>9. ~Reading'
      BY <1>1, <2>1, <2>4, <3>4 DEF Reading, TextInv
    <3>10. TokensPointIntoBuffer'
      <4> SUFFICES ASSUME ~swapped, NEW k \in 1..Len(tokens')
                   PROVE  tokens'[k].of \in {NoText, buffer'.of}
        BY <2>1 DEF TokensPointIntoBuffer
      <4>1. CASE k <= Len(tokens)
        BY <1>1, <3>2, <3>3, <3>4, <4>1 DEF TextInv, TokensPointIntoBuffer
      <4>2. CASE ~(k <= Len(tokens))
        <5>1. k - Len(tokens) \in 1..Len(more) /\ tokens'[k] = more[k - Len(tokens)]
          BY <3>1, <3>2, <3>3, <4>2
        <5> QED
          BY <3>1, <3>4, <5>1
      <4> QED
        BY <4>1, <4>2
    <3>11. TextInv'
      BY <3>4, <3>5, <3>9, <3>10 DEF TextInv, ParserReadsText, Reading
    <3> QED
      BY <3>7, <3>8, <3>11 DEF Inv
  <2> QED
    BY <1>9, <2>2, <2>3, <2>4 DEF Tokenize
<1>10. CASE Rewind
  <2>1. /\ budget' \in 0..Budget /\ current' = 0 /\ got' = <<>> /\ ~strayed'
        /\ strayed' \in BOOLEAN
        /\ UNCHANGED <<buffer, tokens, bookmarks, aborted, list, swapped, reread, saved>>
    BY <1>3, <1>10 DEF Rewind
  <2>2. TypeOK'
    BY <1>1, <2>1 DEF TypeOK
  <2>3. Filled' = Filled /\ Whole' = Whole
    BY <2>1 DEF Filled, Whole, Tokenized
  <2>4. 0 < Len(Filled)
    <3>1. tokens \in Seq(Token)
      BY <1>1 DEF TypeOK
    <3> QED
      BY <1>1, <3>1, TokenizedFacts, EmptySeq, LenProperties DEF Filled
  <2>5. CursorInv'
    BY <1>1, <2>1, <2>3, <2>4 DEF CursorInv, CursorOnToken
  <2>6. TextInv'
    BY <1>1, <2>1, <2>3
    DEF TextInv, TokensPointIntoBuffer, ParserReadsText, Reading, FromText
  <2> QED
    BY <2>2, <2>5, <2>6 DEF Inv
\* The calls that start with peek().
<1>12. ASSUME NEW n \in {0, 1}, Peek(n) PROVE Inv'
  BY <1>3, <1>12, PeekingKeepsInv DEF Peek
<1>13. CASE Lex
  <2>1. Peeking(0, Advance) /\ budget' \in 0..Budget
    BY <1>1, <1>13 DEF Lex, TypeOK
  <2> QED
    BY <2>1, PeekingKeepsInv
<1>14. ASSUME NEW code, Match(code) PROVE Inv'
  <2>1. budget' \in 0..Budget
        /\ Peeking(0, IF Filled[current + 1].code = code THEN Advance ELSE Stay)
    BY <1>3, <1>14 DEF Match
  <2> QED
    BY <2>1, PeekingKeepsInv
<1>15. ASSUME NEW code \in TextCodes, Replace(code) PROVE Inv'
  <2> DEFINE new == [of |-> NoText, code |-> code]
  <2>1. /\ Fill /\ Stay /\ aborted' = Underflow(0) /\ budget' \in 0..Budget
        /\ tokens' = IF Underflow(0) THEN Filled ELSE [Filled EXCEPT ![current + 1] = new]
        /\ UNCHANGED <<bookmarks, list, swapped, strayed, saved>>
    BY <1>3, <1>15 DEF Replace, Stay
  <2>2. aborted' \in BOOLEAN
    BY <2>1 DEF Underflow
  <2>3. new \in Token /\ new.of = NoText
    BY DEF Token, NoText
  <2> HIDE DEF new
  <2>4. Filled \in Seq(Token) /\ Len(Filled) \in Nat
    BY <2>1, FillFacts
  <2>5. /\ tokens' \in Seq(Token) /\ Len(tokens') = Len(Filled)
        /\ \A k \in 1..Len(Filled) : tokens'[k] = Filled[k] \/ tokens'[k].of = NoText
    <3>1. CASE Underflow(0)
      BY <2>1, <2>4, <3>1
    <3>2. CASE ~Underflow(0)
      <4>1. tokens' = [Filled EXCEPT ![current + 1] = new]
        BY <2>1, <3>2
      <4>2. tokens' \in Seq(Token) /\ Len(tokens') = Len(Filled)
        <5>1. current + 1 \in 1..Len(Filled)
          BY <1>1, <2>4, <3>2 DEF Underflow, TypeOK
        <5> QED
          BY <2>3, <2>4, <4>1, <5>1, ExceptSeq
      <4>3. \A k \in 1..Len(Filled) : tokens'[k] = Filled[k] \/ tokens'[k] = new
        BY <2>3, <2>4, <4>1
      <4> QED
        BY <2>3, <4>2, <4>3, Zenon
    <3> QED
      BY <3>1, <3>2
  <2> QED
    BY <2>1, <2>2, <2>5, PeekingFacts
\* The bookmarks.
<1>16. CASE Mark
  <2> DEFINE new == [at |-> current, list |-> IF strayed THEN 0 ELSE list]
             n == Len(bookmarks)
  <2>1. /\ budget' \in 0..Budget /\ n < MaxMarks
        /\ bookmarks' = Append(bookmarks, new) /\ saved' = Append(saved, got)
        /\ UNCHANGED <<buffer, tokens, current, aborted, list, swapped, reread,
                       strayed, got>>
    BY <1>3, <1>16 DEF Mark
  <2>2. /\ current \in Nat /\ list \in Nat \ {0} /\ got \in Seq(Token)
        /\ bookmarks \in Seq(Bookmark) /\ saved \in Seq(Seq(Token))
        /\ Len(saved) = n /\ n \in Nat
    BY <1>1, LenProperties DEF TypeOK, Bookmark
  <2>3. new \in Bookmark /\ new.at = current /\ (new.list = list <=> ~strayed)
        /\ new.list <= list
    BY <2>2 DEF Bookmark
  <2> HIDE DEF new
  <2>4. /\ bookmarks' \in Seq(Bookmark) /\ Len(bookmarks') = n + 1
        /\ \A k \in 1..n : bookmarks'[k] = bookmarks[k]
        /\ bookmarks'[n + 1] = new
    BY <2>1, <2>2, <2>3, AppendProperties
  <2>5. /\ saved' \in Seq(Seq(Token)) /\ Len(saved') = n + 1
        /\ \A k \in 1..n : saved'[k] = saved[k]
        /\ saved'[n + 1] = got
    BY <2>1, <2>2, AppendProperties
  <2>6. TypeOK'
    BY <1>1, <2>1, <2>2, <2>4, <2>5, BoundsAssumption DEF TypeOK, Bookmark
  <2>7. Filled' = Filled /\ Whole' = Whole
    BY <2>1 DEF Filled, Whole, Tokenized
  <2>8. \A k \in 1..n + 1 : k = n + 1 \/ k \in 1..n
    BY <2>2
  <2>9. CursorInv'
    <3>1. \A k \in 1..n + 1 :
            /\ bookmarks'[k].list <= list
            /\ bookmarks'[k].list = list =>
                  /\ bookmarks'[k].at < Len(Filled)
                  /\ tokens = <<>> => bookmarks'[k].at = 0
      BY <1>1, <2>3, <2>4, <2>8 DEF CursorInv, CursorOnToken
    <3> QED
      BY <1>1, <2>1, <2>4, <2>7, <3>1 DEF CursorInv, CursorOnToken
  <2>10. TextInv'
    <3>1. Reading => \A k \in 1..n + 1 :
            bookmarks'[k].list = list =>
                Len(saved'[k]) = bookmarks'[k].at /\ FromText(saved'[k])
      BY <1>1, <2>3, <2>4, <2>5, <2>8 DEF TextInv, ParserReadsText, Reading
    <3>2. /\ TokensPointIntoBuffer' /\ (tokens' = <<>> => Reading')
          /\ (~swapped' /\ tokens' # <<>> => buffer'.read)
      BY <1>1, <2>1 DEF TextInv, TokensPointIntoBuffer, Reading
    <3>3. /\ ParserReadsText'
          /\ (Reading' /\ tokens' # <<>> => Len(tokens') = Len(Whole') /\ FromText(tokens)')
      BY <1>1, <2>1, <2>7 DEF TextInv, ParserReadsText, Reading, FromText
    <3>4. Reading' => \A k \in 1..Len(bookmarks') :
            bookmarks'[k].list = list' =>
                Len(saved'[k]) = bookmarks'[k].at /\ FromText(saved[k])'
      BY <2>1, <2>4, <2>7, <3>1 DEF Reading, FromText
    <3> QED
      BY <3>2, <3>3, <3>4 DEF TextInv
  <2> QED
    BY <2>6, <2>9, <2>10 DEF Inv
<1>17. ASSUME DropMark, bookmarks # <<>>, budget' \in 0..Budget,
              UNCHANGED <<buffer, tokens, aborted, list, swapped, reread>>,
              \/ UNCHANGED <<current, strayed, got>>
              \/ /\ current' = bookmarks[Len(bookmarks)].at
                 /\ strayed' = (bookmarks[Len(bookmarks)].list # list)
                 /\ got' = saved[Len(saved)]
       PROVE  Inv'
  <2> DEFINE n == Len(bookmarks)
  <2>1. /\ bookmarks \in Seq(Bookmark) /\ saved \in Seq(Seq(Token))
        /\ Len(saved) = n /\ n \in Nat \ {0} /\ n <= MaxMarks
    BY <1>1, <1>17, EmptySeq, LenProperties DEF TypeOK, Bookmark
  <2>2. /\ bookmarks' = SubSeq(bookmarks, 1, n - 1)
        /\ saved' = SubSeq(saved, 1, n - 1)
    BY <1>17, <2>1 DEF DropMark
  <2>3. /\ bookmarks' \in Seq(Bookmark) /\ Len(bookmarks') = n - 1
        /\ \A k \in 1..n - 1 : bookmarks'[k] = bookmarks[k]
    BY <2>1, <2>2, LenProperties, SubSeqProperties
  <2>4. /\ saved' \in Seq(Seq(Token)) /\ Len(saved') = n - 1
        /\ \A k \in 1..n - 1 : saved'[k] = saved[k]
    BY <2>1, <2>2, LenProperties, SubSeqProperties
  <2>5. /\ current' \in Nat /\ strayed' \in BOOLEAN /\ got' \in Seq(Token)
    <3>1. /\ bookmarks[n].at \in Nat /\ saved[n] \in Seq(Token)
          /\ (bookmarks[n].list # list) \in BOOLEAN
      BY <1>2, <2>1, LenProperties
    <3>2. current \in Nat /\ strayed \in BOOLEAN /\ got \in Seq(Token)
      BY <1>1 DEF TypeOK
    <3> QED
      BY <1>17, <2>1, <3>1, <3>2, Zenon
  <2>6. TypeOK'
    BY <1>1, <1>17, <2>1, <2>3, <2>4, <2>5, BoundsAssumption DEF TypeOK, Bookmark
  <2>7. Filled' = Filled /\ Whole' = Whole
    BY <1>17 DEF Filled, Whole, Tokenized
  <2>8. /\ ~strayed' => current' < Len(Filled) /\ (tokens = <<>> => current' = 0)
        /\ ~strayed' /\ Reading => Len(got') = current' /\ FromText(got')
    <3>1. n \in 1..n /\ Len(saved) = n
      BY <2>1
    <3>2. CASE UNCHANGED <<current, strayed, got>>
      BY <1>1, <3>2
      DEF CursorInv, CursorOnToken, TextInv, ParserReadsText, Reading, FromText
    <3>3. CASE ~UNCHANGED <<current, strayed, got>>
      BY <1>1, <1>17, <3>1, <3>3 DEF CursorInv, TextInv
    <3> QED
      BY <3>2, <3>3
  <2>9. \A k \in 1..n - 1 : k \in 1..n
    BY <2>1
  <2>10. CursorInv'
    BY <1>1, <1>17, <2>3, <2>7, <2>8, <2>9 DEF CursorInv, CursorOnToken
  <2>11. TextInv'
    <3>1. Reading => \A k \in 1..n - 1 :
            bookmarks'[k].list = list =>
                Len(saved'[k]) = bookmarks'[k].at /\ FromText(saved'[k])
      BY <1>1, <2>3, <2>4, <2>9 DEF TextInv
    <3> QED
      BY <1>1, <1>17, <2>3, <2>7, <2>8, <3>1
      DEF TextInv, TokensPointIntoBuffer, ParserReadsText, Reading, FromText
  <2> QED
    BY <2>6, <2>10, <2>11 DEF Inv
<1>18. CASE DiscardMark \/ RewindToMark
  BY <1>3, <1>17, <1>18 DEF DiscardMark, RewindToMark
<1>19. CASE UNCHANGED vars
  <2>1. UNCHANGED <<buffer, tokens, current, bookmarks, aborted, list, swapped, reread,
                    strayed, got, saved, budget>>
    BY <1>19 DEF vars
  <2>2. budget' \in 0..Budget
    BY <1>1, <2>1 DEF TypeOK
  <2> QED
    BY <2>1, <2>2, OnlyCalledKeepsInv
<1> QED
  BY <1>6, <1>7, <1>8, <1>9, <1>10, <1>12, <1>13, <1>14, <1>15, <1>16, <1>18, <1>19
  DEF Next

-----------------------------------------------------------------------------
(* The theorems.                                                           *)

\* Every variable has its type.
THEOREM TypeCorrect == Spec => []TypeOK
<1>1. Inv => TypeOK
  BY DEF Inv
<1> QED
  BY <1>1, InvInit, InvNext, PTL DEF Spec

\* lex(), match() and replace() never fail their oassert, except after a
\* return to a bookmark that invalidate() left behind.
THEOREM CursorIsOnToken == Spec => []CursorOnToken
<1>1. Inv => CursorOnToken
  BY DEF Inv, CursorInv
<1> QED
  BY <1>1, InvInit, InvNext, PTL DEF Spec

\* A token's value points into the text of the buffer the lexer holds, unless
\* that was replaced under the tokens.
THEOREM TokensStayInBuffer == Spec => []TokensPointIntoBuffer
<1>1. Inv => TokensPointIntoBuffer
  BY DEF Inv, TextInv
<1> QED
  BY <1>1, InvInit, InvNext, PTL DEF Spec

\* A parser passes the tokens of the text one by one, however it looks ahead.
THEOREM ParserPassesTheText == Spec => []ParserReadsText
<1>1. Inv => ParserReadsText
  BY DEF Inv, TextInv
<1> QED
  BY <1>1, InvInit, InvNext, PTL DEF Spec

-----------------------------------------------------------------------------
(* The BasicParser.                                                        *)

\* Where read_file() can be, and what it knows.
Read == [pc : {"none", "check", "open", "stat", "read"}, open : Sources \union {"none"},
         named : BOOLEAN, size : Nat]

\* What is open has been named by the path during the call, and its size was
\* that of a file.
FileInv ==
    /\ file \in Sources
    /\ reading \in Read
    /\ reading # NotReading => file \in moments /\ delivered = {}
    /\ reading.pc \in {"stat", "read"} =>
          reading.open \in moments /\ reading.open \in Files \union {"directory"}
    /\ reading.pc = "read" =>
          /\ reading.open \in Files
          /\ \E g \in Files : reading.size = Len(Bytes[g])
          /\ ~grown => Len(Bytes[reading.open]) <= reading.size
    /\ TextOfOneMoment

\* What the client has passed, and would have passed at each bookmark of this
\* list of tokens, was reported.
ReportInv ==
    /\ ~strayed => Len(got) = current /\ Reported(got)
    /\ \A k \in 1..Len(bookmarks) :
          bookmarks[k].list = list =>
              Len(saved[k]) = bookmarks[k].at /\ Reported(saved[k])

ParserInv == Inv /\ FileInv /\ ReportInv

LEMMA NotReadingFacts == NotReading \in Read /\ NotReading.pc = "none"
BY DEF NotReading, Read

LEMMA ParserInvInit == ParserInit => ParserInv
<1> SUFFICES ASSUME ParserInit PROVE ParserInv
  OBVIOUS
<1>1. Inv
  BY InvInit DEF ParserInit
<1>2. FileInv
  BY NotReadingFacts DEF ParserInit, FileInv, TextOfOneMoment
<1>3. ReportInv
  BY DEF ParserInit, Init, ReportInv, Reported
<1> QED
  BY <1>1, <1>2, <1>3 DEF ParserInv

-----------------------------------------------------------------------------
(* The Lexer.                                                              *)

\* What is read of a file, up to its size or another's, has a text; if that is
\* all there is, it is the text of the file.
LEMMA CutFacts ==
    ASSUME NEW f \in Files, NEW g \in Files, Len(Bytes[g]) <= Len(Bytes[f])
    PROVE  /\ Delivered(SubSeq(Bytes[f], 1, Len(Bytes[g]))) \in Texts
           /\ Len(Bytes[f]) <= Len(Bytes[g]) =>
                 IsTextOf(Delivered(SubSeq(Bytes[f], 1, Len(Bytes[g]))), Bytes[f])
<1> DEFINE bytes == SubSeq(Bytes[f], 1, Len(Bytes[g]))
<1>1. \E u \in Texts : IsTextOf(u, bytes)
  BY CutAssumption
<1>2. Delivered(bytes) \in Texts /\ IsTextOf(Delivered(bytes), bytes)
  <2> HIDE DEF bytes
  <2> QED
    BY <1>1 DEF Delivered
<1>3. ASSUME Len(Bytes[f]) <= Len(Bytes[g]) PROVE bytes = Bytes[f]
  <2>1. Bytes[f] \in Seq(TextCodes \union {Nul}) /\ Bytes[g] \in Seq(TextCodes \union {Nul})
    BY ParserAssumption
  <2>2. Len(Bytes[g]) = Len(Bytes[f])
    BY <1>3, <2>1, LenProperties
  <2>3. SubSeq(Bytes[f], 1, Len(Bytes[f])) = Bytes[f]
    BY <2>1
  <2> QED
    BY <2>2, <2>3
<1> HIDE DEF bytes
<1>4. Len(Bytes[f]) <= Len(Bytes[g]) => IsTextOf(Delivered(bytes), Bytes[f])
  BY <1>2, <1>3
<1> QED
  BY <1>2, <1>4 DEF bytes

LEMMA SizeFacts == \A f \in Files : Len(Bytes[f]) \in Nat
BY ParserAssumption, LenProperties

\* skip() passes tokens of the list, one after the other.
LEMMA SkipFacts ==
    ASSUME Inv, Fill, NEW stop \in current + 1..Len(Filled),
           current' = stop - 1, got' = got \o SubSeq(Filled, current + 1, stop - 1)
    PROVE  /\ current' \in Nat /\ current' < Len(Filled)
           /\ got' \in Seq(Token)
           /\ Len(got') = Len(got) + (stop - 1 - current)
           /\ \A i \in 1..Len(got) : got'[i] = got[i]
           /\ Len(got) = current =>
                 \A i \in current + 1..stop - 1 : got'[i] = Filled[i]
<1>1. /\ current \in Nat /\ got \in Seq(Token) /\ Filled \in Seq(Token)
      /\ Len(Filled) \in Nat /\ Len(got) \in Nat
  BY FillFacts, LenProperties DEF Inv, TypeOK
<1> DEFINE more == SubSeq(Filled, current + 1, stop - 1)
<1>2. /\ more \in Seq(Token) /\ Len(more) = stop - 1 - current
      /\ \A i \in 1..stop - 1 - current : more[i] = Filled[current + i]
  <2>1. current + 1 \in 1..Len(Filled) + 1 /\ stop - 1 \in current..Len(Filled)
    BY <1>1
  <2> QED
    BY <1>1, <2>1, SubSeqProperties
<1> HIDE DEF more
<1>3. /\ got' \in Seq(Token) /\ Len(got') = Len(got) + Len(more)
      /\ \A i \in 1..Len(got) + Len(more) :
            got'[i] = IF i <= Len(got) THEN got[i] ELSE more[i - Len(got)]
  BY <1>1, <1>2, ConcatProperties DEF more
<1>4. ASSUME Len(got) = current, NEW i \in current + 1..stop - 1
      PROVE  got'[i] = Filled[i]
  <2>1. i \in 1..Len(got) + Len(more) /\ ~(i <= Len(got)) /\ i - current \in 1..stop - 1 - current
    BY <1>1, <1>2, <1>4
  <2>2. got'[i] = more[i - current]
    BY <1>3, <1>4, <2>1
  <2>3. current + (i - current) = i
    BY <1>1, <1>4
  <2> QED
    BY <1>2, <2>1, <2>2, <2>3
<1> QED
  BY <1>1, <1>2, <1>3, <1>4

LEMMA SkipKeepsInv ==
    ASSUME Inv, NEW code \in TextCodes, Skip(code), budget' \in 0..Budget
    PROVE  Inv'
<1>1. /\ Fill /\ tokens' = Filled
      /\ UNCHANGED <<bookmarks, list, swapped, strayed, saved>>
  BY DEF Skip
<1>2. Filled \in Seq(Token) /\ Len(Filled) \in Nat
  BY <1>1, FillFacts
<1>3. CASE SkipsForEver(code)
  BY <1>1, <1>2, <1>3, PeekingFacts DEF SkipsForEver
<1>4. ASSUME NEW stop, SkipTo(code, stop) PROVE Inv'
  <2>1. /\ stop \in current + 1..Len(Filled) /\ current' = stop - 1
        /\ got' = got \o SubSeq(Filled, current + 1, stop - 1)
        /\ aborted' \in BOOLEAN
    BY <1>4 DEF SkipTo
  <2>2. /\ current' \in Nat /\ current' < Len(Filled)
        /\ got' \in Seq(Token)
        /\ Len(got') = Len(got) + (stop - 1 - current)
        /\ \A i \in 1..Len(got) : got'[i] = got[i]
        /\ Len(got) = current => \A i \in current + 1..stop - 1 : got'[i] = Filled[i]
    BY <1>1, <2>1, SkipFacts
  <2>3. ASSUME ~strayed, ~swapped, ~reread'
        PROVE  Len(got') = current' /\ FromText(got')
    <3>1. /\ Len(got) = current /\ FromText(got) /\ FromText(Filled)
          /\ current \in Nat
      BY <1>1, <2>3, FillFacts DEF Inv, TypeOK, TextInv, ParserReadsText
    <3>2. Len(got') = current'
      BY <1>2, <2>1, <2>2, <3>1
    <3>3. ASSUME NEW i \in 1..Len(got')
          PROVE  got'[i] = Whole[i] \/ got'[i].of = NoText
      <4>1. CASE i \in 1..Len(got)
        BY <2>2, <3>1, <4>1 DEF FromText
      <4>2. CASE i \notin 1..Len(got)
        <5>1. i \in current + 1..stop - 1 /\ i \in 1..Len(Filled)
          BY <1>2, <2>1, <3>1, <3>2, <3>3, <4>2
        <5> QED
          BY <2>2, <3>1, <5>1 DEF FromText
      <4> QED
        BY <4>1, <4>2
    <3> QED
      BY <3>2, <3>3 DEF FromText
  <2> QED
    BY <1>1, <1>2, <2>1, <2>2, <2>3, MovesKeepInv
<1> QED
  BY <1>3, <1>4 DEF Skip

\* Every call of the parser, and every step of read_file(), keeps the
\* invariant of the Lexer.
LEMMA LexerInvNext == Inv /\ FileInv /\ [ParserNext]_allVars => Inv'
<1> SUFFICES ASSUME Inv, FileInv, [ParserNext]_allVars PROVE Inv'
  OBVIOUS
<1>1. TypeOK /\ budget \in 0..Budget
  BY DEF Inv, TypeOK
<1>2. Called => budget' \in 0..Budget
  BY <1>1, BoundsAssumption DEF Called
<1>3. CASE Direct
  BY <1>3, InvNext DEF Direct
<1>4. CASE AddError \/ ClearErrors \/ ReadStarts
  BY <1>2, <1>4, OnlyCalledKeepsInv DEF AddError, ClearErrors, ReadStarts, lexerVars
<1>5. CASE ParserPeek
  BY <1>2, <1>5, PeekingKeepsInv DEF ParserPeek
<1>6. CASE ParserLex
  BY <1>1, <1>6, PeekingKeepsInv DEF ParserLex
<1>7. ASSUME NEW code, ParserMatch(code) PROVE Inv'
  <2>1. Peeking(0, IF Shown = code /\ code # "EndOfFile" THEN Advance ELSE Stay)
    BY <1>7 DEF ParserMatch
  <2> QED
    BY <1>2, <1>7, <2>1, PeekingKeepsInv DEF ParserMatch
<1>8. ASSUME NEW equal, ParserExpectText(equal) PROVE Inv'
  <2> DEFINE alone == current + 2 >= Len(Filled) \/ Filled[current + 1].of = NoText
             taken == Shown # "EndOfFile" /\ equal /\ alone
  <2>1. Called /\ Peeking(0, IF taken THEN Advance ELSE Stay)
    BY <1>8 DEF ParserExpectText
  <2> HIDE DEF taken
  <2> QED
    BY <1>2, <2>1, PeekingKeepsInv
<1>9. ASSUME NEW code \in TextCodes, ParserReplace(code) PROVE Inv'
  BY <1>9, InvNext DEF ParserReplace, Next
<1>10. ASSUME NEW code \in TextCodes, Skip(code) PROVE Inv'
  BY <1>2, <1>10, SkipKeepsInv DEF Skip
<1>11. ASSUME UNCHANGED vars PROVE Inv'
  BY <1>11, InvNext
<1>12. CASE CheckFile \/ OpenFile \/ StatFile
  BY <1>11, <1>12 DEF CheckFile, OpenFile, StatFile
<1>13. CASE ReadFile
  <2> DEFINE text == Delivered(SubSeq(Bytes[reading.open], 1, reading.size))
  <2>1. CASE UNCHANGED vars
    BY <1>11, <2>1
  <2>2. CASE /\ ~(Len(Bytes[reading.open]) < reading.size)
             /\ Assigned(text) /\ swapped' = (tokens # <<>>)
             /\ UNCHANGED <<tokens, current, bookmarks, aborted, list, reread, strayed,
                            got, saved, budget>>
    <3>1. /\ reading.pc = "read" /\ reading.open \in Files /\ reading.size \in Nat
          /\ \E g \in Files : reading.size = Len(Bytes[g])
      BY <1>13 DEF ReadFile, FileInv, Read
    <3>2. Len(Bytes[reading.open]) \in Nat
      BY <3>1, SizeFacts
    <3>3. text \in Texts
      BY <2>2, <3>1, <3>2, CutFacts
    <3> HIDE DEF text
    <3>4. buffer.of \in Nat
      BY <1>1 DEF TypeOK
    <3>5. buffer' \in Buffer
      BY <2>2, <3>3, <3>4 DEF Assigned, Buffer
    <3> QED
      BY <1>1, <2>2, <3>5, AssignBufferKeepsInv
  <2> QED
    BY <1>13, <2>1, <2>2 DEF ReadFile
<1>14. ASSUME NEW source \in Sources, NEW inPlace \in BOOLEAN, FileChanges(source, inPlace)
       PROVE  Inv'
  BY <1>11, <1>14 DEF FileChanges
<1>15. CASE UNCHANGED allVars
  BY <1>11, <1>15 DEF allVars
<1> QED
  BY <1>3, <1>4, <1>5, <1>6, <1>7, <1>8, <1>9, <1>10, <1>12, <1>13, <1>14, <1>15
  DEF ParserNext, ParserCalls, ReadSteps

-----------------------------------------------------------------------------
(* The file.                                                               *)

LEMMA FileInvNext == FileInv /\ [ParserNext]_allVars => FileInv'
<1> SUFFICES ASSUME FileInv, [ParserNext]_allVars PROVE FileInv'
  OBVIOUS
<1>1. /\ file \in Sources /\ reading \in Read
      /\ reading # NotReading => file \in moments /\ delivered = {}
      /\ Sources \subseteq Files \union {"none", "directory"}
  BY ParserAssumption DEF FileInv
<1>2. ASSUME UNCHANGED readVars PROVE FileInv'
  BY <1>2 DEF FileInv, readVars, TextOfOneMoment
<1>3. CASE ReadStarts
  <2>1. /\ reading' = [NotReading EXCEPT !.pc = "check"] /\ moments' = {file}
        /\ delivered' = {} /\ file' = file
    BY <1>3 DEF ReadStarts
  <2>2. reading' \in Read /\ reading'.pc = "check"
    BY <2>1 DEF NotReading, Read
  <2> QED
    BY <1>1, <2>1, <2>2 DEF FileInv, TextOfOneMoment
<1>4. ASSUME ParserCalls, ~ReadStarts PROVE FileInv'
  <2>1. UNCHANGED readVars
    <3>1. ASSUME NEW others, Report(others) PROVE UNCHANGED readVars
      BY <3>1 DEF Report
    <3>2. CASE Direct \/ ParserPeek \/ ParserLex \/ AddError \/ ClearErrors
      BY <3>1, <3>2 DEF Direct, ParserPeek, ParserLex, AddError, ClearErrors
    <3>3. ASSUME NEW code \in TextCodes \union {"EndOfFile"}, ParserMatch(code)
          PROVE  UNCHANGED readVars
      BY <3>1, <3>3 DEF ParserMatch
    <3>4. ASSUME NEW code \in TextCodes, ParserReplace(code) \/ Skip(code)
          PROVE  UNCHANGED readVars
      BY <3>1, <3>4 DEF ParserReplace, Skip, SkipsForEver, SkipTo
    <3>5. ASSUME NEW equal \in BOOLEAN, ParserExpectText(equal)
          PROVE  UNCHANGED readVars
      BY <3>1, <3>5 DEF ParserExpectText
    <3> QED
      BY <1>4, <3>2, <3>3, <3>4, <3>5 DEF ParserCalls
  <2> QED
    BY <1>2, <2>1
\* A call that returns.
<1>5. ASSUME Fails, UNCHANGED <<file, moments, grown>>,
             grown \/ \A text \in delivered' : \E f \in moments \intersect Files : IsTextOf(text, Bytes[f])
      PROVE  FileInv'
  BY <1>1, <1>5, NotReadingFacts DEF Fails, FileInv, TextOfOneMoment
<1>6. CASE CheckFile \/ OpenFile \/ StatFile
  <2>1. /\ reading.pc \in {"check", "open", "stat"} /\ reading # NotReading
        /\ UNCHANGED <<file, moments, grown, delivered>>
    BY <1>6, NotReadingFacts DEF CheckFile, OpenFile, StatFile
  <2>2. file \in moments /\ delivered = {}
    BY <1>1, <2>1
  <2>3. CASE Fails
    BY <1>5, <2>1, <2>2, <2>3
  <2>4. CASE reading' = [reading EXCEPT !.pc = "open"]
    <3>1. reading' \in Read /\ reading'.pc = "open"
      BY <1>1, <2>4 DEF Read
    <3> QED
      BY <1>1, <2>1, <2>2, <3>1 DEF FileInv, TextOfOneMoment
  <2>5. CASE /\ file # "none"
             /\ reading' = [reading EXCEPT !.pc = "stat", !.open = file, !.named = TRUE]
    <3>1. reading' \in Read /\ reading'.pc = "stat" /\ reading'.open = file
      BY <1>1, <2>5 DEF Read
    <3> QED
      BY <1>1, <2>1, <2>2, <2>5, <3>1 DEF FileInv, TextOfOneMoment
  <2>6. CASE /\ reading.pc = "stat" /\ reading.open # "directory"
             /\ reading' = [reading EXCEPT !.pc = "read", !.size = Len(Bytes[reading.open])]
    <3>1. reading.open \in moments /\ reading.open \in Files
      BY <2>6 DEF FileInv
    <3>2. Len(Bytes[reading.open]) \in Nat
      BY <3>1, SizeFacts
    <3>3. /\ reading' \in Read /\ reading'.pc = "read" /\ reading'.open = reading.open
          /\ reading'.size = Len(Bytes[reading.open])
      BY <1>1, <2>6, <3>2 DEF Read
    <3> QED
      BY <1>1, <2>1, <2>2, <3>1, <3>2, <3>3 DEF FileInv, TextOfOneMoment
  <2> QED
    BY <1>6, <2>3, <2>4, <2>5, <2>6 DEF CheckFile, OpenFile, StatFile, GoesOn
<1>7. CASE ReadFile
  <2> DEFINE text == Delivered(SubSeq(Bytes[reading.open], 1, reading.size))
  <2>1. /\ reading.pc = "read" /\ reading # NotReading /\ Fails
        /\ UNCHANGED <<file, moments, grown>>
    BY <1>7, NotReadingFacts DEF ReadFile
  <2>2. /\ reading.open \in Files /\ reading.open \in moments /\ delivered = {}
        /\ reading.size \in Nat /\ \E g \in Files : reading.size = Len(Bytes[g])
        /\ ~grown => Len(Bytes[reading.open]) <= reading.size
    BY <1>1, <2>1 DEF FileInv, Read
  <2>3. CASE delivered' = delivered
    BY <1>5, <2>1, <2>2, <2>3
  <2>4. CASE ~(Len(Bytes[reading.open]) < reading.size) /\ delivered' = {text}
    <3>1. Len(Bytes[reading.open]) \in Nat
      BY <2>2, SizeFacts
    <3>2. ~grown => IsTextOf(text, Bytes[reading.open])
      BY <2>2, <2>4, <3>1, CutFacts
    <3> HIDE DEF text
    <3> QED
      BY <1>5, <2>1, <2>2, <2>4, <3>2
  <2> QED
    BY <1>7, <2>3, <2>4 DEF ReadFile
<1>8. ASSUME NEW source \in Sources, NEW inPlace \in BOOLEAN, FileChanges(source, inPlace)
      PROVE  FileInv'
  <2> DEFINE isOpen == reading.pc \in {"stat", "read"} /\ reading.named
  <2>1. /\ inPlace => {file, source} \subseteq Files
        /\ file' = source /\ delivered' = delivered
        /\ moments' = moments \union (IF reading = NotReading THEN {} ELSE {source})
        /\ reading' = IF ~isOpen THEN reading
                      ELSE IF inPlace THEN [reading EXCEPT !.open = source]
                      ELSE [reading EXCEPT !.named = FALSE]
        /\ grown' = (grown \/ (isOpen /\ inPlace /\ reading.pc = "read"
                                /\ Len(Bytes[source]) > reading.size))
    BY <1>8 DEF FileChanges
  <2>2. reading # NotReading => source \in moments'
    BY <2>1
  <2>3. TextOfOneMoment'
    BY <2>1 DEF FileInv, TextOfOneMoment
  <2>4. CASE ~isOpen \/ ~inPlace
    <3>1. /\ reading' \in Read /\ reading'.pc = reading.pc /\ reading'.open = reading.open
          /\ reading'.size = reading.size
          /\ reading' # NotReading => reading # NotReading
      BY <1>1, <2>1, <2>4, NotReadingFacts DEF Read
    <3>2. ~grown' => ~grown
      BY <2>1, <2>4
    <3> QED
      BY <1>1, <2>1, <2>2, <2>3, <3>1, <3>2 DEF FileInv
  <2>5. CASE isOpen /\ inPlace
    <3>1. /\ reading' \in Read /\ reading'.pc = reading.pc /\ reading'.open = source
          /\ reading'.size = reading.size /\ source \in Files
          /\ reading # NotReading
      BY <1>1, <2>1, <2>5, NotReadingFacts DEF Read
    <3>2. ~grown' /\ reading.pc = "read" => Len(Bytes[source]) <= reading.size
      <4>1. Len(Bytes[source]) \in Nat /\ reading.size \in Nat
        BY <1>1, <3>1, SizeFacts DEF Read
      <4>2. reading.pc = "read" /\ Len(Bytes[source]) > reading.size => grown'
        BY <2>1, <2>5, Zenon
      <4> QED
        BY <4>1, <4>2
    <3> QED
      BY <1>1, <2>1, <2>2, <2>3, <3>1, <3>2 DEF FileInv
  <2> QED
    BY <2>4, <2>5
<1>9. CASE UNCHANGED allVars
  BY <1>2, <1>9 DEF allVars, parserVars, readVars
<1> QED
  BY <1>3, <1>4, <1>6, <1>7, <1>8, <1>9 DEF ParserNext, ReadSteps

-----------------------------------------------------------------------------
(* The errors.                                                             *)

\* What has been reported stays so, or is excused; the cursor stays or moves
\* over tokens that are reported.
LEMMA ReportInvKept ==
    ASSUME ReportInv,
           errors \union excused \subseteq errors' \union excused',
           UNCHANGED <<bookmarks, saved, list, strayed>>,
           ~strayed => Len(got') = current' /\ Reported(got)'
    PROVE  ReportInv'
<1>1. \A k \in 1..Len(bookmarks) :
         bookmarks[k].list = list =>
             Len(saved[k]) = bookmarks[k].at /\ Reported(saved[k])'
  BY DEF ReportInv, Reported
<1> QED
  BY <1>1 DEF ReportInv

\* A call that starts with peek(0): the token it passes is reported if it could
\* not be read.
LEMMA PeekingKeepsReportInv ==
    ASSUME Inv, ReportInv, NEW n \in {0, 1}, NEW ACTION move, Peeking(n, move),
           move => Stay \/ Advance, n # 0 => (move => Stay),
           errors \union excused \subseteq errors' \union excused',
           Code1 = "Error" /\ ~Stay => Next1 \in errors' \union excused'
    PROVE  ReportInv'
<1>1. /\ Fill
      /\ Stay \/ (~Underflow(0) /\ Advance)
      /\ UNCHANGED <<bookmarks, saved, list, strayed>>
  BY DEF Peeking
<1>2. ~strayed => Len(got) = current /\ Reported(got)
  BY DEF ReportInv
<1>3. CASE Stay
  <2>1. ~strayed => Len(got') = current' /\ Reported(got)'
    BY <1>1, <1>2, <1>3 DEF Stay, Reported
  <2> QED
    BY <1>1, <2>1, ReportInvKept
<1>4. CASE ~Stay
  <2>1. /\ ~Underflow(0) /\ current' = current + 1
        /\ got' = Append(got, Filled[current + 1])
    BY <1>1, <1>4 DEF Advance, Stay
  <2>2. /\ current \in Nat /\ got \in Seq(Token)
        /\ Filled \in Seq(Token) /\ Len(Filled) \in Nat
    <3>1. Filled \in Seq(Token) /\ Len(Filled) \in Nat
      BY <1>1, FillFacts
    <3> QED
      BY <3>1 DEF Inv, TypeOK
  <2>3. Filled[current + 1] \in Token
    BY <2>1, <2>2, LenProperties DEF Underflow
  <2>4. /\ Len(got') = Len(got) + 1 /\ Len(got) \in Nat
        /\ \A i \in 1..Len(got) : got'[i] = got[i]
        /\ got'[Len(got) + 1] = Filled[current + 1]
    BY <2>1, <2>2, <2>3, AppendProperties, LenProperties
  <2>5. Filled[current + 1].code = "Error" => <<list, current + 1>> \in errors' \union excused'
    BY <1>4, <2>1 DEF Code1, Next1
  <2>6. ASSUME ~strayed PROVE Len(got') = current' /\ Reported(got)'
    <3>1. Len(got) = current /\ Reported(got)
      BY <1>2, <2>6
    <3>2. ASSUME NEW i \in 1..Len(got'), got'[i].code = "Error"
          PROVE  <<list, i>> \in errors' \union excused'
      <4>1. i = current + 1 \/ i \in 1..Len(got)
        BY <2>2, <2>4, <3>1, <3>2
      <4> QED
        BY <2>4, <2>5, <3>1, <3>2, <4>1 DEF Reported
    <3>3. Reported(got)'
      BY <1>1, <3>2 DEF Reported
    <3> QED
      BY <2>1, <2>4, <3>1, <3>3
  <2> QED
    BY <1>1, <2>6, ReportInvKept
<1> QED
  BY <1>3, <1>4

\* skip() stops at a token that could not be read, and reports it before it is
\* passed.
LEMMA SkipKeepsReportInv ==
    ASSUME Inv, ReportInv, NEW code \in TextCodes, Skip(code)
    PROVE  ReportInv'
<1>1. /\ Fill /\ code # "Error"
      /\ UNCHANGED <<bookmarks, list, swapped, strayed, saved>>
  BY DEF Skip
<1>2. /\ ~strayed => Len(got) = current /\ Reported(got)
      /\ current \in Nat /\ Len(Filled) \in Nat
  BY <1>1, FillFacts DEF ReportInv, Inv, TypeOK
<1>3. ASSUME NEW others, Report(others)
      PROVE  errors \union excused \subseteq errors' \union excused'
  BY <1>3 DEF Report
<1>4. CASE SkipsForEver(code)
  <2>1. /\ errors \union excused \subseteq errors' \union excused'
        /\ UNCHANGED <<current, got>>
    BY <1>3, <1>4 DEF SkipsForEver, Stay
  <2>2. ~strayed => Len(got') = current' /\ Reported(got)'
    BY <1>1, <1>2, <2>1 DEF Reported
  <2> QED
    BY <1>1, <2>1, <2>2, ReportInvKept
<1>5. ASSUME NEW stop, SkipTo(code, stop) PROVE ReportInv'
  <2>1. /\ stop \in current + 1..Len(Filled) /\ current' = stop - 1
        /\ got' = got \o SubSeq(Filled, current + 1, stop - 1)
        /\ \A i \in current + 1..stop - 1 : Filled[i].code = code
        /\ errors \union excused \subseteq errors' \union excused'
    BY <1>3, <1>5 DEF SkipTo
  <2>2. /\ Len(got') = Len(got) + (stop - 1 - current)
        /\ \A i \in 1..Len(got) : got'[i] = got[i]
        /\ Len(got) = current => \A i \in current + 1..stop - 1 : got'[i] = Filled[i]
    BY <1>1, <2>1, SkipFacts
  <2>3. ASSUME ~strayed PROVE Len(got') = current' /\ Reported(got)'
    <3>1. Len(got) = current /\ Reported(got)
      BY <1>2, <2>3
    <3>2. Len(got') = current'
      BY <1>2, <2>1, <2>2, <3>1
    <3>3. ASSUME NEW i \in 1..Len(got'), got'[i].code = "Error"
          PROVE  <<list, i>> \in errors' \union excused'
      <4>1. i \in current + 1..stop - 1 \/ i \in 1..Len(got)
        BY <1>2, <2>1, <3>1, <3>2, <3>3
      <4> QED
        BY <1>1, <2>1, <2>2, <3>1, <3>3, <4>1 DEF Reported
    <3>4. Reported(got)'
      BY <1>1, <3>3 DEF Reported
    <3> QED
      BY <3>2, <3>4
  <2> QED
    BY <1>1, <2>1, <2>3, ReportInvKept
<1> QED
  BY <1>4, <1>5 DEF Skip

\* The calls that are passed on to the Lexer, or made to it directly.
LEMMA DirectKeepsReportInv ==
    ASSUME Inv, ReportInv, Direct
    PROVE  ReportInv'
<1>1. /\ Next /\ errors' = errors
      /\ excused' = excused \union
           (IF bookmarks' = bookmarks /\ Len(got') > Len(got) THEN {Next1} ELSE {})
  BY DEF Direct
<1>2. errors \union excused \subseteq errors' \union excused'
  BY <1>1
<1>3. /\ ~strayed => Len(got) = current /\ Reported(got)
      /\ TypeOK /\ CursorInv
  BY DEF ReportInv, Inv
<1>4. ASSUME UNCHANGED <<bookmarks, saved, list, strayed, current, got>>
      PROVE  ReportInv'
  <2>1. ~strayed => Len(got') = current' /\ Reported(got)'
    BY <1>2, <1>3, <1>4 DEF Reported
  <2> QED
    BY <1>2, <1>4, <2>1, ReportInvKept
<1>5. ASSUME InvalidateTokens, UNCHANGED <<bookmarks, saved>> PROVE ReportInv'
  <2>1. list' = list + 1 /\ got' = <<>> /\ current' = 0
    BY <1>5 DEF InvalidateTokens
  <2>2. list \in Nat
    BY <1>3 DEF TypeOK
  <2>3. \A k \in 1..Len(bookmarks) : bookmarks[k].list # list'
    <3>1. \A k \in 1..Len(bookmarks) : bookmarks[k].list <= list /\ bookmarks[k].list \in Nat
      BY <1>3, BookmarkTypes DEF CursorInv
    <3> QED
      BY <2>1, <2>2, <3>1
  <2> QED
    BY <1>5, <2>1, <2>3 DEF ReportInv, Reported
<1>6. ASSUME NEW n \in {0, 1}, NEW ACTION move, Peeking(n, move), move => Stay \/ Advance,
             n # 0 => (move => Stay)
      PROVE  ReportInv'
  <2>1. ASSUME ~Stay PROVE Next1 \in excused'
    <3>1. /\ bookmarks' = bookmarks /\ Fill /\ ~Underflow(0) /\ Advance
      BY <1>6, <2>1 DEF Peeking
    <3>2. got' = Append(got, Filled[current + 1])
      BY <2>1, <3>1 DEF Advance, Stay
    <3>3. got \in Seq(Token) /\ current \in Nat
      BY <1>3 DEF TypeOK
    <3>4. Filled \in Seq(Token) /\ Len(Filled) \in Nat
      BY <3>1, FillFacts
    <3>5. Filled[current + 1] \in Token
      BY <3>1, <3>3, <3>4, LenProperties DEF Underflow
    <3>6. Len(got') = Len(got) + 1 /\ Len(got) \in Nat
      BY <3>2, <3>3, <3>5, AppendProperties, LenProperties
    <3> QED
      BY <1>1, <3>1, <3>6
  <2> QED
    BY <1>2, <1>6, <2>1, PeekingKeepsReportInv
<1>7. ASSUME NEW t \in Texts, AssignText(t) \/ AssignBuffer(t) PROVE ReportInv'
  BY <1>4, <1>5, <1>7 DEF AssignText, AssignBuffer
<1>8. CASE Tokenize \/ Invalidate
  BY <1>4, <1>5, <1>8 DEF Tokenize, Invalidate
<1>9. ASSUME NEW code \in TextCodes, Replace(code) PROVE ReportInv'
  BY <1>4, <1>9 DEF Replace
<1>10. CASE Rewind
  <2>1. /\ current' = 0 /\ got' = <<>>
        /\ UNCHANGED <<bookmarks, saved, list>>
    BY <1>10 DEF Rewind
  <2>2. \A k \in 1..Len(bookmarks) :
           bookmarks[k].list = list =>
               Len(saved[k]) = bookmarks[k].at /\ Reported(saved[k])'
    BY <1>2, <2>1 DEF ReportInv, Reported
  <2> QED
    BY <2>1, <2>2 DEF ReportInv, Reported
<1>11. CASE Lex
  BY <1>6, <1>11 DEF Lex
<1>12. ASSUME NEW n \in {0, 1}, Peek(n) PROVE ReportInv'
  BY <1>6, <1>12 DEF Peek
<1>13. ASSUME NEW code, Match(code) PROVE ReportInv'
  <2>1. Peeking(0, IF Filled[current + 1].code = code THEN Advance ELSE Stay)
    BY <1>13 DEF Match
  <2> QED
    BY <1>6, <2>1
<1>14. CASE Mark
  <2> DEFINE new == [at |-> current, list |-> IF strayed THEN 0 ELSE list]
             n == Len(bookmarks)
  <2>1. /\ bookmarks' = Append(bookmarks, new) /\ saved' = Append(saved, got)
        /\ UNCHANGED <<current, list, strayed, got>>
    BY <1>14 DEF Mark
  <2>2. /\ current \in Nat /\ list \in Nat \ {0} /\ got \in Seq(Token)
        /\ bookmarks \in Seq(Bookmark) /\ saved \in Seq(Seq(Token))
        /\ Len(saved) = n /\ n \in Nat
    BY <1>3, LenProperties DEF TypeOK, Bookmark
  <2>3. new \in Bookmark /\ new.at = current /\ (new.list = list <=> ~strayed)
    BY <2>2 DEF Bookmark
  <2> HIDE DEF new
  <2>4. /\ Len(bookmarks') = n + 1 /\ bookmarks'[n + 1] = new
        /\ \A k \in 1..n : bookmarks'[k] = bookmarks[k]
        /\ saved'[n + 1] = got /\ \A k \in 1..n : saved'[k] = saved[k]
    BY <2>1, <2>2, <2>3, AppendProperties
  <2>5. ASSUME NEW k \in 1..n + 1, bookmarks'[k].list = list
        PROVE  Len(saved'[k]) = bookmarks'[k].at /\ Reported(saved[k])'
    <3>1. CASE k = n + 1
      BY <1>2, <1>3, <2>1, <2>3, <2>4, <2>5, <3>1 DEF Reported
    <3>2. CASE k \in 1..n
      BY <1>2, <2>1, <2>4, <2>5, <3>2 DEF ReportInv, Reported
    <3> QED
      BY <2>2, <3>1, <3>2
  <2>6. ~strayed' => Len(got') = current' /\ Reported(got)'
    BY <1>2, <1>3, <2>1 DEF Reported
  <2> QED
    BY <2>1, <2>4, <2>5, <2>6 DEF ReportInv
<1>15. CASE DiscardMark \/ RewindToMark
  <2> DEFINE n == Len(bookmarks)
  <2>1. /\ bookmarks # <<>> /\ DropMark /\ list' = list
        /\ \/ UNCHANGED <<current, strayed, got>>
           \/ /\ current' = bookmarks[n].at
              /\ strayed' = (bookmarks[n].list # list)
              /\ got' = saved[n]
    <3>1. Len(saved) = Len(bookmarks)
      BY <1>3 DEF TypeOK
    <3> QED
      BY <1>15, <3>1 DEF DiscardMark, RewindToMark
  <2>2. /\ bookmarks \in Seq(Bookmark) /\ saved \in Seq(Seq(Token))
        /\ Len(saved) = n /\ n \in Nat \ {0}
    BY <1>3, <2>1, EmptySeq, LenProperties DEF TypeOK, Bookmark
  <2>3. bookmarks' = SubSeq(bookmarks, 1, n - 1) /\ saved' = SubSeq(saved, 1, n - 1)
    BY <2>1, <2>2 DEF DropMark
  <2>4. /\ Len(bookmarks') = n - 1
        /\ \A k \in 1..n - 1 : bookmarks'[k] = bookmarks[k] /\ saved'[k] = saved[k]
    BY <2>2, <2>3, LenProperties, SubSeqProperties
  <2>5. \A k \in 1..n : bookmarks[k].list = list =>
           Len(saved[k]) = bookmarks[k].at /\ Reported(saved[k])
    BY DEF ReportInv
  <2>6. ASSUME NEW k \in 1..n - 1, bookmarks'[k].list = list'
        PROVE  Len(saved'[k]) = bookmarks'[k].at /\ Reported(saved[k])'
    <3>1. k \in 1..n
      BY <2>2
    <3> QED
      BY <1>2, <2>1, <2>4, <2>5, <2>6, <3>1 DEF Reported
  <2>7. ~strayed' => Len(got') = current' /\ Reported(got)'
    <3>1. n \in 1..n
      BY <2>2
    <3>2. CASE UNCHANGED <<current, strayed, got>>
      BY <1>2, <1>3, <2>1, <3>2 DEF Reported
    <3>3. CASE ~UNCHANGED <<current, strayed, got>>
      BY <1>2, <2>1, <2>5, <3>1, <3>3 DEF Reported
    <3> QED
      BY <3>2, <3>3
  <2> QED
    BY <2>4, <2>6, <2>7 DEF ReportInv
<1> QED
  BY <1>1, <1>7, <1>8, <1>9, <1>10, <1>11, <1>12, <1>13, <1>14, <1>15 DEF Next

LEMMA ReportInvNext == Inv /\ ReportInv /\ [ParserNext]_allVars => ReportInv'
<1> SUFFICES ASSUME Inv, ReportInv, [ParserNext]_allVars PROVE ReportInv'
  OBVIOUS
<1>1. ASSUME UNCHANGED <<bookmarks, saved, list, strayed, current, got>>,
             errors \union excused \subseteq errors' \union excused'
      PROVE  ReportInv'
  <2>1. ~strayed => Len(got') = current' /\ Reported(got)'
    BY <1>1 DEF ReportInv, Reported
  <2> QED
    BY <1>1, <2>1, ReportInvKept
<1>2. ASSUME NEW others, Report(others)
      PROVE  /\ errors \union excused \subseteq errors' \union excused'
             /\ Code1 = "Error" => Next1 \in errors' \union excused'
  BY <1>2 DEF Report
<1>3. CASE AddError \/ ClearErrors \/ ReadStarts
  BY <1>1, <1>3 DEF AddError, ClearErrors, ReadStarts, lexerVars
<1>4. CASE ParserPeek \/ ParserLex
  BY <1>2, <1>4, PeekingKeepsReportInv DEF ParserPeek, ParserLex
<1>5. ASSUME NEW code, ParserMatch(code) PROVE ReportInv'
  <2>1. /\ Peeking(0, IF Shown = code /\ code # "EndOfFile" THEN Advance ELSE Stay)
        /\ Report(IF Shown \in {code, "EndOfFile"} THEN {} ELSE {OtherError})
    BY <1>5 DEF ParserMatch
  <2> QED
    BY <1>2, <2>1, PeekingKeepsReportInv
<1>6. ASSUME NEW equal, ParserExpectText(equal) PROVE ReportInv'
  <2> DEFINE alone == current + 2 >= Len(Filled) \/ Filled[current + 1].of = NoText
             taken == Shown # "EndOfFile" /\ equal /\ alone
  <2>1. /\ Peeking(0, IF taken THEN Advance ELSE Stay)
        /\ Report(IF taken \/ Shown = "EndOfFile" THEN {} ELSE {OtherError})
    BY <1>6 DEF ParserExpectText
  <2> HIDE DEF taken
  <2> QED
    BY <1>2, <2>1, PeekingKeepsReportInv
<1>7. ASSUME NEW code \in TextCodes, ParserReplace(code) PROVE ReportInv'
  BY <1>1, <1>7 DEF ParserReplace, Replace
<1>8. ASSUME NEW code \in TextCodes, Skip(code) PROVE ReportInv'
  BY <1>8, SkipKeepsReportInv
<1>9. CASE ReadSteps
  BY <1>1, <1>9 DEF ReadSteps, CheckFile, OpenFile, StatFile, ReadFile, vars
<1>10. ASSUME NEW source \in Sources, NEW inPlace \in BOOLEAN, FileChanges(source, inPlace)
       PROVE  ReportInv'
  BY <1>1, <1>10 DEF FileChanges, vars
<1>11. CASE UNCHANGED allVars
  BY <1>1, <1>11 DEF allVars, vars, parserVars
<1> QED
  BY <1>3, <1>4, <1>5, <1>6, <1>7, <1>8, <1>9, <1>10, <1>11, DirectKeepsReportInv
  DEF ParserNext, ParserCalls

-----------------------------------------------------------------------------
(* The theorems.                                                           *)

LEMMA ParserInvariant == ParserSpec => []ParserInv
<1>1. ParserInv /\ [ParserNext]_allVars => ParserInv'
  BY LexerInvNext, FileInvNext, ReportInvNext DEF ParserInv
<1> QED
  BY <1>1, ParserInvInit, PTL DEF ParserSpec

\* A token that could not be read is never passed without an error in
\* m_errors, on any way a parser or a bookmark can take past it.
THEOREM ErrorsAreNotPassedOver == ParserSpec => []ErrorTokensAreReported
<1>1. ParserInv => ErrorTokensAreReported
  BY DEF ParserInv, ReportInv, ErrorTokensAreReported
<1> QED
  BY <1>1, ParserInvariant, PTL

\* read_file() delivers all, or all up to the first NUL, of what the path named
\* at one moment of the call, for any files and any way they are changed,
\* unless more was written into the open file between fstat() and read().
THEOREM FileIsOfOneMoment == ParserSpec => []TextOfOneMoment
<1>1. ParserInv => TextOfOneMoment
  BY DEF ParserInv, FileInv
<1> QED
  BY <1>1, ParserInvariant, PTL

\* Under all that a parser does, read_file() and skip() included, the Lexer in
\* it keeps its types, its cursor on a token and its tokens in its buffer.
THEOREM LexerIsKept ==
    ParserSpec => [](TypeOK /\ CursorOnToken /\ TokensPointIntoBuffer /\ ParserReadsText)
<1>1. ParserInv => TypeOK /\ CursorOnToken /\ TokensPointIntoBuffer /\ ParserReadsText
  BY DEF ParserInv, Inv, CursorInv, TextInv
<1> QED
  BY <1>1, ParserInvariant, PTL
=============================================================================
