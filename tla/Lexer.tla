------------------------------- MODULE Lexer -------------------------------
(***************************************************************************)
(* lexer/Lexer.{h,cpp}: a cursor with bookmarks on the tokens of a text.   *)
(* The text is tokenized when the first token is asked for.  The client, a *)
(* parser, makes any sequence of calls.                                    *)
(*                                                                         *)
(* What tokenizing a text gives is the parameter Codes (Tokenizer models   *)
(* how).  A token carries the number of the text its value points into.    *)
(***************************************************************************)
EXTENDS Integers, Sequences

CONSTANTS
    Texts,          \* the texts a client assigns
    TextCodes,      \* the codes of the tokens in a text
    Codes,          \* the codes of each text's tokens, without the last one
    MaxTexts,       \* bound: texts assigned
    MaxMarks,       \* bound: bookmarks at one time
    MaxTokens,      \* bound: m_tokens when tokenize() is called
    Budget          \* bound: the client's calls other than lex()

ASSUME TextsAssumption ==
    /\ "EndOfFile" \notin TextCodes
    /\ \A t \in Texts : Codes[t] \in Seq(TextCodes)

ASSUME BoundsAssumption ==
    MaxTexts \in Nat /\ MaxMarks \in Nat /\ MaxTokens \in Nat /\ Budget \in Nat

VARIABLES
    buffer,     \* m_buffer: its text, the number of the assignment, and
                \* whether a Tokenizer has run through it
    tokens,     \* m_tokens
    current,    \* m_current
    bookmarks,  \* m_bookmarks, and the token list each is for
    aborted,    \* an oassert failed
    list,       \* history: how often m_tokens was cleared
    swapped,    \* history: m_buffer was replaced under the tokens
    reread,     \* history: tokens were made of a buffer that was already read
    strayed,    \* history: the cursor is at a bookmark of another token list
    got,        \* history: the tokens the client has passed
    saved,      \* history: got when each bookmark was set
    budget      \* the calls the client may still make

vars == <<buffer, tokens, current, bookmarks, aborted, list, swapped, reread,
          strayed, got, saved, budget>>

\* The text of a token that replace() put in.
NoText == 0

\* What a Tokenizer makes of a buffer.  Of one that it has read there is only
\* the end left.
Tokenized(b) ==
    LET codes == IF b.read THEN <<>> ELSE Codes[b.text]
    IN  [i \in 1..Len(codes) + 1 |->
            [of |-> b.of, code |-> IF i <= Len(codes) THEN codes[i] ELSE "EndOfFile"]]

Init ==
    /\ buffer \in [text : Texts, of : {1}, read : {FALSE}]
    /\ tokens = <<>>
    /\ current = 0
    /\ bookmarks = <<>>
    /\ aborted = FALSE
    /\ list = 1
    /\ swapped = FALSE
    /\ reread = FALSE
    /\ strayed = FALSE
    /\ got = <<>>
    /\ saved = <<>>
    /\ budget = Budget

-----------------------------------------------------------------------------
(* The parts of the calls.                                                 *)

\* Every call but lex() is counted, and none follows an abort.
Called == ~aborted /\ budget > 0 /\ budget' = budget - 1

Assigned(t) ==
    /\ buffer.of < MaxTexts
    /\ buffer' = [text |-> t, of |-> buffer.of + 1, read |-> FALSE]

\* Mutant: the cursor goes back, the tokens stay.
InvalidateCursorOnly ==
    /\ current' = 0
    /\ got' = <<>>
    /\ strayed' = FALSE
    /\ UNCHANGED <<tokens, list, swapped, reread>>

\* Mutant: the cursor stays.
InvalidateTokensOnly ==
    /\ tokens' = <<>>
    /\ list' = list + 1
    /\ got' = <<>>
    /\ swapped' = FALSE
    /\ reread' = FALSE
    /\ UNCHANGED <<current, strayed>>

\* invalidate(); the bookmarks stay.
InvalidateTokens ==
    /\ tokens' = <<>>
    /\ current' = 0
    /\ list' = list + 1
    /\ got' = <<>>
    /\ swapped' = FALSE
    /\ reread' = FALSE
    /\ strayed' = FALSE

\* A Tokenizer runs through m_buffer.
ReadBuffer ==
    /\ buffer' = [buffer EXCEPT !.read = TRUE]
    /\ reread' = (reread \/ buffer.read)

\* What peek() has tokenized if it had to.
Filled == IF tokens = <<>> THEN Tokenized(buffer) ELSE tokens

Fill == IF tokens = <<>> THEN ReadBuffer ELSE UNCHANGED <<buffer, reread>>

\* The oassert in peek(n).
Underflow(n) == current + n >= Len(Filled)

\* Mutant: the cursor leaves the last token as well.
AdvanceAlways ==
    current' = current + 1 /\ got' = Append(got, Filled[current + 1])

\* Mutant: the last token is not reached.
AdvanceTooShort ==
    IF current + 1 < Len(Filled) - 1
    THEN current' = current + 1 /\ got' = Append(got, Filled[current + 1])
    ELSE UNCHANGED <<current, got>>

\* lex(), once peek(0) has returned: the cursor stays on the last token.
Advance ==
    IF current < Len(Filled) - 1
    THEN current' = current + 1 /\ got' = Append(got, Filled[current + 1])
    ELSE UNCHANGED <<current, got>>

Stay == UNCHANGED <<current, got>>

-----------------------------------------------------------------------------
(* The calls.                                                              *)

\* assign(char const*) and assign(std::string): the StringBuffer gets another
\* text, and the tokens are invalidated.
AssignText(t) ==
    /\ Called
    /\ Assigned(t)
    /\ InvalidateTokens
    /\ UNCHANGED <<bookmarks, aborted, saved>>

\* assign() of a StringBuffer, a shared_ptr to one or a string_view: another
\* StringBuffer, and nothing else.
AssignBuffer(t) ==
    /\ Called
    /\ Assigned(t)
    /\ swapped' = (tokens # <<>>)
    /\ UNCHANGED <<tokens, current, bookmarks, aborted, list, reread, strayed,
                   got, saved>>

\* tokenize() without a text: Tokenizer::tokenize(m_tokens) adds tokens unless
\* the last one is the end of the file.
Tokenize ==
    /\ Called
    /\ Len(tokens) <= MaxTokens
    /\ IF tokens # <<>> /\ tokens[Len(tokens)].code = "EndOfFile"
       THEN UNCHANGED <<tokens, buffer, reread>>
       ELSE tokens' = tokens \o Tokenized(buffer) /\ ReadBuffer
    /\ UNCHANGED <<current, bookmarks, aborted, list, swapped, strayed, got, saved>>

Invalidate ==
    /\ Called
    /\ InvalidateTokens
    /\ UNCHANGED <<buffer, bookmarks, aborted, saved>>

Rewind ==
    /\ Called
    /\ current' = 0
    /\ got' = <<>>
    /\ strayed' = FALSE
    /\ UNCHANGED <<buffer, tokens, bookmarks, aborted, list, swapped, reread, saved>>

\* A call that starts with peek(n): it aborts, or moves the cursor.
Peeking(n, move) ==
    /\ Fill
    /\ tokens' = Filled
    /\ aborted' = Underflow(n)
    /\ IF Underflow(n) THEN Stay ELSE move
    /\ UNCHANGED <<bookmarks, list, swapped, strayed, saved>>

Peek(n) == Called /\ Peeking(n, Stay)

Lex ==
    /\ ~aborted
    /\ Peeking(0, Advance)
    /\ UNCHANGED budget

\* match() and expect(): lex() if the next token has the code.
Match(code) ==
    /\ Called
    /\ Peeking(0, IF Filled[current + 1].code = code THEN Advance ELSE Stay)

\* replace(): the client's token takes the place of the next one.
Replace(code) ==
    /\ Called
    /\ Fill
    /\ aborted' = Underflow(0)
    /\ tokens' = IF Underflow(0) THEN Filled
                 ELSE [Filled EXCEPT ![current + 1] = [of |-> NoText, code |-> code]]
    /\ UNCHANGED <<current, bookmarks, list, swapped, strayed, got, saved>>

\* A bookmark set where the cursor has strayed is for no list (0).
Mark ==
    /\ Called
    /\ Len(bookmarks) < MaxMarks
    /\ bookmarks' = Append(bookmarks, [at |-> current, list |-> IF strayed THEN 0 ELSE list])
    /\ saved' = Append(saved, got)
    /\ UNCHANGED <<buffer, tokens, current, aborted, list, swapped, reread,
                   strayed, got>>

\* The last bookmark goes.  Without one the code is undefined, and a client
\* has to have set it.
DropMark ==
    /\ bookmarks' = SubSeq(bookmarks, 1, Len(bookmarks) - 1)
    /\ saved' = SubSeq(saved, 1, Len(saved) - 1)

DiscardMark ==
    /\ Called
    /\ bookmarks # <<>>
    /\ DropMark
    /\ UNCHANGED <<buffer, tokens, current, aborted, list, swapped, reread,
                   strayed, got>>

\* Mutant: the bookmark stays.
RewindToMarkKeepsIt ==
    /\ Called
    /\ bookmarks # <<>> /\ saved # <<>>
    /\ current' = bookmarks[Len(bookmarks)].at
    /\ strayed' = (bookmarks[Len(bookmarks)].list # list)
    /\ got' = saved[Len(saved)]
    /\ saved' = SubSeq(saved, 1, Len(saved) - 1)
    /\ UNCHANGED <<buffer, tokens, bookmarks, aborted, list, swapped, reread>>

RewindToMark ==
    /\ Called
    /\ bookmarks # <<>>
    /\ current' = bookmarks[Len(bookmarks)].at
    /\ strayed' = (bookmarks[Len(bookmarks)].list # list)
    /\ got' = saved[Len(saved)]
    /\ DropMark
    /\ UNCHANGED <<buffer, tokens, aborted, list, swapped, reread>>

-----------------------------------------------------------------------------
Next ==
    \/ \E t \in Texts : AssignText(t) \/ AssignBuffer(t)
    \/ Tokenize \/ Invalidate \/ Rewind \/ Lex
    \/ \E n \in {0, 1} : Peek(n)
    \/ \E code \in TextCodes \union {"EndOfFile"} : Match(code)
    \/ \E code \in TextCodes : Replace(code)
    \/ Mark \/ DiscardMark \/ RewindToMark

Spec == Init /\ [][Next]_vars

\* A parser that goes on asking for tokens.
FairSpec == Spec /\ WF_vars(Lex)

-----------------------------------------------------------------------------
(* Properties.                                                             *)

Token == [of : Nat, code : TextCodes \union {"EndOfFile"}]

TypeOK ==
    /\ buffer \in [text : Texts, of : Nat \ {0}, read : BOOLEAN]
    /\ tokens \in Seq(Token)
    /\ current \in Nat
    /\ bookmarks \in Seq([at : Nat, list : Nat]) /\ Len(bookmarks) <= MaxMarks
    /\ saved \in Seq(Seq(Token)) /\ Len(saved) = Len(bookmarks)
    /\ got \in Seq(Token)
    /\ list \in Nat \ {0}
    /\ {aborted, swapped, reread, strayed} \subseteq BOOLEAN
    /\ budget \in 0..Budget

\* The cursor is on a token, so that the oassert in lex(), match() and
\* replace() never fails, also when the tokens are made only later.  It can
\* fail after rewind_to_mark() to a bookmark that invalidate() left behind.
CursorOnToken == ~strayed => current < Len(Filled)

\* The tokens' values point into the text of m_buffer, unless assign() took
\* the buffer away from under the tokens.
TokensPointIntoBuffer ==
    ~swapped => \A k \in 1..Len(tokens) : tokens[k].of \in {NoText, buffer.of}

\* The tokens of the text, as one that has not been read yet gives them.
Whole == Tokenized([buffer EXCEPT !.read = FALSE])

\* These are the first tokens of the text, or tokens put in for them.
FromText(toks) ==
    \A i \in 1..Len(toks) : toks[i] = Whole[i] \/ toks[i].of = NoText

\* A parser that looks ahead with bookmarks passes the tokens of the text one
\* by one, none twice or left out, up to the tokens it has put in itself.
ParserReadsText ==
    ~strayed /\ ~swapped /\ ~reread => Len(got) = current /\ FromText(got)

\* A parser that goes on comes to the last token, wherever it has looked ahead
\* or gone back to.
EndIsReached == []<>(aborted \/ strayed \/ current = Len(Filled) - 1)
=============================================================================
