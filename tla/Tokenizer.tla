----------------------------- MODULE Tokenizer -----------------------------
(***************************************************************************)
(* lexer/Tokenizer.cpp: tokenize() calls match_token() until the last      *)
(* token is the end of the file.  match_token() offers the text to the     *)
(* locked scanner if there is one, otherwise to each scanner in the order  *)
(* of priority and name until one accepts or skips, and otherwise takes    *)
(* one character itself.                                                   *)
(*                                                                         *)
(* The scanners are clients of TokenBuffer: any sequence of its calls that *)
(* a Scanner::match() may make, several tokens in one match included, as   *)
(* long as it respects what the scanners under src/lexer do:               *)
(*   - after an empty token before a positive character (the empty line    *)
(*     of a comment) it takes that character and accepts or skips it;      *)
(*   - partial_rewind() only while the token string is as long as the text *)
(*     it stands for, see RewindIsAligned: NumberScanner does not after    *)
(*     leading zeroes;                                                     *)
(*   - a match() ends after finitely many calls.                           *)
(***************************************************************************)
EXTENDS TokenBuffer

CONSTANTS
    Scanners,       \* the number of scanners
    MaxCalls,       \* bound: edits of its token in one match()
    MaxTokens       \* bound: no empty token after so many tokens

ASSUME ScannersAssumption ==
    Scanners \in Nat /\ MaxCalls \in Nat /\ MaxTokens \in Nat

VARIABLES
    pc,             \* where match_token() is
    current,        \* m_current_scanner, a place in the order of m_scanners
    locked,         \* m_locked_scanner, None if there is none
    calls,          \* the edits this match() may still make
    roundMark       \* history: the mark when match_token() was called

driverVars == <<pc, current, locked, calls, roundMark>>
vars == <<bufferVars, driverVars>>

None == 0

DriverInit ==
    /\ pc = "round"
    /\ current = None
    /\ locked = None
    /\ calls = 0
    /\ roundMark = 0

TokenizerInit == Init /\ DriverInit

-----------------------------------------------------------------------------
(* match_token()                                                           *)

\* rewind() and the scanner's match().
Offer(scanner, place) ==
    /\ RewindTo("Init")
    /\ current' = scanner
    /\ calls' = MaxCalls
    /\ pc' = place

\* The next scanner in the order, or none: then rewind() alone.
OfferAfter(scanner) ==
    IF scanner < Scanners THEN Offer(scanner + 1, "match")
    ELSE /\ RewindTo("Init")
         /\ pc' = "catchall"
         /\ UNCHANGED <<current, calls>>

\* match_token() is called: for the locked scanner, or for all of them.
StartRound ==
    /\ pc = "round"
    /\ roundMark' = mark
    /\ IF locked # None THEN Offer(locked, "lockedMatch") ELSE OfferAfter(None)
    /\ UNCHANGED locked

Matching == pc \in {"match", "lockedMatch"}

\* The match made an empty token before a character that it has to take.
Owing ==
    /\ state = "Success" /\ mark = roundMark
    /\ mark < Len(text) /\ IsPositive(text[mark + 1])

\* Mutant: the text no scanner takes is left alone.
MatchEndsNoCatchAll ==
    /\ Matching
    /\ \/ /\ \/ state = "Success"
             \/ state = "Init" /\ pc = "match" /\ current = Scanners
          /\ pc' = "eof"
          /\ UNCHANGED <<bufferVars, current, calls>>
       \/ /\ state = "Init" /\ pc = "lockedMatch"
          /\ pc' = "failed"
          /\ UNCHANGED <<bufferVars, current, calls>>
       \/ /\ state = "Init" /\ pc = "match" /\ current < Scanners
          /\ Offer(current + 1, "match")
    /\ UNCHANGED <<locked, roundMark>>

\* A scanner's match() returns.  The locked scanner must have accepted or
\* skipped (oassert); otherwise the next scanner is tried, if there is one.
MatchEnds ==
    /\ Matching
    /\ \/ /\ state = "Success"
          /\ pc' = "eof"
          /\ UNCHANGED <<bufferVars, current, calls>>
       \/ /\ state = "Init" /\ pc = "lockedMatch"
          /\ pc' = "failed"
          /\ UNCHANGED <<bufferVars, current, calls>>
       \/ /\ state = "Init" /\ pc = "match"
          /\ OfferAfter(current)
    /\ UNCHANGED <<locked, roundMark>>

MatchReturns == ~Owing /\ MatchEnds

\* Mutant: accept() without the push().
CatchAllWithoutPush ==
    /\ pc = "catchall"
    /\ IF IsPositive(Peek) THEN AcceptTo(pos, "ByChar", <<>>) ELSE UNCHANGED bufferVars
    /\ pc' = "eof"
    /\ UNCHANGED <<current, locked, calls, roundMark>>

\* The catch-all: push() and accept() of one character, unless it is not
\* positive.  "ByChar" stands for TokenCode_by_char(ch).
CatchAll ==
    /\ pc = "catchall"
    /\ IF IsPositive(Peek) THEN AcceptTo(pos + 1, "ByChar", <<pos + 1>>)
       ELSE UNCHANGED bufferVars
    /\ pc' = "eof"
    /\ UNCHANGED <<current, locked, calls, roundMark>>

\* Mutant: a NUL in the text is taken for its end.
EndRoundAtNul ==
    /\ pc = "eof"
    /\ IF Peek = Nul THEN AcceptTo(pos, "EndOfFile", Literal) ELSE UNCHANGED bufferVars
    /\ pc' = IF Peek = Nul THEN "done" ELSE "round"
    /\ UNCHANGED <<current, locked, calls, roundMark>>

\* The end of match_token(): at the end of the text the last token is made,
\* and tokenize() returns.  Otherwise it calls match_token() again.
EndRound ==
    /\ pc = "eof"
    /\ IF AtEnd THEN AcceptTo(pos, "EndOfFile", Literal) ELSE UNCHANGED bufferVars
    /\ pc' = IF AtEnd THEN "done" ELSE "round"
    /\ UNCHANGED <<current, locked, calls, roundMark>>

-----------------------------------------------------------------------------
(* Scanner::match(): any scanner.                                          *)

\* partial_rewind() cuts the token string to the length of the text that is
\* left: right if every character of it stands at its place in the text.
RewindIsAligned ==
    tokenString # <<>> =>
        /\ Len(tokenString[1]) = pos - mark
        /\ \A i \in 1..(pos - mark) : tokenString[1][i] \in {mark + i, Foreign}

ScannerEdits ==
    /\ Matching /\ calls > 0
    /\ \/ Push
       \/ PushOther
       \/ Discard
       \/ ~Owing /\ \E num \in {1, 2} : Chop(num)
       \/ ~Owing /\ RewindIsAligned /\ \E num \in {1, 2} : PartialRewind(num)
    /\ calls' = calls - 1
    /\ UNCHANGED <<pc, current, locked, roundMark>>

\* lock_scanner() and unlock_scanner()
ScannerLocks ==
    /\ Matching /\ ~Owing
    /\ \/ locked = None /\ locked' = current
       \/ locked # None /\ locked' = None
    /\ calls > 0 /\ calls' = calls - 1
    /\ UNCHANGED <<bufferVars, pc, current, roundMark>>

\* accept(code), accept(code, literal) or skip(), of the window.
ScannerAccepts ==
    /\ Matching
    /\ pos = mark => Len(tokens) < MaxTokens /\ (AtEnd \/ ~IsPositive(Peek) \/ calls > 0)
    /\ \/ \E code \in TokenCodes, value \in {CurrentToken, Literal} :
             AcceptTo(pos, code, value)
       \/ Skip
    /\ UNCHANGED driverVars

-----------------------------------------------------------------------------
Next ==
    \/ StartRound \/ MatchReturns \/ CatchAll \/ EndRound
    \/ ScannerEdits \/ ScannerLocks \/ ScannerAccepts

Spec == TokenizerInit /\ [][Next]_vars

\* tokenize() and match() are sequential code: they go on.
FairSpec == Spec /\ WF_vars(Next)

-----------------------------------------------------------------------------
(* Properties.                                                             *)

TypeOK ==
    /\ BufferOK
    /\ pc \in {"round", "match", "lockedMatch", "catchall", "eof", "failed", "done"}
    /\ current \in 0..Scanners
    /\ locked \in 0..Scanners
    /\ calls \in 0..MaxCalls
    /\ roundMark \in 0..mark

\* The positions a token covers.
Covers(token) == token.start.index + 1..token.end.index

\* The tokens and what was skipped or filtered tile the text that was passed:
\* no scanner's rewinding, failing, locking or editing of its token makes the
\* tokenizer lose a character, take one twice or put tokens out of order.
TextIsTiled ==
    /\ (UNION {Covers(tokens[k]) : k \in 1..Len(tokens)}) \union skipped = 1..mark
    /\ \A k \in 1..Len(tokens) : Covers(tokens[k]) \intersect skipped = {}
    /\ \A j, k \in 1..Len(tokens) :
          j < k => tokens[j].end.index <= tokens[k].start.index

\* There is exactly one end of file token, the last one, and tokenize() returns
\* only once the whole text was passed.
EndsWithEndOfFile ==
    /\ \A k \in 1..Len(tokens) :
          tokens[k].code = "EndOfFile" <=> pc = "done" /\ k = Len(tokens)
    /\ pc = "done" =>
          /\ mark = Len(text)
          /\ tokens # <<>>

\* A token's value is made of the characters the token covers, in order: one
\* given back by rewind() or partial_rewind() is not in the value as well.
ValueFromItsText ==
    \A k \in 1..Len(tokens) :
        LET value == tokens[k].value
            own   == {i \in 1..Len(value) : value[i] # Foreign}
        IN  /\ \A i \in own : value[i] \in Covers(tokens[k])
            /\ \A i, j \in own : i < j => value[i] < value[j]

\* The lines of a text end at an LF, a CRLF or any other CR.
LineEnds ==
    {i \in 1..Len(text) : text[i] \in {LineFeed, Return} /\ ~CrLfAt(i)}

\* The line and column in the tokens' spans are those of the text, however it
\* is cut into tokens, as long as no cut is inside a CRLF: each half then
\* counts as a line.
LocationFollowsText ==
    LET before == {i \in LineEnds : i <= mark}
    IN  /\ loc.index = mark
        /\ ~crLfSplit =>
              /\ loc.line = 1 + Cardinality(before)
              /\ loc.column = 1 + Cardinality({i \in 1..mark : \A b \in before : b < i})

\* A round that gets nowhere is one that stands before a character that is
\* not positive and that no scanner takes: tokenize() then never returns.
StuckOnlyAtNonPositive ==
    pc = "eof" /\ mark = roundMark /\ ~AtEnd => ~IsPositive(text[mark + 1])

\* tokenize() returns for a text of positive characters.
Terminates ==
    (\A i \in 1..Len(text) : IsPositive(text[i])) => <>(pc \in {"done", "failed"})
=============================================================================
