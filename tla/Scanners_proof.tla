-------------------------- MODULE Scanners_proof --------------------------
(***************************************************************************)
(* What holds of the scanners of src/lexer, for any configuration and any  *)
(* text.  They only make calls that Tokenizer allows any scanner, so what  *)
(* Tokenizer_proof shows is so for them.                                   *)
(***************************************************************************)
EXTENDS Scanners, Tokenizer_proof, Texts_proof

Doing(name) == Matching /\ setup.order[current] = name

\* match() has taken nothing yet, or some text.
Untaken == state = "Init" /\ mark = roundMark
Taken == state = "Success" /\ mark > roundMark

\* Where the window has a character.
Inside ==
    {"spaces", "line", "string", "closed", "escape", "eol", "ending", "end", "sign", "zero",
     "number", "leadPeriod", "period", "float", "exponent", "expSign", "expDigits", "hexStart",
     "hex", "integer", "prefix", "full", "fullAndPrefixes"}

\* Where a comment's scanner is in what it has to do after a line.
Resuming == {"start", "text", "ending", "end", "newline", "line", "lock", "unlock", "returned"}

SetupInv ==
    /\ setup \in Setups
    /\ \A i \in 1..Len(text) : text[i] \in setup.alphabet

WindowInv ==
    /\ pc \in {"round", "eof", "done"} => pos = mark
    /\ Matching =>
          /\ current \in 1..Scanners
          /\ \/ Untaken
             \/ state = "Success" /\ at \in {"newline", "line", "lock", "unlock", "returned"}
          /\ at \in {"lock", "unlock"} => Taken /\ pos = mark
          /\ at = "returned" => Untaken \/ (Taken /\ pos = mark)
          /\ at \in Inside => pos > mark
          /\ at = "period" => pos > mark + 1
    /\ Doing("plaintext") /\ at \in {"text", "newline"} => pos > mark /\ Untaken
    /\ Doing("comment") /\ at = "text" => pos > mark \/ ~AtEnd
    /\ Doing("comment") /\ at \in {"newline", "line"} => state = "Success"

LockInv ==
    /\ locked # None =>
          /\ setup.order[locked] = "comment"
          /\ Matching => current = locked
          /\ pc = "round" \/ (Matching /\ at = "start") => inComment /\ ~AtEnd
          /\ pc = "eof" \/ (Matching /\ at = "returned") => inComment \/ AtEnd
          /\ pc # "catchall"
    /\ pc = "lockedMatch" =>
          /\ setup.order[current] = "comment"
          /\ at \in Resuming
          /\ at = "start" => locked # None
          /\ at = "returned" => Taken
    /\ pc = "match" /\ Untaken => locked = None
    /\ inComment => locked # None
    /\ Doing("comment") /\ at \in {"ending", "end", "unlock"} => ~inComment
    /\ pc # "failed"

BudgetInv ==
    Matching =>
        /\ calls + 2 * (pos - roundMark) + 4 >= MaxCalls
        /\ at \notin {"integer", "returned"} => calls + 2 * (pos - roundMark) + 1 >= MaxCalls
        /\ at \notin {"integer", "returned"} /\ memo # "chopped" =>
              calls + 2 * (pos - roundMark) >= MaxCalls

CountInv ==
    /\ Len(tokens) <= 2 * mark + 1
    /\ ~(pc = "done" \/ (Matching /\ at \in {"newline", "line"})) => Len(tokens) <= 2 * mark

Fits == Inv /\ SetupInv /\ WindowInv /\ LockInv /\ BudgetInv /\ CountInv

-----------------------------------------------------------------------------
(* The calls of a scanner.                                                 *)

LEMMA Sizes ==
    ASSUME Inv
    PROVE  /\ mark \in Nat /\ pos \in Nat /\ Len(text) \in Nat /\ Len(tokens) \in Nat
           /\ mark <= pos /\ pos <= Len(text) /\ Len(text) <= MaxText /\ MaxText \in Nat
           /\ roundMark \in Nat /\ roundMark <= mark
           /\ calls \in Int /\ calls <= MaxCalls /\ MaxCalls \in Nat /\ MaxTokens \in Nat
           /\ MaxCalls > 2 * MaxText + 1 /\ MaxTokens >= 2 * MaxText
           /\ BufferOK /\ TypeOK /\ Tiled
<1>1. BufferOK /\ TypeOK /\ Tiled
  BY DEF Inv, TypeOK
<1>2. Len(text) \in Nat /\ Len(tokens) \in Nat
  BY <1>1, LenProperties DEF BufferOK
<1> QED
  BY <1>1, <1>2, CodesAssumption, ScannersAssumption, BoundsAssumption DEF TypeOK, BufferOK

\* A call that edits the token, as far as Inv goes.
LEMMA EditKeepsInv ==
    ASSUME Inv, Matching, calls > 0, calls' = calls - 1,
           UNCHANGED <<pc, current, locked, roundMark>>,
           BufferOK', UNCHANGED Behind
    PROVE  Inv'
<1>1. TypeOK'
  BY Sizes DEF TypeOK, Behind
<1>2. Tiled'
  BY BehindKeepsTiled DEF Behind, Inv
<1>3. EndsWithEndOfFile' /\ WindowPlaced' /\ StuckOnlyAtNonPositive'
  BY DEF Inv, EndsWithEndOfFile, WindowPlaced, StuckOnlyAtNonPositive, Matching, Behind
<1> QED
  BY <1>1, <1>2, <1>3 DEF Inv

Unlocked == Inv /\ SetupInv /\ WindowInv /\ BudgetInv /\ CountInv

\* push(), push_as() or discard() of a character of the text.
Pushes == (Push \/ PushOther \/ Discard) /\ ~AtEnd

LEMMA PushFacts ==
    ASSUME Inv, Pushes
    PROVE  BufferOK' /\ UNCHANGED Behind /\ pos' = pos + 1
<1>1. BufferOK' /\ UNCHANGED Behind
  BY Sizes, EditType DEF Pushes
<1>2. pos' = pos + 1
  BY DEF Pushes, Push, PushOther, Discard, SkipOne
<1> QED
  BY <1>1, <1>2

LEMMA PushKeeps ==
    ASSUME Unlocked, Matching, Pushes, calls' = calls - 1,
           UNCHANGED <<pc, current, locked, roundMark, setup>>,
           at \notin {"integer", "returned"},
           at' \notin {"lock", "unlock"},
           Untaken \/ (at' \in {"newline", "line"} /\ ~Doing("plaintext")),
           at \in {"newline", "line"} => at' \in {"newline", "line"},
           at' = "period" => pos > mark,
           Doing("comment") /\ at' \in {"newline", "line"} => state = "Success"
    PROVE  Unlocked' /\ Next
<1>1. BufferOK' /\ UNCHANGED Behind /\ pos' = pos + 1
  BY PushFacts DEF Unlocked
<1>2. calls > 0 /\ pos < Len(text)
  <2>1. pos < Len(text)
    BY Sizes DEF Unlocked, Pushes, AtEnd
  <2>2. calls + 2 * (pos - roundMark) + 1 >= MaxCalls
    BY DEF Unlocked, BudgetInv
  <2> QED
    BY <2>1, <2>2, Sizes DEF Unlocked
<1>3. ScannerEdits
  BY <1>2 DEF ScannerEdits, Pushes
<1>4. Next /\ Inv'
  BY <1>3, InvNext DEF Next, Unlocked
<1>5. SetupInv'
  BY <1>1 DEF Unlocked, SetupInv, Behind
<1>6. Matching' /\ setup' = setup /\ \A name : Doing(name)' <=> Doing(name)
  BY DEF Matching, Doing
<1>7. WindowInv'
  <2>1. /\ pc' = pc /\ current' = current /\ state' = state /\ mark' = mark
        /\ roundMark' = roundMark /\ pos' = pos + 1
    BY <1>1 DEF Behind
  <2>2. pos' > mark'
    BY <2>1, Sizes DEF Unlocked
  <2>3. pc \notin {"round", "eof", "done"} /\ current \in 1..Scanners
    BY DEF Matching, Unlocked, WindowInv
  <2>4. Untaken' \/ (state' = "Success" /\ at' \in {"newline", "line"} /\ ~Doing("plaintext"))
    <3>1. CASE Untaken
      BY <2>1, <3>1 DEF Untaken
    <3>2. CASE ~Untaken
      <4>1. state = "Success"
        <5>1. at' \in {"newline", "line"} /\ ~Doing("plaintext")
          BY <3>2
        <5>2. \/ Untaken
              \/ state = "Success" /\ at \in {"newline", "line", "lock", "unlock", "returned"}
          BY DEF Unlocked, WindowInv
        <5> QED
          BY <3>2, <5>2
      <4> QED
        BY <2>1, <3>2, <4>1
    <3> QED
      BY <3>1, <3>2
  <2>5. at' = "returned" => Untaken'
    BY <2>4
  <2>6. at' = "period" => pos' > mark' + 1
    BY <2>1, Sizes DEF Unlocked
  <2>7. Doing("plaintext")' /\ at' \in {"text", "newline"} => Untaken'
    BY <1>6, <2>4
  <2> QED
    BY <1>6, <2>1, <2>2, <2>3, <2>4, <2>5, <2>6, <2>7 DEF WindowInv
<1>8. BudgetInv'
  <2>1. calls' + 2 * (pos' - roundMark') = calls + 2 * (pos - roundMark) + 1
    <3>1. calls' = calls - 1 /\ pos' = pos + 1 /\ roundMark' = roundMark
      BY <1>1
    <3>2. calls \in Int /\ pos \in Int /\ roundMark \in Int
      BY Sizes DEF Unlocked
    <3>3. \A c, p, r \in Int : (c - 1) + 2 * ((p + 1) - r) = c + 2 * (p - r) + 1
      OBVIOUS
    <3>4. (calls - 1) + 2 * ((pos + 1) - roundMark) = calls + 2 * (pos - roundMark) + 1
      BY <3>2, <3>3, Zenon
    <3> QED
      BY <3>1, <3>4, Zenon
  <2>2. calls + 2 * (pos - roundMark) + 1 >= MaxCalls
    BY DEF Unlocked, BudgetInv
  <2>3. calls' + 2 * (pos' - roundMark') \in Int /\ MaxCalls \in Int
    <3>1. \A c, p, r \in Int : c + 2 * (p - r) + 1 \in Int
      OBVIOUS
    <3>2. calls \in Int /\ pos \in Int /\ roundMark \in Int /\ MaxCalls \in Int
      BY Sizes DEF Unlocked
    <3> QED
      BY <2>1, <3>1, <3>2, Zenon
  <2>4. /\ calls' + 2 * (pos' - roundMark') >= MaxCalls
        /\ calls' + 2 * (pos' - roundMark') + 1 >= MaxCalls
        /\ calls' + 2 * (pos' - roundMark') + 4 >= MaxCalls
    BY <2>1, <2>2, <2>3
  <2> QED
    BY <2>4, Zenon DEF BudgetInv
<1>9. CountInv'
  BY <1>1, <1>6 DEF Unlocked, CountInv, Behind
<1> QED
  BY <1>4, <1>5, <1>7, <1>8, <1>9 DEF Unlocked

\* accept() or skip() of the window.
TakesWindow ==
    \/ \E code \in ScannerCodes, value \in {CurrentToken, Literal} : AcceptTo(pos, code, value)
    \/ Skip

LEMMA TakeFactsHere ==
    ASSUME Inv, Matching, TakesWindow
    PROVE  /\ pos' = pos /\ mark' = pos /\ state' = "Success" /\ text' = text
           /\ tokenString' = <<>>
           /\ Len(tokens') \in Nat /\ Len(tokens') <= Len(tokens) + 1
<1>1. PassTo(pos)
  BY DEF TakesWindow, Skip, SkipTo, AcceptTo
<1>2. \/ tokens' = tokens
      \/ \E token : tokens' = Append(tokens, token)
  BY DEF TakesWindow, Skip, SkipTo, AcceptTo
<1>3. Len(tokens') \in Nat /\ Len(tokens') <= Len(tokens) + 1
  BY <1>2, Sizes DEF BufferOK
<1> QED
  BY <1>1, <1>3 DEF PassTo

LEMMA TakeKeeps ==
    ASSUME Unlocked, Matching, TakesWindow, UNCHANGED <<driverVars, setup, memo>>,
           at # "returned", at = "integer" => at' = "returned",
           \/ at' \in {"returned", "lock", "unlock"} /\ pos > mark
           \/ at' = "newline" /\ pos > mark /\ ~Doing("plaintext")
           \/ at' = "newline" /\ pos = mark /\ Doing("comment") /\ ~AtEnd
              /\ at \notin {"newline", "line"}
    PROVE  Unlocked' /\ Next
<1>1. /\ pos' = pos /\ mark' = pos /\ state' = "Success" /\ text' = text
      /\ Len(tokens') \in Nat /\ Len(tokens') <= Len(tokens) + 1
  BY TakeFactsHere DEF Unlocked
<1>2. pos = mark => Len(tokens) < MaxTokens /\ calls > 0
  <2> SUFFICES ASSUME pos = mark, Doing("comment"), ~AtEnd, at \notin {"newline", "line"}
               PROVE  Len(tokens) < MaxTokens /\ calls > 0
    BY Sizes DEF Unlocked
  <2>1. Len(tokens) <= 2 * mark
    BY DEF Unlocked, CountInv, Matching
  <2>2. mark < MaxText
    BY Sizes DEF AtEnd, Unlocked
  <2>3. at \notin {"integer", "returned"}
    <3>1. "integer" \in Inside
      BY DEF Inside
    <3> QED
      BY <3>1, Sizes DEF Unlocked, WindowInv
  <2>4. calls + 2 * (pos - roundMark) + 1 >= MaxCalls
    BY <2>3 DEF Unlocked, BudgetInv
  <2> QED
    BY <2>1, <2>2, <2>4, Sizes DEF Unlocked
<1>3. ScannerAccepts
  <2>1. pos = mark => Len(tokens) < MaxTokens /\ (AtEnd \/ ~IsPositive(Peek) \/ calls > 0)
    BY <1>2
  <2>2. \/ \E code \in TokenCodes, value \in {CurrentToken, Literal} : AcceptTo(pos, code, value)
        \/ Skip
    BY BoundsAssumption DEF TakesWindow
  <2> QED
    BY <2>1, <2>2 DEF ScannerAccepts
<1>4. Next /\ Inv'
  BY <1>3, InvNext DEF Next, Unlocked
<1>5. SetupInv'
  BY <1>1 DEF Unlocked, SetupInv
<1>6. Matching' /\ setup' = setup /\ \A name : Doing(name)' <=> Doing(name)
  BY DEF Matching, Doing, driverVars
<1>7. WindowInv'
  <2>1. mark < pos => mark' > roundMark'
    BY <1>1, Sizes DEF Unlocked, driverVars
  <2>2. at' \notin Inside /\ at' # "period" /\ at' # "text"
    BY DEF Inside
  <2>3. current' \in 1..Scanners /\ ~(pc' \in {"round", "eof", "done"})
    BY DEF Unlocked, WindowInv, driverVars, Matching
  <2>4. ~(Doing("comment") /\ Doing("plaintext"))
    BY DEF Doing
  <2>5. pos' = mark' /\ state' = "Success" /\ (mark < pos => Taken')
    BY <1>1, <2>1 DEF Taken
  <2>6. /\ at' \in {"newline", "lock", "unlock", "returned"}
        /\ at' \in {"lock", "unlock", "returned"} => mark < pos
    BY Sizes DEF Unlocked
  <2>7. ~(Doing("plaintext")' /\ at' \in {"text", "newline"})
    BY <1>6, <2>4, <2>6
  <2> QED
    BY <2>2, <2>3, <2>5, <2>6, <2>7 DEF WindowInv
<1>8. BudgetInv'
  <2>1. BudgetInv /\ calls' = calls /\ pos' = pos /\ roundMark' = roundMark /\ memo' = memo
    BY <1>1 DEF Unlocked, driverVars
  <2>2. at' \notin {"integer", "returned"} => at \notin {"integer", "returned"}
    OBVIOUS
  <2>3. /\ calls + 2 * (pos - roundMark) + 4 >= MaxCalls
        /\ at' \notin {"integer", "returned"} => calls + 2 * (pos - roundMark) + 1 >= MaxCalls
        /\ at' \notin {"integer", "returned"} /\ memo # "chopped" =>
              calls + 2 * (pos - roundMark) >= MaxCalls
    BY <2>1, <2>2, Zenon DEF BudgetInv
  <2> DEFINE budget == calls + 2 * (pos - roundMark)
  <2>4. budget' = budget
    BY <2>1, Zenon
  <2>5. /\ budget' + 4 >= MaxCalls
        /\ at' \notin {"integer", "returned"} => budget' + 1 >= MaxCalls
        /\ at' \notin {"integer", "returned"} /\ memo' # "chopped" => budget' >= MaxCalls
    BY <2>1, <2>3, <2>4, Zenon
  <2> QED
    BY <2>5, Zenon DEF BudgetInv
<1>9. CountInv'
  <2>1. pc' = pc /\ pc # "done"
    BY DEF driverVars, Matching
  <2>2. mark \in Nat /\ pos \in Nat /\ mark <= pos /\ Len(tokens) \in Nat
    BY Sizes DEF Unlocked
  <2>3. Len(tokens) <= 2 * mark + 1
    BY DEF Unlocked, CountInv
  <2>4. CASE pos > mark
    <3>1. Len(tokens') <= 2 * mark'
      BY <1>1, <2>2, <2>3, <2>4
    <3> QED
      BY <1>1, <2>2, <3>1 DEF CountInv
  <2>5. CASE pos = mark
    <3>1. at' = "newline" /\ at \notin {"newline", "line"}
      BY <2>2, <2>5
    <3>2. Len(tokens) <= 2 * mark
      BY <2>1, <3>1 DEF Unlocked, CountInv
    <3>3. Len(tokens') <= 2 * mark' + 1
      BY <1>1, <2>2, <2>5, <3>2
    <3> QED
      BY <1>6, <3>1, <3>3 DEF CountInv
  <2> QED
    BY <2>2, <2>4, <2>5
<1> QED
  BY <1>4, <1>5, <1>7, <1>8, <1>9 DEF Unlocked

\* match() goes on without a call, or returns.
LEMMA GoKeeps ==
    ASSUME Unlocked, Matching, UNCHANGED <<bufferVars, driverVars, setup, memo>>,
           Untaken, at \notin {"integer", "returned"},
           at' \notin {"lock", "unlock"} \union Inside,
           ~Doing("plaintext") \/ at' = "returned",
           Doing("comment") => at' # "newline" /\ (at' = "text" => ~AtEnd),
           at \notin {"newline", "line"}
    PROVE  Unlocked' /\ UNCHANGED vars
<1>1. UNCHANGED vars
  BY DEF vars
<1>2. Inv'
  BY <1>1, InvNext DEF Unlocked
<1>3. SetupInv'
  BY DEF Unlocked, SetupInv, bufferVars
<1>4. Matching' /\ setup' = setup /\ \A name : Doing(name)' <=> Doing(name)
  BY DEF Matching, Doing, driverVars
<1>5. WindowInv'
  BY <1>4
  DEF Unlocked, WindowInv, Untaken, Taken, Matching, driverVars, bufferVars, Inside, AtEnd
<1>6. BudgetInv'
  BY <1>4, Sizes DEF Unlocked, BudgetInv, driverVars, bufferVars
<1>7. CountInv'
  BY <1>4, Sizes DEF Unlocked, CountInv, bufferVars, driverVars
<1> QED
  BY <1>1, <1>2, <1>3, <1>5, <1>6, <1>7 DEF Unlocked

-----------------------------------------------------------------------------
(* The scanners one by one.                                                *)

\* What a step of a scanner may be: Tokenizer's, or the one exception.
Allowed == [Next \/ CutsAfterZeroes]_vars

\* Only CommentScanner locks the tokenizer: the others are not asked while it
\* does, and leave it as it is.
LEMMA OthersKeepLock ==
    ASSUME LockInv, Matching, ~Doing("comment"), current' = current,
           UNCHANGED <<pc, locked, setup, inComment>>,
           state' = "Init" => state = "Init" /\ UNCHANGED <<mark, roundMark>>
    PROVE  LockInv'
<1>1. locked = None
  BY DEF LockInv, Doing
<1>2. pc = "match" /\ ~inComment
  BY <1>1 DEF LockInv, Doing, Matching
<1>3. ~Doing("comment")'
  BY DEF Doing, Matching
<1> QED
  BY <1>1, <1>2, <1>3 DEF LockInv, None

\* The characters of a window and of the next one.
LEMMA PeekFacts ==
    ASSUME Inv, SetupInv
    PROVE  /\ AtEnd <=> Peek = Nul
           /\ \A i \in 1..Len(text) : IsPositive(text[i]) /\ text[i] \in Chars
<1>1. setup.alphabet \subseteq Chars \ {Nul, Negative}
  BY SetupsAssumption DEF SetupInv
<1>2. \A i \in 1..Len(text) : IsPositive(text[i]) /\ text[i] \in Chars
  BY <1>1 DEF SetupInv, IsPositive
<1>3. ~AtEnd => pos + 1 \in 1..Len(text)
  BY Sizes DEF AtEnd
<1> QED
  BY <1>2, <1>3 DEF Peek, AtEnd, IsPositive

LEMMA CharsDiffer ==
    /\ \A ch \in Digits \union Alphas \union Signs \union {"_", "$", ".", Space, LineFeed, Return} : ch # Nul
    /\ LineFeed # Return
BY DEF Digits, Alphas, Signs, Space, LineFeed, Return, Nul

\* In a place where a scanner edits its token it has taken nothing yet.
LEMMA UntakenHere ==
    ASSUME WindowInv, Matching, at \notin {"newline", "line", "lock", "unlock", "returned"}
    PROVE  Untaken
BY DEF WindowInv

LEMMA NewlineFits ==
    ASSUME Unlocked, NEW name \in {"comment", "whitespace"}, Running(name, "newline"),
           TakesNewline("newline", "line"), UNCHANGED memo
    PROVE  Unlocked' /\ Next /\ at' \in {"newline", "line"}
           /\ UNCHANGED <<Behind, pc, current, locked, roundMark, setup>>
<1>1. Peek # Nul /\ (Push \/ PushOther \/ Discard) /\ calls' = calls - 1
      /\ UNCHANGED <<pc, current, locked, roundMark, setup>> /\ at' \in {"newline", "line"}
  BY CharsDiffer DEF TakesNewline, Edits
<1>2. Pushes
  BY <1>1, PeekFacts DEF Pushes, Unlocked
<1>3. Matching /\ at = "newline" /\ Doing(name) /\ ~Doing("plaintext")
  BY DEF Running, Doing
<1>4. Doing("comment") => state = "Success"
  BY <1>3 DEF Unlocked, WindowInv
<1>5. Unlocked' /\ Next
  BY <1>1, <1>2, <1>3, <1>4, PushKeeps
<1> QED
  BY <1>1, <1>2, <1>5, PushFacts DEF Unlocked

LEMMA WhitespaceFits ==
    ASSUME Unlocked, Whitespace, UNCHANGED commentVars
    PROVE  Unlocked' /\ Allowed
           /\ UNCHANGED <<pc, current, locked, setup>> /\ Doing("whitespace")
           /\ (state' = "Init" => state = "Init" /\ UNCHANGED <<mark, roundMark>>)
<1>1. Matching /\ Doing("whitespace") /\ ~Doing("plaintext") /\ ~Doing("comment")
  BY DEF Whitespace, WhitespaceStarts, WhitespaceGoesOn, WhitespaceTakesNewline,
         WhitespaceEndsLine, Running, Doing
<1>2. UNCHANGED memo
  BY DEF Whitespace, WhitespaceStarts, WhitespaceGoesOn, WhitespaceTakesNewline,
         WhitespaceEndsLine
<1>3. CASE Edits(Push, "spaces") /\ at \in {"start", "spaces"} /\ IsSpace(Peek)
  <2>1. Pushes
    BY <1>3, CharsDiffer, PeekFacts DEF Pushes, Unlocked, Edits, IsSpace, IsNewline
  <2>2. Untaken
    BY <1>1, <1>3, UntakenHere DEF Unlocked
  <2>3. Unlocked' /\ Next
    BY <1>1, <1>3, <2>1, <2>2, PushKeeps DEF Edits
  <2> QED
    BY <1>1, <1>3, <2>1, <2>3, PushFacts DEF Edits, Allowed, Unlocked, Behind
<1>4. CASE GoesTo(at') /\ at = "start" /\ at' \in {"newline", "returned"}
  <2>1. Untaken
    BY <1>1, <1>4, UntakenHere DEF Unlocked
  <2>2. Unlocked' /\ UNCHANGED vars
    BY <1>1, <1>2, <1>4, <2>1, GoKeeps DEF GoesTo, Inside
  <2> QED
    BY <1>1, <1>4, <2>2 DEF GoesTo, Allowed, vars, bufferVars, driverVars
<1>5. CASE \E option \in {"ignoreSpaces", "ignoreNewlines"}, code \in {"Whitespace", "NewLine"},
                place \in {"newline", "returned"} :
             FinishWhitespace(option, code, place) /\ at \in {"spaces", "line"}
  <2>1. TakesWindow /\ UNCHANGED <<driverVars, setup>> /\ at' \in {"newline", "returned"}
    BY <1>5 DEF FinishWhitespace, Accepts, AcceptToken, TakesWindow, ScannerCodes
  <2>2. pos > mark
    BY <1>1, <1>5 DEF Unlocked, WindowInv, Inside
  <2>3. Unlocked' /\ Next
    BY <1>1, <1>2, <1>5, <2>1, <2>2, TakeKeeps
  <2> QED
    BY <1>1, <2>1, <2>3, TakeFactsHere DEF Allowed, Unlocked, driverVars
<1>6. CASE WhitespaceTakesNewline
  <2>1. Unlocked' /\ Next /\ UNCHANGED <<Behind, pc, current, locked, roundMark, setup>>
    BY <1>6, NewlineFits DEF WhitespaceTakesNewline
  <2> QED
    BY <1>1, <2>1 DEF Allowed, Behind
<1>7. CASE WhitespaceStarts
  BY <1>3, <1>4, <1>7 DEF WhitespaceStarts, Running, Returns, GoesTo
<1>8. CASE WhitespaceGoesOn
  BY <1>3, <1>5, <1>8 DEF WhitespaceGoesOn, Running
<1>9. CASE WhitespaceEndsLine
  BY <1>5, <1>9 DEF WhitespaceEndsLine, Running
<1> QED
  BY <1>6, <1>7, <1>8, <1>9 DEF Whitespace

LEMMA QStringFits ==
    ASSUME Unlocked, QString, UNCHANGED commentVars
    PROVE  Unlocked' /\ Allowed
           /\ UNCHANGED <<pc, current, locked, setup>> /\ Doing("qstring")
           /\ (state' = "Init" => state = "Init" /\ UNCHANGED <<mark, roundMark>>)
<1>1. Matching /\ Doing("qstring") /\ ~Doing("plaintext") /\ ~Doing("comment")
      /\ at \in {"start", "string", "closed", "escape"}
  BY DEF QString, QStringStarts, QStringGoesOn, QStringCloses, QStringEscapes,
         QStringIsUnclosed, Running, Doing
<1>2. Untaken
  BY <1>1, UntakenHere DEF Unlocked
<1>3. CASE /\ Peek # Nul /\ (Push \/ PushOther \/ Discard) /\ calls' = calls - 1
           /\ UNCHANGED <<pc, current, locked, roundMark, setup>>
           /\ at' \in {"string", "closed", "escape"}
  <2>1. Pushes
    BY <1>3, PeekFacts DEF Pushes, Unlocked
  <2>2. Unlocked' /\ Next
    BY <1>1, <1>2, <1>3, <2>1, PushKeeps
  <2> QED
    BY <1>1, <1>3, <2>1, <2>2, PushFacts DEF Allowed, Unlocked, Behind
<1>4. CASE \E code \in {"Quoted", "Unclosed"} : AcceptToken(code, "returned") /\ at # "start" /\ UNCHANGED memo
  <2>1. TakesWindow /\ UNCHANGED <<driverVars, setup, memo>> /\ at' = "returned"
    BY <1>4 DEF AcceptToken, Accepts, TakesWindow, ScannerCodes
  <2>2. pos > mark
    BY <1>1, <1>4 DEF Unlocked, WindowInv, Inside
  <2>3. Unlocked' /\ Next
    BY <1>1, <2>1, <2>2, TakeKeeps
  <2> QED
    BY <1>1, <2>1, <2>3, TakeFactsHere DEF Allowed, Unlocked, driverVars
<1>5. CASE Returns /\ at = "start" /\ UNCHANGED memo
  <2>1. Unlocked' /\ UNCHANGED vars
    BY <1>1, <1>2, <1>5, GoKeeps DEF Returns, GoesTo, Inside
  <2> QED
    BY <1>1, <1>5, <2>1 DEF Returns, GoesTo, Allowed, vars, bufferVars, driverVars
<1>6. CASE QStringStarts
  <2>1. Nul \notin setup.quotes
    BY SetupsAssumption DEF Unlocked, SetupInv
  <2> QED
    BY <1>3, <1>5, <1>6, <2>1 DEF QStringStarts, Running, Drops, Edits
<1>7. CASE QStringGoesOn
  BY <1>3, <1>7 DEF QStringGoesOn, Drops, Edits
<1>8. CASE QStringEscapes
  BY <1>3, <1>8 DEF QStringEscapes, Edits
<1>9. CASE QStringCloses \/ QStringIsUnclosed
  BY <1>4, <1>9 DEF QStringCloses, QStringIsUnclosed, Running
<1> QED
  BY <1>6, <1>7, <1>8, <1>9 DEF QString

\* A character of a word is taken; a word that is complete is accepted, or the
\* scanner returns.
LEMMA KeywordFits ==
    ASSUME Unlocked, Keyword, UNCHANGED commentVars
    PROVE  Unlocked' /\ Allowed
           /\ UNCHANGED <<pc, current, locked, setup>> /\ Doing("keyword")
           /\ (state' = "Init" => state = "Init" /\ UNCHANGED <<mark, roundMark>>)
<1>1. Matching /\ Doing("keyword") /\ ~Doing("plaintext") /\ ~Doing("comment")
      /\ at \in {"start", "prefix", "full", "fullAndPrefixes"} /\ UNCHANGED memo
  BY DEF Keyword, KeywordGoesOn, KeywordEnds, Running, Doing, KeywordStates
<1>2. Untaken
  BY <1>1, UntakenHere DEF Unlocked
<1>3. CASE KeywordGoesOn
  <2>1. /\ Peek # Nul /\ Push /\ calls' = calls - 1
        /\ UNCHANGED <<pc, current, locked, roundMark, setup>>
        /\ at' \in {"prefix", "full", "fullAndPrefixes"}
    BY <1>3 DEF KeywordGoesOn, StillMatches, Edits, KeywordMatches
  <2>2. Pushes
    BY <2>1, PeekFacts DEF Pushes, Unlocked
  <2>3. Unlocked' /\ Next
    BY <1>1, <1>2, <2>1, <2>2, PushKeeps
  <2> QED
    BY <1>1, <2>1, <2>2, <2>3, PushFacts DEF Allowed, Unlocked, Behind
<1>4. CASE KeywordEnds /\ KeywordIsAccepted
  <2>1. TakesWindow /\ UNCHANGED <<driverVars, setup>> /\ at' = "returned"
    BY <1>4 DEF KeywordEnds, AcceptToken, Accepts, TakesWindow, ScannerCodes
  <2>2. pos > mark
    BY <1>1, <1>4 DEF KeywordIsAccepted, Unlocked, WindowInv, Inside
  <2>3. Unlocked' /\ Next
    BY <1>1, <2>1, <2>2, TakeKeeps
  <2> QED
    BY <1>1, <2>1, <2>3, TakeFactsHere DEF Allowed, Unlocked, driverVars
<1>5. CASE KeywordEnds /\ ~KeywordIsAccepted
  <2>1. Returns
    BY <1>5 DEF KeywordEnds
  <2>2. Unlocked' /\ UNCHANGED vars
    BY <1>1, <1>2, <2>1, GoKeeps DEF Returns, GoesTo, Inside
  <2> QED
    BY <1>1, <2>1, <2>2 DEF Returns, GoesTo, Allowed, vars, bufferVars, driverVars
<1> QED
  BY <1>3, <1>4, <1>5 DEF Keyword

LEMMA IdentifierFits ==
    ASSUME Unlocked, Identifier, UNCHANGED commentVars
    PROVE  Unlocked' /\ Allowed
           /\ UNCHANGED <<pc, current, locked, setup>> /\ Doing("identifier")
           /\ (state' = "Init" => state = "Init" /\ UNCHANGED <<mark, roundMark>>)
<1>1. Matching /\ Doing("identifier") /\ ~Doing("plaintext") /\ ~Doing("comment")
      /\ at = "start" /\ UNCHANGED memo
  BY DEF Identifier, Running, Doing
<1>2. Untaken
  BY <1>1, UntakenHere DEF Unlocked
<1>3. CASE IdentifierTakes /\ Edits(Push, "start")
  <2>1. Peek # Nul
    BY <1>3, CharsDiffer DEF IdentifierTakes, IsWordChar
  <2>2. Pushes
    BY <1>3, <2>1, PeekFacts DEF Pushes, Unlocked, Edits
  <2>3. Unlocked' /\ Next
    BY <1>1, <1>2, <1>3, <2>2, PushKeeps DEF Edits
  <2> QED
    BY <1>1, <1>3, <2>2, <2>3, PushFacts DEF Allowed, Unlocked, Behind, Edits
<1>4. CASE pos > mark /\ AcceptToken("Identifier", "returned")
  <2>1. TakesWindow /\ UNCHANGED <<driverVars, setup>> /\ at' = "returned"
    BY <1>4 DEF AcceptToken, Accepts, TakesWindow, ScannerCodes
  <2>2. Unlocked' /\ Next
    BY <1>1, <1>4, <2>1, TakeKeeps
  <2> QED
    BY <1>1, <2>1, <2>2, TakeFactsHere DEF Allowed, Unlocked, driverVars
<1>5. CASE Returns
  <2>1. Unlocked' /\ UNCHANGED vars
    BY <1>1, <1>2, <1>5, GoKeeps DEF Returns, GoesTo, Inside
  <2> QED
    BY <1>1, <1>5, <2>1 DEF Returns, GoesTo, Allowed, vars, bufferVars, driverVars
<1> QED
  BY <1>3, <1>4, <1>5 DEF Identifier

LEMMA PlainTextFits ==
    ASSUME Unlocked, PlainText, UNCHANGED commentVars
    PROVE  Unlocked' /\ Allowed
           /\ UNCHANGED <<pc, current, locked, setup>> /\ Doing("plaintext")
           /\ (state' = "Init" => state = "Init" /\ UNCHANGED <<mark, roundMark>>)
<1>1. Matching /\ Doing("plaintext") /\ ~Doing("comment") /\ UNCHANGED memo
      /\ at \in {"start", "text", "newline"}
  BY DEF PlainText, PlainTextGoesOn, Running, Doing
<1>2. Untaken
  BY <1>1, UntakenHere DEF Unlocked, WindowInv
<1>3. CASE Peek # Nul /\ \E place \in {"text", "newline"} : Edits(Push, place) /\ at # "newline"
  <2>1. Pushes
    BY <1>3, PeekFacts DEF Pushes, Unlocked, Edits
  <2>2. Unlocked' /\ Next
    BY <1>1, <1>2, <1>3, <2>1, PushKeeps DEF Edits
  <2> QED
    BY <1>1, <1>3, <2>1, <2>2, PushFacts DEF Allowed, Unlocked, Behind, Edits
<1>4. CASE at # "start" /\ \E code \in {"Text", "NewLine"} : AcceptToken(code, "returned")
  <2>1. TakesWindow /\ UNCHANGED <<driverVars, setup>> /\ at' = "returned"
    BY <1>4 DEF AcceptToken, Accepts, TakesWindow, ScannerCodes
  <2>2. pos > mark
    BY <1>1, <1>4 DEF Unlocked, WindowInv
  <2>3. Unlocked' /\ Next
    BY <1>1, <2>1, <2>2, TakeKeeps
  <2> QED
    BY <1>1, <2>1, <2>3, TakeFactsHere DEF Allowed, Unlocked, driverVars
<1>5. CASE at = "start" /\ Returns
  <2>1. Unlocked' /\ UNCHANGED vars
    BY <1>1, <1>2, <1>5, GoKeeps DEF Returns, GoesTo, Inside
  <2> QED
    BY <1>1, <1>5, <2>1 DEF Returns, GoesTo, Allowed, vars, bufferVars, driverVars
<1> QED
  BY <1>3, <1>4, <1>5, CharsDiffer DEF PlainText, PlainTextGoesOn, Running

-----------------------------------------------------------------------------
(* Numbers.                                                                *)

\* What the moves of NumberScanner have in common: they are for characters,
\* and a period is part of a number that has begun.
LEMMA MoveFacts ==
    ASSUME NEW move \in NumberMoves
    PROVE  /\ Nul \notin move[2]
           /\ move[3] \in Inside \ {"integer", "line"}
           /\ move[3] = "period" => move[1] \in {"sign", "zero", "number"}
           /\ move[1] \in {"start"} \union (Inside \ {"integer", "line"})
           /\ (move[1] = "zero" /\ move[2] \in {{Zero}, NonZero}) => move[3] \in {"zero", "number"}
<1>1. PICK place, chars, next, feature : move = <<place, chars, next, feature>>
  BY Zenon DEF NumberMoves
<1>2. move[1] = place /\ move[2] = chars /\ move[3] = next
  BY <1>1
<1>3. <<place, chars, next, feature>> \in NumberMoves
  BY <1>1
<1>4. /\ chars \in {Signs, {Zero}, NonZero, {Period}, {"$"}, Digits, {"e"}, {"x"}, HexDigits}
      /\ next \in {"sign", "zero", "number", "leadPeriod", "period", "float", "exponent",
                   "expSign", "expDigits", "hexStart", "hex"}
      /\ place \in {"start", "sign", "zero", "number", "leadPeriod", "period", "float",
                    "exponent", "expSign", "expDigits", "hexStart", "hex"}
  BY <1>3, ZenonT(30) DEF NumberMoves
<1>5. next = "period" => place \in {"sign", "zero", "number"}
  BY <1>3, ZenonT(30) DEF NumberMoves
<1>6. Nul \notin chars
  BY <1>4 DEF Digits, HexDigits, Signs, Zero, Period, Nul, NonZero
<1>7. (place = "zero" /\ chars \in {{Zero}, NonZero}) => next \in {"zero", "number"}
  <2>1. place = "zero" => chars \in {{Period}, {"x"}} \/ next \in {"zero", "number"}
    BY <1>3, ZenonT(30) DEF NumberMoves
  <2>2. \A S \in {{Zero}, NonZero} : Period \notin S /\ "x" \notin S
    BY DEF Zero, NonZero, Digits, Period
  <2> QED
    BY <2>1, <2>2
<1> QED
  BY <1>2, <1>4, <1>5, <1>6, <1>7 DEF Inside

\* A zero is dropped from the token: the window stays.
LEMMA ChopKeeps ==
    ASSUME Unlocked, Matching, Untaken, Chop(1), calls' = calls - 1,
           UNCHANGED <<pc, current, locked, roundMark, setup, at>>,
           at \notin {"newline", "line", "lock", "unlock", "integer", "returned"},
           memo # "chopped", memo' = "chopped"
    PROVE  Unlocked' /\ Next
<1>1. BufferOK' /\ UNCHANGED Behind /\ pos' = pos
  <2>1. \E num \in {1, 2} : Chop(num)
    OBVIOUS
  <2> QED
    BY <2>1, Sizes, EditType DEF Unlocked, Chop
<1>2. calls + 2 * (pos - roundMark) >= MaxCalls
  BY DEF Unlocked, BudgetInv
<1>3. calls > 0
  BY <1>2, Sizes DEF Unlocked
<1>4. ScannerEdits
  <2>1. ~Owing
    BY DEF Owing, Untaken
  <2>2. \E num \in {1, 2} : Chop(num)
    OBVIOUS
  <2> QED
    BY <1>3, <2>1, <2>2 DEF ScannerEdits
<1>5. Next /\ Inv'
  BY <1>4, InvNext DEF Next, Unlocked
<1>6. SetupInv'
  BY <1>1 DEF Unlocked, SetupInv, Behind
<1>7. Matching' /\ \A name : Doing(name)' <=> Doing(name)
  BY DEF Matching, Doing
<1>8. WindowInv'
  <2>1. /\ pc' = pc /\ current' = current /\ state' = state /\ mark' = mark /\ text' = text
        /\ roundMark' = roundMark /\ pos' = pos /\ at' = at
    BY <1>1 DEF Behind
  <2>2. (Untaken' <=> Untaken) /\ (Taken' <=> Taken) /\ (AtEnd' <=> AtEnd)
    BY <2>1 DEF Untaken, Taken, AtEnd
  <2>3. WindowInv
    BY DEF Unlocked
  <2> QED
    BY <1>7, <2>1, <2>2, <2>3 DEF WindowInv
<1>9. BudgetInv'
  <2>1. calls' + 2 * (pos' - roundMark') + 1 = calls + 2 * (pos - roundMark)
    <3>1. calls \in Int /\ pos \in Int /\ roundMark \in Int
      BY Sizes DEF Unlocked
    <3>2. calls' = calls - 1 /\ pos' = pos /\ roundMark' = roundMark
      BY <1>1
    <3> QED
      BY <3>1, <3>2
  <2>2. calls' + 2 * (pos' - roundMark') \in Int /\ MaxCalls \in Int
    BY <1>1, Sizes DEF Unlocked
  <2> QED
    BY <1>2, <2>1, <2>2 DEF BudgetInv
<1>10. CountInv'
  BY <1>1, <1>7 DEF Unlocked, CountInv, Behind
<1> QED
  BY <1>5, <1>6, <1>8, <1>9, <1>10 DEF Unlocked

\* The period goes back to the text.
LEMMA RewindKeeps ==
    ASSUME Unlocked, Matching, Untaken, NumberDropsPeriod
    PROVE  Unlocked' /\ Allowed /\ UNCHANGED Behind
<1>1. /\ Matching /\ at = "period" /\ at' = "integer" /\ calls' = calls - 1
      /\ PartialRewind(1) /\ ~Doing("plaintext") /\ ~Doing("comment")
      /\ UNCHANGED <<pc, current, locked, roundMark, setup>>
  BY DEF NumberDropsPeriod, Edits, Running, Doing
<1>2. pos > mark + 1
  BY <1>1 DEF Unlocked, WindowInv
<1>3. BufferOK' /\ UNCHANGED Behind /\ pos' = pos - 1
  <2>1. \E num \in {1, 2} : PartialRewind(num)
    BY <1>1
  <2>2. BufferOK' /\ UNCHANGED Behind
    BY <2>1, Sizes, EditType DEF Unlocked
  <2>3. pos' = pos - 1
    <3>1. ~(1 > pos - mark)
      BY <1>2, Sizes DEF Unlocked
    <3> QED
      BY <1>1, <3>1, Zenon DEF PartialRewind
  <2> QED
    BY <2>2, <2>3
<1>4. calls + 2 * (pos - roundMark) + 1 >= MaxCalls
  BY <1>1 DEF Unlocked, BudgetInv
<1>5. calls > 0
  BY <1>4, Sizes DEF Unlocked
<1>6. Inv'
  BY <1>1, <1>3, <1>5, EditKeepsInv DEF Unlocked
<1>7. Allowed
  <2>1. CASE tokenString = <<>>
    <3>1. ~Owing /\ RewindIsAligned
      BY <2>1 DEF Owing, Untaken, RewindIsAligned
    <3>2. ScannerEdits
      BY <1>1, <1>5, <3>1 DEF ScannerEdits
    <3> QED
      BY <3>2 DEF Allowed, Next
  <2>2. CASE tokenString # <<>>
    BY <2>2 DEF Allowed, CutsAfterZeroes
  <2> QED
    BY <2>1, <2>2
<1>8. SetupInv'
  BY <1>1, <1>3 DEF Unlocked, SetupInv, Behind
<1>9. Matching' /\ \A name : Doing(name)' <=> Doing(name)
  BY <1>1 DEF Matching, Doing
<1>10. WindowInv'
  <2>1. pos' > mark' /\ Untaken' /\ current' \in 1..Scanners
    BY <1>1, <1>2, <1>3, Sizes DEF Unlocked, Behind, Untaken, WindowInv
  <2> QED
    BY <1>1, <1>9, <2>1 DEF WindowInv, Matching
<1>11. BudgetInv'
  <2>1. calls' + 2 * (pos' - roundMark') + 3 = calls + 2 * (pos - roundMark)
    <3>1. calls \in Int /\ pos \in Int /\ roundMark \in Int
      BY Sizes DEF Unlocked
    <3>2. calls' = calls - 1 /\ pos' = pos - 1 /\ roundMark' = roundMark
      BY <1>1, <1>3
    <3> QED
      BY <3>1, <3>2
  <2>2. calls' + 2 * (pos' - roundMark') \in Int /\ MaxCalls \in Int
    <3>1. calls' = calls - 1 /\ pos' = pos - 1 /\ roundMark' = roundMark
      BY <1>1, <1>3
    <3>2. calls \in Int /\ pos \in Int /\ roundMark \in Int /\ MaxCalls \in Int
      BY Sizes DEF Unlocked
    <3> QED
      BY <3>1, <3>2
  <2> QED
    BY <1>1, <1>4, <2>1, <2>2 DEF BudgetInv
<1>12. CountInv'
  BY <1>1, <1>3, <1>9 DEF Unlocked, CountInv, Behind
<1> QED
  BY <1>3, <1>6, <1>7, <1>8, <1>10, <1>11, <1>12 DEF Unlocked

LEMMA NumberFits ==
    ASSUME Unlocked, Number, UNCHANGED commentVars
    PROVE  Unlocked' /\ Allowed
           /\ UNCHANGED <<pc, current, locked, setup>> /\ Doing("number")
           /\ (state' = "Init" => state = "Init" /\ UNCHANGED <<mark, roundMark>>)
<1>1. Matching /\ Doing("number") /\ ~Doing("plaintext") /\ ~Doing("comment")
      /\ (at = "start" \/ at \in Inside \ {"line"})
  <2>1. \A place \in NumberStates : place = "start" \/ place \in Inside \ {"integer", "line"}
    BY MoveFacts DEF NumberStates
  <2>2. \E place \in NumberStates \union {"integer", "period"} : Running("number", place)
    BY DEF Number, NumberMovesOn, NumberDropsPeriod, NumberEnds
  <2> QED
    BY <2>1, <2>2 DEF Running, Doing, Inside
<1>2. Untaken
  BY <1>1, UntakenHere DEF Unlocked, Inside
<1>3. CASE NumberMovesOn
  <2>1. PICK place \in NumberStates, move \in NumberMoves :
            /\ Running("number", place)
            /\ move \in MovesOf(place)
            /\ IF Chops(place, move) /\ memo # "chopped"
               THEN Edits(Chop(1), place) /\ memo' = "chopped"
               ELSE Edits(Push, move[3]) /\ memo' = "none"
    BY <1>3 DEF NumberMovesOn
  <2>2. place = at /\ move[1] = at /\ Peek \in move[2] /\ at # "integer"
    BY <2>1, MoveFacts DEF MovesOf, Running, Inside
  <2>3. CASE Edits(Chop(1), place) /\ memo # "chopped" /\ memo' = "chopped"
    <3>1. Unlocked' /\ Next
      BY <1>1, <1>2, <2>2, <2>3, ChopKeeps DEF Edits, Inside
    <3> QED
      BY <1>1, <2>3, <3>1 DEF Edits, Allowed, Chop
  <2>4. CASE Edits(Push, move[3])
    <3>1. Pushes
      BY <2>2, <2>4, MoveFacts, PeekFacts DEF Pushes, Unlocked, Edits
    <3>2. move[3] \in Inside \ {"integer", "line"}
      BY MoveFacts
    <3>3. move[3] = "period" => pos > mark
      <4>1. move[3] = "period" => at \in {"sign", "zero", "number"}
        BY <2>2, MoveFacts
      <4> QED
        BY <1>1, <4>1 DEF Unlocked, WindowInv, Inside
    <3>4. Unlocked' /\ Next
      BY <1>1, <1>2, <2>2, <2>4, <3>1, <3>2, <3>3, PushKeeps DEF Edits, Inside
    <3> QED
      BY <1>1, <2>4, <3>1, <3>4, PushFacts DEF Edits, Allowed, Unlocked, Behind
  <2> QED
    BY <2>1, <2>3, <2>4
<1>4. CASE NumberDropsPeriod
  BY <1>1, <1>2, <1>4, RewindKeeps DEF NumberDropsPeriod, Edits, Behind
<1>5. CASE NumberEnds
  <2>1. CASE Returns /\ at # "integer"
    <3>1. Unlocked' /\ UNCHANGED vars
      BY <1>1, <1>2, <1>5, <2>1, GoKeeps DEF NumberEnds, Returns, GoesTo, Inside
    <3> QED
      BY <1>1, <2>1, <3>1 DEF Returns, GoesTo, Allowed, vars, bufferVars, driverVars
  <2>2. CASE at # "start" /\ \E code \in {"Integer", "Float", "HexNumber", "Error"},
                             value \in {CurrentToken, Literal} :
                Accepts(AcceptTo(pos, code, value), "returned")
    <3>1. TakesWindow /\ UNCHANGED <<driverVars, setup, memo>> /\ at' = "returned"
      BY <1>5, <2>2 DEF NumberEnds, Accepts, TakesWindow, ScannerCodes
    <3>2. pos > mark
      BY <1>1, <2>2 DEF Unlocked, WindowInv
    <3>3. at # "returned"
      BY <1>1 DEF Inside
    <3>4. Unlocked' /\ Next
      BY <1>1, <3>1, <3>2, <3>3, TakeKeeps
    <3> QED
      BY <1>1, <3>1, <3>4, TakeFactsHere DEF Allowed, Unlocked, driverVars
  <2>3. CASE Running("number", "integer") /\ AcceptToken("Integer", "returned")
    BY <2>2, <2>3 DEF AcceptToken, Running
  <2>4. CASE \E place \in NumberStates \ {"period"} :
               /\ Running("number", place)
               /\ IF place \notin DOMAIN NumberCodes THEN Returns
                  ELSE IF NumberCodes[place] = "Error" THEN AcceptError("returned")
                  ELSE AcceptToken(NumberCodes[place], "returned")
    <3>1. PICK place \in NumberStates \ {"period"} :
               /\ Running("number", place)
               /\ IF place \notin DOMAIN NumberCodes THEN Returns
                  ELSE IF NumberCodes[place] = "Error" THEN AcceptError("returned")
                  ELSE AcceptToken(NumberCodes[place], "returned")
      BY <2>4
    <3>2. place = at /\ at # "integer"
      BY <3>1, MoveFacts DEF Running, NumberStates, Inside
    <3>3. place \in DOMAIN NumberCodes =>
            place # "start" /\ NumberCodes[place] \in {"Integer", "Float", "HexNumber", "Error"}
      BY DEF NumberCodes
    <3> QED
      BY <2>1, <2>2, <3>1, <3>2, <3>3 DEF AcceptError, AcceptToken
  <2> QED
    BY <1>5, <2>3, <2>4 DEF NumberEnds
<1> QED
  BY <1>3, <1>4, <1>5 DEF Number

-----------------------------------------------------------------------------
(* Comments.                                                               *)

\* A step of CommentScanner that does not lock or unlock.
LEMMA CommentKeepsLock ==
    ASSUME LockInv, Matching, Doing("comment"), UNCHANGED <<pc, current, locked, setup>>,
           inComment' => inComment,
           at' # "start",
           at' \in {"ending", "end", "unlock"} => ~inComment',
           pc = "lockedMatch" => at' \in Resuming /\ (at' = "returned" => Taken'),
           at' = "returned" => locked = None \/ inComment' \/ AtEnd',
           state' = "Init" => state = "Init" /\ UNCHANGED <<mark, roundMark>>
    PROVE  LockInv'
<1>1. Matching' /\ Doing("comment")'
  BY DEF Matching, Doing
<1>2. setup.order[current] = "comment"
  BY DEF Doing
<1>3. pc # "round" /\ pc # "eof" /\ pc # "catchall" /\ pc # "failed"
  BY DEF Matching
<1>4. pc = "match" /\ Untaken' => locked' = None
  BY DEF LockInv, Untaken
<1> QED
  BY <1>1, <1>2, <1>3, <1>4 DEF LockInv, None

LEMMA LocksKeep ==
    ASSUME Unlocked, Matching, Taken, pos = mark, at \in {"lock", "unlock"},
           NEW scanner \in {None, current}, locked \in {None, current}, Locks(scanner),
           UNCHANGED memo
    PROVE  Unlocked' /\ [Next]_vars /\ Taken' /\ Matching'
<1>1. /\ UNCHANGED <<bufferVars, pc, current, roundMark, setup>>
      /\ UNCHANGED <<text, pos, mark, tokenString, state, loc, tokens, skipped, crLfSplit>>
      /\ locked' = scanner /\ at' = "returned"
      /\ calls' = IF scanner = locked THEN calls ELSE calls - 1
  BY DEF Locks, bufferVars
<1>2. calls + 2 * (pos - roundMark) + 1 >= MaxCalls
  BY DEF Unlocked, BudgetInv
<1>3. calls > 0
  BY <1>2, Sizes DEF Unlocked
<1>4. current \in 1..Scanners
  BY DEF Unlocked, WindowInv
<1>5. [Next]_vars
  <2>1. CASE scanner = locked
    BY <1>1, <2>1 DEF vars, driverVars
  <2>2. CASE scanner # locked
    <3>1. ~Owing
      BY Sizes DEF Taken, Owing, Unlocked
    <3>2. ScannerLocks
      BY <1>1, <1>3, <1>4, <2>2, <3>1 DEF ScannerLocks, None
    <3> QED
      BY <3>2 DEF Next
  <2> QED
    BY <2>1, <2>2
<1>6. Inv'
  BY <1>5, InvNext DEF Unlocked
<1>7. SetupInv'
  BY <1>1 DEF Unlocked, SetupInv
<1>8. Matching' /\ (\A name : Doing(name)' <=> Doing(name)) /\ Taken'
  BY <1>1 DEF Matching, Doing, Taken
<1>9. WindowInv'
  <2>1. pos' = mark' /\ at' \notin Inside /\ current' \in 1..Scanners
    BY <1>1, <1>4 DEF Inside
  <2>2. ~(pc' \in {"round", "eof", "done"})
    BY <1>8 DEF Matching
  <2> QED
    BY <1>1, <1>8, <2>1, <2>2 DEF WindowInv, Taken
<1>10. BudgetInv'
  <2>1. calls' + 2 * (pos' - roundMark') + 1 >= calls + 2 * (pos - roundMark)
    <3>1. calls \in Int /\ pos \in Int /\ roundMark \in Int
      BY Sizes DEF Unlocked
    <3>2. (calls' = calls \/ calls' = calls - 1) /\ pos' = pos /\ roundMark' = roundMark
      BY <1>1
    <3> QED
      BY <3>1, <3>2
  <2>2. calls' + 2 * (pos' - roundMark') \in Int /\ calls + 2 * (pos - roundMark) \in Int
        /\ MaxCalls \in Int
    <3>1. (calls' = calls \/ calls' = calls - 1) /\ pos' = pos /\ roundMark' = roundMark
      BY <1>1
    <3>2. calls \in Int /\ pos \in Int /\ roundMark \in Int /\ MaxCalls \in Int
      BY Sizes DEF Unlocked
    <3> QED
      BY <3>1, <3>2
  <2> QED
    BY <1>1, <1>2, <2>1, <2>2 DEF BudgetInv
<1>11. CountInv'
  BY <1>1, <1>8 DEF Unlocked, CountInv, Matching
<1> QED
  BY <1>5, <1>6, <1>7, <1>8, <1>9, <1>10, <1>11 DEF Unlocked

\* A character of a comment goes into the token.
LEMMA CommentPushFits ==
    ASSUME Unlocked, LockInv, Matching, Doing("comment"), Untaken, Peek # Nul,
           NEW place \in {"marker", "text", "eol", "ending", "end", "returned"},
           Edits(Push, place),
           at \notin {"integer", "newline", "line", "returned"},
           inComment' => inComment,
           place \in {"ending", "end"} => ~inComment',
           pc = "lockedMatch" => place \in {"text", "ending", "end"},
           UNCHANGED memo
    PROVE  Unlocked' /\ Next /\ LockInv'
<1>1. Push /\ at' = place /\ calls' = calls - 1
      /\ UNCHANGED <<pc, current, locked, roundMark, setup>>
  BY DEF Edits
<1>2. Pushes
  BY <1>1, PeekFacts DEF Pushes, Unlocked
<1>3. ~Doing("plaintext")
  BY DEF Doing
<1>4. Unlocked' /\ Next
  BY <1>1, <1>2, <1>3, PushKeeps
<1>5. UNCHANGED <<mark, state>>
  BY <1>1 DEF Push
<1>6. pc = "match" \/ pc = "lockedMatch"
  BY DEF Matching
<1>7. at' = "returned" => locked = None
  BY <1>1, <1>6 DEF LockInv
<1>8. LockInv'
  BY <1>1, <1>5, <1>7, CommentKeepsLock DEF Resuming
<1> QED
  BY <1>4, <1>8

\* The comment scanner accepts the window, or the line of a comment.
LEMMA CommentTakeFits ==
    ASSUME Unlocked, LockInv, Matching, Doing("comment"),
           NEW code \in {"Comment", "NewLine", "Error"}, NEW value \in {CurrentToken, Literal},
           NEW place \in {"returned", "unlock", "lock", "newline"},
           Accepts(AcceptTo(pos, code, value), place),
           at \notin {"integer", "returned"},
           pos > mark \/ (place = "newline" /\ ~AtEnd /\ at \notin {"newline", "line"}),
           inComment' => inComment,
           place = "unlock" => ~inComment,
           place = "returned" => locked = None \/ AtEnd,
           UNCHANGED memo
    PROVE  Unlocked' /\ Next /\ LockInv'
<1>1. TakesWindow /\ UNCHANGED <<driverVars, setup, memo>> /\ at' = place
  BY DEF Accepts, TakesWindow, ScannerCodes
<1>2. ~Doing("plaintext")
  BY DEF Doing
<1>3. pos > mark \/ pos = mark
  BY Sizes DEF Unlocked
<1>4. Unlocked' /\ Next
  BY <1>1, <1>2, <1>3, TakeKeeps
<1>5. /\ state' = "Success" /\ mark' = pos /\ UNCHANGED <<pos, text, pc, current, locked, roundMark>>
  BY <1>1, TakeFactsHere DEF Unlocked, driverVars
<1>6. place = "returned" => Taken'
  BY <1>5, Sizes DEF Taken, Unlocked
<1>7. AtEnd' <=> AtEnd
  BY <1>5 DEF AtEnd
<1>8. LockInv'
  BY <1>1, <1>5, <1>6, <1>7, CommentKeepsLock DEF Resuming
<1> QED
  BY <1>4, <1>8

LEMMA CommentFits ==
    ASSUME Unlocked, LockInv, CommentNext
    PROVE  Unlocked' /\ LockInv' /\ Allowed
<1>1. Matching /\ Doing("comment") /\ ~Doing("plaintext") /\ UNCHANGED memo
  BY DEF CommentNext, CommentStarts, CommentReadsMarker, CommentReadsLine, CommentReadsText,
         CommentReadsEnding, CommentIsComplete, CommentUnlocks, CommentTakesNewline,
         CommentAcceptsNewline, CommentLocks, CommentIsUnterminated, Comment, Running, Doing
<1>2. pc = "match" \/ pc = "lockedMatch"
  BY <1>1 DEF Matching
<1>3. locked \in {None, current}
  BY <1>1 DEF LockInv
<1>4. at \in {"start", "marker", "text", "eol", "ending", "end"} => Untaken
  BY <1>1, UntakenHere DEF Unlocked
<1>5. Peek = Nul <=> AtEnd
  BY PeekFacts DEF Unlocked
<1>6. CASE CommentStarts
  <2>1. at = "start" /\ Untaken /\ UNCHANGED <<match, ending, inComment>>
        /\ UNCHANGED <<bufferVars, driverVars, setup>>
        /\ at' \in {"text", "marker"}
    BY <1>4, <1>6 DEF CommentStarts, Comment, Running, GoesTo
  <2>2. at' = "text" => inComment
    BY <1>6 DEF CommentStarts, GoesTo
  <2>3. inComment => ~AtEnd
    BY <1>1, <2>1 DEF LockInv
  <2>4. Unlocked' /\ UNCHANGED vars
    BY <1>1, <2>1, <2>2, <2>3, GoKeeps DEF Inside
  <2>5. pc = "lockedMatch" => at' = "text"
    BY <1>1, <1>6, <2>1 DEF LockInv, CommentStarts, GoesTo
  <2>6. LockInv'
    BY <1>1, <2>1, <2>5, CommentKeepsLock DEF Resuming, bufferVars, driverVars
  <2> QED
    BY <2>4, <2>6 DEF Allowed
<1>7. CASE CommentReadsMarker
  <2>1. at = "marker" /\ Untaken /\ UNCHANGED <<ending, inComment>>
    BY <1>4, <1>7 DEF CommentReadsMarker, Comment, Running
  <2>2. pc = "match" /\ locked = None
    BY <1>1, <1>2, <2>1 DEF LockInv, Resuming
  <2>3. CASE Returns
    <3>1. at' = "returned" /\ UNCHANGED <<bufferVars, driverVars, setup>>
      BY <2>3 DEF Returns, GoesTo
    <3>2. Unlocked' /\ UNCHANGED vars
      BY <1>1, <2>1, <3>1, GoKeeps DEF Inside
    <3>3. LockInv'
      BY <1>1, <2>1, <2>2, <3>1, CommentKeepsLock DEF bufferVars, driverVars
    <3> QED
      BY <3>2, <3>3 DEF Allowed
  <2>4. CASE Peek # Nul /\ \E place \in {"eol", "text", "returned", "marker"} : Edits(Push, place)
    <3>1. Unlocked' /\ Next /\ LockInv'
      BY <1>1, <2>1, <2>2, <2>4, CommentPushFits
    <3> QED
      BY <3>1 DEF Allowed
  <2> QED
    BY <1>7, <2>3, <2>4 DEF CommentReadsMarker
<1>8. CASE CommentReadsLine
  <2>1. at = "eol" /\ Untaken /\ UNCHANGED commentVars
    BY <1>4, <1>8 DEF CommentReadsLine, Comment, Running
  <2>2. pc = "match" /\ locked = None /\ pos > mark
    BY <1>1, <1>2, <2>1 DEF LockInv, Resuming, Unlocked, WindowInv, Inside
  <2>3. CASE Accepts(AcceptTo(pos, "Comment", CurrentToken), "returned")
    <3>1. Unlocked' /\ Next /\ LockInv'
      BY <1>1, <2>1, <2>2, <2>3, CommentTakeFits DEF commentVars
    <3> QED
      BY <3>1 DEF Allowed
  <2>4. CASE Peek # Nul /\ Edits(Push, "eol")
    <3>1. Unlocked' /\ Next /\ LockInv'
      BY <1>1, <2>1, <2>2, <2>4, CommentPushFits DEF commentVars
    <3> QED
      BY <3>1 DEF Allowed
  <2> QED
    BY <1>8, <2>3, <2>4 DEF CommentReadsLine, AcceptToken
<1>9. CASE CommentReadsText
  <2>1. at = "text" /\ Untaken /\ ~inComment' /\ Peek # Nul /\ ~AtEnd
    BY <1>4, <1>5, <1>9 DEF CommentReadsText, Comment, Running
  <2>2. CASE Edits(Push, "ending") \/ Edits(Push, "text")
    <3>1. Unlocked' /\ Next /\ LockInv'
      BY <1>1, <2>1, <2>2, CommentPushFits
    <3> QED
      BY <3>1 DEF Allowed
  <2>3. CASE Accepts(AcceptTo(pos, "Comment", CurrentToken), "newline")
    <3>1. Unlocked' /\ Next /\ LockInv'
      BY <1>1, <2>1, <2>3, CommentTakeFits
    <3> QED
      BY <3>1 DEF Allowed
  <2> QED
    BY <1>9, <2>2, <2>3 DEF CommentReadsText, CommentSplits, AcceptToken
<1>10. CASE CommentReadsEnding
  <2>1. at = "ending" /\ Untaken /\ UNCHANGED inComment /\ Peek # Nul /\ ~AtEnd
    BY <1>4, <1>5, <1>10 DEF CommentReadsEnding, Comment, Running
  <2>2. ~inComment
    BY <1>1, <2>1 DEF LockInv
  <2>3. CASE \E place \in {"ending", "text", "end"} : Edits(Push, place)
    <3>1. Unlocked' /\ Next /\ LockInv'
      BY <1>1, <2>1, <2>2, <2>3, CommentPushFits
    <3> QED
      BY <3>1 DEF Allowed
  <2>4. CASE Accepts(AcceptTo(pos, "Comment", CurrentToken), "newline")
    <3>1. Unlocked' /\ Next /\ LockInv'
      BY <1>1, <2>1, <2>4, CommentTakeFits
    <3> QED
      BY <3>1 DEF Allowed
  <2> QED
    BY <1>10, <2>3, <2>4 DEF CommentReadsEnding, CommentSplits, AcceptToken
<1>11. CASE CommentIsComplete
  <2>1. at = "end" /\ UNCHANGED commentVars /\ Accepts(AcceptTo(pos, "Comment", CurrentToken), "unlock")
    BY <1>11 DEF CommentIsComplete, Comment, Running, AcceptToken
  <2>2. ~inComment /\ pos > mark
    BY <1>1, <2>1 DEF LockInv, Unlocked, WindowInv, Inside
  <2>3. Unlocked' /\ Next /\ LockInv'
    BY <1>1, <2>1, <2>2, CommentTakeFits DEF commentVars
  <2> QED
    BY <2>3 DEF Allowed
<1>12. CASE CommentAcceptsNewline
  <2>1. at = "line" /\ UNCHANGED commentVars /\ Accepts(AcceptTo(pos, "NewLine", CurrentToken), "lock")
    BY <1>12 DEF CommentAcceptsNewline, Comment, Running, AcceptToken
  <2>2. pos > mark
    BY <1>1, <2>1 DEF Unlocked, WindowInv, Inside
  <2>3. Unlocked' /\ Next /\ LockInv'
    BY <1>1, <2>1, <2>2, CommentTakeFits DEF commentVars
  <2> QED
    BY <2>3 DEF Allowed
<1>13. CASE CommentIsUnterminated
  <2>1. at \in {"text", "ending"} /\ UNCHANGED commentVars /\ AtEnd
        /\ Accepts(AcceptTo(pos, "Error", Literal), "returned")
    BY <1>5, <1>13 DEF CommentIsUnterminated, Comment, Running, AcceptError
  <2>2. pos > mark
    BY <1>1, <2>1 DEF Unlocked, WindowInv, Inside
  <2>3. Unlocked' /\ Next /\ LockInv'
    BY <1>1, <2>1, <2>2, CommentTakeFits DEF commentVars
  <2> QED
    BY <2>3 DEF Allowed
<1>14. CASE CommentTakesNewline
  <2>1. Unlocked' /\ Next /\ at' \in {"newline", "line"}
        /\ UNCHANGED <<Behind, pc, current, locked, roundMark, setup>>
    BY <1>1, <1>14, NewlineFits DEF CommentTakesNewline, Comment
  <2>2. LockInv'
    BY <1>1, <1>14, <2>1, CommentKeepsLock
    DEF CommentTakesNewline, commentVars, Behind, Resuming
  <2> QED
    BY <2>1, <2>2 DEF Allowed
<1>15. CASE CommentUnlocks
  <2>1. at = "unlock" /\ UNCHANGED commentVars /\ Locks(None)
    BY <1>15 DEF CommentUnlocks, Comment, Running
  <2>2. Taken /\ pos = mark /\ ~inComment
    BY <1>1, <2>1 DEF Unlocked, WindowInv, LockInv
  <2>3. Unlocked' /\ [Next]_vars /\ Taken' /\ Matching'
    BY <1>1, <1>3, <2>1, <2>2, LocksKeep
  <2>4. LockInv'
    <3>1. locked' = None /\ ~inComment' /\ at' = "returned" /\ UNCHANGED <<pc, current, setup>>
      BY <2>1, <2>2 DEF Locks, commentVars
    <3>2. setup.order[current] = "comment"
      BY <1>1 DEF Doing
    <3> QED
      BY <2>3, <3>1, <3>2 DEF LockInv, Matching, Resuming
  <2> QED
    BY <2>3, <2>4 DEF Allowed
<1>16. CASE CommentLocks
  <2>1. at = "lock" /\ inComment' = TRUE /\ Locks(current)
    BY <1>16 DEF CommentLocks, Comment, Running
  <2>2. Taken /\ pos = mark /\ current \in 1..Scanners
    BY <1>1, <2>1 DEF Unlocked, WindowInv
  <2>3. Unlocked' /\ [Next]_vars /\ Taken' /\ Matching'
    BY <1>1, <1>3, <2>1, <2>2, LocksKeep
  <2>4. LockInv'
    <3>1. locked' = current /\ at' = "returned" /\ UNCHANGED <<pc, current, setup>>
      BY <2>1 DEF Locks
    <3>2. setup.order[current] = "comment" /\ current # None
      BY <1>1, <2>2, ScannersAssumption DEF Doing, None
    <3> QED
      BY <2>1, <2>3, <3>1, <3>2 DEF LockInv, Matching, Resuming, Taken, Untaken
  <2> QED
    BY <2>3, <2>4 DEF Allowed
<1> QED
  BY <1>6, <1>7, <1>8, <1>9, <1>10, <1>11, <1>12, <1>13, <1>14, <1>15, <1>16 DEF CommentNext

-----------------------------------------------------------------------------
(* tokenize() and match_token() between the matches.                       *)

\* A scanner is offered the text at the last token.
LEMMA OfferFits ==
    ASSUME Fits, pc = "round" \/ (Matching /\ at = "returned" /\ Untaken),
           NEW scanner \in 1..Scanners, NEW place \in {"match", "lockedMatch"},
           Offer(scanner, place), UNCHANGED <<locked, setup, commentVars>>,
           roundMark' = mark, at' = "start",
           place = "match" => locked = None,
           place = "lockedMatch" => pc = "round" /\ scanner = locked /\ locked # None
    PROVE  SetupInv' /\ WindowInv' /\ LockInv' /\ BudgetInv' /\ CountInv'
<1>1. /\ pc' = place /\ current' = scanner /\ calls' = MaxCalls
      /\ pos' = mark /\ mark' = mark /\ state' = "Init" /\ text' = text /\ tokens' = tokens
      /\ inComment' = inComment
  BY DEF Offer, RewindTo, commentVars
<1>2. Matching' /\ Untaken' /\ pos' = mark'
  BY <1>1 DEF Matching, Untaken
<1>3. SetupInv'
  BY <1>1 DEF Fits, SetupInv
<1>4. WindowInv'
  BY <1>1, <1>2 DEF WindowInv, Matching, Inside
<1>5. LockInv'
  <2>1. pc = "round" /\ locked # None => inComment /\ ~AtEnd' /\ setup.order[locked] = "comment"
    BY <1>1 DEF Fits, LockInv, WindowInv, AtEnd
  <2>2. locked = None => ~inComment
    BY DEF Fits, LockInv
  <2> QED
    BY <1>1, <2>1, <2>2 DEF LockInv, Resuming
<1>6. BudgetInv'
  BY <1>1, Sizes DEF Fits, BudgetInv
<1>7. CountInv'
  BY <1>1, Sizes DEF Fits, CountInv, Matching
<1> QED
  BY <1>3, <1>4, <1>5, <1>6, <1>7

LEMMA OfferAfterFits ==
    ASSUME Fits, pc = "round" \/ (Matching /\ at = "returned" /\ Untaken),
           NEW scanner \in 0..Scanners, OfferAfter(scanner),
           UNCHANGED <<locked, setup, commentVars>>,
           roundMark' = mark, locked = None,
           at' = IF pc' \in {"match", "lockedMatch"} THEN "start" ELSE "none"
    PROVE  SetupInv' /\ WindowInv' /\ LockInv' /\ BudgetInv' /\ CountInv'
<1>1. CASE scanner < Scanners
  <2>1. Offer(scanner + 1, "match") /\ scanner + 1 \in 1..Scanners
    BY <1>1, ScannersAssumption DEF OfferAfter
  <2>2. at' = "start"
    BY <2>1 DEF Offer
  <2> QED
    BY <2>1, <2>2, OfferFits
<1>2. CASE ~(scanner < Scanners)
  <2>1. /\ pc' = "catchall" /\ pos' = mark /\ mark' = mark /\ text' = text /\ tokens' = tokens
        /\ inComment' = inComment
    BY <1>2 DEF OfferAfter, RewindTo, commentVars
  <2>2. ~Matching' /\ \A name : ~Doing(name)'
    BY <2>1 DEF Matching, Doing
  <2>3. ~inComment
    BY DEF Fits, LockInv
  <2> QED
    BY <2>1, <2>2, <2>3, Sizes
    DEF Fits, SetupInv, WindowInv, LockInv, BudgetInv, CountInv, Matching
<1> QED
  BY <1>1, <1>2

LEMMA DriverFits ==
    ASSUME Fits, Driver
    PROVE  Fits' /\ Next
<1>1. /\ UNCHANGED <<setup, commentVars>> /\ inComment' = inComment /\ setup' = setup
      /\ at' = IF pc' \in {"match", "lockedMatch"} THEN "start" ELSE "none"
  BY DEF Driver, commentVars
<1>2. CASE StartRound
  <2>1. pc = "round" /\ roundMark' = mark /\ UNCHANGED locked
        /\ IF locked # None THEN Offer(locked, "lockedMatch") ELSE OfferAfter(None)
    BY <1>2 DEF StartRound
  <2>2. CASE locked # None
    <3>1. locked \in 1..Scanners
      BY <2>2, Sizes, ScannersAssumption DEF Fits, TypeOK, None
    <3>2. Offer(locked, "lockedMatch") /\ at' = "start"
      BY <1>1, <2>1, <2>2 DEF Offer
    <3> QED
      BY <1>1, <1>2, <2>1, <2>2, <3>1, <3>2, OfferFits, InvNext DEF Fits, Next
  <2>3. CASE locked = None
    <3>1. None \in 0..Scanners
      BY ScannersAssumption DEF None
    <3> QED
      BY <1>1, <1>2, <2>1, <2>3, <3>1, OfferAfterFits, InvNext DEF Fits, Next
  <2> QED
    BY <2>2, <2>3
<1>3. CASE at = "returned" /\ MatchEnds
  <2>1. Matching /\ UNCHANGED <<locked, roundMark>> /\ (Untaken \/ (Taken /\ pos = mark))
    BY <1>3 DEF Fits, WindowInv, MatchEnds
  <2>2. Next /\ Inv'
    <3>1. ~Owing
      BY <2>1, Sizes DEF Owing, Untaken, Taken, Fits
    <3>2. Next
      BY <1>3, <3>1 DEF MatchReturns, Next
    <3> QED
      BY <3>2, InvNext DEF Fits
  <2>3. CASE state = "Success" /\ pc' = "eof" /\ UNCHANGED <<bufferVars, current, calls>>
    <3>1. Taken /\ pos = mark
      BY <2>1, <2>3 DEF Untaken
    <3>2. /\ UNCHANGED <<pos, mark, text, tokens>>
          /\ ~Matching' /\ \A name : ~Doing(name)'
      BY <2>3 DEF bufferVars, Matching, Doing
    <3>3. SetupInv' /\ WindowInv' /\ BudgetInv'
      BY <1>1, <2>3, <3>1, <3>2 DEF Fits, SetupInv, WindowInv, BudgetInv
    <3>4. CountInv'
      BY <1>3, <2>1, <2>3, <3>2 DEF Fits, CountInv, Matching
    <3>5. LockInv'
      BY <1>1, <1>3, <2>1, <2>3, <3>2 DEF Fits, LockInv, AtEnd
    <3> QED
      BY <2>2, <3>3, <3>4, <3>5 DEF Fits
  <2>4. ~(state = "Init" /\ pc = "lockedMatch")
    BY <1>3 DEF Fits, LockInv, Taken
  <2>5. CASE state = "Init" /\ pc = "match" /\ OfferAfter(current)
    <3>1. Untaken /\ locked = None
      BY <2>1, <2>5 DEF Taken, Fits, LockInv
    <3>2. roundMark' = mark
      BY <2>1, <3>1 DEF Untaken
    <3>3. current \in 0..Scanners
      BY Sizes DEF Fits, TypeOK
    <3> QED
      BY <1>1, <1>3, <2>1, <2>2, <2>5, <3>1, <3>2, <3>3, OfferAfterFits DEF Fits
  <2> QED
    BY <1>3, <2>3, <2>4, <2>5 DEF MatchEnds
<1>4. CASE CatchAll
  <2>1. Next /\ Inv'
    BY <1>4, InvNext DEF Next, Fits
  <2>2. pc = "catchall" /\ pc' = "eof" /\ locked' = locked /\ locked = None /\ ~inComment
    BY <1>4 DEF CatchAll, Fits, LockInv
  <2>3. text' = text /\ pos' = mark'
        /\ Len(tokens') - 2 * mark' <= Len(tokens) - 2 * mark
    <3>1. CASE AcceptTo(pos + 1, "ByChar", <<pos + 1>>)
      <4>1. /\ text' = text /\ pos' = pos + 1 /\ mark' = pos + 1
        BY <3>1 DEF AcceptTo, SkipTo, PassTo
      <4>2. pos = mark
        BY <2>2 DEF Fits, Inv, WindowPlaced
      <4>3. tokens' = tokens \/ \E token : tokens' = Append(tokens, token)
        BY <3>1 DEF AcceptTo, SkipTo
      <4>4. Len(tokens') \in Nat /\ Len(tokens') <= Len(tokens) + 1
        BY <4>3, Sizes DEF BufferOK, Fits
      <4>5. mark' = mark + 1 /\ mark \in Nat /\ Len(tokens) \in Nat
        BY <4>1, <4>2, Sizes DEF Fits
      <4>6. Len(tokens') - 2 * (mark + 1) <= Len(tokens) - 2 * mark
        BY <4>4, <4>5
      <4> QED
        BY <4>1, <4>5, <4>6
    <3>2. CASE UNCHANGED bufferVars
      BY <2>2, <3>2, Sizes DEF Fits, Inv, WindowPlaced, bufferVars
    <3> QED
      BY <1>4, <3>1, <3>2 DEF CatchAll
  <2>4. ~Matching' /\ \A name : ~Doing(name)'
    BY <2>2 DEF Matching, Doing
  <2>5. Len(tokens') <= 2 * mark'
    <3>1. Len(tokens) <= 2 * mark
      BY <2>2 DEF Fits, CountInv, Matching
    <3>2. Len(tokens) \in Nat /\ mark \in Nat /\ Len(tokens') \in Nat /\ mark' \in Nat
      BY <2>1, LenProperties DEF Fits, Inv, TypeOK, BufferOK
    <3> QED
      BY <2>3, <3>1, <3>2
  <2>6. CountInv'
    BY <2>1, <2>5, LenProperties DEF Inv, TypeOK, BufferOK, CountInv
  <2> QED
    BY <1>1, <2>1, <2>2, <2>3, <2>4, <2>6
    DEF Fits, SetupInv, WindowInv, LockInv, BudgetInv
<1>5. CASE EndRound
  <2>1. Next /\ Inv'
    BY <1>5, InvNext DEF Next, Fits
  <2>2. pc = "eof" /\ locked' = locked /\ pos = mark
    BY <1>5 DEF EndRound, Fits, WindowInv
  <2>3. Len(tokens) <= 2 * mark
    BY <2>2 DEF Fits, CountInv, Matching
  <2>4. CASE AtEnd /\ AcceptTo(pos, "EndOfFile", Literal) /\ pc' = "done"
    <3>1. text' = text /\ pos' = pos /\ mark' = pos
      BY <2>4 DEF AcceptTo, SkipTo, PassTo
    <3>2. tokens' = tokens \/ \E token : tokens' = Append(tokens, token)
      BY <2>4 DEF AcceptTo, SkipTo
    <3>3. Len(tokens') \in Nat /\ Len(tokens') <= Len(tokens) + 1
      BY <3>2, Sizes DEF BufferOK, Fits
    <3>4. ~Matching' /\ \A name : ~Doing(name)'
      BY <2>4 DEF Matching, Doing
    <3>5. CountInv'
      BY <2>2, <2>3, <2>4, <3>1, <3>3, Sizes DEF CountInv, Fits
    <3> QED
      BY <1>1, <2>1, <2>2, <2>4, <3>1, <3>4, <3>5
      DEF Fits, SetupInv, WindowInv, LockInv, BudgetInv
  <2>5. CASE ~AtEnd /\ UNCHANGED bufferVars /\ pc' = "round"
    <3>1. UNCHANGED <<text, pos, mark, tokens>> /\ ~Matching' /\ \A name : ~Doing(name)'
      BY <2>5 DEF Matching, Doing, bufferVars
    <3>2. ~AtEnd'
      BY <2>5, <3>1 DEF AtEnd
    <3>3. CountInv'
      BY <2>3, <3>1, Sizes DEF CountInv, Fits
    <3>4. LockInv'
      BY <1>1, <2>2, <2>5, <3>1, <3>2 DEF Fits, LockInv
    <3> QED
      BY <1>1, <2>1, <2>2, <2>5, <3>1, <3>3, <3>4
      DEF Fits, SetupInv, WindowInv, BudgetInv
  <2> QED
    BY <1>5, <2>4, <2>5 DEF EndRound
<1> QED
  BY <1>2, <1>3, <1>4, <1>5 DEF Driver

LEMMA FitsInit == ScannersInit => Fits
<1> SUFFICES ASSUME ScannersInit PROVE Fits
  OBVIOUS
<1>1. setup \in Setups /\ setup.alphabet \subseteq Chars /\ setup.length \in 0..MaxText
  BY SetupsAssumption DEF ScannersInit
<1>2. PICK n \in 0..setup.length : text \in [1..n -> setup.alphabet]
  BY DEF ScannersInit
<1>3. n \in 0..MaxText /\ text \in [1..n -> Chars]
  BY <1>1, <1>2, CodesAssumption
<1>4. TokenizerInit
  BY <1>3 DEF ScannersInit, TokenizerInit, Init
<1>5. Inv
  BY <1>4, InvInit
<1>6. Len(text) = n
  BY <1>2, <1>3, LenProperties, SeqDef
<1>7. /\ pc = "round" /\ locked = None /\ pos = 0 /\ mark = 0 /\ tokens = <<>> /\ inComment = FALSE
  BY DEF ScannersInit, DriverInit, AtStart, CommentInit
<1>8. ~Matching /\ \A name : ~Doing(name)
  BY <1>7 DEF Matching, Doing
<1>9. SetupInv
  BY <1>1, <1>2, <1>6 DEF SetupInv
<1>10. Len(tokens) = 0
  BY <1>7
<1> QED
  BY <1>5, <1>7, <1>8, <1>9, <1>10 DEF Fits, WindowInv, LockInv, BudgetInv, CountInv

LEMMA FitsNext == Fits /\ [ScannersNext]_<<vars, scannerVars>> => Fits' /\ Allowed
<1> SUFFICES ASSUME Fits, [ScannersNext]_<<vars, scannerVars>> PROVE Fits' /\ Allowed
  OBVIOUS
<1>1. Unlocked
  BY DEF Fits, Unlocked
<1>2. CASE Driver
  BY <1>2, DriverFits DEF Allowed
<1>3. CASE CommentNext
  BY <1>1, <1>3, CommentFits DEF Fits, Unlocked
<1>4. CASE (Whitespace \/ QString \/ Number \/ Keyword \/ Identifier \/ PlainText)
           /\ UNCHANGED commentVars
  <2>1. /\ Unlocked' /\ Allowed /\ UNCHANGED <<pc, current, locked, setup>>
        /\ state' = "Init" => state = "Init" /\ UNCHANGED <<mark, roundMark>>
        /\ \E name \in {"whitespace", "qstring", "number", "keyword", "identifier", "plaintext"} :
              Doing(name)
    BY <1>1, <1>4, WhitespaceFits, QStringFits, NumberFits, KeywordFits, IdentifierFits,
       PlainTextFits
  <2>2. Matching /\ ~Doing("comment")
    BY <2>1 DEF Doing
  <2>3. LockInv'
    BY <1>4, <2>1, <2>2, OthersKeepLock DEF Fits, commentVars
  <2> QED
    BY <2>1, <2>3 DEF Fits, Unlocked
<1>5. CASE UNCHANGED <<vars, scannerVars>>
  <2>1. UNCHANGED vars /\ UNCHANGED bufferVars /\ UNCHANGED driverVars
        /\ UNCHANGED matchVars /\ UNCHANGED commentVars
    BY <1>5 DEF vars, scannerVars
  <2>2. Inv'
    BY <2>1, InvNext DEF Fits
  <2> QED
    BY <2>1, <2>2
    DEF Fits, SetupInv, WindowInv, LockInv, BudgetInv, CountInv, Matching, Doing, Untaken, Taken,
        AtEnd, bufferVars, driverVars, matchVars, commentVars, Allowed
<1> QED
  BY <1>2, <1>3, <1>4, <1>5 DEF ScannersNext, Scanner

-----------------------------------------------------------------------------
(* The theorems.                                                           *)

\* However they are configured, the scanners do what Tokenizer allows any
\* scanner, but for NumberScanner's period after leading zeroes.
THEOREM ScannersAreScanners == ScannersSpec => ScannersAreAllowed
<1>1. Fits /\ [ScannersNext]_<<vars, scannerVars>> => Fits' /\ [Next \/ CutsAfterZeroes]_vars
  BY FitsNext DEF Allowed
<1> QED
  BY <1>1, FitsInit, PTL DEF ScannersSpec, ScannersAreAllowed

\* The oassert in match_token() never fails: the scanner that holds the lock
\* always finds the next line of its comment.
THEOREM LockedScannerAlwaysSucceeds == ScannersSpec => []LockedScannerSucceeds
<1>1. Fits => LockedScannerSucceeds
  BY DEF Fits, LockInv, LockedScannerSucceeds
<1> QED
  BY <1>1, FitsInit, FitsNext, PTL DEF ScannersSpec

\* No text is lost, taken twice or put out of order by the scanners, also not
\* after leading zeroes.
THEOREM ScannersTileTheText == ScannersSpec => []TextIsTiled
<1>1. Fits => TextIsTiled
  BY Sizes, TiledIsTextIsTiled DEF Fits
<1> QED
  BY <1>1, FitsInit, FitsNext, PTL DEF ScannersSpec

\* tokenize() with the scanners returns one end of file, at the end.
THEOREM ScannersEndWithEndOfFile == ScannersSpec => []EndsWithEndOfFile
<1>1. Fits => EndsWithEndOfFile
  BY DEF Fits, Inv
<1> QED
  BY <1>1, FitsInit, FitsNext, PTL DEF ScannersSpec

\* The texts of the scanners have positive characters only: every round of
\* match_token() takes text or is the last one.
THEOREM ScannersMakeProgress == ScannersSpec => [](pc = "eof" /\ mark = roundMark => AtEnd)
<1>1. Fits => (pc = "eof" /\ mark = roundMark => AtEnd)
  <2> SUFFICES ASSUME Fits, pc = "eof", mark = roundMark, ~AtEnd PROVE FALSE
    OBVIOUS
  <2>1. pos = mark /\ ~IsPositive(text[mark + 1])
    BY DEF Fits, Inv, StuckOnlyAtNonPositive, WindowInv
  <2>2. mark + 1 \in 1..Len(text)
    BY <2>1, Sizes DEF Fits, AtEnd
  <2> QED
    BY <2>1, <2>2, PeekFacts DEF Fits
<1> QED
  BY <1>1, FitsInit, FitsNext, PTL DEF ScannersSpec

\* The lines and columns of the tokens are those of the text, whatever the
\* scanners drop, replace or split.
THEOREM ScannersFollowTheText == ScannersSpec => []LocationFollowsText
<1>1. ScannersInit => Located
  <2> SUFFICES ASSUME ScannersInit PROVE Located
    OBVIOUS
  <2>1. mark = 0 /\ loc.line = 1 /\ loc.column = 1
    BY DEF ScannersInit, AtStart
  <2>2. EndsUpTo(mark) = {} /\ 1..mark = {}
    <3>1. Len(text) \in Nat
      BY FitsInit, Sizes DEF Fits
    <3> QED
      BY <2>1, <3>1 DEF EndsUpTo, LineEnds
  <2>3. {i \in 1..mark : \A b \in EndsUpTo(mark) : b < i} = {}
    BY <2>2
  <2> QED
    BY <2>1, <2>2, <2>3, FS_EmptySet DEF Located
<1>2. Fits /\ Located /\ Allowed => Located'
  <2>1. CutsAfterZeroes => UNCHANGED Behind
    BY DEF CutsAfterZeroes, NumberDropsPeriod, Edits, PartialRewind, Behind
  <2>2. Located /\ UNCHANGED Behind => Located'
    BY DEF Behind, Located, EndsUpTo, LineEnds, CrLfAt
  <2> QED
    BY <2>1, <2>2, LocatedNext DEF Allowed, Fits
<1>3. Fits /\ Located => LocationFollowsText
  BY LocatedFollowsText DEF Fits, Inv, Tiled
<1> QED
  BY <1>1, <1>2, <1>3, FitsInit, FitsNext, PTL DEF ScannersSpec

-----------------------------------------------------------------------------
(* The tokens that the scanners make.                                      *)

\* A step makes no token, or one of these codes that starts at the last one.
Makes(codes) ==
    \/ tokens' = tokens
    \/ \E code \in codes : \E value : \E last :
          tokens' = Append(tokens, [start |-> loc, end |-> LocationAfter(last),
                                    code |-> code, value |-> value])

LEMMA AcceptMakes ==
    ASSUME NEW codes, NEW code \in codes, NEW value, NEW last, AcceptTo(last, code, value)
    PROVE  Makes(codes)
BY DEF AcceptTo, SkipTo, Makes

LEMMA AcceptTokenMakes ==
    ASSUME NEW codes, NEW code \in codes, NEW place, AcceptToken(code, place)
    PROVE  Makes(codes)
BY AcceptMakes DEF AcceptToken, Accepts

LEMMA AcceptErrorMakes ==
    ASSUME NEW codes, "Error" \in codes, NEW place, AcceptError(place)
    PROVE  Makes(codes)
BY AcceptMakes DEF AcceptError, Accepts

LEMMA NothingMakes == ASSUME NEW codes, tokens' = tokens PROVE Makes(codes)
BY DEF Makes

LEMMA EditMakes ==
    ASSUME NEW codes, NEW place,
           \/ Edits(Push, place) \/ Edits(PushOther, place) \/ Edits(Discard, place)
           \/ GoesTo(place)
    PROVE  Makes(codes) /\ tokens' = tokens
BY DEF Edits, Push, PushOther, Discard, GoesTo, bufferVars, Makes

LEMMA NewlineMakes ==
    ASSUME NEW codes, NEW here, NEW place, TakesNewline(here, place)
    PROVE  Makes(codes)
BY EditMakes DEF TakesNewline

\* Which scanner makes which tokens.
LEMMA TokenMakers ==
    /\ Driver => Makes({"ByChar", "EndOfFile"})
    /\ Whitespace => Makes({"Whitespace", "NewLine"})
    /\ QString => Makes({"Quoted", "Unclosed"})
    /\ Number => Makes({"Integer", "Float", "HexNumber", "Error"})
    /\ Keyword => Makes({"Keyword"})
    /\ Identifier => Makes({"Identifier"})
    /\ PlainText => Makes({"Text", "NewLine"})
    /\ CommentNext => Makes({"Comment", "NewLine", "Error"})
<1>1. ASSUME Driver PROVE Makes({"ByChar", "EndOfFile"})
  <2>1. CASE StartRound
    BY <2>1, NothingMakes DEF StartRound, Offer, OfferAfter, RewindTo
  <2>2. CASE MatchEnds
    BY <2>2, NothingMakes DEF MatchEnds, Offer, OfferAfter, RewindTo, bufferVars
  <2>3. CASE CatchAll
    BY <2>3, AcceptMakes, NothingMakes DEF CatchAll, bufferVars
  <2>4. CASE EndRound
    BY <2>4, AcceptMakes, NothingMakes DEF EndRound, bufferVars
  <2> QED
    BY <1>1, <2>1, <2>2, <2>3, <2>4 DEF Driver
<1>2. ASSUME Whitespace PROVE Makes({"Whitespace", "NewLine"})
  <2>1. ASSUME NEW option, NEW code \in {"Whitespace", "NewLine"}, NEW place,
               FinishWhitespace(option, code, place)
        PROVE  Makes({"Whitespace", "NewLine"})
    BY <2>1, AcceptTokenMakes, NothingMakes DEF FinishWhitespace, Accepts, Skip, SkipTo
  <2> QED
    BY <1>2, <2>1, EditMakes, NewlineMakes
    DEF Whitespace, WhitespaceStarts, WhitespaceGoesOn, WhitespaceTakesNewline,
        WhitespaceEndsLine, Returns
<1>3. ASSUME QString PROVE Makes({"Quoted", "Unclosed"})
  BY <1>3, EditMakes, AcceptTokenMakes
  DEF QString, QStringStarts, QStringGoesOn, QStringCloses, QStringEscapes, QStringIsUnclosed,
      Drops, Returns
<1>4. ASSUME Number PROVE Makes({"Integer", "Float", "HexNumber", "Error"})
  <2>1. CASE NumberMovesOn
    BY <2>1, NothingMakes DEF NumberMovesOn, Edits, Chop, Push
  <2>2. CASE NumberDropsPeriod
    BY <2>2, NothingMakes DEF NumberDropsPeriod, Edits, PartialRewind
  <2>3. CASE NumberEnds
    <3>1. CASE AcceptToken("Integer", "returned")
      BY <3>1, AcceptTokenMakes
    <3>2. CASE \E place \in NumberStates \ {"period"} :
                 IF place \notin DOMAIN NumberCodes THEN Returns
                 ELSE IF NumberCodes[place] = "Error" THEN AcceptError("returned")
                 ELSE AcceptToken(NumberCodes[place], "returned")
      <4>1. \A place \in DOMAIN NumberCodes :
               NumberCodes[place] \in {"Integer", "Float", "HexNumber", "Error"}
        BY DEF NumberCodes
      <4> QED
        BY <3>2, <4>1, EditMakes, AcceptTokenMakes, AcceptErrorMakes DEF Returns
    <3> QED
      BY <2>3, <3>1, <3>2 DEF NumberEnds
  <2> QED
    BY <1>4, <2>1, <2>2, <2>3 DEF Number
<1>5. ASSUME Keyword PROVE Makes({"Keyword"})
  BY <1>5, EditMakes, AcceptTokenMakes DEF Keyword, KeywordGoesOn, KeywordEnds, Returns
<1>6. ASSUME Identifier PROVE Makes({"Identifier"})
  BY <1>6, EditMakes, AcceptTokenMakes DEF Identifier, Returns
<1>7. ASSUME PlainText PROVE Makes({"Text", "NewLine"})
  BY <1>7, EditMakes, AcceptTokenMakes DEF PlainText, PlainTextGoesOn, Returns
<1>8. ASSUME CommentNext PROVE Makes({"Comment", "NewLine", "Error"})
  <2>1. CASE CommentStarts \/ CommentReadsMarker
    BY <2>1, EditMakes DEF CommentStarts, CommentReadsMarker, Returns
  <2>2. CASE CommentReadsLine
    BY <2>2, EditMakes, AcceptTokenMakes DEF CommentReadsLine
  <2>3. CASE CommentReadsText \/ CommentReadsEnding
    BY <2>3, EditMakes, AcceptTokenMakes DEF CommentReadsText, CommentReadsEnding, CommentSplits
  <2>4. CASE CommentIsComplete \/ CommentAcceptsNewline
    BY <2>4, AcceptTokenMakes DEF CommentIsComplete, CommentAcceptsNewline
  <2>5. CASE CommentUnlocks \/ CommentLocks
    BY <2>5, NothingMakes DEF CommentUnlocks, CommentLocks, Locks, bufferVars
  <2>6. CASE CommentTakesNewline
    BY <2>6, NewlineMakes DEF CommentTakesNewline
  <2>7. CASE CommentIsUnterminated
    BY <2>7, AcceptErrorMakes DEF CommentIsUnterminated
  <2> QED
    BY <1>8, <2>1, <2>2, <2>3, <2>4, <2>5, <2>6, <2>7 DEF CommentNext
<1> QED
  BY <1>1, <1>2, <1>3, <1>4, <1>5, <1>6, <1>7, <1>8

LEMMA Appended ==
    ASSUME NEW S, NEW s \in Seq(S), NEW x
    PROVE  /\ Len(Append(s, x)) = Len(s) + 1
           /\ \A k \in 1..Len(s) : Append(s, x)[k] = s[k]
           /\ Append(s, x)[Len(s) + 1] = x
OBVIOUS

\* The step that makes a token of a code.
MadeBy(code) ==
    \/ Driver /\ code \in {"ByChar", "EndOfFile"}
    \/ Whitespace /\ code \in {"Whitespace", "NewLine"}
    \/ QString /\ code \in {"Quoted", "Unclosed"}
    \/ Number /\ code \in {"Integer", "Float", "HexNumber", "Error"}
    \/ Keyword /\ code = "Keyword"
    \/ Identifier /\ code = "Identifier"
    \/ PlainText /\ code \in {"Text", "NewLine"}
    \/ CommentNext /\ code \in {"Comment", "NewLine", "Error"}

\* The text and the configuration stay what they are, and so do the tokens
\* there are.
LEMMA TokensStay ==
    ASSUME Fits, [ScannersNext]_<<vars, scannerVars>>
    PROVE  /\ UNCHANGED <<text, setup>>
           /\ \A k \in 1..Len(tokens) : tokens'[k] = tokens[k]
           /\ \A k \in 1..Len(tokens') : k \in 1..Len(tokens) \/ MadeBy(tokens'[k].code)
<1>1. text' = text /\ setup' = setup
  <2>1. setup' = setup
    <3>1. Unlocked
      BY DEF Fits, Unlocked
    <3>2. CASE Driver
      BY <3>2 DEF Driver
    <3>3. CASE CommentNext
      BY <3>3
      DEF CommentNext, CommentStarts, CommentReadsMarker, CommentReadsLine, CommentReadsText,
          CommentReadsEnding, CommentIsComplete, CommentUnlocks, CommentTakesNewline,
          CommentAcceptsNewline, CommentLocks, CommentIsUnterminated, CommentSplits,
          Edits, AcceptToken, AcceptError, Accepts, GoesTo, Returns, Locks, TakesNewline
    <3>4. CASE (Whitespace \/ QString \/ Number \/ Keyword \/ Identifier \/ PlainText)
               /\ UNCHANGED commentVars
      BY <3>1, <3>4, WhitespaceFits, QStringFits, NumberFits, KeywordFits, IdentifierFits,
         PlainTextFits
    <3>5. CASE UNCHANGED <<vars, scannerVars>>
      BY <3>5 DEF scannerVars, matchVars
    <3> QED
      BY <3>2, <3>3, <3>4, <3>5 DEF ScannersNext, Scanner
  <2>2. text' = text
    <3>1. Next \/ CutsAfterZeroes \/ UNCHANGED vars
      BY FitsNext DEF Allowed
    <3>2. Next => text' = text
      BY DEF Next, StartRound, MatchReturns, MatchEnds, CatchAll, EndRound, ScannerEdits,
             ScannerLocks, ScannerAccepts, OfferAfter, Offer, RewindTo, AcceptTo, SkipTo, PassTo,
             Skip, Push, PushOther, Discard, Chop, PartialRewind, bufferVars
    <3>3. CutsAfterZeroes => text' = text
      BY DEF CutsAfterZeroes, NumberDropsPeriod, Edits, PartialRewind
    <3>4. UNCHANGED vars => text' = text
      BY DEF vars, bufferVars
    <3> QED
      BY <3>1, <3>2, <3>3, <3>4
  <2> QED
    BY <2>1, <2>2
<1>2. tokens \in Seq(Token) /\ Len(tokens) \in Nat
  BY Sizes DEF Fits, BufferOK
<1>3. CASE tokens' = tokens
  BY <1>1, <1>3
<1>4. ASSUME NEW codes, Makes(codes), \A code \in codes : MadeBy(code)
      PROVE  /\ \A k \in 1..Len(tokens) : tokens'[k] = tokens[k]
             /\ \A k \in 1..Len(tokens') : k \in 1..Len(tokens) \/ MadeBy(tokens'[k].code)
  <2>1. SUFFICES ASSUME NEW code \in codes, NEW value, NEW last,
                        tokens' = Append(tokens, [start |-> loc, end |-> LocationAfter(last),
                                                  code |-> code, value |-> value])
                 PROVE  /\ \A k \in 1..Len(tokens) : tokens'[k] = tokens[k]
                        /\ \A k \in 1..Len(tokens') :
                              k \in 1..Len(tokens) \/ MadeBy(tokens'[k].code)
    BY <1>3, <1>4 DEF Makes
  <2>2. /\ Len(tokens') = Len(tokens) + 1
        /\ \A k \in 1..Len(tokens) : tokens'[k] = tokens[k]
        /\ tokens'[Len(tokens) + 1].code = code
    BY <1>2, <2>1, Appended
  <2>3. \A k \in 1..Len(tokens') : k \in 1..Len(tokens) \/ k = Len(tokens) + 1
    BY <1>2, <2>2
  <2> QED
    BY <1>4, <2>2, <2>3
<1>5. CASE UNCHANGED <<vars, scannerVars>>
  BY <1>1, <1>3, <1>5 DEF vars, bufferVars
<1> QED
  BY <1>1, <1>4, <1>5, TokenMakers DEF ScannersNext, Scanner, MadeBy

\* A token that is accepted is the window.
LEMMA AcceptedIs ==
    ASSUME Inv, NEW code, NEW value, AcceptTo(pos, code, value),
           NEW k \in 1..Len(tokens'), k \notin 1..Len(tokens)
    PROVE  /\ First(tokens'[k]) = mark + 1 /\ Last(tokens'[k]) = pos
           /\ tokens'[k].code = code /\ tokens'[k].value = value
<1>1. tokens \in Seq(Token) /\ Len(tokens) \in Nat /\ mark \in Nat /\ pos \in Nat
      /\ BufferOK /\ Tiled
  BY Sizes DEF BufferOK
<1>2. tokens' = Append(tokens, [start |-> loc, end |-> LocationAfter(pos), code |-> code,
                                value |-> value])
  BY DEF AcceptTo, SkipTo
<1>3. tokens'[k] = [start |-> loc, end |-> LocationAfter(pos), code |-> code, value |-> value]
  <2>1. Len(tokens') = Len(tokens) + 1
    BY <1>1, <1>2, Appended
  <2>2. k = Len(tokens) + 1
    BY <1>1, <2>1
  <2> QED
    BY <1>1, <1>2, <2>2, Appended
<1>4. loc.index = mark
  BY <1>1 DEF Tiled
<1>5. LocationAfter(pos).index = pos
  <2>1. pos \in mark..Len(text)
    BY <1>1 DEF BufferOK
  <2>2. LocationAfter(pos).index = mark + (pos - mark)
    BY <1>1, <1>4, <2>1, LocationAfterType
  <2> QED
    BY <1>1, <2>2
<1> QED
  BY <1>3, <1>4, <1>5 DEF First, Last

-----------------------------------------------------------------------------
(* What a string means.                                                    *)

\* How many times in a row a character stands before the one after i.
LEMMA RunGrows ==
    ASSUME NEW ch, NEW first \in Nat, NEW i \in Nat, first <= i
    PROVE  /\ RunBefore(ch, first, first) = 0
           /\ RunBefore(ch, first, i) \in Nat
           /\ RunBefore(ch, first, i + 1) =
                 IF text[i] = ch THEN RunBefore(ch, first, i) + 1 ELSE 0
<1> DEFINE run(m) == {j \in first..m - 1 : \A k \in j..m - 1 : text[k] = ch}
<1>1. run(first) = {}
  OBVIOUS
<1>2. IsFiniteSet(run(i)) /\ i \notin run(i)
  <2>1. run(i) \subseteq first..i - 1
    OBVIOUS
  <2>2. IsFiniteSet(first..i - 1)
    BY FS_Interval
  <2> QED
    BY <2>1, <2>2, FS_Subset
<1>3. CASE text[i] = ch
  <2>1. run(i + 1) = run(i) \union {i}
    <3>1. ASSUME NEW j \in first..i
          PROVE  (\A k \in j..i : text[k] = ch)
                   <=> j = i \/ \A k \in j..i - 1 : text[k] = ch
      <4>1. j..i = (j..i - 1) \union {i}
        OBVIOUS
      <4>2. j = i => j..i - 1 = {}
        OBVIOUS
      <4> QED
        BY <1>3, <4>1, <4>2
    <3>2. (i + 1) - 1 = i /\ first..i = (first..i - 1) \union {i}
      OBVIOUS
    <3> QED
      BY <3>1, <3>2
  <2>2. Cardinality(run(i) \union {i}) = Cardinality(run(i)) + 1
    BY <1>2, FS_AddElement
  <2> QED
    BY <1>1, <1>2, <1>3, <2>1, <2>2, FS_EmptySet, FS_CardinalityType DEF RunBefore
<1>4. CASE text[i] # ch
  <2>1. run(i + 1) = {}
    <3>1. \A j \in first..i : i \in j..i
      OBVIOUS
    <3>2. (i + 1) - 1 = i
      OBVIOUS
    <3> QED
      BY <1>4, <3>1, <3>2
  <2> QED
    BY <1>1, <1>2, <1>4, <2>1, FS_EmptySet, FS_CardinalityType DEF RunBefore
<1> QED
  BY <1>3, <1>4

LEMMA BackslashRun ==
    ASSUME NEW first \in Nat, NEW i \in Nat, first <= i
    PROVE  /\ BackslashesBefore(first, first) = 0
           /\ BackslashesBefore(first, i) \in Nat
           /\ BackslashesBefore(first, i + 1) =
                 IF text[i] = Backslash THEN BackslashesBefore(first, i) + 1 ELSE 0
BY RunGrows DEF BackslashesBefore

\* A character of a string is escaped if the one before it escapes; the first
\* one is not.
LEMMA EscapedAfterEscape ==
    ASSUME NEW a \in Nat
    PROVE  /\ ~IsEscaped(a, a + 1)
           /\ \A i \in Nat : i > a => (IsEscaped(a, i + 1) <=> IsEscape(a, i))
<1>1. ~IsEscaped(a, a + 1)
  BY BackslashRun DEF IsEscaped
<1>2. ASSUME NEW i \in Nat, i > a
      PROVE  IsEscaped(a, i + 1) <=> IsEscape(a, i)
  <2> DEFINE n == BackslashesBefore(a + 1, i)
  <2>1. /\ n \in Nat
        /\ BackslashesBefore(a + 1, i + 1) = IF text[i] = Backslash THEN n + 1 ELSE 0
    BY <1>2, BackslashRun
  <2> HIDE DEF n
  <2>2. (n + 1) % 2 = 1 <=> ~(n % 2 = 1)
    BY <2>1
  <2>3. 0 % 2 = 0
    OBVIOUS
  <2>4. IsEscape(a, i) <=> ~setup.verbatim /\ text[i] = Backslash /\ ~(n % 2 = 1)
    BY DEF IsEscape, IsEscaped, n
  <2>5. IsEscaped(a, i + 1) <=>
           ~setup.verbatim /\ (IF text[i] = Backslash THEN n + 1 ELSE 0) % 2 = 1
    BY <2>1 DEF IsEscaped
  <2> QED
    BY <2>2, <2>3, <2>4, <2>5
<1> QED
  BY <1>1, <1>2

\* The characters of the string at a that its value has.
Kept(a, first, last) == {i \in first..last : ~IsEscape(a, i)}

Meaning(a, i) == IF IsEscaped(a, i) /\ text[i] \in Escapes THEN Foreign ELSE i

Rank(kept, i) == Cardinality({j \in kept : j <= i})

LEMMA IsDecodedIs ==
    ASSUME NEW value, NEW a, NEW first, NEW last
    PROVE  IsDecoded(value, a, first, last) <=>
              /\ Len(value) = Cardinality(Kept(a, first, last))
              /\ \A i \in Kept(a, first, last) :
                    value[Rank(Kept(a, first, last), i)] = Meaning(a, i)
BY DEF IsDecoded, Kept, Meaning, Rank

\* Nothing means the empty value.
LEMMA DecodedEmpty ==
    ASSUME NEW a, NEW first \in Nat, NEW last \in Nat, first > last, NEW value, Len(value) = 0
    PROVE  IsDecoded(value, a, first, last)
<1>1. Kept(a, first, last) = {}
  BY DEF Kept
<1> QED
  BY <1>1, IsDecodedIs, FS_EmptySet

\* An escaping character adds nothing to the value.
LEMMA DecodedSkips ==
    ASSUME NEW a, NEW first \in Nat, NEW last \in Nat, first <= last + 1, NEW value,
           IsDecoded(value, a, first, last), IsEscape(a, last + 1)
    PROVE  IsDecoded(value, a, first, last + 1)
<1>1. Kept(a, first, last + 1) = Kept(a, first, last)
  <2>1. first..last + 1 = (first..last) \union {last + 1}
    OBVIOUS
  <2> QED
    BY <2>1 DEF Kept
<1> QED
  BY <1>1, IsDecodedIs

\* Any other one adds itself, or what it stands for.
LEMMA DecodedAppends ==
    ASSUME NEW a, NEW first \in Nat, NEW last \in Nat, first <= last + 1,
           NEW value \in Seq(Positions), Meaning(a, last + 1) \in Positions,
           IsDecoded(value, a, first, last), ~IsEscape(a, last + 1)
    PROVE  IsDecoded(Append(value, Meaning(a, last + 1)), a, first, last + 1)
<1> DEFINE kept == Kept(a, first, last)
           new == Append(value, Meaning(a, last + 1))
<1>1. Kept(a, first, last + 1) = kept \union {last + 1}
  <2>1. first..last + 1 = (first..last) \union {last + 1}
    OBVIOUS
  <2> QED
    BY <2>1 DEF Kept
<1>2. IsFiniteSet(kept) /\ kept \subseteq Nat /\ \A i \in kept : i <= last
  <2>1. kept \subseteq first..last
    BY DEF Kept
  <2>2. IsFiniteSet(first..last)
    BY FS_Interval
  <2> QED
    BY <2>1, <2>2, FS_Subset
<1>3. /\ Len(value) = Cardinality(kept)
      /\ \A i \in kept : value[Rank(kept, i)] = Meaning(a, i)
  BY IsDecodedIs
<1>4. Len(value) \in Nat
  OBVIOUS
<1> HIDE DEF kept
<1> DEFINE both == kept \union {last + 1}
<1>5. Cardinality(both) = Len(value) + 1
  <2>1. last + 1 \notin kept
    BY <1>2
  <2> QED
    BY <1>2, <1>3, <2>1, FS_AddElement
<1>6. \A i \in kept : Rank(both, i) = Rank(kept, i) /\ Rank(kept, i) \in 1..Len(value)
  <2> SUFFICES ASSUME NEW i \in kept
               PROVE  Rank(both, i) = Rank(kept, i) /\ Rank(kept, i) \in 1..Len(value)
    OBVIOUS
  <2> DEFINE upTo == {j \in kept : j <= i}
  <2>1. {j \in both : j <= i} = upTo
    BY <1>2
  <2>2. IsFiniteSet(upTo) /\ Cardinality(upTo) <= Cardinality(kept)
    BY <1>2, FS_Subset
  <2>3. i \in upTo
    <3>1. i \in Nat
      BY <1>2
    <3>2. i <= i
      BY <3>1
    <3> QED
      BY <3>2
  <2>4. Cardinality(upTo) \in Nat /\ Cardinality(upTo) # 0
    BY <2>2, <2>3, FS_CardinalityType, FS_EmptySet
  <2>5. Rank(both, i) = Cardinality(upTo) /\ Rank(kept, i) = Cardinality(upTo)
    BY <2>1 DEF Rank
  <2> HIDE DEF upTo
  <2> QED
    BY <1>3, <1>4, <2>2, <2>4, <2>5
<1>7. Rank(both, last + 1) = Len(value) + 1
  <2>1. \A j \in both : j <= last + 1
    <3>1. \A j \in kept : j <= last + 1
      BY <1>2
    <3>2. last + 1 <= last + 1
      OBVIOUS
    <3> QED
      BY <3>1, <3>2
  <2>2. {j \in both : j <= last + 1} = both
    BY <2>1, Zenon
  <2> QED
    BY <1>5, <2>2 DEF Rank
<1>8. /\ Len(new) = Len(value) + 1
      /\ \A n \in 1..Len(value) : new[n] = value[n]
      /\ new[Len(value) + 1] = Meaning(a, last + 1)
  OBVIOUS
<1> HIDE DEF new
<1>9. \A i \in both : new[Rank(both, i)] = Meaning(a, i)
  <2>1. \A i \in kept : new[Rank(both, i)] = Meaning(a, i)
    BY <1>3, <1>6, <1>8
  <2>2. new[Rank(both, last + 1)] = Meaning(a, last + 1)
    BY <1>7, <1>8
  <2> QED
    BY <2>1, <2>2
<1>10. IsDecoded(new, a, first, last + 1)
  BY <1>1, <1>5, <1>8, <1>9, IsDecodedIs
<1> QED
  BY <1>10 DEF new

-----------------------------------------------------------------------------
(* What QStringScanner remembers while it is in a string.                  *)

\* The window opens a string and has not closed it, and the token string is
\* what it means so far.
OpenString ==
    LET a == mark + 1
    IN  /\ a <= pos /\ text[a] = memo /\ memo \in setup.quotes
        /\ \A i \in a + 1..pos : Closes(a, i) <=> at = "closed" /\ i = pos
        /\ at = "closed" => a < pos
        /\ at # "closed" => (IsEscaped(a, pos + 1) <=> at = "escape")
        /\ IF setup.verbatim THEN tokenString = <<>>
           ELSE /\ tokenString # <<>>
                /\ IsDecoded(tokenString[1], a, a + 1, IF at = "closed" THEN pos - 1 ELSE pos)

StringInv ==
    Doing("qstring") =>
        /\ at = "start" => pos = mark /\ tokenString = <<>>
        /\ at \in {"string", "closed", "escape"} => OpenString

\* A text is read in the same way as long as it is the same.
LEMMA SameReading ==
    ASSUME text' = text, setup' = setup
    PROVE  /\ \A a, i : IsEscaped(a, i)' <=> IsEscaped(a, i)
           /\ \A a, i : Closes(a, i)' <=> Closes(a, i)
           /\ \A value, a, first, last :
                 IsDecoded(value, a, first, last)' <=> IsDecoded(value, a, first, last)
<1>1. \A a, i : IsEscaped(a, i)' <=> IsEscaped(a, i)
  BY DEF IsEscaped, BackslashesBefore, RunBefore
<1>2. \A a, i : Closes(a, i)' <=> Closes(a, i)
  BY <1>1 DEF Closes
<1>3. \A value, a, first, last :
         IsDecoded(value, a, first, last)' <=> IsDecoded(value, a, first, last)
  BY DEF IsDecoded, IsEscape, IsEscaped, BackslashesBefore, RunBefore
<1> QED
  BY <1>1, <1>2, <1>3

\* One more character in the string: at is where the scanner goes, value what
\* the token string becomes.
LEMMA StringGrows ==
    ASSUME Unlocked, Matching, Doing("qstring"), UNCHANGED <<text, mark, setup>>,
           pos' = pos + 1, pos < Len(text), memo' = memo,
           at \in {"string", "escape"}, OpenString,
           \/ /\ at = "string" /\ at' = "closed" /\ text[pos + 1] = memo
              /\ tokenString' = IF setup.verbatim THEN <<>> ELSE tokenString
           \/ /\ at = "string" /\ at' = "escape" /\ ~setup.verbatim /\ text[pos + 1] = Backslash
              /\ tokenString' = tokenString
           \/ /\ at' = "string"
              /\ at = "string" => text[pos + 1] # memo /\ (text[pos + 1] # Backslash \/ setup.verbatim)
              /\ tokenString' = IF setup.verbatim THEN <<>>
                                ELSE <<Append(tokenString[1], Meaning(mark + 1, pos + 1))>>
    PROVE  OpenString'
<1> DEFINE a == mark + 1
           p == pos + 1
<1>1. /\ mark \in Nat /\ pos \in Nat /\ a \in Nat /\ p \in Nat /\ a <= pos /\ p > a
      /\ pos' = p /\ mark' = mark
  <2>1. mark \in Nat /\ pos \in Nat
    BY Sizes DEF Unlocked
  <2>2. a <= pos
    BY DEF OpenString
  <2> QED
    BY <2>1, <2>2
<1>2. /\ \A i : IsEscaped(a, i)' <=> IsEscaped(a, i)
      /\ \A i : Closes(a, i)' <=> Closes(a, i)
      /\ \A value, first, last : IsDecoded(value, a, first, last)' <=> IsDecoded(value, a, first, last)
  BY <1>1, SameReading
<1>3. /\ text[a] = memo /\ memo \in setup.quotes /\ memo # Backslash
      /\ \A i \in a + 1..pos : ~Closes(a, i)
      /\ IsEscaped(a, p) <=> at = "escape"
      /\ IsEscaped(a, p + 1) <=> IsEscape(a, p)
  <2>1. setup.quotes \intersect {Nul, Backslash} = {}
    BY SetupsAssumption DEF Unlocked, SetupInv
  <2>2. IsEscaped(a, p + 1) <=> IsEscape(a, p)
    BY <1>1, EscapedAfterEscape
  <2> QED
    BY <2>1, <2>2 DEF OpenString
<1>4. at' = "closed" <=> Closes(a, p)
  BY <1>3 DEF Closes
<1>5. at' # "closed" => (IsEscaped(a, p + 1) <=> at' = "escape")
  BY <1>3 DEF IsEscape
<1>6. \A i \in a + 1..p : Closes(a, i) <=> at' = "closed" /\ i = p
  <2>1. a + 1..p = (a + 1..pos) \union {p} /\ p \notin a + 1..pos
    BY <1>1
  <2> QED
    BY <1>3, <1>4, <2>1
<1>7. IF setup.verbatim THEN tokenString' = <<>>
      ELSE /\ tokenString' # <<>>
           /\ IsDecoded(tokenString'[1], a, a + 1, IF at' = "closed" THEN pos ELSE p)
  <2>1. CASE setup.verbatim
    BY <2>1 DEF OpenString
  <2>2. CASE ~setup.verbatim
    <3>1. tokenString # <<>> /\ IsDecoded(tokenString[1], a, a + 1, pos)
      BY <2>2 DEF OpenString
    <3>2. CASE at' = "closed"
      BY <2>2, <3>1, <3>2
    <3>3. CASE at' = "escape"
      <4>1. IsEscape(a, p) /\ tokenString' = tokenString
        BY <1>3, <1>5, <3>3
      <4> QED
        BY <1>1, <2>2, <3>1, <3>3, <4>1, DecodedSkips
    <3>4. CASE at' = "string"
      <4>1. ~IsEscape(a, p) /\ tokenString' = <<Append(tokenString[1], Meaning(a, p))>>
        BY <1>3, <1>5, <2>2, <3>4
      <4>2. tokenString[1] \in Seq(Positions)
        BY <3>1, Sizes, EmptySeq, LenProperties DEF BufferOK, Unlocked
      <4>3. Meaning(a, p) \in Positions
        BY <1>1, Sizes DEF Meaning, Foreign, Positions, Unlocked
      <4>4. IsDecoded(Append(tokenString[1], Meaning(a, p)), a, a + 1, p)
        BY <1>1, <3>1, <4>1, <4>2, <4>3, DecodedAppends
      <4> QED
        BY <2>2, <3>4, <4>1, <4>4
    <3> QED
      BY <3>2, <3>3, <3>4
  <2> QED
    BY <2>1, <2>2
<1>8. p - 1 = pos /\ a < p /\ a <= p
  BY <1>1
<1>9. ASSUME NEW b, NEW q, b = a, q = p
      PROVE  OpenString'
  <2>1. mark' + 1 = b /\ pos' = q /\ q - 1 = pos /\ UNCHANGED <<text, setup, memo>>
    BY <1>1, <1>8, <1>9
  <2>2. \A i \in b + 1..q : Closes(b, i)' <=> at' = "closed" /\ i = q
    BY <1>2, <1>6, <1>9
  <2>3. at' # "closed" => (IsEscaped(b, q + 1)' <=> at' = "escape")
    BY <1>2, <1>5, <1>9
  <2>4. IF setup'.verbatim THEN tokenString' = <<>>
        ELSE /\ tokenString' # <<>>
             /\ IsDecoded(tokenString[1], b, b + 1, IF at = "closed" THEN q - 1 ELSE q)'
    BY <1>2, <1>7, <1>9, <2>1
  <2> HIDE DEF a, p
  <2> QED
    BY <1>3, <1>8, <1>9, <2>1, <2>2, <2>3, <2>4 DEF OpenString
<1> QED
  BY <1>9

\* A token string that is set holds one value.
LEMMA SingleValue ==
    ASSUME NEW S, NEW s \in Seq(S), Len(s) <= 1, s # <<>>
    PROVE  s = <<s[1]>>
<1>1. Len(s) = 1
  <2>1. Len(s) \in Nat /\ Len(s) # 0
    BY EmptySeq, LenProperties
  <2>2. \A n \in Nat : n # 0 /\ n <= 1 => n = 1
    OBVIOUS
  <2> QED
    BY <2>1, <2>2, Zenon
<1>2. s \in [1..1 -> S]
  BY <1>1, LenProperties
<1>3. <<s[1]>> \in [1..1 -> S] /\ <<s[1]>>[1] = s[1]
  BY <1>2
<1>4. \A i \in 1..1 : s[i] = <<s[1]>>[i]
  BY <1>3
<1> QED
  BY <1>2, <1>3, <1>4

LEMMA StringStarts ==
    ASSUME Unlocked, StringInv, QStringStarts
    PROVE  StringInv'
<1>1. Matching /\ Doing("qstring") /\ at = "start" /\ pos = mark /\ tokenString = <<>>
  BY DEF QStringStarts, Running, Doing, StringInv
<1>2. CASE Returns
  BY <1>2 DEF Returns, GoesTo, StringInv
<1>3. CASE Peek \in setup.quotes /\ Drops("string") /\ memo' = Peek
  <2> DEFINE a == mark + 1
  <2>1. ~AtEnd /\ Peek # Nul
    BY <1>3, SetupsAssumption, PeekFacts DEF Unlocked, SetupInv
  <2>2. /\ UNCHANGED <<text, mark, setup>> /\ at' = "string" /\ pos' = a
        /\ tokenString' = IF setup.verbatim THEN <<>> ELSE <<Scanned>>
    BY <1>1, <1>3, <2>1 DEF Drops, Edits, Push, Discard, SkipOne, CurrentToken
  <2>3. mark \in Nat /\ a \in Nat /\ text[a] = Peek
    BY <1>1, <2>1, Sizes DEF Peek, Unlocked
  <2>4. IsDecoded(Scanned, a, a + 1, a)
    <3>1. pos - mark = 0
      BY <1>1, <2>3
    <3>2. Len(Scanned) = 0
      BY <3>1 DEF Scanned
    <3> QED
      BY <2>3, <3>2, DecodedEmpty
  <2>5. ~IsEscaped(a, a + 1)
    BY <2>3, EscapedAfterEscape
  <2>6. /\ \A i : IsEscaped(a, i)' <=> IsEscaped(a, i)
        /\ \A value, first, last :
              IsDecoded(value, a, first, last)' <=> IsDecoded(value, a, first, last)
    BY <2>2, SameReading
  <2>7. a <= a /\ a + 1..a = {}
    BY <2>3
  <2>8. setup.verbatim \/ (tokenString' # <<>> /\ tokenString'[1] = Scanned)
    BY <2>2
  <2>9. OpenString'
    BY <1>3, <2>2, <2>3, <2>4, <2>5, <2>6, <2>7, <2>8 DEF OpenString
  <2> QED
    BY <2>2, <2>9 DEF StringInv
<1> QED
  BY <1>2, <1>3 DEF QStringStarts

LEMMA StringGoesOn ==
    ASSUME Unlocked, StringInv, QStringGoesOn \/ QStringEscapes
    PROVE  StringInv'
<1>1. /\ Matching /\ Doing("qstring") /\ at \in {"string", "escape"} /\ OpenString
      /\ Peek # Nul /\ memo' = memo
      /\ QStringGoesOn => at = "string"
      /\ QStringEscapes => at = "escape"
  BY DEF QStringGoesOn, QStringEscapes, Running, Doing, StringInv
<1>2. ~AtEnd /\ Peek = text[pos + 1] /\ pos < Len(text)
  BY <1>1, Sizes, PeekFacts DEF Unlocked, AtEnd, Peek
<1>3. ASSUME NEW place, Edits(Push, place)
      PROVE  /\ UNCHANGED <<text, mark, setup>> /\ pos' = pos + 1 /\ at' = place
             /\ tokenString' = IF tokenString = <<>> THEN <<>>
                               ELSE <<Append(tokenString[1], pos + 1)>>
  BY <1>2, <1>3 DEF Edits, Push, SkipOne
<1>4. ASSUME NEW place, Edits(PushOther, place)
      PROVE  /\ UNCHANGED <<text, mark, setup>> /\ pos' = pos + 1 /\ at' = place
             /\ tokenString' = <<Append(CurrentToken, Foreign)>>
  BY <1>2, <1>4 DEF Edits, PushOther, SkipOne
<1>5. ASSUME NEW place, Edits(Discard, place)
      PROVE  /\ UNCHANGED <<text, mark, setup>> /\ pos' = pos + 1 /\ at' = place
             /\ tokenString' = <<CurrentToken>>
  BY <1>1, <1>2, <1>5 DEF Edits, Discard, SkipOne
<1>6. IF setup.verbatim THEN tokenString = <<>>
      ELSE tokenString # <<>> /\ <<CurrentToken>> = tokenString /\ CurrentToken = tokenString[1]
  <2>1. tokenString # <<>> => tokenString = <<tokenString[1]>>
    <3>1. tokenString \in Seq(Seq(Positions)) /\ Len(tokenString) <= 1
      BY Sizes DEF BufferOK, Unlocked
    <3> QED
      BY <3>1, SingleValue
  <2> QED
    BY <1>1, <2>1 DEF OpenString, CurrentToken
<1>7. OpenString' /\ UNCHANGED <<pc, current, setup>> /\ at' \in {"string", "closed", "escape"}
  <2>1. CASE QStringGoesOn
    <3>1. CASE Peek = memo /\ Drops("closed")
      <4>1. CASE setup.verbatim
        BY <1>1, <1>2, <1>3, <1>6, <2>1, <3>1, <4>1, StringGrows DEF Drops, Edits
      <4>2. CASE ~setup.verbatim
        BY <1>1, <1>2, <1>5, <1>6, <2>1, <3>1, <4>2, StringGrows DEF Drops, Edits
      <4> QED
        BY <4>1, <4>2
    <3>2. CASE Peek = Backslash /\ ~setup.verbatim /\ Edits(Discard, "escape")
      BY <1>1, <1>2, <1>5, <1>6, <2>1, <3>2, StringGrows DEF Edits
    <3>3. CASE Peek # memo /\ (Peek # Backslash \/ setup.verbatim) /\ Edits(Push, "string")
      <4>1. ~setup.verbatim => Meaning(mark + 1, pos + 1) = pos + 1
        BY <1>1, <2>1 DEF Meaning, OpenString
      <4>2. tokenString' = IF setup.verbatim THEN <<>>
                           ELSE <<Append(tokenString[1], Meaning(mark + 1, pos + 1))>>
        BY <1>3, <1>6, <3>3, <4>1
      <4>3. UNCHANGED <<text, mark, setup>> /\ pos' = pos + 1 /\ at' = "string"
        BY <1>3, <3>3
      <4> QED
        BY <1>1, <1>2, <2>1, <3>3, <4>2, <4>3, StringGrows DEF Edits
    <3> QED
      BY <2>1, <3>1, <3>2, <3>3 DEF QStringGoesOn
  <2>2. CASE QStringEscapes
    <3>1. at = "escape" /\ IsEscaped(mark + 1, pos + 1) /\ ~setup.verbatim
      BY <1>1, <2>2 DEF OpenString, IsEscaped
    <3>2. Edits(IF Peek \in Escapes THEN PushOther ELSE Push, "string")
      BY <2>2 DEF QStringEscapes
    <3>3. CASE Peek \in Escapes
      <4>1. Edits(PushOther, "string")
        BY <3>2, <3>3
      <4>2. Meaning(mark + 1, pos + 1) = Foreign
        BY <1>2, <3>1, <3>3 DEF Meaning
      <4>3. tokenString' = <<Append(tokenString[1], Meaning(mark + 1, pos + 1))>>
        BY <1>4, <1>6, <3>1, <4>1, <4>2
      <4>4. UNCHANGED <<text, mark, setup>> /\ pos' = pos + 1 /\ at' = "string"
        BY <1>4, <4>1
      <4> QED
        BY <1>1, <1>2, <3>1, <4>1, <4>3, <4>4, StringGrows DEF Edits
    <3>4. CASE Peek \notin Escapes
      <4>1. Edits(Push, "string")
        BY <3>2, <3>4
      <4>2. Meaning(mark + 1, pos + 1) = pos + 1
        BY <1>2, <3>4 DEF Meaning
      <4>3. tokenString' = <<Append(tokenString[1], Meaning(mark + 1, pos + 1))>>
        BY <1>3, <1>6, <3>1, <4>1, <4>2
      <4>4. UNCHANGED <<text, mark, setup>> /\ pos' = pos + 1 /\ at' = "string"
        BY <1>3, <4>1
      <4> QED
        BY <1>1, <1>2, <3>1, <4>1, <4>3, <4>4, StringGrows DEF Edits
    <3> QED
      BY <3>3, <3>4
  <2> QED
    BY <2>1, <2>2
<1> QED
  BY <1>7 DEF StringInv

LEMMA StringInvNext ==
    ASSUME Fits, StringInv, [ScannersNext]_<<vars, scannerVars>>
    PROVE  StringInv'
<1>1. Unlocked
  BY DEF Fits, Unlocked
<1>2. ASSUME UNCHANGED <<pc, current, setup>>, ~Doing("qstring")
      PROVE  StringInv'
  BY <1>2 DEF StringInv, Doing, Matching
<1>3. CASE QString /\ UNCHANGED commentVars
  <2>1. CASE QStringStarts
    BY <1>1, <2>1, StringStarts
  <2>2. CASE QStringGoesOn \/ QStringEscapes
    BY <1>1, <2>2, StringGoesOn
  <2>3. CASE QStringCloses \/ QStringIsUnclosed
    BY <2>3 DEF QStringCloses, QStringIsUnclosed, AcceptToken, Accepts, StringInv
  <2> QED
    BY <1>3, <2>1, <2>2, <2>3 DEF QString
<1>4. CASE (Whitespace \/ Number \/ Keyword \/ Identifier \/ PlainText) /\ UNCHANGED commentVars
  <2>1. /\ UNCHANGED <<pc, current, setup>>
        /\ \E name \in {"whitespace", "number", "keyword", "identifier", "plaintext"} : Doing(name)
    BY <1>1, <1>4, WhitespaceFits, NumberFits, KeywordFits, IdentifierFits, PlainTextFits
  <2>2. ~Doing("qstring")
    BY <2>1 DEF Doing
  <2> QED
    BY <1>2, <2>1, <2>2
<1>5. CASE CommentNext
  <2>1. Doing("comment") /\ UNCHANGED <<pc, current, setup>>
    BY <1>5
    DEF CommentNext, CommentStarts, CommentReadsMarker, CommentReadsLine, CommentReadsText,
        CommentReadsEnding, CommentIsComplete, CommentUnlocks, CommentTakesNewline,
        CommentAcceptsNewline, CommentLocks, CommentIsUnterminated, CommentSplits, Comment,
        Running, Doing, Edits, AcceptToken, AcceptError, Accepts, GoesTo, Returns, Locks,
        TakesNewline, driverVars
  <2>2. ~Doing("qstring")
    BY <2>1 DEF Doing
  <2> QED
    BY <1>2, <2>1, <2>2
<1>6. CASE Driver
  <2>1. CASE Matching'
    <3>1. at' = "start" /\ pos' = mark' /\ tokenString' = <<>>
      BY <1>6, <2>1
      DEF Driver, StartRound, MatchEnds, CatchAll, EndRound, OfferAfter, Offer, RewindTo, Matching
    <3> QED
      BY <3>1 DEF StringInv
  <2>2. CASE ~Matching'
    BY <2>2 DEF StringInv, Doing
  <2> QED
    BY <2>1, <2>2
<1>7. CASE UNCHANGED <<vars, scannerVars>>
  <2>1. UNCHANGED <<text, pos, mark, tokenString, setup, at, memo, pc, current>>
    BY <1>7 DEF vars, bufferVars, driverVars, scannerVars, matchVars
  <2>2. OpenString' <=> OpenString
    BY <2>1 DEF OpenString, IsDecoded, Closes, IsEscape, IsEscaped, BackslashesBefore, RunBefore
  <2> QED
    BY <2>1, <2>2 DEF StringInv, Doing, Matching
<1> QED
  BY <1>3, <1>4, <1>5, <1>6, <1>7 DEF ScannersNext, Scanner

\* A token of a string is what the window was, read as StringsAreDecoded says.
StringAt(k) ==
    LET a == First(tokens[k])
        b == Last(tokens[k])
        closed == tokens[k].code = "Quoted"
    IN  /\ text[a] \in setup.quotes
        /\ closed <=> b > a /\ Closes(a, b)
        /\ \A i \in a + 1..b - 1 : ~Closes(a, i)
        /\ ~closed => b = Len(text)
        /\ IF setup.verbatim THEN IsDecoded(tokens[k].value, a, a, b)
           ELSE IsDecoded(tokens[k].value, a, a + 1, IF closed THEN b - 1 ELSE b)

LEMMA StringAtStays ==
    ASSUME NEW k, StringAt(k), tokens'[k] = tokens[k], UNCHANGED <<text, setup>>
    PROVE  StringAt(k)'
BY SameReading DEF StringAt, First, Last

\* What the scanner remembers of a string that ends is what its token says.
LEMMA StringIsRead ==
    ASSUME Fits, StringInv, QString, UNCHANGED <<text, setup>>,
           NEW k \in 1..Len(tokens'), k \notin 1..Len(tokens)
    PROVE  StringAt(k)'
<1> DEFINE a == mark + 1
           closed == at = "closed"
<1>1. /\ Doing("qstring") /\ OpenString
      /\ ~closed => Peek = Nul
      /\ AcceptTo(pos, IF closed THEN "Quoted" ELSE "Unclosed", CurrentToken)
  <2>1. tokens' # tokens
    OBVIOUS
  <2>2. QStringCloses \/ QStringIsUnclosed
    BY <2>1, EditMakes
    DEF QString, QStringStarts, QStringGoesOn, QStringEscapes, Drops, Returns
  <2> QED
    BY <2>2
    DEF QStringCloses, QStringIsUnclosed, Running, Doing, StringInv, AcceptToken, Accepts
<1>2. /\ mark \in Nat /\ pos \in Nat /\ a \in Nat /\ a <= pos /\ pos <= Len(text) /\ Len(text) \in Nat
  BY <1>1, Sizes DEF OpenString, Fits
<1>3. Inv
  BY DEF Fits
<1>4. /\ First(tokens'[k]) = a /\ Last(tokens'[k]) = pos
      /\ tokens'[k].code = "Quoted" <=> closed
      /\ tokens'[k].value = CurrentToken
  BY <1>1, <1>3, AcceptedIs
<1>5. text[a] \in setup.quotes
  BY <1>1 DEF OpenString
<1>6. closed <=> pos > a /\ Closes(a, pos)
  <2>1. pos > a => pos \in a + 1..pos
    BY <1>2
  <2>2. closed => pos > a
    BY <1>1, <1>2 DEF OpenString
  <2> QED
    BY <1>1, <2>1, <2>2 DEF OpenString
<1>7. \A i \in a + 1..pos - 1 : ~Closes(a, i)
  <2>1. \A i \in a + 1..pos - 1 : i \in a + 1..pos /\ i # pos
    BY <1>2
  <2> QED
    BY <1>1, <2>1 DEF OpenString
<1>8. ~closed => pos = Len(text)
  BY <1>1, <1>2, PeekFacts DEF AtEnd, Fits
<1>9. setup.verbatim => IsDecoded(CurrentToken, a, a, pos)
  <2> SUFFICES ASSUME setup.verbatim PROVE IsDecoded(CurrentToken, a, a, pos)
    OBVIOUS
  <2> DEFINE kept == Kept(a, a, pos)
  <2>1. CurrentToken = Scanned
    BY <1>1 DEF OpenString, CurrentToken
  <2>2. kept = a..pos
    BY DEF Kept, IsEscape
  <2>3. pos - mark \in Nat /\ pos - a + 1 = pos - mark
    BY <1>2
  <2>4. Len(Scanned) = pos - mark
    BY <2>3 DEF Scanned
  <2>5. \A i \in a..pos : Cardinality(a..i) = i - mark
    BY <1>2, FS_Interval
  <2>6. \A i \in a..pos : Rank(a..pos, i) = i - mark
    <3> SUFFICES ASSUME NEW i \in a..pos PROVE Rank(a..pos, i) = i - mark
      OBVIOUS
    <3>1. {j \in a..pos : j <= i} = a..i
      BY <1>2
    <3> QED
      BY <2>5, <3>1 DEF Rank
  <2>7. \A i \in a..pos : Scanned[i - mark] = i /\ Meaning(a, i) = i
    <3>1. \A i \in a..pos : i - mark \in 1..(pos - mark) /\ mark + (i - mark) = i
      BY <1>2
    <3> QED
      BY <3>1 DEF Scanned, Meaning, IsEscaped
  <2>8. Cardinality(a..pos) = pos - mark
    BY <1>2, <2>5
  <2> QED
    BY <2>1, <2>2, <2>4, <2>6, <2>7, <2>8, IsDecodedIs
<1>10. ~setup.verbatim =>
         IsDecoded(CurrentToken, a, a + 1, IF closed THEN pos - 1 ELSE pos)
  BY <1>1 DEF OpenString, CurrentToken
<1>11. /\ \A x, i : Closes(x, i)' <=> Closes(x, i)
       /\ \A value, x, first, last :
             IsDecoded(value, x, first, last)' <=> IsDecoded(value, x, first, last)
  BY SameReading
<1> QED
  BY <1>4, <1>5, <1>6, <1>7, <1>8, <1>9, <1>10, <1>11 DEF StringAt, First, Last

LEMMA StringsNext ==
    ASSUME Fits, StringInv, StringsAreDecoded, [ScannersNext]_<<vars, scannerVars>>
    PROVE  StringsAreDecoded'
<1>1. SUFFICES ASSUME NEW k \in 1..Len(tokens'), tokens'[k].code \in {"Quoted", "Unclosed"}
               PROVE  StringAt(k)'
  BY DEF StringsAreDecoded, TokensWith, StringAt
<1>2. UNCHANGED <<text, setup>>
  BY TokensStay
<1>3. CASE k \in 1..Len(tokens)
  <2>1. tokens'[k] = tokens[k]
    BY <1>3, TokensStay
  <2>2. StringAt(k)
    BY <1>1, <1>3, <2>1 DEF StringsAreDecoded, TokensWith, StringAt
  <2> QED
    BY <1>2, <2>1, <2>2, StringAtStays
<1>4. CASE k \notin 1..Len(tokens)
  <2>1. QString
    BY <1>1, <1>4, TokensStay DEF MadeBy
  <2> QED
    BY <1>2, <1>4, <2>1, StringIsRead
<1> QED
  BY <1>3, <1>4

\* A string ends at the first quote of its kind that is not escaped, or is
\* unclosed at the end of the text, and its value is what it means: with any
\* quotes, any text, and the other scanners before and after it.
THEOREM StringsAreAlwaysDecoded == ScannersSpec => []StringsAreDecoded
<1>1. ScannersInit => StringInv /\ StringsAreDecoded
  BY DEF ScannersInit, DriverInit, AtStart, StringInv, Doing, Matching, StringsAreDecoded, TokensWith
<1>2. Fits /\ StringInv /\ StringsAreDecoded /\ [ScannersNext]_<<vars, scannerVars>>
        => StringInv' /\ StringsAreDecoded'
  BY StringInvNext, StringsNext
<1> QED
  BY <1>1, <1>2, FitsInit, FitsNext, PTL DEF ScannersSpec

-----------------------------------------------------------------------------
(* Keywords and identifiers.                                               *)

\* The string kw goes on like the text from a to b.
Agrees(kw, a, b) ==
    /\ b - a + 1 <= Len(kw)
    /\ \A i \in a..b : kw[i - a + 1] = text[i]

LEMMA TextOfIs ==
    ASSUME text \in Seq(Chars), NEW a \in Nat \ {0}, NEW b \in Nat, a <= b + 1, b <= Len(text)
    PROVE  /\ TextOf(a, b) \in Seq(Chars)
           /\ Len(TextOf(a, b)) = b - a + 1
           /\ \A i \in a..b : TextOf(a, b)[i - a + 1] = text[i]
<1>1. Len(text) \in Nat /\ \A i \in 1..Len(text) : text[i] \in Chars
  BY LenProperties
<1>2. TextOf(a, b) = SubSeq(text, a, b)
  <2>1. (IF b < Len(text) THEN b ELSE Len(text)) = b
    BY <1>1
  <2> QED
    BY <2>1 DEF TextOf
<1>3. \A i \in a..b : text[i] \in Chars
  BY <1>1
<1>4. /\ SubSeq(text, a, b) \in Seq(Chars)
      /\ Len(SubSeq(text, a, b)) = IF a <= b THEN b - a + 1 ELSE 0
      /\ \A i \in 1..b - a + 1 : SubSeq(text, a, b)[i] = text[a + i - 1]
  BY <1>3, SubSeqProperties
<1>5. (IF a <= b THEN b - a + 1 ELSE 0) = b - a + 1
  OBVIOUS
<1>6. \A i \in a..b : i - a + 1 \in 1..b - a + 1 /\ a + (i - a + 1) - 1 = i
  OBVIOUS
<1> QED
  BY <1>2, <1>4, <1>5, <1>6

\* To the end of the text there is no more than the text.
LEMMA TextOfEnds ==
    ASSUME NEW a, NEW b, ~(b < Len(text))
    PROVE  TextOf(a, b) = TextOf(a, Len(text))
BY DEF TextOf

\* Whether a string starts with a part of the text, and whether it is it.
LEMMA AgreesText ==
    ASSUME text \in Seq(Chars),
           NEW a \in Nat \ {0}, NEW b \in Nat, a <= b + 1, b <= Len(text),
           NEW kw \in Seq(Chars)
    PROVE  /\ Len(kw) \in Nat
           /\ StartsWith(kw, TextOf(a, b)) <=> Agrees(kw, a, b)
           /\ kw = TextOf(a, b) <=> Agrees(kw, a, b) /\ Len(kw) = b - a + 1
<1> DEFINE s == TextOf(a, b)
           n == b - a + 1
<1>1. kw \in Seq(Chars) /\ Len(kw) \in Nat /\ \A i \in 1..Len(kw) : kw[i] \in Chars
  BY LenProperties
<1>2. s \in Seq(Chars) /\ Len(s) = n /\ \A i \in a..b : s[i - a + 1] = text[i]
  BY TextOfIs
<1>3. n \in Nat /\ (\A i \in a..b : i - a + 1 \in 1..n) /\ \A i \in 1..n : i + a - 1 \in a..b /\ (i + a - 1) - a + 1 = i
  OBVIOUS
<1>4. ASSUME NEW t \in Seq(Chars), Len(t) = n
      PROVE  t = s <=> \A i \in a..b : t[i - a + 1] = text[i]
  <2>1. t = s <=> \A i \in 1..n : t[i] = s[i]
    <3>1. t \in [1..n -> Chars] /\ s \in [1..n -> Chars]
      BY <1>2, <1>4, LenProperties
    <3> QED
      BY <3>1
  <2>2. (\A i \in 1..n : t[i] = s[i]) <=> \A i \in a..b : t[i - a + 1] = s[i - a + 1]
    BY <1>3
  <2> QED
    BY <1>2, <2>1, <2>2
<1>5. kw = s <=> Agrees(kw, a, b) /\ Len(kw) = n
  <2>1. CASE Len(kw) = n
    BY <1>1, <1>4, <2>1 DEF Agrees
  <2>2. CASE Len(kw) # n
    BY <1>2, <2>2
  <2> QED
    BY <2>1, <2>2
<1>6. StartsWith(kw, s) <=> Agrees(kw, a, b)
  <2>1. StartsWith(kw, s) <=> n <= Len(kw) /\ SubSeq(kw, 1, n) = s
    BY <1>2 DEF StartsWith
  <2>2. ASSUME n <= Len(kw)
        PROVE  SubSeq(kw, 1, n) = s <=> \A i \in a..b : kw[i - a + 1] = text[i]
    <3>1. \A i \in 1..n : kw[i] \in Chars
      BY <1>1, <1>3, <2>2
    <3>2. /\ SubSeq(kw, 1, n) \in Seq(Chars)
          /\ Len(SubSeq(kw, 1, n)) = IF 1 <= n THEN n - 1 + 1 ELSE 0
          /\ \A i \in 1..n - 1 + 1 : SubSeq(kw, 1, n)[i] = kw[1 + i - 1]
      BY <1>3, <3>1, SubSeqProperties
    <3>3. (IF 1 <= n THEN n - 1 + 1 ELSE 0) = n /\ n - 1 + 1 = n /\ \A i \in 1..n : 1 + i - 1 = i
      BY <1>3
    <3>4. \A i \in 1..n : SubSeq(kw, 1, n)[i] = kw[i]
      BY <3>2, <3>3
    <3>5. SubSeq(kw, 1, n) = s <=> \A i \in a..b : SubSeq(kw, 1, n)[i - a + 1] = text[i]
      BY <1>4, <3>2, <3>3
    <3> QED
      BY <1>3, <3>4, <3>5
  <2> QED
    BY <2>1, <2>2 DEF Agrees
<1> QED
  BY <1>1, <1>5, <1>6

\* The keywords that start with a part of the text, and the one that is it.
LEMMA StartingWithText ==
    ASSUME text \in Seq(Chars), setup \in Setups,
           NEW a \in Nat \ {0}, NEW b \in Nat, a <= b + 1, b <= Len(text),
           NEW kw \in setup.keywords
    PROVE  /\ kw \in Seq(Chars) /\ Len(kw) \in Nat
           /\ kw \in StartingWith(TextOf(a, b)) <=> Agrees(kw, a, b)
           /\ kw = TextOf(a, b) <=> Agrees(kw, a, b) /\ Len(kw) = b - a + 1
<1>1. kw \in Seq(Chars)
  BY SetupsAssumption
<1> QED
  BY <1>1, AgreesText DEF StartingWith

\* There is no keyword at the mark that is a word, unless the text ends with
\* it and it could go on.
KeywordRejected ==
    \A last \in mark + 1..Len(text) :
        LET word == TextOf(mark + 1, last)
        IN  /\ word \in setup.keywords
            /\ \A i \in mark + 1..last : IsWordChar(text[i])
            /\ last < Len(text) => ~IsWordChar(text[last + 1])
            => last = Len(text) /\ StartingWith(word) # {word}

\* What the window is for KeywordScanner.
KeywordInv ==
    Doing("keyword") =>
        /\ at = "start" => pos = mark
        /\ at \in {"prefix", "full", "fullAndPrefixes"} =>
              /\ StartingWith(Window) # {}
              /\ at = IF Window \notin StartingWith(Window) THEN "prefix"
                      ELSE IF StartingWith(Window) = {Window} THEN "full" ELSE "fullAndPrefixes"

\* A scanner is asked after KeywordScanner only for what it rejected.
RejectedInv ==
    pc = "match" /\ Untaken =>
        /\ \A j \in 1..current - 1 : setup.order[j] = "keyword" => KeywordRejected
        /\ Doing("keyword") /\ at = "returned" => KeywordRejected

IdentifierInv ==
    Doing("identifier") /\ at = "start" => \A i \in mark + 1..pos : IsWordChar(text[i])

WordsInv == KeywordInv /\ RejectedInv /\ IdentifierInv

LEMMA SameWords ==
    ASSUME text' = text, setup' = setup
    PROVE  /\ \A a, b : TextOf(a, b)' = TextOf(a, b)
           /\ \A s : StartingWith(s)' = StartingWith(s)
           /\ mark' = mark => (KeywordRejected' <=> KeywordRejected)
<1>1. \A a, b : TextOf(a, b)' = TextOf(a, b)
  BY DEF TextOf
<1>2. \A s : StartingWith(s)' = StartingWith(s)
  BY DEF StartingWith, StartsWith
<1>3. mark' = mark => (KeywordRejected' <=> KeywordRejected)
  BY <1>1, <1>2 DEF KeywordRejected
<1> QED
  BY <1>1, <1>2, <1>3

\* The window and the next character, in the text.
LEMMA WindowIs ==
    ASSUME Unlocked
    PROVE  /\ text \in Seq(Chars) /\ setup \in Setups
           /\ mark \in Nat /\ pos \in Nat /\ mark <= pos /\ pos <= Len(text) /\ Len(text) \in Nat
           /\ mark + 1 \in Nat \ {0}
           /\ Window \in Seq(Chars) /\ Len(Window) = pos - mark
           /\ ~AtEnd => /\ pos < Len(text) /\ Peek = text[pos + 1] /\ Peek # Nul
                        /\ Append(Window, Peek) = TextOf(mark + 1, pos + 1)
           /\ AtEnd => pos = Len(text) /\ Peek = Nul
<1>1. /\ text \in Seq(Chars) /\ setup \in Setups
      /\ mark \in Nat /\ pos \in Nat /\ mark <= pos /\ pos <= Len(text) /\ Len(text) \in Nat
      /\ mark + 1 \in Nat \ {0}
  BY Sizes DEF Unlocked, SetupInv, BufferOK
<1>2. /\ Window \in Seq(Chars) /\ Len(Window) = pos - mark
      /\ \A i \in mark + 1..pos : Window[i - (mark + 1) + 1] = text[i]
  <2>1. mark + 1 <= pos + 1 /\ pos - (mark + 1) + 1 = pos - mark
    BY <1>1
  <2> QED
    BY <1>1, <2>1, TextOfIs DEF Window
<1>3. AtEnd => pos = Len(text) /\ Peek = Nul
  BY <1>1 DEF AtEnd, Peek
<1>4. ASSUME ~AtEnd
      PROVE  /\ pos < Len(text) /\ Peek = text[pos + 1] /\ Peek # Nul
             /\ Append(Window, Peek) = TextOf(mark + 1, pos + 1)
  <2>1. pos < Len(text) /\ Peek = text[pos + 1]
    BY <1>1, <1>4 DEF AtEnd, Peek
  <2>2. Peek # Nul
    BY <1>4, PeekFacts DEF Unlocked
  <2>3. Peek \in Chars
    BY <1>1, <2>1, LenProperties
  <2> DEFINE s == TextOf(mark + 1, pos + 1)
             t == Append(Window, Peek)
             n == pos - mark
  <2>4. n \in Nat /\ mark + 1 <= (pos + 1) + 1 /\ pos + 1 <= Len(text) /\ pos + 1 \in Nat
        /\ (pos + 1) - (mark + 1) + 1 = n + 1
    BY <1>1, <2>1
  <2>5. /\ s \in Seq(Chars) /\ Len(s) = n + 1
        /\ \A i \in mark + 1..pos + 1 : s[i - (mark + 1) + 1] = text[i]
    BY <1>1, <2>4, TextOfIs
  <2>6. t \in Seq(Chars) /\ Len(t) = n + 1 /\ (\A i \in 1..n : t[i] = Window[i]) /\ t[n + 1] = Peek
    BY <1>2, <2>3, AppendProperties
  <2>7. \A i \in 1..n : mark + i \in mark + 1..pos /\ (mark + i) - (mark + 1) + 1 = i
    BY <1>1
  <2>8. \A i \in 1..n : mark + i \in mark + 1..pos + 1
    BY <1>1
  <2>9. \A i \in 1..n : t[i] = s[i]
    <3>1. \A i \in 1..n : Window[i] = text[mark + i]
      BY <1>2, <2>7
    <3>2. \A i \in 1..n : s[i] = text[mark + i]
      BY <2>5, <2>7, <2>8
    <3> QED
      BY <2>6, <3>1, <3>2
  <2>10. t[n + 1] = s[n + 1]
    <3>1. pos + 1 \in mark + 1..pos + 1 /\ (pos + 1) - (mark + 1) + 1 = n + 1
      BY <1>1
    <3> QED
      BY <2>1, <2>5, <2>6, <3>1
  <2> HIDE DEF s, t
  <2>11. t = s
    <3>1. 1..n + 1 = 1..n \union {n + 1}
      BY <2>4
    <3>2. \A i \in 1..n + 1 : t[i] = s[i]
      BY <2>9, <2>10, <3>1
    <3> QED
      BY <2>5, <2>6, <3>2, SeqEqual
  <2> QED
    BY <2>1, <2>2, <2>11 DEF s, t
<1> QED
  BY <1>1, <1>2, <1>3, <1>4

LEMMA KeywordGoing ==
    ASSUME Unlocked, KeywordGoesOn
    PROVE  KeywordInv' /\ at' # "returned"
<1>1. Peek # Nul /\ StartingWith(Append(Window, Peek)) # {} /\ Edits(Push, KeywordMatches)
  BY DEF KeywordGoesOn, StillMatches
<1>2. ~AtEnd
  BY <1>1, WindowIs
<1>3. text' = text /\ mark' = mark /\ pos' = pos + 1 /\ setup' = setup /\ at' = KeywordMatches
  BY <1>1, <1>2 DEF Edits, Push, SkipOne
<1>4. Window' = Append(Window, Peek)
  <2>1. Window' = TextOf(mark + 1, pos + 1)
    BY <1>3, SameWords DEF Window
  <2> QED
    BY <1>2, <2>1, WindowIs
<1>5. StartingWith(Window)' = StartingWith(Append(Window, Peek))
  BY <1>3, <1>4, SameWords
<1>6. at' = IF Append(Window, Peek) \notin StartingWith(Append(Window, Peek)) THEN "prefix"
            ELSE IF StartingWith(Append(Window, Peek)) = {Append(Window, Peek)} THEN "full"
            ELSE "fullAndPrefixes"
  BY <1>3 DEF KeywordMatches
<1> QED
  BY <1>1, <1>4, <1>5, <1>6 DEF KeywordInv

\* Where KeywordScanner stops, the keywords agree with the text up to there,
\* and none with one more character.
LEMMA KeywordStops ==
    ASSUME Unlocked, KeywordInv, KeywordEnds
    PROVE  /\ Doing("keyword")
           /\ at \in {"full", "fullAndPrefixes"} <=> pos > mark /\ Window \in setup.keywords
           /\ pos > mark => \E kw \in setup.keywords : Agrees(kw, mark + 1, pos)
           /\ \A kw \in setup.keywords : ~AtEnd => ~Agrees(kw, mark + 1, pos + 1)
<1>1. Doing("keyword") /\ Matching /\ at \in {"start", "prefix", "full", "fullAndPrefixes"}
      /\ ~StillMatches
  BY DEF KeywordEnds, Running, Doing, KeywordStates
<1>2. at \in {"prefix", "full", "fullAndPrefixes"} => pos > mark
  BY <1>1 DEF Unlocked, WindowInv, Inside
<1>3. at = "start" => ~(pos > mark)
  BY <1>1, WindowIs DEF KeywordInv
<1>4. /\ text \in Seq(Chars) /\ setup \in Setups /\ mark + 1 \in Nat \ {0} /\ pos \in Nat
      /\ mark + 1 <= pos + 1 /\ pos <= Len(text) /\ Len(text) \in Nat
  BY WindowIs
<1>5. \A kw \in setup.keywords : kw \in StartingWith(Window) <=> Agrees(kw, mark + 1, pos)
  BY <1>4, StartingWithText DEF Window
<1>6. Window \in StartingWith(Window) <=> Window \in setup.keywords
  <2>1. \A kw \in setup.keywords : kw = Window => Agrees(kw, mark + 1, pos)
    BY <1>4, StartingWithText DEF Window
  <2>2. Window \in StartingWith(Window) => Window \in setup.keywords
    BY DEF StartingWith, StartsWith
  <2> QED
    BY <1>5, <2>1, <2>2
<1>7. at \in {"full", "fullAndPrefixes"} <=> pos > mark /\ Window \in setup.keywords
  BY <1>1, <1>2, <1>3, <1>6 DEF KeywordInv
<1>8. pos > mark => \E kw \in setup.keywords : Agrees(kw, mark + 1, pos)
  <2>1. pos > mark => StartingWith(Window) # {}
    BY <1>1, <1>3 DEF KeywordInv
  <2>2. StartingWith(Window) \subseteq setup.keywords
    BY DEF StartingWith, StartsWith
  <2> QED
    BY <1>5, <2>1, <2>2
<1>9. ASSUME NEW kw \in setup.keywords, ~AtEnd, Agrees(kw, mark + 1, pos + 1)
      PROVE  FALSE
  <2>1. /\ pos + 1 \in Nat /\ mark + 1 <= (pos + 1) + 1 /\ pos + 1 <= Len(text)
        /\ Append(Window, Peek) = TextOf(mark + 1, pos + 1) /\ Peek # Nul
    BY <1>4, <1>9, WindowIs
  <2>2. kw \in StartingWith(TextOf(mark + 1, pos + 1))
    BY <1>4, <1>9, <2>1, StartingWithText
  <2> QED
    BY <1>1, <2>1, <2>2 DEF StillMatches
<1> QED
  BY <1>1, <1>7, <1>8, <1>9

\* Agreeing with the text up to b is agreeing with it up to any c before.
LEMMA AgreesBefore ==
    ASSUME NEW a \in Nat, NEW b \in Nat, NEW c \in Nat, c <= b,
           NEW kw, Len(kw) \in Nat, Agrees(kw, a, b)
    PROVE  Agrees(kw, a, c)
<1>1. b - a + 1 <= Len(kw) /\ \A i \in a..b : kw[i - a + 1] = text[i]
  BY DEF Agrees
<1>2. c - a + 1 <= Len(kw) /\ \A i \in a..c : i \in a..b
  BY <1>1
<1> QED
  BY <1>1, <1>2 DEF Agrees

LEMMA KeywordIsRejected ==
    ASSUME Unlocked, KeywordInv, KeywordsComeFirst, KeywordEnds, ~KeywordIsAccepted
    PROVE  KeywordRejected
<1>1. SUFFICES ASSUME NEW last \in mark + 1..Len(text),
                      TextOf(mark + 1, last) \in setup.keywords,
                      \A i \in mark + 1..last : IsWordChar(text[i]),
                      last < Len(text) => ~IsWordChar(text[last + 1])
               PROVE  last = Len(text) /\ StartingWith(TextOf(mark + 1, last)) # {TextOf(mark + 1, last)}
  BY DEF KeywordRejected
<1> DEFINE a == mark + 1
           word == TextOf(a, last)
<1>2. /\ text \in Seq(Chars) /\ setup \in Setups /\ a \in Nat \ {0} /\ pos \in Nat /\ last \in Nat
      /\ a <= pos + 1 /\ pos <= Len(text) /\ Len(text) \in Nat /\ mark \in Nat
      /\ a <= last /\ last <= Len(text) /\ a <= last + 1
  BY WindowIs
<1>3. word \in setup.keywords /\ Agrees(word, a, last) /\ Len(word) = last - a + 1 /\ Len(word) \in Nat
  BY <1>1, <1>2, StartingWithText
<1>4. ~(last < pos)
  <2> SUFFICES ASSUME last < pos PROVE FALSE
    OBVIOUS
  <2>1. pos > mark
    BY <1>2
  <2>2. PICK kw \in setup.keywords : Agrees(kw, a, pos)
    BY <2>1, KeywordStops
  <2>3. Len(kw) \in Nat /\ kw \in Seq(Chars)
    BY <1>2, SetupsAssumption, LenProperties
  <2>4. Len(word) < Len(kw)
    BY <1>2, <1>3, <2>2, <2>3 DEF Agrees
  <2>5. Agrees(kw, a, last)
    BY <1>2, <2>2, <2>3, AgreesBefore
  <2>6. SubSeq(kw, 1, Len(word)) = word
    <3>1. kw \in StartingWith(word)
      BY <1>2, <2>5, StartingWithText
    <3> QED
      BY <3>1 DEF StartingWith, StartsWith
  <2>7. kw[Len(word) + 1] = text[last + 1]
    <3>1. last + 1 \in a..pos /\ (last + 1) - a + 1 = Len(word) + 1
      BY <1>2, <1>3
    <3> QED
      BY <2>2, <3>1 DEF Agrees
  <2>8. \A i \in 1..Len(word) : IsWordChar(word[i])
    <3>1. \A i \in 1..Len(word) : i + a - 1 \in a..last /\ (i + a - 1) - a + 1 = i
      BY <1>2, <1>3
    <3>2. \A i \in 1..Len(word) : word[i] = text[i + a - 1]
      BY <1>3, <3>1 DEF Agrees
    <3> QED
      BY <1>1, <3>1, <3>2
  <2>9. IsWordChar(kw[Len(word) + 1])
    BY <1>2, <1>3, <2>4, <2>6, <2>8 DEF KeywordsComeFirst
  <2> QED
    BY <1>1, <1>2, <2>7, <2>9
<1>5. ~(pos < last)
  <2> SUFFICES ASSUME pos < last PROVE FALSE
    OBVIOUS
  <2>1. ~AtEnd
    BY <1>2 DEF AtEnd
  <2>2. Agrees(word, a, pos + 1)
    BY <1>2, <1>3, AgreesBefore
  <2> QED
    BY <1>3, <2>1, <2>2, KeywordStops
<1>6. last = pos /\ pos > mark
  BY <1>2, <1>4, <1>5
<1>7. Window = word /\ at \in {"full", "fullAndPrefixes"}
  BY <1>3, <1>6, KeywordStops DEF Window
<1>8. AtEnd
  <2> SUFFICES ASSUME ~AtEnd PROVE FALSE
    OBVIOUS
  <2>1. ~IsWordChar(Peek) /\ Peek # Nul
    BY <1>1, <1>6, WindowIs
  <2> QED
    BY <1>7, <2>1 DEF KeywordIsAccepted
<1>9. at # "full"
  BY <1>8, WindowIs DEF KeywordIsAccepted
<1>10. StartingWith(word) # {word}
  <2>1. word \in StartingWith(word)
    BY <1>2, <1>3, StartingWithText
  <2> QED
    BY <1>7, <1>9, <2>1, KeywordStops DEF KeywordInv
<1> QED
  BY <1>6, <1>8, <1>10, WindowIs

\* A step of a scanner leaves what was rejected rejected.
LEMMA RejectedStays ==
    ASSUME Unlocked, RejectedInv, UNCHANGED <<pc, current, text, setup>>,
           state' = "Init" => state = "Init" /\ UNCHANGED <<mark, roundMark>>,
           Doing("keyword") /\ at' = "returned" /\ Untaken /\ mark' = mark => KeywordRejected
    PROVE  RejectedInv'
<1>1. SUFFICES ASSUME pc' = "match", Untaken'
               PROVE  /\ \A j \in 1..current' - 1 : setup'.order[j] = "keyword" => KeywordRejected'
                      /\ Doing("keyword")' /\ at' = "returned" => KeywordRejected'
  BY DEF RejectedInv
<1>2. state = "Init" /\ mark' = mark /\ roundMark' = roundMark /\ pc = "match"
  BY <1>1 DEF Untaken
<1>3. Untaken
  BY <1>2 DEF Untaken, Unlocked, WindowInv, Matching
<1>4. KeywordRejected' <=> KeywordRejected
  BY <1>2, SameWords
<1>5. Doing("keyword")' <=> Doing("keyword")
  BY DEF Doing, Matching
<1> QED
  BY <1>2, <1>3, <1>4, <1>5 DEF RejectedInv

\* The driver offers the text to the first scanner, or to the next one when
\* those before it left it.
LEMMA Offered ==
    ASSUME Driver, Matching'
    PROVE  /\ at' = "start" /\ pos' = mark' /\ mark' = mark
           /\ UNCHANGED <<text, setup, commentVars>>
           /\ pc' = "match" =>
                 \/ current' = 1
                 \/ pc = "match" /\ state = "Init" /\ at = "returned" /\ current' = current + 1
<1>1. ASSUME NEW scanner, NEW place, Offer(scanner, place)
      PROVE  pos' = mark' /\ mark' = mark /\ text' = text /\ current' = scanner /\ pc' = place
  BY <1>1 DEF Offer, RewindTo
<1>2. CASE StartRound
  <2>1. locked # None => pc' = "lockedMatch"
    BY <1>1, <1>2 DEF StartRound
  <2>2. locked = None => OfferAfter(None)
    BY <1>2 DEF StartRound
  <2>3. OfferAfter(None) => Offer(1, "match") \/ pc' = "catchall"
    BY DEF OfferAfter, None
  <2>4. \E scanner, place : Offer(scanner, place)
    BY <1>2, <2>2, <2>3 DEF StartRound, Matching
  <2>5. pc' = "match" => current' = 1
    BY <1>1, <2>1, <2>2, <2>3
  <2> QED
    BY <1>1, <2>4, <2>5 DEF Driver, Matching
<1>3. CASE at = "returned" /\ MatchEnds
  <2>1. pc = "match" /\ state = "Init" /\ Offer(current + 1, "match")
    BY <1>3 DEF MatchEnds, OfferAfter, Matching
  <2> QED
    BY <1>1, <1>3, <2>1 DEF Driver, Matching
<1>4. CASE CatchAll \/ EndRound
  BY <1>4 DEF CatchAll, EndRound, Matching
<1> QED
  BY <1>2, <1>3, <1>4 DEF Driver

LEMMA OfferKeepsWords ==
    ASSUME Fits, Driver
    PROVE  /\ KeywordInv' /\ IdentifierInv'
           /\ RejectedInv => RejectedInv'
<1>1. CASE ~Matching'
  BY <1>1 DEF KeywordInv, RejectedInv, IdentifierInv, Doing, Matching
<1>2. CASE Matching'
  <2>1. KeywordInv'
    BY <1>2, Offered DEF KeywordInv
  <2>2. IdentifierInv'
    <3>1. mark \in Nat /\ mark + 1..mark = {}
      BY Sizes DEF Fits
    <3> QED
      BY <1>2, <3>1, Offered DEF IdentifierInv
  <2>3. ASSUME RejectedInv PROVE RejectedInv'
    <3>1. SUFFICES ASSUME pc' = "match", NEW j \in 1..current' - 1, setup'.order[j] = "keyword"
                   PROVE  KeywordRejected'
      BY <1>2, Offered DEF RejectedInv
    <3>2. current' # 1
      OBVIOUS
    <3>3. pc = "match" /\ state = "Init" /\ at = "returned" /\ current' = current + 1
      BY <1>2, <3>1, <3>2, Offered
    <3>4. Untaken /\ current \in Nat
      BY <3>3, ScannersAssumption DEF Untaken, Fits, WindowInv, Matching
    <3>5. j \in 1..current - 1 \/ j = current
      BY <3>3, <3>4
    <3>6. KeywordRejected
      BY <1>2, <2>3, <3>1, <3>3, <3>4, <3>5, Offered DEF RejectedInv, Doing, Matching
    <3> QED
      BY <1>2, <3>6, SameWords, Offered
  <2> QED
    BY <2>1, <2>2, <2>3
<1> QED
  BY <1>1, <1>2

\* Where the text is left to the next scanner, a comment's scanner took nothing.
LEMMA CommentLeaves ==
    ASSUME CommentNext, state' = "Init"
    PROVE  state = "Init" /\ UNCHANGED <<mark, roundMark>>
<1>1. ASSUME NEW place, Edits(Push, place) \/ Edits(PushOther, place) \/ Edits(Discard, place)
      PROVE  UNCHANGED <<state, mark, roundMark>>
  BY <1>1 DEF Edits, Push, PushOther, Discard
<1>2. ASSUME NEW place, GoesTo(place)
      PROVE  UNCHANGED <<state, mark, roundMark>>
  BY <1>2 DEF GoesTo, bufferVars, driverVars
<1>3. ASSUME NEW place, NEW code, AcceptToken(code, place) \/ AcceptError(place)
      PROVE  FALSE
  BY <1>3 DEF AcceptToken, AcceptError, Accepts, AcceptTo, SkipTo, PassTo
<1>4. ASSUME NEW scanner, Locks(scanner)
      PROVE  UNCHANGED <<state, mark, roundMark>>
  BY <1>4 DEF Locks, bufferVars
<1>5. ASSUME NEW here, NEW place, TakesNewline(here, place)
      PROVE  UNCHANGED <<state, mark, roundMark>>
  BY <1>1, <1>5 DEF TakesNewline
<1> QED
  BY <1>1, <1>2, <1>3, <1>4, <1>5
  DEF CommentNext, CommentStarts, CommentReadsMarker, CommentReadsLine, CommentReadsText,
      CommentReadsEnding, CommentIsComplete, CommentUnlocks, CommentTakesNewline,
      CommentAcceptsNewline, CommentLocks, CommentIsUnterminated, CommentSplits, Returns

LEMMA CommentDoes ==
    ASSUME CommentNext
    PROVE  Doing("comment") /\ UNCHANGED <<pc, current>>
BY DEF CommentNext, CommentStarts, CommentReadsMarker, CommentReadsLine, CommentReadsText,
       CommentReadsEnding, CommentIsComplete, CommentUnlocks, CommentTakesNewline,
       CommentAcceptsNewline, CommentLocks, CommentIsUnterminated, CommentSplits, Comment,
       Running, Doing, Edits, AcceptToken, AcceptError, Accepts, GoesTo, Returns, Locks,
       TakesNewline, driverVars

\* What KeywordScanner and IdentifierScanner have of the text, whatever the
\* keywords are.
LEMMA WordStatesNext ==
    ASSUME Fits, KeywordInv, IdentifierInv, [ScannersNext]_<<vars, scannerVars>>
    PROVE  KeywordInv' /\ IdentifierInv'
<1>1. Unlocked /\ UNCHANGED <<text, setup>>
  BY TokensStay DEF Fits, Unlocked
<1>2. ASSUME UNCHANGED <<pc, current>>, ~Doing("keyword")
      PROVE  KeywordInv'
  BY <1>1, <1>2 DEF KeywordInv, Doing, Matching
<1>3. ASSUME UNCHANGED <<pc, current>>, ~Doing("identifier")
      PROVE  IdentifierInv'
  BY <1>1, <1>3 DEF IdentifierInv, Doing, Matching
<1>4. CASE \/ (Whitespace \/ QString \/ Number \/ PlainText) /\ UNCHANGED commentVars
           \/ CommentNext
  <2>1. /\ UNCHANGED <<pc, current>>
        /\ \E name \in {"whitespace", "qstring", "number", "plaintext", "comment"} : Doing(name)
    BY <1>1, <1>4, WhitespaceFits, QStringFits, NumberFits, PlainTextFits, CommentDoes
  <2>2. ~Doing("keyword") /\ ~Doing("identifier")
    BY <2>1 DEF Doing
  <2> QED
    BY <1>2, <1>3, <2>1, <2>2
<1>5. CASE Keyword /\ UNCHANGED commentVars
  <2>1. UNCHANGED <<pc, current>> /\ Doing("keyword")
    BY <1>1, <1>5, KeywordFits
  <2>2. IdentifierInv'
    BY <1>3, <2>1 DEF Doing
  <2>3. CASE KeywordGoesOn
    BY <1>1, <2>2, <2>3, KeywordGoing
  <2>4. CASE KeywordEnds
    <3>1. at' = "returned"
      BY <2>4 DEF KeywordEnds, AcceptToken, Accepts, Returns, GoesTo
    <3> QED
      BY <2>2, <3>1 DEF KeywordInv
  <2> QED
    BY <1>5, <2>3, <2>4 DEF Keyword
<1>6. CASE Identifier /\ UNCHANGED commentVars
  <2>1. UNCHANGED <<pc, current>> /\ Doing("identifier") /\ at = "start"
    BY <1>1, <1>6, IdentifierFits DEF Identifier, Running
  <2>2. KeywordInv'
    BY <1>2, <2>1 DEF Doing
  <2>3. IdentifierInv'
    <3>1. CASE IdentifierTakes /\ Edits(Push, "start")
      <4>1. IsWordChar(Peek)
        BY <3>1 DEF IdentifierTakes
      <4>2. Peek # Nul
        BY <4>1, CharsDiffer DEF IsWordChar, Alphas, Digits, Nul
      <4>3. ~AtEnd
        BY <1>1, <4>2, WindowIs
      <4>4. text[pos + 1] = Peek /\ mark \in Nat /\ pos \in Nat /\ mark <= pos
        BY <1>1, <4>3, WindowIs
      <4>5. pos' = pos + 1 /\ mark' = mark
        BY <3>1, <4>3 DEF Edits, Push, SkipOne
      <4>6. \A i \in mark + 1..pos + 1 : i \in mark + 1..pos \/ i = pos + 1
        BY <4>4
      <4>7. \A i \in mark + 1..pos + 1 : IsWordChar(text[i])
        BY <2>1, <4>1, <4>4, <4>6 DEF IdentifierInv
      <4> QED
        BY <1>1, <4>5, <4>7 DEF IdentifierInv
    <3>2. CASE AcceptToken("Identifier", "returned") \/ Returns
      BY <3>2 DEF AcceptToken, Accepts, Returns, GoesTo, IdentifierInv
    <3> QED
      BY <1>6, <3>1, <3>2 DEF Identifier
  <2> QED
    BY <2>2, <2>3
<1>7. CASE Driver
  BY <1>7, OfferKeepsWords
<1>8. CASE UNCHANGED <<vars, scannerVars>>
  <2>1. UNCHANGED <<text, pos, mark, setup, at, pc, current>>
    BY <1>8 DEF vars, bufferVars, driverVars, scannerVars, matchVars
  <2>2. KeywordInv'
    <3>1. Window' = Window /\ \A s : StartingWith(s)' = StartingWith(s)
      BY <2>1, SameWords DEF Window
    <3>2. StartingWith(Window)' = StartingWith(Window)
      BY <2>1, <3>1 DEF StartingWith
    <3> QED
      BY <2>1, <3>1, <3>2 DEF KeywordInv, Doing, Matching
  <2>3. IdentifierInv'
    BY <2>1 DEF IdentifierInv, Doing, Matching
  <2> QED
    BY <2>2, <2>3
<1> QED
  BY <1>4, <1>5, <1>6, <1>7, <1>8 DEF ScannersNext, Scanner

LEMMA WordsInvNext ==
    ASSUME KeywordsComeFirst, Fits, WordsInv, [ScannersNext]_<<vars, scannerVars>>
    PROVE  WordsInv'
<1>1. Unlocked /\ UNCHANGED <<text, setup>>
  BY TokensStay DEF Fits, Unlocked
<1>2. KeywordInv' /\ IdentifierInv'
  BY WordStatesNext DEF WordsInv
<1>3. RejectedInv
  BY DEF WordsInv
<1>4. CASE \/ (Whitespace \/ QString \/ Number \/ Identifier \/ PlainText) /\ UNCHANGED commentVars
           \/ CommentNext
  <2>1. /\ UNCHANGED <<pc, current>>
        /\ state' = "Init" => state = "Init" /\ UNCHANGED <<mark, roundMark>>
        /\ \E name \in {"whitespace", "qstring", "number", "identifier", "plaintext", "comment"} :
              Doing(name)
    BY <1>1, <1>4, WhitespaceFits, QStringFits, NumberFits, IdentifierFits, PlainTextFits,
       CommentDoes, CommentLeaves
  <2>2. ~Doing("keyword")
    BY <2>1 DEF Doing
  <2> QED
    BY <1>1, <1>2, <1>3, <2>1, <2>2, RejectedStays DEF WordsInv
<1>5. CASE Keyword /\ UNCHANGED commentVars
  <2>1. /\ UNCHANGED <<pc, current>>
        /\ state' = "Init" => state = "Init" /\ UNCHANGED <<mark, roundMark>>
    BY <1>1, <1>5, KeywordFits
  <2>2. CASE KeywordGoesOn
    BY <1>1, <1>2, <1>3, <2>1, <2>2, KeywordGoing, RejectedStays DEF WordsInv
  <2>3. CASE KeywordEnds
    <3>1. Untaken /\ state' = "Init" => KeywordRejected
      <4>1. AcceptToken("Keyword", "returned") => state' = "Success"
        BY DEF AcceptToken, Accepts, AcceptTo, SkipTo, PassTo
      <4>2. KeywordIsAccepted \/ KeywordRejected
        BY <1>1, <2>3, KeywordIsRejected DEF WordsInv
      <4> QED
        BY <2>3, <4>1, <4>2 DEF KeywordEnds
    <3>2. CASE state' = "Init"
      BY <1>1, <1>2, <1>3, <2>1, <3>1, <3>2, RejectedStays DEF WordsInv, Untaken
    <3>3. CASE state' # "Init"
      BY <1>2, <3>3 DEF WordsInv, RejectedInv, Untaken
    <3> QED
      BY <3>2, <3>3
  <2> QED
    BY <1>5, <2>2, <2>3 DEF Keyword
<1>6. CASE Driver
  BY <1>2, <1>3, <1>6, OfferKeepsWords DEF WordsInv
<1>7. CASE UNCHANGED <<vars, scannerVars>>
  <2>1. UNCHANGED <<text, mark, state, roundMark, setup, at, pc, current>>
    BY <1>7 DEF vars, bufferVars, driverVars, scannerVars, matchVars
  <2>2. KeywordRejected' <=> KeywordRejected
    BY <2>1, SameWords
  <2> QED
    BY <1>2, <1>3, <2>1, <2>2 DEF WordsInv, RejectedInv, Untaken, Doing, Matching
<1> QED
  BY <1>4, <1>5, <1>6, <1>7 DEF ScannersNext, Scanner


\* What KeywordsAreWords says of one token.
KeywordAt(k) ==
    LET a == First(tokens[k])
        kw == TextOf(a, Last(tokens[k]))
    IN  /\ kw \in setup.keywords
        /\ \A longer \in setup.keywords \ {kw} :
              Len(longer) > Len(kw) => TextOf(a, a + Len(longer) - 1) # longer
        /\ Last(tokens[k]) < Len(text) /\ ~IsOperator(kw) =>
              ~IsWordChar(text[Last(tokens[k]) + 1])

IdentifierAt(k) ==
    LET word == TextOf(First(tokens[k]), Last(tokens[k]))
    IN  word \in setup.keywords =>
          /\ Last(tokens[k]) = Len(text)
          /\ StartingWith(word) # {word}

WordAt(k) ==
    /\ tokens[k].code = "Keyword" => KeywordAt(k)
    /\ tokens[k].code = "Identifier" => IdentifierAt(k)

LEMMA WordAtStays ==
    ASSUME NEW k, WordAt(k), tokens'[k] = tokens[k], UNCHANGED <<text, setup>>
    PROVE  WordAt(k)'
<1>1. /\ First(tokens'[k]) = First(tokens[k]) /\ Last(tokens'[k]) = Last(tokens[k])
      /\ First(tokens[k])' = First(tokens[k]) /\ Last(tokens[k])' = Last(tokens[k])
  BY DEF First, Last
<1>2. KeywordAt(k) => KeywordAt(k)'
  BY <1>1, SameWords DEF KeywordAt
<1>3. IdentifierAt(k) => IdentifierAt(k)'
  BY <1>1, SameWords DEF IdentifierAt
<1> QED
  BY <1>2, <1>3 DEF WordAt

\* What KeywordScanner accepts.
LEMMA KeywordIsRead ==
    ASSUME Fits, WordsInv, Keyword, UNCHANGED <<text, setup>>,
           NEW k \in 1..Len(tokens'), k \notin 1..Len(tokens)
    PROVE  WordAt(k)'
<1> DEFINE a == mark + 1
<1>1. Unlocked
  BY DEF Fits, Unlocked
<1>2. KeywordEnds /\ KeywordIsAccepted /\ AcceptTo(pos, "Keyword", CurrentToken)
  <2>1. tokens' # tokens
    OBVIOUS
  <2>2. KeywordEnds
    BY <2>1, EditMakes DEF Keyword, KeywordGoesOn
  <2> QED
    BY <2>1, <2>2, EditMakes DEF KeywordEnds, Returns, AcceptToken, Accepts
<1>3. First(tokens'[k]) = a /\ Last(tokens'[k]) = pos /\ tokens'[k].code = "Keyword"
  BY <1>2, AcceptedIs DEF Fits
<1>4. /\ text \in Seq(Chars) /\ setup \in Setups /\ a \in Nat \ {0} /\ pos \in Nat
      /\ a <= pos + 1 /\ pos <= Len(text) /\ Len(text) \in Nat /\ mark \in Nat /\ mark <= pos
      /\ Len(Window) = pos - mark
  BY <1>1, WindowIs
<1>5. Window \in setup.keywords /\ at \in {"full", "fullAndPrefixes"}
  <2>1. at \in {"full", "fullAndPrefixes"}
    BY <1>2 DEF KeywordIsAccepted
  <2> QED
    BY <1>1, <1>2, <2>1, KeywordStops DEF WordsInv
<1>6. ASSUME NEW longer \in setup.keywords \ {Window}, Len(longer) > Len(Window),
             TextOf(a, a + Len(longer) - 1) = longer
      PROVE  FALSE
  <2> DEFINE b == a + Len(longer) - 1
  <2>1. Len(longer) \in Nat /\ b \in Nat /\ pos < b /\ b - a + 1 = Len(longer)
    <3>1. Len(longer) \in Nat
      BY <1>4, SetupsAssumption, LenProperties
    <3> QED
      BY <1>4, <1>6, <3>1
  <2>2. CASE b <= Len(text)
    <3>1. Agrees(longer, a, b)
      BY <1>4, <1>6, <2>1, <2>2, StartingWithText
    <3>2. Agrees(longer, a, pos + 1)
      BY <1>4, <2>1, <3>1, AgreesBefore
    <3>3. ~AtEnd
      BY <1>4, <2>1, <2>2 DEF AtEnd
    <3> QED
      BY <1>1, <1>2, <3>2, <3>3, KeywordStops DEF WordsInv
  <2>3. CASE ~(b <= Len(text))
    <3>1. TextOf(a, b) = TextOf(a, Len(text))
      BY <1>4, <2>1, <2>3, TextOfEnds
    <3>2. Len(TextOf(a, Len(text))) = Len(text) - a + 1
      <4>1. a <= Len(text) + 1 /\ Len(text) <= Len(text)
        BY <1>4
      <4> QED
        BY <1>4, <4>1, TextOfIs
    <3> QED
      BY <1>4, <1>6, <2>1, <2>3, <3>1, <3>2
  <2> QED
    BY <2>2, <2>3
<1>7. pos < Len(text) /\ ~IsOperator(Window) => ~IsWordChar(text[pos + 1])
  <2>1. pos < Len(text) => ~AtEnd
    BY <1>4 DEF AtEnd
  <2> QED
    BY <1>1, <1>2, <2>1, WindowIs DEF KeywordIsAccepted
<1>8. TextOf(a, pos) = Window
  BY DEF Window
<1>9. KeywordAt(k)'
  <2>1. First(tokens[k])' = a /\ Last(tokens[k])' = pos
    BY <1>3 DEF First, Last
  <2>2. \A x, y : TextOf(x, y)' = TextOf(x, y)
    BY SameWords
  <2> QED
    BY <1>5, <1>6, <1>7, <1>8, <2>1, <2>2 DEF KeywordAt
<1> QED
  BY <1>3, <1>9 DEF WordAt

\* What IdentifierScanner accepts, after KeywordScanner has rejected it.
LEMMA IdentifierIsRead ==
    ASSUME KeywordsComeFirst, Fits, WordsInv, Identifier, UNCHANGED <<text, setup>>,
           NEW k \in 1..Len(tokens'), k \notin 1..Len(tokens)
    PROVE  WordAt(k)'
<1> DEFINE a == mark + 1
           word == TextOf(a, pos)
<1>1. Unlocked
  BY DEF Fits, Unlocked
<1>2. /\ Doing("identifier") /\ Matching /\ at = "start" /\ ~IdentifierTakes /\ pos > mark
      /\ AcceptTo(pos, "Identifier", CurrentToken)
  <2>1. tokens' # tokens
    OBVIOUS
  <2> QED
    BY <2>1, EditMakes DEF Identifier, Running, Doing, Returns, AcceptToken, Accepts
<1>3. First(tokens'[k]) = a /\ Last(tokens'[k]) = pos /\ tokens'[k].code = "Identifier"
  BY <1>2, AcceptedIs DEF Fits
<1>4. /\ text \in Seq(Chars) /\ setup \in Setups /\ a \in Nat \ {0} /\ pos \in Nat
      /\ pos <= Len(text) /\ Len(text) \in Nat /\ mark \in Nat
  BY <1>1, WindowIs
<1>5. pc = "match" /\ Untaken
  <2>1. pc # "lockedMatch"
    BY <1>2 DEF Fits, LockInv, Doing
  <2> QED
    BY <1>2, <2>1 DEF Matching, Fits, WindowInv
<1>6. \A i \in a..pos : IsWordChar(text[i])
  BY <1>2 DEF WordsInv, IdentifierInv
<1>7. pos < Len(text) => ~IsWordChar(text[pos + 1])
  <2>1. pos < Len(text) => ~AtEnd
    BY <1>4 DEF AtEnd
  <2>2. pos # mark
    BY <1>2, <1>4
  <2> QED
    BY <1>1, <1>2, <2>1, <2>2, WindowIs DEF IdentifierTakes
<1>8. word \in setup.keywords => pos = Len(text) /\ StartingWith(word) # {word}
  <2> SUFFICES ASSUME word \in setup.keywords
               PROVE  pos = Len(text) /\ StartingWith(word) # {word}
    OBVIOUS
  <2>1. current \in 1..Scanners /\ setup.order[current] = "identifier"
    BY <1>2 DEF Doing, Fits, WindowInv
  <2>2. \E j \in 1..current - 1 : setup.order[j] = "keyword"
    BY <1>4, <2>1 DEF KeywordsComeFirst
  <2>3. KeywordRejected
    BY <1>5, <2>2 DEF WordsInv, RejectedInv
  <2>4. pos \in a..Len(text)
    BY <1>2, <1>4
  <2> QED
    BY <1>6, <1>7, <2>3, <2>4 DEF KeywordRejected
<1>9. IdentifierAt(k)'
  <2>1. First(tokens[k])' = a /\ Last(tokens[k])' = pos
    BY <1>3 DEF First, Last
  <2> QED
    BY <1>8, <2>1, SameWords DEF IdentifierAt
<1> QED
  BY <1>3, <1>9 DEF WordAt

LEMMA WordsNext ==
    ASSUME KeywordsComeFirst, Fits, WordsInv, KeywordsAreWords,
           [ScannersNext]_<<vars, scannerVars>>
    PROVE  KeywordsAreWords'
<1>1. SUFFICES ASSUME NEW k \in 1..Len(tokens') PROVE WordAt(k)'
  <2>1. (\A k \in 1..Len(tokens) : WordAt(k)) => KeywordsAreWords
    BY DEF KeywordsAreWords, TokensWith, WordAt, KeywordAt, IdentifierAt
  <2>2. (\A k \in 1..Len(tokens') : WordAt(k)') => KeywordsAreWords'
    BY <2>1 DEF KeywordsAreWords, TokensWith, WordAt, KeywordAt, IdentifierAt
  <2> QED
    BY <1>1, <2>2
<1>2. UNCHANGED <<text, setup>>
  BY TokensStay
<1>3. CASE k \in 1..Len(tokens)
  <2>1. tokens'[k] = tokens[k]
    BY <1>3, TokensStay
  <2>2. WordAt(k)
    BY <1>3 DEF KeywordsAreWords, TokensWith, WordAt, KeywordAt, IdentifierAt
  <2> QED
    BY <1>2, <2>1, <2>2, WordAtStays
<1>4. CASE k \notin 1..Len(tokens)
  <2>1. MadeBy(tokens'[k].code)
    BY <1>4, TokensStay
  <2>2. CASE tokens'[k].code = "Keyword"
    BY <1>2, <1>4, <2>1, <2>2, KeywordIsRead DEF MadeBy
  <2>3. CASE tokens'[k].code = "Identifier"
    BY <1>2, <1>4, <2>1, <2>3, IdentifierIsRead DEF MadeBy
  <2>4. CASE tokens'[k].code \notin {"Keyword", "Identifier"}
    BY <2>4 DEF WordAt
  <2> QED
    BY <2>2, <2>3, <2>4
<1> QED
  BY <1>3, <1>4

\* A keyword token is a keyword, the longest at its place and not the start of
\* a word, and an identifier is no keyword but where the text ends and it could
\* go on: with any other scanners before and after, and any keywords of which
\* those that are words only go on as words, looked for before identifiers are.
THEOREM KeywordsAreAlwaysWords ==
    ASSUME KeywordsComeFirst
    PROVE  ScannersSpec => []KeywordsAreWords
<1>1. ScannersInit => WordsInv /\ KeywordsAreWords
  BY DEF ScannersInit, DriverInit, AtStart, WordsInv, KeywordInv, RejectedInv, IdentifierInv,
         Doing, Matching, KeywordsAreWords, TokensWith
<1>2. Fits /\ WordsInv /\ KeywordsAreWords /\ [ScannersNext]_<<vars, scannerVars>>
        => WordsInv' /\ KeywordsAreWords'
  BY WordsInvNext, WordsNext
<1> QED
  BY <1>1, <1>2, FitsInit, FitsNext, PTL DEF ScannersSpec

-----------------------------------------------------------------------------
(* Line ends.                                                              *)

\* There is no line end in the window, or no part of one, or one at its end.
Clean == \A i \in mark + 1..pos : ~IsNewline(text[i])

OneLine ==
    /\ pos > mark /\ pos \in LineEnds
    /\ \A i \in mark + 1..pos - 1 : i \notin LineEnds

\* The line end comes, or the LF after the CR that was dropped.
AtNewline ==
    \/ pos = mark /\ IsNewline(Peek)
    \/ pos = mark + 1 /\ text[pos] = Return /\ Peek = LineFeed

NewLines == TokensWith({"NewLine"})

\* The line ends up to i.
LinesTo(i) == {e \in LineEnds : e <= i}

CountedInv ==
    /\ ~crLfSplit /\ ~CrLfAt(mark)
    /\ setup.keepsLines => Cardinality(NewLines) = Cardinality(LinesTo(mark))

LEMMA SameLines ==
    ASSUME text' = text
    PROVE  LineEnds' = LineEnds /\ \A i : CrLfAt(i)' <=> CrLfAt(i)
<1>1. \A i : CrLfAt(i)' <=> CrLfAt(i)
  BY DEF CrLfAt
<1> QED
  BY <1>1 DEF LineEnds

LEMMA LineEndFacts ==
    ASSUME text \in Seq(Chars)
    PROVE  /\ LineEnds \subseteq 1..Len(text) /\ Len(text) \in Nat
           /\ \A i : i \in LineEnds => IsNewline(text[i]) /\ ~CrLfAt(i)
           /\ \A i : CrLfAt(i) => i < Len(text) /\ text[i] = Return /\ text[i + 1] = LineFeed
           /\ \A i : IsFiniteSet(LinesTo(i))
<1>1. Len(text) \in Nat
  BY LenProperties
<1>2. LineEnds \subseteq 1..Len(text)
  BY DEF LineEnds
<1>3. IsFiniteSet(1..Len(text))
  BY <1>1, FS_Interval
<1>4. IsFiniteSet(LineEnds)
  BY <1>2, <1>3, FS_Subset
<1>5. \A i : IsFiniteSet(LinesTo(i))
  <2> SUFFICES ASSUME NEW i PROVE IsFiniteSet(LinesTo(i))
    OBVIOUS
  <2>1. LinesTo(i) \subseteq LineEnds
    BY DEF LinesTo
  <2> QED
    BY <1>4, <2>1, FS_Subset
<1>6. \A i : CrLfAt(i) => i < Len(text) /\ text[i] = Return /\ text[i + 1] = LineFeed
  BY <1>1 DEF CrLfAt
<1> QED
  BY <1>1, <1>2, <1>5, <1>6 DEF LineEnds, IsNewline

\* A step that passes nothing.
LEMMA CountStays ==
    ASSUME CountedInv, UNCHANGED <<text, mark, tokens, crLfSplit, setup>>
    PROVE  CountedInv'
<1>1. LinesTo(mark)' = LinesTo(mark) /\ (CrLfAt(mark)' <=> CrLfAt(mark))
  <2>1. LineEnds' = LineEnds
    BY SameLines
  <2> QED
    BY <2>1 DEF LinesTo, CrLfAt
<1>2. NewLines' = NewLines
  BY DEF NewLines, TokensWith
<1> QED
  BY <1>1, <1>2 DEF CountedInv

\* A token or a skip up to last.
LEMMA CountGoesOn ==
    ASSUME Inv, CountedInv, setup' = setup, NEW last \in mark..Len(text), ~CrLfAt(last),
           NEW code, NEW value, AcceptTo(last, code, value) \/ (SkipTo(last) /\ code # "NewLine"),
           setup.keepsLines /\ code \in Filtered => code # "NewLine",
           setup.keepsLines =>
              /\ \A i \in mark + 1..last : i \in LineEnds => i = last
              /\ code = "NewLine" <=> last > mark /\ last \in LineEnds
    PROVE  CountedInv'
<1>1. /\ mark \in Nat /\ last \in Nat /\ mark <= last /\ last <= Len(text) /\ Len(text) \in Nat
      /\ tokens \in Seq(Token) /\ Len(tokens) \in Nat /\ text \in Seq(Chars)
  BY Sizes DEF BufferOK
<1>2. /\ text' = text /\ mark' = last /\ crLfSplit' = (crLfSplit \/ CrLfAt(last))
  BY DEF AcceptTo, SkipTo, PassTo
<1>3. ~crLfSplit' /\ ~CrLfAt(mark)'
  BY <1>2, SameLines DEF CountedInv, CrLfAt
<1>4. CASE ~setup.keepsLines
  BY <1>3, <1>4 DEF CountedInv
<1>5. CASE setup.keepsLines
  <2>1. LinesTo(mark)' = LinesTo(last)
    BY <1>2, SameLines DEF LinesTo
  <2>2. Cardinality(NewLines) = Cardinality(LinesTo(mark))
    BY <1>5 DEF CountedInv
  <2>3. CASE code = "NewLine"
    <3>1. LinesTo(last) = LinesTo(mark) \union {last} /\ last \notin LinesTo(mark)
      BY <1>1, <1>5, <2>3, LineEndFacts DEF LinesTo
    <3>2. tokens' = Append(tokens, [start |-> loc, end |-> LocationAfter(last),
                                    code |-> code, value |-> value])
      BY <1>5, <2>3 DEF AcceptTo
    <3>3. /\ Len(tokens') = Len(tokens) + 1 /\ \A k \in 1..Len(tokens) : tokens'[k] = tokens[k]
          /\ tokens'[Len(tokens) + 1].code = "NewLine"
      BY <1>1, <2>3, <3>2, Appended
    <3>4. NewLines' = NewLines \union {Len(tokens) + 1} /\ Len(tokens) + 1 \notin NewLines
      BY <1>1, <3>3 DEF NewLines, TokensWith
    <3>5. IsFiniteSet(NewLines)
      <4>1. IsFiniteSet(1..Len(tokens)) /\ NewLines \subseteq 1..Len(tokens)
        BY <1>1, FS_Interval DEF NewLines, TokensWith
      <4> QED
        BY <4>1, FS_Subset
    <3>6. Cardinality(NewLines)' = Cardinality(NewLines) + 1
      BY <3>4, <3>5, FS_AddElement
    <3>7. Cardinality(LinesTo(last)) = Cardinality(LinesTo(mark)) + 1
      BY <1>1, <3>1, LineEndFacts, FS_AddElement
    <3> QED
      BY <1>3, <2>1, <2>2, <3>6, <3>7 DEF CountedInv
  <2>4. CASE code # "NewLine"
    <3>1. LinesTo(last) = LinesTo(mark)
      BY <1>1, <1>5, <2>4, LineEndFacts DEF LinesTo
    <3>2. NewLines' = NewLines
      <4>1. CASE tokens' = tokens
        BY <4>1 DEF NewLines, TokensWith
      <4>2. CASE tokens' # tokens
        <5>1. tokens' = Append(tokens, [start |-> loc, end |-> LocationAfter(last),
                                        code |-> code, value |-> value])
          BY <4>2 DEF AcceptTo, SkipTo
        <5>2. /\ Len(tokens') = Len(tokens) + 1 /\ \A k \in 1..Len(tokens) : tokens'[k] = tokens[k]
              /\ tokens'[Len(tokens) + 1].code # "NewLine"
          BY <1>1, <2>4, <5>1, Appended
        <5>3. 1..Len(tokens) + 1 = 1..Len(tokens) \union {Len(tokens) + 1}
          BY <1>1
        <5> QED
          BY <5>2, <5>3 DEF NewLines, TokensWith
      <4> QED
        BY <4>1, <4>2
    <3> QED
      BY <1>3, <2>1, <2>2, <3>1, <3>2 DEF CountedInv
  <2> QED
    BY <2>3, <2>4
<1> QED
  BY <1>4, <1>5

\* The same for the window, when it is clean and when it is a line end.
LEMMA CleanPasses ==
    ASSUME Unlocked, CountedInv, setup' = setup, Clean,
           NEW code, code # "NewLine", NEW value, AcceptTo(pos, code, value) \/ Skip
    PROVE  CountedInv'
<1>1. /\ text \in Seq(Chars) /\ mark \in Nat /\ pos \in Nat /\ mark <= pos /\ pos <= Len(text)
      /\ Len(text) \in Nat
  BY WindowIs
<1>2. pos \in mark..Len(text) /\ (pos > mark => pos \in mark + 1..pos) /\ (~(pos > mark) => pos = mark)
  BY <1>1
<1>3. ~CrLfAt(pos)
  <2>1. CASE pos > mark
    <3>1. ~IsNewline(text[pos])
      BY <1>2, <2>1 DEF Clean
    <3> QED
      BY <1>1, <3>1, LineEndFacts DEF IsNewline
  <2>2. CASE pos = mark
    BY <2>2 DEF CountedInv
  <2> QED
    BY <1>2, <2>1, <2>2
<1>4. \A i \in mark + 1..pos : i \notin LineEnds
  BY <1>1, LineEndFacts DEF Clean
<1>5. ~(pos > mark /\ pos \in LineEnds)
  BY <1>2, <1>4
<1> QED
  BY <1>2, <1>3, <1>4, <1>5, CountGoesOn DEF Skip, Unlocked

LEMMA LinePasses ==
    ASSUME Unlocked, CountedInv, setup' = setup, OneLine,
           setup.keepsLines => "NewLine" \notin Filtered, NEW value,
           AcceptTo(pos, "NewLine", value) \/ (Skip /\ ~setup.keepsLines)
    PROVE  CountedInv'
<1>1. /\ text \in Seq(Chars) /\ mark \in Nat /\ pos \in Nat /\ mark <= pos /\ pos <= Len(text)
      /\ Len(text) \in Nat /\ Inv
  BY WindowIs DEF Unlocked
<1>2. pos \in mark..Len(text) /\ pos > mark /\ pos \in LineEnds
  BY <1>1 DEF OneLine
<1>3. ~CrLfAt(pos)
  BY <1>1, <1>2, LineEndFacts
<1>4. \A i \in mark + 1..pos : i \in LineEnds => i = pos
  BY <1>1 DEF OneLine
<1>5. CASE AcceptTo(pos, "NewLine", value)
  BY <1>1, <1>2, <1>3, <1>4, <1>5, CountGoesOn
<1>6. CASE Skip /\ ~setup.keepsLines
  <2>1. text' = text /\ mark' = pos /\ crLfSplit' = (crLfSplit \/ CrLfAt(pos))
    BY <1>6 DEF Skip, SkipTo, PassTo
  <2>2. ~CrLfAt(mark)'
    BY <1>3, <2>1, SameLines DEF CrLfAt
  <2> QED
    BY <1>3, <1>6, <2>1, <2>2 DEF CountedInv
<1> QED
  BY <1>5, <1>6

\* A line end is taken as a whole.
LEMMA NewlineTaken ==
    ASSUME Unlocked, AtNewline, TakesNewline("newline", "line")
    PROVE  /\ UNCHANGED <<text, mark, tokens, crLfSplit, setup, pc, current>>
           /\ (at' = "newline" /\ AtNewline') \/ (at' = "line" /\ OneLine')
<1>1. Peek \in {Return, LineFeed}
  BY DEF TakesNewline
<1>2. ~AtEnd
  BY <1>1, CharsDiffer, PeekFacts DEF Unlocked
<1>3. /\ text \in Seq(Chars) /\ mark \in Nat /\ pos \in Nat /\ mark <= pos /\ pos < Len(text)
      /\ Len(text) \in Nat /\ Peek = text[pos + 1] /\ Peek # Nul
  BY <1>2, WindowIs
<1>4. /\ UNCHANGED <<text, mark, tokens, crLfSplit, setup, pc, current>> /\ pos' = pos + 1
  BY <1>2, <1>3 DEF TakesNewline, Edits, Push, PushOther, Discard, SkipOne
<1>5. CASE Peek = Return /\ PeekNext = LineFeed
  <2>1. at' = "newline"
    BY <1>5, CharsDiffer DEF TakesNewline, Edits
  <2>2. pos = mark
    BY <1>3, <1>5, CharsDiffer DEF AtNewline
  <2>3. pos + 1 < Len(text) /\ text[pos + 2] = LineFeed
    BY <1>5 DEF PeekNext, LineFeed, Nul
  <2>4. pos' = mark' + 1 /\ text'[pos'] = Return
    BY <1>3, <1>4, <1>5, <2>2
  <2>5. Peek' = LineFeed
    <3>1. ~AtEnd' /\ pos' + 1 = pos + 2
      BY <1>3, <1>4, <2>3 DEF AtEnd
    <3> QED
      BY <1>4, <2>3, <3>1 DEF Peek
  <2> QED
    BY <1>4, <2>1, <2>4, <2>5 DEF AtNewline
<1>6. CASE ~(Peek = Return /\ PeekNext = LineFeed)
  <2>1. at' = "line"
    BY <1>6 DEF TakesNewline, Edits
  <2>2. ~CrLfAt(pos + 1)
    <3> SUFFICES ASSUME CrLfAt(pos + 1) PROVE FALSE
      OBVIOUS
    <3>1. pos + 1 < Len(text) /\ text[pos + 1] = Return /\ text[(pos + 1) + 1] = LineFeed
      BY <1>3, LineEndFacts
    <3>2. (pos + 1) + 1 = pos + 2
      BY <1>3
    <3> QED
      BY <1>3, <1>6, <3>1, <3>2 DEF PeekNext
  <2>3. pos + 1 \in LineEnds
    BY <1>1, <1>3, <2>2 DEF LineEnds
  <2>4. \A i \in mark + 1..pos : i \notin LineEnds
    <3>1. CASE pos = mark
      BY <1>3, <3>1
    <3>2. CASE pos = mark + 1 /\ text[pos] = Return /\ Peek = LineFeed
      <4>1. CrLfAt(pos)
        BY <1>3, <3>2 DEF CrLfAt
      <4>2. \A i \in mark + 1..pos : i = pos
        BY <1>3, <3>2
      <4> QED
        BY <1>3, <4>1, <4>2, LineEndFacts
    <3> QED
      BY <3>1, <3>2 DEF AtNewline
  <2>5. pos' > mark' /\ pos' - 1 = pos
    BY <1>3, <1>4
  <2>6. OneLine'
    BY <1>4, <2>3, <2>4, <2>5, SameLines DEF OneLine
  <2> QED
    BY <1>4, <2>1, <2>6
<1> QED
  BY <1>5, <1>6

\* The scanners that take every line end they are offered, and what is so
\* behind them: it is none.
TakesLineEnds == {"whitespace", "plaintext"}
LineEndNext == mark < Len(text) /\ IsNewline(text[mark + 1])

LeftInv ==
    /\ pc = "match" /\ Untaken =>
          /\ \A j \in 1..current - 1 : setup.order[j] \in TakesLineEnds => ~LineEndNext
          /\ at = "returned" /\ setup.order[current] \in TakesLineEnds => ~LineEndNext
    /\ pc = "catchall" =>
          \A j \in 1..Scanners : setup.order[j] \in TakesLineEnds => ~LineEndNext

\* The windows of the scanners, as far as line ends go.
WhitespaceInv ==
    Doing("whitespace") =>
        /\ at = "start" => pos = mark
        /\ at = "spaces" => "newlinesAreSpaces" \in setup.whitespace \/ Clean
        /\ at = "newline" => AtNewline
        /\ at = "line" => OneLine

PlainTextInv ==
    Doing("plaintext") =>
        /\ at = "start" => pos = mark
        /\ at = "text" => Clean
        /\ at = "newline" => OneLine

NumberInv == Doing("number") /\ at # "returned" => Clean

\* The markers of comments that do not end with the line.
BlockMarkers == {m \in setup.markers : ~m.eol}

CommentInv ==
    /\ inComment => match \in BlockMarkers
    /\ Doing("comment") =>
          /\ at = "start" => pos = mark
          /\ at = "marker" => ~inComment /\ live \subseteq setup.markers /\ Clean
          /\ at = "eol" => Clean
          /\ at \in {"text", "ending", "end", "newline", "line", "lock"} => match \in BlockMarkers
          /\ at \in {"text", "ending", "end"} /\ setup.split => Clean
          /\ at = "ending" => ending \in Nat
          /\ at = "end" => ~IsNewline(text[pos])
          /\ at = "newline" => AtNewline
          /\ at = "line" => OneLine

LinesInv ==
    CountedInv /\ LeftInv /\ WhitespaceInv /\ PlainTextInv /\ NumberInv /\ CommentInv

LEMMA CleanGrows ==
    ASSUME Unlocked, Clean, ~AtEnd, ~IsNewline(Peek), text' = text, mark' = mark, pos' = pos + 1
    PROVE  Clean'
<1>1. /\ mark \in Nat /\ pos \in Nat /\ mark <= pos /\ text[pos + 1] = Peek
  BY WindowIs
<1>2. \A i \in mark + 1..pos + 1 : i \in mark + 1..pos \/ i = pos + 1
  BY <1>1
<1>3. \A i \in mark + 1..pos + 1 : ~IsNewline(text[i])
  BY <1>1, <1>2 DEF Clean
<1> QED
  BY <1>3 DEF Clean

LEMMA CleanAtMark == ASSUME mark \in Nat, pos = mark PROVE Clean
<1>1. mark + 1..pos = {}
  OBVIOUS
<1> QED
  BY <1>1 DEF Clean

\* push() of the next character: where it is not part of a line end the window
\* stays clean.
LEMMA LinesPush ==
    ASSUME Unlocked, Peek # Nul, NEW place, Edits(Push, place)
    PROVE  /\ UNCHANGED <<text, mark, tokens, crLfSplit, setup, pc, current>>
           /\ at' = place /\ ~AtEnd /\ pos' = pos + 1 /\ text'[pos'] = Peek
           /\ ~IsNewline(Peek) /\ Clean => Clean'
<1>1. ~AtEnd
  BY WindowIs
<1>2. /\ UNCHANGED <<text, mark, tokens, crLfSplit, setup, pc, current>>
      /\ at' = place /\ pos' = pos + 1
  BY <1>1 DEF Edits, Push, SkipOne
<1>3. text'[pos'] = Peek
  BY <1>1, <1>2, WindowIs
<1> QED
  BY <1>1, <1>2, <1>3, CleanGrows

\* The window was passed, and a line end comes.
LEMMA NewlineComes ==
    ASSUME IsNewline(Peek), text' = text, pos' = pos, mark' = pos
    PROVE  AtNewline'
<1>1. Peek' = Peek
  BY DEF Peek, AtEnd
<1> QED
  BY <1>1 DEF AtNewline, IsNewline

LEMMA TakenIs ==
    ASSUME NEW code, NEW value, AcceptTo(pos, code, value) \/ Skip
    PROVE  text' = text /\ pos' = pos /\ mark' = pos /\ state' = "Success"
BY DEF Skip, AcceptTo, SkipTo, PassTo

LEMMA LeftStays ==
    ASSUME Unlocked, LeftInv, Matching, UNCHANGED <<pc, current, text, setup>>,
           state' = "Init" => state = "Init" /\ UNCHANGED <<mark, roundMark>>,
           at' = "returned" /\ setup.order[current] \in TakesLineEnds /\ state' = "Init"
              => ~LineEndNext
    PROVE  LeftInv'
<1>1. pc' # "catchall"
  BY DEF Matching
<1>2. SUFFICES ASSUME pc' = "match", Untaken'
               PROVE  /\ \A j \in 1..current' - 1 :
                            setup'.order[j] \in TakesLineEnds => ~LineEndNext'
                      /\ at' = "returned" /\ setup'.order[current'] \in TakesLineEnds => ~LineEndNext'
  BY <1>1 DEF LeftInv
<1>3. state = "Init" /\ mark' = mark /\ roundMark' = roundMark /\ pc = "match" /\ state' = "Init"
  BY <1>2 DEF Untaken
<1>4. Untaken
  BY <1>3 DEF Untaken, Unlocked, WindowInv, Matching
<1>5. LineEndNext' <=> LineEndNext
  BY <1>3 DEF LineEndNext
<1> QED
  BY <1>3, <1>4, <1>5 DEF LeftInv

LEMMA WhitespaceLines ==
    ASSUME LineEndsAreApart, Unlocked, LinesInv, Whitespace, UNCHANGED commentVars
    PROVE  CountedInv' /\ WhitespaceInv' /\ LeftInv'
<1>1. /\ UNCHANGED <<pc, current, setup>> /\ Doing("whitespace")
      /\ state' = "Init" => state = "Init" /\ UNCHANGED <<mark, roundMark>>
  BY WhitespaceFits
<1>2. /\ Matching /\ CountedInv /\ LeftInv
      /\ (setup.keepsLines => "NewLine" \notin Filtered)
      /\ (setup.keepsLines => setup.whitespace \subseteq {"ignoreSpaces"})
  BY <1>1, WindowIs DEF Doing, LinesInv, LineEndsAreApart
<1>3. mark \in Nat
  BY WindowIs
<1>4. ASSUME CountedInv', text' = text, at' # "returned" \/ state' # "Init" PROVE CountedInv' /\ LeftInv'
  BY <1>1, <1>2, <1>4, LeftStays
<1>5. CASE WhitespaceStarts
  <2>1. at = "start" /\ pos = mark
    BY <1>1, <1>5 DEF WhitespaceStarts, Running, LinesInv, WhitespaceInv
  <2>2. CASE IsSpace(Peek) /\ ~EndsLine /\ Edits(Push, "spaces")
    <3>1. Peek # Nul
      BY <2>2, CharsDiffer DEF IsSpace, IsNewline
    <3>2. /\ UNCHANGED <<text, mark, tokens, crLfSplit, setup>> /\ at' = "spaces"
          /\ ~IsNewline(Peek) /\ Clean => Clean'
      BY <2>2, <3>1, LinesPush
    <3>3. "newlinesAreSpaces" \in setup'.whitespace \/ Clean'
      BY <1>3, <2>1, <2>2, <3>2, CleanAtMark DEF EndsLine
    <3> QED
      BY <1>2, <1>4, <3>2, <3>3, CountStays DEF WhitespaceInv
  <2>3. CASE EndsLine /\ GoesTo("newline")
    <3>1. UNCHANGED <<text, pos, mark, tokens, crLfSplit, setup>> /\ at' = "newline"
      BY <2>3 DEF GoesTo, bufferVars
    <3>2. AtNewline'
      BY <2>1, <2>3, <3>1, NewlineComes DEF EndsLine
    <3> QED
      BY <1>2, <1>4, <3>1, <3>2, CountStays DEF WhitespaceInv
  <2>4. CASE ~IsSpace(Peek) /\ Returns
    <3>1. UNCHANGED <<text, pos, mark, tokens, crLfSplit, setup>> /\ at' = "returned"
      BY <2>4 DEF Returns, GoesTo, bufferVars
    <3>2. ~LineEndNext
      BY <2>1, <2>4, WindowIs DEF LineEndNext, IsSpace, AtEnd
    <3> QED
      BY <1>1, <1>2, <3>1, <3>2, CountStays, LeftStays DEF WhitespaceInv
  <2> QED
    BY <1>5, <2>2, <2>3, <2>4 DEF WhitespaceStarts
<1>6. CASE WhitespaceGoesOn
  <2>1. at = "spaces" /\ ("newlinesAreSpaces" \in setup.whitespace \/ Clean)
    BY <1>1, <1>6 DEF WhitespaceGoesOn, Running, LinesInv, WhitespaceInv
  <2>2. CASE IsSpace(Peek) /\ ~EndsLine /\ Edits(Push, "spaces")
    <3>1. Peek # Nul
      BY <2>2, CharsDiffer DEF IsSpace, IsNewline
    <3>2. /\ UNCHANGED <<text, mark, tokens, crLfSplit, setup>> /\ at' = "spaces"
          /\ ~IsNewline(Peek) /\ Clean => Clean'
      BY <2>2, <3>1, LinesPush
    <3>3. "newlinesAreSpaces" \in setup'.whitespace \/ Clean'
      BY <2>1, <2>2, <3>2 DEF EndsLine
    <3> QED
      BY <1>2, <1>4, <3>2, <3>3, CountStays DEF WhitespaceInv
  <2>3. ASSUME NEW place \in {"newline", "returned"},
               FinishWhitespace("ignoreSpaces", "Whitespace", place),
               place = "newline" => EndsLine,
               place = "returned" => ~IsSpace(Peek)
        PROVE  CountedInv' /\ WhitespaceInv' /\ LeftInv'
    <3>1. /\ AcceptTo(pos, "Whitespace", CurrentToken) \/ Skip
          /\ at' = place /\ setup' = setup
      BY <2>3 DEF FinishWhitespace, AcceptToken, Accepts
    <3>2. text' = text /\ pos' = pos /\ mark' = pos /\ state' = "Success"
      BY <3>1, TakenIs
    <3>3. CountedInv'
      <4>1. CASE Clean
        BY <1>2, <3>1, <4>1, CleanPasses
      <4>2. CASE "newlinesAreSpaces" \in setup.whitespace
        <5>1. ~setup.keepsLines /\ ~IsSpace(Peek)
          BY <1>2, <2>3, <4>2 DEF EndsLine
        <5>2. ~CrLfAt(pos)
          BY <5>1, WindowIs, LineEndFacts DEF IsSpace, IsNewline, AtEnd
        <5>3. pos \in mark..Len(text) /\ Inv
          BY WindowIs DEF Unlocked
        <5> QED
          BY <1>2, <3>1, <5>1, <5>2, <5>3, CountGoesOn DEF Skip
      <4> QED
        BY <2>1, <4>1, <4>2
    <3>4. place = "newline" => AtNewline'
      BY <2>3, <3>2, NewlineComes DEF EndsLine
    <3> QED
      BY <1>4, <2>3, <3>1, <3>2, <3>3, <3>4 DEF WhitespaceInv
  <2> QED
    BY <1>6, <2>2, <2>3 DEF WhitespaceGoesOn
<1>7. CASE WhitespaceTakesNewline
  <2>1. AtNewline /\ TakesNewline("newline", "line")
    BY <1>1, <1>7 DEF WhitespaceTakesNewline, Running, LinesInv, WhitespaceInv
  <2>2. /\ UNCHANGED <<text, mark, tokens, crLfSplit, setup, pc, current>>
        /\ (at' = "newline" /\ AtNewline') \/ (at' = "line" /\ OneLine')
    BY <2>1, NewlineTaken
  <2> QED
    BY <1>2, <1>4, <2>2, CountStays DEF WhitespaceInv
<1>8. CASE WhitespaceEndsLine
  <2>1. OneLine
    BY <1>1, <1>8 DEF WhitespaceEndsLine, Running, LinesInv, WhitespaceInv
  <2>2. /\ AcceptTo(pos, "NewLine", CurrentToken) \/ (Skip /\ "ignoreNewlines" \in setup.whitespace)
        /\ at' = "returned" /\ setup' = setup
    BY <1>8 DEF WhitespaceEndsLine, FinishWhitespace, AcceptToken, Accepts
  <2>3. CountedInv'
    BY <1>2, <2>1, <2>2, LinePasses
  <2>4. text' = text /\ state' = "Success"
    BY <2>2, TakenIs
  <2> QED
    BY <1>4, <2>2, <2>3, <2>4 DEF WhitespaceInv
<1> QED
  BY <1>5, <1>6, <1>7, <1>8 DEF Whitespace

LEMMA PlainTextLines ==
    ASSUME LineEndsAreApart, Unlocked, LinesInv, PlainText, UNCHANGED commentVars
    PROVE  CountedInv' /\ PlainTextInv' /\ LeftInv'
<1>1. /\ UNCHANGED <<pc, current, setup>> /\ Doing("plaintext") /\ Matching
      /\ state' = "Init" => state = "Init" /\ UNCHANGED <<mark, roundMark>>
  BY PlainTextFits DEF Doing
<1>2. CountedInv /\ LeftInv /\ (setup.keepsLines => "NewLine" \notin Filtered)
  BY WindowIs DEF LinesInv, LineEndsAreApart
<1>3. mark \in Nat /\ pos \in Nat /\ mark <= pos /\ Len(text) \in Nat /\ text \in Seq(Chars)
  BY WindowIs
<1>4. \A i \in 1..Len(text) : text[i] # Return
  <2>1. setup \in Setups /\ current \in 1..Scanners /\ setup.order[current] = "plaintext"
    BY <1>1 DEF Unlocked, SetupInv, WindowInv, Doing
  <2>2. "plaintext" \in {setup.order[i] : i \in 1..Scanners}
    BY <2>1
  <2>3. Return \notin setup.alphabet
    BY <2>1, <2>2 DEF LineEndsAreApart
  <2> QED
    BY <2>3 DEF Unlocked, SetupInv
<1>5. ASSUME CountedInv', text' = text, at' # "returned" \/ state' # "Init" PROVE CountedInv' /\ LeftInv'
  BY <1>1, <1>2, <1>5, LeftStays
<1>6. CASE PlainTextGoesOn
  <2>1. Clean /\ Peek # Nul /\ Peek # LineFeed /\ Edits(Push, "text")
    BY <1>1, <1>3, <1>6, CleanAtMark DEF PlainTextGoesOn, Running, LinesInv, PlainTextInv
  <2>2. /\ UNCHANGED <<text, mark, tokens, crLfSplit, setup>> /\ at' = "text" /\ ~AtEnd
        /\ ~IsNewline(Peek) /\ Clean => Clean'
    BY <2>1, LinesPush
  <2>3. ~IsNewline(Peek)
    <3>1. pos + 1 \in 1..Len(text) /\ Peek = text[pos + 1]
      BY <1>3, <2>2, WindowIs
    <3> QED
      BY <1>4, <2>1, <3>1 DEF IsNewline
  <2> QED
    BY <1>2, <1>5, <2>1, <2>2, <2>3, CountStays DEF PlainTextInv
<1>7. CASE Running("plaintext", "text") /\ AcceptToken("Text", "returned")
  <2>1. Clean /\ AcceptTo(pos, "Text", CurrentToken) /\ at' = "returned" /\ setup' = setup
    BY <1>1, <1>7 DEF Running, LinesInv, PlainTextInv, AcceptToken, Accepts
  <2>2. CountedInv'
    BY <1>2, <2>1, CleanPasses
  <2> QED
    BY <1>5, <2>1, <2>2, TakenIs DEF PlainTextInv
<1>8. CASE Running("plaintext", "start") /\ Peek = LineFeed /\ Edits(Push, "newline")
  <2>1. pos = mark
    BY <1>1, <1>8 DEF Running, LinesInv, PlainTextInv
  <2>2. /\ UNCHANGED <<text, mark, tokens, crLfSplit, setup>> /\ at' = "newline" /\ ~AtEnd
        /\ pos' = pos + 1 /\ text'[pos'] = LineFeed
    BY <1>8, CharsDiffer, LinesPush DEF LineFeed, Nul
  <2>3. pos + 1 \in 1..Len(text) /\ text[pos + 1] = LineFeed
    BY <1>3, <2>2, WindowIs
  <2>4. pos + 1 \in LineEnds
    BY <2>3, CharsDiffer DEF LineEnds, CrLfAt
  <2>5. pos' > mark' /\ mark' + 1..pos' - 1 = {}
    BY <1>3, <2>1, <2>2
  <2>6. OneLine'
    BY <2>2, <2>4, <2>5, SameLines DEF OneLine
  <2> QED
    BY <1>2, <1>5, <2>2, <2>6, CountStays DEF PlainTextInv
<1>9. CASE Running("plaintext", "newline") /\ AcceptToken("NewLine", "returned")
  <2>1. OneLine /\ AcceptTo(pos, "NewLine", CurrentToken) /\ at' = "returned" /\ setup' = setup
    BY <1>1, <1>9 DEF Running, LinesInv, PlainTextInv, AcceptToken, Accepts
  <2>2. CountedInv'
    BY <1>2, <2>1, LinePasses
  <2> QED
    BY <1>5, <2>1, <2>2, TakenIs DEF PlainTextInv
<1>10. CASE Running("plaintext", "start") /\ Peek = Nul /\ Returns
  <2>1. UNCHANGED <<text, pos, mark, tokens, crLfSplit, setup>> /\ at' = "returned"
    BY <1>10 DEF Returns, GoesTo, bufferVars
  <2>2. pos = mark
    BY <1>1, <1>10 DEF Running, LinesInv, PlainTextInv
  <2>3. ~LineEndNext
    BY <1>3, <1>10, <2>2, WindowIs DEF LineEndNext
  <2> QED
    BY <1>1, <1>2, <2>1, <2>3, CountStays, LeftStays DEF PlainTextInv
<1> QED
  BY <1>6, <1>7, <1>8, <1>9, <1>10 DEF PlainText

LEMMA NumberLines ==
    ASSUME LineEndsAreApart, Unlocked, LinesInv, Number, UNCHANGED commentVars
    PROVE  CountedInv' /\ NumberInv'
<1>1. UNCHANGED <<pc, current, setup>> /\ Doing("number") /\ CountedInv /\ mark \in Nat /\ pos \in Nat
  BY NumberFits, WindowIs DEF LinesInv
<1>2. CASE NumberMovesOn
  <2>1. PICK place \in NumberStates, move \in NumberMoves :
           /\ Running("number", place)
           /\ move \in MovesOf(place)
           /\ \/ Edits(Chop(1), place)
              \/ Edits(Push, move[3])
    BY <1>2 DEF NumberMovesOn
  <2>2. place # "returned"
    <3>1. \A m \in NumberMoves : m[1] # "returned"
      BY MoveFacts DEF Inside
    <3> QED
      BY <3>1 DEF NumberStates
  <2>3. Clean
    BY <1>1, <2>1, <2>2 DEF Running, LinesInv, NumberInv
  <2>4. CASE Edits(Chop(1), place)
    <3>1. UNCHANGED <<text, pos, mark, tokens, crLfSplit, setup>>
      BY <2>4 DEF Edits, Chop
    <3> QED
      BY <1>1, <2>3, <3>1, CountStays DEF NumberInv, Clean
  <2>5. CASE Edits(Push, move[3])
    <3>1. Peek \in move[2]
      BY <2>1 DEF MovesOf
    <3>2. Peek # Nul /\ ~IsNewline(Peek)
      <4>1. PICK from, chars, to, feature : move = <<from, chars, to, feature>>
        BY Zenon DEF NumberMoves
      <4>2. move[2] = chars /\ <<from, chars, to, feature>> \in NumberMoves
        BY <4>1
      <4>3. chars \in {Signs, {Zero}, NonZero, {Period}, {"$"}, Digits, {"e"}, {"x"}, HexDigits}
        BY <4>2, ZenonT(30) DEF NumberMoves
      <4>4. \A ch \in chars : ch # Nul /\ ch # LineFeed /\ ch # Return
        BY <4>3 DEF Signs, Zero, NonZero, Period, Digits, HexDigits, Nul, LineFeed, Return
      <4> QED
        BY <3>1, <4>2, <4>4 DEF IsNewline
    <3>3. UNCHANGED <<text, mark, tokens, crLfSplit, setup>> /\ Clean'
      BY <2>3, <2>5, <3>2, LinesPush
    <3> QED
      BY <1>1, <3>3, CountStays DEF NumberInv
  <2> QED
    BY <2>1, <2>4, <2>5
<1>3. CASE NumberDropsPeriod
  <2>1. Clean /\ Edits(PartialRewind(1), "integer")
    BY <1>1, <1>3 DEF NumberDropsPeriod, Running, LinesInv, NumberInv
  <2>2. UNCHANGED <<text, mark, tokens, crLfSplit, setup>>
    BY <2>1 DEF Edits, PartialRewind
  <2>3. pos' \in Int /\ pos' <= pos
    <3>1. pos' = pos - (IF 1 > pos - mark THEN pos - mark ELSE 1)
      BY <2>1 DEF Edits, PartialRewind
    <3>2. pos - mark \in Nat
      BY WindowIs
    <3> QED
      BY <1>1, <3>1, <3>2
  <2>4. \A i \in mark + 1..pos' : i \in mark + 1..pos
    BY <1>1, <2>3
  <2>5. Clean'
    BY <2>1, <2>2, <2>4 DEF Clean
  <2> QED
    BY <1>1, <2>2, <2>5, CountStays DEF NumberInv
<1>4. CASE NumberEnds
  <2>1. at # "returned"
    <3>1. \A m \in NumberMoves : m[1] # "returned"
      BY MoveFacts DEF Inside
    <3> QED
      BY <1>4, <3>1 DEF NumberEnds, Running, NumberStates
  <2>2. Clean
    BY <1>1, <2>1 DEF LinesInv, NumberInv
  <2>3. at' = "returned"
    BY <1>4 DEF NumberEnds, AcceptToken, AcceptError, Accepts, Returns, GoesTo
  <2>4. ASSUME NEW code, code # "NewLine", AcceptToken(code, "returned")
        PROVE  CountedInv'
    BY <1>1, <2>2, <2>4, CleanPasses DEF AcceptToken, Accepts
  <2>5. ASSUME AcceptError("returned") PROVE CountedInv'
    BY <1>1, <2>2, <2>5, CleanPasses DEF AcceptError, Accepts
  <2>6. ASSUME Returns PROVE CountedInv'
    BY <1>1, <2>6, CountStays DEF Returns, GoesTo, bufferVars
  <2>7. \A place \in DOMAIN NumberCodes : NumberCodes[place] # "NewLine"
    BY DEF NumberCodes
  <2>8. CountedInv'
    BY <1>4, <2>4, <2>5, <2>6, <2>7 DEF NumberEnds
  <2> QED
    BY <2>3, <2>8 DEF NumberInv
<1> QED
  BY <1>2, <1>3, <1>4 DEF Number

LEMMA QStringLines ==
    ASSUME LineEndsAreApart, Unlocked, LinesInv, StringInv, QString, UNCHANGED commentVars
    PROVE  CountedInv'
<1>1. UNCHANGED <<pc, current, setup>> /\ Doing("qstring") /\ CountedInv
  BY QStringFits DEF LinesInv
<1>2. CASE QStringStarts \/ QStringGoesOn \/ QStringEscapes
  <2>1. UNCHANGED <<text, mark, tokens, crLfSplit, setup>>
    BY <1>2
    DEF QStringStarts, QStringGoesOn, QStringEscapes, Drops, Returns, GoesTo, Edits, Push,
        PushOther, Discard, bufferVars
  <2> QED
    BY <1>1, <2>1, CountStays
<1>3. CASE QStringCloses \/ QStringIsUnclosed
  <2>1. PICK code \in {"Quoted", "Unclosed"} : AcceptTo(pos, code, CurrentToken)
    BY <1>3 DEF QStringCloses, QStringIsUnclosed, AcceptToken, Accepts
  <2>2. OpenString /\ memo \in setup.quotes /\ setup \in Setups
    BY <1>1, <1>3, WindowIs
    DEF QStringCloses, QStringIsUnclosed, Running, StringInv, OpenString
  <2>3. ~setup.keepsLines /\ ~IsNewline(memo)
    BY <2>2 DEF LineEndsAreApart
  <2>4. ~CrLfAt(pos)
    <3>1. CASE QStringIsUnclosed
      <4>1. pos = Len(text)
        BY <3>1, WindowIs DEF QStringIsUnclosed
      <4> QED
        BY <4>1, WindowIs, LineEndFacts
    <3>2. CASE QStringCloses
      <4>1. mark + 1 < pos /\ Closes(mark + 1, pos)
        <5>1. at = "closed" /\ mark + 1 < pos
          BY <2>2, <3>2 DEF QStringCloses, Running, OpenString
        <5>2. pos \in mark + 1 + 1..pos
          BY <5>1, WindowIs
        <5> QED
          BY <2>2, <5>1, <5>2 DEF OpenString
      <4>2. text[pos] = memo
        BY <2>2, <4>1 DEF Closes, OpenString
      <4> QED
        BY <2>3, <4>2, WindowIs, LineEndFacts DEF IsNewline
    <3> QED
      BY <1>3, <3>1, <3>2
  <2>5. pos \in mark..Len(text) /\ Inv
    BY WindowIs DEF Unlocked
  <2> QED
    BY <1>1, <2>1, <2>3, <2>4, <2>5, CountGoesOn
<1> QED
  BY <1>2, <1>3 DEF QString

LEMMA WordLines ==
    ASSUME LineEndsAreApart, Unlocked, LinesInv, KeywordInv, IdentifierInv,
           Keyword \/ Identifier, UNCHANGED commentVars
    PROVE  CountedInv'
<1>1. setup' = setup /\ CountedInv
  BY KeywordFits, IdentifierFits DEF LinesInv
<1>2. ASSUME NEW place, Edits(Push, place) \/ Returns PROVE CountedInv'
  BY <1>1, <1>2, CountStays DEF Edits, Push, Returns, GoesTo, bufferVars
<1>3. CASE KeywordEnds /\ KeywordIsAccepted /\ AcceptToken("Keyword", "returned")
  <2>1. Clean
    <3>1. Window \in setup.keywords /\ setup \in Setups
      BY <1>3, KeywordStops, WindowIs DEF KeywordIsAccepted
    <3>2. \A i \in 1..Len(Window) : ~IsNewline(Window[i])
      BY <3>1 DEF LineEndsAreApart
    <3>3. mark + 1 <= pos + 1 /\ \A i \in mark + 1..pos : i - (mark + 1) + 1 \in 1..pos - mark
      BY WindowIs
    <3>4. \A i \in mark + 1..pos : Window[i - (mark + 1) + 1] = text[i]
      BY <3>3, WindowIs, TextOfIs DEF Window
    <3> QED
      BY <3>2, <3>3, <3>4, WindowIs DEF Clean
  <2> QED
    BY <1>1, <1>3, <2>1, CleanPasses DEF AcceptToken, Accepts
<1>4. CASE Identifier /\ AcceptToken("Identifier", "returned")
  <2>1. \A i \in mark + 1..pos : IsWordChar(text[i])
    BY <1>4 DEF Identifier, Running, Doing, IdentifierInv
  <2>2. \A ch : IsWordChar(ch) => ~IsNewline(ch)
    BY DEF IsWordChar, IsNewline, Alphas, Digits, LineFeed, Return
  <2>3. Clean
    BY <2>1, <2>2 DEF Clean
  <2> QED
    BY <1>1, <1>4, <2>3, CleanPasses DEF AcceptToken, Accepts
<1> QED
  BY <1>2, <1>3, <1>4 DEF Keyword, KeywordGoesOn, KeywordEnds, Identifier

\* The next character of a window that a marker starts like is the marker's.
LEMMA MarkerGoesOn ==
    ASSUME LineEndsAreApart, Unlocked, ~AtEnd, NEW m \in setup.markers,
           StartsWith(m.start, TextOf(mark + 1, pos + 1))
    PROVE  ~IsNewline(Peek)
<1> DEFINE s == TextOf(mark + 1, pos + 1)
           n == pos + 1 - mark
<1>1. /\ text \in Seq(Chars) /\ setup \in Setups /\ mark \in Nat /\ pos \in Nat /\ mark <= pos
      /\ pos < Len(text) /\ Peek = text[pos + 1]
  BY WindowIs
<1>2. /\ mark + 1 \in Nat \ {0} /\ pos + 1 \in Nat /\ mark + 1 <= (pos + 1) + 1
      /\ pos + 1 <= Len(text) /\ (pos + 1) - (mark + 1) + 1 = n /\ n \in Nat \ {0}
      /\ pos + 1 \in mark + 1..pos + 1
  BY <1>1, LenProperties
<1>3. Len(s) = n /\ s[n] = Peek
  <2>1. /\ Len(TextOf(mark + 1, pos + 1)) = (pos + 1) - (mark + 1) + 1
        /\ \A i \in mark + 1..pos + 1 : TextOf(mark + 1, pos + 1)[i - (mark + 1) + 1] = text[i]
    BY <1>1, <1>2, TextOfIs
  <2>2. TextOf(mark + 1, pos + 1)[(pos + 1) - (mark + 1) + 1] = text[pos + 1]
    BY <1>2, <2>1
  <2> QED
    BY <1>1, <1>2, <2>1, <2>2
<1>4. m.start \in Seq(Chars) /\ n <= Len(m.start) /\ SubSeq(m.start, 1, n) = s
  BY <1>1, <1>3, SetupsAssumption DEF StartsWith
<1>5. n \in 1..Len(m.start) /\ Len(m.start) \in Nat
  BY <1>2, <1>4, LenProperties
<1>6. SubSeq(m.start, 1, n)[n] = m.start[n]
  <2>1. \A i \in 1..n : m.start[i] \in Chars
    BY <1>4, <1>5, LenProperties
  <2>2. \A i \in 1..n - 1 + 1 : SubSeq(m.start, 1, n)[i] = m.start[1 + i - 1]
    BY <1>2, <2>1, SubSeqProperties
  <2>3. n \in 1..n - 1 + 1 /\ 1 + n - 1 = n
    BY <1>2
  <2> QED
    BY <2>2, <2>3
<1>7. ~IsNewline(m.start[n])
  BY <1>1, <1>5 DEF LineEndsAreApart
<1> QED
  BY <1>3, <1>4, <1>6, <1>7

\* What a comment's scanner keeps at its places, but for the window.
LEMMA CommentLines ==
    ASSUME LineEndsAreApart, Unlocked, LinesInv, CommentNext,
           UNCHANGED <<pc, current, text, setup>>
    PROVE  CountedInv' /\ CommentInv'
<1>1. /\ Doing("comment") /\ Matching /\ Doing("comment")'
      /\ CountedInv /\ mark \in Nat /\ setup \in Setups
      /\ (setup.keepsLines => "NewLine" \notin Filtered)
      /\ text \in Seq(Chars) /\ pos \in mark..Len(text) /\ Inv
  <2>1. Doing("comment")
    BY DEF CommentNext, CommentStarts, CommentReadsMarker, CommentReadsLine, CommentReadsText,
           CommentReadsEnding, CommentIsComplete, CommentUnlocks, CommentTakesNewline,
           CommentAcceptsNewline, CommentLocks, CommentIsUnterminated, Comment, Running, Doing
  <2> QED
    BY <2>1, WindowIs DEF Doing, Matching, LinesInv, LineEndsAreApart, Unlocked
<1>2. CommentInv
  BY DEF LinesInv
<1>3. BlockMarkers' = BlockMarkers /\ BlockMarkers \subseteq setup.markers
  BY DEF BlockMarkers
<1>4. \A m \in BlockMarkers :
         /\ m.end # <<>> /\ m.end \in Seq(Chars) /\ (\A i \in 1..Len(m.end) : ~IsNewline(m.end[i]))
         /\ setup.keepsLines => setup.split
  BY <1>1, SetupsAssumption DEF BlockMarkers, LineEndsAreApart
<1>5. ASSUME NEW code, code # "NewLine", NEW place, AcceptToken(code, place), Clean
      PROVE  CountedInv' /\ at' = place /\ pos' = pos /\ mark' = pos
  <2>1. AcceptTo(pos, code, CurrentToken) /\ at' = place /\ setup' = setup
    BY <1>5 DEF AcceptToken, Accepts
  <2> QED
    BY <1>1, <1>5, <2>1, CleanPasses, TakenIs
<1>6. ASSUME NEW place, GoesTo(place)
      PROVE  CountedInv' /\ at' = place /\ UNCHANGED <<pos, mark>>
  BY <1>1, <1>6, CountStays DEF GoesTo, bufferVars
<1>7. ASSUME NEW place, Edits(Push, place), Peek # Nul
      PROVE  /\ CountedInv' /\ at' = place /\ ~AtEnd /\ mark' = mark /\ text'[pos'] = Peek
             /\ ~IsNewline(Peek) /\ Clean => Clean'
  BY <1>1, <1>7, LinesPush, CountStays
<1>8. CASE CommentStarts
  <2>1. pos = mark /\ UNCHANGED <<match, ending, inComment>>
    BY <1>1, <1>2, <1>8 DEF CommentStarts, Comment, Running, CommentInv
  <2>2. CASE inComment /\ GoesTo("text") /\ UNCHANGED live
    <3>1. CountedInv' /\ at' = "text" /\ pos' = mark'
      BY <1>6, <2>1, <2>2
    <3>2. Clean'
      BY <1>1, <1>6, <2>1, <2>2, CleanAtMark DEF Clean
    <3> QED
      BY <1>2, <1>3, <2>1, <2>2, <3>1, <3>2 DEF CommentInv
  <2>3. CASE /\ ~inComment /\ GoesTo("marker")
             /\ live' = {m \in setup.markers : m.hashpling => pos = 0}
    <3>1. CountedInv' /\ at' = "marker" /\ pos' = mark'
      BY <1>6, <2>1, <2>3
    <3>2. Clean'
      BY <1>1, <1>6, <2>1, <2>3, CleanAtMark DEF Clean
    <3> QED
      BY <2>1, <2>3, <3>1, <3>2 DEF CommentInv
  <2> QED
    BY <1>8, <2>2, <2>3 DEF CommentStarts
<1>9. CASE CommentReadsMarker
  <2>1. /\ ~inComment /\ live \subseteq setup.markers /\ Clean
        /\ UNCHANGED <<ending, inComment>>
    BY <1>1, <1>2, <1>9 DEF CommentReadsMarker, Comment, Running, CommentInv
  <2>2. CASE Peek = Nul /\ Returns
    <3>1. CountedInv' /\ at' = "returned"
      BY <1>6, <2>2 DEF Returns
    <3> QED
      BY <2>1, <3>1 DEF CommentInv
  <2>3. ASSUME NEW m \in live, Peek # Nul, Found(m), match' = m,
               Edits(Push, IF m.eol THEN "eol" ELSE "text")
        PROVE  CountedInv' /\ CommentInv'
    <3>1. StartsWith(m.start, TextOf(mark + 1, pos + 1)) /\ m \in setup.markers
      BY <2>1, <2>3 DEF Found, StillLive
    <3>2. CountedInv' /\ at' = (IF m.eol THEN "eol" ELSE "text") /\ Clean'
      <4>1. ~IsNewline(Peek)
        BY <1>7, <2>3, <3>1, MarkerGoesOn
      <4> QED
        BY <1>7, <2>1, <2>3, <4>1
    <3>3. ~m.eol => match' \in BlockMarkers'
      BY <1>3, <2>3, <3>1 DEF BlockMarkers
    <3> QED
      BY <2>1, <3>2, <3>3 DEF CommentInv
  <2>4. CASE /\ Peek # Nul /\ live' = StillLive
             /\ Edits(Push, IF StillLive = {} THEN "returned" ELSE "marker")
    <3>1. CountedInv' /\ at' = (IF StillLive = {} THEN "returned" ELSE "marker")
      BY <1>7, <2>4
    <3>2. live' \subseteq setup'.markers
      BY <2>1, <2>4 DEF StillLive
    <3>3. ASSUME StillLive # {} PROVE Clean'
      <4>1. PICK m \in live : StartsWith(m.start, TextOf(mark + 1, pos + 1))
        BY <3>3 DEF StillLive
      <4>2. ~IsNewline(Peek)
        BY <1>7, <2>1, <2>4, <4>1, MarkerGoesOn
      <4> QED
        BY <1>7, <2>1, <2>4, <4>2
    <3> QED
      BY <2>1, <3>1, <3>2, <3>3 DEF CommentInv
  <2> QED
    BY <1>9, <2>2, <2>3, <2>4 DEF CommentReadsMarker
<1>10. CASE CommentReadsLine
  <2>1. Clean /\ UNCHANGED commentVars
    BY <1>1, <1>2, <1>10 DEF CommentReadsLine, Comment, Running, CommentInv
  <2>2. CASE AcceptToken("Comment", "returned")
    BY <1>2, <1>3, <1>5, <2>1, <2>2 DEF CommentInv, commentVars
  <2>3. CASE Peek # Nul /\ ~IsNewline(Peek) /\ Edits(Push, "eol")
    BY <1>2, <1>3, <1>7, <2>1, <2>3 DEF CommentInv, commentVars
  <2> QED
    BY <1>10, <2>2, <2>3 DEF CommentReadsLine
<1>11. ASSUME setup.split => Clean, match \in BlockMarkers, UNCHANGED match,
              SplitsHere, CommentSplits, inComment' => inComment
       PROVE  CountedInv' /\ CommentInv'
  <2>1. CountedInv' /\ at' = "newline" /\ pos' = pos /\ mark' = pos
    BY <1>5, <1>11 DEF SplitsHere, CommentSplits
  <2>2. AtNewline'
    BY <1>11, <2>1, NewlineComes DEF SplitsHere
  <2> QED
    BY <1>3, <1>11, <2>1, <2>2 DEF CommentInv
<1>12. ASSUME setup.split => Clean, match \in BlockMarkers, UNCHANGED match,
              NEW place \in {"text", "ending", "end"}, Edits(Push, place), Peek # Nul,
              setup.split \/ place = "end" => ~IsNewline(Peek),
              place = "ending" => ending' \in Nat, inComment' => inComment
       PROVE  CountedInv' /\ CommentInv'
  <2>1. CountedInv' /\ at' = place /\ text'[pos'] = Peek /\ (~IsNewline(Peek) /\ Clean => Clean')
    BY <1>7, <1>12
  <2> QED
    BY <1>3, <1>12, <2>1 DEF CommentInv, IsNewline
<1>13. CASE CommentReadsText
  <2>1. (setup.split => Clean) /\ match \in BlockMarkers /\ UNCHANGED match /\ ~inComment' /\ Peek # Nul
    BY <1>1, <1>2, <1>13 DEF CommentReadsText, Comment, Running, CommentInv
  <2>2. CASE Peek = match.end[1] /\ Edits(Push, "ending") /\ ending' = 1
    <3>1. ~IsNewline(Peek)
      <4>1. match.end # <<>> /\ match.end \in Seq(Chars) /\ \A i \in 1..Len(match.end) : ~IsNewline(match.end[i])
        BY <1>4, <2>1
      <4>2. 1 \in 1..Len(match.end)
        <5>1. Len(match.end) \in Nat /\ Len(match.end) # 0
          BY <4>1, EmptySeq, LenProperties
        <5> QED
          BY <5>1
      <4> QED
        BY <2>2, <4>1, <4>2
    <3> QED
      BY <1>12, <2>1, <2>2, <3>1
  <2>3. CASE SplitsHere /\ CommentSplits
    BY <1>11, <2>1, <2>3
  <2>4. CASE ~SplitsHere /\ Edits(Push, "text")
    BY <1>12, <2>1, <2>4 DEF SplitsHere
  <2> QED
    BY <1>13, <2>2, <2>3, <2>4 DEF CommentReadsText
<1>14. CASE CommentReadsEnding
  <2>1. /\ setup.split => Clean
        /\ match \in BlockMarkers /\ UNCHANGED <<match, inComment>> /\ Peek # Nul /\ ending \in Nat
    BY <1>1, <1>2, <1>14 DEF CommentReadsEnding, Comment, Running, CommentInv
  <2>2. EndsWith(ending + 1) => ~IsNewline(Peek)
    <3>1. EndsWith(ending + 1) => ending + 1 \in 1..Len(match.end) /\ Peek = match.end[ending + 1]
      BY <1>4, <2>1, LenProperties DEF EndsWith
    <3> QED
      BY <1>4, <2>1, <3>1
  <2>3. CASE EndsWith(ending + 1) /\ Edits(Push, "end")
    BY <1>12, <2>1, <2>2, <2>3
  <2>4. CASE SplitsHere /\ CommentSplits
    BY <1>11, <2>1, <2>4
  <2>5. CASE ~SplitsHere /\ Edits(Push, "text")
    BY <1>12, <2>1, <2>5 DEF SplitsHere
  <2>6. CASE EndsWith(ending + 1) /\ Edits(Push, "ending") /\ ending' = ending + 1
    BY <1>12, <2>1, <2>2, <2>6
  <2> QED
    BY <1>14, <2>3, <2>4, <2>5, <2>6 DEF CommentReadsEnding
<1>15. ASSUME NEW code \in {"Comment", "Error"}, NEW value, AcceptTo(pos, code, value),
              match \in BlockMarkers, setup.split => Clean, ~CrLfAt(pos)
       PROVE  CountedInv'
  <2>1. CASE setup.split
    BY <1>1, <1>15, <2>1, CleanPasses
  <2>2. CASE ~setup.split
    <3>1. ~setup.keepsLines /\ code # "NewLine"
      BY <1>4, <1>15, <2>2
    <3> QED
      BY <1>1, <1>15, <3>1, CountGoesOn
  <2> QED
    BY <2>1, <2>2
<1>16. CASE CommentIsComplete
  <2>1. /\ setup.split => Clean
        /\ match \in BlockMarkers /\ ~IsNewline(text[pos]) /\ UNCHANGED commentVars
        /\ AcceptTo(pos, "Comment", CurrentToken) /\ at' = "unlock"
    BY <1>1, <1>2, <1>16
    DEF CommentIsComplete, Comment, Running, CommentInv, AcceptToken, Accepts
  <2>2. ~CrLfAt(pos)
    BY <1>1, <2>1, LineEndFacts DEF IsNewline
  <2>3. CountedInv'
    BY <1>15, <2>1, <2>2
  <2> QED
    BY <1>3, <2>1, <2>3 DEF CommentInv, commentVars
<1>17. CASE CommentIsUnterminated
  <2>1. /\ setup.split => Clean
        /\ match \in BlockMarkers /\ UNCHANGED commentVars /\ Peek = Nul
        /\ AcceptTo(pos, "Error", Literal) /\ at' = "returned"
    BY <1>1, <1>2, <1>17
    DEF CommentIsUnterminated, Comment, Running, CommentInv, AcceptError, Accepts
  <2>2. ~CrLfAt(pos)
    BY <1>1, <2>1, WindowIs, LineEndFacts
  <2>3. CountedInv'
    BY <1>15, <2>1, <2>2
  <2> QED
    BY <1>3, <2>1, <2>3 DEF CommentInv, commentVars
<1>18. CASE CommentUnlocks
  <2>1. at' = "returned" /\ UNCHANGED commentVars /\ UNCHANGED bufferVars
    BY <1>18 DEF CommentUnlocks, Locks
  <2>2. CountedInv'
    BY <1>1, <2>1, CountStays DEF bufferVars
  <2> QED
    BY <1>2, <1>3, <2>1, <2>2 DEF CommentInv, commentVars
<1>19. CASE CommentTakesNewline
  <2>1. /\ AtNewline /\ TakesNewline("newline", "line") /\ match \in BlockMarkers
        /\ UNCHANGED commentVars
    BY <1>1, <1>2, <1>19 DEF CommentTakesNewline, Comment, Running, CommentInv
  <2>2. /\ UNCHANGED <<text, mark, tokens, crLfSplit, setup>>
        /\ (at' = "newline" /\ AtNewline') \/ (at' = "line" /\ OneLine')
    BY <2>1, NewlineTaken
  <2>3. CountedInv'
    BY <1>1, <2>2, CountStays
  <2> QED
    BY <1>3, <2>1, <2>2, <2>3 DEF CommentInv, commentVars
<1>20. CASE CommentAcceptsNewline
  <2>1. /\ OneLine /\ match \in BlockMarkers /\ UNCHANGED commentVars
        /\ AcceptTo(pos, "NewLine", CurrentToken) /\ at' = "lock"
    BY <1>1, <1>2, <1>20
    DEF CommentAcceptsNewline, Comment, Running, CommentInv, AcceptToken, Accepts
  <2>2. CountedInv'
    BY <1>1, <2>1, LinePasses
  <2> QED
    BY <1>3, <2>1, <2>2 DEF CommentInv, commentVars
<1>21. CASE CommentLocks
  <2>1. match \in BlockMarkers /\ match' = match /\ at' = "returned" /\ UNCHANGED bufferVars
    BY <1>1, <1>2, <1>21 DEF CommentLocks, Locks, Comment, Running, CommentInv
  <2>2. CountedInv'
    BY <1>1, <2>1, CountStays DEF bufferVars
  <2> QED
    BY <1>3, <2>1, <2>2 DEF CommentInv
<1> QED
  BY <1>8, <1>9, <1>10, <1>13, <1>14, <1>16, <1>17, <1>18, <1>19, <1>20, <1>21 DEF CommentNext

\* Where no scanner is at work only the count matters, and what is left of a
\* comment.
LEMMA LinesBetween ==
    ASSUME CommentInv, UNCHANGED <<setup, commentVars>>, ~Matching', pc' # "catchall", CountedInv'
    PROVE  LinesInv'
<1>1. \A name : ~Doing(name)'
  BY DEF Doing
<1>2. CommentInv'
  BY <1>1 DEF CommentInv, BlockMarkers, commentVars
<1> QED
  BY <1>1, <1>2 DEF LinesInv, LeftInv, WhitespaceInv, PlainTextInv, NumberInv, Matching

\* Behind all the scanners there is no CR, and no line end that has to be kept.
LEMMA LeftToCatchAll ==
    ASSUME LineEndsAreApart, Fits, LeftInv, pc = "catchall", ~AtEnd, IsNewline(Peek)
    PROVE  Peek # Return /\ ~setup.keepsLines
<1>1. /\ pos = mark /\ setup \in Setups /\ mark < Len(text) /\ Peek = text[mark + 1]
      /\ mark + 1 \in 1..Len(text)
  BY Sizes DEF Fits, Inv, WindowPlaced, SetupInv, AtEnd, Peek
<1>2. Peek \in setup.alphabet
  BY <1>1 DEF Fits, SetupInv
<1>3. \A i \in 1..Scanners : setup.order[i] \notin {"whitespace", "plaintext"}
  BY <1>1 DEF LeftInv, LineEndNext, TakesLineEnds
<1>4. {setup.order[i] : i \in 1..Scanners} \intersect {"whitespace", "plaintext"} = {}
  BY <1>3
<1>5. Return \notin setup.alphabet /\ (setup.keepsLines => LineFeed \notin setup.alphabet)
  BY <1>1, <1>4 DEF LineEndsAreApart
<1> QED
  BY <1>2, <1>5 DEF IsNewline

\* The driver between the matches.
LEMMA DriverLines ==
    ASSUME LineEndsAreApart, Fits, LinesInv, Driver
    PROVE  LinesInv'
<1>1. /\ Unlocked /\ CountedInv /\ LeftInv /\ CommentInv /\ mark \in Nat /\ Len(text) \in Nat
      /\ UNCHANGED <<setup, commentVars>> /\ text \in Seq(Chars) /\ pos \in mark..Len(text)
      /\ Inv
  BY WindowIs DEF Fits, Unlocked, LinesInv, Driver
<1>2. CASE StartRound \/ (at = "returned" /\ MatchEnds)
  <2>1. UNCHANGED <<text, mark, tokens, crLfSplit>>
    BY <1>2 DEF StartRound, MatchEnds, OfferAfter, Offer, RewindTo, bufferVars
  <2>2. CountedInv'
    BY <1>1, <2>1, CountStays
  <2>3. CASE Matching'
    <3>1. at' = "start" /\ pos' = mark' /\ mark' \in Nat
      BY <1>1, <2>1, <2>3, Offered
    <3>2. Clean'
      <4>1. mark + 1..mark = {}
        BY <1>1
      <4> QED
        BY <2>1, <3>1, <4>1 DEF Clean
    <3>3. CommentInv'
      BY <1>1, <3>1 DEF CommentInv, BlockMarkers, commentVars
    <3>4. LeftInv'
      <4>1. SUFFICES ASSUME pc' = "match", NEW j \in 1..current' - 1,
                            setup'.order[j] \in TakesLineEnds
                     PROVE  ~LineEndNext'
        BY <2>3, <3>1 DEF LeftInv, Matching
      <4>2. current' # 1
        OBVIOUS
      <4>3. pc = "match" /\ state = "Init" /\ at = "returned" /\ current' = current + 1
        BY <2>3, <4>1, <4>2, Offered
      <4>4. Untaken /\ current \in Nat
        BY <4>3, ScannersAssumption DEF Untaken, Fits, WindowInv, Matching
      <4>5. j \in 1..current - 1 \/ j = current
        BY <4>3, <4>4
      <4>6. ~LineEndNext
        BY <1>1, <4>1, <4>3, <4>4, <4>5 DEF LeftInv
      <4> QED
        BY <2>1, <4>6 DEF LineEndNext
    <3> QED
      BY <2>2, <3>1, <3>2, <3>3, <3>4 DEF LinesInv, WhitespaceInv, PlainTextInv, NumberInv
  <2>4. CASE ~Matching' /\ pc' # "catchall"
    BY <1>1, <2>2, <2>4, LinesBetween
  <2>5. CASE pc' = "catchall"
    <3>1. \A j \in 1..Scanners : setup.order[j] \in TakesLineEnds => ~LineEndNext
      <4>1. CASE StartRound
        <5>1. ~(None < Scanners)
          BY <2>5, <4>1 DEF StartRound, Offer, OfferAfter
        <5>2. 1..Scanners = {}
          BY <5>1, ScannersAssumption DEF None
        <5> QED
          BY <5>2
      <4>2. CASE at = "returned" /\ MatchEnds
        <5>1. pc = "match" /\ state = "Init" /\ ~(current < Scanners) /\ at = "returned"
          BY <2>5, <4>2 DEF MatchEnds, Offer, OfferAfter
        <5>2. Untaken /\ current \in 1..Scanners /\ Scanners \in Nat
          BY <5>1, ScannersAssumption DEF Untaken, Fits, WindowInv, Matching
        <5>3. \A j \in 1..Scanners : j \in 1..current - 1 \/ j = current
          BY <5>1, <5>2
        <5> QED
          BY <1>1, <5>1, <5>2, <5>3 DEF LeftInv
      <4> QED
        BY <1>2, <4>1, <4>2
    <3>2. LeftInv'
      BY <1>1, <2>1, <2>5, <3>1 DEF LeftInv, LineEndNext
    <3>3. (\A name : ~Doing(name)') /\ CommentInv'
      BY <1>1, <2>5 DEF Doing, Matching, CommentInv, BlockMarkers, commentVars
    <3> QED
      BY <2>2, <3>2, <3>3 DEF LinesInv, WhitespaceInv, PlainTextInv, NumberInv
  <2> QED
    BY <2>3, <2>4, <2>5
<1>3. CASE CatchAll
  <2>1. pc' = "eof" /\ pc = "catchall" /\ ~Matching' /\ pos = mark
    BY <1>1, <1>3 DEF CatchAll, Matching, Inv, WindowPlaced
  <2>2. CASE UNCHANGED bufferVars
    BY <1>1, <2>1, <2>2, CountStays, LinesBetween DEF bufferVars
  <2>3. CASE IsPositive(Peek) /\ AcceptTo(pos + 1, "ByChar", <<pos + 1>>)
    <3>1. ~AtEnd /\ Peek = text[mark + 1] /\ mark + 1 \in mark..Len(text)
      <4>1. ~AtEnd
        BY <2>3 DEF Peek, IsPositive
      <4> QED
        BY <1>1, <2>1, <4>1, WindowIs
    <3>2. ~CrLfAt(mark + 1)
      BY <1>1, <2>1, <3>1, LeftToCatchAll, LineEndFacts DEF IsNewline
    <3>3. setup.keepsLines => mark + 1 \notin LineEnds
      BY <1>1, <2>1, <3>1, LeftToCatchAll, LineEndFacts
    <3>4. /\ setup.keepsLines => \A i \in mark + 1..mark + 1 : i \in LineEnds => i = mark + 1
          /\ AcceptTo(mark + 1, "ByChar", <<mark + 1>>)
      BY <1>1, <2>1, <2>3
    <3>5. CountedInv'
      BY <1>1, <3>1, <3>2, <3>3, <3>4, CountGoesOn
    <3> QED
      BY <1>1, <2>1, <3>5, LinesBetween
  <2> QED
    BY <1>3, <2>2, <2>3 DEF CatchAll
<1>4. CASE EndRound
  <2>1. pc' \in {"done", "round"} /\ ~Matching' /\ pos = mark
    BY <1>4 DEF EndRound, Matching, Fits, WindowInv
  <2>2. CASE UNCHANGED bufferVars
    BY <1>1, <2>1, <2>2, CountStays, LinesBetween DEF bufferVars
  <2>3. CASE AcceptTo(pos, "EndOfFile", Literal)
    <3>1. Clean
      BY <1>1, <2>1, CleanAtMark
    <3>2. CountedInv'
      BY <1>1, <2>3, <3>1, CleanPasses
    <3> QED
      BY <1>1, <2>1, <3>2, LinesBetween
  <2> QED
    BY <1>4, <2>2, <2>3 DEF EndRound
<1> QED
  BY <1>2, <1>3, <1>4 DEF Driver

LEMMA LinesInvNext ==
    ASSUME LineEndsAreApart, Fits, StringInv, KeywordInv, IdentifierInv, LinesInv,
           [ScannersNext]_<<vars, scannerVars>>
    PROVE  LinesInv'
<1>1. /\ Unlocked /\ UNCHANGED <<text, setup>>
      /\ LeftInv /\ WhitespaceInv /\ PlainTextInv /\ NumberInv /\ CommentInv
  BY TokensStay DEF Fits, Unlocked, LinesInv
<1>2. ASSUME UNCHANGED <<pc, current>>, Matching
      PROVE  \A name : Doing(name)' <=> Doing(name)
  BY <1>1, <1>2 DEF Doing, Matching
<1>3. ASSUME UNCHANGED commentVars, ~Doing("comment")'
      PROVE  CommentInv'
  BY <1>1, <1>3 DEF CommentInv, BlockMarkers, commentVars
<1>4. ASSUME UNCHANGED <<pc, current>>, NEW name, name \notin TakesLineEnds, Doing(name),
             state' = "Init" => state = "Init" /\ UNCHANGED <<mark, roundMark>>
      PROVE  LeftInv'
  BY <1>1, <1>4, LeftStays DEF Doing
<1>5. ASSUME UNCHANGED <<pc, current>>, NEW name, Doing(name)
      PROVE  \A other : other # name => ~Doing(other)'
  BY <1>2, <1>5 DEF Doing
<1>6. CASE Whitespace /\ UNCHANGED commentVars
  <2>1. UNCHANGED <<pc, current>> /\ Doing("whitespace")
    BY <1>1, <1>6, WhitespaceFits
  <2>2. ~Doing("plaintext")' /\ ~Doing("number")' /\ ~Doing("comment")'
    BY <1>5, <2>1
  <2> QED
    BY <1>1, <1>3, <1>6, <2>2, WhitespaceLines DEF LinesInv, PlainTextInv, NumberInv
<1>7. CASE PlainText /\ UNCHANGED commentVars
  <2>1. UNCHANGED <<pc, current>> /\ Doing("plaintext")
    BY <1>1, <1>7, PlainTextFits
  <2>2. ~Doing("whitespace")' /\ ~Doing("number")' /\ ~Doing("comment")'
    BY <1>5, <2>1
  <2> QED
    BY <1>1, <1>3, <1>7, <2>2, PlainTextLines DEF LinesInv, WhitespaceInv, NumberInv
<1>8. CASE Number /\ UNCHANGED commentVars
  <2>1. /\ UNCHANGED <<pc, current>> /\ Doing("number")
        /\ state' = "Init" => state = "Init" /\ UNCHANGED <<mark, roundMark>>
    BY <1>1, <1>8, NumberFits
  <2>2. ~Doing("whitespace")' /\ ~Doing("plaintext")' /\ ~Doing("comment")'
    BY <1>5, <2>1
  <2>3. LeftInv'
    BY <1>4, <2>1 DEF TakesLineEnds
  <2> QED
    BY <1>1, <1>3, <1>8, <2>2, <2>3, NumberLines DEF LinesInv, WhitespaceInv, PlainTextInv
<1>9. CASE (QString \/ Keyword \/ Identifier) /\ UNCHANGED commentVars
  <2>1. PICK name \in {"qstring", "keyword", "identifier"} :
           /\ UNCHANGED <<pc, current>> /\ Doing(name)
           /\ state' = "Init" => state = "Init" /\ UNCHANGED <<mark, roundMark>>
    BY <1>1, <1>9, QStringFits, KeywordFits, IdentifierFits
  <2>2. ~Doing("whitespace")' /\ ~Doing("plaintext")' /\ ~Doing("number")' /\ ~Doing("comment")'
    BY <1>5, <2>1
  <2>3. LeftInv'
    BY <1>4, <2>1 DEF TakesLineEnds
  <2>4. CountedInv'
    BY <1>1, <1>9, QStringLines, WordLines
  <2> QED
    BY <1>3, <1>9, <2>2, <2>3, <2>4 DEF LinesInv, WhitespaceInv, PlainTextInv, NumberInv
<1>10. CASE CommentNext
  <2>1. /\ UNCHANGED <<pc, current>> /\ Doing("comment")
        /\ state' = "Init" => state = "Init" /\ UNCHANGED <<mark, roundMark>>
    BY <1>10, CommentDoes, CommentLeaves
  <2>2. ~Doing("whitespace")' /\ ~Doing("plaintext")' /\ ~Doing("number")'
    BY <1>5, <2>1
  <2>3. LeftInv'
    BY <1>4, <2>1 DEF TakesLineEnds
  <2>4. CountedInv' /\ CommentInv'
    BY <1>1, <1>10, <2>1, CommentLines
  <2> QED
    BY <2>2, <2>3, <2>4 DEF LinesInv, WhitespaceInv, PlainTextInv, NumberInv
<1>11. CASE Driver
  BY <1>11, DriverLines
<1>12. CASE UNCHANGED <<vars, scannerVars>>
  <2>1. /\ UNCHANGED <<text, pos, mark, tokens, crLfSplit, state, roundMark, setup, at, pc, current>>
        /\ UNCHANGED <<live, match, ending, inComment>>
    BY <1>12 DEF vars, bufferVars, driverVars, scannerVars, matchVars, commentVars
  <2>2. CountedInv'
    BY <2>1, CountStays DEF LinesInv
  <2>3. (\A name : Doing(name)' <=> Doing(name)) /\ (Untaken' <=> Untaken) /\ (Clean' <=> Clean)
        /\ (LineEndNext' <=> LineEndNext) /\ (AtNewline' <=> AtNewline)
    BY <2>1 DEF Doing, Matching, Untaken, Clean, LineEndNext, AtNewline, Peek, AtEnd
  <2>4. OneLine' <=> OneLine
    <3>1. LineEnds' = LineEnds
      BY <2>1, SameLines
    <3> QED
      BY <2>1, <3>1 DEF OneLine
  <2>5. LeftInv' /\ WhitespaceInv' /\ PlainTextInv' /\ NumberInv'
    BY <1>1, <2>1, <2>3, <2>4 DEF LeftInv, WhitespaceInv, PlainTextInv, NumberInv
  <2>6. CommentInv'
    BY <1>1, <2>1, <2>3, <2>4 DEF CommentInv, BlockMarkers
  <2> QED
    BY <2>2, <2>5, <2>6 DEF LinesInv
<1> QED
  BY <1>6, <1>7, <1>8, <1>9, <1>10, <1>11, <1>12 DEF ScannersNext, Scanner

LEMMA LinesInvInit == ASSUME ScannersInit PROVE LinesInv
<1>1. /\ mark = 0 /\ tokens = <<>> /\ crLfSplit = FALSE /\ pc = "round" /\ inComment = FALSE
      /\ Len(text) \in Nat
  BY FitsInit, Sizes DEF ScannersInit, AtStart, DriverInit, CommentInit, Fits
<1>2. NewLines = {} /\ LinesTo(mark) = {} /\ ~CrLfAt(mark)
  BY <1>1 DEF NewLines, TokensWith, LinesTo, LineEnds, CrLfAt
<1>3. CountedInv
  BY <1>1, <1>2 DEF CountedInv
<1>4. ~Matching /\ \A name : ~Doing(name)
  BY <1>1 DEF Matching, Doing
<1> QED
  BY <1>1, <1>3, <1>4
  DEF LinesInv, LeftInv, WhitespaceInv, PlainTextInv, NumberInv, CommentInv

\* The scanners cut no CRLF in two and, where none of them drops line ends,
\* make one NewLine token for each: with any text, any comment markers and any
\* order of the scanners, as long as what they look for has no line ends.
THEOREM LinesAreAlwaysKept ==
    ASSUME LineEndsAreApart
    PROVE  ScannersSpec => []LinesAreKept
<1>1. ScannersInit => StringInv /\ KeywordInv /\ IdentifierInv /\ LinesInv
  <2>1. ScannersInit => StringInv /\ KeywordInv /\ IdentifierInv
    BY DEF ScannersInit, DriverInit, StringInv, KeywordInv, IdentifierInv, Doing, Matching
  <2> QED
    BY <2>1, LinesInvInit
<1>2. Fits /\ StringInv /\ KeywordInv /\ IdentifierInv /\ LinesInv
        /\ [ScannersNext]_<<vars, scannerVars>>
        => StringInv' /\ KeywordInv' /\ IdentifierInv' /\ LinesInv'
  BY StringInvNext, WordStatesNext, LinesInvNext
<1>3. Fits /\ LinesInv => LinesAreKept
  <2> SUFFICES ASSUME Fits, LinesInv PROVE LinesAreKept
    OBVIOUS
  <2>1. CASE pc = "done"
    <3>1. mark = Len(text) /\ text \in Seq(Chars)
      BY <2>1, Sizes DEF Fits, Inv, EndsWithEndOfFile, BufferOK
    <3>2. LinesTo(mark) = LineEnds
      BY <3>1, LineEndFacts DEF LinesTo
    <3> QED
      BY <3>2 DEF LinesInv, CountedInv, LinesAreKept, NewLines
  <2>2. CASE pc # "done"
    BY <2>2 DEF LinesInv, CountedInv, LinesAreKept
  <2> QED
    BY <2>1, <2>2
<1> QED
  BY <1>1, <1>2, <1>3, FitsInit, FitsNext, PTL DEF ScannersSpec

-----------------------------------------------------------------------------
(* Comments.                                                               *)

\* The comment of a marker starts at the mark.
Opens(m) ==
    /\ m.hashpling => mark = 0
    /\ mark + Len(m.start) <= Len(text)
    /\ Agrees(m.start, mark + 1, mark + Len(m.start))

Unopened == \A m \in setup.markers : ~Opens(m)

\* Where the text of the comment at the mark starts.
Body(m) == mark + 1 + Len(m.start)

\* The text goes on from i to b like the end marker, as far as that goes.
Begins(m, i, b) == \A j \in i..b : j - i < Len(m.end) => text[j] = m.end[j - i + 1]

\* Less than an end marker before i its first character stands in the comment.
Begun(m, i) == \E j \in Body(m)..i - 1 : i - j < Len(m.end) /\ text[j] = m.end[1]

\* Up to b, an end marker that begins somewhere else than at place stands where
\* another one was begun.
OnlyFrom(place, m, b) ==
    Len(m.end) > 1 =>
        \A i \in Body(m)..b : Begins(m, i, b) => i = place \/ Begun(m, i)

\* How far a comment's scanner is at b: before the end marker, in the middle
\* of it, or behind it.
EndsAt(m, n, b) ==
    /\ Body(m) <= b - n + 1
    /\ \A i \in 1..n : text[b - n + i] = m.end[i]

TextTo(m, b) == OnlyFrom(0, m, b)

EndingTo(m, n, b) ==
    /\ n \in Nat \ {0}
    /\ EndsAt(m, n, b)
    /\ OnlyFrom(b - n + 1, m, b)
    /\ Len(m.end) > 1 => n < Len(m.end)

EndTo(m, b) ==
    /\ EndsAt(m, Len(m.end), b)
    /\ OnlyFrom(b - Len(m.end) + 1, m, b)

\* What a comment's scanner has of the text, where it does not split comments.
MarkersInv ==
    ~setup.split =>
        /\ ~inComment
        /\ Doing("comment") =>
              /\ at \notin {"newline", "line", "lock"}
              /\ at = "start" => pos = mark
              /\ at = "marker" =>
                    /\ live = {m \in setup.markers : (m.hashpling => mark = 0)
                                                     /\ Agrees(m.start, mark + 1, pos)}
                    /\ \A m \in setup.markers : Opens(m) => Len(m.start) > pos - mark
              /\ at \in {"eol", "text", "ending", "end"} =>
                    match \in setup.markers /\ Opens(match) /\ Body(match) <= pos + 1
              /\ at = "eol" => match.eol /\ Clean
              /\ at \in {"text", "ending", "end"} => ~match.eol
              /\ at = "text" => TextTo(match, pos)
              /\ at = "ending" => EndingTo(match, ending, pos)
              /\ at = "end" => EndTo(match, pos)

\* A scanner is asked after the one for comments only where none starts.
UnopenedInv ==
    pc = "match" /\ Untaken /\ ~setup.split =>
        /\ \A j \in 1..current - 1 : setup.order[j] = "comment" => Unopened
        /\ Doing("comment") /\ at = "returned" => Unopened

LEMMA SameComments ==
    ASSUME text' = text, mark' = mark
    PROVE  /\ \A m : Opens(m)' <=> Opens(m)
           /\ \A m : Body(m)' = Body(m)
           /\ \A m, b : TextTo(m, b)' <=> TextTo(m, b)
           /\ \A m, n, b : EndingTo(m, n, b)' <=> EndingTo(m, n, b)
           /\ \A m, b : EndTo(m, b)' <=> EndTo(m, b)
           /\ \A kw, a, b : Agrees(kw, a, b)' <=> Agrees(kw, a, b)
<1>1. \A kw, a, b : Agrees(kw, a, b)' <=> Agrees(kw, a, b)
  BY DEF Agrees
<1>2. \A m : Body(m)' = Body(m)
  BY DEF Body
<1>3. \A m, i, b : Begins(m, i, b)' <=> Begins(m, i, b)
  BY DEF Begins
<1>4. \A m, i : Begun(m, i)' <=> Begun(m, i)
  BY <1>2 DEF Begun
<1>5. \A place, m, b : OnlyFrom(place, m, b)' <=> OnlyFrom(place, m, b)
  BY <1>2, <1>3, <1>4 DEF OnlyFrom
<1>6. \A m, n, b : EndsAt(m, n, b)' <=> EndsAt(m, n, b)
  BY <1>2 DEF EndsAt
<1>7. \A m : Opens(m)' <=> Opens(m)
  BY <1>1 DEF Opens
<1>8. /\ \A m, b : TextTo(m, b)' <=> TextTo(m, b)
      /\ \A m, n, b : EndingTo(m, n, b)' <=> EndingTo(m, n, b)
      /\ \A m, b : EndTo(m, b)' <=> EndTo(m, b)
  BY <1>5, <1>6 DEF TextTo, EndingTo, EndTo
<1> QED
  BY <1>1, <1>2, <1>7, <1>8

\* The configured markers.
LEMMA MarkerFacts ==
    ASSUME setup \in Setups, NEW m \in setup.markers
    PROVE  /\ m.start \in Seq(Chars) /\ m.end \in Seq(Chars)
           /\ Len(m.start) \in Nat /\ Len(m.end) \in Nat
BY SetupsAssumption, LenProperties

\* Of the markers, one starts at the mark at most.
LEMMA OneOpens ==
    ASSUME MarkersAreApart, text \in Seq(Chars), setup \in Setups, mark \in Nat,
           NEW m \in setup.markers, NEW other \in setup.markers, Opens(m), Opens(other)
    PROVE  other = m
<1>1. /\ Len(m.start) \in Nat /\ Len(other.start) \in Nat /\ Len(text) \in Nat
      /\ m.start \in Seq(Chars) /\ other.start \in Seq(Chars)
  BY MarkerFacts, LenProperties
<1>2. ASSUME NEW p \in setup.markers, NEW q \in setup.markers, Opens(p), Opens(q),
             Len(p.start) <= Len(q.start)
      PROVE  q = p
  <2> DEFINE a == mark + 1
             b == mark + Len(p.start)
  <2>1. /\ p.start \in Seq(Chars) /\ q.start \in Seq(Chars)
        /\ Len(p.start) \in Nat /\ Len(q.start) \in Nat /\ Len(text) \in Nat
    BY MarkerFacts, LenProperties
  <2>2. /\ a \in Nat \ {0} /\ b \in Nat /\ a <= b + 1 /\ b <= Len(text)
        /\ b - a + 1 = Len(p.start) /\ mark + Len(q.start) \in Nat /\ b <= mark + Len(q.start)
    BY <1>2, <2>1 DEF Opens
  <2>3. Agrees(p.start, a, b) /\ Agrees(q.start, a, mark + Len(q.start))
    BY <1>2 DEF Opens
  <2>4. Agrees(q.start, a, b)
    BY <2>1, <2>2, <2>3, AgreesBefore
  <2>5. p.start = TextOf(a, b)
    BY <2>1, <2>2, <2>3, AgreesText
  <2>6. StartsWith(q.start, TextOf(a, b))
    BY <2>1, <2>2, <2>4, AgreesText
  <2> QED
    BY <2>5, <2>6 DEF MarkersAreApart
<1> QED
  BY <1>1, <1>2

\* A marker starts at the mark if it is what stands there.
LEMMA MarkerStandsThere ==
    ASSUME text \in Seq(Chars), setup \in Setups, mark \in Nat, mark <= Len(text),
           NEW m \in setup.markers, m.hashpling => mark = 0,
           TextOf(mark + 1, mark + Len(m.start)) = m.start
    PROVE  Opens(m)
<1> DEFINE a == mark + 1
           b == mark + Len(m.start)
<1>1. m.start \in Seq(Chars) /\ Len(m.start) \in Nat /\ Len(text) \in Nat
  BY MarkerFacts, LenProperties
<1>2. a \in Nat \ {0} /\ b \in Nat /\ a <= b + 1 /\ b - a + 1 = Len(m.start)
      /\ a <= Len(text) + 1 /\ Len(text) <= Len(text)
  BY <1>1
<1>3. b <= Len(text)
  <2> SUFFICES ASSUME ~(b <= Len(text)) PROVE FALSE
    OBVIOUS
  <2>1. ~(b < Len(text))
    BY <1>1, <1>2
  <2>2. TextOf(a, b) = TextOf(a, Len(text))
    BY <2>1, TextOfEnds
  <2>3. Len(TextOf(a, Len(text))) = Len(text) - a + 1
    BY <1>1, <1>2, TextOfIs
  <2> QED
    BY <1>1, <1>2, <2>2, <2>3
<1>4. Agrees(m.start, a, b)
  BY <1>1, <1>2, <1>3, AgreesText
<1> QED
  BY <1>3, <1>4 DEF Opens

LEMMA BodyType ==
    ASSUME setup \in Setups, mark \in Nat, NEW m \in setup.markers
    PROVE  Body(m) \in Nat \ {0}
<1> DEFINE n == Len(m.start)
<1>1. n \in Nat
  BY MarkerFacts
<1>2. Body(m) = mark + 1 + n
  BY DEF Body
<1> HIDE DEF n
<1> QED
  BY <1>1, <1>2

\* A comment's text starts behind its start marker.
LEMMA BodyStarts ==
    ASSUME text \in Seq(Chars), setup \in Setups, mark \in Nat,
           NEW m \in setup.markers, NEW b \in Nat, b + 1 = Body(m)
    PROVE  TextTo(m, b)
<1>1. Body(m)..b = {}
  BY BodyType
<1> QED
  BY <1>1 DEF TextTo, OnlyFrom

\* The end marker that the scanner is after behind one more character: the one
\* before, or one that begins there.
LEMMA OnlyFromGrows ==
    ASSUME NEW m, Body(m) \in Nat \ {0}, NEW b \in Nat, NEW place, NEW next,
           OnlyFrom(place, m, b),
           Len(m.end) > 1 /\ place \in Body(m)..b /\ Begins(m, place, b + 1) => place = next,
           Len(m.end) > 1 /\ Begins(m, b + 1, b + 1) => b + 1 = next \/ Begun(m, b + 1)
    PROVE  OnlyFrom(next, m, b + 1)
<1>1. SUFFICES ASSUME Len(m.end) > 1, NEW i \in Body(m)..b + 1, Begins(m, i, b + 1)
               PROVE  i = next \/ Begun(m, i)
  BY DEF OnlyFrom
<1>2. CASE i = b + 1
  BY <1>1, <1>2
<1>3. CASE i \in Body(m)..b
  <2>1. \A j \in i..b : j \in i..b + 1
    BY <1>3
  <2>2. Begins(m, i, b)
    BY <1>1, <2>1 DEF Begins
  <2>3. i = place \/ Begun(m, i)
    BY <1>1, <1>3, <2>2 DEF OnlyFrom
  <2> QED
    BY <1>1, <1>3, <2>3
<1> QED
  BY <1>2, <1>3

\* What one more character is in the text of a comment.
LEMMA BodyGoesOn ==
    ASSUME text \in Seq(Chars), setup \in Setups, mark \in Nat,
           NEW m \in setup.markers, NEW b \in Nat, Body(m) <= b + 1
    PROVE  /\ TextTo(m, b) /\ text[b + 1] = m.end[1] => EndingTo(m, 1, b + 1)
           /\ TextTo(m, b) /\ text[b + 1] # m.end[1] => TextTo(m, b + 1)
<1>1. Body(m) \in Nat \ {0} /\ Len(m.end) \in Nat
  BY BodyType, MarkerFacts
<1>2. 0 \notin Body(m)..b /\ (b + 1) - 1 + 1 = b + 1
  BY <1>1
<1>3. ASSUME TextTo(m, b), text[b + 1] = m.end[1]
      PROVE  EndingTo(m, 1, b + 1)
  <2>1. EndsAt(m, 1, b + 1)
    <3>1. \A i \in 1..1 : i = 1
      OBVIOUS
    <3> QED
      BY <1>2, <1>3, <3>1 DEF EndsAt
  <2>2. OnlyFrom(b + 1, m, b + 1)
    BY <1>1, <1>2, <1>3, OnlyFromGrows DEF TextTo
  <2> QED
    BY <1>2, <2>1, <2>2 DEF EndingTo
<1>4. ASSUME TextTo(m, b), text[b + 1] # m.end[1]
      PROVE  TextTo(m, b + 1)
  <2>1. Len(m.end) > 1 => ~Begins(m, b + 1, b + 1)
    <3>1. b + 1 \in b + 1..b + 1 /\ (b + 1) - (b + 1) = 0 /\ (b + 1) - (b + 1) + 1 = 1
      OBVIOUS
    <3>2. Len(m.end) > 1 => (b + 1) - (b + 1) < Len(m.end)
      BY <1>1
    <3> QED
      BY <1>4, <3>1, <3>2 DEF Begins
  <2> QED
    BY <1>1, <1>2, <1>4, <2>1, OnlyFromGrows DEF TextTo
<1> QED
  BY <1>3, <1>4

\* What one more character is in the middle of an end marker.
LEMMA EndingGoesOn ==
    ASSUME text \in Seq(Chars), setup \in Setups, mark \in Nat,
           NEW m \in setup.markers, NEW b \in Nat, Body(m) <= b + 1,
           NEW n, EndingTo(m, n, b)
    PROVE  /\ n + 1 = Len(m.end) /\ text[b + 1] = m.end[n + 1] => EndTo(m, b + 1)
           /\ n + 1 < Len(m.end) /\ text[b + 1] = m.end[n + 1] => EndingTo(m, n + 1, b + 1)
           /\ ~(n + 1 <= Len(m.end) /\ text[b + 1] = m.end[n + 1]) => TextTo(m, b + 1)
<1>1. Body(m) \in Nat \ {0} /\ Len(m.end) \in Nat /\ n \in Nat \ {0}
  BY BodyType, MarkerFacts DEF EndingTo
<1>2. /\ EndsAt(m, n, b) /\ OnlyFrom(b - n + 1, m, b)
      /\ Len(m.end) > 1 => n < Len(m.end)
  BY DEF EndingTo
<1>3. text[b + 1] = m.end[n + 1] => EndsAt(m, n + 1, b + 1)
  <2> SUFFICES ASSUME text[b + 1] = m.end[n + 1] PROVE EndsAt(m, n + 1, b + 1)
    OBVIOUS
  <2>1. (b + 1) - (n + 1) = b - n /\ (b + 1) - (n + 1) + 1 = b - n + 1
    BY <1>1
  <2>2. ASSUME NEW i \in 1..n + 1
        PROVE  text[(b + 1) - (n + 1) + i] = m.end[i]
    <3>1. CASE i \in 1..n
      BY <1>2, <2>1, <3>1 DEF EndsAt
    <3>2. CASE i = n + 1
      <4>1. (b + 1) - (n + 1) + (n + 1) = b + 1
        BY <1>1
      <4> QED
        BY <3>2, <4>1
    <3> QED
      BY <1>1, <2>2, <3>1, <3>2
  <2> QED
    BY <1>2, <2>1, <2>2 DEF EndsAt
<1>4. Len(m.end) > 1 => Begun(m, b + 1)
  <2> DEFINE j == b - n + 1
  <2>1. j \in Body(m)..(b + 1) - 1 /\ (b + 1) - j = n
    BY <1>1, <1>2 DEF EndsAt
  <2>2. 1 \in 1..n
    BY <1>1
  <2>3. text[j] = m.end[1]
    BY <1>2, <2>2 DEF EndsAt
  <2> HIDE DEF j
  <2>4. Len(m.end) > 1 => (b + 1) - j < Len(m.end)
    BY <1>2, <2>1
  <2> QED
    BY <2>1, <2>3, <2>4 DEF Begun
<1>5. (b + 1) - (n + 1) + 1 = b - n + 1
  BY <1>1
<1>6. OnlyFrom(b - n + 1, m, b + 1)
  <2> DEFINE place == b - n + 1
  <2>1. OnlyFrom(place, m, b)
    BY <1>2
  <2> HIDE DEF place
  <2>2. OnlyFrom(place, m, b + 1)
    BY <1>1, <1>4, <2>1, OnlyFromGrows
  <2> QED
    BY <2>2 DEF place
<1>7. ASSUME n + 1 = Len(m.end), text[b + 1] = m.end[n + 1]
      PROVE  EndTo(m, b + 1)
  <2>1. (b + 1) - Len(m.end) + 1 = b - n + 1
    BY <1>5, <1>7
  <2>2. EndsAt(m, Len(m.end), b + 1)
    BY <1>3, <1>7
  <2> QED
    BY <1>6, <2>1, <2>2 DEF EndTo
<1>8. ASSUME n + 1 < Len(m.end), text[b + 1] = m.end[n + 1]
      PROVE  EndingTo(m, n + 1, b + 1)
  <2>1. n + 1 \in Nat \ {0}
    BY <1>1
  <2> QED
    BY <1>3, <1>5, <1>6, <1>8, <2>1 DEF EndingTo
<1>9. ASSUME ~(n + 1 <= Len(m.end) /\ text[b + 1] = m.end[n + 1])
      PROVE  TextTo(m, b + 1)
  <2> DEFINE place == b - n + 1
  <2>1. OnlyFrom(place, m, b)
    BY <1>2
  <2>2. Len(m.end) > 1 => ~Begins(m, place, b + 1)
    <3> SUFFICES ASSUME Len(m.end) > 1, Begins(m, place, b + 1) PROVE FALSE
      OBVIOUS
    <3>1. n < Len(m.end) /\ n + 1 <= Len(m.end)
      BY <1>1, <1>2
    <3>2. b + 1 \in place..b + 1 /\ (b + 1) - place = n
      BY <1>1
    <3>3. text[b + 1] = m.end[n + 1]
      BY <3>1, <3>2 DEF Begins
    <3> QED
      BY <1>9, <3>1, <3>3
  <2> HIDE DEF place
  <2> QED
    BY <1>1, <1>4, <2>1, <2>2, OnlyFromGrows DEF TextTo
<1> QED
  BY <1>7, <1>8, <1>9

\* The markers that are still live are those that go on like the text.
LEMMA StillLiveIs ==
    ASSUME Unlocked, ~AtEnd,
           live = {m \in setup.markers : (m.hashpling => mark = 0)
                                         /\ Agrees(m.start, mark + 1, pos)}
    PROVE  StillLive = {m \in setup.markers : (m.hashpling => mark = 0)
                                              /\ Agrees(m.start, mark + 1, pos + 1)}
<1>1. /\ text \in Seq(Chars) /\ setup \in Setups /\ mark \in Nat /\ pos \in Nat /\ mark <= pos
      /\ pos < Len(text) /\ mark + 1 \in Nat \ {0} /\ Len(text) \in Nat
  BY WindowIs
<1>2. pos + 1 \in Nat /\ mark + 1 <= (pos + 1) + 1 /\ pos + 1 <= Len(text) /\ pos <= pos + 1
  BY <1>1
<1>3. ASSUME NEW m \in setup.markers
      PROVE  /\ StartsWith(m.start, TextOf(mark + 1, pos + 1)) <=> Agrees(m.start, mark + 1, pos + 1)
             /\ Agrees(m.start, mark + 1, pos + 1) => Agrees(m.start, mark + 1, pos)
  <2>1. m.start \in Seq(Chars) /\ Len(m.start) \in Nat
    BY <1>1, MarkerFacts
  <2> QED
    BY <1>1, <1>2, <2>1, AgreesText, AgreesBefore
<1> QED
  BY <1>3 DEF StillLive

LEMMA PushReads ==
    ASSUME Unlocked, NEW place, Edits(Push, place), Peek # Nul
    PROVE  /\ pos' = pos + 1 /\ UNCHANGED <<mark, state>> /\ at' = place
           /\ ~AtEnd /\ pos < Len(text) /\ text[pos + 1] = Peek
<1>1. ~AtEnd
  BY WindowIs
<1> QED
  BY <1>1, WindowIs DEF Edits, Push, SkipOne

\* What comes of a marker's next character.
LEMMA MarkerReads ==
    ASSUME MarkersAreApart, Unlocked, ~setup.split, MarkersInv, CommentReadsMarker,
           UNCHANGED <<text, setup, pc, current>>
    PROVE  MarkersInv' /\ (at' = "returned" => Unopened)
<1> DEFINE n == pos - mark
           Fitting(b) == {m \in setup.markers : (m.hashpling => mark = 0)
                                                /\ Agrees(m.start, mark + 1, b)}
<1>1. /\ text \in Seq(Chars) /\ setup \in Setups /\ mark \in Nat /\ pos \in Nat /\ mark <= pos
      /\ pos <= Len(text) /\ mark + 1 \in Nat \ {0} /\ Len(text) \in Nat
  BY WindowIs
<1>2. /\ Doing("comment") /\ Doing("comment")' /\ at = "marker" /\ ~inComment
      /\ live = Fitting(pos)
      /\ \A m \in setup.markers : Opens(m) => Len(m.start) > n
      /\ UNCHANGED inComment
  BY DEF CommentReadsMarker, Comment, Running, Doing, Matching, MarkersInv
<1> HIDE DEF n, Fitting
<1>3. at' = "returned" => MarkersInv'
  BY <1>2 DEF MarkersInv
<1>4. n \in Nat /\ pos = mark + n
  BY <1>1 DEF n
<1>5. \A m \in setup.markers :
         /\ m.start \in Seq(Chars) /\ Len(m.start) \in Nat
         /\ Opens(m) => /\ mark + Len(m.start) <= Len(text) /\ (m.hashpling => mark = 0)
                        /\ Agrees(m.start, mark + 1, mark + Len(m.start))
  BY <1>1, MarkerFacts DEF Opens
<1>6. CASE Peek = Nul /\ Returns
  <2>1. at' = "returned"
    BY <1>6 DEF Returns, GoesTo
  <2>2. pos = Len(text)
    BY <1>6, WindowIs
  <2>3. ASSUME NEW m \in setup.markers PROVE ~Opens(m)
    <3> DEFINE l == Len(m.start)
    <3>1. l \in Nat /\ (Opens(m) => mark + l <= Len(text) /\ l > n)
      BY <1>2, <1>5
    <3> HIDE DEF l
    <3> QED
      BY <1>1, <1>4, <2>2, <3>1
  <2> QED
    BY <1>3, <2>1, <2>3 DEF Unopened
<1>7. ASSUME Peek # Nul, NEW place, Edits(Push, place)
      PROVE  /\ pos' = pos + 1 /\ mark' = mark /\ at' = place
             /\ pos < Len(text) /\ text[pos + 1] = Peek
             /\ StillLive = Fitting(pos + 1)
             /\ pos + 1 \in Nat /\ mark + 1 <= (pos + 1) + 1 /\ pos + 1 <= Len(text)
             /\ (pos + 1) - (mark + 1) + 1 = n + 1 /\ mark + (n + 1) = pos + 1
  <2>1. /\ pos' = pos + 1 /\ mark' = mark /\ at' = place
        /\ ~AtEnd /\ pos < Len(text) /\ text[pos + 1] = Peek
    BY <1>7, PushReads
  <2>2. StillLive = Fitting(pos + 1)
    BY <1>2, <2>1, StillLiveIs DEF Fitting
  <2> QED
    BY <1>1, <1>4, <2>1, <2>2
<1>8. ASSUME NEW m \in live, Peek # Nul, Found(m), match' = m,
             NEW place \in {"eol", "text"}, place = "eol" <=> m.eol, Edits(Push, place)
      PROVE  MarkersInv' /\ (at' = "returned" => Unopened)
  <2>1. /\ pos' = pos + 1 /\ mark' = mark /\ at' = place
        /\ StillLive = Fitting(pos + 1) /\ pos + 1 \in Nat /\ pos + 1 <= Len(text)
        /\ mark + (n + 1) = pos + 1
    BY <1>7, <1>8
  <2>2. /\ m \in setup.markers /\ (m.hashpling => mark = 0)
        /\ Agrees(m.start, mark + 1, pos + 1)
        /\ Len(m.start) = n + 1
    <3>1. m \in StillLive /\ Len(m.start) = pos + 1 - mark
      BY <1>8 DEF Found
    <3>2. pos + 1 - mark = n + 1
      BY <1>1, <1>4
    <3> QED
      BY <2>1, <3>1, <3>2 DEF Fitting
  <2>3. Opens(m)
    BY <2>1, <2>2 DEF Opens
  <2>4. Body(m) = (pos + 1) + 1
    <3>1. Body(m) = mark + 1 + (n + 1)
      BY <2>2 DEF Body
    <3> QED
      BY <1>1, <1>4, <3>1
  <2>5. m.eol => Clean'
    <3> SUFFICES ASSUME m.eol, NEW i \in mark + 1..pos + 1
                 PROVE  ~IsNewline(text[i])
      BY <2>1 DEF Clean
    <3>1. m.start[i - (mark + 1) + 1] = text[i]
      BY <2>2 DEF Agrees
    <3>2. i - (mark + 1) + 1 \in 1..n + 1
      BY <1>1, <1>4
    <3>3. i - (mark + 1) + 1 \in 1..Len(m.start)
      BY <2>2, <3>2
    <3>4. ~IsNewline(m.start[i - (mark + 1) + 1])
      BY <1>1, <2>2, <3>3 DEF MarkersAreApart
    <3> QED
      BY <3>1, <3>4
  <2>6. TextTo(m, pos + 1)
    BY <1>1, <2>1, <2>2, <2>4, BodyStarts
  <2>7. /\ Opens(match)' /\ match' \in setup'.markers /\ Body(match)' = (pos + 1) + 1
        /\ TextTo(match, pos)'
    BY <1>8, <2>1, <2>2, <2>3, <2>4, <2>6, SameComments
  <2>8. Body(match)' <= pos' + 1
    BY <2>1, <2>7
  <2> QED
    BY <1>2, <1>8, <2>1, <2>5, <2>7, <2>8 DEF MarkersInv
<1>9. CASE /\ Peek # Nul /\ live' = StillLive /\ (~ \E m \in live : Found(m))
           /\ Edits(Push, IF StillLive = {} THEN "returned" ELSE "marker")
  <2>1. /\ pos' = pos + 1 /\ mark' = mark
        /\ at' = (IF StillLive = {} THEN "returned" ELSE "marker")
        /\ StillLive = Fitting(pos + 1) /\ pos + 1 \in Nat /\ pos + 1 <= Len(text)
        /\ mark + 1 <= (pos + 1) + 1
        /\ (pos + 1) - (mark + 1) + 1 = n + 1 /\ mark + (n + 1) = pos + 1
    BY <1>7, <1>9
  <2>2. ASSUME NEW m \in setup.markers, Opens(m)
        PROVE  m \in StillLive /\ Len(m.start) \in Nat /\ Len(m.start) > n
    <3> DEFINE l == Len(m.start)
    <3>1. /\ l \in Nat /\ l > n /\ (m.hashpling => mark = 0)
          /\ Agrees(m.start, mark + 1, mark + l) /\ Len(m.start) \in Nat
      BY <1>2, <1>5, <2>2
    <3> HIDE DEF l
    <3>2. mark + l \in Nat /\ pos + 1 <= mark + l
      BY <1>1, <1>4, <3>1
    <3>3. Agrees(m.start, mark + 1, pos + 1)
      BY <1>1, <2>1, <3>1, <3>2, AgreesBefore
    <3> QED
      BY <2>1, <3>1, <3>3 DEF Fitting, l
  <2>3. CASE StillLive = {}
    BY <1>3, <2>1, <2>2, <2>3 DEF Unopened
  <2>4. CASE StillLive # {}
    <3>1. ASSUME NEW m \in setup.markers, Opens(m)
          PROVE  Len(m.start) > n + 1
      <4> SUFFICES ASSUME Len(m.start) = n + 1 PROVE FALSE
        BY <1>4, <2>2, <3>1
      <4>1. m \in StillLive /\ m \in live
        BY <2>2, <3>1 DEF StillLive
      <4>2. Len(m.start) = pos + 1 - mark
        BY <1>1, <1>4
      <4>3. StillLive # {m}
        BY <1>9, <4>1, <4>2 DEF Found
      <4>4. PICK other \in StillLive : other # m
        BY <4>1, <4>3
      <4>5. m.start = TextOf(mark + 1, pos + 1)
        <5>1. m.start \in Seq(Chars) /\ Agrees(m.start, mark + 1, pos + 1)
          BY <1>5, <2>1, <4>1 DEF Fitting
        <5> QED
          BY <1>1, <2>1, <5>1, AgreesText
      <4>6. other \in setup.markers /\ StartsWith(other.start, m.start)
        BY <2>1, <4>4, <4>5 DEF StillLive, Fitting
      <4> QED
        BY <1>1, <3>1, <4>4, <4>6 DEF MarkersAreApart
    <3>2. at' = "marker"
      BY <2>1, <2>4
    <3>3. live' = {m \in setup'.markers : (m.hashpling => mark' = 0)
                                          /\ Agrees(m.start, mark + 1, pos)'}
      <4>1. \A m : Agrees(m.start, mark + 1, pos)' <=> Agrees(m.start, mark + 1, pos + 1)
        BY <2>1, SameComments
      <4> QED
        BY <1>9, <2>1, <4>1 DEF Fitting
    <3>4. \A m \in setup'.markers : Opens(m)' => Len(m.start) > pos' - mark'
      <4>1. pos' - mark' = n + 1
        BY <1>1, <1>4, <2>1
      <4>2. \A m : Opens(m)' <=> Opens(m)
        BY <2>1, SameComments
      <4> QED
        BY <3>1, <4>1, <4>2
    <3> QED
      BY <1>2, <3>2, <3>3, <3>4 DEF MarkersInv
  <2> QED
    BY <2>3, <2>4
<1>10. ASSUME NEW m \in live, Peek # Nul, Found(m), match' = m,
              Edits(Push, IF m.eol THEN "eol" ELSE "text")
       PROVE  MarkersInv' /\ (at' = "returned" => Unopened)
  <2> DEFINE place == IF m.eol THEN "eol" ELSE "text"
  <2>1. place \in {"eol", "text"} /\ (place = "eol" <=> m.eol) /\ Edits(Push, place)
    BY <1>10
  <2> HIDE DEF place
  <2> QED
    BY <1>8, <1>10, <2>1
<1> QED
  BY <1>6, <1>9, <1>10 DEF CommentReadsMarker

\* What the scanner for comments keeps at each of its places; where it takes
\* nothing, no comment starts.
LEMMA CommentReads ==
    ASSUME MarkersAreApart, Unlocked, ~setup.split, MarkersInv, CommentNext,
           UNCHANGED <<text, setup>>
    PROVE  MarkersInv' /\ (at' = "returned" /\ state' = "Init" => Unopened)
<1>1. /\ text \in Seq(Chars) /\ setup \in Setups /\ mark \in Nat /\ pos \in Nat /\ mark <= pos
      /\ pos <= Len(text) /\ mark + 1 \in Nat \ {0}
  BY WindowIs
<1>2. /\ Doing("comment") /\ Matching /\ Doing("comment")' /\ UNCHANGED <<pc, current>>
      /\ ~inComment /\ at \notin {"newline", "line", "lock"}
  BY CommentDoes DEF Doing, Matching, MarkersInv
<1>3. ASSUME at' \in {"returned", "unlock"}, ~inComment'
      PROVE  MarkersInv'
  BY <1>2, <1>3 DEF MarkersInv
<1>4. ASSUME NEW code, NEW value, NEW place \in {"returned", "unlock"},
             Accepts(AcceptTo(pos, code, value), place), UNCHANGED inComment
      PROVE  MarkersInv' /\ state' # "Init"
  <2>1. at' = place /\ state' = "Success"
    BY <1>4 DEF Accepts, AcceptTo, SkipTo, PassTo
  <2> QED
    BY <1>2, <1>3, <1>4, <2>1
<1>5. CASE CommentStarts
  <2>1. /\ pos = mark /\ GoesTo("marker") /\ UNCHANGED inComment
        /\ live' = {m \in setup.markers : m.hashpling => pos = 0}
    BY <1>2, <1>5 DEF CommentStarts, Comment, Running, MarkersInv
  <2>2. at' = "marker" /\ UNCHANGED <<pos, mark>>
    BY <2>1 DEF GoesTo, bufferVars
  <2>3. \A m \in setup.markers : Agrees(m.start, mark + 1, pos) /\ Len(m.start) > 0
    <3> SUFFICES ASSUME NEW m \in setup.markers
                 PROVE  Agrees(m.start, mark + 1, pos) /\ Len(m.start) > 0
      OBVIOUS
    <3>1. m.start \in Seq(Chars) /\ Len(m.start) \in Nat /\ m.start # <<>>
      BY <1>1, MarkerFacts DEF MarkersAreApart
    <3>2. Len(m.start) > 0
      BY <3>1, EmptySeq
    <3>3. pos - (mark + 1) + 1 = 0 /\ mark + 1..pos = {}
      BY <1>1, <2>1
    <3> QED
      BY <3>2, <3>3 DEF Agrees
  <2>4. live' = {m \in setup'.markers : (m.hashpling => mark' = 0)
                                        /\ Agrees(m.start, mark + 1, pos)'}
    <3>1. \A m : Agrees(m.start, mark + 1, pos)' <=> Agrees(m.start, mark + 1, pos)
      BY <2>2, SameComments
    <3> QED
      BY <2>1, <2>2, <2>3, <3>1
  <2>5. pos' - mark' = 0
    BY <1>1, <2>1, <2>2
  <2> QED
    BY <1>2, <2>1, <2>2, <2>3, <2>4, <2>5 DEF MarkersInv
<1>6. CASE CommentReadsMarker
  BY <1>2, <1>6, MarkerReads
<1>7. CASE CommentReadsLine
  <2>1. /\ match \in setup.markers /\ Opens(match) /\ Body(match) <= pos + 1 /\ match.eol /\ Clean
        /\ UNCHANGED commentVars
    BY <1>2, <1>7 DEF CommentReadsLine, Comment, Running, MarkersInv
  <2>2. CASE AcceptToken("Comment", "returned")
    BY <1>4, <2>1, <2>2 DEF AcceptToken, commentVars
  <2>3. CASE Peek # Nul /\ ~IsNewline(Peek) /\ Edits(Push, "eol")
    <3>1. pos' = pos + 1 /\ mark' = mark /\ at' = "eol" /\ text[pos + 1] = Peek
      BY <2>3, PushReads
    <3>2. Clean'
      <4>1. \A i \in mark + 1..pos + 1 : i \in mark + 1..pos \/ i = pos + 1
        BY <1>1
      <4> QED
        BY <2>1, <2>3, <3>1, <4>1 DEF Clean
    <3>3. match' = match /\ ~inComment'
      BY <1>2, <2>1 DEF commentVars
    <3>4. Opens(match)' /\ Body(match)' = Body(match)
      BY <2>1, <3>1, <3>3, SameComments
    <3>5. Body(match) <= (pos + 1) + 1
      BY <1>1, <2>1, BodyType
    <3> QED
      BY <1>2, <2>1, <3>1, <3>2, <3>3, <3>4, <3>5 DEF MarkersInv
  <2> QED
    BY <1>7, <2>2, <2>3 DEF CommentReadsLine
<1>8. ASSUME NEW m \in setup.markers, Opens(m), ~m.eol, Body(m) <= pos + 1, match' = m,
             NEW place \in {"text", "ending", "end"}, Edits(Push, place), Peek # Nul, ~inComment',
             place = "text" => TextTo(m, pos + 1),
             place = "ending" => EndingTo(m, ending', pos + 1),
             place = "end" => EndTo(m, pos + 1)
      PROVE  MarkersInv' /\ at' # "returned"
  <2>1. pos' = pos + 1 /\ mark' = mark /\ at' = place
    BY <1>8, PushReads
  <2>2. Opens(match)' /\ Body(match)' = Body(m) /\ match' \in setup'.markers /\ ~match'.eol
    BY <1>8, <2>1, SameComments
  <2>3. Body(m) <= (pos + 1) + 1
    BY <1>1, <1>8, BodyType
  <2>4. /\ place = "text" => TextTo(match, pos)'
        /\ place = "ending" => EndingTo(match, ending, pos)'
        /\ place = "end" => EndTo(match, pos)'
    BY <1>8, <2>1, SameComments
  <2> QED
    BY <1>2, <1>8, <2>1, <2>2, <2>3, <2>4 DEF MarkersInv
<1>9. CASE CommentReadsText
  <2>1. /\ match \in setup.markers /\ Opens(match) /\ Body(match) <= pos + 1 /\ ~match.eol
        /\ TextTo(match, pos) /\ match' = match /\ ~inComment' /\ Peek # Nul
    BY <1>2, <1>9 DEF CommentReadsText, Comment, Running, MarkersInv
  <2>2. CASE Peek = match.end[1] /\ Edits(Push, "ending") /\ ending' = 1
    <3>1. EndingTo(match, 1, pos + 1)
      BY <1>1, <2>1, <2>2, PushReads, BodyGoesOn
    <3> QED
      BY <1>8, <2>1, <2>2, <3>1
  <2>3. CASE Peek # match.end[1] /\ Edits(Push, "text")
    <3>1. TextTo(match, pos + 1)
      BY <1>1, <2>1, <2>3, PushReads, BodyGoesOn
    <3> QED
      BY <1>8, <2>1, <2>3, <3>1
  <2> QED
    BY <1>9, <2>2, <2>3 DEF CommentReadsText, SplitsHere
<1>10. CASE CommentReadsEnding
  <2>1. /\ match \in setup.markers /\ Opens(match) /\ Body(match) <= pos + 1 /\ ~match.eol
        /\ EndingTo(match, ending, pos) /\ match' = match /\ ~inComment' /\ Peek # Nul
    BY <1>2, <1>10 DEF CommentReadsEnding, Comment, Running, MarkersInv
  <2>2. Len(match.end) \in Nat /\ ending \in Nat
    BY <1>1, <2>1, MarkerFacts DEF EndingTo
  <2> DEFINE next == text[pos + 1]
             goesOn == next = match.end[ending + 1]
  <2>3. /\ ending + 1 = Len(match.end) /\ goesOn => EndTo(match, pos + 1)
        /\ ending + 1 < Len(match.end) /\ goesOn => EndingTo(match, ending + 1, pos + 1)
        /\ ~(ending + 1 <= Len(match.end) /\ goesOn) => TextTo(match, pos + 1)
    BY <1>1, <2>1, EndingGoesOn
  <2>4. ASSUME NEW place, Edits(Push, place)
        PROVE  EndsWith(ending + 1) <=> ending + 1 <= Len(match.end) /\ goesOn
    BY <2>1, <2>4, PushReads DEF EndsWith
  <2>5. CASE ending + 1 = Len(match.end) /\ EndsWith(ending + 1) /\ Edits(Push, "end")
    BY <1>8, <2>1, <2>3, <2>4, <2>5
  <2>6. CASE ~EndsWith(ending + 1) /\ Edits(Push, "text")
    BY <1>8, <2>1, <2>3, <2>4, <2>6
  <2>7. CASE /\ ending + 1 # Len(match.end) /\ EndsWith(ending + 1) /\ Edits(Push, "ending")
             /\ ending' = ending + 1
    <3>1. goesOn /\ ending + 1 <= Len(match.end)
      BY <2>4, <2>7
    <3>2. ending + 1 < Len(match.end)
      BY <2>2, <2>7, <3>1
    <3> QED
      BY <1>8, <2>1, <2>3, <2>7, <3>1, <3>2
  <2> QED
    BY <1>10, <2>5, <2>6, <2>7 DEF CommentReadsEnding, SplitsHere
<1>11. CASE CommentIsComplete \/ CommentIsUnterminated
  BY <1>4, <1>11
  DEF CommentIsComplete, CommentIsUnterminated, AcceptToken, AcceptError, commentVars
<1>12. CASE CommentUnlocks
  <2>1. at = "unlock" /\ at' = "returned" /\ UNCHANGED commentVars /\ UNCHANGED bufferVars
    BY <1>12 DEF CommentUnlocks, Comment, Running, Locks
  <2>2. state' = "Success"
    BY <1>2, <2>1 DEF Unlocked, WindowInv, Taken, bufferVars
  <2> QED
    BY <1>2, <1>3, <2>1, <2>2 DEF commentVars
<1>13. CASE CommentTakesNewline \/ CommentAcceptsNewline \/ CommentLocks
  BY <1>2, <1>13 DEF CommentTakesNewline, CommentAcceptsNewline, CommentLocks, Comment, Running
<1> QED
  BY <1>5, <1>6, <1>7, <1>9, <1>10, <1>11, <1>12, <1>13 DEF CommentNext

\* A step of a scanner leaves what starts no comment at that.
LEMMA UnopenedStays ==
    ASSUME Unlocked, UnopenedInv, UNCHANGED <<pc, current, text, setup>>,
           state' = "Init" => state = "Init" /\ UNCHANGED <<mark, roundMark>>,
           Doing("comment") /\ at' = "returned" /\ state' = "Init" /\ ~setup.split => Unopened
    PROVE  UnopenedInv'
<1>1. SUFFICES ASSUME pc' = "match", Untaken', ~setup'.split
               PROVE  /\ \A j \in 1..current' - 1 : setup'.order[j] = "comment" => Unopened'
                      /\ Doing("comment")' /\ at' = "returned" => Unopened'
  BY DEF UnopenedInv
<1>2. state' = "Init" /\ state = "Init" /\ mark' = mark /\ roundMark' = roundMark /\ pc = "match"
  BY <1>1 DEF Untaken
<1>3. Untaken
  BY <1>2 DEF Untaken, Unlocked, WindowInv, Matching
<1>4. Unopened' <=> Unopened
  BY <1>2, SameComments DEF Unopened
<1>5. Doing("comment")' <=> Doing("comment")
  BY DEF Doing, Matching
<1> QED
  BY <1>1, <1>2, <1>3, <1>4, <1>5 DEF UnopenedInv

LEMMA OfferKeepsComments ==
    ASSUME Fits, MarkersInv, UnopenedInv, Driver
    PROVE  MarkersInv' /\ UnopenedInv'
<1>1. UNCHANGED <<setup, inComment>>
  BY DEF Driver, commentVars
<1>2. CASE ~Matching'
  BY <1>1, <1>2 DEF MarkersInv, UnopenedInv, Doing, Matching
<1>3. CASE Matching'
  <2>1. MarkersInv'
    BY <1>1, <1>3, Offered DEF MarkersInv
  <2>2. UnopenedInv'
    <3>1. SUFFICES ASSUME pc' = "match", ~setup'.split,
                          NEW j \in 1..current' - 1, setup'.order[j] = "comment"
                   PROVE  Unopened'
      BY <1>3, Offered DEF UnopenedInv
    <3>2. current' # 1
      OBVIOUS
    <3>3. pc = "match" /\ state = "Init" /\ at = "returned" /\ current' = current + 1
      BY <1>3, <3>1, <3>2, Offered
    <3>4. Untaken /\ current \in Nat
      BY <3>3, ScannersAssumption DEF Untaken, Fits, WindowInv, Matching
    <3>5. j \in 1..current - 1 \/ j = current
      BY <3>3, <3>4
    <3>6. Unopened
      BY <1>1, <3>1, <3>3, <3>4, <3>5 DEF UnopenedInv, Doing, Matching
    <3>7. text' = text /\ mark' = mark
      BY <1>3, Offered
    <3> QED
      BY <1>1, <3>6, <3>7, SameComments DEF Unopened
  <2> QED
    BY <2>1, <2>2
<1> QED
  BY <1>2, <1>3

LEMMA MarkersInvNext ==
    ASSUME MarkersAreApart, Fits, MarkersInv, UnopenedInv, [ScannersNext]_<<vars, scannerVars>>
    PROVE  MarkersInv' /\ UnopenedInv'
<1>1. Unlocked /\ UNCHANGED <<text, setup>>
  BY TokensStay DEF Fits, Unlocked
<1>2. CASE (Whitespace \/ QString \/ Number \/ Keyword \/ Identifier \/ PlainText)
           /\ UNCHANGED commentVars
  <2>1. /\ UNCHANGED <<pc, current>>
        /\ state' = "Init" => state = "Init" /\ UNCHANGED <<mark, roundMark>>
        /\ \E name \in {"whitespace", "qstring", "number", "keyword", "identifier", "plaintext"} :
              Doing(name)
    BY <1>1, <1>2, WhitespaceFits, QStringFits, NumberFits, KeywordFits, IdentifierFits,
       PlainTextFits
  <2>2. ~Doing("comment") /\ ~Doing("comment")'
    BY <1>1, <2>1 DEF Doing, Matching
  <2>3. MarkersInv'
    BY <1>1, <1>2, <2>2 DEF MarkersInv, commentVars
  <2> QED
    BY <1>1, <2>1, <2>2, <2>3, UnopenedStays
<1>3. CASE CommentNext
  <2>1. UNCHANGED <<pc, current>>
    BY <1>3, CommentDoes
  <2>2. ~setup.split => MarkersInv' /\ (at' = "returned" /\ state' = "Init" => Unopened)
    BY <1>1, <1>3, CommentReads
  <2>3. UnopenedInv'
    BY <1>1, <1>3, <2>1, <2>2, CommentLeaves, UnopenedStays
  <2>4. setup.split => MarkersInv'
    BY <1>1 DEF MarkersInv
  <2> QED
    BY <2>2, <2>3, <2>4
<1>4. CASE Driver
  BY <1>4, OfferKeepsComments
<1>5. CASE UNCHANGED <<vars, scannerVars>>
  <2>1. UNCHANGED <<text, pos, mark, state, roundMark, setup, at, pc, current, live, match, ending,
                    inComment>>
    BY <1>5 DEF vars, bufferVars, driverVars, scannerVars, matchVars, commentVars
  <2>2. (Opens(match)' <=> Opens(match)) /\ Body(match)' = Body(match)
    BY <2>1, SameComments
  <2>3. /\ TextTo(match, pos)' <=> TextTo(match, pos)
        /\ EndingTo(match, ending, pos)' <=> EndingTo(match, ending, pos)
        /\ EndTo(match, pos)' <=> EndTo(match, pos)
    BY <2>1, SameComments
  <2>4. \A m : /\ Opens(m)' <=> Opens(m)
               /\ Agrees(m.start, mark + 1, pos)' <=> Agrees(m.start, mark + 1, pos)
    BY <2>1, SameComments
  <2>5. live = {m \in setup.markers : (m.hashpling => mark = 0) /\ Agrees(m.start, mark + 1, pos)}
        => live' = {m \in setup'.markers : (m.hashpling => mark' = 0)
                                           /\ Agrees(m.start, mark + 1, pos)'}
    BY <2>1, <2>4
  <2>6. Doing("comment")' <=> Doing("comment")
    BY <2>1 DEF Doing, Matching
  <2>7. Clean' <=> Clean
    BY <2>1 DEF Clean
  <2>8. Unopened' <=> Unopened
    BY <2>1, <2>4 DEF Unopened
  <2>9. UnopenedInv'
    BY <2>1, <2>6, <2>8 DEF UnopenedInv, Untaken
  <2>10. MarkersInv'
    BY <2>1, <2>2, <2>3, <2>4, <2>5, <2>6, <2>7 DEF MarkersInv
  <2> QED
    BY <2>9, <2>10
<1> QED
  BY <1>2, <1>3, <1>4, <1>5 DEF ScannersNext, Scanner

\* What CommentsReachTheirEnd says of one token and the marker it starts with.
LineAt(k) ==
    LET a == First(tokens[k])
        b == Last(tokens[k])
    IN  /\ \A i \in a..b : ~IsNewline(text[i])
        /\ b = Len(text) \/ IsNewline(text[b + 1])

BlockAt(k, m) ==
    LET b == Last(tokens[k])
        closed == tokens[k].code = "Comment"
        last == b - Len(m.end) + 1
    IN  /\ closed => last \in Ends(m, tokens[k])
        /\ ~closed => b = Len(text)
        /\ Len(m.end) > 1 =>
              \A i \in Ends(m, tokens[k]) :
                 (closed /\ i = last) \/ IsBegunBefore(m, tokens[k], i)

StartsAt(m, a) ==
    /\ TextOf(a, a + Len(m.start) - 1) = m.start
    /\ m.hashpling => a = 1

CommentAt(k, m) ==
    StartsAt(m, First(tokens[k])) => IF m.eol THEN LineAt(k) ELSE BlockAt(k, m)

LEMMA CommentsReachIs ==
    CommentsReachTheirEnd <=>
        (~setup.split =>
            \A k \in TokensWith({"Comment", "Error"}), m \in setup.markers : CommentAt(k, m))
BY DEF CommentsReachTheirEnd, IsOpenedBy, CommentAt, StartsAt, LineAt, BlockAt

LEMMA SameStarts ==
    ASSUME text' = text
    PROVE  \A m, a : StartsAt(m, a)' <=> StartsAt(m, a)
BY DEF StartsAt, TextOf

LEMMA CommentAtStays ==
    ASSUME NEW k, NEW m, CommentAt(k, m), tokens'[k] = tokens[k], UNCHANGED <<text, setup>>
    PROVE  CommentAt(k, m)'
<1>1. First(tokens[k])' = First(tokens[k]) /\ Last(tokens[k])' = Last(tokens[k])
  BY DEF First, Last
<1>2. \A a, b : TextOf(a, b)' = TextOf(a, b)
  BY SameWords
<1>3. Ends(m, tokens[k])' = Ends(m, tokens[k])
  BY <1>1, <1>2 DEF Ends, BodyOf
<1>4. \A i : IsBegunBefore(m, tokens[k], i)' <=> IsBegunBefore(m, tokens[k], i)
  BY <1>1 DEF IsBegunBefore, BodyOf
<1>5. LineAt(k)' <=> LineAt(k)
  BY <1>1 DEF LineAt
<1>6. BlockAt(k, m)' <=> BlockAt(k, m)
  BY <1>1, <1>3, <1>4 DEF BlockAt
<1>7. StartsAt(m, First(tokens[k]))' <=> StartsAt(m, First(tokens[k]))
  BY <1>1, SameStarts
<1> QED
  BY <1>5, <1>6, <1>7 DEF CommentAt

\* A marker that stands at the mark starts there.
LEMMA StartsAtMark ==
    ASSUME Unlocked, NEW m \in setup.markers, StartsAt(m, mark + 1)
    PROVE  Opens(m)
<1>1. /\ text \in Seq(Chars) /\ setup \in Setups /\ mark \in Nat /\ mark <= Len(text)
      /\ Len(m.start) \in Nat
  <2>1. text \in Seq(Chars) /\ setup \in Setups /\ mark \in Nat /\ mark <= Len(text)
    BY WindowIs
  <2> QED
    BY <2>1, MarkerFacts
<1> DEFINE n == Len(m.start)
<1>2. TextOf(mark + 1, (mark + 1) + (n - 1)) = m.start /\ (m.hashpling => mark + 1 = 1)
  BY DEF StartsAt
<1>3. n \in Nat
  BY <1>1
<1> HIDE DEF n
<1>4. (mark + 1) + (n - 1) = mark + n /\ (mark + 1 = 1 => mark = 0)
  BY <1>1, <1>3
<1>5. TextOf(mark + 1, mark + Len(m.start)) = m.start /\ (m.hashpling => mark = 0)
  BY <1>2, <1>4 DEF n
<1> QED
  BY <1>1, <1>5, MarkerStandsThere

\* Where the end marker stands up to b in the comment at the mark.
Standing(m, b) ==
    {i \in Body(m)..b - Len(m.end) + 1 : TextOf(i, i + Len(m.end) - 1) = m.end}

LEMMA MarkerAgrees ==
    ASSUME text \in Seq(Chars), setup \in Setups, mark \in Nat, NEW m \in setup.markers,
           NEW b \in Nat, b <= Len(text), NEW i \in Body(m)..b - Len(m.end) + 1
    PROVE  /\ i \in Standing(m, b) <=> Agrees(m.end, i, i + (Len(m.end) - 1))
           /\ i \in Nat \ {0}
<1> DEFINE n == Len(m.end)
           last == i + (n - 1)
<1>1. n \in Nat /\ m.end \in Seq(Chars) /\ Body(m) \in Nat \ {0} /\ Len(text) \in Nat
  BY BodyType, MarkerFacts, LenProperties
<1>2. Len(m.end) = n /\ i \in Body(m)..b - n + 1
  OBVIOUS
<1>3. i \in Standing(m, b) <=> TextOf(i, last) = m.end
  BY DEF Standing
<1> HIDE DEF n
<1>4. i \in Nat \ {0} /\ last \in Nat /\ i <= last + 1 /\ last - i + 1 = n /\ last <= Len(text)
      /\ Len(m.end) <= n
  BY <1>1, <1>2
<1> HIDE DEF last
<1>5. Agrees(m.end, i, last) => m.end = TextOf(i, last)
  BY <1>1, <1>2, <1>4, AgreesText
<1>6. TextOf(i, last) = m.end => Agrees(m.end, i, last)
  BY <1>1, <1>2, <1>4, AgreesText
<1> QED
  BY <1>3, <1>4, <1>5, <1>6 DEF n, last

\* The end marker that stands before b is the text there.
LEMMA EndIsText ==
    ASSUME text \in Seq(Chars), setup \in Setups, mark \in Nat, NEW m \in setup.markers,
           NEW b \in Nat, b <= Len(text), EndTo(m, b)
    PROVE  b - Len(m.end) + 1 \in Standing(m, b)
<1> DEFINE n == Len(m.end)
           last == b - n + 1
<1>1. n \in Nat /\ Body(m) \in Nat \ {0}
  BY BodyType, MarkerFacts
<1>2. Body(m) <= last /\ \A i \in 1..n : text[b - n + i] = m.end[i]
  BY DEF EndTo, EndsAt
<1>3. Len(m.end) = n
  OBVIOUS
<1> HIDE DEF n
<1>4. last \in Body(m)..b - n + 1
  BY <1>1, <1>2
<1>5. last \in Standing(m, b) <=> Agrees(m.end, last, last + (n - 1))
  BY <1>3, <1>4, MarkerAgrees
<1>6. last \in Nat \ {0} /\ last <= b + 1 /\ b - last + 1 = n /\ last + (n - 1) = b
  BY <1>1, <1>2
<1>7. Agrees(m.end, last, b)
  <2>1. \A i \in last..b : i - last + 1 \in 1..n /\ b - n + (i - last + 1) = i
    BY <1>1
  <2>2. \A i \in last..b : m.end[i - last + 1] = text[i]
    BY <1>2, <2>1
  <2>3. b - last + 1 <= Len(m.end)
    BY <1>3, <1>6
  <2> QED
    BY <2>2, <2>3 DEF Agrees
<1>8. last \in Standing(m, b)
  BY <1>5, <1>6, <1>7
<1> QED
  BY <1>8 DEF n

\* An end marker that stands in the comment begins there.
LEMMA StandingBegins ==
    ASSUME text \in Seq(Chars), setup \in Setups, mark \in Nat, NEW m \in setup.markers,
           NEW b \in Nat, b <= Len(text), NEW i \in Standing(m, b), Len(m.end) > 1
    PROVE  i \in Body(m)..b /\ Begins(m, i, b) /\ i <= b - Len(m.end) + 1
<1> DEFINE n == Len(m.end)
<1>1. n \in Nat /\ n > 1 /\ Len(m.end) = n
  BY MarkerFacts
<1>2. i \in Body(m)..b - Len(m.end) + 1
  BY DEF Standing
<1>3. Agrees(m.end, i, i + (Len(m.end) - 1)) /\ i \in Nat \ {0} /\ Body(m) \in Nat
  BY <1>2, MarkerAgrees, BodyType
<1> HIDE DEF n
<1>4. i \in Body(m)..b /\ i <= b - n + 1
  BY <1>1, <1>2, <1>3
<1>5. \A j \in i..b : j - i < n => j \in i..i + (n - 1)
  BY <1>1, <1>3
<1>6. Begins(m, i, b)
  BY <1>1, <1>3, <1>5 DEF Begins, Agrees
<1> QED
  BY <1>1, <1>4, <1>6

\* What CommentScanner accepts.
LEMMA CommentIsRead ==
    ASSUME MarkersAreApart, Fits, MarkersInv, ~setup.split, CommentNext,
           UNCHANGED <<text, setup>>,
           NEW k \in 1..Len(tokens'), k \notin 1..Len(tokens), NEW m \in setup.markers
    PROVE  CommentAt(k, m)'
<1>1. Unlocked
  BY DEF Fits, Unlocked
<1>2. /\ text \in Seq(Chars) /\ setup \in Setups /\ mark \in Nat /\ pos \in Nat /\ mark <= pos
      /\ pos <= Len(text) /\ Len(text) \in Nat
  BY <1>1, WindowIs
<1>3. Doing("comment") /\ at \notin {"newline", "line", "lock"} /\ tokens' # tokens
  BY CommentDoes DEF MarkersInv
<1>4. SUFFICES ASSUME StartsAt(m, First(tokens[k]))'
               PROVE  IF m.eol THEN LineAt(k)' ELSE BlockAt(k, m)'
  BY DEF CommentAt
<1>5. ASSUME NEW code, NEW value, AcceptTo(pos, code, value)
      PROVE  /\ First(tokens[k])' = mark + 1 /\ Last(tokens[k])' = pos /\ tokens'[k].code = code
             /\ Opens(m)
  <2>1. First(tokens'[k]) = mark + 1 /\ Last(tokens'[k]) = pos /\ tokens'[k].code = code
    BY <1>5, AcceptedIs DEF Fits
  <2>2. First(tokens[k])' = mark + 1
    BY <2>1 DEF First
  <2>3. StartsAt(m, mark + 1)
    BY <1>4, <2>2, SameStarts
  <2> QED
    BY <1>1, <2>1, <2>3, StartsAtMark DEF First, Last
<1>6. ASSUME match \in setup.markers, Opens(match), Opens(m)
      PROVE  match = m
  BY <1>2, <1>6, OneOpens
<1>7. ASSUME NEW code, NEW value, AcceptTo(pos, code, value)
      PROVE  /\ Ends(m, tokens[k])' = Standing(m, pos)
             /\ \A i : IsBegunBefore(m, tokens[k], i)' <=> Begun(m, i)
  <2>1. First(tokens[k])' = mark + 1 /\ Last(tokens[k])' = pos
    BY <1>5, <1>7
  <2>2. BodyOf(m, tokens[k])' = Body(m)
    BY <2>1 DEF BodyOf, Body
  <2>3. \A x, y : TextOf(x, y)' = TextOf(x, y)
    BY SameWords
  <2> QED
    BY <2>1, <2>2, <2>3 DEF Ends, Standing, IsBegunBefore, Begun
<1>8. CASE CommentReadsLine /\ AcceptToken("Comment", "returned")
  <2>1. /\ match \in setup.markers /\ Opens(match) /\ match.eol /\ Clean
        /\ Peek = Nul \/ IsNewline(Peek)
        /\ AcceptTo(pos, "Comment", CurrentToken)
    <3>1. Edits(Push, "eol") => tokens' = tokens
      BY EditMakes
    <3> QED
      BY <1>3, <1>8, <3>1
      DEF CommentReadsLine, Comment, Running, MarkersInv, AcceptToken, Accepts
  <2>2. match = m
    BY <1>5, <1>6, <2>1
  <2>3. pos = Len(text) \/ IsNewline(text[pos + 1])
    BY <1>1, <2>1, WindowIs
  <2>4. LineAt(k)'
    BY <1>5, <2>1, <2>3 DEF Clean, LineAt
  <2> QED
    BY <2>1, <2>2, <2>4
<1>9. CASE CommentIsComplete
  <2>1. /\ match \in setup.markers /\ Opens(match) /\ ~match.eol /\ EndTo(match, pos)
        /\ AcceptTo(pos, "Comment", CurrentToken)
    BY <1>3, <1>9 DEF CommentIsComplete, Comment, Running, MarkersInv, AcceptToken, Accepts
  <2>2. match = m
    BY <1>5, <1>6, <2>1
  <2>3. EndTo(m, pos) /\ ~m.eol
    BY <2>1, <2>2
  <2>4. pos - Len(m.end) + 1 \in Standing(m, pos)
    BY <1>2, <2>3, EndIsText
  <2>5. ASSUME Len(m.end) > 1, NEW i \in Standing(m, pos)
        PROVE  i = pos - Len(m.end) + 1 \/ Begun(m, i)
    BY <1>2, <2>3, <2>5, StandingBegins DEF EndTo, OnlyFrom
  <2>6. /\ Last(tokens[k])' = pos /\ tokens'[k].code = "Comment"
        /\ Ends(m, tokens[k])' = Standing(m, pos)
        /\ \A i : IsBegunBefore(m, tokens[k], i)' <=> Begun(m, i)
    BY <1>5, <1>7, <2>1
  <2>7. BlockAt(k, m)'
    BY <2>4, <2>5, <2>6 DEF BlockAt
  <2> QED
    BY <2>3, <2>7
<1>10. CASE CommentIsUnterminated
  <2>1. /\ match \in setup.markers /\ Opens(match) /\ ~match.eol
        /\ TextTo(match, pos) \/ EndingTo(match, ending, pos)
        /\ Peek = Nul /\ AcceptTo(pos, "Error", Literal)
    BY <1>3, <1>10 DEF CommentIsUnterminated, Comment, Running, MarkersInv, AcceptError, Accepts
  <2>2. match = m
    BY <1>5, <1>6, <2>1
  <2>3. pos = Len(text)
    BY <1>1, <2>1, WindowIs
  <2>4. ASSUME Len(m.end) > 1, NEW i \in Standing(m, pos)
        PROVE  Begun(m, i)
    <3> DEFINE n == Len(m.end)
    <3>1. i \in Body(m)..pos /\ Begins(m, i, pos) /\ i <= pos - n + 1
          /\ Body(m) \in Nat \ {0} /\ n \in Nat
      BY <1>2, <2>4, StandingBegins, BodyType, MarkerFacts
    <3>2. CASE TextTo(m, pos)
      <4>1. i # 0
        BY <3>1
      <4> QED
        BY <2>4, <3>1, <3>2, <4>1 DEF TextTo, OnlyFrom
    <3>3. CASE EndingTo(m, ending, pos)
      <4>1. ending \in Nat /\ ending < n
        BY <2>4, <3>3 DEF EndingTo
      <4>2. OnlyFrom(pos - ending + 1, m, pos)
        BY <3>3 DEF EndingTo
      <4> HIDE DEF n
      <4>3. i # pos - ending + 1
        BY <1>2, <3>1, <4>1
      <4> QED
        BY <2>4, <3>1, <4>2, <4>3 DEF OnlyFrom
    <3> QED
      BY <2>1, <2>2, <3>2, <3>3
  <2>5. /\ Last(tokens[k])' = pos /\ tokens'[k].code = "Error"
        /\ Ends(m, tokens[k])' = Standing(m, pos)
        /\ \A i : IsBegunBefore(m, tokens[k], i)' <=> Begun(m, i)
    BY <1>5, <1>7, <2>1
  <2>6. BlockAt(k, m)'
    BY <2>3, <2>4, <2>5 DEF BlockAt
  <2> QED
    BY <2>1, <2>2, <2>6
<1>11. CASE CommentReadsLine /\ ~AcceptToken("Comment", "returned")
  BY <1>3, <1>11, EditMakes DEF CommentReadsLine
<1>12. CASE CommentStarts \/ CommentReadsMarker \/ CommentReadsText \/ CommentReadsEnding
  BY <1>3, <1>12, EditMakes
  DEF CommentStarts, CommentReadsMarker, CommentReadsText, CommentReadsEnding, SplitsHere, Returns
<1>13. CASE CommentUnlocks \/ CommentTakesNewline \/ CommentAcceptsNewline \/ CommentLocks
  BY <1>3, <1>13
  DEF CommentUnlocks, CommentTakesNewline, CommentAcceptsNewline, CommentLocks, Comment, Running,
      Locks, bufferVars
<1> QED
  BY <1>8, <1>9, <1>10, <1>11, <1>12, <1>13 DEF CommentNext

\* What NumberScanner takes for an error does not start with a marker.
LEMMA NumberIsNoComment ==
    ASSUME MarkersAreApart, Fits, UnopenedInv, ~setup.split, Number, UNCHANGED <<text, setup>>,
           NEW k \in 1..Len(tokens'), k \notin 1..Len(tokens), NEW m \in setup.markers,
           tokens'[k].code = "Error"
    PROVE  CommentAt(k, m)'
<1>1. Unlocked
  BY DEF Fits, Unlocked
<1>2. /\ tokens' # tokens /\ current \in 1..Scanners /\ setup \in Setups /\ Doing("number")
      /\ at \in NumberStates \union {"integer"}
  <2>1. Doing("number") /\ at \in NumberStates \union {"integer"}
    BY Zenon
    DEF Number, NumberMovesOn, NumberDropsPeriod, NumberEnds, Running, Doing, NumberStates,
        NumberMoves
  <2> QED
    BY <1>1, <2>1 DEF Unlocked, SetupInv, WindowInv, Doing
<1>3. \E code, value : AcceptTo(pos, code, value)
  BY <1>2, EditMakes
  DEF Number, NumberMovesOn, NumberDropsPeriod, NumberEnds, Edits, Chop, Push, PartialRewind,
      AcceptToken, AcceptError, Accepts, Returns
<1>4. First(tokens'[k]) = mark + 1
  BY <1>3, AcceptedIs DEF Fits
<1>5. Untaken /\ pc = "match"
  <2>1. at \notin {"newline", "line", "lock", "unlock", "returned"}
    BY <1>2, MoveFacts DEF NumberStates, Inside
  <2>2. pc # "lockedMatch"
    BY <1>2 DEF Fits, LockInv, Doing
  <2> QED
    BY <1>2, <2>1, <2>2 DEF Fits, WindowInv, Doing, Matching
<1>6. ~Opens(m)
  <2>1. setup.order[current] = "number"
    BY <1>2 DEF Doing
  <2>2. \E j \in 1..current - 1 : setup.order[j] = "comment"
    BY <1>2, <2>1 DEF MarkersAreApart
  <2> QED
    BY <1>5, <2>2 DEF UnopenedInv, Unopened
<1>7. ~StartsAt(m, First(tokens[k]))'
  <2>1. First(tokens[k])' = mark + 1
    BY <1>4 DEF First
  <2>2. ~StartsAt(m, mark + 1)
    BY <1>1, <1>6, StartsAtMark
  <2> QED
    BY <2>1, <2>2, SameStarts
<1> QED
  BY <1>7 DEF CommentAt

LEMMA CommentsNext ==
    ASSUME MarkersAreApart, Fits, MarkersInv, UnopenedInv, CommentsReachTheirEnd,
           [ScannersNext]_<<vars, scannerVars>>
    PROVE  CommentsReachTheirEnd'
<1>1. UNCHANGED <<text, setup>>
  BY TokensStay
<1>2. SUFFICES ASSUME ~setup.split, NEW k \in 1..Len(tokens'),
                      tokens'[k].code \in {"Comment", "Error"}, NEW m \in setup.markers
               PROVE  CommentAt(k, m)'
  <2>1. (~setup'.split =>
            \A k \in TokensWith({"Comment", "Error"})', m \in setup'.markers : CommentAt(k, m)')
        => CommentsReachTheirEnd'
    BY DEF CommentsReachTheirEnd, IsOpenedBy, CommentAt, StartsAt, LineAt, BlockAt
  <2> QED
    BY <1>1, <2>1 DEF TokensWith
<1>3. CASE k \in 1..Len(tokens)
  <2>1. tokens'[k] = tokens[k]
    BY <1>3, TokensStay
  <2>2. k \in TokensWith({"Comment", "Error"})
    BY <1>2, <1>3, <2>1 DEF TokensWith
  <2>3. CommentAt(k, m)
    BY <1>2, <2>2, CommentsReachIs
  <2> QED
    BY <1>1, <2>1, <2>3, CommentAtStays
<1>4. CASE k \notin 1..Len(tokens)
  <2>1. MadeBy(tokens'[k].code)
    BY <1>4, TokensStay
  <2>2. CommentNext \/ (Number /\ tokens'[k].code = "Error")
    BY <1>2, <2>1 DEF MadeBy
  <2> QED
    BY <1>1, <1>2, <1>4, <2>2, CommentIsRead, NumberIsNoComment
<1> QED
  BY <1>3, <1>4

\* A comment that is not split goes from its start marker to an end marker, to
\* the end of the line, or is an error at the end of the text, and goes past an
\* end marker only where another one was begun: with any other scanners before
\* and after, any end markers of more than one character, and any markers of
\* which none is how another one starts.
THEOREM CommentsAlwaysReachTheirEnd ==
    ASSUME MarkersAreApart
    PROVE  ScannersSpec => []CommentsReachTheirEnd
<1>1. ScannersInit => MarkersInv /\ UnopenedInv /\ CommentsReachTheirEnd
  BY DEF ScannersInit, DriverInit, CommentInit, AtStart, MarkersInv, UnopenedInv, Doing, Matching,
         CommentsReachTheirEnd, TokensWith
<1>2. Fits /\ MarkersInv /\ UnopenedInv /\ CommentsReachTheirEnd
        /\ [ScannersNext]_<<vars, scannerVars>>
        => MarkersInv' /\ UnopenedInv' /\ CommentsReachTheirEnd'
  BY MarkersInvNext, CommentsNext
<1> QED
  BY <1>1, <1>2, FitsInit, FitsNext, PTL DEF ScannersSpec

-----------------------------------------------------------------------------
(* What numbers are.                                                       *)

LEMMA NumberChars ==
    /\ Zero \in Digits /\ Zero \notin NonZero /\ NonZero \subseteq Digits
    /\ Digits = NonZero \union {Zero} /\ Digits \subseteq HexDigits
    /\ \A ch \in HexDigits : ch # Period /\ ch # "x" /\ ch # Nul /\ ch \notin Signs
    /\ "e" \notin Digits /\ "e" # Period /\ "e" # "x" /\ "e" \notin Signs
    /\ Period # "x" /\ Period \notin Signs /\ "x" \notin Signs
BY DEF Digits, HexDigits, Zero, NonZero, Period, Signs, Nul

\* Where NumberScanner goes with a character.
Goes(place, ch, next) ==
    \/ place = "start" /\ ch \in Signs /\ next = "sign"
    \/ place \in {"start", "sign", "zero"} /\ ch = Zero /\ next = "zero"
    \/ place \in {"start", "sign", "zero"} /\ ch \in NonZero /\ next = "number"
    \/ place = "number" /\ ch \in Digits /\ next = "number"
    \/ place = "start" /\ ch = Period /\ next = "leadPeriod"
    \/ place \in {"sign", "zero", "number"} /\ ch = Period /\ next = "period"
    \/ place \in {"leadPeriod", "period", "float"} /\ ch \in Digits /\ next = "float"
    \/ place \in {"period", "number", "float"} /\ ch = "e" /\ next = "exponent"
    \/ place = "exponent" /\ ch \in Signs /\ next = "expSign"
    \/ place \in {"exponent", "expSign", "expDigits"} /\ ch \in Digits /\ next = "expDigits"
    \/ place = "zero" /\ ch = "x" /\ next = "hexStart"
    \/ place \in {"hexStart", "hex"} /\ ch \in HexDigits /\ next = "hex"

LEMMA MoveIs ==
    ASSUME NEW move \in NumberMoves, move[4] # "dollarHex", NEW ch \in move[2]
    PROVE  /\ Goes(move[1], ch, move[3])
           /\ move[1] = "zero" /\ move[2] \in {{Zero}, NonZero} => ch \in Digits
<1>1. PICK place, chars, next, feature : move = <<place, chars, next, feature>>
  BY Zenon DEF NumberMoves
<1>2. move[1] = place /\ move[2] = chars /\ move[3] = next /\ move[4] = feature
  BY <1>1
<1>3. <<place, chars, next, feature>> \in NumberMoves
  BY <1>1
<1>4. feature # "dollarHex"
  BY <1>2
<1>5. /\ next = "sign" => place = "start" /\ chars = Signs
      /\ next = "zero" => place \in {"start", "sign", "zero"} /\ chars = {Zero}
  BY <1>3, ZenonT(30) DEF NumberMoves
<1>6. next = "number" => \/ place \in {"start", "sign", "zero"} /\ chars = NonZero
                         \/ place = "number" /\ chars = Digits
  BY <1>3, ZenonT(30) DEF NumberMoves
<1>7. /\ next = "leadPeriod" => place = "start" /\ chars = {Period}
      /\ next = "period" => place \in {"sign", "zero", "number"} /\ chars = {Period}
  BY <1>3, ZenonT(30) DEF NumberMoves
<1>8. next = "float" => place \in {"leadPeriod", "period", "float"} /\ chars = Digits
  BY <1>3, ZenonT(30) DEF NumberMoves
<1>9. next = "exponent" => place \in {"period", "number", "float"} /\ chars = {"e"}
  BY <1>3, ZenonT(30) DEF NumberMoves
<1>10. /\ next = "expSign" => place = "exponent" /\ chars = Signs
       /\ next = "expDigits" =>
             place \in {"exponent", "expSign", "expDigits"} /\ chars = Digits
  BY <1>3, ZenonT(30) DEF NumberMoves
<1>11. next = "hexStart" => feature = "dollarHex" \/ (place = "zero" /\ chars = {"x"})
  BY <1>3, ZenonT(30) DEF NumberMoves
<1>12. next = "hex" => place \in {"hexStart", "hex"} /\ chars = HexDigits
  BY <1>3, ZenonT(30) DEF NumberMoves
<1>13. next \in {"sign", "zero", "number", "leadPeriod", "period", "float", "exponent",
                 "expSign", "expDigits", "hexStart", "hex"}
  BY <1>3, ZenonT(30) DEF NumberMoves
<1>14. ch \in chars
  BY <1>2
<1>15. Goes(place, ch, next)
  BY <1>4, <1>5, <1>6, <1>7, <1>8, <1>9, <1>10, <1>11, <1>12, <1>13, <1>14 DEF Goes
<1>16. chars \in {{Zero}, NonZero} => ch \in Digits
  BY <1>14, NumberChars
<1> QED
  BY <1>2, <1>15, <1>16

\* A number that does not go on has no character to go on with.
LEMMA NoMoves ==
    ASSUME {"scientific", "hex", "fractions"} \subseteq setup.number,
           NEW place, MovesOf(place) = {}
    PROVE  /\ place = "zero" => Peek \notin Digits \union {Period, "x"}
           /\ place = "number" => Peek \notin Digits \union {Period, "e"}
           /\ place = "period" /\ Len(CurrentToken) > 1 => Peek \notin Digits \union {"e"}
           /\ place = "float" => Peek \notin Digits \union {"e"}
           /\ place = "expDigits" => Peek \notin Digits
           /\ place = "hex" => Peek \notin HexDigits
<1>1. ASSUME NEW chars, NEW next, NEW feature \in {"", "scientific", "hex", "fractions"},
             <<place, chars, next, feature>> \in NumberMoves,
             place = "period" => Len(CurrentToken) > 1
      PROVE  Peek \notin chars
  <2> DEFINE move == <<place, chars, next, feature>>
  <2>1. move \in NumberMoves /\ move[1] = place /\ move[2] = chars /\ move[4] = feature
    BY <1>1
  <2> HIDE DEF move
  <2>2. move[4] \in setup.number \union {""}
    BY <1>1, <2>1
  <2>3. move \notin MovesOf(place)
    OBVIOUS
  <2> QED
    BY <1>1, <2>1, <2>2, <2>3 DEF MovesOf
<1>2. /\ <<"zero", {Zero}, "zero", "">> \in NumberMoves
      /\ <<"zero", NonZero, "number", "">> \in NumberMoves
      /\ <<"zero", {Period}, "period", "fractions">> \in NumberMoves
      /\ <<"zero", {"x"}, "hexStart", "hex">> \in NumberMoves
      /\ <<"number", Digits, "number", "">> \in NumberMoves
      /\ <<"number", {Period}, "period", "fractions">> \in NumberMoves
      /\ <<"number", {"e"}, "exponent", "scientific">> \in NumberMoves
      /\ <<"period", Digits, "float", "">> \in NumberMoves
      /\ <<"period", {"e"}, "exponent", "scientific">> \in NumberMoves
      /\ <<"float", Digits, "float", "">> \in NumberMoves
      /\ <<"float", {"e"}, "exponent", "scientific">> \in NumberMoves
      /\ <<"expDigits", Digits, "expDigits", "">> \in NumberMoves
      /\ <<"hex", HexDigits, "hex", "">> \in NumberMoves
  BY Zenon DEF NumberMoves
<1>3. place = "zero" => Peek \notin {Zero} /\ Peek \notin NonZero /\ Peek \notin {Period}
                        /\ Peek \notin {"x"}
  BY <1>1, <1>2
<1>4. place = "number" => Peek \notin Digits /\ Peek \notin {Period} /\ Peek \notin {"e"}
  BY <1>1, <1>2
<1>5. place = "period" /\ Len(CurrentToken) > 1 => Peek \notin Digits /\ Peek \notin {"e"}
  BY <1>1, <1>2
<1>6. place = "float" => Peek \notin Digits /\ Peek \notin {"e"}
  BY <1>1, <1>2
<1>7. /\ place = "expDigits" => Peek \notin Digits
      /\ place = "hex" => Peek \notin HexDigits
  BY <1>1, <1>2
<1>8. Digits = NonZero \union {Zero}
  BY NumberChars
<1> QED
  BY <1>3, <1>4, <1>5, <1>6, <1>7, <1>8

Zeroes(n, b) == \A i \in n..b : text[i] = Zero

\* What stands from n to b, where the digits start and NumberScanner is.
Read(place, n, b) ==
    /\ place = "zero" => n <= b /\ Zeroes(n, b)
    /\ place \in {"number", "integer"} => IsInteger(n, b)
    /\ place = "number" => \E i \in n..b : text[i] # Zero
    /\ place = "leadPeriod" => b = n /\ text[b] = Period
    /\ place = "period" => n < b /\ text[b] = Period /\ AreDigits(n, b - 1)
    /\ place = "float" =>
          \E p \in n..b - 1 : text[p] = Period /\ AreDigits(n, p - 1) /\ AreDigits(p + 1, b)
    /\ place = "exponent" => n < b /\ text[b] = "e" /\ IsMantissa(n, b - 1)
    /\ place = "expSign" =>
          n < b - 1 /\ text[b] \in Signs /\ text[b - 1] = "e" /\ IsMantissa(n, b - 2)
    /\ place = "expDigits" => \E e \in n + 1..b : IsMantissa(n, e - 1) /\ IsExponent(e, b)
    /\ place = "hexStart" => n < b /\ text[b] = "x" /\ Zeroes(n, b - 1)
    /\ place = "hex" => IsHex(n, b)

LEMMA DigitsGrow ==
    ASSUME NEW n \in Nat, NEW b \in Nat, AreDigits(n, b), text[b + 1] \in Digits
    PROVE  AreDigits(n, b + 1)
<1>1. \A i \in n..b + 1 : i \in n..b \/ i = b + 1
  OBVIOUS
<1> QED
  BY <1>1 DEF AreDigits

\* A character goes on with what stands there, as NumberScanner does.
LEMMA ReadGrows ==
    ASSUME NEW n \in Nat, NEW b \in Nat, NEW place, NEW next, Read(place, n, b),
           Goes(place, text[b + 1], next),
           place \in {"start", "sign"} /\ next # "sign" => n = b + 1 /\ next # "period"
    PROVE  Read(next, n, b + 1)
<1> DEFINE ch == text[b + 1]
<1>0. ch = text[b + 1] /\ (b + 1) - 1 = b /\ (b + 1) - 2 = b - 1
  OBVIOUS
<1>00. \A i \in n..b + 1 : i \in n..b \/ i = b + 1
  OBVIOUS
<1> HIDE DEF ch
<1>1. CASE place = "start" /\ next = "sign"
  BY <1>1 DEF Read
<1>2. CASE place \in {"start", "sign", "zero"} /\ ch = Zero /\ next = "zero"
  <2>1. n <= b + 1
    BY <1>2 DEF Read
  <2>2. Zeroes(n, b + 1)
    <3>1. CASE place = "zero"
      <4>1. Zeroes(n, b)
        BY <3>1 DEF Read
      <4> QED
        BY <1>0, <1>00, <1>2, <4>1 DEF Zeroes
    <3>2. CASE place # "zero"
      <4>1. n = b + 1
        BY <1>2, <3>2
      <4>2. \A i \in n..b + 1 : i = b + 1
        BY <4>1
      <4>3. text[b + 1] = Zero
        BY <1>0, <1>2
      <4> QED
        BY <4>2, <4>3 DEF Zeroes
    <3> QED
      BY <3>1, <3>2
  <2> QED
    BY <1>2, <2>1, <2>2 DEF Read
<1>3. CASE place \in {"start", "sign", "zero"} /\ ch \in NonZero /\ next = "number"
  <2>1. n <= b + 1
    BY <1>3 DEF Read
  <2>2. \A i \in n..b + 1 : text[i] \in Digits
    <3>1. ch \in Digits
      BY <1>3, NumberChars
    <3>2. place = "zero" => \A i \in n..b : text[i] \in Digits
      BY NumberChars DEF Read, Zeroes
    <3>3. place # "zero" => n = b + 1
      BY <1>3
    <3> QED
      BY <1>0, <1>00, <3>1, <3>2, <3>3
  <2>3. b + 1 \in n..b + 1 /\ text[b + 1] # Zero
    BY <1>0, <1>3, <2>1, NumberChars
  <2>4. \E i \in n..b + 1 : text[i] # Zero
    BY <2>3
  <2> QED
    BY <1>3, <2>1, <2>2, <2>4 DEF Read, IsInteger, AreDigits
<1>4. CASE place = "number" /\ ch \in Digits /\ next = "number"
  <2>1. n <= b /\ AreDigits(n, b) /\ \E i \in n..b : text[i] # Zero
    BY <1>4 DEF Read, IsInteger
  <2>2. AreDigits(n, b + 1)
    BY <1>0, <1>4, <2>1, DigitsGrow
  <2>3. n <= b + 1 /\ \E i \in n..b + 1 : text[i] # Zero
    BY <2>1
  <2> QED
    BY <1>4, <2>2, <2>3 DEF Read, IsInteger
<1>5. CASE place = "start" /\ ch = Period /\ next = "leadPeriod"
  <2>1. n = b + 1
    BY <1>5
  <2> QED
    BY <1>0, <1>5, <2>1 DEF Read
<1>6. CASE place \in {"sign", "zero", "number"} /\ ch = Period /\ next = "period"
  <2>1. n <= b /\ AreDigits(n, b)
    <3>1. place = "zero" \/ place = "number"
      BY <1>6
    <3> QED
      BY <3>1, NumberChars DEF Read, Zeroes, IsInteger, AreDigits
  <2>2. n < b + 1
    BY <2>1
  <2> QED
    BY <1>0, <1>6, <2>1, <2>2 DEF Read
<1>7. CASE place \in {"leadPeriod", "period", "float"} /\ ch \in Digits /\ next = "float"
  <2>1. \E p \in n..b : text[p] = Period /\ AreDigits(n, p - 1) /\ AreDigits(p + 1, b)
    <3>1. CASE place = "leadPeriod" \/ place = "period"
      <4>1. n <= b /\ text[b] = Period
        BY <3>1 DEF Read
      <4>2. AreDigits(n, b - 1)
        BY <3>1 DEF Read, AreDigits
      <4>3. AreDigits(b + 1, b)
        BY DEF AreDigits
      <4> QED
        BY <4>1, <4>2, <4>3
    <3>2. CASE place = "float"
      <4>1. PICK p \in n..b - 1 : text[p] = Period /\ AreDigits(n, p - 1) /\ AreDigits(p + 1, b)
        BY <3>2 DEF Read
      <4>2. p \in n..b
        OBVIOUS
      <4> QED
        BY <4>1, <4>2
    <3> QED
      BY <1>7, <3>1, <3>2
  <2>2. PICK p \in n..b : text[p] = Period /\ AreDigits(n, p - 1) /\ AreDigits(p + 1, b)
    BY <2>1
  <2>3. AreDigits(p + 1, b + 1)
    BY <1>0, <1>7, <2>2, DigitsGrow
  <2> QED
    BY <1>0, <1>7, <2>2, <2>3 DEF Read
<1>8. CASE place \in {"period", "number", "float"} /\ ch = "e" /\ next = "exponent"
  <2>1. n < b + 1 /\ IsMantissa(n, b)
    <3>1. CASE place = "number"
      BY <3>1 DEF Read, IsMantissa, IsInteger
    <3>2. CASE place = "period"
      <4>1. n < b /\ text[b] = Period /\ AreDigits(n, b - 1)
        BY <3>2 DEF Read
      <4>2. AreDigits(b + 1, b) /\ b \in n..b /\ n < b + 1
        BY <4>1 DEF AreDigits
      <4> QED
        BY <4>1, <4>2 DEF IsMantissa
    <3>3. CASE place = "float"
      <4>1. PICK p \in n..b - 1 : text[p] = Period /\ AreDigits(n, p - 1) /\ AreDigits(p + 1, b)
        BY <3>3 DEF Read
      <4>2. p \in n..b /\ n < b /\ n < b + 1
        OBVIOUS
      <4> QED
        BY <4>1, <4>2 DEF IsMantissa
    <3> QED
      BY <1>8, <3>1, <3>2, <3>3
  <2> QED
    BY <1>0, <1>8, <2>1 DEF Read
<1>9. CASE place = "exponent" /\ ch \in Signs /\ next = "expSign"
  <2>1. n < b /\ text[b] = "e" /\ IsMantissa(n, b - 1)
    BY <1>9 DEF Read
  <2> QED
    BY <1>0, <1>9, <2>1 DEF Read
<1>10. CASE place \in {"exponent", "expSign", "expDigits"} /\ ch \in Digits /\ next = "expDigits"
  <2>0. text[b + 1] \notin Signs /\ text[b + 1] \in Digits
    BY <1>0, <1>10, NumberChars
  <2>1. CASE place = "exponent"
    <3>1. n < b /\ text[b] = "e" /\ IsMantissa(n, b - 1)
      BY <2>1 DEF Read
    <3>2. AreDigits(b + 1, b + 1)
      BY <2>0 DEF AreDigits
    <3>3. IsExponent(b, b + 1)
      BY <2>0, <3>1, <3>2 DEF IsExponent, IsInteger
    <3>4. b \in n + 1..b + 1
      BY <3>1
    <3> QED
      BY <1>10, <3>1, <3>3, <3>4 DEF Read
  <2>2. CASE place = "expSign"
    <3>1. n < b - 1 /\ text[b] \in Signs /\ text[b - 1] = "e" /\ IsMantissa(n, b - 2)
      BY <2>2 DEF Read
    <3> DEFINE e == b - 1
    <3>2. e \in n + 1..b + 1 /\ e + 1 = b /\ e - 1 = b - 2 /\ e + 2 = b + 1 /\ e < b + 1
      BY <3>1
    <3>3. text[e] = "e" /\ text[e + 1] \in Signs /\ IsMantissa(n, e - 1)
      BY <3>1, <3>2
    <3>4. IsInteger(e + 2, b + 1)
      <4>1. AreDigits(b + 1, b + 1)
        BY <2>0 DEF AreDigits
      <4> QED
        BY <3>2, <4>1 DEF IsInteger
    <3> HIDE DEF e
    <3>5. IsExponent(e, b + 1)
      BY <3>2, <3>3, <3>4 DEF IsExponent
    <3> QED
      BY <1>10, <3>2, <3>3, <3>5 DEF Read
  <2>3. CASE place = "expDigits"
    <3>1. PICK e \in n + 1..b : IsMantissa(n, e - 1) /\ IsExponent(e, b)
      BY <2>3 DEF Read
    <3> DEFINE q == IF text[e + 1] \in Signs THEN e + 2 ELSE e + 1
    <3>2. e < b /\ text[e] = "e" /\ q <= b /\ AreDigits(q, b) /\ q \in Nat
      BY <3>1 DEF IsExponent, IsInteger
    <3>3. IsInteger(q, b + 1) /\ e < b + 1
      <4> HIDE DEF q
      <4>1. AreDigits(q, b + 1)
        BY <2>0, <3>2, DigitsGrow
      <4> QED
        BY <3>2, <4>1 DEF IsInteger
    <3>4. IsExponent(e, b + 1)
      BY <3>2, <3>3 DEF IsExponent
    <3>5. e \in n + 1..b + 1
      OBVIOUS
    <3> QED
      BY <1>10, <3>1, <3>4, <3>5 DEF Read
  <2> QED
    BY <1>10, <2>1, <2>2, <2>3
<1>11. CASE place = "zero" /\ ch = "x" /\ next = "hexStart"
  <2>1. n <= b /\ Zeroes(n, b) /\ n < b + 1
    BY <1>11 DEF Read
  <2> QED
    BY <1>0, <1>11, <2>1 DEF Read
<1>12. CASE place \in {"hexStart", "hex"} /\ ch \in HexDigits /\ next = "hex"
  <2>1. \E x \in n + 1..b : /\ text[x] = "x"
                            /\ \A i \in n..x - 1 : text[i] = Zero
                            /\ \A i \in x + 1..b : text[i] \in HexDigits
    <3>1. CASE place = "hexStart"
      BY <3>1 DEF Read, Zeroes
    <3>2. CASE place = "hex"
      <4>1. PICK x \in n + 1..b - 1 : /\ text[x] = "x"
                                      /\ \A i \in n..x - 1 : text[i] = Zero
                                      /\ \A i \in x + 1..b : text[i] \in HexDigits
        BY <3>2 DEF Read, IsHex
      <4>2. x \in n + 1..b
        OBVIOUS
      <4> QED
        BY <4>1, <4>2
    <3> QED
      BY <1>12, <3>1, <3>2
  <2>2. PICK x \in n + 1..b : /\ text[x] = "x"
                              /\ \A i \in n..x - 1 : text[i] = Zero
                              /\ \A i \in x + 1..b : text[i] \in HexDigits
    BY <2>1
  <2>3. \A i \in x + 1..b + 1 : text[i] \in HexDigits
    <3>1. \A i \in x + 1..b + 1 : i \in x + 1..b \/ i = b + 1
      OBVIOUS
    <3> QED
      BY <1>0, <1>12, <2>2, <3>1
  <2>4. IsHex(n, b + 1)
    BY <1>0, <2>2, <2>3 DEF IsHex
  <2> QED
    BY <1>12, <2>4 DEF Read
<1> QED
  BY <1>0, <1>1, <1>2, <1>3, <1>4, <1>5, <1>6, <1>7, <1>8, <1>9, <1>10, <1>11, <1>12 DEF Goes

\* A float is a mantissa, with an exponent after it or without.
LEMMA FloatParts ==
    ASSUME NEW n \in Nat, NEW d \in Nat, IsFloat(n, d)
    PROVE  \E m \in n..d : /\ IsMantissa(n, m)
                           /\ \/ m = d /\ text[d] # Period
                              \/ m < d /\ text[m + 1] = "e" /\ IsExponent(m + 1, d)
<1>1. CASE IsMantissa(n, d) /\ text[d] # Period /\ ~IsInteger(n, d)
  <2>1. d \in n..d
    BY <1>1 DEF IsMantissa, IsInteger
  <2> QED
    BY <1>1, <2>1
<1>2. CASE \E e \in n + 1..d : IsMantissa(n, e - 1) /\ IsExponent(e, d)
  <2>1. PICK e \in n + 1..d : IsMantissa(n, e - 1) /\ IsExponent(e, d)
    BY <1>2
  <2> DEFINE m == e - 1
  <2>2. m \in n..d /\ m < d /\ m + 1 = e
    OBVIOUS
  <2>3. IsMantissa(n, m) /\ IsExponent(m + 1, d)
    BY <2>1, <2>2
  <2> HIDE DEF m
  <2>4. text[m + 1] = "e"
    BY <2>3 DEF IsExponent
  <2> QED
    BY <2>2, <2>3, <2>4
<1> QED
  BY <1>1, <1>2 DEF IsFloat

\* The characters of a mantissa: digits, and one period.
LEMMA MantissaChars ==
    ASSUME NEW n \in Nat, NEW m \in Nat, IsMantissa(n, m)
    PROVE  /\ \A i \in n..m : text[i] \in Digits \union {Period}
           /\ \A i, j \in n..m : text[i] = Period /\ text[j] = Period => i = j
           /\ (\A i \in n..m : text[i] = Zero) => FALSE
<1>0. Period \notin Digits /\ Zero # Period
  BY NumberChars
<1>1. CASE IsInteger(n, m) /\ \E i \in n..m : text[i] # Zero
  BY <1>0, <1>1 DEF IsInteger, AreDigits
<1>2. CASE \E p \in n..m : text[p] = Period /\ AreDigits(n, p - 1) /\ AreDigits(p + 1, m) /\ n < m
  <2>1. PICK p \in n..m : text[p] = Period /\ AreDigits(n, p - 1) /\ AreDigits(p + 1, m)
    BY <1>2
  <2>2. \A i \in n..m : i \in n..p - 1 \/ i = p \/ i \in p + 1..m
    OBVIOUS
  <2>3. \A i \in n..m : i = p \/ text[i] \in Digits
    BY <2>1, <2>2 DEF AreDigits
  <2> QED
    BY <1>0, <2>1, <2>3
<1> QED
  BY <1>1, <1>2 DEF IsMantissa

LEMMA HexChars ==
    ASSUME NEW n \in Nat, NEW d \in Nat, IsHex(n, d)
    PROVE  \E x \in n + 1..d - 1 : /\ text[x] = "x"
                                   /\ \A i \in n..x - 1 : text[i] = Zero
                                   /\ \A i \in x + 1..d : text[i] \in HexDigits
                                   /\ \A i \in n..d : i < x \/ i = x \/ i > x
BY DEF IsHex

\* The next characters are none that NumberScanner goes on with.
Stops(place, b, d) ==
    /\ place = "zero" => text[b + 1] \notin Digits \union {Period, "x"}
    /\ place = "number" => text[b + 1] \notin Digits \union {Period, "e"}
    /\ place = "float" => text[b + 1] \notin Digits \union {"e"}
    /\ place = "expDigits" => text[b + 1] \notin Digits
    /\ place = "hex" => text[b + 1] \notin HexDigits
    /\ place = "integer" =>
          text[b + 1] = Period /\ (b + 2 <= d => text[b + 2] \notin Digits \union {"e"})

Spells(n, d) == IsInteger(n, d) \/ IsFloat(n, d) \/ IsHex(n, d)

LEMMA ZeroIsWhole ==
    ASSUME NEW n \in Nat, NEW b \in Nat, NEW d \in Nat, b < d, Read("zero", n, b), Stops("zero", b, d)
    PROVE  IsInteger(n, b) /\ ~Spells(n, d)
<1>1. n <= b /\ Zeroes(n, b) /\ text[b + 1] \notin Digits \union {Period, "x"} /\ b + 1 \in n..d
  BY DEF Read, Stops
<1>2. IsInteger(n, b)
  BY <1>1, NumberChars DEF IsInteger, AreDigits, Zeroes
<1>3. ~IsInteger(n, d)
  BY <1>1 DEF IsInteger, AreDigits
<1>4. ASSUME IsHex(n, d) PROVE FALSE
  <2>1. PICK x \in n + 1..d - 1 : /\ text[x] = "x" /\ \A i \in n..x - 1 : text[i] = Zero
                                  /\ \A i \in x + 1..d : text[i] \in HexDigits
    BY <1>4, HexChars
  <2>2. x \in n..b \/ x = b + 1 \/ b + 1 \in n..x - 1
    BY <1>1
  <2> QED
    BY <1>1, <2>1, <2>2, NumberChars DEF Zeroes
<1>5. ASSUME IsFloat(n, d) PROVE FALSE
  <2>1. PICK m \in n..d : IsMantissa(n, m)
    BY <1>5, FloatParts
  <2>2. m \in Nat
    OBVIOUS
  <2>3. ~(b + 1 \in n..m)
    BY <1>1, <2>1, <2>2, MantissaChars
  <2>4. \A i \in n..m : i \in n..b
    BY <1>1, <2>3
  <2> QED
    BY <1>1, <2>1, <2>2, <2>4, MantissaChars DEF Zeroes
<1> QED
  BY <1>2, <1>3, <1>4, <1>5 DEF Spells

LEMMA NumberIsWhole ==
    ASSUME NEW n \in Nat, NEW b \in Nat, NEW d \in Nat, b < d,
           Read("number", n, b), Stops("number", b, d)
    PROVE  IsInteger(n, b) /\ ~Spells(n, d)
<1>1. /\ IsInteger(n, b) /\ (\E i \in n..b : text[i] # Zero)
      /\ text[b + 1] \notin Digits \union {Period, "e"} /\ n <= b /\ b + 1 \in n..d
  BY DEF Read, Stops, IsInteger
<1>2. \A i \in n..b : text[i] \in Digits
  BY <1>1 DEF IsInteger, AreDigits
<1>3. ~IsInteger(n, d)
  BY <1>1 DEF IsInteger, AreDigits
<1>4. ASSUME IsHex(n, d) PROVE FALSE
  <2>1. PICK x \in n + 1..d - 1 : /\ text[x] = "x" /\ \A i \in n..x - 1 : text[i] = Zero
    BY <1>4, HexChars
  <2>2. x \in n..b \/ \A i \in n..b : i \in n..x - 1
    OBVIOUS
  <2> QED
    BY <1>1, <1>2, <2>1, <2>2, NumberChars
<1>5. ASSUME IsFloat(n, d) PROVE FALSE
  <2>1. PICK m \in n..d : /\ IsMantissa(n, m)
                          /\ m = d \/ (m < d /\ text[m + 1] = "e")
    BY <1>5, FloatParts
  <2>2. m \in Nat
    OBVIOUS
  <2>3. ~(b + 1 \in n..m)
    BY <1>1, <2>1, <2>2, MantissaChars
  <2>4. m <= b /\ m < d
    BY <1>1, <2>3
  <2>5. m + 1 \in n..b \/ m + 1 = b + 1
    BY <2>4
  <2> QED
    BY <1>1, <1>2, <2>1, <2>4, <2>5, NumberChars
<1> QED
  BY <1>1, <1>3, <1>4, <1>5 DEF Spells

LEMMA ReadFloat ==
    ASSUME NEW n \in Nat, NEW b \in Nat, Read("float", n, b)
    PROVE  IsFloat(n, b)
<1>1. PICK p \in n..b - 1 : text[p] = Period /\ AreDigits(n, p - 1) /\ AreDigits(p + 1, b)
  BY DEF Read
<1>2. p \in n..b /\ n < b /\ b \in p + 1..b
  OBVIOUS
<1>3. IsMantissa(n, b)
  BY <1>1, <1>2 DEF IsMantissa
<1>4. text[b] # Period
  BY <1>1, <1>2, NumberChars DEF AreDigits
<1>5. ~IsInteger(n, b)
  BY <1>1, <1>2, NumberChars DEF IsInteger, AreDigits
<1> QED
  BY <1>3, <1>4, <1>5 DEF IsFloat

LEMMA FloatIsWhole ==
    ASSUME NEW n \in Nat, NEW b \in Nat, NEW d \in Nat, b < d,
           Read("float", n, b), Stops("float", b, d)
    PROVE  IsFloat(n, b) /\ ~Spells(n, d)
<1>1. PICK p \in n..b - 1 : text[p] = Period /\ AreDigits(n, p - 1) /\ AreDigits(p + 1, b)
  BY DEF Read
<1>2. text[b + 1] \notin Digits \union {"e"} /\ b + 1 \in n..d /\ p \in n..b /\ p \in n..d /\ n < b
  BY DEF Stops
<1>3. \A i \in n..b : i \in n..p - 1 \/ i = p \/ i \in p + 1..b
  OBVIOUS
<1>4. \A i \in n..b : i = p \/ text[i] \in Digits
  BY <1>1, <1>3 DEF AreDigits
<1>5. IsFloat(n, b)
  BY ReadFloat
<1>6. ~IsInteger(n, d)
  BY <1>1, <1>2, NumberChars DEF IsInteger, AreDigits
<1>7. ASSUME IsHex(n, d) PROVE FALSE
  <2>1. PICK x \in n + 1..d - 1 : /\ text[x] = "x" /\ \A i \in n..x - 1 : text[i] = Zero
                                  /\ \A i \in x + 1..d : text[i] \in HexDigits
    BY <1>7, HexChars
  <2>2. p \in n..x - 1 \/ p = x \/ p \in x + 1..d
    BY <1>2
  <2> QED
    BY <1>1, <2>1, <2>2, NumberChars
<1>8. ASSUME IsFloat(n, d) PROVE FALSE
  <2>1. PICK m \in n..d : /\ IsMantissa(n, m)
                          /\ m = d \/ (m < d /\ text[m + 1] = "e")
    BY <1>8, FloatParts
  <2>2. m \in Nat
    OBVIOUS
  <2>3. ~(b + 1 \in n..m)
    <3>1. SUFFICES ASSUME b + 1 \in n..m PROVE FALSE
      OBVIOUS
    <3>2. p \in n..m /\ p # b + 1
      BY <3>1
    <3>3. text[b + 1] = Period
      BY <1>2, <2>1, <2>2, <3>1, MantissaChars
    <3> QED
      BY <1>1, <2>1, <2>2, <3>1, <3>2, <3>3, MantissaChars
  <2>4. m <= b /\ m < d
    BY <1>2, <2>3
  <2>5. m + 1 \in n..b \/ m + 1 = b + 1
    BY <2>4
  <2> QED
    BY <1>1, <1>2, <1>4, <2>1, <2>4, <2>5, NumberChars
<1> QED
  BY <1>5, <1>6, <1>7, <1>8 DEF Spells

LEMMA ExponentIsWhole ==
    ASSUME NEW n \in Nat, NEW b \in Nat, NEW d \in Nat, b < d,
           Read("expDigits", n, b), Stops("expDigits", b, d)
    PROVE  IsFloat(n, b) /\ ~Spells(n, d)
<1>1. PICK e \in n + 1..b : IsMantissa(n, e - 1) /\ IsExponent(e, b)
  BY DEF Read
<1>2. text[b + 1] \notin Digits /\ text[e] = "e" /\ e \in n..d /\ e \in Nat /\ e - 1 \in Nat
  BY <1>1 DEF Stops, IsExponent
<1>3. \A i \in n..e - 1 : text[i] \in Digits \union {Period}
  BY <1>1, <1>2, MantissaChars
<1>4. IsFloat(n, b)
  BY <1>1 DEF IsFloat
<1>5. ~IsInteger(n, d)
  BY <1>2, NumberChars DEF IsInteger, AreDigits
<1>6. ASSUME IsHex(n, d) PROVE FALSE
  <2>1. PICK x \in n + 1..d - 1 : /\ text[x] = "x" /\ \A i \in n..x - 1 : text[i] = Zero
    BY <1>6, HexChars
  <2>2. x \in n..e - 1 \/ x = e \/ e \in n..x - 1
    BY <1>2
  <2>3. text[x] \notin Digits \union {Period} /\ text[x] # "e" /\ text[e] # Zero
    BY <1>2, <2>1, NumberChars
  <2> QED
    BY <1>2, <1>3, <2>1, <2>2, <2>3
<1>7. ASSUME IsFloat(n, d) PROVE FALSE
  <2>1. PICK m \in n..d : /\ IsMantissa(n, m)
                          /\ m = d \/ (m < d /\ text[m + 1] = "e" /\ IsExponent(m + 1, d))
    BY <1>7, FloatParts
  <2>2. m \in Nat
    OBVIOUS
  <2>3. ~(e \in n..m)
    BY <1>2, <2>1, <2>2, MantissaChars, NumberChars
  <2>4. m < e /\ m < d
    BY <1>2, <2>3
  <2>5. m + 1 \in n..e - 1 \/ m + 1 = e
    BY <2>4
  <2>6. m + 1 = e /\ IsExponent(e, d)
    BY <1>3, <2>1, <2>4, <2>5, NumberChars
  <2> DEFINE q == IF text[e + 1] \in Signs THEN e + 2 ELSE e + 1
  <2>7. IsInteger(q, b) /\ IsInteger(q, d) /\ q \in Nat
    BY <1>1, <2>6 DEF IsExponent
  <2> HIDE DEF q
  <2>8. b + 1 \in q..d
    BY <2>7 DEF IsInteger
  <2> QED
    BY <1>2, <2>7, <2>8 DEF IsInteger, AreDigits
<1> QED
  BY <1>4, <1>5, <1>6, <1>7 DEF Spells

LEMMA HexIsWhole ==
    ASSUME NEW n \in Nat, NEW b \in Nat, NEW d \in Nat, b < d, Read("hex", n, b), Stops("hex", b, d)
    PROVE  IsHex(n, b) /\ ~Spells(n, d)
<1>1. IsHex(n, b) /\ text[b + 1] \notin HexDigits
  BY DEF Read, Stops
<1>2. PICK x \in n + 1..b - 1 : /\ text[x] = "x" /\ \A i \in n..x - 1 : text[i] = Zero
                                /\ \A i \in x + 1..b : text[i] \in HexDigits
  BY <1>1, HexChars
<1>3. x \in n..d
  OBVIOUS
<1>4. ~IsInteger(n, d)
  BY <1>2, <1>3, NumberChars DEF IsInteger, AreDigits
<1>5. ASSUME IsHex(n, d) PROVE FALSE
  <2>1. PICK y \in n + 1..d - 1 : /\ text[y] = "x" /\ \A i \in n..y - 1 : text[i] = Zero
                                  /\ \A i \in y + 1..d : text[i] \in HexDigits
    BY <1>5, HexChars
  <2>2. y \in n..x - 1 \/ y = x \/ x \in n..y - 1
    OBVIOUS
  <2>3. y = x
    BY <1>2, <2>1, <2>2, NumberChars
  <2>4. b + 1 \in x + 1..d
    OBVIOUS
  <2> QED
    BY <1>1, <2>1, <2>3, <2>4
<1>6. ASSUME IsFloat(n, d) PROVE FALSE
  <2>1. PICK m \in n..d : /\ IsMantissa(n, m)
                          /\ m = d \/ (m < d /\ text[m + 1] = "e")
    BY <1>6, FloatParts
  <2>2. m \in Nat
    OBVIOUS
  <2>3. ~(x \in n..m)
    BY <1>2, <2>1, <2>2, MantissaChars, NumberChars
  <2>4. m < x /\ m < d
    BY <2>3
  <2>5. m + 1 \in n..x - 1 \/ m + 1 = x
    BY <2>4
  <2> QED
    BY <1>2, <2>1, <2>4, <2>5, NumberChars
<1> QED
  BY <1>1, <1>4, <1>5, <1>6 DEF Spells

LEMMA IntegerIsWhole ==
    ASSUME NEW n \in Nat, NEW b \in Nat, NEW d \in Nat, b < d,
           Read("integer", n, b), Stops("integer", b, d)
    PROVE  IsInteger(n, b) /\ ~Spells(n, d)
<1>1. /\ IsInteger(n, b) /\ n <= b /\ text[b + 1] = Period /\ b + 1 \in n..d
      /\ b + 2 <= d => text[b + 2] \notin Digits \union {"e"}
  BY DEF Read, Stops, IsInteger
<1>2. \A i \in n..b : text[i] \in Digits
  BY <1>1 DEF IsInteger, AreDigits
<1>3. ~IsInteger(n, d)
  BY <1>1, NumberChars DEF IsInteger, AreDigits
<1>4. ASSUME IsHex(n, d) PROVE FALSE
  <2>1. PICK x \in n + 1..d - 1 : /\ text[x] = "x" /\ \A i \in n..x - 1 : text[i] = Zero
                                  /\ \A i \in x + 1..d : text[i] \in HexDigits
    BY <1>4, HexChars
  <2>2. b + 1 \in n..x - 1 \/ b + 1 = x \/ b + 1 \in x + 1..d
    BY <1>1
  <2> QED
    BY <1>1, <2>1, <2>2, NumberChars
<1>5. ASSUME IsFloat(n, d) PROVE FALSE
  <2>1. PICK m \in n..d : /\ IsMantissa(n, m)
                          /\ (m = d /\ text[d] # Period) \/ (m < d /\ text[m + 1] = "e")
    BY <1>5, FloatParts
  <2>2. m \in Nat
    OBVIOUS
  <2>3. ~(b + 2 \in n..m)
    <3>1. SUFFICES ASSUME b + 2 \in n..m PROVE FALSE
      OBVIOUS
    <3>2. b + 1 \in n..m /\ b + 2 # b + 1 /\ b + 2 <= d
      BY <1>1, <3>1
    <3>3. text[b + 2] = Period
      BY <1>1, <2>1, <2>2, <3>1, <3>2, MantissaChars
    <3> QED
      BY <1>1, <2>1, <2>2, <3>1, <3>2, <3>3, MantissaChars
  <2>4. m <= b + 1
    BY <1>1, <2>3
  <2>5. CASE m = b + 1
    <3>1. m < d /\ text[m + 1] = "e"
      BY <1>1, <2>1, <2>5
    <3>2. m + 1 = b + 2 /\ b + 2 <= d
      BY <2>5, <3>1
    <3> QED
      BY <1>1, <3>1, <3>2
  <2>6. CASE m <= b
    <3>1. m < d /\ (m + 1 \in n..b \/ m + 1 = b + 1)
      BY <2>6
    <3> QED
      BY <1>1, <1>2, <2>1, <3>1, NumberChars
  <2> QED
    BY <2>4, <2>5, <2>6
<1> QED
  BY <1>1, <1>3, <1>4, <1>5 DEF Spells

\* Where the digits of a number at the mark start.
Start == IF text[mark + 1] \in Signs THEN mark + 2 ELSE mark + 1

\* What NumberScanner has read.  A zero before another digit is dropped from
\* the token; a period is not where the token ends before it.
NumberSoFar ==
    /\ at = "start" => pos = mark
    /\ at = "sign" => pos = mark + 1 /\ text[pos] \in Signs
    /\ Read(at, Start, pos)
    /\ at = "zero" /\ memo = "chopped" => Peek \in Digits
    /\ at = "number" \/ (at = "zero" /\ memo # "chopped") => Len(CurrentToken) >= 1
    /\ at = "period" => Len(CurrentToken) > 1
    /\ at = "integer" =>
          text[pos + 1] = Period /\ (pos + 2 <= Len(text) => text[pos + 2] \notin Digits \union {"e"})

NumeralInv ==
    Doing("number") /\ at # "returned" /\ mark < Len(text) /\ ~IsSignAndPeriod(mark + 1) =>
        NumberSoFar

LEMMA SameNumbers ==
    ASSUME text' = text
    PROVE  /\ \A place, n, b : Read(place, n, b)' <=> Read(place, n, b)
           /\ \A a : IsSignAndPeriod(a)' <=> IsSignAndPeriod(a)
           /\ \A code, a, b : IsNumeral(code, a, b)' <=> IsNumeral(code, a, b)
           /\ mark' = mark => Start' = Start
BY DEF Read, Zeroes, IsSignAndPeriod, IsNumeral, IsInteger, IsFloat, IsHex, IsMantissa,
       IsExponent, AreDigits, Start

LEMMA TokenGrows ==
    ASSUME Unlocked, Push, ~AtEnd
    PROVE  Len(CurrentToken) \in Nat /\ Len(CurrentToken)' = Len(CurrentToken) + 1
<1>1. /\ tokenString \in Seq(Seq(Positions)) /\ Len(tokenString) <= 1
      /\ mark \in Nat /\ pos \in Nat /\ mark <= pos /\ pos' = pos + 1 /\ mark' = mark
  <2>1. BufferOK
    BY Sizes DEF Unlocked
  <2> QED
    BY <2>1, WindowIs DEF BufferOK, Push, SkipOne
<1>2. CASE tokenString = <<>>
  <2>1. tokenString' = <<>>
    BY <1>2 DEF Push
  <2>2. Len(CurrentToken) = pos - mark
    BY <1>1, <1>2, LenProperties DEF CurrentToken, Scanned
  <2>3. CurrentToken' = [i \in 1..(pos' - mark') |-> mark' + i]
    BY <2>1 DEF CurrentToken, Scanned
  <2>4. Len(CurrentToken)' = pos' - mark'
    BY <1>1, <2>3, LenProperties
  <2> QED
    BY <1>1, <2>2, <2>4
<1>3. CASE tokenString # <<>>
  <2>1. tokenString[1] \in Seq(Positions)
    <3>1. Len(tokenString) \in Nat /\ Len(tokenString) # 0
      BY <1>1, <1>3, EmptySeq, LenProperties
    <3>2. 1 \in 1..Len(tokenString)
      BY <3>1
    <3> QED
      BY <1>1, <3>2, ElementOfSeq
  <2>2. tokenString' = <<Append(tokenString[1], pos + 1)>>
    BY <1>3 DEF Push
  <2>3. CurrentToken' = Append(tokenString[1], pos + 1) /\ CurrentToken = tokenString[1]
    BY <1>3, <2>2 DEF CurrentToken
  <2> QED
    BY <2>1, <2>3
<1> QED
  BY <1>2, <1>3

LEMMA NumberPushes ==
    ASSUME Unlocked, NumberSoFar, Matching, mark < Len(text), ~IsSignAndPeriod(mark + 1),
           Push, ~AtEnd, memo' = "none", Goes(at, Peek, at')
    PROVE  NumberSoFar'
<1>1. /\ text' = text /\ mark' = mark /\ pos' = pos + 1 /\ pos < Len(text) /\ Peek = text[pos + 1]
      /\ pos \in Nat /\ mark \in Nat /\ Start \in Nat
  BY WindowIs DEF Push, SkipOne, Start
<1>2. Start' = Start /\ \A place, n, b : Read(place, n, b)' <=> Read(place, n, b)
  BY <1>1, SameNumbers
<1>3. ASSUME at \in {"start", "sign"}, at' # "sign"
      PROVE  Start = pos + 1 /\ at' # "period"
  <2>1. CASE at = "start"
    <3>1. pos = mark /\ text[mark + 1] = Peek
      BY <1>1, <2>1 DEF NumberSoFar
    <3>2. Peek \in {Zero, Period} \union NonZero /\ at' # "period"
      BY <1>3, <2>1 DEF Goes
    <3>3. Peek \notin Signs
      BY <3>2, NumberChars
    <3> QED
      BY <3>1, <3>2, <3>3 DEF Start
  <2>2. CASE at = "sign"
    <3>1. pos = mark + 1 /\ text[mark + 1] \in Signs
      BY <2>2 DEF NumberSoFar
    <3>2. Start = pos + 1
      BY <1>1, <3>1 DEF Start
    <3>3. Peek # Period
      BY <1>1, <3>1 DEF IsSignAndPeriod
    <3>4. at' # "period"
      BY <2>2, <3>3 DEF Goes
    <3> QED
      BY <3>2, <3>4
  <2> QED
    BY <1>3, <2>1, <2>2
<1>4. Read(at', Start, pos + 1)
  <2> DEFINE next == at'
  <2>1. next = at'
    OBVIOUS
  <2> HIDE DEF next
  <2>2. Read(at, Start, pos)
    BY DEF NumberSoFar
  <2>3. Goes(at, text[pos + 1], next)
    BY <1>1, <2>1
  <2> QED
    BY <1>1, <1>3, <2>1, <2>2, <2>3, ReadGrows
<1>5. Read(at, Start, pos)'
  BY <1>1, <1>2, <1>4
<1>6. at' = "sign" => pos' = mark' + 1 /\ text'[pos'] \in Signs
  <2>1. ASSUME at' = "sign" PROVE at = "start" /\ Peek \in Signs
    BY <2>1 DEF Goes
  <2> QED
    BY <1>1, <2>1 DEF NumberSoFar
<1>7. at' # "start" /\ at' # "integer" /\ memo' # "chopped"
  BY DEF Goes
<1>8. Len(CurrentToken) \in Nat /\ Len(CurrentToken)' = Len(CurrentToken) + 1
  BY TokenGrows
<1>9. Len(CurrentToken)' >= 1
  BY <1>8
<1>10. at' = "period" => Len(CurrentToken)' > 1
  <2>1. ASSUME at' = "period" PROVE Len(CurrentToken) >= 1
    <3>1. at # "start" /\ at \in {"sign", "zero", "number"} /\ Peek = Period
      BY <2>1 DEF Goes
    <3>2. at # "sign"
      BY <1>3, <2>1
    <3>3. Peek \notin Digits
      BY <3>1, NumberChars
    <3> QED
      BY <3>1, <3>2, <3>3 DEF NumberSoFar
  <2> QED
    BY <1>8, <2>1
<1> QED
  BY <1>5, <1>6, <1>7, <1>9, <1>10 DEF NumberSoFar

LEMMA NumberFeatures ==
    ASSUME NumbersAreComplete, Unlocked, Doing("number")
    PROVE  {"scientific", "hex", "fractions"} \subseteq setup.number /\ "dollarHex" \notin setup.number
<1>1. setup \in Setups /\ current \in 1..Scanners /\ setup.order[current] = "number"
  BY DEF Unlocked, SetupInv, WindowInv, Doing
<1>2. "number" \in {setup.order[i] : i \in 1..Scanners}
  BY <1>1
<1> QED
  BY <1>1, <1>2 DEF NumbersAreComplete

LEMMA NumeralStep ==
    ASSUME NumbersAreComplete, Unlocked, NumeralInv, Number, UNCHANGED commentVars
    PROVE  NumeralInv'
<1>1. UNCHANGED <<pc, current, setup>> /\ Doing("number") /\ Matching
  BY NumberFits DEF Doing
<1>2. CASE NumberMovesOn
  <2>1. PICK place \in NumberStates, move \in NumberMoves :
            /\ Running("number", place)
            /\ move \in MovesOf(place)
            /\ IF Chops(place, move) /\ memo # "chopped"
               THEN Edits(Chop(1), place) /\ memo' = "chopped"
               ELSE Edits(Push, move[3]) /\ memo' = "none"
    BY <1>2 DEF NumberMovesOn
  <2>2. /\ place = at /\ move[1] = at /\ Peek \in move[2]
        /\ move[4] \in setup.number \union {""}
    BY <2>1 DEF MovesOf, Running
  <2>3. move[4] # "dollarHex"
    BY <1>1, <2>2, NumberFeatures
  <2>4. Goes(at, Peek, move[3]) /\ (Chops(at, move) => at = "zero" /\ Peek \in Digits)
    <3>1. Goes(move[1], Peek, move[3])
          /\ (move[1] = "zero" /\ move[2] \in {{Zero}, NonZero} => Peek \in Digits)
      BY <2>2, <2>3, MoveIs
    <3> QED
      BY <2>2, <3>1 DEF Chops
  <2>5. ~AtEnd
    BY <2>2, MoveFacts, WindowIs
  <2>6. at # "returned"
    BY <2>4 DEF Goes
  <2>7. text' = text /\ mark' = mark
    BY <2>1 DEF Edits, Chop, Push
  <2>8. SUFFICES ASSUME mark < Len(text), ~IsSignAndPeriod(mark + 1)
                 PROVE  NumberSoFar'
    BY <2>7, SameNumbers DEF NumeralInv
  <2>9. NumberSoFar
    BY <1>1, <2>6, <2>8 DEF NumeralInv
  <2>10. CASE Edits(Chop(1), place) /\ memo' = "chopped" /\ Chops(place, move)
    <3>1. at = "zero" /\ at' = "zero" /\ Peek \in Digits
      BY <2>2, <2>4, <2>10 DEF Edits
    <3>2. pos' = pos /\ Peek' = Peek /\ Start' = Start
      BY <2>7, <2>10, SameNumbers DEF Edits, Chop, Peek, AtEnd
    <3>3. Read(at, Start, pos)'
      BY <2>7, <2>9, <3>1, <3>2, SameNumbers DEF NumberSoFar
    <3> QED
      BY <2>10, <3>1, <3>2, <3>3 DEF NumberSoFar
  <2>11. CASE Edits(Push, move[3]) /\ memo' = "none"
    BY <1>1, <2>4, <2>5, <2>8, <2>9, <2>11, NumberPushes DEF Edits
  <2> QED
    BY <2>1, <2>10, <2>11
<1>3. CASE NumberDropsPeriod
  <2>1. /\ at = "period" /\ MovesOf("period") = {} /\ PartialRewind(1) /\ at' = "integer"
        /\ text' = text /\ mark' = mark
    BY <1>3 DEF NumberDropsPeriod, Running, Edits, PartialRewind
  <2>2. SUFFICES ASSUME mark < Len(text), ~IsSignAndPeriod(mark + 1)
                 PROVE  NumberSoFar'
    BY <2>1, SameNumbers DEF NumeralInv
  <2>3. NumberSoFar
    BY <1>1, <2>1, <2>2 DEF NumeralInv
  <2>4. /\ pos \in Nat /\ mark \in Nat /\ pos > mark + 1 /\ Start \in Nat
        /\ (pos < Len(text) => Peek = text[pos + 1])
    <3>1. pos > mark + 1
      BY <1>1, <2>1 DEF Unlocked, WindowInv
    <3> QED
      BY <3>1, WindowIs DEF Start, AtEnd
  <2>5. pos' = pos - 1
    <3>1. ~(1 > pos - mark)
      BY <2>4
    <3> QED
      BY <2>1, <3>1, Zenon DEF PartialRewind
  <2>6. Start < pos /\ text[pos] = Period /\ AreDigits(Start, pos - 1) /\ Len(CurrentToken) > 1
    BY <2>1, <2>3 DEF NumberSoFar, Read
  <2>7. Peek \notin Digits \union {"e"}
    BY <1>1, <2>1, <2>6, NoMoves, NumberFeatures
  <2>8. Read("integer", Start, pos - 1)
    BY <2>4, <2>6 DEF Read, IsInteger
  <2>9. Read(at, Start, pos)'
    BY <2>1, <2>5, <2>8, SameNumbers
  <2>10. text'[pos' + 1] = Period
         /\ (pos' + 2 <= Len(text') => text'[pos' + 2] \notin Digits \union {"e"})
    <3>1. pos' + 1 = pos /\ pos' + 2 = pos + 1
      BY <2>4, <2>5
    <3>2. Len(text) \in Nat
      BY WindowIs
    <3> QED
      BY <2>1, <2>4, <2>6, <2>7, <3>1, <3>2
  <2> QED
    BY <2>1, <2>9, <2>10 DEF NumberSoFar
<1>4. CASE NumberEnds
  <2>1. at' = "returned"
    BY <1>4 DEF NumberEnds, AcceptToken, AcceptError, Accepts, Returns, GoesTo
  <2> QED
    BY <2>1 DEF NumeralInv
<1> QED
  BY <1>2, <1>3, <1>4 DEF Number

LEMMA NumeralInvNext ==
    ASSUME NumbersAreComplete, Fits, NumeralInv, [ScannersNext]_<<vars, scannerVars>>
    PROVE  NumeralInv'
<1>1. Unlocked /\ UNCHANGED <<text, setup>>
  BY TokensStay DEF Fits, Unlocked
<1>2. CASE (Whitespace \/ QString \/ Keyword \/ Identifier \/ PlainText) /\ UNCHANGED commentVars
  <2>1. /\ UNCHANGED <<pc, current>>
        /\ \E name \in {"whitespace", "qstring", "keyword", "identifier", "plaintext"} :
              Doing(name)
    BY <1>1, <1>2, WhitespaceFits, QStringFits, KeywordFits, IdentifierFits, PlainTextFits
  <2>2. ~Doing("number")'
    BY <1>1, <2>1 DEF Doing, Matching
  <2> QED
    BY <2>2 DEF NumeralInv
<1>3. CASE CommentNext
  <2>1. Doing("comment") /\ UNCHANGED <<pc, current>>
    BY <1>3, CommentDoes
  <2>2. ~Doing("number")'
    BY <1>1, <2>1 DEF Doing, Matching
  <2> QED
    BY <2>2 DEF NumeralInv
<1>4. CASE Number /\ UNCHANGED commentVars
  BY <1>1, <1>4, NumeralStep
<1>5. CASE Driver
  <2>1. SUFFICES ASSUME Matching' PROVE NumberSoFar'
    BY DEF NumeralInv, Doing
  <2>2. at' = "start" /\ pos' = mark'
    BY <1>5, <2>1, Offered
  <2> QED
    BY <2>2 DEF NumberSoFar, Read
<1>6. CASE UNCHANGED <<vars, scannerVars>>
  <2>1. UNCHANGED <<text, pos, mark, tokenString, setup, at, memo, pc, current>>
    BY <1>6 DEF vars, bufferVars, driverVars, scannerVars, matchVars
  <2>2. (Doing("number")' <=> Doing("number")) /\ CurrentToken' = CurrentToken /\ Peek' = Peek
    BY <2>1 DEF Doing, Matching, CurrentToken, Scanned, Peek, AtEnd
  <2>3. Start' = Start /\ (Read(at, Start, pos)' <=> Read(at, Start, pos))
    BY <2>1, SameNumbers
  <2>4. NumberSoFar' <=> NumberSoFar
    BY <2>1, <2>2, <2>3 DEF NumberSoFar
  <2> QED
    BY <2>1, <2>2, <2>4, SameNumbers DEF NumeralInv
<1> QED
  BY <1>2, <1>3, <1>4, <1>5, <1>6 DEF ScannersNext, Scanner

\* Where NumberScanner ends a number, one that is not an error stands there
\* and none that goes on.
LEMMA NumeralEnds ==
    ASSUME NEW n \in Nat, NEW b \in Nat, NEW place, NEW code, Read(place, n, b),
           \/ place \in {"zero", "number", "integer"} /\ code = "Integer"
           \/ place \in {"float", "expDigits"} /\ code = "Float"
           \/ place = "hex" /\ code = "HexNumber",
           \A d \in b + 1..Len(text) : Stops(place, b, d), Len(text) \in Nat
    PROVE  /\ code = "Integer" => IsInteger(n, b)
           /\ code = "Float" => IsFloat(n, b)
           /\ code = "HexNumber" => IsHex(n, b)
           /\ \A d \in b + 1..Len(text) : ~Spells(n, d)
<1>1. ASSUME NEW d \in b + 1..Len(text)
      PROVE  ~Spells(n, d)
  <2>1. d \in Nat /\ b < d /\ Stops(place, b, d)
    OBVIOUS
  <2> QED
    BY <2>1, ZeroIsWhole, NumberIsWhole, FloatIsWhole, ExponentIsWhole, HexIsWhole, IntegerIsWhole
<1>2. /\ code = "Integer" => IsInteger(n, b)
      /\ code = "HexNumber" => IsHex(n, b)
  <2>1. Read("zero", n, b) => IsInteger(n, b)
    BY NumberChars DEF Read, Zeroes, IsInteger, AreDigits
  <2>2. Read("number", n, b) => IsInteger(n, b)
    BY DEF Read
  <2>3. Read("integer", n, b) => IsInteger(n, b)
    BY DEF Read
  <2>4. Read("hex", n, b) => IsHex(n, b)
    BY DEF Read
  <2> QED
    BY <2>1, <2>2, <2>3, <2>4
<1>3. code = "Float" => IsFloat(n, b)
  <2>1. Read("float", n, b) => IsFloat(n, b)
    BY ReadFloat
  <2>2. Read("expDigits", n, b) => IsFloat(n, b)
    BY DEF Read, IsFloat
  <2> QED
    BY <2>1, <2>2
<1> QED
  BY <1>1, <1>2, <1>3

\* What NumbersAreNumerals says of one token.
NumeralAt(k) ==
    LET a == First(tokens[k])
    IN  ~IsSignAndPeriod(a) =>
          /\ IsNumeral(tokens[k].code, a, Last(tokens[k]))
          /\ \A c \in Last(tokens[k]) + 1..Len(text) :
                \A code \in {"Integer", "Float", "HexNumber"} : ~IsNumeral(code, a, c)

LEMMA NumeralsAre ==
    NumbersAreNumerals <=> \A k \in TokensWith({"Integer", "Float", "HexNumber"}) : NumeralAt(k)
BY DEF NumbersAreNumerals, NumeralAt

LEMMA NumeralAtStays ==
    ASSUME NEW k, NumeralAt(k), tokens'[k] = tokens[k], UNCHANGED text
    PROVE  NumeralAt(k)'
<1>1. First(tokens[k])' = First(tokens[k]) /\ Last(tokens[k])' = Last(tokens[k])
  BY DEF First, Last
<1> QED
  BY <1>1, SameNumbers DEF NumeralAt

\* Where NumberScanner accepts a number.
LEMMA NumberAccepts ==
    ASSUME Fits, Number, NEW k \in 1..Len(tokens'), k \notin 1..Len(tokens),
           tokens'[k].code \in {"Integer", "Float", "HexNumber"}
    PROVE  \E place, code : /\ Running("number", place) /\ AcceptTo(pos, code, CurrentToken)
                            /\ \/ place = "integer" /\ code = "Integer"
                               \/ /\ MovesOf(place) = {}
                                  /\ \/ place \in {"zero", "number"} /\ code = "Integer"
                                     \/ place \in {"float", "expDigits"} /\ code = "Float"
                                     \/ place = "hex" /\ code = "HexNumber"
<1>1. tokens' # tokens
  OBVIOUS
<1>2. NumberEnds
  BY <1>1 DEF Number, NumberMovesOn, NumberDropsPeriod, Edits, Chop, Push, PartialRewind
<1>3. CASE Running("number", "integer") /\ AcceptToken("Integer", "returned")
  BY <1>3 DEF AcceptToken, Accepts
<1>4. CASE \E place \in NumberStates \ {"period"} :
             /\ Running("number", place)
             /\ MovesOf(place) = {}
             /\ IF place \notin DOMAIN NumberCodes THEN Returns
                ELSE IF NumberCodes[place] = "Error" THEN AcceptError("returned")
                ELSE AcceptToken(NumberCodes[place], "returned")
  <2>1. PICK place \in NumberStates \ {"period"} :
             /\ Running("number", place)
             /\ MovesOf(place) = {}
             /\ IF place \notin DOMAIN NumberCodes THEN Returns
                ELSE IF NumberCodes[place] = "Error" THEN AcceptError("returned")
                ELSE AcceptToken(NumberCodes[place], "returned")
    BY <1>4
  <2>2. ~Returns
    BY <1>1 DEF Returns, GoesTo, bufferVars
  <2>3. ~AcceptError("returned")
    <3>1. ASSUME AcceptTo(pos, "Error", Literal) PROVE FALSE
      <4>1. tokens'[k].code = "Error"
        BY <3>1, AcceptedIs DEF Fits
      <4> QED
        BY <4>1
    <3> QED
      BY <3>1 DEF AcceptError, Accepts
  <2>4. /\ place \in DOMAIN NumberCodes /\ NumberCodes[place] # "Error"
        /\ AcceptTo(pos, NumberCodes[place], CurrentToken)
    BY <2>1, <2>2, <2>3 DEF AcceptToken, Accepts
  <2>5. \/ place \in {"zero", "number"} /\ NumberCodes[place] = "Integer"
        \/ place \in {"float", "expDigits"} /\ NumberCodes[place] = "Float"
        \/ place = "hex" /\ NumberCodes[place] = "HexNumber"
    BY <2>4 DEF NumberCodes
  <2> QED
    BY <2>1, <2>4, <2>5
<1> QED
  BY <1>2, <1>3, <1>4 DEF NumberEnds

\* What NumberScanner accepts.
LEMMA NumeralIsRead ==
    ASSUME NumbersAreComplete, Fits, NumeralInv, Number, UNCHANGED text,
           NEW k \in 1..Len(tokens'), k \notin 1..Len(tokens),
           tokens'[k].code \in {"Integer", "Float", "HexNumber"}
    PROVE  NumeralAt(k)'
<1>1. Unlocked
  BY DEF Fits, Unlocked
<1>2. /\ mark \in Nat /\ pos \in Nat /\ mark <= pos /\ pos <= Len(text) /\ Len(text) \in Nat
      /\ pos < Len(text) => Peek = text[pos + 1]
  BY <1>1, WindowIs DEF AtEnd
<1>5. PICK place, code : /\ Running("number", place) /\ AcceptTo(pos, code, CurrentToken)
                         /\ \/ place = "integer" /\ code = "Integer"
                            \/ /\ MovesOf(place) = {}
                               /\ \/ place \in {"zero", "number"} /\ code = "Integer"
                                  \/ place \in {"float", "expDigits"} /\ code = "Float"
                                  \/ place = "hex" /\ code = "HexNumber"
  BY NumberAccepts
<1>6. First(tokens'[k]) = mark + 1 /\ Last(tokens'[k]) = pos /\ tokens'[k].code = code
  BY <1>5, AcceptedIs DEF Fits
<1>7. First(tokens[k])' = mark + 1 /\ Last(tokens[k])' = pos /\ tokens[k].code' = code
  BY <1>6 DEF First, Last
<1>8. SUFFICES ASSUME ~IsSignAndPeriod(mark + 1)
               PROVE  /\ IsNumeral(code, mark + 1, pos)
                      /\ \A d \in pos + 1..Len(text) :
                            \A c \in {"Integer", "Float", "HexNumber"} : ~IsNumeral(c, mark + 1, d)
  BY <1>7, SameNumbers DEF NumeralAt
<1>9. NumberSoFar /\ at = place /\ Start \in Nat
  <2>1. at = place /\ Doing("number") /\ place # "returned" /\ place \in Inside
    BY <1>5 DEF Running, Doing, Inside
  <2>2. mark < Len(text)
    <3>1. pos > mark
      BY <1>1, <2>1 DEF Unlocked, WindowInv, Doing
    <3> QED
      BY <1>2, <3>1
  <2> QED
    BY <1>2, <1>8, <2>1, <2>2 DEF NumeralInv, Start
<1>10. ASSUME NEW d \in pos + 1..Len(text)
       PROVE  Stops(place, pos, d)
  <2>1. pos < Len(text) /\ Peek = text[pos + 1]
    BY <1>2
  <2>2. CASE place = "integer"
    <3>1. pos + 2 <= d => pos + 2 <= Len(text)
      BY <1>2
    <3> QED
      BY <1>9, <2>2, <3>1 DEF NumberSoFar, Stops
  <2>3. CASE MovesOf(place) = {} /\ place # "integer"
    <3>1. {"scientific", "hex", "fractions"} \subseteq setup.number
      BY <1>1, <1>5, NumberFeatures DEF Running, Doing
    <3> QED
      BY <2>1, <2>3, <3>1, NoMoves DEF Stops
  <2> QED
    BY <1>5, <2>2, <2>3
<1>11. /\ code = "Integer" => IsInteger(Start, pos)
       /\ code = "Float" => IsFloat(Start, pos)
       /\ code = "HexNumber" => IsHex(Start, pos)
       /\ \A d \in pos + 1..Len(text) : ~Spells(Start, d)
  <2>1. Read(place, Start, pos)
    BY <1>9 DEF NumberSoFar
  <2> QED
    BY <1>2, <1>5, <1>9, <1>10, <2>1, NumeralEnds
<1>12. \A b : /\ IsNumeral("Integer", mark + 1, b) <=> IsInteger(Start, b)
              /\ IsNumeral("Float", mark + 1, b) <=> IsFloat(Start, b)
              /\ IsNumeral("HexNumber", mark + 1, b) <=> IsHex(Start, b)
  <2>1. Start = IF text[mark + 1] \in Signs THEN (mark + 1) + 1 ELSE mark + 1
    BY <1>2 DEF Start
  <2> QED
    BY <2>1 DEF IsNumeral
<1> QED
  BY <1>5, <1>11, <1>12 DEF Spells

LEMMA NumeralsNext ==
    ASSUME NumbersAreComplete, Fits, NumeralInv, NumbersAreNumerals,
           [ScannersNext]_<<vars, scannerVars>>
    PROVE  NumbersAreNumerals'
<1>1. UNCHANGED text
  BY TokensStay
<1>2. SUFFICES ASSUME NEW k \in 1..Len(tokens'),
                      tokens'[k].code \in {"Integer", "Float", "HexNumber"}
               PROVE  NumeralAt(k)'
  <2>1. (\A k \in TokensWith({"Integer", "Float", "HexNumber"})' : NumeralAt(k)')
        => NumbersAreNumerals'
    BY DEF NumbersAreNumerals, NumeralAt
  <2> QED
    BY <2>1 DEF TokensWith
<1>3. CASE k \in 1..Len(tokens)
  <2>1. tokens'[k] = tokens[k]
    BY <1>3, TokensStay
  <2>2. k \in TokensWith({"Integer", "Float", "HexNumber"})
    BY <1>2, <1>3, <2>1 DEF TokensWith
  <2>3. NumeralAt(k)
    BY <2>2, NumeralsAre
  <2> QED
    BY <1>1, <2>1, <2>3, NumeralAtStays
<1>4. CASE k \notin 1..Len(tokens)
  <2>1. MadeBy(tokens'[k].code)
    BY <1>4, TokensStay
  <2>2. Number
    BY <1>2, <2>1 DEF MadeBy
  <2> QED
    BY <1>1, <1>2, <1>4, <2>2, NumeralIsRead
<1> QED
  BY <1>3, <1>4

\* A number token is a numeral of its code, and no numeral goes on after it:
\* with any other scanners before and after, where the features of numbers are
\* set.
THEOREM NumbersAreAlwaysNumerals ==
    ASSUME NumbersAreComplete
    PROVE  ScannersSpec => []NumbersAreNumerals
<1>1. ScannersInit => NumeralInv /\ NumbersAreNumerals
  BY DEF ScannersInit, DriverInit, AtStart, NumeralInv, Doing, Matching, NumbersAreNumerals,
         TokensWith
<1>2. Fits /\ NumeralInv /\ NumbersAreNumerals /\ [ScannersNext]_<<vars, scannerVars>>
        => NumeralInv' /\ NumbersAreNumerals'
  BY NumeralInvNext, NumeralsNext
<1> QED
  BY <1>1, <1>2, FitsInit, FitsNext, PTL DEF ScannersSpec

-----------------------------------------------------------------------------
(* The pairs in the text of a token.                                       *)

\* parse_pairs() finds the names and values that are in the text of any token.
THEOREM PairsAreAlwaysTheText == ScannersSpec => []PairsAreTheText
<1>1. ASSUME Fits, NEW k \in 1..Len(tokens)
      PROVE  PairsMatch(Spelling(tokens[k]), ";", "=")
  <2>1. BufferOK
    BY <1>1, Zenon DEF Fits, Inv, TypeOK
  <2>2. PICK X : Spelling(tokens[k]) \in Seq(X) /\ ";" \in X /\ "=" \in X
    BY <2>1, SpellingIsText, Zenon
  <2>3. ~IsBlank("=")
    BY DEF IsBlank, Space, LineFeed, Return
  <2> DEFINE s == Spelling(tokens[k])
             pairSep == ";"
             valueSep == "="
  <2>4. s \in Seq(X) /\ pairSep \in X /\ valueSep \in X /\ ~IsBlank(valueSep)
    BY <2>2, <2>3
  <2> HIDE DEF s, pairSep, valueSep
  <2>5. PairsMatch(s, pairSep, valueSep)
    BY <2>4, PairsOfText, Zenon
  <2> QED
    BY <2>5, Zenon DEF s, pairSep, valueSep
<1>2. Fits => PairsAreTheText
  <2> SUFFICES ASSUME Fits, NEW k \in TokensWith({"Text"})
               PROVE  PairsMatch(Spelling(tokens[k]), ";", "=")
    BY Zenon DEF PairsAreTheText
  <2>1. k \in 1..Len(tokens)
    BY DEF TokensWith
  <2> QED
    BY <1>1, <2>1, Zenon
<1> QED
  BY <1>2, FitsInit, FitsNext, PTL DEF ScannersSpec

-----------------------------------------------------------------------------
(* The values of number tokens: what NumberScanner keeps of its text, and  *)
(* what is read of that.                                                   *)

\* A token's value: the sign, where k is 1, of a number that starts after m,
\* and the text from z to b.
Shape(m, k, z, b) ==
    [i \in 1..(k + (b + 1)) - z |-> IF i <= k THEN m + i ELSE ((z - k) - 1) + i]

\* The same, as a sequence of n places.
IsShape(s, m, k, z, b, n) ==
    /\ s \in Seq(Nat)
    /\ Len(s) = n
    /\ \A i \in 1..n : s[i] = IF i <= k THEN m + i ELSE ((z - k) - 1) + i

\* What is in each place of a shape.
LEMMA ShapeIs ==
    ASSUME NEW m \in Nat, NEW k \in 0..1, NEW z \in Nat, NEW b \in Nat,
           m + (k + 1) <= z, z <= b + 1
    PROVE  IsShape(Shape(m, k, z, b), m, k, z, b, (k + (b + 1)) - z)
<1> DEFINE n == (k + (b + 1)) - z
           E(i) == IF i <= k THEN m + i ELSE ((z - k) - 1) + i
           f == [i \in 1..n |-> E(i)]
<1>1. n \in Nat /\ \A i \in 1..n : E(i) \in Nat
  OBVIOUS
<1>2. Shape(m, k, z, b) = f
  BY DEF Shape
<1>3. \A i \in 1..n : f[i] = E(i)
  OBVIOUS
<1> HIDE DEF n, E
<1>4. f \in [1..n -> Nat]
  BY <1>1
<1> HIDE DEF f
<1>5. f \in Seq(Nat) /\ Len(f) = n
  BY <1>1, <1>4
<1> QED
  BY <1>1, <1>2, <1>3, <1>5 DEF n, E, IsShape

\* One more character of the text.
LEMMA ShapeGrows ==
    ASSUME NEW m \in Nat, NEW k \in 0..1, NEW z \in Nat, NEW b \in Nat,
           m + (k + 1) <= z, z <= b + 1
    PROVE  Append(Shape(m, k, z, b), b + 1) = Shape(m, k, z, b + 1)
<1> DEFINE c == b + 1
           n == (k + (b + 1)) - z
           s == Shape(m, k, z, b)
           t == Shape(m, k, z, c)
           u == Append(s, c)
<1>1. c \in Nat /\ z <= c + 1 /\ (k + (c + 1)) - z = n + 1 /\ n \in Nat
  OBVIOUS
<1>2. /\ s \in Seq(Nat) /\ Len(s) = n
      /\ \A i \in 1..n : s[i] = IF i <= k THEN m + i ELSE ((z - k) - 1) + i
  <2>1. IsShape(s, m, k, z, b, n)
    BY ShapeIs
  <2> HIDE DEF s, n
  <2> QED
    BY <2>1 DEF IsShape
<1>3. /\ t \in Seq(Nat) /\ Len(t) = n + 1
      /\ \A i \in 1..n + 1 : t[i] = IF i <= k THEN m + i ELSE ((z - k) - 1) + i
  <2> DEFINE l == (k + (c + 1)) - z
  <2>1. IsShape(t, m, k, z, c, l)
    <3> HIDE DEF c
    <3> QED
      BY <1>1, ShapeIs
  <2>2. l = n + 1
    BY <1>1
  <2> HIDE DEF l, n, t
  <2> QED
    BY <2>1, <2>2 DEF IsShape
<1>4. n + 1 > k /\ ((z - k) - 1) + (n + 1) = c
  OBVIOUS
<1> HIDE DEF s, t, c
<1>5. u \in Seq(Nat) /\ Len(u) = n + 1 /\ u[n + 1] = c /\ \A i \in 1..n : u[i] = s[i]
  <2> HIDE DEF n
  <2> QED
    BY <1>1, <1>2, AppendProperties
<1> HIDE DEF n, u
<1>6. ASSUME NEW i \in 1..n + 1
      PROVE  u[i] = t[i]
  <2>1. CASE i \in 1..n
    BY <1>2, <1>3, <1>5, <2>1
  <2>2. CASE i \notin 1..n
    <3>1. i = n + 1 /\ ~(i <= k)
      BY <1>1, <1>4, <2>2
    <3> QED
      BY <1>3, <1>4, <1>5, <3>1
  <2> QED
    BY <2>1, <2>2
<1>7. u = t
  BY <1>3, <1>5, <1>6, SeqEqual
<1> QED
  BY <1>7 DEF u, s, t, c

\* One digit less, where there is one.
LEMMA ShapeEmpties ==
    ASSUME NEW m \in Nat, NEW k \in 0..1, NEW b \in Nat, m + (k + 1) <= b
    PROVE  Len(Shape(m, k, b, b)) = k + 1
           /\ Prefix(Shape(m, k, b, b), (k + 1) - 1) = Shape(m, k, b + 1, b)
<1> DEFINE c == b + 1
           s == Shape(m, k, b, b)
           t == Shape(m, k, c, b)
<1>1. c \in Nat /\ m + (k + 1) <= c /\ c <= b + 1 /\ (k + (b + 1)) - c = k /\ (k + (b + 1)) - b = k + 1
      /\ b <= b + 1 /\ k \in Nat
  OBVIOUS
<1>2. /\ s \in Seq(Nat) /\ Len(s) = k + 1
      /\ \A i \in 1..k + 1 : s[i] = IF i <= k THEN m + i ELSE ((b - k) - 1) + i
  <2> DEFINE l == (k + (b + 1)) - b
  <2>1. IsShape(s, m, k, b, b, l)
    BY <1>1, ShapeIs
  <2>2. l = k + 1
    BY <1>1
  <2> HIDE DEF l, s
  <2> QED
    BY <2>1, <2>2 DEF IsShape
<1>3. /\ t \in Seq(Nat) /\ Len(t) = k
      /\ \A i \in 1..k : t[i] = IF i <= k THEN m + i ELSE ((c - k) - 1) + i
  <2> DEFINE l == (k + (b + 1)) - c
  <2>1. l = k
    BY <1>1
  <2> HIDE DEF c
  <2>2. IsShape(t, m, k, c, b, l)
    BY <1>1, ShapeIs
  <2> HIDE DEF l, t
  <2> QED
    BY <2>1, <2>2 DEF IsShape
<1> HIDE DEF s, t, c
<1> DEFINE u == SubSeq(s, 1, k)
<1>4. Prefix(s, (k + 1) - 1) = u
  <2>1. (k + 1) - 1 = k /\ k < k + 1
    OBVIOUS
  <2> QED
    BY <1>2, <2>1 DEF Prefix
<1>5. u \in Seq(Nat) /\ Len(u) = k /\ \A i \in 1..k : u[i] = s[i]
  <2> DEFINE a == 1
  <2>1. /\ a \in Int /\ k \in Int /\ 1 <= a /\ k <= Len(s) /\ a <= k + 1
        /\ (k - a) + 1 = k /\ \A i \in 1..k : (a + i) - 1 = i
    BY <1>1, <1>2
  <2> HIDE DEF a
  <2>2. /\ SubSeq(s, a, k) \in Seq(Nat) /\ Len(SubSeq(s, a, k)) = (k - a) + 1
        /\ \A i \in 1..(k - a) + 1 : SubSeq(s, a, k)[i] = s[(a + i) - 1]
    BY <1>2, <2>1, PartFacts
  <2>3. /\ SubSeq(s, a, k) \in Seq(Nat) /\ Len(SubSeq(s, a, k)) = k
        /\ \A i \in 1..k : SubSeq(s, a, k)[i] = s[i]
    BY <2>1, <2>2
  <2> QED
    BY <2>3 DEF a
<1> HIDE DEF u
<1>6. \A i \in 1..k : u[i] = t[i]
  <2>1. \A i \in 1..k : i \in 1..k + 1 /\ i <= k
    BY <1>1
  <2> QED
    BY <1>2, <1>3, <1>5, <2>1
<1>7. u = t
  BY <1>3, <1>5, <1>6, SeqEqual
<1> QED
  BY <1>2, <1>4, <1>7 DEF s, t, c

\* How many signs the number at the mark has.
Signed == IF text[mark + 1] \in Signs THEN 1 ELSE 0

\* The token's value is its sign and the text from z on: the digits before z,
\* all of them zeroes, were dropped.
Holds(z) ==
    /\ z \in Nat /\ mark + (Signed + 1) <= z /\ z <= pos + 1
    /\ \A i \in mark + (Signed + 1)..z - 1 : text[i] = Zero
    /\ IF tokenString = <<>> THEN z = mark + (Signed + 1)
       ELSE z > mark + (Signed + 1) /\ tokenString = <<Shape(mark, Signed, z, pos)>>

\* A hexadecimal number from its last zero on.
IsPrefixed(z, b) ==
    /\ z + 2 <= b
    /\ text[z] = Zero /\ text[z + 1] = "x"
    /\ \A i \in z + 2..b : text[i] \in HexDigits

\* The value of an integer whose period was given back is whole, or has the
\* period in it.
HoldsPeriod ==
    \E z \in Nat :
        /\ mark + (Signed + 1) < z /\ z <= pos + 1 /\ AreDigits(z, pos)
        /\ text[pos + 1] = Period
        /\ tokenString = <<Shape(mark, Signed, z, pos + 1)>>

\* What the token's value is where NumberScanner is.
ValueSoFar ==
    /\ at = "start" => pos = mark /\ tokenString = <<>>
    /\ at = "sign" => pos = mark + 1 /\ tokenString = <<>> /\ text[mark + 1] \in Signs
    /\ at = "zero" /\ memo = "chopped" => Holds(pos + 1) /\ Peek \in Digits
    /\ at = "zero" /\ memo # "chopped" => Holds(pos) /\ text[pos] = Zero
    /\ at = "number" => \E z : Holds(z) /\ AreDigits(z, pos)
    /\ at = "period" => text[pos] = Period /\ \E z : Holds(z) /\ z <= pos /\ AreDigits(z, pos - 1)
    /\ at = "integer" => (\E z : Holds(z) /\ AreDigits(z, pos)) \/ HoldsPeriod
    /\ at = "hexStart" => Holds(pos - 1) /\ text[pos - 1] = Zero /\ text[pos] = "x"
    /\ at = "hex" => \E z : Holds(z) /\ IsPrefixed(z, pos)

\* In the middle of a number the token string is what ValueSoFar says.
ValueInv == Doing("number") /\ at # "returned" => ValueSoFar

\* There is a sign or there is none.
LEMMA SignedIs == Signed \in 0..1
BY DEF Signed

\* The value of the token.
LEMMA HoldsIs ==
    ASSUME Unlocked, NEW z, Holds(z)
    PROVE  CurrentToken = Shape(mark, Signed, z, pos)
<1>1. mark \in Nat /\ pos \in Nat /\ Signed \in 0..1
  BY WindowIs, SignedIs
<1>2. CASE tokenString = <<>>
  <2>1. CurrentToken = [i \in 1..(pos - mark) |-> mark + i]
    BY <1>2 DEF CurrentToken, Scanned
  <2>2. z = mark + (Signed + 1)
    BY <1>2 DEF Holds
  <2> DEFINE k == Signed
             E(i) == IF i <= k THEN mark + i ELSE ((z - k) - 1) + i
             n == (k + (pos + 1)) - z
  <2>3. n = pos - mark /\ \A i \in 1..n : E(i) = mark + i
    BY <1>1, <2>2
  <2>4. Shape(mark, k, z, pos) = [i \in 1..n |-> E(i)]
    BY DEF Shape
  <2> HIDE DEF E, n, k
  <2>5. [i \in 1..n |-> E(i)] = [i \in 1..(pos - mark) |-> mark + i]
    BY <2>3
  <2> QED
    BY <2>1, <2>4, <2>5 DEF k
<1>3. CASE tokenString # <<>>
  BY <1>3 DEF Holds, CurrentToken
<1> QED
  BY <1>2, <1>3

\* What stands in the text stays while text and mark do.
LEMMA SameShapes ==
    ASSUME text' = text, mark' = mark
    PROVE  /\ Signed' = Signed
           /\ \A a, b : AreDigits(a, b)' <=> AreDigits(a, b)
           /\ \A a, b : IsPrefixed(a, b)' <=> IsPrefixed(a, b)
BY DEF Signed, AreDigits, IsPrefixed

\* A character goes on with it.
LEMMA HoldsGrows ==
    ASSUME Unlocked, NEW z, Holds(z), Push, ~AtEnd
    PROVE  Holds(z)'
<1>1. mark \in Nat /\ pos \in Nat /\ Signed \in 0..1 /\ z \in Nat
  BY WindowIs, SignedIs DEF Holds
<1>2. text' = text /\ mark' = mark /\ pos' = pos + 1
  BY DEF Push, SkipOne
<1>3. Signed' = Signed
  BY <1>2, SameShapes
<1>4. /\ mark + (Signed + 1) <= z /\ z <= pos + 1 /\ z <= pos' + 1
      /\ \A i \in mark + (Signed + 1)..z - 1 : text[i] = Zero
  BY <1>1, <1>2 DEF Holds
<1>5. CASE tokenString = <<>>
  <2>1. tokenString' = <<>> /\ z = mark + (Signed + 1)
    BY <1>5 DEF Push, Holds
  <2> QED
    BY <1>1, <1>2, <1>3, <1>4, <2>1 DEF Holds
<1>6. CASE tokenString # <<>>
  <2>1. tokenString = <<Shape(mark, Signed, z, pos)>> /\ z > mark + (Signed + 1)
    BY <1>6 DEF Holds
  <2>2. tokenString[1] = Shape(mark, Signed, z, pos)
    BY <2>1
  <2>3. tokenString' = <<Append(Shape(mark, Signed, z, pos), pos + 1)>>
    BY <1>6, <2>2 DEF Push
  <2>4. Append(Shape(mark, Signed, z, pos), pos + 1) = Shape(mark, Signed, z, pos + 1)
    BY <1>1, <1>4, ShapeGrows
  <2>5. tokenString' = <<Shape(mark', Signed', z, pos')>>
    BY <1>2, <1>3, <2>3, <2>4
  <2>6. tokenString' # <<>>
    BY <2>5
  <2> QED
    BY <1>1, <1>2, <1>3, <1>4, <2>1, <2>5, <2>6 DEF Holds
<1> QED
  BY <1>5, <1>6

\* A zero is dropped.
LEMMA HoldsChops ==
    ASSUME Unlocked, Holds(pos), text[pos] = Zero, Chop(1)
    PROVE  Holds(pos + 1)'
<1>1. mark \in Nat /\ pos \in Nat /\ Signed \in 0..1
  BY WindowIs, SignedIs
<1>2. text' = text /\ mark' = mark /\ pos' = pos
  BY DEF Chop
<1>3. Signed' = Signed
  BY <1>2, SameShapes
<1>4. mark + (Signed + 1) <= pos /\ \A i \in mark + (Signed + 1)..pos - 1 : text[i] = Zero
  BY DEF Holds
<1>5. \A i \in mark + (Signed + 1)..(pos + 1) - 1 : text[i] = Zero
  <2>1. \A i \in mark + (Signed + 1)..(pos + 1) - 1 :
           i \in mark + (Signed + 1)..pos - 1 \/ i = pos
    BY <1>1
  <2> QED
    BY <1>4, <2>1
<1>6. CurrentToken = Shape(mark, Signed, pos, pos)
  <2> DEFINE z == pos
  <2>1. Holds(z)
    OBVIOUS
  <2> HIDE DEF z
  <2>2. CurrentToken = Shape(mark, Signed, z, pos)
    BY <2>1, HoldsIs
  <2> QED
    BY <2>2 DEF z
<1>7. /\ Len(CurrentToken) = Signed + 1
      /\ Prefix(CurrentToken, (Signed + 1) - 1) = Shape(mark, Signed, pos + 1, pos)
  BY <1>1, <1>4, <1>6, ShapeEmpties
<1>8. tokenString' = <<Shape(mark, Signed, pos + 1, pos)>>
  <2>1. ~(1 > Signed + 1) /\ Signed + 1 \in Nat
    BY <1>1
  <2>2. tokenString' = <<Prefix(CurrentToken, Len(CurrentToken)
                           - (IF 1 > Len(CurrentToken) THEN Len(CurrentToken) ELSE 1))>>
    BY DEF Chop
  <2> QED
    BY <1>7, <2>1, <2>2
<1>9. tokenString' # <<>> /\ pos + 1 \in Nat /\ pos + 1 > mark + (Signed + 1)
  BY <1>1, <1>4, <1>8
<1> QED
  BY <1>1, <1>2, <1>3, <1>5, <1>8, <1>9 DEF Holds

\* A digit after a zero is a move of its own.
LEMMA ZeroMoves ==
    ASSUME NEW move \in NumberMoves, move[1] = "zero", NEW ch \in move[2], ch \in Digits
    PROVE  move[2] \in {{Zero}, NonZero}
<1>1. PICK place, chars, next, feature : move = <<place, chars, next, feature>>
  BY Zenon DEF NumberMoves
<1>2. move[1] = place /\ move[2] = chars
  BY <1>1
<1>3. <<"zero", chars, next, feature>> \in NumberMoves
  BY <1>1, <1>2
<1>4. chars \in {{Zero}, NonZero, {Period}, {"x"}}
  BY <1>3, ZenonT(30) DEF NumberMoves
<1>5. Period \notin Digits /\ "x" \notin Digits
  BY NumberChars
<1> QED
  BY <1>2, <1>4, <1>5

\* The digits of a number start with the next character.
LEMMA HoldsStarts ==
    ASSUME Unlocked, tokenString = <<>>, pos = mark + Signed
    PROVE  Holds(pos + 1)
<1>1. mark \in Nat /\ pos \in Nat /\ Signed \in 0..1
  BY WindowIs, SignedIs
<1>2. pos + 1 \in Nat /\ pos + 1 = mark + (Signed + 1) /\ pos + 1 <= pos + 1
  BY <1>1
<1>3. \A i \in mark + (Signed + 1)..(pos + 1) - 1 : FALSE
  BY <1>1
<1> QED
  BY <1>2, <1>3 DEF Holds

\* NumberScanner puts a character into the token.
LEMMA ValuePushes ==
    ASSUME Unlocked, ValueSoFar, Push, ~AtEnd, memo' = "none", Goes(at, Peek, at'),
           at = "zero" /\ Peek \in Digits => memo = "chopped"
    PROVE  ValueSoFar'
<1>1. /\ text' = text /\ mark' = mark /\ pos' = pos + 1 /\ Peek = text[pos + 1]
      /\ pos \in Nat /\ mark \in Nat /\ Signed \in 0..1
  BY WindowIs, SignedIs DEF Push, SkipOne
<1>2. /\ Signed' = Signed
      /\ \A a, b : AreDigits(a, b)' <=> AreDigits(a, b)
      /\ \A a, b : IsPrefixed(a, b)' <=> IsPrefixed(a, b)
  BY <1>1, SameShapes
<1>3. PICK next : next = pos + 1
  OBVIOUS
<1>4. next \in Nat /\ next = pos' /\ next - 1 = pos
  BY <1>1, <1>3
<1>5. ASSUME NEW z, Holds(z) PROVE Holds(z)' /\ z \in Nat /\ z <= next
  BY <1>3, <1>5, HoldsGrows DEF Holds
<1>6. ASSUME at' \in {"zero", "number"}, at # "number"
      PROVE  Holds(next) /\ text[next] = Peek /\ Peek \in Digits
             /\ (at' = "zero" => Peek = Zero)
  <2>1. at \in {"start", "sign", "zero"} /\ Peek \in Digits /\ (at' = "zero" => Peek = Zero)
        /\ Peek \notin Signs
    BY <1>6, NumberChars DEF Goes
  <2>2. CASE at = "start"
    <3>1. pos = mark /\ tokenString = <<>>
      BY <2>2 DEF ValueSoFar
    <3>2. Signed = 0
      BY <1>1, <2>1, <3>1 DEF Signed
    <3>3. pos = mark + Signed
      BY <1>1, <3>1, <3>2
    <3> QED
      BY <1>1, <1>3, <2>1, <3>1, <3>3, HoldsStarts
  <2>3. CASE at = "sign"
    <3>1. pos = mark + 1 /\ tokenString = <<>> /\ Signed = 1
      BY <2>3 DEF ValueSoFar, Signed
    <3>2. pos = mark + Signed
      BY <1>1, <3>1
    <3> QED
      BY <1>1, <1>3, <2>1, <3>1, <3>2, HoldsStarts
  <2>4. CASE at = "zero"
    BY <1>1, <1>3, <2>1, <2>4 DEF ValueSoFar
  <2> QED
    BY <2>1, <2>2, <2>3, <2>4
<1>7. at' = "sign" => pos' = mark' + 1 /\ tokenString' = <<>> /\ text'[mark' + 1] \in Signs
  <2>1. ASSUME at' = "sign" PROVE at = "start" /\ Peek \in Signs
    BY <2>1 DEF Goes
  <2> QED
    BY <1>1, <2>1 DEF ValueSoFar, Push
<1>8. at' = "zero" => Holds(pos)' /\ text'[pos'] = Zero
  <2> SUFFICES ASSUME at' = "zero" PROVE Holds(pos)' /\ text'[pos'] = Zero
    OBVIOUS
  <2>1. at # "number"
    BY DEF Goes
  <2>2. Holds(next) /\ text[next] = Zero
    BY <1>6, <2>1
  <2>3. Holds(next)'
    BY <1>5, <2>2
  <2>4. Holds(next)' => Holds(pos)'
    BY <1>4
  <2> QED
    BY <1>1, <1>4, <2>2, <2>3, <2>4
<1>9. at' = "number" => \E z : Holds(z)' /\ AreDigits(z, pos)'
  <2> SUFFICES ASSUME at' = "number" PROVE \E z : Holds(z)' /\ AreDigits(z, next)
    BY <1>2, <1>4
  <2>1. CASE at # "number"
    <3>1. Holds(next) /\ text[next] \in Digits
      BY <1>6, <2>1
    <3>2. AreDigits(next, next)
      <4>1. \A i \in next..next : i = next
        BY <1>4
      <4> QED
        BY <3>1, <4>1 DEF AreDigits
    <3> QED
      BY <1>5, <3>1, <3>2
  <2>2. CASE at = "number"
    <3>1. PICK z : Holds(z) /\ AreDigits(z, pos)
      BY <2>2 DEF ValueSoFar
    <3>2. Peek \in Digits
      BY <2>2 DEF Goes
    <3>3. AreDigits(z, pos + 1)
      <4>1. z \in Nat /\ text[pos + 1] \in Digits
        BY <1>1, <1>5, <3>1, <3>2
      <4> QED
        BY <1>1, <3>1, <4>1, DigitsGrow
    <3> QED
      BY <1>3, <1>5, <3>1, <3>3
  <2> QED
    BY <2>1, <2>2
<1>10. at' = "period" =>
          text'[pos'] = Period /\ \E z : Holds(z)' /\ z <= pos' /\ AreDigits(z, pos - 1)'
  <2> SUFFICES ASSUME at' = "period"
               PROVE  text[next] = Period /\ \E z : Holds(z)' /\ z <= next /\ AreDigits(z, pos)
    <3>1. ASSUME NEW z
          PROVE  AreDigits(z, pos - 1)' <=> AreDigits(z, pos)
      <4>1. AreDigits(z, next - 1)' <=> AreDigits(z, next - 1)
        BY <1>2
      <4> QED
        BY <1>4, <4>1
    <3> QED
      BY <1>1, <1>4, <3>1
  <2>1. Peek = Period /\ at \in {"sign", "zero", "number"} /\ Peek \notin Digits
    BY NumberChars DEF Goes
  <2>2. text[next] = Period
    BY <1>1, <1>3, <2>1
  <2>3. CASE at = "sign"
    <3>1. pos = mark + 1 /\ tokenString = <<>> /\ Signed = 1
      BY <2>3 DEF ValueSoFar, Signed
    <3>2. pos = mark + Signed
      BY <1>1, <3>1
    <3>3. Holds(next)
      BY <1>3, <3>1, <3>2, HoldsStarts
    <3>4. AreDigits(next, pos)
      <4>1. \A i \in next..pos : FALSE
        BY <1>1, <1>3
      <4> QED
        BY <4>1 DEF AreDigits
    <3> QED
      BY <1>5, <2>2, <3>3, <3>4
  <2>4. CASE at = "zero"
    <3>1. Holds(pos) /\ text[pos] = Zero
      BY <2>1, <2>4 DEF ValueSoFar
    <3>2. PICK z : z = pos
      OBVIOUS
    <3>3. Holds(z)
      BY <3>1, <3>2
    <3>4. AreDigits(z, pos)
      <4>1. \A i \in z..pos : i = pos
        BY <1>1, <3>2
      <4> QED
        BY <3>1, <4>1, NumberChars DEF AreDigits
    <3> QED
      BY <1>5, <2>2, <3>3, <3>4
  <2>5. CASE at = "number"
    <3>1. PICK z : Holds(z) /\ AreDigits(z, pos)
      BY <2>5 DEF ValueSoFar
    <3> QED
      BY <1>5, <2>2, <3>1
  <2> QED
    BY <2>1, <2>3, <2>4, <2>5
<1>11. at' = "hexStart" => Holds(pos - 1)' /\ text'[pos' - 1] = Zero /\ text'[pos'] = "x"
  <2> SUFFICES ASSUME at' = "hexStart"
               PROVE  Holds(pos - 1)' /\ text'[pos' - 1] = Zero /\ text'[pos'] = "x"
    OBVIOUS
  <2>1. Peek = "x" /\ at = "zero" /\ Peek \notin Digits
    BY NumberChars DEF Goes
  <2>2. Holds(pos) /\ text[pos] = Zero
    BY <2>1 DEF ValueSoFar
  <2>3. PICK z : z = pos
    OBVIOUS
  <2>4. Holds(z)'
    BY <1>5, <2>2, <2>3
  <2>5. pos' - 1 = z
    BY <1>1, <2>3
  <2>6. Holds(z)' => Holds(pos - 1)'
    BY <2>5
  <2> QED
    BY <1>1, <2>1, <2>2, <2>3, <2>4, <2>5, <2>6
<1>12. at' = "hex" => \E z : Holds(z)' /\ IsPrefixed(z, pos)'
  <2> SUFFICES ASSUME at' = "hex" PROVE \E z : Holds(z)' /\ IsPrefixed(z, next)
    BY <1>2, <1>4
  <2>1. Peek \in HexDigits /\ at \in {"hexStart", "hex"} /\ text[next] \in HexDigits
    BY <1>1, <1>3 DEF Goes
  <2>2. CASE at = "hexStart"
    <3>1. Holds(pos - 1) /\ text[pos - 1] = Zero /\ text[pos] = "x"
      BY <2>2 DEF ValueSoFar
    <3>2. PICK z : z = pos - 1
      OBVIOUS
    <3>3. Holds(z) /\ text[z] = Zero
      BY <3>1, <3>2
    <3>4. z + 1 = pos /\ z + 2 = next /\ z + 2 <= next /\ \A i \in z + 2..next : i = next
      BY <1>1, <1>3, <3>2
    <3>5. IsPrefixed(z, next)
      BY <2>1, <3>1, <3>3, <3>4 DEF IsPrefixed
    <3> QED
      BY <1>5, <3>3, <3>5
  <2>3. CASE at = "hex"
    <3>1. PICK z : Holds(z) /\ IsPrefixed(z, pos)
      BY <2>3 DEF ValueSoFar
    <3>2. z \in Nat
      BY <1>5, <3>1
    <3>3. z + 2 <= pos => z + 2 <= next /\ \A i \in z + 2..next : i \in z + 2..pos \/ i = next
      BY <1>1, <1>3, <3>2
    <3>4. IsPrefixed(z, next)
      BY <2>1, <3>1, <3>3 DEF IsPrefixed
    <3> QED
      BY <1>5, <3>1, <3>4
  <2> QED
    BY <2>1, <2>2, <2>3
<1>13. at' # "start" /\ at' # "integer" /\ memo' # "chopped"
  BY DEF Goes
<1> QED
  BY <1>7, <1>8, <1>9, <1>10, <1>11, <1>12, <1>13 DEF ValueSoFar

\* A prefix as long as the sequence is the sequence.
LEMMA PrefixIsWhole ==
    ASSUME NEW X, NEW s \in Seq(X), NEW n \in Int, Len(s) <= n
    PROVE  Prefix(s, n) = s
<1> DEFINE l == Len(s)
           u == SubSeq(s, 1, l)
<1>1. l \in Nat
  BY LenProperties
<1>2. Prefix(s, n) = u
  <2>1. ~(n < l) \/ n = l
    BY <1>1
  <2> QED
    BY <2>1 DEF Prefix
<1>3. u \in Seq(X) /\ Len(u) = l /\ \A i \in 1..l : u[i] = s[i]
  <2> DEFINE a == 1
  <2>1. /\ a \in Int /\ l \in Int /\ 1 <= a /\ l <= Len(s) /\ a <= l + 1
        /\ (l - a) + 1 = l /\ \A i \in 1..l : (a + i) - 1 = i
    BY <1>1
  <2> HIDE DEF a, l
  <2>2. /\ SubSeq(s, a, l) \in Seq(X) /\ Len(SubSeq(s, a, l)) = (l - a) + 1
        /\ \A i \in 1..(l - a) + 1 : SubSeq(s, a, l)[i] = s[(a + i) - 1]
    BY <2>1, PartFacts
  <2>3. /\ SubSeq(s, a, l) \in Seq(X) /\ Len(SubSeq(s, a, l)) = l
        /\ \A i \in 1..l : SubSeq(s, a, l)[i] = s[i]
    BY <2>1, <2>2
  <2> QED
    BY <2>3 DEF a
<1> HIDE DEF u
<1>4. u = s
  BY <1>3, SeqEqual
<1> QED
  BY <1>2, <1>4

\* NumberScanner gives the period back: a token that lost zeroes keeps it.
LEMMA ValueDrops ==
    ASSUME Unlocked, ValueSoFar, at = "period", pos > mark + 1, PartialRewind(1), at' = "integer"
    PROVE  ValueSoFar'
<1>1. mark \in Nat /\ pos \in Nat /\ Signed \in 0..1
  BY WindowIs, SignedIs
<1>2. text' = text /\ mark' = mark
  BY DEF PartialRewind
<1>3. pos' = pos - 1
      /\ tokenString' = IF tokenString = <<>> THEN <<>>
                        ELSE <<Prefix(tokenString[1], (pos - mark) - 1)>>
  <2>1. ~(1 > pos - mark)
    BY <1>1
  <2> QED
    BY <2>1, Zenon DEF PartialRewind
<1>4. pos' \in Nat /\ pos' + 1 = pos
  BY <1>1, <1>3
<1>5. /\ Signed' = Signed /\ \A a, b : AreDigits(a, b)' <=> AreDigits(a, b)
  BY <1>2, SameShapes
<1>6. PICK z : Holds(z) /\ z <= pos /\ AreDigits(z, pos - 1) /\ text[pos] = Period
  BY DEF ValueSoFar
<1>7. z \in Nat /\ AreDigits(z, pos)'
  <2>1. AreDigits(z, pos')
    BY <1>3, <1>6
  <2>2. AreDigits(z, pos)' <=> AreDigits(z, pos')
    BY <1>2 DEF AreDigits
  <2> QED
    BY <1>6, <2>1, <2>2 DEF Holds
<1>8. CASE tokenString = <<>>
  <2>1. tokenString' = <<>> /\ z = mark + (Signed + 1)
    BY <1>3, <1>6, <1>8 DEF Holds
  <2>2. Holds(z)'
    BY <1>2, <1>4, <1>5, <1>6, <2>1 DEF Holds
  <2> QED
    BY <1>7, <2>2 DEF ValueSoFar
<1>9. CASE tokenString # <<>>
  <2> DEFINE s == Shape(mark, Signed, z, pos)
  <2>1. z > mark + (Signed + 1) /\ tokenString = <<s>>
    BY <1>6, <1>9 DEF Holds
  <2>2. s \in Seq(Nat) /\ Len(s) <= (pos - mark) - 1
    <3> DEFINE n == (Signed + (pos + 1)) - z
    <3>1. mark + (Signed + 1) <= z /\ z <= pos + 1 /\ n <= (pos - mark) - 1
      BY <1>1, <1>6, <1>7, <2>1
    <3>2. IsShape(s, mark, Signed, z, pos, n)
      BY <1>1, <1>7, <3>1, ShapeIs
    <3> HIDE DEF n, s
    <3> QED
      BY <3>1, <3>2 DEF IsShape
  <2>3. (pos - mark) - 1 \in Int
    BY <1>1
  <2> HIDE DEF s
  <2>4. Prefix(s, (pos - mark) - 1) = s
    BY <2>2, <2>3, PrefixIsWhole
  <2>5. tokenString[1] = s
    BY <2>1
  <2>6. tokenString' = <<s>>
    BY <1>3, <1>9, <2>4, <2>5
  <2>7. tokenString' = <<Shape(mark', Signed', z, pos' + 1)>>
    BY <1>2, <1>4, <1>5, <2>6 DEF s
  <2>8. mark' + (Signed' + 1) < z /\ z <= pos' + 1 /\ text'[pos' + 1] = Period
    BY <1>1, <1>2, <1>4, <1>5, <1>6, <2>1
  <2>9. HoldsPeriod'
    BY <1>7, <2>7, <2>8 DEF HoldsPeriod
  <2> QED
    BY <2>9 DEF ValueSoFar
<1> QED
  BY <1>8, <1>9

\* A call of NumberScanner keeps ValueInv.
LEMMA ValueStep ==
    ASSUME NumbersAreComplete, Unlocked, ValueInv, Number, UNCHANGED commentVars
    PROVE  ValueInv'
<1>1. UNCHANGED <<pc, current, setup>> /\ Doing("number") /\ Matching
  BY NumberFits DEF Doing
<1>2. CASE NumberMovesOn
  <2>1. PICK place \in NumberStates, move \in NumberMoves :
            /\ Running("number", place)
            /\ move \in MovesOf(place)
            /\ IF Chops(place, move) /\ memo # "chopped"
               THEN Edits(Chop(1), place) /\ memo' = "chopped"
               ELSE Edits(Push, move[3]) /\ memo' = "none"
    BY <1>2 DEF NumberMovesOn
  <2>2. /\ place = at /\ move[1] = at /\ Peek \in move[2]
        /\ move[4] \in setup.number \union {""}
    BY <2>1 DEF MovesOf, Running
  <2>3. move[4] # "dollarHex"
    BY <1>1, <2>2, NumberFeatures
  <2>4. Goes(at, Peek, move[3]) /\ (Chops(at, move) => at = "zero" /\ Peek \in Digits)
    <3>1. Goes(move[1], Peek, move[3])
          /\ (move[1] = "zero" /\ move[2] \in {{Zero}, NonZero} => Peek \in Digits)
      BY <2>2, <2>3, MoveIs
    <3> QED
      BY <2>2, <3>1 DEF Chops
  <2>5. at = "zero" /\ Peek \in Digits => Chops(at, move)
    BY <2>2, ZeroMoves DEF Chops
  <2>6. ~AtEnd
    BY <2>2, MoveFacts, WindowIs
  <2>7. at # "returned"
    BY <2>4 DEF Goes
  <2>8. ValueSoFar
    BY <1>1, <2>7 DEF ValueInv
  <2>9. CASE Edits(Chop(1), place) /\ memo' = "chopped" /\ Chops(place, move) /\ memo # "chopped"
    <3>1. at = "zero" /\ at' = "zero" /\ Peek \in Digits
      BY <2>2, <2>4, <2>9 DEF Edits
    <3>2. Chop(1) /\ Peek' = Peek /\ pos' = pos
      BY <2>9 DEF Edits, Chop, Peek, AtEnd
    <3>3. Holds(pos) /\ text[pos] = Zero
      BY <2>8, <2>9, <3>1 DEF ValueSoFar
    <3>4. Holds(pos + 1)'
      BY <3>2, <3>3, HoldsChops
    <3> QED
      BY <2>9, <3>1, <3>2, <3>4 DEF ValueSoFar, ValueInv
  <2>10. CASE Edits(Push, move[3]) /\ memo' = "none" /\ ~(Chops(place, move) /\ memo # "chopped")
    <3>1. Push /\ at' = move[3]
      BY <2>10 DEF Edits
    <3>2. at = "zero" /\ Peek \in Digits => memo = "chopped"
      BY <2>2, <2>5, <2>10
    <3>3. ValueSoFar'
      BY <2>4, <2>6, <2>8, <2>10, <3>1, <3>2, ValuePushes
    <3> QED
      BY <3>3 DEF ValueInv
  <2> QED
    BY <2>1, <2>9, <2>10
<1>3. CASE NumberDropsPeriod
  <2>1. at = "period" /\ PartialRewind(1) /\ at' = "integer"
    BY <1>3 DEF NumberDropsPeriod, Running, Edits
  <2>2. pos > mark + 1
    BY <1>1, <2>1 DEF Unlocked, WindowInv
  <2>3. ValueSoFar
    BY <1>1, <2>1 DEF ValueInv
  <2>4. ValueSoFar'
    BY <2>1, <2>2, <2>3, ValueDrops
  <2> QED
    BY <2>4 DEF ValueInv
<1>4. CASE NumberEnds
  <2>1. at' = "returned"
    BY <1>4 DEF NumberEnds, AcceptToken, AcceptError, Accepts, Returns, GoesTo
  <2> QED
    BY <2>1 DEF ValueInv
<1> QED
  BY <1>2, <1>3, <1>4 DEF Number

\* Every step keeps ValueInv.
LEMMA ValueInvNext ==
    ASSUME NumbersAreComplete, Fits, ValueInv, [ScannersNext]_<<vars, scannerVars>>
    PROVE  ValueInv'
<1>1. Unlocked /\ UNCHANGED <<text, setup>>
  BY TokensStay DEF Fits, Unlocked
<1>2. CASE (Whitespace \/ QString \/ Keyword \/ Identifier \/ PlainText) /\ UNCHANGED commentVars
  <2>1. /\ UNCHANGED <<pc, current>>
        /\ \E name \in {"whitespace", "qstring", "keyword", "identifier", "plaintext"} :
              Doing(name)
    BY <1>1, <1>2, WhitespaceFits, QStringFits, KeywordFits, IdentifierFits, PlainTextFits
  <2>2. ~Doing("number")'
    BY <1>1, <2>1 DEF Doing, Matching
  <2> QED
    BY <2>2 DEF ValueInv
<1>3. CASE CommentNext
  <2>1. Doing("comment") /\ UNCHANGED <<pc, current>>
    BY <1>3, CommentDoes
  <2>2. ~Doing("number")'
    BY <1>1, <2>1 DEF Doing, Matching
  <2> QED
    BY <2>2 DEF ValueInv
<1>4. CASE Number /\ UNCHANGED commentVars
  BY <1>1, <1>4, ValueStep
<1>5. CASE Driver
  <2>1. SUFFICES ASSUME Matching' PROVE ValueSoFar'
    BY DEF ValueInv, Doing
  <2>2. at' = "start" /\ pos' = mark'
    BY <1>5, <2>1, Offered
  <2>3. tokenString' = <<>>
    BY <1>5, <2>1
    DEF Driver, StartRound, MatchEnds, CatchAll, EndRound, OfferAfter, Offer, RewindTo, Matching
  <2> QED
    BY <2>2, <2>3 DEF ValueSoFar
<1>6. CASE UNCHANGED <<vars, scannerVars>>
  <2>1. UNCHANGED <<text, pos, mark, tokenString, setup, at, memo, pc, current>>
    BY <1>6 DEF vars, bufferVars, driverVars, scannerVars, matchVars
  <2>2. (Doing("number")' <=> Doing("number")) /\ Peek' = Peek
    BY <2>1 DEF Doing, Matching, Peek, AtEnd
  <2>3. /\ Signed' = Signed
        /\ \A a, b : AreDigits(a, b)' <=> AreDigits(a, b)
        /\ \A a, b : IsPrefixed(a, b)' <=> IsPrefixed(a, b)
    BY <2>1, SameShapes
  <2>4. \A z : Holds(z)' <=> Holds(z)
    BY <2>1, <2>3 DEF Holds
  <2>5. Holds(pos + 1)' <=> Holds(pos + 1)
    BY <2>1, <2>3 DEF Holds
  <2>6. Holds(pos)' <=> Holds(pos)
    BY <2>1, <2>3 DEF Holds
  <2>7. Holds(pos - 1)' <=> Holds(pos - 1)
    BY <2>1, <2>3 DEF Holds
  <2>8. HoldsPeriod' <=> HoldsPeriod
    BY <2>1, <2>3 DEF HoldsPeriod, AreDigits
  <2>9. /\ \A z : AreDigits(z, pos)' <=> AreDigits(z, pos)
        /\ \A z : AreDigits(z, pos - 1)' <=> AreDigits(z, pos - 1)
        /\ \A z : IsPrefixed(z, pos)' <=> IsPrefixed(z, pos)
    BY <2>1 DEF AreDigits, IsPrefixed
  <2>10. ValueSoFar' <=> ValueSoFar
    BY <2>1, <2>2, <2>4, <2>5, <2>6, <2>7, <2>8, <2>9 DEF ValueSoFar
  <2> QED
    BY <2>1, <2>2, <2>10 DEF ValueInv
<1> QED
  BY <1>2, <1>3, <1>4, <1>5, <1>6 DEF ScannersNext, Scanner

\* What is the value of a number from a to b with k signs.
ValueAs(code, value, a, k, b) ==
    /\ code = "Integer" =>
          \E z \in Nat :
             \/ /\ a + k <= z /\ z <= b + 1 /\ AreDigits(z, b)
                /\ \A i \in a + k..z - 1 : text[i] = Zero
                /\ value = Shape(a - 1, k, z, b)
             \/ /\ a + k <= z /\ z <= b + 1 /\ AreDigits(z, b)
                /\ text[b + 1] = Period
                /\ value = Shape(a - 1, k, z, b + 1)
    /\ code = "HexNumber" =>
          \E z \in Nat :
             /\ a + k <= z /\ IsPrefixed(z, b)
             /\ \A i \in a + k..z - 1 : text[i] = Zero
             /\ value = Shape(a - 1, k, z, b)

\* The number of signs at a.
SignsAt(a) == IF text[a] \in Signs THEN 1 ELSE 0

\* The value of token k is what was read of it.
ValueAt(k) ==
    ValueAs(tokens[k].code, tokens[k].value, First(tokens[k]), SignsAt(First(tokens[k])),
            Last(tokens[k]))

\* ValueAt for every number token.
ValuesInv == \A k \in TokensWith({"Integer", "HexNumber"}) : ValueAt(k)

\* The value of a number that NumberScanner accepts.
LEMMA ValueIsKept ==
    ASSUME NumbersAreComplete, Fits, ValueInv, Number, UNCHANGED text,
           NEW k \in 1..Len(tokens'), k \notin 1..Len(tokens),
           tokens'[k].code \in {"Integer", "HexNumber"}
    PROVE  ValueAt(k)'
<1>1. Unlocked
  BY DEF Fits, Unlocked
<1>2. mark \in Nat /\ pos \in Nat /\ Signed \in 0..1
  BY <1>1, WindowIs, SignedIs
<1>3. PICK place, code : /\ Running("number", place) /\ AcceptTo(pos, code, CurrentToken)
                         /\ \/ place = "integer" /\ code = "Integer"
                            \/ /\ MovesOf(place) = {}
                               /\ \/ place \in {"zero", "number"} /\ code = "Integer"
                                  \/ place \in {"float", "expDigits"} /\ code = "Float"
                                  \/ place = "hex" /\ code = "HexNumber"
  BY NumberAccepts
<1>4. /\ First(tokens'[k]) = mark + 1 /\ Last(tokens'[k]) = pos /\ tokens'[k].code = code
      /\ tokens'[k].value = CurrentToken
  BY <1>3, AcceptedIs DEF Fits
<1>5. at = place /\ Doing("number") /\ ValueSoFar
  BY <1>3 DEF Running, Doing, ValueInv
<1>6. ASSUME NEW z, Holds(z)
      PROVE  /\ z \in Nat /\ (mark + 1) + Signed <= z /\ z <= pos + 1
             /\ \A i \in (mark + 1) + Signed..z - 1 : text[i] = Zero
             /\ CurrentToken = Shape((mark + 1) - 1, Signed, z, pos)
  <2>1. CurrentToken = Shape(mark, Signed, z, pos)
    BY <1>1, <1>6, HoldsIs
  <2>2. (mark + 1) + Signed = mark + (Signed + 1) /\ (mark + 1) - 1 = mark
    BY <1>2
  <2> QED
    BY <1>6, <2>1, <2>2 DEF Holds
<1>7. ValueAs(code, CurrentToken, mark + 1, Signed, pos)
  <2>1. ASSUME NEW z, Holds(z), AreDigits(z, pos), code = "Integer"
        PROVE  ValueAs(code, CurrentToken, mark + 1, Signed, pos)
    BY <1>6, <2>1 DEF ValueAs
  <2>2. CASE place = "integer"
    <3>1. CASE \E z : Holds(z) /\ AreDigits(z, pos)
      BY <1>3, <2>1, <2>2, <3>1
    <3>2. CASE HoldsPeriod
      <4>1. PICK z \in Nat :
              /\ mark + (Signed + 1) < z /\ z <= pos + 1 /\ AreDigits(z, pos)
              /\ text[pos + 1] = Period
              /\ tokenString = <<Shape(mark, Signed, z, pos + 1)>>
        BY <3>2 DEF HoldsPeriod
      <4>2. CurrentToken = Shape((mark + 1) - 1, Signed, z, pos + 1)
        <5>1. CurrentToken = Shape(mark, Signed, z, pos + 1)
          BY <4>1 DEF CurrentToken
        <5> QED
          BY <1>2, <5>1
      <4>3. (mark + 1) + Signed <= z
        BY <1>2, <4>1
      <4> QED
        BY <1>3, <2>2, <4>1, <4>2, <4>3 DEF ValueAs
    <3> QED
      BY <1>5, <2>2, <3>1, <3>2 DEF ValueSoFar
  <2>3. CASE place = "zero" /\ MovesOf(place) = {}
    <3>1. Peek \notin Digits
      <4>1. {"scientific", "hex", "fractions"} \subseteq setup.number
        BY <1>1, <1>5, NumberFeatures
      <4> QED
        BY <2>3, <4>1, NoMoves
    <3>2. Holds(pos) /\ text[pos] = Zero
      BY <1>5, <2>3, <3>1 DEF ValueSoFar
    <3>3. AreDigits(pos, pos)
      <4>1. \A i \in pos..pos : i = pos
        BY <1>2
      <4> QED
        BY <3>2, <4>1, NumberChars DEF AreDigits
    <3>4. code = "Integer"
      BY <1>3, <2>3
    <3>5. PICK z : z = pos
      OBVIOUS
    <3>6. Holds(z) /\ AreDigits(z, pos)
      BY <3>2, <3>3, <3>5
    <3> QED
      BY <2>1, <3>4, <3>6
  <2>4. CASE place = "number"
    BY <1>3, <1>5, <2>1, <2>4 DEF ValueSoFar
  <2>5. CASE place = "hex"
    <3>1. PICK z : Holds(z) /\ IsPrefixed(z, pos)
      BY <1>5, <2>5 DEF ValueSoFar
    <3>2. code = "HexNumber"
      BY <1>3, <2>5
    <3> QED
      BY <1>6, <3>1, <3>2 DEF ValueAs
  <2>6. code \in {"Integer", "HexNumber"}
    BY <1>4
  <2> QED
    BY <1>3, <2>2, <2>3, <2>4, <2>5, <2>6
<1>8. SignsAt(mark + 1) = Signed
  BY DEF SignsAt, Signed
<1>9. ASSUME NEW c, NEW v, NEW a, NEW s, NEW b
      PROVE  ValueAs(c, v, a, s, b)' <=> ValueAs(c, v, a, s, b)
  BY DEF ValueAs, AreDigits, IsPrefixed
<1>10. PICK c, v, a, s, b : /\ c = code /\ v = CurrentToken /\ a = mark + 1 /\ s = Signed
                            /\ b = pos
  OBVIOUS
<1>11. ValueAs(c, v, a, s, b)'
  BY <1>7, <1>9, <1>10
<1>12. /\ tokens[k].code' = c /\ tokens[k].value' = v /\ First(tokens[k])' = a
       /\ Last(tokens[k])' = b
  BY <1>4, <1>10 DEF First, Last
<1>13. SignsAt(First(tokens[k]))' = s
  <2>1. SignsAt(First(tokens[k]))' = SignsAt(a)
    BY <1>12 DEF SignsAt
  <2> QED
    BY <1>8, <1>10, <2>1
<1> QED
  BY <1>11, <1>12, <1>13 DEF ValueAt

\* Every step keeps ValuesInv.
LEMMA ValuesNext ==
    ASSUME NumbersAreComplete, Fits, ValueInv, ValuesInv, [ScannersNext]_<<vars, scannerVars>>
    PROVE  ValuesInv'
<1>1. UNCHANGED text
  BY TokensStay
<1>2. SUFFICES ASSUME NEW k \in 1..Len(tokens'), tokens'[k].code \in {"Integer", "HexNumber"}
               PROVE  ValueAt(k)'
  BY DEF ValuesInv, TokensWith
<1>3. CASE k \in 1..Len(tokens)
  <2>1. tokens'[k] = tokens[k]
    BY <1>3, TokensStay
  <2>2. ValueAt(k)
    BY <1>2, <1>3, <2>1 DEF TokensWith, ValuesInv
  <2> QED
    BY <1>1, <2>1, <2>2 DEF ValueAt, ValueAs, SignsAt, First, Last, AreDigits, IsPrefixed
<1>4. CASE k \notin 1..Len(tokens)
  <2>1. MadeBy(tokens'[k].code)
    BY <1>4, TokensStay
  <2>2. Number
    BY <1>2, <2>1 DEF MadeBy
  <2> QED
    BY <1>1, <1>2, <1>4, <2>2, ValueIsKept
<1> QED
  BY <1>3, <1>4

\* The characters of the text.
Characters == {text[i] : i \in Nat}

\* w is the n characters of the text from z on.
IsFrom(w, z, n) ==
    /\ w \in Seq(Characters)
    /\ Len(w) = n
    /\ \A i \in 1..n : w[i] = text[(z + i) - 1]

\* DigitsFrom is what stands from z to b.
LEMMA DigitsFromIs ==
    ASSUME NEW z \in Nat, NEW b \in Nat, 1 <= z, z <= b + 1
    PROVE  IsFrom(DigitsFrom(z, b), z, (b + 1) - z) /\ (b + 1) - z \in Nat
<1> DEFINE n == (b + 1) - z
           f == [i \in 1..n |-> text[(z + i) - 1]]
<1>1. n \in Nat /\ \A i \in 1..n : (z + i) - 1 \in Nat
  OBVIOUS
<1>2. DigitsFrom(z, b) = f
  BY DEF DigitsFrom
<1> HIDE DEF n
<1>3. \A i \in 1..n : f[i] = text[(z + i) - 1] /\ text[(z + i) - 1] \in Characters
  BY <1>1 DEF Characters
<1>4. f \in [1..n -> Characters]
  BY <1>3
<1> HIDE DEF f
<1>5. f \in Seq(Characters) /\ Len(f) = n
  BY <1>1, <1>4
<1> QED
  BY <1>1, <1>2, <1>3, <1>5 DEF n, IsFrom

\* There is a period in the value of a token.
HasPeriod(token) == Period \in {text[token.value[i]] : i \in DOMAIN token.value}

\* The text of a token without a sign.
LEMMA SpelledUnsigned ==
    ASSUME NEW token, NEW a \in Nat, 1 <= a, NEW z \in Nat, NEW b \in Nat, a <= z, z <= b + 1,
           token.value = Shape(a - 1, 0, z, b)
    PROVE  /\ Spelling(token) = DigitsFrom(z, b)
           /\ HasPeriod(token) <=> \E j \in z..b : text[j] = Period
<1> DEFINE m == a - 1
           k == 0
           s == Shape(m, k, z, b)
           n == (b + 1) - z
<1>1. m \in Nat /\ k \in 0..1 /\ m + (k + 1) <= z /\ (k + (b + 1)) - z = n /\ n \in Nat
      /\ \A i \in 1..n : ~(i <= k) /\ ((z - k) - 1) + i = (z + i) - 1
  OBVIOUS
<1>2. token.value = s
  OBVIOUS
<1> HIDE DEF m, k, s, n
<1>3. IsShape(s, m, k, z, b, (k + (b + 1)) - z)
  BY <1>1, ShapeIs DEF s
<1>4. s \in Seq(Nat) /\ Len(s) = n /\ \A i \in 1..n : s[i] = (z + i) - 1
  BY <1>1, <1>3 DEF IsShape
<1>5. DOMAIN s = 1..n
  BY <1>4, LenProperties
<1>6. Spelling(token) = [i \in 1..n |-> text[(z + i) - 1]]
  <2>1. Spelling(token) = [i \in 1..n |-> text[s[i]]]
    BY <1>2, <1>5, Zenon DEF Spelling
  <2> QED
    BY <1>4, <2>1
<1>7. HasPeriod(token) <=> \E i \in 1..n : text[(z + i) - 1] = Period
  <2>1. HasPeriod(token) <=> \E i \in 1..n : text[s[i]] = Period
    BY <1>2, <1>5 DEF HasPeriod
  <2> QED
    BY <1>4, <2>1
<1>8. (\E i \in 1..n : text[(z + i) - 1] = Period) <=> \E j \in z..b : text[j] = Period
  <2>1. ASSUME NEW i \in 1..n, text[(z + i) - 1] = Period
        PROVE  \E j \in z..b : text[j] = Period
    <3>1. (z + i) - 1 \in z..b
      BY DEF n
    <3> QED
      BY <2>1, <3>1
  <2>2. ASSUME NEW j \in z..b, text[j] = Period
        PROVE  \E i \in 1..n : text[(z + i) - 1] = Period
    <3>1. (j + 1) - z \in 1..n /\ (z + ((j + 1) - z)) - 1 = j
      BY DEF n
    <3> QED
      BY <2>2, <3>1
  <2> QED
    BY <2>1, <2>2
<1> QED
  BY <1>6, <1>7, <1>8 DEF n, DigitsFrom

\* There is a period from z to b.
PeriodIn(z, b) == \E j \in z..b : text[j] = Period

\* The text of a token with one.
LEMMA SpelledSigned ==
    ASSUME NEW token, NEW a \in Nat, 1 <= a, NEW z \in Nat, NEW b \in Nat, a + 1 <= z, z <= b + 1,
           token.value = Shape(a - 1, 1, z, b)
    PROVE  /\ Spelling(token) \in Seq(Characters) /\ Spelling(token) # <<>>
           /\ Spelling(token)[1] = text[a]
           /\ Tail(Spelling(token)) = DigitsFrom(z, b)
           /\ Len(Spelling(token)) = ((b + 1) - z) + 1
           /\ \A i \in 1..(b + 1) - z : Spelling(token)[i + 1] = text[(z + i) - 1]
           /\ HasPeriod(token) <=> text[a] = Period \/ PeriodIn(z, b)
<1> DEFINE m == a - 1
           k == 1
           s == Shape(m, k, z, b)
           n == (b + 1) - z
           w == Spelling(token)
<1>1. /\ m \in Nat /\ k \in 0..1 /\ m + (k + 1) <= z /\ (k + (b + 1)) - z = n + 1 /\ n \in Nat
      /\ 1 <= k /\ m + 1 = a
      /\ \A i \in 1..n : /\ ~(i + 1 <= k) /\ ((z - k) - 1) + (i + 1) = (z + i) - 1
                         /\ i + 1 \in 1..n + 1
  OBVIOUS
<1>2. token.value = s
  OBVIOUS
<1> HIDE DEF m, k, s, n
<1>3. IsShape(s, m, k, z, b, (k + (b + 1)) - z)
  BY <1>1, ShapeIs DEF s
<1>4. s \in Seq(Nat) /\ Len(s) = n + 1 /\ s[1] = a /\ \A i \in 1..n : s[i + 1] = (z + i) - 1
  <2>1. /\ s \in Seq(Nat) /\ Len(s) = n + 1
        /\ \A i \in 1..n + 1 : s[i] = IF i <= k THEN m + i ELSE ((z - k) - 1) + i
    BY <1>1, <1>3 DEF IsShape
  <2>2. 1 \in 1..n + 1
    BY <1>1
  <2>3. s[1] = a
    BY <1>1, <2>1, <2>2
  <2>4. ASSUME NEW i \in 1..n
        PROVE  s[i + 1] = (z + i) - 1
    <3> DEFINE j == i + 1
    <3>1. j \in 1..n + 1 /\ ~(j <= k) /\ ((z - k) - 1) + j = (z + i) - 1
      BY <1>1
    <3> HIDE DEF j
    <3>2. s[j] = (z + i) - 1
      BY <2>1, <3>1
    <3> QED
      BY <3>2 DEF j
  <2> QED
    BY <2>1, <2>3, <2>4
<1>5. DOMAIN s = 1..n + 1
  BY <1>4, LenProperties
<1>6. w = [i \in 1..n + 1 |-> text[s[i]]]
  BY <1>2, <1>5, Zenon DEF Spelling
<1> HIDE DEF w
<1>7. \A i \in 1..n + 1 : s[i] \in Nat
  BY <1>4, ElementOfSeq
<1>8. w \in Seq(Characters) /\ Len(w) = n + 1 /\ \A i \in 1..n + 1 : w[i] = text[s[i]]
  <2>1. \A i \in 1..n + 1 : text[s[i]] \in Characters
    BY <1>7 DEF Characters
  <2>2. w \in [1..n + 1 -> Characters]
    BY <1>6, <2>1
  <2>3. n + 1 \in Nat
    BY <1>1
  <2>4. \A i \in 1..n + 1 : w[i] = text[s[i]]
    BY <1>6
  <2> QED
    BY <2>2, <2>3, <2>4
<1>9. w # <<>> /\ w[1] = text[a]
  <2>1. 1 \in 1..n + 1 /\ n + 1 # 0
    BY <1>1
  <2> QED
    BY <1>4, <1>8, <2>1, EmptySeq
<1>10. \A i \in 1..n : w[i + 1] = text[(z + i) - 1]
  <2>1. ASSUME NEW i \in 1..n
        PROVE  w[i + 1] = text[(z + i) - 1]
    <3> DEFINE j == i + 1
    <3>1. j \in 1..n + 1 /\ s[j] = (z + i) - 1
      BY <1>1, <1>4
    <3> HIDE DEF j
    <3>2. w[j] = text[(z + i) - 1]
      BY <1>8, <3>1
    <3> QED
      BY <3>2 DEF j
  <2> QED
    BY <2>1
<1>11. Tail(w) = DigitsFrom(z, b)
  <2> DEFINE t == Tail(w)
             d == DigitsFrom(z, b)
  <2>1. t \in Seq(Characters) /\ Len(t) = n /\ \A i \in 1..n : t[i] = w[i + 1]
    <3>1. /\ t \in Seq(Characters) /\ Len(t) = Len(w) - 1
          /\ \A i \in 1..Len(w) - 1 : t[i] = w[i + 1]
      BY <1>8, <1>9, HeadTailProperties
    <3>2. Len(w) - 1 = n
      BY <1>1, <1>8
    <3> QED
      BY <3>1, <3>2
  <2>2. d \in Seq(Characters) /\ Len(d) = n /\ \A i \in 1..n : d[i] = text[(z + i) - 1]
    <3>1. IsFrom(d, z, n)
      <4>1. 1 <= z
        OBVIOUS
      <4> QED
        BY <4>1, DigitsFromIs DEF n
    <3> QED
      BY <3>1 DEF IsFrom
  <2> HIDE DEF t, d
  <2>3. t = d
    BY <1>10, <2>1, <2>2, SeqEqual
  <2> QED
    BY <2>3 DEF t, d
<1>12. HasPeriod(token) <=> text[a] = Period \/ \E j \in z..b : text[j] = Period
  <2>1. HasPeriod(token) <=> \E i \in 1..n + 1 : text[s[i]] = Period
    BY <1>2, <1>5 DEF HasPeriod
  <2>2. ASSUME NEW i \in 1..n + 1, text[s[i]] = Period
        PROVE  text[a] = Period \/ \E j \in z..b : text[j] = Period
    <3>1. CASE i = 1
      BY <1>4, <2>2, <3>1
    <3>2. CASE i # 1
      <4> DEFINE h == i - 1
      <4>1. h \in 1..n /\ h + 1 = i
        BY <1>1, <3>2
      <4> HIDE DEF h
      <4>2. s[h + 1] = (z + h) - 1
        BY <1>4, <4>1
      <4>3. (z + h) - 1 \in z..b
        BY <4>1 DEF n
      <4> QED
        BY <2>2, <4>1, <4>2, <4>3
    <3> QED
      BY <3>1, <3>2
  <2>3. text[a] = Period => \E i \in 1..n + 1 : text[s[i]] = Period
    <3>1. 1 \in 1..n + 1
      BY <1>1
    <3> QED
      BY <1>4, <3>1
  <2>4. ASSUME NEW j \in z..b, text[j] = Period
        PROVE  \E i \in 1..n + 1 : text[s[i]] = Period
    <3> DEFINE h == (j + 1) - z
    <3>1. h \in 1..n /\ (z + h) - 1 = j
      BY DEF n
    <3> HIDE DEF h
    <3>2. h + 1 \in 1..n + 1 /\ s[h + 1] = j
      BY <1>1, <1>4, <3>1
    <3> QED
      BY <2>4, <3>2
  <2> QED
    BY <2>1, <2>2, <2>3, <2>4
<1> QED
  BY <1>8, <1>9, <1>10, <1>11, <1>12 DEF w, n, PeriodIn

\* Another character is not read.
LEMMA NoDigits ==
    ASSUME NEW X, NEW w \in Seq(X), NEW radix, NEW i \in 1..Len(w), Digit(w[i]) \notin 0..radix - 1
    PROVE  Evaluated(w, radix) = Nothing
<1>1. Len(w) \in Nat
  BY LenProperties
<1>2. \E f : Evaluated(w, radix) =
               IF \E j \in 1..Len(w) : Digit(w[j]) \notin 0..radix - 1 THEN Nothing ELSE {f[Len(w)]}
  BY <1>1, EvaluatedIs
<1> QED
  BY <1>2

\* What the characters of numbers are not.
LEMMA NoBlanks ==
    /\ \A ch \in HexDigits \union Signs \union {Period, "x"} : ~IsBlank(ch)
    /\ \A ch \in Digits \union {Period} :
          ch # "-" /\ ch # "$" /\ ch # "x" /\ ch # "b" /\ ~IsBlank(ch)
    /\ \A ch \in HexDigits : ch # "-" /\ ch # "x" /\ ch # Period /\ ~IsBlank(ch)
    /\ Digits \subseteq HexDigits /\ Zero = "0" /\ Zero \in HexDigits /\ Zero \in Digits
    /\ "-" # Period /\ "+" # Period /\ "x" # Period /\ "x" # "-" /\ ~IsBlank("x") /\ ~IsBlank("-")
    /\ ~IsBlank("+") /\ "+" # "-" /\ "+" # "$" /\ "+" # "0" /\ "0" # "-" /\ "0" # "$"
    /\ "-" \in Signs /\ "+" \in Signs
BY DEF HexDigits, Digits, Signs, Period, Zero, IsBlank, Space, LineFeed, Return

\* A plus is not read.
LEMMA PlusIsNothing ==
    ASSUME NEW X, NEW w \in Seq(X), w # <<>>, w[1] = "+", \A i \in 1..Len(w) : ~IsBlank(w[i])
    PROVE  StringToInteger(w, Long) = Nothing
<1>1. w[1] # "-" /\ w[1] # "$" /\ w[1] # "0" /\ Digit(w[1]) \notin 0..10 - 1
  BY NoBlanks, DigitsAre
<1>2. StringToInteger(w, Long) = {Wrapped(n, Long) : n \in Evaluated(w, 10)}
  BY <1>1, ReadPlain
<1>3. 1 \in 1..Len(w)
  <2>1. Len(w) \in Nat /\ Len(w) # 0
    BY EmptySeq, LenProperties
  <2> QED
    BY <2>1
<1>4. Evaluated(w, 10) = Nothing
  <2> DEFINE radix == 10
             i == 1
  <2>1. i \in 1..Len(w) /\ Digit(w[i]) \notin 0..radix - 1
    BY <1>1, <1>3
  <2> HIDE DEF radix, i
  <2>2. Evaluated(w, radix) = Nothing
    BY <2>1, NoDigits
  <2> QED
    BY <2>2 DEF radix
<1> QED
  BY <1>2, <1>4 DEF Nothing

\* An integer without a sign.
LEMMA UnsignedInteger ==
    ASSUME NEW token, NEW a \in Nat, 1 <= a, NEW z \in Nat, NEW b \in Nat, a <= z, z <= b + 1,
           AreDigits(z, b), \A i \in a..z - 1 : text[i] = Zero,
           token.value = Shape(a - 1, 0, z, b)
    PROVE  /\ ~HasPeriod(token) /\ SumOf(a, b, 10) \in Nat
           /\ StringToInteger(Spelling(token), Long) = {Wrapped(SumOf(a, b, 10), Long)}
<1> DEFINE w == DigitsFrom(z, b)
           n == (b + 1) - z
           radix == 10
<1>1. Spelling(token) = w /\ (HasPeriod(token) <=> \E j \in z..b : text[j] = Period)
  BY SpelledUnsigned
<1>2. IsFrom(w, z, n) /\ n \in Nat /\ 1 <= z
  BY DigitsFromIs
<1>3. \A j \in z..b : text[j] \in Digits /\ text[j] \in HexDigits
  BY NoBlanks DEF AreDigits
<1>4. ~HasPeriod(token)
  BY <1>1, <1>3, NoBlanks
<1>5. \A i \in 1..n : (z + i) - 1 \in z..b
  BY <1>2
<1> HIDE DEF w, n
<1>6. w \in Seq(Characters) /\ Len(w) = n /\ \A i \in 1..n : w[i] \in Digits
  BY <1>2, <1>3, <1>5 DEF IsFrom
<1>7. StringToInteger(w, Long) = {Wrapped(v, Long) : v \in Evaluated(w, 10)}
  <2>1. \A i \in 1..Len(w) : ~IsBlank(w[i])
    BY <1>6, NoBlanks
  <2>2. w # <<>> => w[1] # "-" /\ w[1] # "$"
    <3>1. ASSUME w # <<>> PROVE 1 \in 1..n
      <4>1. n # 0
        BY <1>6, <3>1, EmptySeq
      <4> QED
        BY <1>2, <4>1
    <3> QED
      BY <1>6, <3>1, NoBlanks
  <2>3. ~(Len(w) > 2 /\ w[1] = "0" /\ w[2] \in {"x", "b"})
    <3>1. Len(w) > 2 => 2 \in 1..n
      BY <1>2, <1>6
    <3> QED
      BY <1>6, <3>1, NoBlanks
  <2> QED
    BY <1>6, <2>1, <2>2, <2>3, ReadPlain
<1>8. SumOf(a, b, radix) \in Nat /\ Evaluated(w, radix) = {SumOf(a, b, radix)}
  <2>1. \A i \in a..z - 1 : text[i] = "x" \/ Digit(text[i]) = 0
    BY DigitsAre
  <2>2. \A i \in z..b : text[i] # "x" /\ Digit(text[i]) \in 0..radix - 1
    BY <1>3, NoBlanks, DigitsAre
  <2>3. radix \in Nat
    OBVIOUS
  <2> HIDE DEF radix
  <2>4. IsPadded(a, z, b, radix)
    BY <2>1, <2>2 DEF IsPadded
  <2> QED
    BY <2>3, <2>4, ReadIsSum DEF w
<1> DEFINE sum == SumOf(a, b, 10)
<1>9. sum \in Nat /\ Evaluated(w, 10) = {sum}
  BY <1>8
<1> HIDE DEF sum
<1>10. StringToInteger(w, Long) = {Wrapped(sum, Long)}
  BY <1>7, <1>9
<1> QED
  BY <1>1, <1>4, <1>9, <1>10 DEF sum

\* One that kept the period.
LEMMA UnsignedPeriod ==
    ASSUME NEW token, NEW a \in Nat, 1 <= a, NEW z \in Nat, NEW b \in Nat, a <= z, z <= b + 1,
           AreDigits(z, b), text[b + 1] = Period,
           token.value = Shape(a - 1, 0, z, b + 1)
    PROVE  HasPeriod(token) /\ StringToInteger(Spelling(token), Long) = Nothing
<1> DEFINE c == b + 1
           w == DigitsFrom(z, c)
           n == (c + 1) - z
<1>1. /\ c \in Nat /\ z <= c + 1 /\ c \in z..c /\ text[c] = Period /\ 1 <= z /\ n \in Nat
      /\ 1 \in 1..n /\ n \in 1..n /\ (z + n) - 1 = c /\ \A i \in 1..n : (z + i) - 1 \in z..c
  OBVIOUS
<1>2. \A j \in z..c : text[j] \in Digits \union {Period}
  <2>1. \A j \in z..c : j \in z..b \/ j = c
    OBVIOUS
  <2> QED
    BY <1>1, <2>1 DEF AreDigits
<1>3. token.value = Shape(a - 1, 0, z, c)
  OBVIOUS
<1> HIDE DEF c
<1>4. Spelling(token) = w /\ (HasPeriod(token) <=> \E j \in z..c : text[j] = Period)
  BY <1>1, <1>3, SpelledUnsigned
<1>5. HasPeriod(token)
  BY <1>1, <1>4
<1>6. IsFrom(w, z, n)
  BY <1>1, DigitsFromIs
<1> HIDE DEF w, n
<1>7. w \in Seq(Characters) /\ Len(w) = n /\ \A i \in 1..n : w[i] \in Digits \union {Period}
  BY <1>1, <1>2, <1>6 DEF IsFrom
<1>8. w[n] = Period
  BY <1>1, <1>6 DEF IsFrom
<1>9. StringToInteger(w, Long) = {Wrapped(v, Long) : v \in Evaluated(w, 10)}
  <2>1. \A i \in 1..Len(w) : ~IsBlank(w[i])
    BY <1>7, NoBlanks
  <2>2. w[1] # "-" /\ w[1] # "$"
    BY <1>1, <1>7, NoBlanks
  <2>3. ~(Len(w) > 2 /\ w[1] = "0" /\ w[2] \in {"x", "b"})
    <3>1. Len(w) > 2 => 2 \in 1..n
      BY <1>1, <1>7
    <3> QED
      BY <1>7, <3>1, NoBlanks
  <2> QED
    BY <1>7, <2>1, <2>2, <2>3, ReadPlain
<1>10. Evaluated(w, 10) = Nothing
  <2> DEFINE radix == 10
  <2>1. n \in 1..Len(w) /\ Digit(w[n]) \notin 0..radix - 1
    BY <1>1, <1>7, <1>8, DigitsAre
  <2> HIDE DEF radix
  <2>2. Evaluated(w, radix) = Nothing
    BY <1>7, <2>1, NoDigits
  <2> QED
    BY <2>2 DEF radix
<1> QED
  BY <1>4, <1>5, <1>9, <1>10 DEF Nothing

\* It has no period if neither the sign nor the rest is one.
LEMMA SignedHasNone ==
    ASSUME NEW token, NEW a \in Nat, 1 <= a, NEW z \in Nat, NEW b \in Nat, a + 1 <= z, z <= b + 1,
           token.value = Shape(a - 1, 1, z, b), text[a] # Period, ~PeriodIn(z, b)
    PROVE  ~HasPeriod(token)
<1>1. /\ Tail(Spelling(token)) = DigitsFrom(z, b) /\ Spelling(token)[1] = text[a]
      /\ HasPeriod(token) <=> text[a] = Period \/ PeriodIn(z, b)
  BY SpelledSigned
<1> QED
  BY <1>1

\* The text of a number with a sign has no blank.
LEMMA SignedIsPlain ==
    ASSUME NEW token, NEW a \in Nat, 1 <= a, NEW z \in Nat, NEW b \in Nat, a + 1 <= z, z <= b + 1,
           token.value = Shape(a - 1, 1, z, b), ~IsBlank(text[a]),
           \A j \in z..b : ~IsBlank(text[j])
    PROVE  \A i \in 1..Len(Spelling(token)) : ~IsBlank(Spelling(token)[i])
<1> DEFINE w == Spelling(token)
           n == (b + 1) - z
<1>1. w[1] = text[a] /\ Len(w) = n + 1 /\ \A i \in 1..n : w[i + 1] = text[(z + i) - 1]
  BY SpelledSigned
<1>2. n \in Nat /\ \A i \in 1..n : (z + i) - 1 \in z..b
  OBVIOUS
<1> HIDE DEF w, n
<1>3. ASSUME NEW i \in 1..n + 1
      PROVE  ~IsBlank(w[i])
  <2>1. CASE i = 1
    BY <1>1, <2>1
  <2>2. CASE i # 1
    <3> DEFINE h == i - 1
    <3>1. h \in 1..n /\ h + 1 = i
      BY <1>2, <2>2
    <3> HIDE DEF h
    <3>2. w[h + 1] = text[(z + h) - 1]
      BY <1>1, <3>1
    <3> QED
      BY <1>2, <3>1, <3>2
  <2> QED
    BY <2>1, <2>2
<1> QED
  BY <1>1, <1>3 DEF w

\* A number with a minus, by the digits behind it.
LEMMA MinusIsRead ==
    ASSUME NEW token, NEW a \in Nat, 1 <= a, NEW z \in Nat, NEW b \in Nat, a + 1 <= z, z <= b + 1,
           token.value = Shape(a - 1, 1, z, b), text[a] = "-",
           \A j \in z..b : ~IsBlank(text[j]),
           z <= b => text[z] # "-"
    PROVE  StringToInteger(Spelling(token), Long) =
             {Wrapped(-n, Long) : n \in Evaluated(DigitsFrom(z, b), 10)}
<1> DEFINE w == Spelling(token)
           t == DigitsFrom(z, b)
           n == (b + 1) - z
<1>1. w \in Seq(Characters) /\ w # <<>> /\ w[1] = "-" /\ Tail(w) = t
  BY SpelledSigned
<1>2. \A i \in 1..Len(w) : ~IsBlank(w[i])
  BY NoBlanks, SignedIsPlain
<1>3. t # <<>> => t[1] # "-"
  <2>1. IsFrom(t, z, n) /\ n \in Nat
    BY DigitsFromIs
  <2>2. n # 0 => z <= b /\ 1 \in 1..n /\ (z + 1) - 1 = z
    OBVIOUS
  <2> HIDE DEF t, n
  <2>3. t \in Seq(Characters) /\ Len(t) = n /\ \A i \in 1..n : t[i] = text[(z + i) - 1]
    BY <2>1 DEF IsFrom
  <2>4. t # <<>> => n # 0
    BY <2>3, EmptySeq
  <2>5. n # 0 => t[1] = text[z]
    BY <2>2, <2>3
  <2> QED
    BY <2>2, <2>4, <2>5
<1> HIDE DEF w, t
<1>4. StringToInteger(w, Long) = {Wrapped(-v, Long) : v \in Evaluated(Tail(w), 10)}
  BY <1>1, <1>2, <1>3, ReadMinus
<1> QED
  BY <1>1, <1>4 DEF w, t

\* An integer with a minus.
LEMMA SignedInteger ==
    ASSUME NEW token, NEW a \in Nat, 1 <= a, NEW z \in Nat, NEW b \in Nat, a + 1 <= z, z <= b + 1,
           AreDigits(z, b), \A i \in a + 1..z - 1 : text[i] = Zero,
           text[a] = "-", token.value = Shape(a - 1, 1, z, b)
    PROVE  /\ ~HasPeriod(token) /\ SumOf(a + 1, b, 10) \in Nat
           /\ StringToInteger(Spelling(token), Long) = {Wrapped(-SumOf(a + 1, b, 10), Long)}
<1> DEFINE radix == 10
           first == a + 1
           t == DigitsFrom(z, b)
<1>1. \A j \in z..b : text[j] \in Digits /\ text[j] \in HexDigits
  BY NoBlanks DEF AreDigits
<1>2. ~HasPeriod(token)
  <2>1. text[a] # Period /\ ~PeriodIn(z, b)
    BY <1>1, NoBlanks DEF PeriodIn
  <2> QED
    BY <2>1, SignedHasNone
<1>3. StringToInteger(Spelling(token), Long) = {Wrapped(-n, Long) : n \in Evaluated(t, 10)}
  <2>1. \A j \in z..b : ~IsBlank(text[j])
    BY <1>1, NoBlanks
  <2>2. z <= b => text[z] # "-"
    BY <1>1, NoBlanks
  <2> QED
    BY <2>1, <2>2, MinusIsRead
<1>4. first \in Nat /\ 1 <= first /\ first <= z /\ radix \in Nat
  OBVIOUS
<1>5. IsPadded(first, z, b, radix)
  <2>1. \A i \in first..z - 1 : text[i] = "x" \/ Digit(text[i]) = 0
    BY DigitsAre
  <2>2. \A i \in z..b : text[i] # "x" /\ Digit(text[i]) \in 0..radix - 1
    BY <1>1, NoBlanks, DigitsAre
  <2> QED
    BY <2>1, <2>2 DEF IsPadded
<1> HIDE DEF radix, first
<1>6. SumOf(first, b, radix) \in Nat /\ Evaluated(t, radix) = {SumOf(first, b, radix)}
  BY <1>4, <1>5, ReadIsSum
<1> HIDE DEF t
<1> DEFINE sum == SumOf(first, b, radix)
<1> HIDE DEF sum
<1>7. sum \in Nat /\ Evaluated(t, 10) = {sum}
  BY <1>6 DEF radix, sum
<1>8. StringToInteger(Spelling(token), Long) = {Wrapped(-sum, Long)}
  BY <1>3, <1>7
<1> QED
  BY <1>2, <1>7, <1>8 DEF sum, first, radix

\* One that kept the period.
LEMMA SignedPeriod ==
    ASSUME NEW token, NEW a \in Nat, 1 <= a, NEW z \in Nat, NEW b \in Nat, a + 1 <= z, z <= b + 1,
           AreDigits(z, b), text[b + 1] = Period, text[a] \in Signs,
           token.value = Shape(a - 1, 1, z, b + 1)
    PROVE  HasPeriod(token) /\ StringToInteger(Spelling(token), Long) = Nothing
<1> DEFINE c == b + 1
           t == DigitsFrom(z, c)
           n == (c + 1) - z
           w == Spelling(token)
<1>1. /\ c \in Nat /\ z <= c + 1 /\ c \in z..c /\ text[c] = Period /\ 1 <= z /\ n \in Nat
      /\ n \in 1..n /\ (z + n) - 1 = c
  OBVIOUS
<1>2. \A j \in z..c : text[j] \in Digits \union {Period}
  <2>1. \A j \in z..c : j \in z..b \/ j = c
    OBVIOUS
  <2> QED
    BY <1>1, <2>1 DEF AreDigits
<1>3. token.value = Shape(a - 1, 1, z, c)
  OBVIOUS
<1> HIDE DEF c
<1>4. /\ w \in Seq(Characters) /\ w # <<>> /\ w[1] = text[a]
      /\ (HasPeriod(token) <=> text[a] = Period \/ \E j \in z..c : text[j] = Period)
  <2>1. c \in Nat /\ z <= c + 1
    BY <1>1
  <2>2. /\ w \in Seq(Characters) /\ w # <<>> /\ w[1] = text[a]
        /\ Tail(w) = DigitsFrom(z, c)
        /\ Len(w) = ((c + 1) - z) + 1
        /\ \A i \in 1..(c + 1) - z : w[i + 1] = text[(z + i) - 1]
        /\ HasPeriod(token) <=> text[a] = Period \/ PeriodIn(z, c)
    BY <1>3, <2>1, SpelledSigned
  <2> QED
    BY <2>2 DEF PeriodIn
<1>5. HasPeriod(token)
  BY <1>1, <1>4
<1>6. \A j \in z..c : ~IsBlank(text[j]) /\ text[j] # "-"
  BY <1>2, NoBlanks
<1>7. CASE text[a] = "+"
  <2>1. \A i \in 1..Len(w) : ~IsBlank(w[i])
    BY <1>1, <1>3, <1>6, <1>7, NoBlanks, SignedIsPlain
  <2> HIDE DEF w
  <2>2. StringToInteger(w, Long) = Nothing
    BY <1>4, <1>7, <2>1, PlusIsNothing
  <2> QED
    BY <1>5, <2>2 DEF w
<1>8. CASE text[a] = "-"
  <2>1. StringToInteger(w, Long) = {Wrapped(-v, Long) : v \in Evaluated(t, 10)}
    <3>1. z <= c => text[z] # "-"
      BY <1>1, <1>6
    <3> QED
      BY <1>1, <1>3, <1>6, <1>8, <3>1, MinusIsRead
  <2>2. IsFrom(t, z, n)
    BY <1>1, DigitsFromIs
  <2> HIDE DEF w, t, n
  <2>3. t \in Seq(Characters) /\ Len(t) = n /\ t[n] = Period
    BY <1>1, <2>2 DEF IsFrom
  <2>4. Evaluated(t, 10) = Nothing
    <3> DEFINE radix == 10
    <3>1. n \in 1..Len(t) /\ Digit(t[n]) \notin 0..radix - 1
      BY <1>1, <2>3, DigitsAre
    <3> HIDE DEF radix
    <3>2. Evaluated(t, radix) = Nothing
      BY <2>3, <3>1, NoDigits
    <3> QED
      BY <3>2 DEF radix
  <2>5. StringToInteger(w, Long) = Nothing
    BY <2>1, <2>4 DEF Nothing
  <2> QED
    BY <1>5, <2>5 DEF w
<1> QED
  BY <1>7, <1>8 DEF Signs

\* A number with a plus.
LEMMA PlusIsRead ==
    ASSUME NEW token, NEW a \in Nat, 1 <= a, NEW z \in Nat, NEW b \in Nat, a + 1 <= z, z <= b + 1,
           token.value = Shape(a - 1, 1, z, b), text[a] = "+",
           \A j \in z..b : ~IsBlank(text[j])
    PROVE  StringToInteger(Spelling(token), Long) = Nothing
<1> DEFINE w == Spelling(token)
<1>1. w \in Seq(Characters) /\ w # <<>> /\ w[1] = "+"
  BY SpelledSigned
<1>2. \A i \in 1..Len(w) : ~IsBlank(w[i])
  BY NoBlanks, SignedIsPlain
<1> HIDE DEF w
<1>3. StringToInteger(w, Long) = Nothing
  BY <1>1, <1>2, PlusIsNothing
<1> QED
  BY <1>3 DEF w

\* The characters of a hexadecimal number.
LEMMA PrefixedChars ==
    ASSUME NEW z \in Nat, NEW b \in Nat, IsPrefixed(z, b)
    PROVE  /\ z + 2 <= b /\ text[z] = "0" /\ text[z + 1] = "x"
           /\ \A i \in z + 2..b : text[i] \in HexDigits
           /\ \A i \in z..b : ~IsBlank(text[i]) /\ text[i] # "-" /\ text[i] # Period
<1>1. /\ z + 2 <= b /\ text[z] = "0" /\ text[z + 1] = "x"
      /\ \A i \in z + 2..b : text[i] \in HexDigits
  BY NoBlanks DEF IsPrefixed
<1>2. \A i \in z..b : i = z \/ i = z + 1 \/ i \in z + 2..b
  BY <1>1
<1>3. ASSUME NEW i \in z..b
      PROVE  ~IsBlank(text[i]) /\ text[i] # "-" /\ text[i] # Period
  <2>1. text[i] = "0" \/ text[i] = "x" \/ text[i] \in HexDigits
    BY <1>1, <1>2
  <2> QED
    BY <2>1, NoBlanks
<1> QED
  BY <1>1, <1>3

\* A hexadecimal number without a sign.
LEMMA UnsignedHex ==
    ASSUME NEW token, NEW a \in Nat, 1 <= a, NEW z \in Nat, NEW b \in Nat, a <= z,
           IsPrefixed(z, b), \A i \in a..z - 1 : text[i] = Zero,
           token.value = Shape(a - 1, 0, z, b)
    PROVE  /\ ~HasPeriod(token) /\ SumOf(a, b, 16) \in Nat
           /\ StringToInteger(Spelling(token), Long) = {Wrapped(SumOf(a, b, 16), Long)}
<1> DEFINE c == z + 2
           radix == 16
           w == DigitsFrom(z, b)
           t == DigitsFrom(c, b)
           n == (b + 1) - z
           l == (b + 1) - c
<1>1. /\ z + 2 <= b /\ text[z] = "0" /\ text[z + 1] = "x"
      /\ \A i \in z + 2..b : text[i] \in HexDigits
      /\ \A i \in z..b : ~IsBlank(text[i]) /\ text[i] # "-" /\ text[i] # Period
  BY PrefixedChars
<1>2. /\ c \in Nat /\ 1 <= c /\ c <= b + 1 /\ a <= c /\ radix \in Nat /\ 1 <= z /\ z <= b + 1
      /\ n \in Nat /\ n > 2 /\ l \in Nat /\ l = (n - 3) + 1 /\ n \in Int
      /\ 1 \in 1..n /\ 2 \in 1..n /\ 3 \in 1..n
      /\ (z + 1) - 1 = z /\ (z + 2) - 1 = z + 1 /\ (z + 3) - 1 = z + 2
      /\ \A i \in 1..n : (z + i) - 1 \in z..b
      /\ \A i \in 1..l : (3 + i) - 1 \in 1..n /\ (z + ((3 + i) - 1)) - 1 = (c + i) - 1
  BY <1>1
<1>3. Spelling(token) = w /\ (HasPeriod(token) <=> \E j \in z..b : text[j] = Period)
  BY <1>2, SpelledUnsigned
<1>4. ~HasPeriod(token)
  BY <1>1, <1>3
<1>5. IsFrom(w, z, n) /\ IsFrom(t, c, l)
  <2>1. IsFrom(w, z, n)
    BY <1>2, DigitsFromIs
  <2> HIDE DEF c
  <2>2. IsFrom(t, c, l)
    BY <1>2, DigitsFromIs
  <2> QED
    BY <2>1, <2>2
<1> HIDE DEF w, t, n, l
<1>6. /\ w \in Seq(Characters) /\ Len(w) = n /\ \A i \in 1..n : w[i] = text[(z + i) - 1]
      /\ t \in Seq(Characters) /\ Len(t) = l /\ \A i \in 1..l : t[i] = text[(c + i) - 1]
  BY <1>5 DEF IsFrom
<1>7. w[1] = "0" /\ w[2] = "x" /\ w[3] # "-" /\ \A i \in 1..n : ~IsBlank(w[i])
  <2>1. \A i \in 1..n : ~IsBlank(w[i]) /\ w[i] # "-"
    BY <1>1, <1>2, <1>6
  <2>2. w[1] = text[z]
    BY <1>2, <1>6
  <2>3. w[2] = text[z + 1]
    BY <1>2, <1>6
  <2> QED
    BY <1>1, <1>2, <2>1, <2>2, <2>3
<1>8. SubSeq(w, 3, Len(w)) = t
  <2> DEFINE s == SubSeq(w, 3, n)
  <2>1. s \in Seq(Characters) /\ Len(s) = l /\ \A i \in 1..l : s[i] = w[(3 + i) - 1]
    <3> DEFINE p == 3
    <3>1. p \in Int /\ 1 <= p /\ n <= Len(w) /\ p <= n + 1 /\ (n - p) + 1 = l /\ p = 3
      BY <1>2, <1>6
    <3> HIDE DEF p, s
    <3>2. /\ SubSeq(w, p, n) \in Seq(Characters) /\ Len(SubSeq(w, p, n)) = (n - p) + 1
          /\ \A i \in 1..(n - p) + 1 : SubSeq(w, p, n)[i] = w[(p + i) - 1]
      BY <1>2, <1>6, <3>1, PartFacts
    <3>3. SubSeq(w, p, n) = s
      BY <3>1 DEF s
    <3>4. /\ s \in Seq(Characters) /\ Len(s) = l
          /\ \A i \in 1..l : s[i] = w[(p + i) - 1]
      BY <3>1, <3>2, <3>3
    <3> QED
      BY <3>1, <3>4
  <2> HIDE DEF s
  <2>2. ASSUME NEW i \in 1..l
        PROVE  s[i] = t[i]
    <3> DEFINE j == (3 + i) - 1
    <3>1. j \in 1..n /\ (z + j) - 1 = (c + i) - 1
      BY <1>2
    <3>2. s[i] = w[j]
      BY <2>1
    <3> HIDE DEF j
    <3>3. w[j] = text[(z + j) - 1]
      BY <1>6, <3>1
    <3> QED
      BY <1>6, <3>1, <3>2, <3>3
  <2>3. s = t
    BY <1>6, <2>1, <2>2, SeqEqual
  <2> QED
    BY <1>6, <2>3 DEF s
<1>9. StringToInteger(w, Long) = {Wrapped(v, Long) : v \in Evaluated(t, 16)}
  <2>1. \A i \in 1..Len(w) : ~IsBlank(w[i])
    BY <1>6, <1>7
  <2>2. Len(w) > 2
    BY <1>2, <1>6
  <2>3. StringToInteger(w, Long) = {Wrapped(v, Long) : v \in Evaluated(SubSeq(w, 3, Len(w)), 16)}
    BY <1>6, <1>7, <2>1, <2>2, ReadPrefixed
  <2> QED
    BY <1>8, <2>3
<1>10. IsPadded(a, c, b, radix)
  <2>1. ASSUME NEW i \in a..c - 1
        PROVE  text[i] = "x" \/ Digit(text[i]) = 0
    <3>1. i \in a..z - 1 \/ i = z \/ i = z + 1
      OBVIOUS
    <3>2. Zero = "0"
      BY NoBlanks
    <3> QED
      BY <1>1, <3>1, <3>2, DigitsAre
  <2>2. ASSUME NEW i \in c..b
        PROVE  text[i] # "x" /\ Digit(text[i]) \in 0..radix - 1
    <3>1. text[i] \in HexDigits
      BY <1>1
    <3> QED
      BY <3>1, NoBlanks, DigitsAre
  <2> QED
    BY <2>1, <2>2 DEF IsPadded
<1> HIDE DEF c, radix
<1>11. SumOf(a, b, radix) \in Nat /\ Evaluated(t, radix) = {SumOf(a, b, radix)}
  BY <1>2, <1>10, ReadIsSum DEF t
<1> DEFINE sum == SumOf(a, b, radix)
<1> HIDE DEF sum
<1>12. sum \in Nat /\ Evaluated(t, 16) = {sum}
  BY <1>11 DEF radix, sum
<1>13. StringToInteger(Spelling(token), Long) = {Wrapped(sum, Long)}
  BY <1>3, <1>9, <1>12
<1> QED
  BY <1>4, <1>12, <1>13 DEF sum, radix

\* One with a minus is not read.
LEMMA MinusHex ==
    ASSUME NEW token, NEW a \in Nat, 1 <= a, NEW z \in Nat, NEW b \in Nat, a + 1 <= z,
           IsPrefixed(z, b), text[a] = "-", token.value = Shape(a - 1, 1, z, b)
    PROVE  StringToInteger(Spelling(token), Long) = Nothing
<1> DEFINE t == DigitsFrom(z, b)
           n == (b + 1) - z
<1>1. /\ z + 2 <= b /\ text[z + 1] = "x"
      /\ \A i \in z..b : ~IsBlank(text[i]) /\ text[i] # "-"
  BY PrefixedChars
<1>2. z <= b + 1 /\ 1 <= z /\ z \in z..b /\ n \in Nat /\ 2 \in 1..n /\ (z + 2) - 1 = z + 1
  BY <1>1
<1>3. StringToInteger(Spelling(token), Long) = {Wrapped(-v, Long) : v \in Evaluated(t, 10)}
  <2>1. \A j \in z..b : ~IsBlank(text[j])
    BY <1>1
  <2>2. z <= b => text[z] # "-"
    BY <1>1, <1>2
  <2> QED
    BY <1>2, <2>1, <2>2, MinusIsRead
<1>4. IsFrom(t, z, n)
  BY <1>2, DigitsFromIs
<1> HIDE DEF t, n
<1>5. t \in Seq(Characters) /\ Len(t) = n /\ t[2] = "x"
  BY <1>1, <1>2, <1>4 DEF IsFrom
<1>6. Evaluated(t, 10) = Nothing
  <2> DEFINE radix == 10
             i == 2
  <2>1. i \in 1..Len(t) /\ Digit(t[i]) \notin 0..radix - 1
    BY <1>2, <1>5, DigitsAre
  <2> HIDE DEF radix, i
  <2>2. Evaluated(t, radix) = Nothing
    BY <1>5, <2>1, NoDigits
  <2> QED
    BY <2>2 DEF radix
<1> QED
  BY <1>3, <1>6 DEF Nothing

\* What to_long() reads of a token: the number its text spells, modulo the
\* width of long, or nothing.
IsRead(token) ==
    LET n == NumberOf(token.code, First(token), Last(token))
    IN  IF NotANumeral(token) THEN StringToInteger(Spelling(token), Long) = Nothing
        ELSE n \in Int /\ StringToInteger(Spelling(token), Long) = {Wrapped(n, Long)}

\* The tokens that to_long() does not take, by their first character.
LEMMA NotANumeralIs ==
    ASSUME NEW token, NEW a, a = First(token)
    PROVE  NotANumeral(token) <=>
              text[a] = "+" \/ (text[a] = "-" /\ token.code = "HexNumber") \/ HasPeriod(token)
BY DEF NotANumeral, HasPeriod

\* A token without a sign.
LEMMA UnsignedIsRead ==
    ASSUME NEW token, NEW a \in Nat, 1 <= a, NEW b \in Nat, a = First(token), b = Last(token),
           token.code \in {"Integer", "HexNumber"}, text[a] \notin Signs,
           ValueAs(token.code, token.value, a, 0, b)
    PROVE  IsRead(token)
<1>1. text[a] # "+" /\ text[a] # "-"
  BY NoBlanks
<1>2. a + 0 = a
  OBVIOUS
<1>3. NotANumeral(token) <=> HasPeriod(token)
  BY <1>1, NotANumeralIs
<1>4. CASE token.code = "Integer"
  <2>1. NumberOf(token.code, First(token), Last(token)) = SumOf(a, b, 10)
    BY <1>1, <1>4 DEF NumberOf
  <2>2. PICK z \in Nat :
           \/ /\ a + 0 <= z /\ z <= b + 1 /\ AreDigits(z, b)
              /\ \A i \in a + 0..z - 1 : text[i] = Zero
              /\ token.value = Shape(a - 1, 0, z, b)
           \/ /\ a + 0 <= z /\ z <= b + 1 /\ AreDigits(z, b)
              /\ text[b + 1] = Period
              /\ token.value = Shape(a - 1, 0, z, b + 1)
    BY <1>4 DEF ValueAs
  <2>3. a <= z /\ z <= b + 1 /\ AreDigits(z, b)
    BY <1>2, <2>2
  <2>4. CASE token.value = Shape(a - 1, 0, z, b) /\ \A i \in a + 0..z - 1 : text[i] = Zero
    <3>1. \A i \in a..z - 1 : text[i] = Zero
      BY <1>2, <2>4
    <3>2. /\ ~HasPeriod(token) /\ SumOf(a, b, 10) \in Nat
          /\ StringToInteger(Spelling(token), Long) = {Wrapped(SumOf(a, b, 10), Long)}
      BY <2>3, <2>4, <3>1, UnsignedInteger
    <3> QED
      BY <1>3, <2>1, <3>2 DEF IsRead
  <2>5. CASE token.value = Shape(a - 1, 0, z, b + 1) /\ text[b + 1] = Period
    <3>1. HasPeriod(token) /\ StringToInteger(Spelling(token), Long) = Nothing
      BY <2>3, <2>5, UnsignedPeriod
    <3> QED
      BY <1>3, <3>1 DEF IsRead
  <2> QED
    BY <2>2, <2>4, <2>5
<1>5. CASE token.code = "HexNumber"
  <2>1. NumberOf(token.code, First(token), Last(token)) = SumOf(a, b, 16)
    BY <1>1, <1>5 DEF NumberOf
  <2>2. PICK z \in Nat :
           /\ a + 0 <= z /\ IsPrefixed(z, b)
           /\ \A i \in a + 0..z - 1 : text[i] = Zero
           /\ token.value = Shape(a - 1, 0, z, b)
    BY <1>5 DEF ValueAs
  <2>3. a <= z /\ \A i \in a..z - 1 : text[i] = Zero
    BY <1>2, <2>2
  <2>4. /\ ~HasPeriod(token) /\ SumOf(a, b, 16) \in Nat
        /\ StringToInteger(Spelling(token), Long) = {Wrapped(SumOf(a, b, 16), Long)}
    BY <2>2, <2>3, UnsignedHex
  <2> QED
    BY <1>3, <2>1, <2>4 DEF IsRead
<1> QED
  BY <1>4, <1>5

\* A token with one.
LEMMA SignedIsRead ==
    ASSUME NEW token, NEW a \in Nat, 1 <= a, NEW b \in Nat, a = First(token), b = Last(token),
           token.code \in {"Integer", "HexNumber"}, text[a] \in Signs,
           ValueAs(token.code, token.value, a, 1, b)
    PROVE  IsRead(token)
<1>1. text[a] = "+" \/ text[a] = "-"
  BY DEF Signs
<1>2. text[a] = "+" => NotANumeral(token)
  BY NotANumeralIs
<1>3. CASE token.code = "Integer"
  <2>1. PICK z \in Nat :
           \/ /\ a + 1 <= z /\ z <= b + 1 /\ AreDigits(z, b)
              /\ \A i \in a + 1..z - 1 : text[i] = Zero
              /\ token.value = Shape(a - 1, 1, z, b)
           \/ /\ a + 1 <= z /\ z <= b + 1 /\ AreDigits(z, b)
              /\ text[b + 1] = Period
              /\ token.value = Shape(a - 1, 1, z, b + 1)
    BY <1>3 DEF ValueAs
  <2>2. a + 1 <= z /\ z <= b + 1 /\ AreDigits(z, b)
    BY <2>1
  <2>3. \A j \in z..b : ~IsBlank(text[j])
    BY <2>2, NoBlanks DEF AreDigits
  <2>4. CASE token.value = Shape(a - 1, 1, z, b + 1) /\ text[b + 1] = Period
    <3>1. HasPeriod(token) /\ StringToInteger(Spelling(token), Long) = Nothing
      BY <2>2, <2>4, SignedPeriod
    <3>2. NotANumeral(token)
      BY <3>1, NotANumeralIs
    <3> QED
      BY <3>1, <3>2 DEF IsRead
  <2>5. CASE token.value = Shape(a - 1, 1, z, b) /\ text[a] = "+"
    <3>1. StringToInteger(Spelling(token), Long) = Nothing
      BY <2>2, <2>3, <2>5, PlusIsRead
    <3> QED
      BY <1>2, <2>5, <3>1 DEF IsRead
  <2>6. CASE token.value = Shape(a - 1, 1, z, b) /\ text[a] = "-"
             /\ \A i \in a + 1..z - 1 : text[i] = Zero
    <3> DEFINE sum == SumOf(a + 1, b, 10)
               n == NumberOf(token.code, First(token), Last(token))
    <3>1. n = -sum
      BY <1>3, <2>6 DEF NumberOf
    <3>2. /\ ~HasPeriod(token) /\ sum \in Nat
          /\ StringToInteger(Spelling(token), Long) = {Wrapped(-sum, Long)}
      BY <2>2, <2>6, SignedInteger
    <3>3. ~NotANumeral(token)
      <4>1. text[a] # "+" /\ token.code # "HexNumber"
        BY <1>3, <2>6, NoBlanks
      <4> QED
        BY <3>2, <4>1, NotANumeralIs
    <3> HIDE DEF sum, n
    <3>4. n \in Int /\ StringToInteger(Spelling(token), Long) = {Wrapped(n, Long)}
      BY <3>1, <3>2
    <3> QED
      BY <3>3, <3>4 DEF IsRead, n
  <2> QED
    BY <1>1, <2>1, <2>4, <2>5, <2>6
<1>4. CASE token.code = "HexNumber"
  <2>1. PICK z \in Nat :
           /\ a + 1 <= z /\ IsPrefixed(z, b)
           /\ \A i \in a + 1..z - 1 : text[i] = Zero
           /\ token.value = Shape(a - 1, 1, z, b)
    BY <1>4 DEF ValueAs
  <2>2. NotANumeral(token)
    BY <1>1, <1>4, NotANumeralIs
  <2>3. z <= b + 1 /\ \A j \in z..b : ~IsBlank(text[j])
    BY <2>1, PrefixedChars
  <2>4. CASE text[a] = "+"
    <3>1. StringToInteger(Spelling(token), Long) = Nothing
      BY <2>1, <2>3, <2>4, PlusIsRead
    <3> QED
      BY <2>2, <3>1 DEF IsRead
  <2>5. CASE text[a] = "-"
    <3>1. StringToInteger(Spelling(token), Long) = Nothing
      BY <2>1, <2>5, MinusHex
    <3> QED
      BY <2>2, <3>1 DEF IsRead
  <2> QED
    BY <1>1, <2>4, <2>5
<1> QED
  BY <1>3, <1>4

\* What TokenValueIsTheNumber says of one token.
IsTheNumber(token) ==
    LET n == NumberOf(token.code, First(token), Last(token))
    IN  IF NotANumeral(token)
        THEN \A type \in Types : TokenValue(token, type, Long) = Aborts
        ELSE n \in Long.min..Long.max =>
               /\ \A type \in Types :
                     ~(n < 0 /\ type.max > Long.max) =>
                        TokenValue(token, type, Long) =
                           IF n \in type.min..type.max THEN Value(n) ELSE SyntaxError
               /\ TokenTruth(token, Long) = Value(IF n = 0 THEN 0 ELSE 1)
               /\ StringToInteger(IntegerToString(n, 10), Long) = {n}

\* A token that is read as IsRead says has the value the property asks for.
LEMMA ReadIsNumber ==
    ASSUME NEW token, token.code \in {"Integer", "HexNumber"}, IsRead(token)
    PROVE  IsTheNumber(token)
<1> DEFINE n == NumberOf(token.code, First(token), Last(token))
<1>1. IsNumberCode(token.code)
  BY DEF IsNumberCode
<1>2. CASE NotANumeral(token)
  <2>1. StringToInteger(Spelling(token), Long) = Nothing
    BY <1>2, Zenon DEF IsRead
  <2>2. \A type \in Types : TokenValue(token, type, Long) = Aborts
    BY <1>1, <2>1, NoValueIsRead, Zenon
  <2> QED
    BY <1>2, <2>2, Zenon DEF IsTheNumber
<1>3. CASE ~NotANumeral(token)
  <2>1. StringToInteger(Spelling(token), Long) = {Wrapped(n, Long)}
    BY <1>3, Zenon DEF IsRead
  <2> HIDE DEF n
  <2>2. ASSUME n \in Long.min..Long.max
        PROVE  /\ \A type \in Types :
                     ~(n < 0 /\ type.max > Long.max) =>
                        TokenValue(token, type, Long) =
                           IF n \in type.min..type.max THEN Value(n) ELSE SyntaxError
               /\ TokenTruth(token, Long) = Value(IF n = 0 THEN 0 ELSE 1)
               /\ StringToInteger(IntegerToString(n, 10), Long) = {n}
    <3>1. Wrapped(n, Long) = n
      BY <2>2, LongIs, WrappedIs
    <3>2. StringToInteger(Spelling(token), Long) = {n}
      BY <2>1, <3>1, Zenon
    <3>3. /\ \A type \in Types :
                ~(n < 0 /\ type.max > Long.max) =>
                   TokenValue(token, type, Long) =
                      IF n \in type.min..type.max THEN Value(n) ELSE SyntaxError
          /\ TokenTruth(token, Long) = Value(IF n = 0 THEN 0 ELSE 1)
      BY <1>1, <2>2, <3>2, ValueIsRead, Zenon
    <3>4. StringToInteger(IntegerToString(n, 10), Long) = {n}
      BY <2>2, WrittenIsRead, Zenon
    <3> QED
      BY <3>3, <3>4, Zenon
  <2> QED
    BY <1>3, <2>2, Zenon DEF IsTheNumber, n
<1> QED
  BY <1>2, <1>3, Zenon

\* Of a number that long can hold, a client that asks its token for the value in
\* a type gets the number the text spells if that is in the type, and otherwise
\* an error; the texts that to_long() refuses abort, and a negative number as
\* unsigned long is left out.  So it is for every text, and any other scanners
\* before and after, where the features of numbers are set.
THEOREM TokenValueIsAlwaysTheNumber ==
    ASSUME NumbersAreComplete
    PROVE  ScannersSpec => []TokenValueIsTheNumber
<1>1. ScannersInit => ValueInv /\ ValuesInv
  BY DEF ScannersInit, DriverInit, AtStart, ValueInv, Doing, Matching, ValuesInv, TokensWith
<1>2. Fits /\ ValueInv /\ ValuesInv /\ [ScannersNext]_<<vars, scannerVars>>
        => ValueInv' /\ ValuesInv'
  BY ValueInvNext, ValuesNext
<1>3. ASSUME Fits, ValuesInv, NEW k \in TokensWith({"Integer", "HexNumber"})
      PROVE  IsTheNumber(tokens[k])
  <2> DEFINE token == tokens[k]
             a == First(token)
             b == Last(token)
  <2>1. k \in 1..Len(tokens) /\ token.code \in {"Integer", "HexNumber"}
    BY <1>3 DEF TokensWith
  <2>2. a \in Nat /\ 1 <= a /\ b \in Nat
    <3>1. BufferOK
      BY <1>3, Zenon DEF Fits, Inv, TypeOK
    <3>2. tokens \in Seq(Token)
      BY <3>1 DEF BufferOK
    <3>3. token \in Token
      BY <2>1, <3>2, ElementOfSeq
    <3> HIDE DEF token
    <3>4. token.start.index \in Nat /\ token.end.index \in Nat
      BY <3>3 DEF Token, Location
    <3> QED
      BY <3>4 DEF First, Last
  <2>3. ValueAs(token.code, token.value, a, SignsAt(a), b)
    BY <1>3 DEF ValuesInv, ValueAt
  <2>4. IsRead(token)
    <3>1. a = First(token) /\ b = Last(token)
      OBVIOUS
    <3> HIDE DEF token, a, b
    <3>2. CASE text[a] \in Signs
      <4>1. SignsAt(a) = 1
        BY <3>2 DEF SignsAt
      <4> QED
        BY <2>1, <2>2, <2>3, <3>1, <3>2, <4>1, SignedIsRead
    <3>3. CASE text[a] \notin Signs
      <4>1. SignsAt(a) = 0
        BY <3>3 DEF SignsAt
      <4> QED
        BY <2>1, <2>2, <2>3, <3>1, <3>3, <4>1, UnsignedIsRead
    <3> QED
      BY <3>2, <3>3
  <2> HIDE DEF token
  <2>5. IsTheNumber(token)
    BY <2>1, <2>4, ReadIsNumber
  <2> QED
    BY <2>5 DEF token
<1>4. Fits /\ ValuesInv => TokenValueIsTheNumber
  BY <1>3, Zenon DEF TokenValueIsTheNumber, IsTheNumber
<1> QED
  BY <1>1, <1>2, <1>4, FitsInit, FitsNext, PTL DEF ScannersSpec
=============================================================================
