---------------------------- MODULE BasicParser ----------------------------
(***************************************************************************)
(* lexer/BasicParser.{h,cpp}: the base of a parser.  It passes the calls   *)
(* on to its Lexer, keeps errors, and shows a token that could not be read *)
(* as the end of the file.  A text can come from a file, as                *)
(* core/FileBuffer.cpp reads it, while others change the file.             *)
(*                                                                         *)
(* A derived parser can also call the Lexer itself, through lexer().  Of   *)
(* m_errors it is kept which tokens are in it, not how often.  A text has  *)
(* one byte for each of its tokens; a file can have NUL bytes as well.     *)
(***************************************************************************)
EXTENDS Lexer

CONSTANTS
    Files,          \* the files there may be, each with what is in it
    Bytes,          \* the bytes of each file: codes of tokens, and NUL
    Sources,        \* what read_file() may find: files, "none" or "directory"
    MaxChanges,     \* bound: changes of the file by others
    MaxFds          \* the descriptors the process may have open

Nul == "NUL"

ASSUME ParserAssumption ==
    /\ Sources \subseteq Files \union {"none", "directory"}
    /\ "none" \notin Files /\ "directory" \notin Files /\ Nul \notin TextCodes
    /\ \A f \in Files : Bytes[f] \in Seq(TextCodes \union {Nul})
    /\ MaxChanges \in Nat /\ MaxFds \in Nat

\* The text is all of bytes up to the first NUL.
IsTextOf(text, bytes) ==
    LET n == Len(Codes[text])
    IN  /\ n <= Len(bytes) /\ Codes[text] = SubSeq(bytes, 1, n)
        /\ n = Len(bytes) \/ bytes[n + 1] = Nul

\* What there is of a file up to its size, or to that of another, has a text.
ASSUME CutAssumption ==
    \A f, g \in Files : Len(Bytes[g]) <= Len(Bytes[f]) =>
        \E u \in Texts : IsTextOf(u, SubSeq(Bytes[f], 1, Len(Bytes[g])))

VARIABLES
    errors,     \* m_errors: the tokens it is about
    file,       \* what the path names
    reading,    \* where read_file() is: what its open file holds, whether the
                \* path still names that, and its size
    fds,        \* the descriptors that are open
    changes,    \* the changes others may still make
    excused,    \* history: tokens whose errors were cleared, or that the
                \* client took from the Lexer itself
    moments,    \* history: what the path named while read_file() ran
    grown,      \* history: more was written to the open file after its size
                \* was taken
    delivered   \* history: the text that read_file() has last delivered

parserVars == <<errors, file, reading, fds, changes, excused, moments, grown, delivered>>
readVars == <<file, reading, fds, changes, moments, grown, delivered>>
allVars == <<vars, parserVars>>

NotReading == [pc |-> "none", open |-> "none", named |-> FALSE, size |-> 0]
OtherError == <<0, 0>>

ParserInit ==
    /\ Init
    /\ errors = {}
    /\ file \in Sources
    /\ reading = NotReading
    /\ fds = 0
    /\ changes = MaxChanges
    /\ excused = {}
    /\ moments = {}
    /\ grown = FALSE
    /\ delivered = {}

-----------------------------------------------------------------------------
(* The calls that look at tokens.                                          *)

Next1 == <<list, current + 1>>
Code1 == IF Underflow(0) THEN "EndOfFile" ELSE Filled[current + 1].code

\* The code of the token that peek() shows.
Shown == IF Code1 = "Error" THEN "EndOfFile" ELSE Code1

\* peek() and lex() report a token that could not be read.
Report(others) ==
    /\ errors' = errors \union others \union (IF Code1 = "Error" THEN {Next1} ELSE {})
    /\ UNCHANGED <<excused, readVars>>

ParserPeek == Called /\ Peeking(0, Stay) /\ Report({})

\* Mutant: only peek() reports.
ParserLexSilently ==
    /\ ~aborted
    /\ Peeking(0, Advance)
    /\ UNCHANGED <<budget, parserVars>>

ParserLex ==
    /\ ~aborted
    /\ Peeking(0, Advance)
    /\ Report({})
    /\ UNCHANGED budget

\* match() and expect() of a code: at the end of the file, or at what is shown
\* as that, nothing; another token is an error.
ParserMatch(code) ==
    /\ Called
    /\ Peeking(0, IF Shown = code /\ code # "EndOfFile" THEN Advance ELSE Stay)
    /\ Report(IF Shown \in {code, "EndOfFile"} THEN {} ELSE {OtherError})

\* expect() of a text.  It is compared with the rest of the buffer, and can be
\* equal only to the last token, or to one that has a text of its own.
ParserExpectText(equal) ==
    LET alone == current + 2 >= Len(Filled) \/ Filled[current + 1].of = NoText
        taken == Shown # "EndOfFile" /\ equal /\ alone
    IN  /\ Called
        /\ Peeking(0, IF taken THEN Advance ELSE Stay)
        /\ Report(IF taken \/ Shown = "EndOfFile" THEN {} ELSE {OtherError})

\* replace(): it reports the token that has been put in.
ParserReplace(code) ==
    /\ Replace(code)
    /\ errors' = errors \union (IF ~Underflow(0) /\ code = "Error" THEN {Next1} ELSE {})
    /\ UNCHANGED <<excused, readVars>>

\* skip(): lex() over the tokens of a code that is not the end of the file, up
\* to another one, which is peeked at.
SkipTo(code, stop) ==
    /\ stop \in current + 1..Len(Filled)
    /\ Filled[stop].code # code
    /\ \A i \in current + 1..stop - 1 : Filled[i].code = code
    /\ aborted' = FALSE
    /\ current' = stop - 1
    /\ got' = got \o SubSeq(Filled, current + 1, stop - 1)
    /\ Report(IF Filled[stop].code = "Error" THEN {<<list, stop>>} ELSE {})

\* Where a client has put in a token for the end it does not return; for a
\* cursor that has strayed its oassert fails.
SkipsForEver(code) ==
    /\ \A i \in current + 1..Len(Filled) : Filled[i].code = code
    /\ aborted' = TRUE
    /\ Stay
    /\ Report({})

Skip(code) ==
    /\ Called
    /\ code \notin {"Error", "EndOfFile"}
    /\ Fill
    /\ tokens' = Filled
    /\ SkipsForEver(code) \/ \E stop \in 1..Len(Filled) : SkipTo(code, stop)
    /\ UNCHANGED <<bookmarks, list, swapped, strayed, saved>>

AddError ==
    /\ Called
    /\ errors' = errors \union {OtherError}
    /\ UNCHANGED <<buffer, tokens, current, bookmarks, aborted, list, swapped, reread,
                   strayed, got, saved, excused, readVars>>

ClearErrors ==
    /\ Called
    /\ errors' = {}
    /\ excused' = excused \union errors
    /\ UNCHANGED <<buffer, tokens, current, bookmarks, aborted, list, swapped, reread,
                   strayed, got, saved, readVars>>

\* The calls that the parser only passes on (assign(), invalidate(), rewind()
\* and those of bookmarks), and those of a derived parser to the Lexer.
Direct ==
    /\ Next
    /\ excused' = excused \union
         (IF bookmarks' = bookmarks /\ Len(got') > Len(got) THEN {Next1} ELSE {})
    /\ UNCHANGED <<errors, readVars>>

-----------------------------------------------------------------------------
(* read_file() and FileBuffer::from_file().                                *)

lexerVars == <<buffer, tokens, current, bookmarks, aborted, list, swapped, reread,
               strayed, got, saved>>

ReadStarts ==
    /\ Called
    /\ buffer.of < MaxTexts
    /\ reading' = [NotReading EXCEPT !.pc = "check"]
    /\ moments' = {file}
    /\ grown' = FALSE
    /\ delivered' = {}
    /\ UNCHANGED <<lexerVars, errors, excused, file, fds, changes>>

\* The call goes on, or returns an error: the parser is as it was.
Fails == reading' = NotReading
GoesOn(r) == reading' = r

\* A ScopeGuard keeps a reference to a function object that is gone when it
\* calls it: the descriptor is closed or stays open.
CloseOrLeak == fds' \in {fds, fds - 1}

\* check_existence(), by the locator: the descriptor is given back, or not.
CheckFile ==
    /\ reading.pc = "check"
    /\ IF fds = MaxFds \/ file \in {"none", "directory"} THEN Fails ELSE GoesOn([reading EXCEPT !.pc = "open"])
    /\ fds' \in IF fds = MaxFds \/ file = "none" THEN {fds} ELSE {fds, fds + 1}
    /\ UNCHANGED <<vars, errors, excused, file, changes, moments, grown, delivered>>

\* A file stays open when the path comes to name another.
OpenFile ==
    /\ reading.pc = "open"
    /\ IF fds = MaxFds \/ file = "none"
       THEN Fails /\ UNCHANGED fds
       ELSE GoesOn([reading EXCEPT !.pc = "stat", !.open = file, !.named = TRUE]) /\ fds' = fds + 1
    /\ UNCHANGED <<vars, errors, excused, file, changes, moments, grown, delivered>>

\* Mutant: the size of the file that the path names now.
StatPath ==
    /\ reading.pc = "stat"
    /\ IF reading.open = "directory" \/ file \notin Files
       THEN Fails /\ CloseOrLeak
       ELSE /\ GoesOn([reading EXCEPT !.pc = "read", !.size = Len(Bytes[file])])
            /\ UNCHANGED fds
    /\ UNCHANGED <<vars, errors, excused, file, changes, moments, grown, delivered>>

StatFile ==
    /\ reading.pc = "stat"
    /\ IF reading.open = "directory"
       THEN Fails /\ CloseOrLeak
       ELSE /\ GoesOn([reading EXCEPT !.pc = "read", !.size = Len(Bytes[reading.open])])
            /\ UNCHANGED fds
    /\ UNCHANGED <<vars, errors, excused, file, changes, moments, grown, delivered>>

\* What StringBuffer makes of the bytes read() gives: it takes a C string, which
\* ends at the first NUL.
Delivered(bytes) == CHOOSE u \in Texts : IsTextOf(u, bytes)

\* Less than the size is an error.  Else the Lexer gets a new buffer, and the
\* tokens stay.
ReadFile ==
    LET text == Delivered(SubSeq(Bytes[reading.open], 1, reading.size))
    IN  /\ reading.pc = "read"
        /\ Fails /\ CloseOrLeak
        /\ IF Len(Bytes[reading.open]) < reading.size
           THEN UNCHANGED <<vars, delivered>>
           ELSE /\ Assigned(text)
                /\ swapped' = (tokens # <<>>)
                /\ delivered' = {text}
                /\ UNCHANGED <<tokens, current, bookmarks, aborted, list, reread, strayed,
                               got, saved, budget>>
        /\ UNCHANGED <<errors, excused, file, changes, moments, grown>>

\* Another process writes to the file, or gives the path to another file.
FileChanges(source, inPlace) ==
    /\ changes > 0 /\ changes' = changes - 1
    /\ inPlace => {file, source} \subseteq Files
    /\ file' = source
    /\ moments' = moments \union (IF reading = NotReading THEN {} ELSE {source})
    /\ LET isOpen == reading.pc \in {"stat", "read"} /\ reading.named
       IN  /\ reading' = IF ~isOpen THEN reading
                         ELSE IF inPlace THEN [reading EXCEPT !.open = source]
                         ELSE [reading EXCEPT !.named = FALSE]
           /\ grown' = (grown \/ (isOpen /\ inPlace /\ reading.pc = "read"
                                   /\ Len(Bytes[source]) > reading.size))
    /\ UNCHANGED <<vars, errors, excused, fds, delivered>>

ReadSteps == CheckFile \/ OpenFile \/ StatFile \/ ReadFile

-----------------------------------------------------------------------------
ParserCalls ==
    \/ Direct \/ ParserPeek \/ ParserLex \/ AddError \/ ClearErrors \/ ReadStarts
    \/ \E code \in TextCodes \union {"EndOfFile"} : ParserMatch(code)
    \/ \E code \in TextCodes : ParserReplace(code) \/ Skip(code)
    \/ \E equal \in BOOLEAN : ParserExpectText(equal)

ParserNext ==
    \/ reading = NotReading /\ ParserCalls
    \/ ReadSteps
    \/ \E source \in Sources, inPlace \in BOOLEAN : FileChanges(source, inPlace)

ParserSpec == ParserInit /\ [][ParserNext]_allVars

-----------------------------------------------------------------------------
(* Properties.                                                             *)

Reported(toks) ==
    \A i \in 1..Len(toks) : toks[i].code = "Error" => <<list, i>> \in errors \union excused

\* A parser sees the end of the file where a token could not be read, and goes
\* on behind it: what tells the two apart is m_errors.  No way past such a
\* token, with lex(), match(), expect(), skip() or back and forth with
\* bookmarks, leaves it out, unless the client cleared the errors or went past
\* the parser.  A token that replace() puts in for one nobody has looked at
\* counts as what it is then.
ErrorTokensAreReported == ~strayed => Reported(got)

\* read_file() delivers what the file had in it at one moment of the call, all
\* of it or all up to its first NUL, although it looks at the file three times;
\* the exception is more that is written into the file between the second look
\* and the third.
TextOfOneMoment ==
    ~grown => \A text \in delivered : \E f \in moments \intersect Files : IsTextOf(text, Bytes[f])
=============================================================================
