-------------------------- MODULE CommentScanner --------------------------
(***************************************************************************)
(* lexer/CommentScanner.cpp.  setup.markers are the comment markers: how a *)
(* comment starts and ends, whether it ends with the line instead (eol)    *)
(* and whether it is one at the top of the text only (hashpling).          *)
(* setup.split makes a token of every line of a comment; the scanner is    *)
(* locked until the comment ends.                                          *)
(***************************************************************************)
EXTENDS ConcreteScanner

VARIABLES
    live,           \* the markers that still match
    match,          \* m_match, NoMarker if it is not set
    ending,         \* the length of maybe_end_token
    inComment       \* m_state is NewLine: the next match() goes on with m_match

commentVars == <<live, match, ending, inComment>>

NoMarker == [start |-> <<>>, end |-> <<>>, eol |-> FALSE, hashpling |-> FALSE]

CommentInit ==
    /\ live = {}
    /\ match = NoMarker
    /\ ending = 0
    /\ inComment = FALSE

Comment(place) == Running("comment", place)

CommentStarts ==
    /\ Comment("start")
    /\ IF inComment THEN GoesTo("text") /\ UNCHANGED live
       ELSE /\ GoesTo("marker")
            /\ live' = {m \in setup.markers : m.hashpling => pos = 0}
    /\ UNCHANGED <<match, ending, inComment>>

\* The markers that start like the window and the next character.
StillLive == {m \in live : StartsWith(m.start, TextOf(mark + 1, pos + 1))}

\* A marker is recognised if no other one starts like it.
Found(m) == StillLive = {m} /\ Len(m.start) = pos + 1 - mark

CommentReadsMarker ==
    /\ Comment("marker")
    /\ \/ Peek = Nul /\ Returns /\ UNCHANGED <<live, match>>
       \/ /\ Peek # Nul
          /\ live' = StillLive
          /\ \/ \E m \in live :
                   /\ Found(m)
                   /\ match' = m
                   /\ Edits(Push, IF m.eol THEN "eol" ELSE "text")
             \/ /\ ~ \E m \in live : Found(m)
                /\ match' = NoMarker
                /\ Edits(Push, IF StillLive = {} THEN "returned" ELSE "marker")
    /\ UNCHANGED <<ending, inComment>>

\* find_eol()
CommentReadsLine ==
    /\ Comment("eol")
    /\ IF Peek = Nul \/ IsNewline(Peek) THEN AcceptToken("Comment", "returned")
       ELSE Edits(Push, "eol")
    /\ UNCHANGED commentVars

\* find_end_marker()
SplitsHere == setup.split /\ IsNewline(Peek)

\* The line's token, in the middle of the comment.
CommentSplits == AcceptToken("Comment", "newline")

CommentReadsText ==
    /\ Comment("text")
    /\ Peek # Nul
    /\ IF Peek = match.end[1] THEN Edits(Push, "ending") /\ ending' = 1
       ELSE /\ IF SplitsHere THEN CommentSplits ELSE Edits(Push, "text")
            /\ UNCHANGED ending
    /\ inComment' = FALSE
    /\ UNCHANGED <<live, match>>

EndsWith(n) == n <= Len(match.end) /\ Peek = match.end[n]

\* Mutant: a lost match of the end marker is not given up.
CommentReadsEndingForever ==
    /\ Comment("ending")
    /\ Peek # Nul
    /\ IF ending + 1 = Len(match.end) /\ EndsWith(ending + 1) THEN Edits(Push, "end")
       ELSE Edits(Push, "ending")
    /\ UNCHANGED commentVars

\* A character that does not go on with the end marker is text, also when it
\* could start the marker again.
CommentReadsEnding ==
    /\ Comment("ending")
    /\ Peek # Nul
    /\ LET n == ending + 1
           ends == n = Len(match.end) /\ EndsWith(n)
       IN  \/ ends /\ Edits(Push, "end") /\ UNCHANGED ending
           \/ ~ends /\ SplitsHere /\ CommentSplits /\ UNCHANGED ending
           \/ ~ends /\ ~SplitsHere /\ ~EndsWith(n) /\ Edits(Push, "text") /\ UNCHANGED ending
           \/ ~ends /\ ~SplitsHere /\ EndsWith(n) /\ Edits(Push, "ending") /\ ending' = n
    /\ UNCHANGED <<live, match, inComment>>

\* The full end marker was matched.
CommentIsComplete ==
    /\ Comment("end")
    /\ AcceptToken("Comment", "unlock")
    /\ UNCHANGED commentVars

\* lock_scanner() and unlock_scanner()
Locks(scanner) ==
    /\ locked' = scanner
    /\ calls' = IF scanner = locked THEN calls ELSE calls - 1
    /\ at' = "returned"
    /\ UNCHANGED <<bufferVars, pc, current, roundMark, setup>>

\* Mutant: the scanner stays locked.
CommentUnlocksNot ==
    /\ Comment("unlock")
    /\ Returns
    /\ UNCHANGED commentVars

CommentUnlocks ==
    /\ Comment("unlock")
    /\ Locks(None)
    /\ UNCHANGED commentVars

\* Mutant: the line end is left to the other scanners.
CommentTakesNewlineNot ==
    /\ Comment("newline")
    /\ GoesTo("lock")
    /\ UNCHANGED commentVars

CommentTakesNewline ==
    /\ Comment("newline")
    /\ TakesNewline("newline", "line")
    /\ UNCHANGED commentVars

CommentAcceptsNewline ==
    /\ Comment("line")
    /\ AcceptToken("NewLine", "lock")
    /\ UNCHANGED commentVars

CommentLocks ==
    /\ Comment("lock")
    /\ Locks(current)
    /\ inComment' = TRUE
    /\ UNCHANGED <<live, match, ending>>

\* The text ends in the comment.  match() tries another push(), which changes
\* nothing there, before it returns.
CommentIsUnterminated ==
    /\ Comment("text") \/ Comment("ending")
    /\ Peek = Nul
    /\ AcceptError("returned")
    /\ UNCHANGED commentVars

CommentNext ==
    /\ \/ CommentStarts \/ CommentReadsMarker \/ CommentReadsLine
       \/ CommentReadsText \/ CommentReadsEnding \/ CommentIsComplete
       \/ CommentUnlocks \/ CommentTakesNewline \/ CommentAcceptsNewline
       \/ CommentLocks \/ CommentIsUnterminated
    /\ UNCHANGED memo
=============================================================================
