---------------------------- MODULE LineChannel ----------------------------
(***************************************************************************)
(* What a ReadPipe (core/Process.h) promises to the owner of a child       *)
(* process: the bytes the child writes come out as lines, in order, each   *)
(* byte exactly once, and no line holds bytes from both sides of a line    *)
(* terminator.  How the text is cut is left open where the code leaves it  *)
(* to timing: an unfinished line may be delivered in several pieces.       *)
(***************************************************************************)
EXTENDS Integers, Sequences

CONSTANT Byte       \* what a child can write

\* A byte of data is a positive integer.  The terminators are not.
CR == 0
LF == -1
IsData(ch) == ch > 0
AllData(s) == \A i \in 1..Len(s) : IsData(s[i])

VARIABLES
    pending,    \* written by the child, not yet part of a line
    held,       \* complete lines waiting for the owner
    taken       \* the lines the owner has received so far

vars == <<pending, held, taken>>

Init ==
    /\ pending = <<>>
    /\ held = <<>>
    /\ taken = <<>>

\* The child writes one byte.
Send(ch) ==
    /\ pending' = Append(pending, ch)
    /\ UNCHANGED <<held, taken>>

\* The first n bytes, all data, become a line; the next `ends` bytes (a
\* terminator or nothing) go with them.
Deliver(n, ends) ==
    /\ n + ends <= Len(pending)
    /\ AllData(SubSeq(pending, 1, n))
    /\ held' = Append(held, SubSeq(pending, 1, n))
    /\ pending' = SubSeq(pending, n + ends + 1, Len(pending))
    /\ UNCHANGED taken

EndLine(n) == ~IsData(pending[n + 1]) /\ Deliver(n, 1)

CutLine(n) == n > 0 /\ Deliver(n, 0)

\* A terminator that is the second half of the previous one.
SkipTerminator ==
    /\ pending # <<>>
    /\ ~IsData(pending[1])
    /\ pending' = Tail(pending)
    /\ UNCHANGED <<held, taken>>

\* The owner receives every line that is waiting.
Take ==
    /\ held # <<>>
    /\ taken' = taken \o held
    /\ held' = <<>>
    /\ UNCHANGED pending

Next ==
    \/ \E ch \in Byte : Send(ch)
    \/ \E n \in 0..(Len(pending) - 1) : EndLine(n)
    \/ \E n \in 1..Len(pending) : CutLine(n)
    \/ SkipTerminator
    \/ Take

Spec == Init /\ [][Next]_vars
=============================================================================
