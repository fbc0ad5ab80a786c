------------------------------ MODULE ReadPipe ------------------------------
(***************************************************************************)
(* core/Process.{h,cpp}, class ReadPipe: the parent's end of a child's     *)
(* standard output or error.  A detached thread polls the descriptor and   *)
(* drains it into lines under m_lock; other threads take the lines with    *)
(* lines() or block in expect() on m_condition until there is one.         *)
(*                                                                         *)
(* The model starts where connect_parent() has started the thread.  The    *)
(* child is the environment: it writes bytes and exits when it likes.  A   *)
(* byte of data is its position in the child's output, so that the         *)
(* properties can tell the bytes apart; the terminators are CR and LF.     *)
(***************************************************************************)
EXTENDS Integers, Sequences, SequencesExt

CONSTANTS
    Consumers,      \* the threads that call lines() and expect()
    Reader,         \* the detached thread
    NoOne,          \* m_lock has no owner
    Capacity,       \* bytes the kernel keeps in the pipe
    BufferSize,     \* bytes one ::read can return
    MaxBytes,       \* bound: bytes the child writes
    Budget,         \* bound: calls and spurious wakeups of each consumer
    Faults          \* the system calls that may fail: subset of {"poll", "read"}

ASSUME ThreadsAssumption ==
    /\ Reader \notin Consumers
    /\ NoOne \notin Consumers \union {Reader}

ASSUME SizesAssumption ==
    /\ Capacity \in Nat \ {0}
    /\ BufferSize \in Nat \ {0}
    /\ MaxBytes \in Nat
    /\ Budget \in Nat

ASSUME FaultsAssumption == Faults \subseteq {"poll", "read"}

VARIABLES
    written,    \* history: all the child wrote
    childOpen,  \* some process still has the write end open
    pipe,       \* the bytes in the kernel
    fdOpen,     \* m_fd >= 0
    lock,       \* the owner of m_lock
    current,    \* m_current, the line being put together
    lines,      \* m_lines
    pc,         \* where the reader thread is
    chunk,      \* what drain() still has to scan of its buffer
    prevWasCr,  \* drain()'s prev_was_cr
    at,         \* where each consumer is
    budget,     \* what each consumer may still do
    taken       \* history: the lines the consumers received

childVars == <<written, childOpen>>
readerVars == <<pc, chunk, prevWasCr, fdOpen>>
consumerVars == <<at, budget, taken>>
vars == <<written, childOpen, pipe, fdOpen, lock, current, lines,
          pc, chunk, prevWasCr, at, budget, taken>>

CR == 0
LF == -1
IsData(ch) == ch > 0
Byte == {CR, LF} \union (1..MaxBytes)
Line == Seq(1..MaxBytes)

Init ==
    /\ written = <<>>
    /\ childOpen = TRUE
    /\ pipe = <<>>
    /\ fdOpen = TRUE
    /\ lock = NoOne
    /\ current = <<>>
    /\ lines = <<>>
    /\ pc = "poll"
    /\ chunk = <<>>
    /\ prevWasCr = FALSE
    /\ at = [c \in Consumers |-> "idle"]
    /\ budget = [c \in Consumers |-> Budget]
    /\ taken = <<>>

-----------------------------------------------------------------------------
(* The child: whatever program was started.                                *)

\* A write of one byte.  It blocks while the pipe is full, and is refused
\* (EPIPE) once the read end is closed.
ChildWrite(ch) ==
    /\ childOpen
    /\ fdOpen
    /\ Len(written) < MaxBytes
    /\ Len(pipe) < Capacity
    /\ written' = Append(written, ch)
    /\ pipe' = Append(pipe, ch)
    /\ UNCHANGED <<childOpen, lock, current, lines, readerVars, consumerVars>>

ChildExit ==
    /\ childOpen
    /\ childOpen' = FALSE
    /\ UNCHANGED <<written, pipe, lock, current, lines, readerVars, consumerVars>>

-----------------------------------------------------------------------------
(* The reader thread.                                                      *)

\* Mutant: m_current is not cleared.
NewLineKeepsCurrent ==
    /\ lines' = Append(lines, current)
    /\ UNCHANGED current

\* newline(): the current line is complete.
NewLine ==
    /\ lines' = Append(lines, current)
    /\ current' = <<>>

\* Mutant: the unfinished line is left for the next drain().
FlushNothing == UNCHANGED <<current, lines>>

\* `if (!m_current.empty()) newline();`
FlushCurrent ==
    IF current # <<>> THEN NewLine ELSE UNCHANGED <<current, lines>>

\* Mutant: notify_one().
NotifyOne ==
    IF \E c \in Consumers : at[c] = "wait"
    THEN \E c \in Consumers : at[c] = "wait" /\ at' = [at EXCEPT ![c] = "relock"]
    ELSE UNCHANGED at

\* Mutant: nobody is notified.
NotifyNobody == UNCHANGED at

\* notify_all(): every waiter must now get the lock back.
NotifyAll ==
    at' = [c \in Consumers |-> IF at[c] = "wait" THEN "relock" ELSE at[c]]

\* poll() reports POLLIN and drain() is called.  Without input poll() returns
\* at once and is called again, also when the child is gone (POLLHUP): a step
\* that changes nothing.
PollIn ==
    /\ pc = "poll"
    /\ pipe # <<>>
    /\ pc' = "lock"
    /\ UNCHANGED <<childVars, pipe, fdOpen, lock, current, lines, chunk,
                   prevWasCr, consumerVars>>

\* poll() fails with something else than EINTR: the loop ends.
PollFails ==
    /\ pc = "poll"
    /\ "poll" \in Faults
    /\ pc' = "close"
    /\ UNCHANGED <<childVars, pipe, fdOpen, lock, current, lines, chunk,
                   prevWasCr, consumerVars>>

\* drain(): lock_guard.
DrainLock ==
    /\ pc = "lock"
    /\ lock = NoOne
    /\ lock' = Reader
    /\ pc' = "read"
    /\ UNCHANGED <<childVars, pipe, fdOpen, current, lines, chunk, prevWasCr,
                   consumerVars>>

\* ::read returns what there is, at most a buffer full.
ReadChunk ==
    /\ pc = "read"
    /\ pipe # <<>>
    /\ LET n == IF Len(pipe) < BufferSize THEN Len(pipe) ELSE BufferSize
       IN  /\ chunk' = SubSeq(pipe, 1, n)
           /\ pipe' = SubSeq(pipe, n + 1, Len(pipe))
    /\ prevWasCr' = FALSE
    /\ pc' = "scan"
    /\ UNCHANGED <<childVars, fdOpen, lock, current, lines, consumerVars>>

\* ::read returns 0 (end of file) or fails with EAGAIN because the pipe is
\* empty, or fails otherwise: to exit_loop.
ReadEnds ==
    /\ pc = "read"
    /\ pipe = <<>> \/ "read" \in Faults
    /\ pc' = "exit"
    /\ UNCHANGED <<childVars, pipe, fdOpen, lock, current, lines, chunk,
                   prevWasCr, consumerVars>>

\* Mutant: only LF ends a line, CR is kept as part of it.
ScanByteKeepsCr ==
    /\ pc = "scan"
    /\ \/ /\ Head(chunk) = LF
          /\ NewLine
       \/ /\ Head(chunk) # LF
          /\ current' = Append(current, Head(chunk))
          /\ UNCHANGED lines
    /\ chunk' = Tail(chunk)
    /\ pc' = IF Len(chunk) = 1 THEN "read" ELSE "scan"
    /\ UNCHANGED <<childVars, pipe, fdOpen, lock, prevWasCr, consumerVars>>

\* Mutant: prev_was_cr is not reset by a byte of data, so that only the first
\* terminator of a chunk ends a line.
ScanByteStickyCr ==
    /\ pc = "scan"
    /\ \/ /\ Head(chunk) \in {CR, LF}
          /\ IF prevWasCr THEN UNCHANGED <<current, lines>> ELSE NewLine
          /\ prevWasCr' = TRUE
       \/ /\ IsData(Head(chunk))
          /\ current' = Append(current, Head(chunk))
          /\ UNCHANGED <<lines, prevWasCr>>
    /\ chunk' = Tail(chunk)
    /\ pc' = IF Len(chunk) = 1 THEN "read" ELSE "scan"
    /\ UNCHANGED <<childVars, pipe, fdOpen, lock, consumerVars>>

\* One turn of the loop over the buffer.
ScanByte ==
    /\ pc = "scan"
    /\ \/ /\ Head(chunk) = CR
          /\ NewLine
          /\ prevWasCr' = TRUE
       \/ /\ Head(chunk) = LF
          /\ IF prevWasCr THEN UNCHANGED <<current, lines>> ELSE NewLine
          /\ prevWasCr' = TRUE
       \/ /\ IsData(Head(chunk))
          /\ current' = Append(current, Head(chunk))
          /\ prevWasCr' = FALSE
          /\ UNCHANGED lines
    /\ chunk' = Tail(chunk)
    /\ pc' = IF Len(chunk) = 1 THEN "read" ELSE "scan"
    /\ UNCHANGED <<childVars, pipe, fdOpen, lock, consumerVars>>

\* exit_loop: the unfinished line is flushed, the waiters are notified and
\* the lock_guard goes out of scope.
DrainExit ==
    /\ pc = "exit"
    /\ FlushCurrent
    /\ NotifyAll
    /\ lock' = NoOne
    /\ pc' = "poll"
    /\ UNCHANGED <<childVars, pipe, fdOpen, chunk, prevWasCr, budget, taken>>

\* ReadPipe::close(), called by read() as its thread ends.  It does not take
\* m_lock.
Close ==
    /\ pc = "close"
    /\ FlushCurrent
    /\ NotifyAll
    /\ fdOpen' = FALSE
    /\ pc' = "done"
    /\ UNCHANGED <<childVars, pipe, lock, chunk, prevWasCr, budget, taken>>

ReaderNext ==
    \/ PollIn \/ PollFails \/ DrainLock \/ ReadChunk \/ ReadEnds
    \/ ScanByte \/ DrainExit \/ Close

-----------------------------------------------------------------------------
(* The threads that own the process.                                       *)

\* Enter lines() ("take") or expect() ("check"): both start with the lock.
Call(c, method) ==
    /\ at[c] = "idle"
    /\ budget[c] > 0
    /\ lock = NoOne
    /\ lock' = c
    /\ at' = [at EXCEPT ![c] = method]
    /\ budget' = [budget EXCEPT ![c] = @ - 1]
    /\ UNCHANGED <<childVars, pipe, current, lines, readerVars, taken>>

\* lines(): all the lines move to the caller.
Take(c) ==
    /\ at[c] = "take"
    /\ taken' = taken \o lines
    /\ lines' = <<>>
    /\ lock' = NoOne
    /\ at' = [at EXCEPT ![c] = "idle"]
    /\ UNCHANGED <<childVars, pipe, current, readerVars, budget>>

\* expect() finds a line and returns.
ExpectReturns(c) ==
    /\ at[c] = "check"
    /\ lines # <<>>
    /\ lock' = NoOne
    /\ at' = [at EXCEPT ![c] = "idle"]
    /\ UNCHANGED <<childVars, pipe, current, lines, readerVars, budget, taken>>

\* expect() finds none: wait() releases the lock and blocks in one step.
ExpectWaits(c) ==
    /\ at[c] = "check"
    /\ lines = <<>>
    /\ lock' = NoOne
    /\ at' = [at EXCEPT ![c] = "wait"]
    /\ UNCHANGED <<childVars, pipe, current, lines, readerVars, budget, taken>>

\* A condition variable may wake a waiter without a notification.
SpuriousWakeup(c) ==
    /\ at[c] = "wait"
    /\ budget[c] > 0
    /\ at' = [at EXCEPT ![c] = "relock"]
    /\ budget' = [budget EXCEPT ![c] = @ - 1]
    /\ UNCHANGED <<childVars, pipe, lock, current, lines, readerVars, taken>>

\* wait() gets the lock back and the loop tests again.
Relock(c) ==
    /\ at[c] = "relock"
    /\ lock = NoOne
    /\ lock' = c
    /\ at' = [at EXCEPT ![c] = "check"]
    /\ UNCHANGED <<childVars, pipe, current, lines, readerVars, budget, taken>>

ConsumerResumes(c) == Take(c) \/ ExpectReturns(c) \/ ExpectWaits(c) \/ Relock(c)

-----------------------------------------------------------------------------
Next ==
    \/ \E ch \in {CR, LF, Len(written) + 1} : ChildWrite(ch)
    \/ ChildExit
    \/ ReaderNext
    \/ \E c \in Consumers :
          \/ \E method \in {"take", "check"} : Call(c, method)
          \/ ConsumerResumes(c)
          \/ SpuriousWakeup(c)

Spec == Init /\ [][Next]_vars

\* Both kinds of thread keep running: the reader never blocks except for the
\* lock, and a call that was made goes on.  Nothing makes the child write,
\* the consumers call or a system call fail.
FairSpec ==
    /\ Spec
    /\ WF_vars(ReaderNext)
    /\ \A c \in Consumers : WF_vars(ConsumerResumes(c))

-----------------------------------------------------------------------------
(* Properties.                                                             *)

TypeOK ==
    /\ written \in Seq(Byte)
    /\ childOpen \in BOOLEAN
    /\ pipe \in Seq(Byte)
    /\ fdOpen \in BOOLEAN
    /\ lock \in Consumers \union {Reader, NoOne}
    /\ current \in Line
    /\ lines \in Seq(Line)
    /\ pc \in {"poll", "lock", "read", "scan", "exit", "close", "done"}
    /\ chunk \in Seq(Byte)
    /\ prevWasCr \in BOOLEAN
    /\ at \in [Consumers -> {"idle", "take", "check", "wait", "relock"}]
    /\ budget \in [Consumers -> 0..Budget]
    /\ taken \in Seq(Line)

\* A line that is only half put together exists only while drain() holds
\* m_lock.  close() relies on it: it tests and moves m_current without the
\* lock, and would race with lines() on m_lines if there were one.
PartialLineOnlyUnderLock ==
    lock # Reader => current = <<>> /\ chunk = <<>>

\* No lost wakeup: once drain() has let go of the lock, no thread waits in
\* expect() while there is a line for it, whatever the order of its test,
\* its wait and drain()'s notification.
NoLostWakeup ==
    lock # Reader /\ lines # <<>> => \A c \in Consumers : at[c] # "wait"

\* The bytes of data in a text.
DataIn(s) ==
    LET data[i \in 0..Len(s)] ==
            IF i = 0 THEN <<>>
            ELSE IF IsData(s[i]) THEN Append(data[i - 1], s[i])
            ELSE data[i - 1]
    IN  data[Len(s)]

\* What the owner has received, what waits for it and what is on its way are
\* together the data the child wrote, in order: nothing is lost or doubled,
\* however the reads cut the text and whoever took the lines.
NothingLostOrReordered ==
    FlattenSeq(taken \o lines \o <<current>>) \o DataIn(chunk \o pipe) = DataIn(written)

-----------------------------------------------------------------------------
Channel == INSTANCE LineChannel WITH
    pending <- current \o chunk \o pipe, held <- lines, taken <- taken

\* The reader, the pipe and the consumers together are a LineChannel: drain()
\* never joins, drops, doubles or reorders what the child wrote.
ImplementsChannel == Channel!Spec

\* All the child has written becomes lines, even if it never ends its last
\* line: drain() flushes what it has when the pipe is empty.
OutputBecomesLines ==
    pipe # <<>> ~> pipe = <<>> /\ chunk = <<>> /\ current = <<>>

\* A thread in expect() comes back once there is a line, unless another
\* thread takes the line first.
ExpectIsReleased ==
    \A c \in Consumers :
        at[c] \in {"check", "wait", "relock"} /\ lines # <<>>
            ~> at[c] = "idle" \/ lines = <<>>
=============================================================================
