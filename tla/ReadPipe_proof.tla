--------------------------- MODULE ReadPipe_proof ---------------------------
(***************************************************************************)
(* What holds of ReadPipe for any number of consumers, any size of pipe    *)
(* and buffer and whatever system calls fail.                              *)
(***************************************************************************)
EXTENDS ReadPipe, SequenceTheorems, WellFoundedInduction, TLAPS

\* A byte of data extends a line, the empty line is one, and a line extends
\* the lines.
LEMMA LineFacts ==
    /\ <<>> \in Line
    /\ \A l \in Line, d \in 1..MaxBytes : Append(l, d) \in Line
    /\ <<>> \in Seq(Line)
    /\ \A ls \in Seq(Line), l \in Line : Append(ls, l) \in Seq(Line)
<1>1. /\ <<>> \in Line
      /\ \A l \in Line, d \in 1..MaxBytes : Append(l, d) \in Line
  BY EmptySeq, AppendProperties DEF Line
<1>2. /\ <<>> \in Seq(Line)
      /\ \A ls \in Seq(Line), l \in Line : Append(ls, l) \in Seq(Line)
  BY EmptySeq, AppendProperties
<1> QED
  BY <1>1, <1>2

\* Head and tail of the bytes drain() still has to scan.
LEMMA ChunkFacts ==
    ASSUME NEW s \in Seq(Byte), s # <<>>
    PROVE  /\ Head(s) \in Byte
           /\ Tail(s) \in Seq(Byte)
           /\ IsData(Head(s)) => Head(s) \in 1..MaxBytes
           /\ Len(s) \in Nat \ {0}
           /\ Len(s) # 1 => Tail(s) # <<>>
           /\ Len(s) = 1 => Tail(s) = <<>>
<1>1. /\ Head(s) \in Byte
      /\ Tail(s) \in Seq(Byte)
      /\ Len(Tail(s)) = Len(s) - 1
      /\ Len(s) \in Nat \ {0}
  BY HeadTailProperties, EmptySeq
<1>2. Tail(s) = <<>> <=> Len(Tail(s)) = 0
  BY <1>1, EmptySeq
<1>3. Len(Tail(s)) = 0 <=> Len(s) = 1
  BY <1>1
<1>4. IsData(Head(s)) => Head(s) \in 1..MaxBytes
  BY <1>1 DEF IsData, Byte, CR, LF
<1> QED
  BY <1>1, <1>2, <1>3, <1>4, Zenon

\* The two ends of what is in the pipe when ::read takes n bytes of it.
LEMMA CutFacts ==
    ASSUME NEW s \in Seq(Byte), NEW n \in 1..Len(s)
    PROVE  /\ SubSeq(s, 1, n) \in Seq(Byte)
           /\ SubSeq(s, 1, n) # <<>>
           /\ SubSeq(s, n + 1, Len(s)) \in Seq(Byte)
           /\ SubSeq(s, 1, n) \o SubSeq(s, n + 1, Len(s)) = s
<1>1. Len(s) \in Nat /\ \A i \in 1..Len(s) : s[i] \in Byte
  BY LenProperties
<1>2. /\ SubSeq(s, 1, n) \in Seq(Byte)
      /\ Len(SubSeq(s, 1, n)) = n
  BY <1>1, SubSeqProperties
<1>3. SubSeq(s, n + 1, Len(s)) \in Seq(Byte)
  BY <1>1, SubSeqProperties
<1>4. SubSeq(s, 1, n) \o SubSeq(s, n + 1, Len(s)) = SubSeq(s, 1, Len(s))
  BY <1>1, ConcatAdjacentSubSeq
<1>5. SubSeq(s, 1, Len(s)) = s
  BY SubSeqFull
<1>6. SubSeq(s, 1, n) # <<>>
  BY <1>2, EmptySeq
<1> QED
  BY <1>2, <1>3, <1>4, <1>5, <1>6, Zenon

\* What drain() may find in its buffer: never nothing while it scans.
ScanHasInput == pc = "scan" <=> chunk # <<>>

-----------------------------------------------------------------------------
\* The state of every variable has its type, m_lines and the owner receive
\* lines of data only, and the loop over the buffer never runs past its end.
THEOREM TypeCorrect == Spec => [](TypeOK /\ ScanHasInput)
<1> DEFINE Inv == TypeOK /\ ScanHasInput
<1>1. Init => Inv
  <2> SUFFICES ASSUME Init PROVE Inv
    OBVIOUS
  <2>1. <<>> \in Seq(Byte) /\ <<>> \in Seq(Line) /\ <<>> \in Line
    BY EmptySeq, LineFacts
  <2>2. /\ at \in [Consumers -> {"idle", "take", "check", "wait", "relock"}]
        /\ budget \in [Consumers -> 0..Budget]
        /\ lock \in Consumers \union {Reader, NoOne}
        /\ pc \in {"poll", "lock", "read", "scan", "exit", "close", "done"}
        /\ pc # "scan"
    BY SizesAssumption DEF Init
  <2>3. TypeOK
    BY <2>1, <2>2, Zenon DEF Init, TypeOK
  <2>4. ScanHasInput
    BY <2>2, Zenon DEF Init, ScanHasInput
  <2> QED
    BY <2>3, <2>4
<1>2. Inv /\ [Next]_vars => Inv'
  <2> SUFFICES ASSUME Inv, [Next]_vars PROVE Inv'
    OBVIOUS
  <2> USE DEF TypeOK, ScanHasInput, childVars, readerVars, consumerVars
  <2>1. ASSUME NEW ch \in {CR, LF, Len(written) + 1}, ChildWrite(ch)
        PROVE  Inv'
    <3>1. ch \in Byte
      BY <2>1, SizesAssumption, LenProperties DEF ChildWrite, Byte
    <3>2. Append(written, ch) \in Seq(Byte) /\ Append(pipe, ch) \in Seq(Byte)
      BY <3>1, AppendProperties
    <3> QED
      BY <2>1, <3>2 DEF ChildWrite
  <2>2. CASE ChildExit
    BY <2>2 DEF ChildExit
  <2>3. CASE PollIn \/ PollFails
    BY <2>3 DEF PollIn, PollFails
  <2>4. CASE DrainLock
    BY <2>4 DEF DrainLock
  <2>5. CASE ReadChunk
    <3> DEFINE n == IF Len(pipe) < BufferSize THEN Len(pipe) ELSE BufferSize
    <3>1. n \in 1..Len(pipe)
      BY <2>5, SizesAssumption, EmptySeq DEF ReadChunk
    <3>2. /\ SubSeq(pipe, 1, n) \in Seq(Byte)
          /\ SubSeq(pipe, 1, n) # <<>>
          /\ SubSeq(pipe, n + 1, Len(pipe)) \in Seq(Byte)
      BY <3>1, CutFacts
    <3> QED
      BY <2>5, <3>2 DEF ReadChunk
  <2>6. CASE ReadEnds
    BY <2>6 DEF ReadEnds
  <2>7. CASE ScanByte
    <3>1. chunk \in Seq(Byte) /\ chunk # <<>>
      BY <2>7 DEF ScanByte
    <3>2. chunk' \in Seq(Byte) /\ ScanHasInput'
      BY <2>7, <3>1, ChunkFacts DEF ScanByte
    <3>3. current' \in Line
      BY <2>7, <3>1, ChunkFacts, LineFacts DEF ScanByte, NewLine
    <3>4. lines' \in Seq(Line)
      BY <2>7, LineFacts DEF ScanByte, NewLine
    <3> QED
      BY <2>7, <3>2, <3>3, <3>4 DEF ScanByte
  <2>8. CASE DrainExit \/ Close
    <3>1. current' \in Line /\ lines' \in Seq(Line)
      BY <2>8, LineFacts
      DEF DrainExit, Close, FlushCurrent, NewLine
    <3>2. at' \in [Consumers -> {"idle", "take", "check", "wait", "relock"}]
      BY <2>8 DEF DrainExit, Close, NotifyAll
    <3> QED
      BY <2>8, <3>1, <3>2 DEF DrainExit, Close
  <2>9. ASSUME NEW c \in Consumers, NEW method \in {"take", "check"},
               Call(c, method)
        PROVE  Inv'
    BY <2>9, SizesAssumption DEF Call
  <2>10. ASSUME NEW c \in Consumers, Take(c)
         PROVE  Inv'
    <3>1. taken \o lines \in Seq(Line) /\ <<>> \in Seq(Line)
      BY ConcatProperties, EmptySeq
    <3> QED
      BY <2>10, <3>1 DEF Take
  <2>11. ASSUME NEW c \in Consumers, ExpectReturns(c) \/ ExpectWaits(c) \/ Relock(c)
         PROVE  Inv'
    BY <2>11 DEF ExpectReturns, ExpectWaits, Relock
  <2>12. ASSUME NEW c \in Consumers, SpuriousWakeup(c)
         PROVE  Inv'
    BY <2>12, SizesAssumption DEF SpuriousWakeup
  <2>13. CASE UNCHANGED vars
    BY <2>13 DEF vars
  <2> QED
    BY <2>1, <2>2, <2>3, <2>4, <2>5, <2>6, <2>7, <2>8, <2>9, <2>10, <2>11,
       <2>12, <2>13 DEF Next, ReaderNext, ConsumerResumes
<1> QED
  BY <1>1, <1>2, PTL DEF Spec

-----------------------------------------------------------------------------
(* The monitor: m_lock, m_condition and what they protect.                 *)

\* Who owns m_lock, as told by where the threads are.
LockOwner ==
    /\ lock = Reader <=> pc \in {"read", "scan", "exit"}
    /\ \A c \in Consumers : lock = c <=> at[c] \in {"take", "check"}

\* NoLostWakeup is not inductive by itself: a step of close(), which does not
\* take the lock, keeps it only because there is no partial line then, and a
\* thread goes to wait only with the lock in hand.
MonitorInv ==
    /\ LockOwner
    /\ PartialLineOnlyUnderLock
    /\ NoLostWakeup

LEMMA MonitorInductive ==
    ASSUME TypeOK, ScanHasInput, MonitorInv, [Next]_vars
    PROVE  MonitorInv'
<1> USE ThreadsAssumption
    DEF MonitorInv, LockOwner, PartialLineOnlyUnderLock, NoLostWakeup,
        ScanHasInput, childVars, readerVars, consumerVars
<1>0. /\ at \in [Consumers -> {"idle", "take", "check", "wait", "relock"}]
      /\ lock \in Consumers \union {Reader, NoOne}
      /\ pc \in {"poll", "lock", "read", "scan", "exit", "close", "done"}
  BY DEF TypeOK
<1>1. ASSUME NEW ch \in {CR, LF, Len(written) + 1}, ChildWrite(ch)
      PROVE  MonitorInv'
  BY <1>1 DEF ChildWrite
<1>2. CASE ChildExit
  BY <1>2 DEF ChildExit
<1>3. CASE PollIn \/ PollFails
  BY <1>3 DEF PollIn, PollFails
<1>4. CASE DrainLock
  BY <1>0, <1>4 DEF DrainLock
<1>5. CASE ReadChunk \/ ReadEnds
  BY <1>0, <1>5 DEF ReadChunk, ReadEnds
<1>6. CASE ScanByte
  BY <1>0, <1>6 DEF ScanByte
<1>7. CASE DrainExit
  <2>1. current' = <<>> /\ chunk' = <<>>
    BY <1>7 DEF DrainExit, FlushCurrent, NewLine
  <2>2. \A c \in Consumers :
           /\ at'[c] # "wait"
           /\ at'[c] \in {"take", "check"} <=> at[c] \in {"take", "check"}
    BY <1>0, <1>7 DEF DrainExit, NotifyAll
  <2> QED
    BY <1>0, <1>7, <2>1, <2>2 DEF DrainExit
<1>8. CASE Close
  <2>1. current = <<>> /\ chunk = <<>>
    BY <1>8 DEF Close
  <2>2. UNCHANGED <<current, lines, chunk, lock>>
    BY <1>8, <2>1 DEF Close, FlushCurrent
  <2>3. \A c \in Consumers :
           /\ at'[c] # "wait"
           /\ at'[c] \in {"take", "check"} <=> at[c] \in {"take", "check"}
    BY <1>0, <1>8 DEF Close, NotifyAll
  <2> QED
    BY <1>0, <1>8, <2>1, <2>2, <2>3 DEF Close
<1>9. ASSUME NEW c \in Consumers, NEW method \in {"take", "check"},
             Call(c, method)
      PROVE  MonitorInv'
  BY <1>0, <1>9 DEF Call
<1>10. ASSUME NEW c \in Consumers, Take(c)
       PROVE  MonitorInv'
  BY <1>0, <1>10 DEF Take
<1>11. ASSUME NEW c \in Consumers, ExpectReturns(c) \/ ExpectWaits(c)
       PROVE  MonitorInv'
  BY <1>0, <1>11 DEF ExpectReturns, ExpectWaits
<1>12. ASSUME NEW c \in Consumers, Relock(c) \/ SpuriousWakeup(c)
       PROVE  MonitorInv'
  BY <1>0, <1>12 DEF Relock, SpuriousWakeup
<1>13. CASE UNCHANGED vars
  BY <1>13 DEF vars
<1> QED
  BY <1>1, <1>2, <1>3, <1>4, <1>5, <1>6, <1>7, <1>8, <1>9, <1>10, <1>11,
     <1>12, <1>13 DEF Next, ReaderNext, ConsumerResumes

\* No thread is left waiting in expect() with a line in m_lines once drain()
\* has released the lock, for any number of threads in lines() and expect().
THEOREM NoWakeupIsLost == Spec => []NoLostWakeup
<1>1. Init => MonitorInv
  BY ThreadsAssumption
  DEF Init, MonitorInv, LockOwner, PartialLineOnlyUnderLock, NoLostWakeup
<1>2. TypeOK /\ ScanHasInput /\ MonitorInv /\ [Next]_vars => MonitorInv'
  BY MonitorInductive
<1>3. MonitorInv => NoLostWakeup
  BY DEF MonitorInv
<1> QED
  BY <1>1, <1>2, <1>3, TypeCorrect, PTL DEF Spec

\* Outside drain() there never is an unfinished line, so that close() touches
\* neither m_current nor m_lines although it does not take the lock.
THEOREM PartialLineIsProtected == Spec => []PartialLineOnlyUnderLock
<1>1. Init => MonitorInv
  BY ThreadsAssumption
  DEF Init, MonitorInv, LockOwner, PartialLineOnlyUnderLock, NoLostWakeup
<1>2. TypeOK /\ ScanHasInput /\ MonitorInv /\ [Next]_vars => MonitorInv'
  BY MonitorInductive
<1>3. MonitorInv => PartialLineOnlyUnderLock
  BY DEF MonitorInv
<1> QED
  BY <1>1, <1>2, <1>3, TypeCorrect, PTL DEF Spec

-----------------------------------------------------------------------------
(* A ReadPipe is a LineChannel.                                            *)

\* The two parts of a concatenation.
LEMMA ConcatParts ==
    ASSUME NEW S, NEW a \in Seq(S), NEW r \in Seq(S)
    PROVE  /\ SubSeq(a \o r, 1, Len(a)) = a
           /\ SubSeq(a \o r, Len(a) + 1, Len(a \o r)) = r
           /\ Len(a) <= Len(a \o r)
<1>1. /\ a \o r \in Seq(S)
      /\ Len(a \o r) = Len(a) + Len(r)
      /\ Len(a) \in Nat /\ Len(r) \in Nat
      /\ \A i \in 1..Len(a) + Len(r) :
            (a \o r)[i] = IF i <= Len(a) THEN a[i] ELSE r[i - Len(a)]
      /\ \A i \in 1..Len(a \o r) : (a \o r)[i] \in S
  BY ConcatProperties, LenProperties
<1>2. SubSeq(a \o r, 1, Len(a)) = a
  <2>1. /\ SubSeq(a \o r, 1, Len(a)) \in Seq(S)
        /\ Len(SubSeq(a \o r, 1, Len(a))) = Len(a)
        /\ \A i \in 1..Len(a) : SubSeq(a \o r, 1, Len(a))[i] = (a \o r)[i]
    BY <1>1, SubSeqProperties
  <2>2. \A i \in 1..Len(a) : (a \o r)[i] = a[i]
    BY <1>1
  <2> QED
    BY <2>1, <2>2, SeqEqual
<1>3. SubSeq(a \o r, Len(a) + 1, Len(a \o r)) = r
  <2> DEFINE t == SubSeq(a \o r, Len(a) + 1, Len(a \o r))
  <2>1. /\ t \in Seq(S)
        /\ Len(t) = Len(r)
        /\ \A i \in 1..Len(r) : t[i] = (a \o r)[Len(a) + i]
    BY <1>1, SubSeqProperties
  <2>2. \A i \in 1..Len(r) : (a \o r)[Len(a) + i] = r[i]
    BY <1>1
  <2> HIDE DEF t
  <2>3. t = r
    BY <2>1, <2>2, SeqEqual
  <2> QED
    BY <2>3 DEF t
<1> QED
  BY <1>1, <1>2, <1>3

\* A sequence is its head and its tail.
LEMMA HeadThenTail ==
    ASSUME NEW S, NEW s \in Seq(S), s # <<>>
    PROVE  /\ s = <<Head(s)>> \o Tail(s)
           /\ Head(s) \in S
           /\ Tail(s) \in Seq(S)
<1>1. Len(s) \in Nat \ {0} /\ 1 \in 1..Len(s) /\ Len(s) \in 1..Len(s)
  BY EmptySeq
<1>2. SubSeq(s, 1, Len(s)) = <<s[1]>> \o SubSeq(s, 2, Len(s))
  BY <1>1, SubSeqRecursiveFirst
<1>3. Head(s) = s[1]
  BY <1>1
<1> QED
  BY <1>2, <1>3, SubSeqFull, TailIsSubSeq, HeadTailProperties

\* After a terminator there is no unfinished line.
AfterTerminator == pc = "scan" /\ prevWasCr => current = <<>>

\* What the reader still has of the child's output.
Transit == current \o chunk \o pipe

\* A line is text the child can write.
LEMMA TransitTypes ==
    ASSUME TypeOK
    PROVE  /\ current \in Seq(Byte)
           /\ Len(current) \in Nat
           /\ \A i \in 1..Len(current) : IsData(current[i])
           /\ chunk \in Seq(Byte)
           /\ pipe \in Seq(Byte)
           /\ Transit \in Seq(Byte)
<1>1. current \in Seq(1..MaxBytes) /\ chunk \in Seq(Byte) /\ pipe \in Seq(Byte)
  BY DEF TypeOK, Line
<1>2. current \in Seq(Byte)
  BY <1>1, SeqMonotonic DEF Byte
<1>3. /\ Len(current) \in Nat
      /\ \A i \in 1..Len(current) : current[i] \in 1..MaxBytes
  BY <1>1, LenProperties
<1>4. current \o chunk \in Seq(Byte)
  BY <1>1, <1>2, ConcatProperties
<1>5. Transit \in Seq(Byte)
  BY <1>1, <1>4, ConcatProperties DEF Transit
<1> QED
  BY <1>1, <1>2, <1>3, <1>5 DEF IsData

\* The text the reader still has, when the next byte to scan is the head of
\* its buffer: the unfinished line, that byte, and what comes after it.
LEMMA TransitFacts ==
    ASSUME TypeOK, chunk # <<>>
    PROVE  /\ Tail(chunk) \o pipe \in Seq(Byte)
           /\ Append(current, Head(chunk)) \o Tail(chunk) \o pipe = Transit
           /\ Len(current) + 1 <= Len(Transit)
           /\ Transit[Len(current) + 1] = Head(chunk)
           /\ SubSeq(Transit, 1, Len(current)) = current
           /\ SubSeq(Transit, Len(current) + 2, Len(Transit))
                = Tail(chunk) \o pipe
<1> DEFINE R == Tail(chunk) \o pipe
           h == Head(chunk)
           first == current \o <<h>>
<1>1. current \in Seq(Byte) /\ chunk \in Seq(Byte) /\ pipe \in Seq(Byte)
  BY TransitTypes
<1>2. /\ chunk = <<h>> \o Tail(chunk)
      /\ h \in Byte
      /\ Tail(chunk) \in Seq(Byte)
      /\ <<h>> \in Seq(Byte)
      /\ R \in Seq(Byte)
  BY <1>1, HeadThenTail, ConcatProperties
<1>3. /\ first \in Seq(Byte)
      /\ Len(first) = Len(current) + 1
      /\ first[Len(current) + 1] = h
      /\ Append(current, h) = first
      /\ Len(current) \in Nat
  BY <1>1, <1>2, ConcatProperties, AppendProperties, AppendIsConcat, LenProperties
<1>4. \A a, b, c \in Seq(Byte) : (a \o b) \o c = a \o (b \o c)
  BY ConcatAssociative, SMTT(30)
<1>5. current \o chunk = first \o Tail(chunk)
  <2>1. current \in Seq(Byte) /\ <<h>> \in Seq(Byte) /\ Tail(chunk) \in Seq(Byte)
    BY <1>1, <1>2
  <2>2. first \o Tail(chunk) = current \o (<<h>> \o Tail(chunk))
    BY <1>4, <2>1, Zenon
  <2> QED
    BY <1>2, <2>2, Zenon
<1> HIDE DEF first
<1>6. first \o Tail(chunk) \o pipe = Transit
  BY <1>5 DEF Transit
<1>7. Transit = first \o R
  <2>1. first \in Seq(Byte) /\ Tail(chunk) \in Seq(Byte) /\ pipe \in Seq(Byte)
    BY <1>1, <1>2, <1>3
  <2>2. (first \o Tail(chunk)) \o pipe = first \o (Tail(chunk) \o pipe)
    BY <1>4, <2>1, Zenon
  <2> QED
    BY <1>6, <2>2, Zenon
<1>8. SubSeq(Transit, 1, Len(current)) = current
  <2>1. Transit = current \o (chunk \o pipe) /\ chunk \o pipe \in Seq(Byte)
    BY <1>1, <1>4, ConcatProperties DEF Transit
  <2> QED
    BY <1>1, <2>1, ConcatParts
<1> HIDE DEF R, h
<1>9. /\ Len(first) <= Len(Transit)
      /\ SubSeq(Transit, Len(first) + 1, Len(Transit)) = R
  <2>1. \A a, r \in Seq(Byte) :
           /\ Len(a) <= Len(a \o r)
           /\ SubSeq(a \o r, Len(a) + 1, Len(a \o r)) = r
    BY ConcatParts
  <2> QED
    BY <1>2, <1>3, <1>7, <2>1, Zenon
<1>10. Transit[Len(current) + 1] = h
  <2>1. Len(R) \in Nat
    BY <1>2, LenProperties
  <2> QED
    BY <1>2, <1>3, <1>7, <2>1, ConcatProperties
<1>11. /\ Len(current) + 1 <= Len(Transit)
       /\ SubSeq(Transit, Len(current) + 2, Len(Transit)) = R
  <2>1. Len(current) + 2 = Len(first) + 1
    BY <1>3
  <2> QED
    BY <1>3, <1>9, <2>1
<1>12. Append(current, h) \o Tail(chunk) \o pipe = Transit
  BY <1>3, <1>6, Zenon
<1> QED
  BY <1>2, <1>8, <1>10, <1>11, <1>12, Zenon DEF R, h

\* drain() completes a line: the channel delivers it.  `ends` tells whether a
\* terminator goes with it.
LEMMA NewLineDelivers ==
    ASSUME TypeOK, NewLine, UNCHANGED taken, NEW ends \in {0, 1},
           Len(current) + ends <= Len(Transit),
           SubSeq(Transit, 1, Len(current)) = current,
           Transit' = SubSeq(Transit, Len(current) + ends + 1, Len(Transit))
    PROVE  Channel!Deliver(Len(current), ends)
<1>1. Channel!AllData(SubSeq(Transit, 1, Len(current)))
  BY TransitTypes DEF Channel!AllData, Channel!IsData, IsData
<1> QED
  BY <1>1 DEF Channel!Deliver, NewLine, Transit

\* One byte of drain()'s buffer.
LEMMA ScanByteStep ==
    ASSUME TypeOK, ScanHasInput, AfterTerminator, ScanByte
    PROVE  [Channel!Next]_(Channel!vars)
<1> DEFINE n == Len(current)
           h == Head(chunk)
<1>1. chunk # <<>> /\ UNCHANGED <<pipe, taken>> /\ chunk' = Tail(chunk)
  BY DEF ScanByte, ScanHasInput, consumerVars
<1>2. /\ Tail(chunk) \o pipe \in Seq(Byte)
      /\ Append(current, h) \o Tail(chunk) \o pipe = Transit
      /\ n + 1 <= Len(Transit)
      /\ Transit[n + 1] = h
      /\ SubSeq(Transit, 1, n) = current
      /\ SubSeq(Transit, n + 2, Len(Transit)) = Tail(chunk) \o pipe
  BY <1>1, TransitFacts
<1>3. n \in Nat /\ Len(Transit) \in Nat /\ n \in 0..(Len(Transit) - 1)
  BY <1>2, TransitTypes, LenProperties
<1>4. current' = <<>> => Transit' = Tail(chunk) \o pipe
  <2>1. Tail(chunk) \in Seq(Byte)
    BY <1>1, TransitTypes, HeadTailProperties
  <2>2. <<>> \o Tail(chunk) = Tail(chunk)
    BY <2>1, ConcatEmptySeq
  <2> QED
    BY <1>1, <2>2 DEF Transit
<1>5. ASSUME h \in {CR, LF}, NewLine
      PROVE  Channel!Next
  <2>1. Transit' = SubSeq(Transit, n + 1 + 1, Len(Transit))
    <3>1. n + 1 + 1 = n + 2
      BY <1>3
    <3> QED
      BY <1>2, <1>4, <1>5, <3>1 DEF NewLine
  <2>2. Channel!Deliver(n, 1)
    BY <1>1, <1>2, <1>5, <2>1, NewLineDelivers
  <2>3. ~Channel!IsData(Transit[n + 1])
    BY <1>2, <1>5 DEF Channel!IsData, CR, LF
  <2>4. Channel!EndLine(n)
    BY <2>2, <2>3 DEF Channel!EndLine, Transit
  <2> QED
    BY <1>3, <2>4 DEF Channel!Next, Transit
<1>6. ASSUME h = LF, prevWasCr, UNCHANGED <<current, lines>>
      PROVE  Channel!Next
  <2>1. current = <<>> /\ n = 0
    BY <1>6, EmptySeq DEF AfterTerminator, ScanByte
  <2>2. Transit # <<>> /\ Transit[1] = LF
    BY <1>2, <1>3, <1>6, <2>1, EmptySeq
  <2>3. Transit' = Tail(Transit)
    BY <1>2, <1>4, <1>6, <2>1, <2>2, TransitTypes, TailIsSubSeq
  <2>4. Channel!SkipTerminator
    BY <1>1, <1>6, <2>2, <2>3, SMTT(30) DEF Channel!SkipTerminator, Channel!IsData, LF, Transit
  <2> QED
    BY <2>4 DEF Channel!Next
<1>7. ASSUME current' = Append(current, h), UNCHANGED lines
      PROVE  UNCHANGED Channel!vars
  BY <1>1, <1>2, <1>7 DEF Channel!vars, Transit
<1> QED
  BY <1>5, <1>6, <1>7 DEF ScanByte

\* The unfinished line at the end of drain().
LEMMA DrainExitStep ==
    ASSUME TypeOK, ScanHasInput, DrainExit
    PROVE  [Channel!Next]_(Channel!vars)
<1> DEFINE n == Len(current)
<1>1. chunk = <<>> /\ UNCHANGED <<chunk, pipe, taken>>
  BY DEF DrainExit, ScanHasInput
<1>2. CASE current = <<>>
  BY <1>1, <1>2 DEF DrainExit, FlushCurrent, Channel!vars
<1>3. CASE current # <<>>
  <2>1. NewLine /\ n \in Nat \ {0}
    BY <1>3, TransitTypes, EmptySeq DEF DrainExit, FlushCurrent
  <2>2. Transit = current \o pipe
    BY <1>1, TransitTypes, ConcatEmptySeq DEF Transit
  <2>3. Transit' = pipe
    BY <1>1, <2>1, TransitTypes, ConcatEmptySeq, EmptySeq DEF Transit, NewLine
  <2>4. /\ SubSeq(Transit, 1, n) = current
        /\ SubSeq(Transit, n + 1, Len(Transit)) = pipe
        /\ n <= Len(Transit)
    BY <2>2, TransitTypes, ConcatParts
  <2>5. Channel!Deliver(n, 0)
    <3>1. n + 0 = n
      BY <2>1
    <3> QED
      BY <1>1, <2>1, <2>3, <2>4, <3>1, NewLineDelivers
  <2>6. n \in 1..Len(Transit)
    BY <2>1, <2>4, TransitTypes, LenProperties
  <2>7. Channel!CutLine(n)
    BY <2>1, <2>5 DEF Channel!CutLine
  <2> QED
    BY <2>6, <2>7 DEF Channel!Next, Transit
<1> QED
  BY <1>2, <1>3

LEMMA AfterTerminatorInductive ==
    ASSUME TypeOK, ScanHasInput, MonitorInv, AfterTerminator, [Next]_vars
    PROVE  AfterTerminator'
<1> USE DEF AfterTerminator, childVars, readerVars, consumerVars
<1>1. CASE ReaderNext
  BY <1>1 DEF ReaderNext, PollIn, PollFails, DrainLock, ReadChunk, ReadEnds,
              ScanByte, NewLine, DrainExit, Close
<1>2. CASE UNCHANGED <<pc, prevWasCr, current>>
  BY <1>2
<1>3. ASSUME NEW c \in Consumers,
             \/ \E method \in {"take", "check"} : Call(c, method)
             \/ ConsumerResumes(c)
             \/ SpuriousWakeup(c)
      PROVE  UNCHANGED <<pc, prevWasCr, current>>
  BY <1>3 DEF Call, ConsumerResumes, Take, ExpectReturns, ExpectWaits, Relock,
              SpuriousWakeup
<1>4. ASSUME NEW ch \in {CR, LF, Len(written) + 1}, ChildWrite(ch)
      PROVE  UNCHANGED <<pc, prevWasCr, current>>
  BY <1>4 DEF ChildWrite
<1>5. ChildExit => UNCHANGED <<pc, prevWasCr, current>>
  BY DEF ChildExit
<1> QED
  BY <1>1, <1>2, <1>3, <1>4, <1>5 DEF Next, vars

\* Each step of the threads is a step of the channel, or invisible in it.
LEMMA ChannelStep ==
    ASSUME TypeOK, ScanHasInput, MonitorInv, AfterTerminator, [Next]_vars
    PROVE  [Channel!Next]_(Channel!vars)
<1> USE DEF childVars, readerVars, consumerVars, Channel!vars
<1>1. ASSUME NEW ch \in {CR, LF, Len(written) + 1}, ChildWrite(ch)
      PROVE  Channel!Next
  <2>1. ch \in Byte
    BY <1>1, SizesAssumption, LenProperties DEF ChildWrite, Byte, TypeOK
  <2>2. current \o chunk \in Seq(Byte) /\ pipe \in Seq(Byte)
    BY TransitTypes, ConcatProperties
  <2>3. (current \o chunk) \o Append(pipe, ch) = Append((current \o chunk) \o pipe, ch)
    <3>1. /\ <<ch>> \in Seq(Byte)
          /\ Append(pipe, ch) = pipe \o <<ch>>
          /\ (current \o chunk) \o pipe \in Seq(Byte)
      BY <2>1, <2>2, AppendIsConcat, ConcatProperties
    <3>2. Append((current \o chunk) \o pipe, ch) = ((current \o chunk) \o pipe) \o <<ch>>
      BY <2>1, <3>1, AppendIsConcat
    <3> QED
      BY <2>2, <3>1, <3>2, ConcatAssociative, SMTT(30)
  <2>4. Channel!Send(ch)
    BY <1>1, <2>3 DEF ChildWrite, Channel!Send
  <2> QED
    BY <2>1, <2>4 DEF Channel!Next
<1>2. CASE ChildExit
  BY <1>2 DEF ChildExit
<1>3. CASE PollIn \/ PollFails \/ DrainLock \/ ReadEnds
  BY <1>3 DEF PollIn, PollFails, DrainLock, ReadEnds
<1>4. CASE ReadChunk
  <2> DEFINE n == IF Len(pipe) < BufferSize THEN Len(pipe) ELSE BufferSize
  <2>1. n \in 1..Len(pipe) /\ pipe \in Seq(Byte)
    BY <1>4, SizesAssumption, EmptySeq DEF ReadChunk, TypeOK
  <2>2. chunk = <<>>
    BY <1>4 DEF ReadChunk, ScanHasInput
  <2>3. /\ chunk' \in Seq(Byte)
        /\ pipe' \in Seq(Byte)
        /\ chunk' \o pipe' = pipe
        /\ UNCHANGED <<current, lines, taken>>
    BY <1>4, <2>1, CutFacts DEF ReadChunk
  <2>4. current \in Seq(Byte) /\ current \o chunk = current
    BY <2>2, TransitTypes, ConcatEmptySeq
  <2>5. (current \o chunk') \o pipe' = current \o (chunk' \o pipe')
    <3>1. \A a, b, c \in Seq(Byte) : (a \o b) \o c = a \o (b \o c)
      BY ConcatAssociative, SMTT(30)
    <3>2. current \in Seq(Byte) /\ chunk' \in Seq(Byte) /\ pipe' \in Seq(Byte)
      BY <2>3, <2>4
    <3> QED
      BY <3>1, <3>2, Zenon
  <2>6. current' \o chunk' \o pipe' = current \o chunk \o pipe
    BY <2>3, <2>4, <2>5
  <2> QED
    BY <2>3, <2>6
<1>5. CASE ScanByte
  BY <1>5, ScanByteStep
<1>6. CASE DrainExit
  BY <1>6, DrainExitStep
<1>7. CASE Close
  BY <1>7 DEF Close, FlushCurrent, MonitorInv, PartialLineOnlyUnderLock, LockOwner
<1>8. ASSUME NEW c \in Consumers, Take(c)
      PROVE  [Channel!Next]_(Channel!vars)
  <2>1. CASE lines = <<>>
    <3>1. taken \o lines = taken
      BY <2>1, ConcatEmptySeq DEF TypeOK
    <3> QED
      BY <1>8, <2>1, <3>1 DEF Take
  <2>2. CASE lines # <<>>
    <3>1. Channel!Take
      BY <1>8, <2>2 DEF Take, Channel!Take
    <3> QED
      BY <3>1 DEF Channel!Next
  <2> QED
    BY <2>1, <2>2
<1>9. ASSUME NEW c \in Consumers,
             \/ \E method \in {"take", "check"} : Call(c, method)
             \/ ExpectReturns(c) \/ ExpectWaits(c) \/ Relock(c)
             \/ SpuriousWakeup(c)
      PROVE  UNCHANGED Channel!vars
  BY <1>9 DEF Call, ExpectReturns, ExpectWaits, Relock, SpuriousWakeup
<1>10. CASE UNCHANGED vars
  BY <1>10 DEF vars
<1> QED
  BY <1>1, <1>2, <1>3, <1>4, <1>5, <1>6, <1>7, <1>8, <1>9, <1>10
  DEF Next, ReaderNext, ConsumerResumes

\* A ReadPipe implements a LineChannel: for any reads, wakeups, failures and
\* number of consumers, the lines taken and waiting are the child's output in
\* order, each byte once, and a line never spans a terminator.
THEOREM ReadPipeImplementsChannel == Spec => ImplementsChannel
<1>1. Init => MonitorInv /\ AfterTerminator
  BY ThreadsAssumption
  DEF Init, MonitorInv, LockOwner, PartialLineOnlyUnderLock, NoLostWakeup,
      AfterTerminator
<1>2. TypeOK /\ ScanHasInput /\ MonitorInv /\ AfterTerminator /\ [Next]_vars
        => MonitorInv' /\ AfterTerminator'
  BY MonitorInductive, AfterTerminatorInductive
<1>3. Init => Channel!Init
  <2>1. <<>> \in Seq(Byte)
    BY EmptySeq
  <2>2. <<>> \o <<>> \o <<>> = <<>>
    BY <2>1, ConcatEmptySeq
  <2> QED
    BY <2>2, Zenon DEF Init, Channel!Init
<1>4. TypeOK /\ ScanHasInput /\ MonitorInv /\ AfterTerminator /\ [Next]_vars
        => [Channel!Next]_(Channel!vars)
  BY ChannelStep
<1> QED
  BY <1>1, <1>2, <1>3, <1>4, TypeCorrect, PTL
  DEF Spec, ImplementsChannel, Channel!Spec

-----------------------------------------------------------------------------
(* Induction.  The library states it for predicates, which the provers do  *)
(* not instantiate; for sets it follows from the least element each set of *)
(* naturals has.                                                           *)

\* A set of naturals that is not empty has a least element.
LEMMA LeastNatural ==
    ASSUME NEW S, S \subseteq Nat, S # {}
    PROVE  \E least \in S : \A n \in S : least <= n
<1> DEFINE R == {ss \in Nat \X Nat : ss[1] < ss[2]}
<1>1. IsWellFoundedOn(R, Nat)
  BY NatLessThanWellFounded, Zenon DEF OpToRel
<1>2. \A x, y \in Nat : y < x => <<y, x>> \in R
  OBVIOUS
<1> HIDE DEF R
<1>3. PICK x \in S : \A y \in S : ~(<<y, x>> \in R)
  BY <1>1, WFMin, Zenon
<1>4. ASSUME NEW y \in S
      PROVE  x <= y
  <2>1. x \in Nat /\ y \in Nat
    OBVIOUS
  <2>2. ~(y < x)
    BY <1>2, <1>3, <2>1, Zenon
  <2> QED
    BY <2>1, <2>2
<1> QED
  BY <1>4

\* Induction over the naturals: the set of those that have the property.
LEMMA SetInduction ==
    ASSUME NEW S, 0 \in S, \A n \in Nat : n \in S => n + 1 \in S
    PROVE  Nat \subseteq S
<1> SUFFICES ASSUME ~(Nat \subseteq S) PROVE FALSE
  OBVIOUS
<1> DEFINE T == Nat \ S
<1>1. T \subseteq Nat /\ T # {}
  OBVIOUS
<1>2. PICK least \in T : \A n \in T : least <= n
  <2> HIDE DEF T
  <2> QED
    BY <1>1, LeastNatural
<1>3. least \in Nat \ {0}
  OBVIOUS
<1>4. least - 1 \in Nat /\ least - 1 \notin T /\ (least - 1) + 1 = least
  BY <1>2, <1>3
<1> QED
  BY <1>4

\* All sequences are made from the empty one.
LEMMA SequencesInduction ==
    ASSUME NEW X, NEW S, <<>> \in S,
           \A s \in Seq(X), x \in X : s \in S => Append(s, x) \in S
    PROVE  Seq(X) \subseteq S
<1> DEFINE T == {n \in Nat : \A s \in Seq(X) : Len(s) = n => s \in S}
<1>1. 0 \in T
  <2>1. \A s \in Seq(X) : Len(s) = 0 => s = <<>>
    BY EmptySeq
  <2> QED
    BY <2>1
<1>2. ASSUME NEW n \in Nat, n \in T
      PROVE  n + 1 \in T
  <2> SUFFICES ASSUME NEW s \in Seq(X), Len(s) = n + 1
               PROVE  s \in S
    OBVIOUS
  <2>1. s # <<>>
    BY EmptySeq
  <2>2. PICK front \in Seq(X), last \in X : s = Append(front, last)
    <3> DEFINE front == SubSeq(s, 1, n)
               last == s[n + 1]
    <3>1. last \in X
      BY ElementOfSeq
    <3>2. front \in Seq(X) /\ Len(front) = n /\ \A i \in 1..n : front[i] = s[i]
      BY ElementOfSeq, SubSeqProperties
    <3> HIDE DEF front, last
    <3>3. /\ Append(front, last) \in Seq(X) /\ Len(Append(front, last)) = n + 1
          /\ \A i \in 1..n : Append(front, last)[i] = front[i]
          /\ Append(front, last)[n + 1] = last
      BY <3>1, <3>2, AppendProperties
    <3>4. \A i \in 1..n + 1 : Append(front, last)[i] = s[i]
      <4>1. \A i \in 1..n + 1 : i \in 1..n \/ i = n + 1
        OBVIOUS
      <4> QED
        BY <3>2, <3>3, <4>1 DEF last
    <3>5. s = Append(front, last)
      BY <3>3, <3>4, SeqEqual
    <3> QED
      BY <3>1, <3>2, <3>5
  <2>3. Len(front) = n
    <3>1. Len(s) = Len(front) + 1 /\ Len(front) \in Nat
      BY <2>2, AppendProperties, LenProperties
    <3> QED
      BY <3>1
  <2> QED
    BY <1>2, <2>2, <2>3
<1> HIDE DEF T
<1>3. Nat \subseteq T
  BY <1>1, <1>2, SetInduction
<1>4. \A s \in Seq(X) : Len(s) \in T
  BY <1>3, LenProperties
<1> QED
  BY <1>4 DEF T

-----------------------------------------------------------------------------
(* The data in a text and in lines: DataIn and FlattenSeq by the functions  *)
(* they choose.                                                            *)

\* data is what DataIn computes for s, up to n.
DataStep(data, s, i) ==
    IF i = 0 THEN <<>>
    ELSE IF IsData(s[i]) THEN Append(data[i - 1], s[i])
    ELSE data[i - 1]

Computes(data, s, n) == data = [i \in 0..n |-> DataStep(data, s, i)]

\* What such a function is at each position of the text.
LEMMA ComputesIs ==
    ASSUME NEW data, NEW s, NEW n \in Nat, Computes(data, s, n), NEW i \in 0..n
    PROVE  /\ i = 0 => data[i] = <<>>
           /\ i # 0 => data[i] = IF IsData(s[i]) THEN Append(data[i - 1], s[i]) ELSE data[i - 1]
<1>1. [j \in 0..n |-> DataStep(data, s, j)][i] = DataStep(data, s, i)
  OBVIOUS
<1>2. data[i] = DataStep(data, s, i)
  BY <1>1, Zenon DEF Computes
<1> QED
  BY <1>2 DEF DataStep

\* There is such a function for every text.
LEMMA DataIsComputed ==
    ASSUME NEW s, NEW n \in Nat
    PROVE  \E data : Computes(data, s, n)
<1> DEFINE T == {m \in Nat : \E data : Computes(data, s, m)}
<1>1. 0 \in T
  <2> DEFINE data == [i \in 0..0 |-> <<>>]
  <2>1. data = [i \in 0..0 |-> DataStep(data, s, i)]
    BY DEF DataStep
  <2> HIDE DEF data
  <2>2. Computes(data, s, 0)
    BY <2>1 DEF Computes
  <2> QED
    BY <2>2
<1>2. ASSUME NEW m \in Nat, m \in T
      PROVE  m + 1 \in T
  <2>1. PICK data : Computes(data, s, m)
    BY <1>2
  <2> DEFINE more == [i \in 0..m + 1 |-> IF i <= m THEN data[i] ELSE DataStep(data, s, m + 1)]
  <2>2. /\ \A i \in 0..m : more[i] = data[i]
        /\ more[m + 1] = DataStep(data, s, m + 1)
        /\ DOMAIN more = 0..m + 1
        /\ more = [i \in 0..m + 1 |-> more[i]]
    OBVIOUS
  <2> HIDE DEF more
  <2>3. ASSUME NEW i \in 0..m + 1
        PROVE  more[i] = DataStep(more, s, i)
    <3>1. CASE i = 0
      <4>1. 0 \in 0..m
        OBVIOUS
      <4>2. more[0] = <<>>
        BY <2>1, <2>2, <4>1, ComputesIs
      <4> QED
        BY <3>1, <4>2 DEF DataStep
    <3>2. CASE i \in 1..m
      <4>1. data[i] = DataStep(data, s, i)
        BY <2>1, <3>2, ComputesIs DEF DataStep
      <4>2. more[i] = data[i] /\ more[i - 1] = data[i - 1]
        <5>1. i \in 0..m /\ i - 1 \in 0..m
          BY <3>2
        <5> QED
          BY <2>2, <5>1
      <4> QED
        BY <4>1, <4>2 DEF DataStep
    <3>3. CASE i = m + 1
      <4>1. more[i - 1] = data[i - 1]
        <5>1. i - 1 \in 0..m
          BY <3>3
        <5> QED
          BY <2>2, <5>1
      <4> QED
        BY <2>2, <3>3, <4>1 DEF DataStep
    <3> QED
      BY <3>1, <3>2, <3>3
  <2>4. Computes(more, s, m + 1)
    BY <2>2, <2>3, Zenon DEF Computes
  <2> QED
    BY <2>4
<1> HIDE DEF T
<1>3. n \in T
  BY <1>1, <1>2, SetInduction
<1> QED
  BY <1>3 DEF T

\* Texts that agree up to n have the same data up to n.
LEMMA ComputedOnce ==
    ASSUME NEW s, NEW t, NEW n \in Nat, NEW m \in Nat, n <= m, \A i \in 1..n : s[i] = t[i],
           NEW f, NEW g, Computes(f, s, n), Computes(g, t, m)
    PROVE  f[n] = g[n]
<1> DEFINE T == {i \in Nat : i <= n => f[i] = g[i]}
<1>1. 0 \in T
  BY ComputesIs
<1>2. ASSUME NEW i \in Nat, i \in T
      PROVE  i + 1 \in T
  <2> SUFFICES ASSUME i + 1 <= n
               PROVE  f[i + 1] = g[i + 1]
    OBVIOUS
  <2>1. i + 1 \in 0..n /\ i + 1 \in 0..m /\ i + 1 # 0 /\ (i + 1) - 1 = i /\ i + 1 \in 1..n
    OBVIOUS
  <2>2. f[i] = g[i]
    BY <1>2
  <2>3. /\ f[i + 1] = IF IsData(s[i + 1]) THEN Append(f[i], s[i + 1]) ELSE f[i]
        /\ g[i + 1] = IF IsData(t[i + 1]) THEN Append(g[i], t[i + 1]) ELSE g[i]
    BY <2>1, ComputesIs
  <2> QED
    BY <2>1, <2>2, <2>3
<1> HIDE DEF T
<1>3. n \in T
  BY <1>1, <1>2, SetInduction
<1> QED
  BY <1>3 DEF T

\* DataIn is the last value of such a function.
LEMMA DataIs ==
    ASSUME NEW s, Len(s) \in Nat
    PROVE  \E data : Computes(data, s, Len(s)) /\ DataIn(s) = data[Len(s)]
<1> DEFINE data == CHOOSE f : Computes(f, s, Len(s))
<1>1. DataIn(s) = data[Len(s)]
  BY DEF DataIn, Computes, DataStep
<1>2. Computes(data, s, Len(s))
  <2>1. \E f : Computes(f, s, Len(s))
    BY DataIsComputed
  <2> QED
    BY <2>1, Zenon
<1> QED
  BY <1>1, <1>2

\* One byte more.
LEMMA DataGrows ==
    ASSUME NEW X, NEW s \in Seq(X), NEW ch \in X
    PROVE  /\ DataIn(<<>>) = <<>>
           /\ DataIn(Append(s, ch)) = IF IsData(ch) THEN Append(DataIn(s), ch) ELSE DataIn(s)
<1>1. DataIn(<<>>) = <<>>
  <2>1. Len(<<>>) = 0
    OBVIOUS
  <2>2. PICK data : Computes(data, <<>>, 0) /\ DataIn(<<>>) = data[0]
    BY <2>1, DataIs
  <2> QED
    BY <2>2, ComputesIs
<1> DEFINE t == Append(s, ch)
           n == Len(s)
<1>2. /\ n \in Nat /\ Len(t) = n + 1 /\ t[n + 1] = ch /\ \A i \in 1..n : s[i] = t[i]
  BY AppendProperties, LenProperties
<1> HIDE DEF t
<1>3. PICK f : Computes(f, s, n) /\ DataIn(s) = f[n]
  BY <1>2, DataIs
<1> HIDE DEF n
<1>4. PICK g : Computes(g, t, n + 1) /\ DataIn(t) = g[n + 1]
  <2>1. Len(t) \in Nat
    BY <1>2
  <2>2. \E g : Computes(g, t, Len(t)) /\ DataIn(t) = g[Len(t)]
    BY <2>1, DataIs
  <2> QED
    BY <1>2, <2>2
<1>5. f[n] = g[n]
  <2>1. n + 1 \in Nat /\ n <= n + 1
    BY <1>2
  <2> QED
    BY <1>2, <1>3, <1>4, <2>1, ComputedOnce
<1>6. g[n + 1] = IF IsData(t[n + 1]) THEN Append(g[n], t[n + 1]) ELSE g[n]
  <2>1. n + 1 \in Nat /\ n + 1 \in 0..n + 1 /\ n + 1 # 0 /\ (n + 1) - 1 = n
    BY <1>2
  <2> QED
    BY <1>4, <2>1, ComputesIs
<1>7. DataIn(t) = IF IsData(ch) THEN Append(DataIn(s), ch) ELSE DataIn(s)
  BY <1>2, <1>3, <1>4, <1>5, <1>6
<1> QED
  BY <1>1, <1>7 DEF t

\* The data in a text can be put in a line.
LEMMA DataIsLine ==
    ASSUME NEW s \in Seq(Byte)
    PROVE  DataIn(s) \in Line
<1> DEFINE T == {t \in Seq(Byte) : DataIn(t) \in Line}
<1>1. <<>> \in T
  <2>1. CR \in Byte
    BY DEF Byte
  <2>2. <<>> \in Seq(Byte) /\ DataIn(<<>>) = <<>>
    BY <2>1, EmptySeq, DataGrows
  <2> QED
    BY <2>2, LineFacts
<1>2. ASSUME NEW t \in Seq(Byte), NEW ch \in Byte, t \in T
      PROVE  Append(t, ch) \in T
  <2>1. Append(t, ch) \in Seq(Byte)
    BY AppendProperties
  <2>2. IsData(ch) => ch \in 1..MaxBytes
    BY DEF IsData, Byte, CR, LF
  <2>3. DataIn(Append(t, ch)) \in Line
    BY <1>2, <2>2, DataGrows, LineFacts
  <2> QED
    BY <2>1, <2>3
<1> HIDE DEF T
<1>3. s \in T
  BY <1>1, <1>2, SequencesInduction
<1> QED
  BY <1>3 DEF T

\* The first byte of a text is the first of its data, or no data.
LEMMA DataFrom ==
    ASSUME NEW s \in Seq(Byte), NEW ch \in Byte
    PROVE  DataIn(<<ch>> \o s) = (IF IsData(ch) THEN <<ch>> ELSE <<>>) \o DataIn(s)
<1> DEFINE first == IF IsData(ch) THEN <<ch>> ELSE <<>>
           T == {t \in Seq(Byte) : DataIn(<<ch>> \o t) = first \o DataIn(t)}
<1>0. first \in Line /\ <<ch>> \in Seq(Byte)
  <2>1. IsData(ch) => ch \in 1..MaxBytes
    BY DEF IsData, Byte, CR, LF
  <2>2. <<>> \in Line /\ <<>> \in Seq(Byte)
    BY LineFacts, EmptySeq
  <2>3. <<ch>> = Append(<<>>, ch)
    OBVIOUS
  <2>4. <<ch>> \in Seq(Byte)
    BY <2>2, <2>3, AppendProperties
  <2>5. IsData(ch) => <<ch>> \in Line
    <3> SUFFICES ASSUME IsData(ch) PROVE <<ch>> \in Line
      OBVIOUS
    <3> QED
      BY <2>1, <2>2, <2>3, AppendProperties DEF Line
  <2> QED
    BY <2>2, <2>4, <2>5
<1>1. <<>> \in T
  <2>1. DataIn(<<>>) = <<>> /\ <<>> \in Seq(Byte)
    BY EmptySeq, DataGrows
  <2>2. DataIn(Append(<<>>, ch)) = first
    <3>1. Append(<<>>, ch) = <<ch>>
      OBVIOUS
    <3>2. DataIn(Append(<<>>, ch)) = IF IsData(ch) THEN Append(<<>>, ch) ELSE <<>>
      BY <2>1, DataGrows
    <3> QED
      BY <3>1, <3>2
  <2>3. <<ch>> \o <<>> = Append(<<>>, ch) /\ first \o <<>> = first
    <3>1. Append(<<>>, ch) = <<ch>>
      OBVIOUS
    <3>2. <<ch>> \o <<>> = <<ch>>
      BY <1>0, ConcatEmptySeq
    <3>3. first \o <<>> = first
      BY <1>0, ConcatEmptySeq DEF Line
    <3> QED
      BY <3>1, <3>2, <3>3
  <2> QED
    BY <2>1, <2>2, <2>3
<1>2. ASSUME NEW t \in Seq(Byte), NEW d \in Byte, t \in T
      PROVE  Append(t, d) \in T
  <2> HIDE DEF first
  <2>1. <<ch>> \o t \in Seq(Byte) /\ Append(t, d) \in Seq(Byte) /\ <<d>> \in Seq(Byte)
    BY <1>0, ConcatProperties, AppendProperties
  <2>2. <<ch>> \o Append(t, d) = Append(<<ch>> \o t, d)
    <3>1. Append(t, d) = t \o <<d>> /\ Append(<<ch>> \o t, d) = (<<ch>> \o t) \o <<d>>
      BY <2>1, AppendIsConcat
    <3>2. <<ch>> \o (t \o <<d>>) = (<<ch>> \o t) \o <<d>>
      BY <1>0, <2>1, ConcatAssociative
    <3> QED
      BY <3>1, <3>2
  <2>3. DataIn(<<ch>> \o t) = first \o DataIn(t)
    BY <1>2
  <2>4. DataIn(Append(<<ch>> \o t, d)) =
            IF IsData(d) THEN Append(DataIn(<<ch>> \o t), d) ELSE DataIn(<<ch>> \o t)
    BY <2>1, DataGrows
  <2>5. DataIn(Append(t, d)) = IF IsData(d) THEN Append(DataIn(t), d) ELSE DataIn(t)
    BY DataGrows
  <2>6. IsData(d) => Append(first \o DataIn(t), d) = first \o Append(DataIn(t), d)
    <3> SUFFICES ASSUME IsData(d) PROVE Append(first \o DataIn(t), d) = first \o Append(DataIn(t), d)
      OBVIOUS
    <3> DEFINE L == 1..MaxBytes
               u == DataIn(t)
    <3>1. first \in Seq(L) /\ u \in Seq(L) /\ d \in L
      BY <1>0, DataIsLine DEF Line, IsData, Byte, CR, LF
    <3> HIDE DEF L, u
    <3>2. <<d>> \in Seq(L) /\ first \o u \in Seq(L)
      BY <3>1, ConcatProperties
    <3>3. Append(first \o u, d) = (first \o u) \o <<d>> /\ Append(u, d) = u \o <<d>>
      BY <3>1, <3>2, AppendIsConcat
    <3>4. (first \o u) \o <<d>> = first \o (u \o <<d>>)
      BY <3>1, <3>2, ConcatAssociative
    <3>5. Append(first \o u, d) = first \o Append(u, d)
      BY <3>3, <3>4
    <3> QED
      BY <3>5 DEF u
  <2>7. DataIn(<<ch>> \o Append(t, d)) = first \o DataIn(Append(t, d))
    <3>1. CASE IsData(d)
      BY <2>2, <2>3, <2>4, <2>5, <2>6, <3>1
    <3>2. CASE ~IsData(d)
      BY <2>2, <2>3, <2>4, <2>5, <3>2
    <3> QED
      BY <3>1, <3>2
  <2> QED
    BY <2>1, <2>7
<1> HIDE DEF T
<1>3. s \in T
  BY <1>1, <1>2, SequencesInduction
<1> QED
  BY <1>3 DEF T

\* flat is what FlattenSeq computes for ls, up to n.
FlatStep(flat, ls, i) == IF i = 1 THEN ls[i] ELSE flat[i - 1] \o ls[i]

SameUpTo(ls, ms, n) == \A i \in 1..n : ls[i] = ms[i]

Flattens(flat, ls, n) == flat = [i \in 1..n |-> FlatStep(flat, ls, i)]

\* What such a function is at each line.
LEMMA FlattensIs ==
    ASSUME NEW flat, NEW ls, NEW n \in Nat, Flattens(flat, ls, n), NEW i \in 1..n
    PROVE  flat[i] = FlatStep(flat, ls, i)
<1>1. [j \in 1..n |-> FlatStep(flat, ls, j)][i] = FlatStep(flat, ls, i)
  OBVIOUS
<1> QED
  BY <1>1, Zenon DEF Flattens

\* There is such a function for every sequence of lines.
LEMMA FlatIsComputed ==
    ASSUME NEW ls, NEW n \in Nat
    PROVE  \E flat : Flattens(flat, ls, n)
<1> DEFINE T == {m \in Nat : \E flat : Flattens(flat, ls, m)}
<1>1. 0 \in T
  <2> DEFINE flat == [i \in 1..0 |-> <<>>]
  <2>1. flat = [i \in 1..0 |-> FlatStep(flat, ls, i)]
    OBVIOUS
  <2> HIDE DEF flat
  <2>2. Flattens(flat, ls, 0)
    BY <2>1 DEF Flattens
  <2> QED
    BY <2>2
<1>2. ASSUME NEW m \in Nat, m \in T
      PROVE  m + 1 \in T
  <2>1. PICK flat : Flattens(flat, ls, m)
    BY <1>2
  <2> DEFINE more == [i \in 1..m + 1 |-> IF i <= m THEN flat[i] ELSE FlatStep(flat, ls, m + 1)]
  <2>2. /\ \A i \in 1..m : more[i] = flat[i]
        /\ more[m + 1] = FlatStep(flat, ls, m + 1)
        /\ more = [i \in 1..m + 1 |-> more[i]]
    OBVIOUS
  <2> HIDE DEF more
  <2>3. ASSUME NEW i \in 1..m + 1
        PROVE  more[i] = FlatStep(more, ls, i)
    <3>1. CASE i \in 1..m
      <4>1. flat[i] = FlatStep(flat, ls, i)
        BY <2>1, <3>1, FlattensIs, Zenon
      <4>2. more[i] = flat[i] /\ (i # 1 => more[i - 1] = flat[i - 1])
        <5>1. i # 1 => i - 1 \in 1..m
          BY <3>1
        <5> QED
          BY <2>2, <3>1, <5>1
      <4> QED
        BY <4>1, <4>2 DEF FlatStep
    <3>2. CASE i = m + 1
      <4>1. i # 1 => more[i - 1] = flat[i - 1]
        <5>1. i # 1 => i - 1 \in 1..m
          BY <3>2
        <5> QED
          BY <2>2, <5>1
      <4> QED
        BY <2>2, <3>2, <4>1 DEF FlatStep
    <3>3. i \in 1..m \/ i = m + 1
      OBVIOUS
    <3> QED
      BY <3>1, <3>2, <3>3
  <2>4. Flattens(more, ls, m + 1)
    BY <2>2, <2>3, Zenon DEF Flattens
  <2> QED
    BY <2>4
<1> HIDE DEF T
<1>3. n \in T
  BY <1>1, <1>2, SetInduction
<1> QED
  BY <1>3 DEF T

\* Lines that agree up to n have the same text up to n.
LEMMA FlattenedOnce ==
    ASSUME NEW ls, NEW ms, NEW n \in Nat, NEW m \in Nat, n <= m, SameUpTo(ls, ms, n),
           NEW f, NEW g, Flattens(f, ls, n), Flattens(g, ms, m), n # 0
    PROVE  f[n] = g[n]
<1> DEFINE T == {i \in Nat : i # 0 /\ i <= n => f[i] = g[i]}
<1>1. 0 \in T
  OBVIOUS
<1>2. ASSUME NEW i \in Nat, i \in T
      PROVE  i + 1 \in T
  <2> SUFFICES ASSUME i + 1 <= n
               PROVE  f[i + 1] = g[i + 1]
    OBVIOUS
  <2>1. i + 1 \in 1..n /\ i + 1 \in 1..m /\ (i + 1) - 1 = i /\ (i + 1 = 1 <=> i = 0)
    OBVIOUS
  <2>2. i # 0 => f[i] = g[i]
    BY <1>2
  <2> DEFINE k == i + 1
  <2>3. /\ k = 1 => f[k] = ls[k]
        /\ k # 1 => f[k] = f[k - 1] \o ls[k]
    <3>1. k \in 1..n
      BY <2>1
    <3> HIDE DEF k
    <3>2. f[k] = FlatStep(f, ls, k)
      BY <3>1, FlattensIs, Zenon
    <3> QED
      BY <3>2 DEF FlatStep
  <2>4. /\ k = 1 => g[k] = ms[k]
        /\ k # 1 => g[k] = g[k - 1] \o ms[k]
    <3>1. k \in 1..m
      BY <2>1
    <3> HIDE DEF k
    <3>2. g[k] = FlatStep(g, ms, k)
      BY <3>1, FlattensIs, Zenon
    <3> QED
      BY <3>2 DEF FlatStep
  <2>5. ls[k] = ms[k] /\ k - 1 = i
    BY <2>1 DEF SameUpTo
  <2>6. CASE i = 0
    <3>1. k = 1
      BY <2>6
    <3> HIDE DEF k
    <3>2. f[k] = g[k]
      BY <2>3, <2>4, <2>5, <3>1
    <3> QED
      BY <3>2 DEF k
  <2>7. CASE i # 0
    <3>1. k # 1
      BY <2>7
    <3> HIDE DEF k
    <3>2. f[k] = g[k]
      BY <2>2, <2>3, <2>4, <2>5, <2>7, <3>1
    <3> QED
      BY <3>2 DEF k
  <2> QED
    BY <2>6, <2>7
<1> HIDE DEF T
<1>3. n \in T
  BY <1>1, <1>2, SetInduction
<1> QED
  BY <1>3 DEF T

\* FlattenSeq is the last value of such a function.
LEMMA FlattenIs ==
    ASSUME NEW ls, Len(ls) \in Nat, Len(ls) # 0
    PROVE  \E flat : Flattens(flat, ls, Len(ls)) /\ FlattenSeq(ls) = flat[Len(ls)]
<1> DEFINE flat == CHOOSE f : Flattens(f, ls, Len(ls))
<1>1. FlattenSeq(ls) = flat[Len(ls)]
  BY DEF FlattenSeq, Flattens, FlatStep
<1>2. Flattens(flat, ls, Len(ls))
  <2>1. \E f : Flattens(f, ls, Len(ls))
    BY FlatIsComputed
  <2> QED
    BY <2>1, Zenon
<1> QED
  BY <1>1, <1>2

\* One line more.
LEMMA FlattenGrows ==
    ASSUME NEW ls \in Seq(Line), NEW l \in Line, FlattenSeq(ls) \in Line
    PROVE  FlattenSeq(Append(ls, l)) = FlattenSeq(ls) \o l
<1> DEFINE ms == Append(ls, l)
           n == Len(ls)
<1>1. /\ n \in Nat /\ Len(ms) = n + 1 /\ ms[n + 1] = l /\ \A i \in 1..n : ls[i] = ms[i]
  BY AppendProperties, LenProperties
<1> HIDE DEF ms
<1>2. PICK g : Flattens(g, ms, n + 1) /\ FlattenSeq(ms) = g[n + 1]
  <2>1. Len(ms) \in Nat /\ Len(ms) # 0
    BY <1>1
  <2>2. \E g : Flattens(g, ms, Len(ms)) /\ FlattenSeq(ms) = g[Len(ms)]
    BY <2>1, FlattenIs
  <2> QED
    BY <1>1, <2>2
<1>3. n + 1 \in 1..n + 1 /\ (n + 1) - 1 = n /\ (n + 1 = 1 <=> n = 0) /\ n + 1 \in Nat /\ n <= n + 1
  BY <1>1
<1>4. CASE n = 0
  <2>1. ls = <<>>
    BY <1>4, EmptySeq
  <2>2. FlattenSeq(ls) = <<>>
    BY <1>4, <2>1 DEF FlattenSeq
  <2>3. g[n + 1] = l
    <3>1. n + 1 = 1 /\ n + 1 \in Nat /\ n + 1 \in 1..n + 1
      BY <1>3, <1>4
    <3>2. g[n + 1] = ms[n + 1]
      <4> DEFINE k == n + 1
      <4>1. k = 1 /\ k \in Nat /\ k \in 1..k /\ Flattens(g, ms, k)
        BY <1>2, <3>1
      <4> HIDE DEF k
      <4>2. g[k] = FlatStep(g, ms, k)
        BY <4>1, FlattensIs, Zenon
      <4>3. g[k] = ms[k]
        BY <4>1, <4>2 DEF FlatStep
      <4> QED
        BY <4>3 DEF k
    <3> QED
      BY <1>1, <3>2
  <2>4. <<>> \o l = l
    BY ConcatEmptySeq DEF Line
  <2> QED
    BY <1>2, <2>2, <2>3, <2>4 DEF ms
<1>5. CASE n # 0
  <2> HIDE DEF n
  <2>1. PICK f : Flattens(f, ls, n) /\ FlattenSeq(ls) = f[n]
    BY <1>1, <1>5, FlattenIs DEF n
  <2> DEFINE k == n + 1
  <2>2. /\ k \in Nat /\ n <= k /\ Flattens(g, ms, k) /\ k # 1 /\ k \in 1..k
        /\ k - 1 = n /\ ms[k] = l
    <3>1. n + 1 # 1
      BY <1>1, <1>5
    <3> QED
      BY <1>1, <1>2, <1>3, <3>1
  <2>3. f[n] = g[n]
    <3> HIDE DEF k
    <3>1. n \in Nat /\ SameUpTo(ls, ms, n)
      BY <1>1 DEF SameUpTo
    <3>2. k \in Nat /\ n <= k /\ Flattens(f, ls, n) /\ Flattens(g, ms, k) /\ n # 0
      BY <1>5, <2>1, <2>2
    <3> QED
      BY <3>1, <3>2, FlattenedOnce, SMTT(30)
  <2>4. g[k] = g[n] \o l
    <3> HIDE DEF k
    <3>1. g[k] = FlatStep(g, ms, k)
      BY <2>2, FlattensIs, Zenon
    <3> QED
      BY <2>2, <3>1 DEF FlatStep
  <2> QED
    BY <1>2, <2>1, <2>3, <2>4 DEF ms
<1> QED
  BY <1>4, <1>5

\* The text of lines is data only.
LEMMA FlattenIsLine ==
    ASSUME NEW ls \in Seq(Line)
    PROVE  FlattenSeq(ls) \in Line
<1> DEFINE T == {ms \in Seq(Line) : FlattenSeq(ms) \in Line}
<1>1. <<>> \in T
  <2>1. FlattenSeq(<<>>) = <<>>
    BY EmptySeq DEF FlattenSeq
  <2> QED
    BY <2>1, LineFacts
<1>2. ASSUME NEW ms \in Seq(Line), NEW l \in Line, ms \in T
      PROVE  Append(ms, l) \in T
  <2>1. FlattenSeq(ms) \in Line /\ Append(ms, l) \in Seq(Line)
    BY <1>2, LineFacts
  <2>2. FlattenSeq(Append(ms, l)) = FlattenSeq(ms) \o l
    BY <2>1, FlattenGrows
  <2>3. FlattenSeq(ms) \o l \in Line
    BY <2>1, ConcatProperties DEF Line
  <2> QED
    BY <2>1, <2>2, <2>3
<1> HIDE DEF T
<1>3. ls \in T
  BY <1>1, <1>2, SequencesInduction
<1> QED
  BY <1>3 DEF T

\* The unfinished line comes after the complete ones.
LEMMA FlattenWithCurrent ==
    ASSUME NEW ls \in Seq(Line), NEW l \in Line
    PROVE  /\ FlattenSeq(ls \o <<l>>) = FlattenSeq(ls) \o l
           /\ FlattenSeq(ls) \o l \in Line
<1>1. ls \o <<l>> = Append(ls, l)
  BY AppendIsConcat
<1>2. FlattenSeq(ls) \in Line
  BY FlattenIsLine
<1>3. FlattenSeq(ls) \o l \in Line
  BY <1>2, ConcatProperties DEF Line
<1> QED
  BY <1>1, <1>2, <1>3, FlattenGrows

\* The data that arrived in the parent.
Arrived == FlattenSeq(taken \o lines) \o current

\* NothingLostOrReordered, as the steps below use it.
LEMMA ArrivedThenTransit ==
    ASSUME taken \in Seq(Line), lines \in Seq(Line), current \in Line
    PROVE  /\ NothingLostOrReordered <=> Arrived \o DataIn(chunk \o pipe) = DataIn(written)
           /\ Arrived \in Line
<1>1. taken \o lines \in Seq(Line)
  BY ConcatProperties
<1>2. /\ FlattenSeq((taken \o lines) \o <<current>>) = FlattenSeq(taken \o lines) \o current
      /\ FlattenSeq(taken \o lines) \o current \in Line
  BY <1>1, FlattenWithCurrent
<1> QED
  BY <1>2 DEF NothingLostOrReordered, Arrived

\* newline() moves the unfinished line, it does not change what arrived.
LEMMA NewLineKeepsText ==
    ASSUME TypeOK, NewLine, UNCHANGED taken
    PROVE  Arrived' = Arrived
<1>1. taken \in Seq(Line) /\ lines \in Seq(Line) /\ current \in Line /\ <<current>> \in Seq(Line)
  BY DEF TypeOK
<1>2. taken \o Append(lines, current) = (taken \o lines) \o <<current>>
  <2>1. Append(lines, current) = lines \o <<current>>
    BY <1>1, AppendIsConcat
  <2>2. \A a, b, c \in Seq(Line) : (a \o b) \o c = a \o (b \o c)
    BY ConcatAssociative, SMTT(30)
  <2>3. (taken \o lines) \o <<current>> = taken \o (lines \o <<current>>)
    BY <1>1, <2>2, Zenon
  <2> QED
    BY <2>1, <2>3
<1>3. taken \o lines \in Seq(Line)
  BY <1>1, ConcatProperties
<1>4. /\ FlattenSeq((taken \o lines) \o <<current>>) = FlattenSeq(taken \o lines) \o current
      /\ FlattenSeq(taken \o lines) \o current \in Line
  BY <1>1, <1>3, FlattenWithCurrent
<1>5. \A l \in Line : l \o <<>> = l
  BY ConcatEmptySeq DEF Line
<1>6. FlattenSeq(taken \o Append(lines, current)) \o <<>> = FlattenSeq(taken \o lines) \o current
  BY <1>2, <1>4, <1>5, Zenon
<1>7. taken' = taken /\ lines' = Append(lines, current) /\ current' = <<>>
  BY DEF NewLine
<1> QED
  BY <1>6, <1>7, Zenon DEF Arrived

\* What arrived, once a byte of data follows it.
LEMMA DataAfter ==
    ASSUME NEW l \in Line, NEW m \in Line, NEW d \in 1..MaxBytes
    PROVE  /\ Append(l \o m, d) = l \o Append(m, d)
           /\ l \o (<<d>> \o m) = Append(l, d) \o m
<1> DEFINE L == 1..MaxBytes
<1>1. l \in Seq(L) /\ m \in Seq(L) /\ d \in L
  BY DEF Line
<1> HIDE DEF L
<1>2. <<d>> \in Seq(L) /\ l \o m \in Seq(L)
  BY <1>1, ConcatProperties
<1>3. /\ Append(l \o m, d) = (l \o m) \o <<d>>
      /\ Append(m, d) = m \o <<d>>
      /\ Append(l, d) = l \o <<d>>
  BY <1>1, <1>2, AppendIsConcat
<1>4. \A a, b, c \in Seq(L) : (a \o b) \o c = a \o (b \o c)
  BY ConcatAssociative, SMTT(30)
<1>5. (l \o m) \o <<d>> = l \o (m \o <<d>>) /\ (l \o <<d>>) \o m = l \o (<<d>> \o m)
  BY <1>1, <1>2, <1>4, Zenon
<1> QED
  BY <1>3, <1>5, Zenon

\* The child writes one byte more.
LEMMA WriteKeepsText ==
    ASSUME TypeOK, NEW ch \in {CR, LF, Len(written) + 1}, ChildWrite(ch),
           Arrived \o DataIn(chunk \o pipe) = DataIn(written)
    PROVE  Arrived \o DataIn(chunk \o Append(pipe, ch)) = DataIn(Append(written, ch))
<1>1. /\ chunk \in Seq(Byte) /\ pipe \in Seq(Byte) /\ written \in Seq(Byte)
      /\ taken \in Seq(Line) /\ lines \in Seq(Line) /\ current \in Line
  BY DEF TypeOK
<1>2. ch \in Byte
  BY <1>1, SizesAssumption, LenProperties DEF ChildWrite, Byte
<1>3. chunk \o pipe \in Seq(Byte) /\ <<ch>> \in Seq(Byte)
  BY <1>1, <1>2, ConcatProperties
<1>4. chunk \o Append(pipe, ch) = Append(chunk \o pipe, ch)
  <2>1. Append(pipe, ch) = pipe \o <<ch>> /\ Append(chunk \o pipe, ch) = (chunk \o pipe) \o <<ch>>
    BY <1>1, <1>2, <1>3, AppendIsConcat
  <2>2. \A a, b, c \in Seq(Byte) : (a \o b) \o c = a \o (b \o c)
    BY ConcatAssociative, SMTT(30)
  <2>3. (chunk \o pipe) \o <<ch>> = chunk \o (pipe \o <<ch>>)
    BY <1>1, <1>3, <2>2, Zenon
  <2> QED
    BY <2>1, <2>3
<1>5. /\ DataIn(Append(chunk \o pipe, ch)) =
            IF IsData(ch) THEN Append(DataIn(chunk \o pipe), ch) ELSE DataIn(chunk \o pipe)
      /\ DataIn(Append(written, ch)) =
            IF IsData(ch) THEN Append(DataIn(written), ch) ELSE DataIn(written)
  BY <1>1, <1>2, <1>3, DataGrows
<1>6. Arrived \in Line /\ DataIn(chunk \o pipe) \in Line
  BY <1>1, <1>3, ArrivedThenTransit, DataIsLine
<1>7. CASE IsData(ch)
  <2>1. ch \in 1..MaxBytes
    BY <1>2, <1>7 DEF IsData, Byte, CR, LF
  <2>2. Append(Arrived \o DataIn(chunk \o pipe), ch) = Arrived \o Append(DataIn(chunk \o pipe), ch)
    BY <1>6, <2>1, DataAfter
  <2> QED
    BY <1>4, <1>5, <1>7, <2>2, Zenon
<1>8. CASE ~IsData(ch)
  BY <1>4, <1>5, <1>8, Zenon
<1> QED
  BY <1>7, <1>8

\* drain() scans one byte: the first of its buffer goes to the unfinished
\* line if it is data, and ends a line or nothing if it is not.
LEMMA ScanKeepsText ==
    ASSUME TypeOK, TypeOK', ScanHasInput, ScanByte
    PROVE  Arrived' \o DataIn(chunk' \o pipe') = Arrived \o DataIn(chunk \o pipe)
<1> DEFINE h == Head(chunk)
           r == Tail(chunk) \o pipe
<1>1. /\ chunk \in Seq(Byte) /\ pipe \in Seq(Byte) /\ chunk # <<>>
      /\ taken \in Seq(Line) /\ lines \in Seq(Line) /\ current \in Line
  BY DEF TypeOK, ScanHasInput, ScanByte
<1>2. /\ chunk = <<h>> \o Tail(chunk)
      /\ h \in Byte
      /\ Tail(chunk) \in Seq(Byte)
  BY <1>1, HeadThenTail
<1>3. r \in Seq(Byte) /\ <<h>> \in Seq(Byte)
  BY <1>1, <1>2, ConcatProperties
<1>4. chunk \o pipe = <<h>> \o r
  <2>1. \A a, b, c \in Seq(Byte) : (a \o b) \o c = a \o (b \o c)
    BY ConcatAssociative, SMTT(30)
  <2>2. (<<h>> \o Tail(chunk)) \o pipe = <<h>> \o r
    BY <1>1, <1>2, <1>3, <2>1, Zenon
  <2> QED
    BY <1>2, <2>2
<1>5. chunk' \o pipe' = r /\ taken' = taken
  BY DEF ScanByte, consumerVars
<1> HIDE DEF h, r
<1>6. DataIn(chunk \o pipe) = (IF IsData(h) THEN <<h>> ELSE <<>>) \o DataIn(r)
  BY <1>2, <1>3, <1>4, DataFrom
<1>7. DataIn(r) \in Line /\ Arrived \in Line
  BY <1>1, <1>3, DataIsLine, ArrivedThenTransit
<1>8. CASE ~IsData(h)
  <2>1. NewLine \/ UNCHANGED <<current, lines>>
    BY <1>8 DEF ScanByte, h
  <2>2. Arrived' = Arrived
    <3>1. CASE NewLine
      BY <1>5, <3>1, NewLineKeepsText
    <3>2. CASE UNCHANGED <<current, lines>>
      BY <1>5, <3>2 DEF Arrived
    <3> QED
      BY <2>1, <3>1, <3>2
  <2>3. <<>> \o DataIn(r) = DataIn(r)
    BY <1>7, ConcatEmptySeq DEF Line
  <2> QED
    BY <1>5, <1>6, <1>8, <2>2, <2>3
<1>9. CASE IsData(h)
  <2>1. h \in 1..MaxBytes
    BY <1>2, <1>9 DEF IsData, Byte, CR, LF
  <2>2. current' = Append(current, h) /\ lines' = lines
    BY <1>9, SMTT(30) DEF ScanByte, h, IsData, CR, LF
  <2>3. FlattenSeq(taken \o lines) \in Line
    <3>1. taken \o lines \in Seq(Line)
      BY <1>1, ConcatProperties
    <3> QED
      BY <3>1, FlattenIsLine
  <2>4. Arrived' = Append(Arrived, h)
    <3>1. Append(FlattenSeq(taken \o lines) \o current, h) = FlattenSeq(taken \o lines) \o Append(current, h)
      BY <1>1, <2>1, <2>3, DataAfter
    <3> QED
      BY <1>5, <2>2, <3>1, Zenon DEF Arrived
  <2>5. Arrived \o (<<h>> \o DataIn(r)) = Append(Arrived, h) \o DataIn(r)
    BY <1>7, <2>1, DataAfter
  <2> QED
    BY <1>5, <1>6, <1>9, <2>4, <2>5
<1> QED
  BY <1>8, <1>9

\* Each step keeps the order, and the text, of what the child wrote.
LEMMA TextInductive ==
    ASSUME TypeOK, TypeOK', ScanHasInput, NothingLostOrReordered, [Next]_vars
    PROVE  NothingLostOrReordered'
<1> DEFINE Before == Arrived \o DataIn(chunk \o pipe)
           After == Arrived' \o DataIn(chunk' \o pipe')
<1>1. Before = DataIn(written)
  BY ArrivedThenTransit DEF TypeOK
<1>2. NothingLostOrReordered' <=> After = DataIn(written')
  <2>1. taken' \in Seq(Line) /\ lines' \in Seq(Line) /\ current' \in Line
    BY DEF TypeOK
  <2>2. taken' \o lines' \in Seq(Line)
    BY <2>1, ConcatProperties
  <2>3. FlattenSeq((taken' \o lines') \o <<current'>>) = FlattenSeq(taken' \o lines') \o current'
    BY <2>1, <2>2, FlattenWithCurrent
  <2> QED
    BY <2>3, Zenon DEF NothingLostOrReordered, Arrived
<1> USE DEF childVars, readerVars, consumerVars
<1>3. ASSUME NEW ch \in {CR, LF, Len(written) + 1}, ChildWrite(ch)
      PROVE  After = DataIn(written')
  <2>1. /\ Arrived' = Arrived /\ chunk' = chunk
        /\ pipe' = Append(pipe, ch) /\ written' = Append(written, ch)
    BY <1>3 DEF ChildWrite, Arrived
  <2>2. Arrived \o DataIn(chunk \o Append(pipe, ch)) = DataIn(Append(written, ch))
    BY <1>1, <1>3, WriteKeepsText
  <2> QED
    BY <2>1, <2>2, Zenon
<1>4. ASSUME ReadChunk
      PROVE  After = DataIn(written')
  <2> DEFINE n == IF Len(pipe) < BufferSize THEN Len(pipe) ELSE BufferSize
  <2>1. n \in 1..Len(pipe) /\ pipe \in Seq(Byte)
    BY <1>4, SizesAssumption, EmptySeq DEF ReadChunk, TypeOK
  <2>2. chunk = <<>> /\ chunk \o pipe = pipe
    BY <1>4, <2>1, ConcatEmptySeq DEF ReadChunk, ScanHasInput
  <2>3. chunk' \o pipe' = pipe /\ Arrived' = Arrived /\ written' = written
    BY <1>4, <2>1, CutFacts DEF ReadChunk, Arrived
  <2> QED
    BY <1>1, <2>2, <2>3, Zenon
<1>5. ASSUME ScanByte
      PROVE  After = DataIn(written')
  <2>1. written' = written
    BY <1>5 DEF ScanByte
  <2> QED
    BY <1>1, <1>5, <2>1, ScanKeepsText
<1>6. ASSUME DrainExit \/ Close
      PROVE  After = DataIn(written')
  <2>1. UNCHANGED <<written, chunk, pipe, taken>>
    BY <1>6 DEF DrainExit, Close
  <2>2. NewLine \/ UNCHANGED <<current, lines>>
    BY <1>6 DEF DrainExit, Close, FlushCurrent
  <2>3. CASE NewLine
    BY <1>1, <2>1, <2>3, NewLineKeepsText
  <2>4. CASE UNCHANGED <<current, lines>>
    BY <1>1, <2>1, <2>4 DEF Arrived
  <2> QED
    BY <2>2, <2>3, <2>4
<1>7. ASSUME NEW c \in Consumers, Take(c)
      PROVE  After = DataIn(written')
  <2>1. /\ UNCHANGED <<written, chunk, pipe, current>>
        /\ taken' = taken \o lines /\ lines' = <<>>
    BY <1>7 DEF Take
  <2>2. (taken \o lines) \o <<>> = taken \o lines
    BY ConcatProperties, ConcatEmptySeq DEF TypeOK
  <2>3. Arrived' = Arrived
    BY <2>1, <2>2 DEF Arrived
  <2> QED
    BY <1>1, <2>1, <2>3
<1>8. ASSUME UNCHANGED <<written, chunk, pipe, current, lines, taken>>
      PROVE  After = DataIn(written')
  BY <1>1, <1>8 DEF Arrived
<1>9. ASSUME NEW c \in Consumers,
             \/ \E method \in {"take", "check"} : Call(c, method)
             \/ ExpectReturns(c) \/ ExpectWaits(c) \/ Relock(c)
             \/ SpuriousWakeup(c)
      PROVE  UNCHANGED <<written, chunk, pipe, current, lines, taken>>
  BY <1>9 DEF Call, ExpectReturns, ExpectWaits, Relock, SpuriousWakeup
<1>10. ASSUME ChildExit \/ PollIn \/ PollFails \/ DrainLock \/ ReadEnds \/ UNCHANGED vars
       PROVE  UNCHANGED <<written, chunk, pipe, current, lines, taken>>
  BY <1>10 DEF ChildExit, PollIn, PollFails, DrainLock, ReadEnds, vars
<1> HIDE DEF After
<1> QED
  BY <1>2, <1>3, <1>4, <1>5, <1>6, <1>7, <1>8, <1>9, <1>10
  DEF Next, ReaderNext, ConsumerResumes

\* For any text and however it is cut into reads, whoever takes the lines and
\* whenever: what the owner received, the lines waiting, the unfinished line
\* and the data not yet scanned are together the data the child wrote, each
\* byte once and in order.
THEOREM NothingIsLostOrReordered == Spec => []NothingLostOrReordered
<1>1. Init => NothingLostOrReordered
  <2> SUFFICES ASSUME Init PROVE NothingLostOrReordered
    OBVIOUS
  <2>1. /\ taken = <<>> /\ lines = <<>> /\ current = <<>> /\ chunk = <<>>
        /\ pipe = <<>> /\ written = <<>>
    BY DEF Init
  <2>2. <<>> \in Line /\ <<>> \in Seq(Line) /\ <<>> \in Seq(Byte)
    BY LineFacts, EmptySeq
  <2>3. <<>> \o <<>> = <<>>
    BY <2>2, ConcatEmptySeq
  <2>4. FlattenSeq(<<>>) = <<>>
    BY EmptySeq DEF FlattenSeq
  <2>5. DataIn(<<>>) = <<>>
    <3>1. CR \in Byte
      BY DEF Byte
    <3> QED
      BY <2>2, <3>1, DataGrows
  <2>6. Arrived \o DataIn(chunk \o pipe) = DataIn(written)
    BY <2>1, <2>3, <2>4, <2>5, Zenon DEF Arrived
  <2>7. taken \in Seq(Line) /\ lines \in Seq(Line) /\ current \in Line
    BY <2>1, <2>2
  <2> QED
    BY <2>6, <2>7, ArrivedThenTransit
<1>2. TypeOK /\ TypeOK' /\ ScanHasInput /\ NothingLostOrReordered /\ [Next]_vars
        => NothingLostOrReordered'
  BY TextInductive
<1> QED
  BY <1>1, <1>2, TypeCorrect, PTL DEF Spec
=============================================================================
