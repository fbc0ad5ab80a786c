------------------------------ MODULE Process ------------------------------
(***************************************************************************)
(* core/Process.{h,cpp}, class Process: the life of child programs, their  *)
(* file descriptors and their end.  Each Process object is used by one     *)
(* thread of the parent, and several threads use theirs at the same time.  *)
(* fork() copies every descriptor the parent has, also those of the other  *)
(* objects, and nothing is closed by exec.                                 *)
(*                                                                         *)
(* The kernel part is modelled from how Process.cpp uses it: a table of    *)
(* descriptors per process, pipe() and dup2(), a read that sees the end of *)
(* a pipe when nobody holds its write end.  What goes through the pipes is *)
(* the subject of ReadPipe.                                                *)
(***************************************************************************)
EXTENDS Integers, FiniteSets, FiniteSetsExt

CONSTANTS
    Procs,          \* the Process objects, and the child of each
    Programs,       \* the programs they run, see below
    ParentOpen,     \* the descriptors the parent has when it begins
    MaxFd,          \* the largest descriptor the kernel gives out
    Faults          \* what may go wrong: subset of {"fork", "eintr", "kill"}

ASSUME FdsAssumption == MaxFd \in Nat /\ ParentOpen \subseteq 0..MaxFd

ASSUME FaultsAssumption == Faults \subseteq {"fork", "eintr", "kill"}

\* A program that ends by itself, one that ends when its input does, or one
\* that execvp() does not find.
ASSUME ProgramsAssumption == Programs \subseteq {"plain", "filter", "missing"}

Names == <<"in", "out", "err">>         \* m_stdin, m_stdout, m_stderr
Pipes == {"in", "out", "err"}
Fds == 0..MaxFd
NoFd == -1

VARIABLES
    program,        \* m_command of each object
    pc,             \* where the thread of each object is
    step,           \* the pipe it is about to create or connect: 1..4
    method,         \* the member function it runs
    crash,          \* its last wait() reported that the child crashed
    interrupted,    \* history: a signal interrupted its waitpid()
    mPid,           \* m_pid: 0, -1 or 1 for that of the child
    mPipe,          \* m_pipe of each pipe: the descriptors of its ends
    mFd,            \* m_fd of each pipe
    parentFds,      \* the parent's descriptors
    child,          \* the state of each child
    childFds        \* each child's descriptors

callerVars == <<pc, step, method, crash>>
objectVars == <<mPid, mPipe, mFd>>
childVars == <<child, childFds>>
vars == <<program, callerVars, interrupted, objectVars, parentFds, childVars>>

\* What a descriptor can be: closed, something that has nothing to do with a
\* Process, or an end of a pipe.
Closed == <<>>
Other == <<"other">>
End(p, name, side) == <<p, name, side>>
Ends == {Closed, Other} \union (Procs \X Pipes \X {"r", "w"})

NoFds == [fd \in Fds |-> Closed]

Init ==
    /\ program \in [Procs -> Programs]
    /\ pc = [p \in Procs |-> "new"]
    /\ step = [p \in Procs |-> 1]
    /\ method = [p \in Procs |-> "none"]
    /\ crash = [p \in Procs |-> FALSE]
    /\ interrupted = [p \in Procs |-> FALSE]
    /\ mPid = [p \in Procs |-> 0]
    /\ mPipe = [p \in Procs |-> [n \in Pipes |-> [r |-> NoFd, w |-> NoFd]]]
    /\ mFd = [p \in Procs |-> [n \in Pipes |-> NoFd]]
    /\ parentFds = [fd \in Fds |-> IF fd \in ParentOpen THEN Other ELSE Closed]
    /\ child = [p \in Procs |-> "none"]
    /\ childFds = [p \in Procs |-> NoFds]

-----------------------------------------------------------------------------
(* The kernel.                                                             *)

FreeFds == {fd \in Fds : parentFds[fd] = Closed}

\* close(fd), of a table of descriptors.
CloseIn(fds, fd) == IF fd \in Fds THEN [fds EXCEPT ![fd] = Closed] ELSE fds

\* dup2(from, to)
Dup2In(fds, from, to) == [fds EXCEPT ![to] = fds[from]]

Holds(fds, end) == \E fd \in Fds : fds[fd] = end

Alive(p) == child[p] \in {"forked", "running", "imposter"}

\* Some process can still write to that pipe.
HasWriter(p, name) ==
    \/ Holds(parentFds, End(p, name, "w"))
    \/ \E q \in Procs : Holds(childFds[q], End(p, name, "w"))

-----------------------------------------------------------------------------
(* start()                                                                 *)

\* execute() or background() of an object that was not started before.
Call(p, m) ==
    /\ pc[p] = "new"
    /\ pc' = [pc EXCEPT ![p] = "create"]
    /\ method' = [method EXCEPT ![p] = m]
    /\ UNCHANGED <<program, interrupted, step, crash, objectVars, parentFds, childVars>>

Returns(p, reportsCrash) ==
    /\ pc' = [pc EXCEPT ![p] = "idle"]
    /\ method' = [method EXCEPT ![p] = "none"]
    /\ crash' = [crash EXCEPT ![p] = reportsCrash]

\* wait(), called by the client, by execute() or by terminate().
Begins(p, m) ==
    /\ pc' = [pc EXCEPT ![p] = "wait"]
    /\ method' = [method EXCEPT ![p] = m]
    /\ crash' = [crash EXCEPT ![p] = FALSE]

\* Pipe::create(): pipe() takes the two lowest free descriptors.
CreatePipe(p) ==
    /\ pc[p] = "create"
    /\ IF Cardinality(FreeFds) < 2
       THEN Returns(p, FALSE) /\ UNCHANGED <<step, mPipe, parentFds>>
       ELSE LET r == Min(FreeFds)
                w == Min(FreeFds \ {r})
                name == Names[step[p]]
            IN  /\ mPipe' = [mPipe EXCEPT ![p][name] = [r |-> r, w |-> w]]
                /\ parentFds' = [parentFds EXCEPT ![r] = End(p, name, "r"),
                                                  ![w] = End(p, name, "w")]
                /\ step' = [step EXCEPT ![p] = IF step[p] = 3 THEN 1 ELSE step[p] + 1]
                /\ pc' = IF step[p] = 3 THEN [pc EXCEPT ![p] = "fork"] ELSE pc
                /\ UNCHANGED <<method, crash>>
    /\ UNCHANGED <<program, interrupted, mPid, mFd, childVars>>

Fork(p) ==
    /\ pc[p] = "fork"
    /\ mPid' = [mPid EXCEPT ![p] = 1]
    /\ child' = [child EXCEPT ![p] = "forked"]
    /\ childFds' = [childFds EXCEPT ![p] = parentFds]
    /\ pc' = [pc EXCEPT ![p] = "connect"]
    /\ UNCHANGED <<program, interrupted, step, method, crash, mPipe, mFd, parentFds>>

\* Mutant: the failure of fork() goes unnoticed.
ForkFailsUnnoticed(p) ==
    /\ pc[p] = "fork" /\ "fork" \in Faults
    /\ mPid' = [mPid EXCEPT ![p] = -1]
    /\ pc' = [pc EXCEPT ![p] = "connect"]
    /\ UNCHANGED <<program, interrupted, step, method, crash, mPipe, mFd, parentFds, childVars>>

\* fork() fails: m_pid keeps its -1.
ForkFails(p) ==
    /\ pc[p] = "fork" /\ "fork" \in Faults
    /\ mPid' = [mPid EXCEPT ![p] = -1]
    /\ Returns(p, FALSE)
    /\ UNCHANGED <<program, interrupted, step, mPipe, mFd, parentFds, childVars>>

\* Which end of a pipe is whose.
ParentSide(name) == IF name = "in" THEN "w" ELSE "r"
ChildSide(name) == IF name = "in" THEN "r" ELSE "w"

\* After the last pipe, background() returns and execute() goes on to wait().
Connected(p) ==
    IF step[p] < 3 THEN UNCHANGED <<pc, method, crash>>
    ELSE IF method[p] = "execute" THEN Begins(p, "wait")
    ELSE Returns(p, FALSE)

\* Mutant: the parent keeps the child's end.
ConnectParentKeepsBoth(p) ==
    /\ pc[p] = "connect"
    /\ LET name == Names[step[p]]
           ends == mPipe[p][name]
       IN  mFd' = [mFd EXCEPT ![p][name] = ends[ParentSide(name)]]
    /\ step' = [step EXCEPT ![p] = step[p] + 1]
    /\ Connected(p)
    /\ UNCHANGED <<program, interrupted, mPid, mPipe, parentFds, childVars>>

\* connect_parent(): m_fd is the parent's end, and the other one is closed.
ConnectParent(p) ==
    /\ pc[p] = "connect"
    /\ LET name == Names[step[p]]
           ends == mPipe[p][name]
       IN  /\ mFd' = [mFd EXCEPT ![p][name] = ends[ParentSide(name)]]
           /\ parentFds' = CloseIn(parentFds, ends[ChildSide(name)])
    /\ step' = [step EXCEPT ![p] = step[p] + 1]
    /\ Connected(p)
    /\ UNCHANGED <<program, interrupted, mPid, mPipe, childVars>>

-----------------------------------------------------------------------------
(* wait() and terminate()                                                  *)

\* Mutant: Pipe::close() leaves m_fd.
CloseInputKeepsFd(p) ==
    /\ parentFds' = CloseIn(parentFds, mFd[p]["in"])
    /\ UNCHANGED mFd

\* m_stdin.close()
CloseInput(p) ==
    /\ parentFds' = CloseIn(parentFds, mFd[p]["in"])
    /\ mFd' = [mFd EXCEPT ![p]["in"] = NoFd]

\* Mutant: terminate() waits before it closes the child's input.
TerminateWaitsFirst(p) ==
    /\ pc[p] = "idle"
    /\ Begins(p, "terminate")
    /\ UNCHANGED <<program, interrupted, step, mFd, parentFds, mPid, mPipe, childVars>>

Terminate(p) ==
    /\ pc[p] = "idle"
    /\ Begins(p, "terminate")
    /\ CloseInput(p)
    /\ UNCHANGED <<program, interrupted, step, mPid, mPipe, childVars>>

Wait(p) ==
    /\ pc[p] = "idle"
    /\ Begins(p, "wait")
    /\ UNCHANGED <<program, interrupted, step, objectVars, parentFds, childVars>>

\* wait() of an object without a child.
WaitForNothing(p) ==
    /\ pc[p] = "wait" /\ mPid[p] = 0
    /\ Returns(p, FALSE)
    /\ UNCHANGED <<program, interrupted, step, objectVars, parentFds, childVars>>

\* Mutant: waitpid() does not block.
ChildrenGoneOrNot(p) == p \in Procs

\* Mutant: waitpid(-1), for every child.
AllChildrenGone(p) == \A q \in Procs : ~Alive(q)

\* With SIGCHLD ignored, waitpid() blocks until the child is gone, or every
\* child if m_pid is -1, and fails with ECHILD.
ChildrenGone(p) == IF mPid[p] = -1 THEN \A q \in Procs : ~Alive(q) ELSE ~Alive(p)

\* waitpid() returned -1.  exit_code was not written, and WIFEXITED of it can
\* be anything.
Ended(p) ==
    /\ pc[p] = "wait" /\ mPid[p] # 0
    /\ mPid' = [mPid EXCEPT ![p] = 0]
    /\ CloseInput(p)
    /\ \E reportsCrash \in BOOLEAN : Returns(p, reportsCrash)
    /\ UNCHANGED <<program, step, mPipe, childVars>>

\* ECHILD
WaitEnds(p) == ChildrenGone(p) /\ Ended(p) /\ UNCHANGED interrupted

\* EINTR, at any time, is taken for the end of the child as well.
WaitInterrupted(p) ==
    /\ "eintr" \in Faults
    /\ Ended(p)
    /\ interrupted' = [interrupted EXCEPT ![p] = TRUE]

-----------------------------------------------------------------------------
(* The child.                                                              *)

\* The descriptor a pipe becomes in the child.
StdFd(name) == CASE name = "in" -> 0 [] name = "out" -> 1 [] name = "err" -> 2

\* Mutant: the child keeps the parent's end.
ConnectEndKeepsOther(p, fds, name) ==
    LET ends == mPipe[p][name]
        own == ends[ChildSide(name)]
    IN  CloseIn(Dup2In(fds, own, StdFd(name)), own)

\* connect_child(): the end is duplicated, and both ends are closed.
ConnectEnd(p, fds, name) ==
    LET ends == mPipe[p][name]
        dupped == Dup2In(fds, ends[ChildSide(name)], StdFd(name))
    IN  CloseIn(CloseIn(dupped, ends.r), ends.w)

\* The rest of start() in the child.  It changes nothing but the child's own
\* descriptors until execvp().  If that fails, start() returns in the child,
\* which goes on as a second process that runs the caller's code.
Exec(p) ==
    /\ child[p] = "forked"
    /\ childFds' = [childFds EXCEPT ![p] =
                      ConnectEnd(p, ConnectEnd(p, ConnectEnd(p, childFds[p], "in"), "out"), "err")]
    /\ child' = [child EXCEPT ![p] =
                   IF program[p] = "missing" THEN "imposter" ELSE "running"]
    /\ UNCHANGED <<program, interrupted, callerVars, objectVars, parentFds>>

\* The kernel closes what it had.
IsGone(p, how) ==
    /\ child' = [child EXCEPT ![p] = how]
    /\ childFds' = [childFds EXCEPT ![p] = NoFds]
    /\ UNCHANGED <<program, interrupted, callerVars, objectVars, parentFds>>

\* A read of descriptor 0 sees the end: of its pipe, or of whatever else.
InputEnds(p) == childFds[p][0] = End(p, "in", "r") => ~HasWriter(p, "in")

\* The program ends.
Exits(p) ==
    /\ child[p] = "running"
    /\ program[p] = "filter" => InputEnds(p)
    /\ IsGone(p, "gone")

\* The caller's code in the child may end as well.
ImposterEnds(p) == child[p] = "imposter" /\ IsGone(p, "gone")

Kill(p) == "kill" \in Faults /\ Alive(p) /\ IsGone(p, "killed")

-----------------------------------------------------------------------------
\* What the thread of p does once it was called.
CallerResumes(p) ==
    CreatePipe(p) \/ Fork(p) \/ ConnectParent(p) \/ WaitForNothing(p) \/ WaitEnds(p)

ChildResumes(p) == Exec(p) \/ Exits(p)

Next ==
    \E p \in Procs :
        \/ \E m \in {"execute", "background"} : Call(p, m)
        \/ CallerResumes(p) \/ ForkFails(p) \/ WaitInterrupted(p)
        \/ Terminate(p) \/ Wait(p)
        \/ ChildResumes(p) \/ ImposterEnds(p) \/ Kill(p)

Spec == Init /\ [][Next]_vars

\* The threads and the processes are scheduled.  A client calls nothing it does
\* not want to, and nothing makes an imposter end.
FairSpec ==
    /\ Spec
    /\ \A p \in Procs : WF_vars(CallerResumes(p)) /\ WF_vars(ChildResumes(p))

-----------------------------------------------------------------------------
(* Properties.                                                             *)

TypeOK ==
    /\ program \in [Procs -> Programs]
    /\ pc \in [Procs -> {"new", "create", "fork", "connect", "wait", "idle"}]
    /\ step \in [Procs -> 1..4]
    /\ method \in [Procs -> {"none", "execute", "background", "terminate", "wait"}]
    /\ crash \in [Procs -> BOOLEAN]
    /\ interrupted \in [Procs -> BOOLEAN]
    /\ mPid \in [Procs -> {0, -1, 1}]
    /\ mPipe \in [Procs -> [Pipes -> [r : Fds \union {NoFd}, w : Fds \union {NoFd}]]]
    /\ mFd \in [Procs -> [Pipes -> Fds \union {NoFd}]]
    /\ parentFds \in [Fds -> Ends]
    /\ child \in [Procs -> {"none", "forked", "running", "imposter", "gone",
                           "killed"}]
    /\ childFds \in [Procs -> [Fds -> Ends]]
    /\ \A p \in Procs : pc[p] = "connect" => child[p] # "none"

\* A program runs with the child's ends of its pipes as descriptors 0, 1 and 2
\* and with no other end of them: it never keeps its own input open.  The
\* parent must have had 0, 1 and 2: pipe() would give them out otherwise, and
\* connect_child() would close what it has just put in place.
ChildIsConnected ==
    {0, 1, 2} \subseteq ParentOpen =>
        \A p \in Procs : child[p] = "running" =>
            \A fd \in Fds, name \in Pipes, side \in {"r", "w"} :
                childFds[p][fd] = End(p, name, side) <=>
                    fd = StdFd(name) /\ side = ChildSide(name)

\* m_fd is the parent's end of the object's own pipe, also after another
\* object was given the numbers that this one has closed; and once start() has
\* returned the parent holds no other end of it.
ParentIsConnected ==
    \A p \in Procs, name \in Pipes :
        /\ mFd[p][name] # NoFd =>
              parentFds[mFd[p][name]] = End(p, name, ParentSide(name))
        /\ child[p] # "none" /\ pc[p] # "connect" =>
              \A fd \in Fds, side \in {"r", "w"} :
                  parentFds[fd] = End(p, name, side) => fd = mFd[p][name]

\* running() says so as long as the child lives, unless a signal interrupted
\* waitpid().
RunningWhileAlive ==
    \A p \in Procs : Alive(p) => mPid[p] = 1 \/ interrupted[p]

\* `Child program {} crashed due to signal {}` is reported for those only.
CrashMeansKilled == \A p \in Procs : crash[p] => child[p] = "killed"

\* Another child got a copy of the write end of p's input when it was forked.
HeldByOther(p) ==
    \E q \in Procs \ {p} : Holds(childFds[q], End(p, "in", "w"))

\* terminate() returns once the program sees the end of its input.  If it never
\* returns, that is because another child keeps the input open, because
\* the child is the caller's code, or because fork() failed and waitpid(-1)
\* waits for the children of the other objects.
TerminateReturns ==
    \A p \in Procs :
        <>[](pc[p] = "wait" /\ method[p] = "terminate") =>
            \/ <>[]HeldByOther(p)
            \/ <>[](child[p] = "imposter")
            \/ <>[](mPid[p] = -1)

\* execute() and wait() return if the program ends by itself, whatever the
\* other children do.
WaitReturns ==
    \A p \in Procs :
        pc[p] = "wait" /\ mPid[p] = 1 /\ program[p] = "plain" ~> pc[p] = "idle"
=============================================================================
