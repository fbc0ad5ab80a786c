--------------------------- MODULE Process_proof ---------------------------
(***************************************************************************)
(* What holds of any number of Process objects and of descriptors.         *)
(***************************************************************************)
EXTENDS Process, FiniteSetTheorems, TLAPS

Sides == {"r", "w"}

\* The place of a pipe in the loops of start().
Place(name) == IF name = "in" THEN 1 ELSE IF name = "out" THEN 2 ELSE 3

\* The pipe is still to be created; it is there and to be connected.
Pending(p, name) == pc[p] = "new" \/ (pc[p] = "create" /\ Place(name) >= step[p])

Unconnected(p, name) ==
    \/ pc[p] = "create" /\ Place(name) < step[p]
    \/ pc[p] = "fork"
    \/ pc[p] = "connect" /\ Place(name) >= step[p]

Control ==
    \A p \in Procs :
        /\ pc[p] \in {"new", "fork"} => step[p] = 1
        /\ pc[p] \in {"create", "connect"} => step[p] \in 1..3
        /\ pc[p] \in {"new", "create", "fork"} => child[p] = "none"
        /\ pc[p] = "connect" => child[p] # "none"
        /\ Alive(p) => mPid[p] = 1 \/ interrupted[p]

\* An end that the parent holds is where pipe() has put it.
Placed(p, name) ==
    \A fd \in Fds, side \in Sides :
        parentFds[fd] = End(p, name, side) => fd = mPipe[p][name][side] /\ ~Pending(p, name)

\* Both ends of a pipe that is to be connected are there, ...
Whole(p, name) ==
    Unconnected(p, name) => \A side \in Sides :
        mPipe[p][name][side] \in Fds /\ parentFds[mPipe[p][name][side]] = End(p, name, side)

\* ... and of one that is connected the end of m_fd and no other.
Half(p, name) ==
    /\ mFd[p][name] # NoFd =>
          /\ mFd[p][name] = mPipe[p][name][ParentSide(name)]
          /\ parentFds[mFd[p][name]] = End(p, name, ParentSide(name))
    /\ child[p] # "none" /\ ~Unconnected(p, name) =>
          \A fd \in Fds, side \in Sides :
              parentFds[fd] = End(p, name, side) => fd = mFd[p][name]

ParentInv ==
    /\ \A p \in Procs, name \in Pipes : Placed(p, name) /\ Whole(p, name) /\ Half(p, name)
    /\ \A fd \in ParentOpen : parentFds[fd] = Other

\* A child that has not called connect_child() yet has what the parent had.
Forked(p) ==
    /\ \A name \in Pipes, side \in Sides : mPipe[p][name][side] \in Fds
    /\ \A fd \in Fds, name \in Pipes, side \in Sides :
          childFds[p][fd] = End(p, name, side) <=> fd = mPipe[p][name][side]
    /\ \A fd \in ParentOpen : childFds[p][fd] = Other

ChildInv == (\A p \in Procs : child[p] = "forked" => Forked(p)) /\ ChildIsConnected

Inv == TypeOK /\ Control /\ ParentInv /\ ChildInv

-----------------------------------------------------------------------------
(* Descriptors.                                                            *)

LEMMA EndsDiffer ==
    /\ \A p, q, n, m, s, t : End(p, n, s) = End(q, m, t) <=> p = q /\ n = m /\ s = t
    /\ \A p, n, s : End(p, n, s) # Closed /\ End(p, n, s) # Other
    /\ Closed # Other
BY DEF End, Closed, Other

LEMMA NamesFacts ==
    /\ \A i \in 1..3 : Names[i] \in Pipes /\ Place(Names[i]) = i
    /\ \A name \in Pipes : Place(name) \in 1..3 /\ Names[Place(name)] = name
    /\ \A name, other \in Pipes : Place(name) = Place(other) => name = other
    /\ \A name \in Pipes : ParentSide(name) \in Sides /\ ChildSide(name) \in Sides
                           /\ ParentSide(name) # ChildSide(name)
    /\ \A name \in Pipes, side \in Sides : side # ParentSide(name) <=> side = ChildSide(name)
<1>1. \A i \in 1..3 : Names[i] \in Pipes /\ Place(Names[i]) = i
  <2>1. Names[1] = "in" /\ Names[2] = "out" /\ Names[3] = "err"
    BY DEF Names
  <2>2. \A i \in 1..3 : i = 1 \/ i = 2 \/ i = 3
    OBVIOUS
  <2> QED
    BY <2>1, <2>2 DEF Place, Pipes
<1>2. \A name \in Pipes : Place(name) \in 1..3 /\ Names[Place(name)] = name
  BY DEF Names, Place, Pipes
<1>3. \A name, other \in Pipes : Place(name) = Place(other) => name = other
  BY DEF Place, Pipes
<1>4. /\ \A name \in Pipes : ParentSide(name) \in Sides /\ ChildSide(name) \in Sides
                             /\ ParentSide(name) # ChildSide(name)
      /\ \A name \in Pipes, side \in Sides : side # ParentSide(name) <=> side = ChildSide(name)
  BY DEF Pipes, Sides, ParentSide, ChildSide
<1> QED
  BY <1>1, <1>2, <1>3, <1>4

LEMMA LeastFd ==
    ASSUME NEW S \in SUBSET Fds, S # {}
    PROVE  Min(S) \in S
<1>1. S \subseteq Nat
  BY FdsAssumption DEF Fds
<1>2. PICK x \in S : \A y \in S : ~(<<y, x>> \in OpToRel(<, Nat))
  BY <1>1, NatLessThanWellFounded, WFMin
<1>3. ASSUME NEW y \in S, y < x PROVE FALSE
  <2>1. <<y, x>> \in OpToRel(<, Nat)
    BY <1>1, <1>3 DEF OpToRel
  <2> QED
    BY <1>2, <2>1
<1>4. \A y \in S : x <= y
  BY <1>1, <1>3
<1> QED
  BY <1>4 DEF Min

LEMMA TwoFreeFds ==
    ASSUME ~(Cardinality(FreeFds) < 2), NEW r, r = Min(FreeFds), NEW w, w = Min(FreeFds \ {r})
    PROVE  r \in Fds /\ w \in Fds /\ r # w /\ parentFds[r] = Closed /\ parentFds[w] = Closed
<1>1. FreeFds \subseteq Fds
  BY DEF FreeFds
<1>2. FreeFds # {}
  BY FS_EmptySet
<1>3. r \in FreeFds
  BY <1>1, <1>2, LeastFd
<1>4. FreeFds # {r}
  BY FS_Singleton
<1>5. w \in FreeFds \ {r}
  BY <1>1, <1>3, <1>4, LeastFd
<1> QED
  BY <1>1, <1>3, <1>5 DEF FreeFds

LEMMA EndsTypes ==
    /\ Closed \in Ends /\ Other \in Ends
    /\ \A p \in Procs, name \in Pipes, side \in Sides : End(p, name, side) \in Ends
    /\ NoFds \in [Fds -> Ends] /\ NoFd \notin Fds
BY FdsAssumption DEF Ends, End, Sides, NoFds, Fds, NoFd

LEMMA CloseInType ==
    ASSUME NEW fds \in [Fds -> Ends], NEW fd
    PROVE  CloseIn(fds, fd) \in [Fds -> Ends]
BY EndsTypes DEF CloseIn

-----------------------------------------------------------------------------
(* Types and control.                                                      *)

LEMMA CloseInputType ==
    ASSUME TypeOK, NEW p \in Procs, CloseInput(p)
    PROVE  parentFds' \in [Fds -> Ends] /\ mFd' \in [Procs -> [Pipes -> Fds \union {NoFd}]]
BY CloseInType DEF TypeOK, CloseInput, Pipes

LEMMA BeginsType ==
    ASSUME TypeOK, NEW p \in Procs, NEW m \in {"terminate", "wait"}, Begins(p, m)
    PROVE  /\ pc' = [pc EXCEPT ![p] = "wait"]
           /\ pc' \in [Procs -> {"new", "create", "fork", "connect", "wait", "idle"}]
           /\ method' \in [Procs -> {"none", "execute", "background", "terminate", "wait"}]
           /\ crash' \in [Procs -> BOOLEAN]
BY DEF TypeOK, Begins

LEMMA ReturnsType ==
    ASSUME TypeOK, NEW p \in Procs, NEW b \in BOOLEAN, Returns(p, b)
    PROVE  /\ pc' = [pc EXCEPT ![p] = "idle"]
           /\ pc' \in [Procs -> {"new", "create", "fork", "connect", "wait", "idle"}]
           /\ method' \in [Procs -> {"none", "execute", "background", "terminate", "wait"}]
           /\ crash' \in [Procs -> BOOLEAN]
BY DEF TypeOK, Returns

LEMMA CallKeepsTypes ==
    ASSUME TypeOK, Control, NEW p \in Procs, NEW m \in {"execute", "background"}, Call(p, m)
    PROVE  TypeOK' /\ Control'
<1>1. TypeOK'
  BY DEF Call, TypeOK, objectVars, childVars
<1>2. Control'
  BY DEF Call, TypeOK, Control, objectVars, childVars, Alive
<1> QED
  BY <1>1, <1>2

LEMMA CreatePipeKeepsTypes ==
    ASSUME TypeOK, Control, NEW p \in Procs, CreatePipe(p)
    PROVE  TypeOK' /\ Control'
<1>0. UNCHANGED <<program, interrupted, mPid, mFd, child, childFds>> /\ pc[p] = "create" /\ step[p] \in 1..3
  BY DEF CreatePipe, childVars, Control
<1>1. CASE Cardinality(FreeFds) < 2
  <2>1. Returns(p, FALSE) /\ UNCHANGED <<step, mPipe, parentFds>>
    BY <1>1 DEF CreatePipe
  <2>2. /\ pc' = [pc EXCEPT ![p] = "idle"]
        /\ pc' \in [Procs -> {"new", "create", "fork", "connect", "wait", "idle"}]
        /\ method' \in [Procs -> {"none", "execute", "background", "terminate", "wait"}]
        /\ crash' \in [Procs -> BOOLEAN]
    BY <2>1, ReturnsType
  <2> QED
    BY <1>0, <2>1, <2>2 DEF TypeOK, Control, Alive
<1>2. CASE ~(Cardinality(FreeFds) < 2)
  <2> DEFINE r == Min(FreeFds)
             w == Min(FreeFds \ {r})
             name == Names[step[p]]
  <2>1. /\ mPipe' = [mPipe EXCEPT ![p][name] = [r |-> r, w |-> w]]
        /\ parentFds' = [parentFds EXCEPT ![r] = End(p, name, "r"), ![w] = End(p, name, "w")]
        /\ step' = [step EXCEPT ![p] = IF step[p] = 3 THEN 1 ELSE step[p] + 1]
        /\ pc' = IF step[p] = 3 THEN [pc EXCEPT ![p] = "fork"] ELSE pc
        /\ UNCHANGED <<method, crash>>
    BY <1>2 DEF CreatePipe
  <2>2. r \in Fds /\ w \in Fds
    BY <1>2, TwoFreeFds
  <2>3. name \in Pipes
    BY <1>0, NamesFacts
  <2> HIDE DEF r, w, name
  <2>4. End(p, name, "r") \in Ends /\ End(p, name, "w") \in Ends
    BY <2>3, EndsTypes DEF Sides
  <2>5. parentFds' \in [Fds -> Ends]
    BY <2>1, <2>2, <2>4 DEF TypeOK
  <2>6. mPipe' \in [Procs -> [Pipes -> [r : Fds \union {NoFd}, w : Fds \union {NoFd}]]]
    BY <2>1, <2>2, <2>3 DEF TypeOK
  <2>7. step' \in [Procs -> 1..4] /\ pc' \in [Procs -> {"new", "create", "fork", "connect", "wait", "idle"}]
    BY <1>0, <2>1 DEF TypeOK
  <2>8. TypeOK'
    BY <1>0, <2>1, <2>5, <2>6, <2>7 DEF TypeOK
  <2>9. Control'
    BY <1>0, <2>1 DEF TypeOK, Control, Alive
  <2> QED
    BY <2>8, <2>9
<1> QED
  BY <1>1, <1>2

LEMMA ForkKeepsTypes ==
    ASSUME TypeOK, Control, NEW p \in Procs, Fork(p) \/ ForkFails(p)
    PROVE  TypeOK' /\ Control'
<1>1. CASE Fork(p)
  <2>1. TypeOK'
    BY <1>1 DEF Fork, TypeOK
  <2>2. Control'
    BY <1>1 DEF Fork, TypeOK, Control, Alive
  <2> QED
    BY <2>1, <2>2
<1>2. CASE ForkFails(p)
  <2>1. /\ pc' = [pc EXCEPT ![p] = "idle"]
        /\ pc' \in [Procs -> {"new", "create", "fork", "connect", "wait", "idle"}]
        /\ method' \in [Procs -> {"none", "execute", "background", "terminate", "wait"}]
        /\ crash' \in [Procs -> BOOLEAN]
    BY <1>2, ReturnsType DEF ForkFails
  <2>2. /\ UNCHANGED <<program, interrupted, step, mPipe, mFd, parentFds, child, childFds>>
        /\ pc[p] = "fork" /\ mPid' = [mPid EXCEPT ![p] = -1]
    BY <1>2 DEF ForkFails, childVars
  <2>3. TypeOK'
    BY <2>1, <2>2 DEF TypeOK
  <2>4. Control'
    BY <2>1, <2>2 DEF TypeOK, Control, Alive
  <2> QED
    BY <2>3, <2>4
<1> QED
  BY <1>1, <1>2

LEMMA ConnectParentKeepsTypes ==
    ASSUME TypeOK, Control, NEW p \in Procs, ConnectParent(p)
    PROVE  TypeOK' /\ Control'
<1> DEFINE name == Names[step[p]]
           ends == mPipe[p][name]
<1>1. /\ mFd' = [mFd EXCEPT ![p][name] = ends[ParentSide(name)]]
      /\ parentFds' = CloseIn(parentFds, ends[ChildSide(name)])
      /\ step' = [step EXCEPT ![p] = step[p] + 1]
      /\ Connected(p)
      /\ UNCHANGED <<program, interrupted, mPid, mPipe, child, childFds>>
      /\ pc[p] = "connect" /\ step[p] \in 1..3 /\ child[p] # "none"
  BY DEF ConnectParent, childVars, Control
<1>2. name \in Pipes /\ ParentSide(name) \in Sides
  BY <1>1, NamesFacts
<1>3. ends[ParentSide(name)] \in Fds \union {NoFd}
  BY <1>2 DEF TypeOK, Sides
<1> HIDE DEF name, ends
<1>4. mFd' \in [Procs -> [Pipes -> Fds \union {NoFd}]] /\ parentFds' \in [Fds -> Ends]
  BY <1>1, <1>2, <1>3, CloseInType DEF TypeOK
<1>5. /\ \/ step[p] < 3 /\ pc' = pc
         \/ pc' = [pc EXCEPT ![p] = "wait"]
         \/ pc' = [pc EXCEPT ![p] = "idle"]
      /\ pc' \in [Procs -> {"new", "create", "fork", "connect", "wait", "idle"}]
      /\ method' \in [Procs -> {"none", "execute", "background", "terminate", "wait"}]
      /\ crash' \in [Procs -> BOOLEAN]
  <2>1. CASE step[p] < 3
    BY <1>1, <2>1 DEF Connected, TypeOK
  <2>2. CASE ~(step[p] < 3)
    BY <1>1, <2>2, BeginsType, ReturnsType DEF Connected
  <2> QED
    BY <2>1, <2>2
<1>6. step' \in [Procs -> 1..4]
  BY <1>1 DEF TypeOK
<1>7. TypeOK'
  BY <1>1, <1>4, <1>5, <1>6 DEF TypeOK
<1>8. step'[p] = step[p] + 1 /\ \A q \in Procs : q # p => step'[q] = step[q] /\ pc'[q] = pc[q]
  BY <1>1, <1>5 DEF TypeOK
<1>9. pc'[p] \in {"wait", "idle"} \/ (pc'[p] = "connect" /\ step[p] < 3)
  BY <1>1, <1>5 DEF TypeOK
<1>10. Control'
  BY <1>1, <1>8, <1>9 DEF Control, Alive
<1> QED
  BY <1>7, <1>10

LEMMA WaitKeepsTypes ==
    ASSUME TypeOK, Control, NEW p \in Procs,
           Terminate(p) \/ Wait(p) \/ WaitForNothing(p) \/ WaitEnds(p) \/ WaitInterrupted(p)
    PROVE  TypeOK' /\ Control'
<1>1. CASE Terminate(p) \/ Wait(p) \/ WaitForNothing(p)
  <2>1. /\ pc' = [pc EXCEPT ![p] = "wait"] \/ pc' = [pc EXCEPT ![p] = "idle"]
        /\ pc' \in [Procs -> {"new", "create", "fork", "connect", "wait", "idle"}]
        /\ method' \in [Procs -> {"none", "execute", "background", "terminate", "wait"}]
        /\ crash' \in [Procs -> BOOLEAN]
    BY <1>1, BeginsType, ReturnsType DEF Terminate, Wait, WaitForNothing
  <2>2. parentFds' \in [Fds -> Ends] /\ mFd' \in [Procs -> [Pipes -> Fds \union {NoFd}]]
    BY <1>1, CloseInputType DEF Terminate, Wait, WaitForNothing, objectVars, TypeOK
  <2>3. UNCHANGED <<program, interrupted, step, mPid, mPipe, child, childFds>>
    BY <1>1 DEF Terminate, Wait, WaitForNothing, objectVars, childVars
  <2>4. TypeOK'
    BY <2>1, <2>2, <2>3 DEF TypeOK
  <2>5. Control'
    BY <2>1, <2>3 DEF TypeOK, Control, Alive
  <2> QED
    BY <2>4, <2>5
<1>2. CASE WaitEnds(p) \/ WaitInterrupted(p)
  <2>1. /\ pc' = [pc EXCEPT ![p] = "idle"]
        /\ pc' \in [Procs -> {"new", "create", "fork", "connect", "wait", "idle"}]
        /\ method' \in [Procs -> {"none", "execute", "background", "terminate", "wait"}]
        /\ crash' \in [Procs -> BOOLEAN]
    BY <1>2, ReturnsType DEF WaitEnds, WaitInterrupted, Ended
  <2>2. parentFds' \in [Fds -> Ends] /\ mFd' \in [Procs -> [Pipes -> Fds \union {NoFd}]]
    BY <1>2, CloseInputType DEF WaitEnds, WaitInterrupted, Ended
  <2>3. /\ UNCHANGED <<program, step, mPipe, child, childFds>>
        /\ mPid' = [mPid EXCEPT ![p] = 0]
        /\ \/ interrupted' = interrupted /\ ChildrenGone(p)
           \/ interrupted' = [interrupted EXCEPT ![p] = TRUE]
    BY <1>2 DEF WaitEnds, WaitInterrupted, Ended, childVars
  <2>4. TypeOK'
    BY <2>1, <2>2, <2>3 DEF TypeOK
  <2>5. interrupted' = interrupted => ~Alive(p) \/ mPid'[p] = 1 \/ interrupted'[p]
    BY <2>3 DEF ChildrenGone, TypeOK
  <2>6. Control'
    BY <2>1, <2>3, <2>5 DEF TypeOK, Control, Alive
  <2> QED
    BY <2>4, <2>6
<1> QED
  BY <1>1, <1>2

LEMMA ConnectEndType ==
    ASSUME NEW p \in Procs, NEW fds \in [Fds -> Ends], NEW name \in Pipes,
           mPipe[p][name][ChildSide(name)] \in Fds
    PROVE  ConnectEnd(p, fds, name) \in [Fds -> Ends]
<1> DEFINE from == mPipe[p][name][ChildSide(name)]
<1>1. Dup2In(fds, from, StdFd(name)) \in [Fds -> Ends]
  BY DEF Dup2In
<1> QED
  BY <1>1, CloseInType DEF ConnectEnd

LEMMA ExecKeepsTypes ==
    ASSUME TypeOK, Control, ChildInv, NEW p \in Procs, Exec(p)
    PROVE  TypeOK' /\ Control'
<1>1. /\ child[p] = "forked" /\ Forked(p)
      /\ childFds' = [childFds EXCEPT ![p] =
            ConnectEnd(p, ConnectEnd(p, ConnectEnd(p, childFds[p], "in"), "out"), "err")]
      /\ child' = [child EXCEPT ![p] = IF program[p] = "missing" THEN "imposter" ELSE "running"]
      /\ UNCHANGED <<program, interrupted, pc, step, method, crash, mPid, mPipe, mFd, parentFds>>
  BY DEF Exec, ChildInv, callerVars, objectVars
<1>2. \A name \in Pipes : mPipe[p][name][ChildSide(name)] \in Fds
  BY <1>1, NamesFacts DEF Forked
<1> DEFINE one == ConnectEnd(p, childFds[p], "in")
           two == ConnectEnd(p, one, "out")
           three == ConnectEnd(p, two, "err")
<1>3. one \in [Fds -> Ends]
  BY <1>2, ConnectEndType DEF TypeOK, Pipes
<1> HIDE DEF one
<1>4. two \in [Fds -> Ends]
  BY <1>2, <1>3, ConnectEndType DEF Pipes
<1> HIDE DEF two
<1>5. three \in [Fds -> Ends]
  BY <1>2, <1>4, ConnectEndType DEF Pipes
<1>6. childFds' = [childFds EXCEPT ![p] = three]
  BY <1>1 DEF one, two
<1> HIDE DEF three
<1>7. TypeOK'
  BY <1>1, <1>5, <1>6 DEF TypeOK
<1>8. Control'
  BY <1>1 DEF TypeOK, Control, Alive
<1> QED
  BY <1>7, <1>8

LEMMA IsGoneKeepsTypes ==
    ASSUME TypeOK, Control, NEW p \in Procs, NEW how \in {"gone", "killed"}, IsGone(p, how),
           child[p] # "none"
    PROVE  TypeOK' /\ Control'
<1>1. /\ child' = [child EXCEPT ![p] = how] /\ childFds' = [childFds EXCEPT ![p] = NoFds]
      /\ UNCHANGED <<program, interrupted, pc, step, method, crash, mPid, mPipe, mFd, parentFds>>
  BY DEF IsGone, callerVars, objectVars
<1>2. TypeOK'
  BY <1>1, EndsTypes DEF TypeOK
<1>3. Control'
  BY <1>1 DEF TypeOK, Control, Alive
<1> QED
  BY <1>2, <1>3

-----------------------------------------------------------------------------
(* The parent's descriptors.                                               *)

LEMMA QuietParent ==
    ASSUME ParentInv, UNCHANGED <<parentFds, mPipe, mFd>>,
           \A q \in Procs, n \in Pipes :
              /\ Pending(q, n)' => Pending(q, n)
              /\ Unconnected(q, n)' => Unconnected(q, n)
              /\ child'[q] # "none" /\ ~Unconnected(q, n)' =>
                    child[q] # "none" /\ ~Unconnected(q, n)
    PROVE  ParentInv'
BY DEF ParentInv, Placed, Whole, Half

\* What remains when one end is closed: all the others.
LEMMA ClosesOneEnd ==
    ASSUME TypeOK, ParentInv, NEW p \in Procs, NEW name \in Pipes, NEW side \in Sides,
           NEW fd \in Fds, parentFds[fd] = End(p, name, side), parentFds' = CloseIn(parentFds, fd)
    PROVE  /\ \A g \in Fds, q \in Procs, n \in Pipes, t \in Sides :
                parentFds'[g] = End(q, n, t) <=>
                    parentFds[g] = End(q, n, t) /\ ~(q = p /\ n = name /\ t = side)
           /\ \A g \in ParentOpen : parentFds'[g] = Other
<1>1. \A g \in Fds : parentFds'[g] = IF g = fd THEN Closed ELSE parentFds[g]
  BY DEF CloseIn, TypeOK
<1>2. \A g \in Fds : parentFds[g] = End(p, name, side) => g = fd
  BY DEF ParentInv, Placed
<1>3. ParentOpen \subseteq Fds
  BY FdsAssumption DEF Fds
<1>4. ASSUME NEW g \in Fds, NEW q \in Procs, NEW n \in Pipes, NEW t \in Sides
      PROVE  parentFds'[g] = End(q, n, t) <=>
                 parentFds[g] = End(q, n, t) /\ ~(q = p /\ n = name /\ t = side)
  BY <1>1, <1>2, EndsDiffer
<1>5. \A g \in ParentOpen : parentFds'[g] = Other
  BY <1>1, <1>3, EndsDiffer DEF ParentInv
<1> QED
  BY <1>4, <1>5

LEMMA CreatePipeKeepsParent ==
    ASSUME TypeOK, Control, ParentInv, NEW p \in Procs, CreatePipe(p)
    PROVE  ParentInv'
<1>0. UNCHANGED <<mFd, child>> /\ pc[p] = "create" /\ step[p] \in 1..3 /\ child[p] = "none"
  BY DEF CreatePipe, childVars, Control
<1>1. CASE Cardinality(FreeFds) < 2
  <2>1. pc' = [pc EXCEPT ![p] = "idle"] /\ UNCHANGED <<step, mPipe, parentFds>>
    BY <1>1 DEF CreatePipe, Returns
  <2>2. ASSUME NEW q \in Procs, NEW n \in Pipes
        PROVE  /\ Pending(q, n)' => Pending(q, n)
               /\ Unconnected(q, n)' => Unconnected(q, n)
               /\ child'[q] # "none" /\ ~Unconnected(q, n)' =>
                     child[q] # "none" /\ ~Unconnected(q, n)
    <3>1. pc'[q] = IF q = p THEN "idle" ELSE pc[q]
      BY <2>1 DEF TypeOK
    <3> QED
      BY <1>0, <2>1, <3>1 DEF Pending, Unconnected
  <2> QED
    BY <1>0, <2>1, <2>2, QuietParent
<1>2. CASE ~(Cardinality(FreeFds) < 2)
  <2> DEFINE r == Min(FreeFds)
             w == Min(FreeFds \ {r})
             name == Names[step[p]]
  <2>1. /\ mPipe' = [mPipe EXCEPT ![p][name] = [r |-> r, w |-> w]]
        /\ parentFds' = [parentFds EXCEPT ![r] = End(p, name, "r"), ![w] = End(p, name, "w")]
        /\ step' = [step EXCEPT ![p] = IF step[p] = 3 THEN 1 ELSE step[p] + 1]
        /\ pc' = IF step[p] = 3 THEN [pc EXCEPT ![p] = "fork"] ELSE pc
    BY <1>2 DEF CreatePipe
  <2>2. r \in Fds /\ w \in Fds /\ r # w /\ parentFds[r] = Closed /\ parentFds[w] = Closed
    BY <1>2, TwoFreeFds
  <2>3. name \in Pipes /\ Place(name) = step[p]
    BY <1>0, NamesFacts
  <2> HIDE DEF r, w, name
  <2>4. \A g \in Fds : parentFds'[g] = IF g = r THEN End(p, name, "r")
                                       ELSE IF g = w THEN End(p, name, "w") ELSE parentFds[g]
    BY <2>1, <2>2 DEF TypeOK
  <2>5. /\ mPipe'[p][name]["r"] = r /\ mPipe'[p][name]["w"] = w
        /\ \A q \in Procs, n \in Pipes : ~(q = p /\ n = name) => mPipe'[q][n] = mPipe[q][n]
    BY <2>1, <2>3 DEF TypeOK
  <2>6. ASSUME NEW q \in Procs, NEW n \in Pipes
        PROVE  /\ Pending(q, n)' <=> Pending(q, n) /\ ~(q = p /\ n = name)
               /\ Unconnected(q, n)' <=> Unconnected(q, n) \/ (q = p /\ n = name)
    <3>1. CASE q # p
      <4>1. pc'[q] = pc[q] /\ step'[q] = step[q]
        BY <2>1, <3>1 DEF TypeOK
      <4> QED
        BY <3>1, <4>1 DEF Pending, Unconnected
    <3>2. CASE q = p
      <4>1. Place(n) \in 1..3 /\ (Place(n) = step[p] <=> n = name)
        BY <2>3, NamesFacts
      <4>2. CASE step[p] = 3
        <5>1. pc'[p] = "fork"
          BY <2>1, <4>2 DEF TypeOK
        <5> QED
          BY <1>0, <3>2, <4>1, <4>2, <5>1 DEF Pending, Unconnected
      <4>3. CASE step[p] # 3
        <5>1. pc'[p] = "create" /\ step'[p] = step[p] + 1
          BY <1>0, <2>1, <4>3 DEF TypeOK
        <5> QED
          BY <1>0, <3>2, <4>1, <4>3, <5>1 DEF Pending, Unconnected
      <4> QED
        BY <4>2, <4>3
    <3> QED
      BY <3>1, <3>2
  <2>7. Pending(p, name)
    BY <1>0, <2>3 DEF Pending
  <2>8. \A g \in Fds, side \in Sides : parentFds[g] # End(p, name, side)
    BY <2>3, <2>7 DEF ParentInv, Placed
  <2>9. ASSUME NEW q \in Procs, NEW n \in Pipes
        PROVE  Placed(q, n)' /\ Whole(q, n)' /\ Half(q, n)'
    <3>1. CASE q = p /\ n = name
      <4>1. ASSUME NEW g \in Fds, NEW side \in Sides, parentFds'[g] = End(p, name, side)
            PROVE  g = mPipe'[p][name][side]
        BY <2>4, <2>5, <2>8, <4>1, EndsDiffer
      <4>2. Placed(q, n)'
        BY <2>3, <2>6, <3>1, <4>1 DEF Placed
      <4>3. Whole(q, n)'
        BY <2>2, <2>4, <2>5, <3>1 DEF Whole, Sides
      <4>4. mFd[p][name] = NoFd
        <5>1. mFd[p][name] \in Fds \union {NoFd}
          BY <2>3 DEF TypeOK
        <5>2. Half(p, name)
          BY <2>3 DEF ParentInv
        <5> QED
          BY <2>3, <2>8, <5>1, <5>2, NamesFacts DEF Half
      <4>5. Half(q, n)'
        BY <1>0, <3>1, <4>4 DEF Half
      <4> QED
        BY <4>2, <4>3, <4>5
    <3>2. CASE ~(q = p /\ n = name)
      <4>1. \A g \in Fds, side \in Sides : parentFds'[g] = End(q, n, side) <=> parentFds[g] = End(q, n, side)
        BY <2>2, <2>4, <3>2, EndsDiffer
      <4>2. Placed(q, n) /\ Whole(q, n) /\ Half(q, n)
        BY DEF ParentInv
      <4>3. Placed(q, n)'
        BY <2>5, <2>6, <3>2, <4>1, <4>2 DEF Placed
      <4>4. Whole(q, n)'
        BY <2>5, <2>6, <3>2, <4>1, <4>2 DEF Whole
      <4>5. mFd[q][n] \in Fds \union {NoFd} /\ ParentSide(n) \in Sides
        BY NamesFacts DEF TypeOK
      <4>6. Half(q, n)'
        BY <1>0, <2>5, <2>6, <3>2, <4>1, <4>2, <4>5 DEF Half
      <4> QED
        BY <4>3, <4>4, <4>6
    <3> QED
      BY <3>1, <3>2
  <2>10. \A g \in ParentOpen : parentFds'[g] = Other
    <3>1. ParentOpen \subseteq Fds
      BY FdsAssumption DEF Fds
    <3> QED
      BY <2>2, <2>4, <3>1, EndsDiffer DEF ParentInv
  <2> QED
    BY <2>9, <2>10 DEF ParentInv
<1> QED
  BY <1>1, <1>2

LEMMA ConnectParentKeepsParent ==
    ASSUME TypeOK, Control, ParentInv, NEW p \in Procs, ConnectParent(p)
    PROVE  ParentInv'
<1> DEFINE name == Names[step[p]]
           ends == mPipe[p][name]
<1>1. /\ mFd' = [mFd EXCEPT ![p][name] = ends[ParentSide(name)]]
      /\ parentFds' = CloseIn(parentFds, ends[ChildSide(name)])
      /\ step' = [step EXCEPT ![p] = step[p] + 1]
      /\ Connected(p)
      /\ UNCHANGED <<mPipe, child>>
      /\ pc[p] = "connect" /\ step[p] \in 1..3
  BY DEF ConnectParent, childVars, Control
<1>2. name \in Pipes /\ Place(name) = step[p]
      /\ ParentSide(name) \in Sides /\ ChildSide(name) \in Sides /\ ParentSide(name) # ChildSide(name)
  BY <1>1, NamesFacts
<1>3. \A side \in Sides : ends[side] \in Fds /\ parentFds[ends[side]] = End(p, name, side)
  BY <1>1, <1>2 DEF ParentInv, Whole, Unconnected
<1> HIDE DEF name
<1>4. /\ \A g \in Fds, q \in Procs, n \in Pipes, t \in Sides :
           parentFds'[g] = End(q, n, t) <=>
               parentFds[g] = End(q, n, t) /\ ~(q = p /\ n = name /\ t = ChildSide(name))
      /\ \A g \in ParentOpen : parentFds'[g] = Other
  BY <1>1, <1>2, <1>3, ClosesOneEnd
<1>5. /\ mFd'[p][name] = mPipe[p][name][ParentSide(name)]
      /\ \A q \in Procs, n \in Pipes : ~(q = p /\ n = name) => mFd'[q][n] = mFd[q][n]
  BY <1>1, <1>2 DEF TypeOK
<1>6. ASSUME NEW q \in Procs, NEW n \in Pipes
      PROVE  /\ Pending(q, n)' => Pending(q, n)
             /\ Unconnected(q, n)' <=> Unconnected(q, n) /\ ~(q = p /\ n = name)
  <2>1. \/ step[p] < 3 /\ pc' = pc
        \/ step[p] = 3 /\ (pc' = [pc EXCEPT ![p] = "wait"] \/ pc' = [pc EXCEPT ![p] = "idle"])
    BY <1>1 DEF Connected, Begins, Returns
  <2>2. CASE q # p
    <3>1. pc'[q] = pc[q] /\ step'[q] = step[q]
      BY <1>1, <2>1, <2>2 DEF TypeOK
    <3> QED
      BY <2>2, <3>1 DEF Pending, Unconnected
  <2>3. CASE q = p
    <3>1. Place(n) \in 1..3 /\ (Place(n) = step[p] <=> n = name)
      BY <1>2, NamesFacts
    <3>2. step'[p] = step[p] + 1
      BY <1>1 DEF TypeOK
    <3>3. (step[p] < 3 /\ pc'[p] = "connect") \/ (step[p] = 3 /\ pc'[p] \in {"wait", "idle"})
      BY <1>1, <2>1 DEF TypeOK
    <3> QED
      BY <1>1, <2>3, <3>1, <3>2, <3>3 DEF Pending, Unconnected
  <2> QED
    BY <2>2, <2>3
<1>7. ASSUME NEW q \in Procs, NEW n \in Pipes
      PROVE  Placed(q, n)' /\ Whole(q, n)' /\ Half(q, n)'
  <2>1. Placed(q, n) /\ Whole(q, n) /\ Half(q, n)
    BY DEF ParentInv
  <2>2. Placed(q, n)'
    BY <1>1, <1>4, <1>6, <2>1 DEF Placed
  <2>3. Whole(q, n)'
    BY <1>1, <1>4, <1>6, <2>1 DEF Whole
  <2>4. CASE q = p /\ n = name
    <3>1. parentFds'[mFd'[p][name]] = End(p, name, ParentSide(name))
      BY <1>2, <1>3, <1>4, <1>5
    <3>2. ASSUME NEW g \in Fds, NEW side \in Sides, parentFds'[g] = End(p, name, side)
          PROVE  g = mFd'[p][name]
      <4>1. parentFds[g] = End(p, name, side) /\ side # ChildSide(name)
        BY <1>2, <1>4, <3>2
      <4>2. side = ParentSide(name)
        BY <1>2, <4>1, NamesFacts
      <4> QED
        BY <1>5, <2>1, <2>4, <4>1, <4>2 DEF Placed
    <3> QED
      BY <1>1, <1>5, <2>2, <2>3, <2>4, <3>1, <3>2 DEF Half
  <2>5. CASE ~(q = p /\ n = name)
    <3>1. mFd[q][n] \in Fds \union {NoFd} /\ ParentSide(n) \in Sides
      BY NamesFacts DEF TypeOK
    <3>2. Half(q, n)'
      BY <1>1, <1>4, <1>5, <1>6, <2>1, <2>5, <3>1 DEF Half
    <3> QED
      BY <2>2, <2>3, <3>2
  <2> QED
    BY <2>4, <2>5
<1> QED
  BY <1>4, <1>7 DEF ParentInv

LEMMA CloseInputKeepsParent ==
    ASSUME TypeOK, ParentInv, NEW p \in Procs, CloseInput(p), pc[p] \in {"idle", "wait"},
           NEW to \in {"idle", "wait"}, pc' = [pc EXCEPT ![p] = to],
           UNCHANGED <<step, mPipe, child>>
    PROVE  ParentInv'
<1>1. ASSUME NEW q \in Procs, NEW n \in Pipes
      PROVE  (Pending(q, n)' <=> Pending(q, n)) /\ (Unconnected(q, n)' <=> Unconnected(q, n))
  <2>1. pc'[q] = IF q = p THEN to ELSE pc[q]
    BY DEF TypeOK
  <2> QED
    BY <2>1 DEF Pending, Unconnected
<1>2. CASE mFd[p]["in"] = NoFd
  <2>1. parentFds' = parentFds
    BY <1>2, EndsTypes DEF CloseInput, CloseIn
  <2>2. mFd' = mFd
    BY <1>2 DEF CloseInput, TypeOK, Pipes
  <2> QED
    BY <1>1, <2>1, <2>2, QuietParent
<1>3. CASE mFd[p]["in"] # NoFd
  <2> DEFINE fd == mFd[p]["in"]
  <2>0. "in" \in Pipes /\ ParentSide("in") = "w" /\ "w" \in Sides
    BY DEF Pipes, ParentSide, Sides
  <2>1. fd \in Fds /\ parentFds[fd] = End(p, "in", "w") /\ parentFds' = CloseIn(parentFds, fd)
    BY <1>3, <2>0 DEF TypeOK, ParentInv, Half, CloseInput
  <2> HIDE DEF fd
  <2>2. /\ \A g \in Fds, q \in Procs, n \in Pipes, t \in Sides :
             parentFds'[g] = End(q, n, t) <=>
                 parentFds[g] = End(q, n, t) /\ ~(q = p /\ n = "in" /\ t = "w")
        /\ \A g \in ParentOpen : parentFds'[g] = Other
    BY <2>0, <2>1, ClosesOneEnd
  <2>3. /\ mFd'[p]["in"] = NoFd
        /\ \A q \in Procs, n \in Pipes : ~(q = p /\ n = "in") => mFd'[q][n] = mFd[q][n]
    BY <2>0 DEF CloseInput, TypeOK
  <2>4. ASSUME NEW q \in Procs, NEW n \in Pipes
        PROVE  Placed(q, n)' /\ Whole(q, n)' /\ Half(q, n)'
    <3>1. Placed(q, n) /\ Whole(q, n) /\ Half(q, n)
      BY DEF ParentInv
    <3>2. Placed(q, n)'
      BY <1>1, <2>2, <3>1 DEF Placed
    <3>3. ~Unconnected(p, n)
      BY DEF Unconnected
    <3>4. Whole(q, n)'
      BY <1>1, <2>2, <3>1, <3>3 DEF Whole
    <3>5. CASE q = p /\ n = "in"
      <4>1. ASSUME child[p] # "none", NEW g \in Fds, NEW side \in Sides, parentFds'[g] = End(p, "in", side)
            PROVE  FALSE
        <5>1. parentFds[g] = End(p, "in", side) /\ side # "w"
          BY <2>0, <2>2, <4>1
        <5>2. g = fd
          BY <3>1, <3>3, <3>5, <4>1, <5>1 DEF Half, fd
        <5> QED
          BY <2>1, <5>1, <5>2, EndsDiffer
      <4> QED
        BY <2>3, <3>2, <3>4, <3>5, <4>1 DEF Half
    <3>6. CASE ~(q = p /\ n = "in")
      <4>1. mFd[q][n] \in Fds \union {NoFd} /\ ParentSide(n) \in Sides
        BY NamesFacts DEF TypeOK
      <4>2. Half(q, n)'
        BY <1>1, <2>2, <2>3, <3>1, <3>6, <4>1 DEF Half
      <4> QED
        BY <3>2, <3>4, <4>2
    <3> QED
      BY <3>5, <3>6
  <2> QED
    BY <2>2, <2>4 DEF ParentInv
<1> QED
  BY <1>2, <1>3

-----------------------------------------------------------------------------
(* The children's descriptors.                                             *)

LEMMA QuietChildren ==
    ASSUME ChildInv,
           \A q \in Procs : child'[q] \in {"forked", "running"} =>
              child'[q] = child[q] /\ childFds'[q] = childFds[q] /\ mPipe'[q] = mPipe[q]
    PROVE  ChildInv'
<1>1. ASSUME NEW q \in Procs, child'[q] = "forked" PROVE Forked(q)'
  BY <1>1 DEF ChildInv, Forked
<1>2. ChildIsConnected'
  BY DEF ChildInv, ChildIsConnected
<1> QED
  BY <1>1, <1>2 DEF ChildInv

LEMMA ForkKeepsChildren ==
    ASSUME TypeOK, ParentInv, ChildInv, NEW p \in Procs, Fork(p)
    PROVE  ChildInv'
<1>1. /\ pc[p] = "fork" /\ child' = [child EXCEPT ![p] = "forked"]
      /\ childFds' = [childFds EXCEPT ![p] = parentFds] /\ UNCHANGED mPipe
  BY DEF Fork
<1>2. child'[p] = "forked" /\ childFds'[p] = parentFds
  BY <1>1 DEF TypeOK
<1>3. \A q \in Procs : q # p => child'[q] = child[q] /\ childFds'[q] = childFds[q]
  BY <1>1 DEF TypeOK
<1>4. \A n \in Pipes : Placed(p, n) /\ Whole(p, n) /\ Unconnected(p, n)
  BY <1>1 DEF ParentInv, Unconnected
<1>5. Forked(p)'
  BY <1>1, <1>2, <1>4 DEF Forked, Placed, Whole, ParentInv
<1>6. ASSUME NEW q \in Procs, child'[q] = "forked" PROVE Forked(q)'
  BY <1>1, <1>3, <1>5, <1>6 DEF ChildInv, Forked
<1>7. ChildIsConnected'
  BY <1>2, <1>3 DEF ChildInv, ChildIsConnected
<1> QED
  BY <1>6, <1>7 DEF ChildInv

\* connect_child() of one pipe: its end takes the place of 0, 1 or 2, and
\* both ends are closed where they were.
LEMMA ConnectEndFacts ==
    ASSUME NEW p \in Procs, NEW fds \in [Fds -> Ends], NEW name \in Pipes,
           \A side \in Sides : mPipe[p][name][side] \in Fds, StdFd(name) \in Fds
    PROVE  /\ ConnectEnd(p, fds, name) \in [Fds -> Ends]
           /\ \A g \in Fds : ConnectEnd(p, fds, name)[g] =
                IF \E side \in Sides : g = mPipe[p][name][side] THEN Closed
                ELSE IF g = StdFd(name) THEN fds[mPipe[p][name][ChildSide(name)]] ELSE fds[g]
<1>1. ConnectEnd(p, fds, name) \in [Fds -> Ends]
  BY ConnectEndType, NamesFacts
<1> DEFINE from == mPipe[p][name][ChildSide(name)]
           dupped == Dup2In(fds, from, StdFd(name))
           half == CloseIn(dupped, mPipe[p][name].r)
<1>2. dupped \in [Fds -> Ends] /\ \A g \in Fds : dupped[g] = IF g = StdFd(name) THEN fds[from] ELSE fds[g]
  BY NamesFacts DEF Dup2In
<1> HIDE DEF dupped
<1>3. half \in [Fds -> Ends] /\ \A g \in Fds : half[g] = IF g = mPipe[p][name].r THEN Closed ELSE dupped[g]
  BY <1>2, EndsTypes DEF CloseIn
<1> HIDE DEF half
<1>4. \A g \in Fds : CloseIn(half, mPipe[p][name].w)[g] = IF g = mPipe[p][name].w THEN Closed ELSE half[g]
  BY <1>3, EndsTypes DEF CloseIn, Sides
<1>5. ConnectEnd(p, fds, name) = CloseIn(half, mPipe[p][name].w)
  BY DEF ConnectEnd, half, dupped
<1>6. \A g : (\E side \in Sides : g = mPipe[p][name][side])
                 <=> g = mPipe[p][name].r \/ g = mPipe[p][name].w
  BY DEF Sides
<1> HIDE DEF from
<1>7. \A g \in Fds : ConnectEnd(p, fds, name)[g] =
         IF g = mPipe[p][name].r \/ g = mPipe[p][name].w THEN Closed
         ELSE IF g = StdFd(name) THEN fds[from] ELSE fds[g]
  BY <1>2, <1>3, <1>4, <1>5
<1>8. \A g \in Fds : ConnectEnd(p, fds, name)[g] =
         IF \E side \in Sides : g = mPipe[p][name][side] THEN Closed
         ELSE IF g = StdFd(name) THEN fds[from] ELSE fds[g]
  BY <1>6, <1>7
<1> QED
  BY <1>1, <1>8 DEF from

LEMMA ThreeConnected ==
    ASSUME TypeOK, {0, 1, 2} \subseteq ParentOpen, NEW p \in Procs, Forked(p)
    PROVE  LET three == ConnectEnd(p, ConnectEnd(p, ConnectEnd(p, childFds[p], "in"), "out"), "err")
           IN  \A fd \in Fds, name \in Pipes, side \in Sides :
                  three[fd] = End(p, name, side) <=> fd = StdFd(name) /\ side = ChildSide(name)
<1> DEFINE c == childFds[p]
           M(name, side) == mPipe[p][name][side]
           one == ConnectEnd(p, c, "in")
           two == ConnectEnd(p, one, "out")
           three == ConnectEnd(p, two, "err")
           Old(name, g) == \E side \in Sides : g = M(name, side)
<1>1. c \in [Fds -> Ends] /\ {"in", "out", "err"} = Pipes
  BY DEF TypeOK, Pipes
<1>2. /\ StdFd("in") = 0 /\ StdFd("out") = 1 /\ StdFd("err") = 2
      /\ ChildSide("in") = "r" /\ ChildSide("out") = "w" /\ ChildSide("err") = "w"
  BY DEF StdFd, ChildSide
<1>3. 0 \in Fds /\ 1 \in Fds /\ 2 \in Fds /\ c[0] = Other /\ c[1] = Other /\ c[2] = Other
  BY FdsAssumption DEF Fds, Forked
<1>4. \A name \in Pipes, side \in Sides : M(name, side) \in Fds /\ c[M(name, side)] = End(p, name, side)
  BY DEF Forked
<1>5. \A name \in Pipes, g \in {0, 1, 2} : ~Old(name, g)
  BY <1>3, <1>4, EndsDiffer
<1>6. ASSUME NEW name \in Pipes, NEW other \in Pipes, NEW g \in Fds, Old(name, g), Old(other, g)
      PROVE  name = other
  <2>1. PICK s \in Sides, t \in Sides : g = M(name, s) /\ g = M(other, t)
    BY <1>6
  <2>2. End(p, name, s) = End(p, other, t)
    BY <1>4, <2>1
  <2> QED
    BY <2>2, EndsDiffer
<1>7. \A g \in Fds, name \in Pipes, side \in Sides : c[g] = End(p, name, side) => Old(name, g)
  BY DEF Forked
<1>8. /\ one \in [Fds -> Ends]
      /\ \A g \in Fds : one[g] = IF Old("in", g) THEN Closed ELSE IF g = 0 THEN c[M("in", "r")] ELSE c[g]
  BY <1>1, <1>2, <1>3, <1>4, ConnectEndFacts
<1> HIDE DEF one, c
<1>9. /\ two \in [Fds -> Ends]
      /\ \A g \in Fds : two[g] = IF Old("out", g) THEN Closed ELSE IF g = 1 THEN one[M("out", "w")] ELSE one[g]
  BY <1>1, <1>2, <1>3, <1>4, <1>8, ConnectEndFacts
<1> HIDE DEF two
<1>10. \A g \in Fds : three[g] = IF Old("err", g) THEN Closed ELSE IF g = 2 THEN two[M("err", "w")] ELSE two[g]
  BY <1>1, <1>2, <1>3, <1>4, <1>9, ConnectEndFacts
<1> HIDE DEF three
<1>11. Old("in", M("in", "r")) /\ Old("out", M("out", "w")) /\ Old("err", M("err", "w"))
  BY DEF Sides
<1>12. "r" \in Sides /\ "w" \in Sides /\ "in" \in Pipes /\ "out" \in Pipes /\ "err" \in Pipes
  BY DEF Sides, Pipes
<1> HIDE DEF Old, M
<1>13. M("out", "w") \notin {0, 1, 2} /\ M("err", "w") \notin {0, 1, 2}
  BY <1>5, <1>11, <1>12
<1>14. one[M("out", "w")] = End(p, "out", "w") /\ one[M("err", "w")] = End(p, "err", "w")
  BY <1>4, <1>6, <1>8, <1>11, <1>12, <1>13
<1>15. two[M("err", "w")] = End(p, "err", "w")
  BY <1>4, <1>6, <1>9, <1>11, <1>12, <1>13, <1>14
<1>16. three[0] = End(p, "in", "r") /\ three[1] = End(p, "out", "w") /\ three[2] = End(p, "err", "w")
  BY <1>3, <1>4, <1>5, <1>8, <1>9, <1>10, <1>12, <1>14, <1>15
<1>17. ASSUME NEW fd \in Fds, fd \notin {0, 1, 2}, NEW name \in Pipes, NEW side \in Sides
       PROVE  three[fd] # End(p, name, side)
  <2>1. three[fd] = Closed \/ (three[fd] = c[fd] /\ ~Old("in", fd) /\ ~Old("out", fd) /\ ~Old("err", fd))
    BY <1>8, <1>9, <1>10, <1>17
  <2> QED
    BY <1>1, <1>7, <2>1, EndsDiffer
<1>18. ASSUME NEW fd \in Fds, NEW name \in Pipes, NEW side \in Sides
       PROVE  three[fd] = End(p, name, side) <=> fd = StdFd(name) /\ side = ChildSide(name)
  <2>1. CASE fd \in {0, 1, 2}
    BY <1>1, <1>2, <1>16, <2>1, EndsDiffer
  <2>2. CASE fd \notin {0, 1, 2}
    BY <1>1, <1>2, <1>17, <2>2
  <2> QED
    BY <2>1, <2>2
<1> QED
  BY <1>18 DEF three, two, one, c

LEMMA ExecKeepsChildren ==
    ASSUME TypeOK, ChildInv, NEW p \in Procs, Exec(p)
    PROVE  ChildInv'
<1> DEFINE three == ConnectEnd(p, ConnectEnd(p, ConnectEnd(p, childFds[p], "in"), "out"), "err")
<1>1. /\ child[p] = "forked" /\ Forked(p)
      /\ childFds' = [childFds EXCEPT ![p] = three]
      /\ child' = [child EXCEPT ![p] = IF program[p] = "missing" THEN "imposter" ELSE "running"]
      /\ UNCHANGED mPipe
  BY DEF Exec, ChildInv, objectVars
<1>2. {0, 1, 2} \subseteq ParentOpen =>
         \A fd \in Fds, name \in Pipes, side \in Sides :
            three[fd] = End(p, name, side) <=> fd = StdFd(name) /\ side = ChildSide(name)
  BY <1>1, ThreeConnected
<1> HIDE DEF three
<1>3. child'[p] \in {"imposter", "running"} /\ childFds'[p] = three
  BY <1>1 DEF TypeOK
<1>4. \A q \in Procs : q # p => child'[q] = child[q] /\ childFds'[q] = childFds[q]
  BY <1>1 DEF TypeOK
<1>5. ASSUME NEW q \in Procs, child'[q] = "forked" PROVE Forked(q)'
  BY <1>1, <1>3, <1>4, <1>5 DEF ChildInv, Forked
<1>6. ChildIsConnected'
  BY <1>2, <1>3, <1>4 DEF ChildInv, ChildIsConnected, Sides
<1> QED
  BY <1>5, <1>6 DEF ChildInv

-----------------------------------------------------------------------------
LEMMA InitHasInv == Init => Inv
<1> SUFFICES ASSUME Init PROVE Inv
  OBVIOUS
<1>1. TypeOK
  <2>1. parentFds \in [Fds -> Ends] /\ childFds \in [Procs -> [Fds -> Ends]]
    BY EndsTypes DEF Init
  <2>2. /\ step \in [Procs -> 1..4] /\ mPid \in [Procs -> {0, -1, 1}]
        /\ mFd \in [Procs -> [Pipes -> Fds \union {NoFd}]]
        /\ mPipe \in [Procs -> [Pipes -> [r : Fds \union {NoFd}, w : Fds \union {NoFd}]]]
    BY DEF Init
  <2>3. /\ program \in [Procs -> Programs]
        /\ pc \in [Procs -> {"new", "create", "fork", "connect", "wait", "idle"}]
        /\ method \in [Procs -> {"none", "execute", "background", "terminate", "wait"}]
        /\ crash \in [Procs -> BOOLEAN] /\ interrupted \in [Procs -> BOOLEAN]
        /\ child \in [Procs -> {"none", "forked", "running", "imposter", "gone", "killed"}]
        /\ \A p \in Procs : pc[p] # "connect"
    BY DEF Init
  <2> QED
    BY <2>1, <2>2, <2>3 DEF TypeOK
<1>2. \A p \in Procs : pc[p] = "new" /\ step[p] = 1 /\ child[p] = "none"
  BY DEF Init
<1>3. Control
  BY <1>2 DEF Control, Alive
<1>4. \A fd \in Fds : parentFds[fd] \in {Closed, Other}
  BY DEF Init
<1>5. \A p \in Procs, n \in Pipes : mFd[p][n] = NoFd
  BY DEF Init
<1>6. \A fd \in ParentOpen : parentFds[fd] = Other
  BY FdsAssumption DEF Init, Fds
<1>7. ParentInv
  BY <1>2, <1>4, <1>5, <1>6, EndsDiffer DEF ParentInv, Placed, Whole, Half, Unconnected
<1>8. ChildInv
  BY <1>2 DEF ChildInv, ChildIsConnected
<1> QED
  BY <1>1, <1>3, <1>7, <1>8 DEF Inv

LEMMA NextKeepsInv ==
    ASSUME Inv, [Next]_vars
    PROVE  Inv'
<1> USE DEF Inv
<1>1. CASE UNCHANGED vars
  BY <1>1 DEF vars, callerVars, objectVars, childVars, TypeOK, Control, Alive, ParentInv, Placed, Whole,
     Half, Pending, Unconnected, ChildInv, ChildIsConnected, Forked
<1>2. ASSUME NEW p \in Procs, NEW m \in {"execute", "background"}, Call(p, m)
      PROVE  Inv'
  <2>1. /\ pc[p] = "new" /\ step[p] = 1 /\ pc' = [pc EXCEPT ![p] = "create"]
        /\ UNCHANGED <<step, mPipe, mFd, parentFds, child, childFds>>
    BY <1>2 DEF Call, Control, objectVars, childVars
  <2>2. ASSUME NEW q \in Procs, NEW n \in Pipes
        PROVE  (Pending(q, n)' <=> Pending(q, n)) /\ (Unconnected(q, n)' <=> Unconnected(q, n))
    <3>1. pc'[q] = IF q = p THEN "create" ELSE pc[q]
      BY <2>1 DEF TypeOK
    <3>2. Place(n) \in 1..3
      BY NamesFacts
    <3> QED
      BY <2>1, <3>1, <3>2 DEF Pending, Unconnected
  <2>3. ParentInv'
    BY <2>1, <2>2, QuietParent
  <2>4. ChildInv'
    BY <2>1, QuietChildren
  <2> QED
    BY <1>2, <2>3, <2>4, CallKeepsTypes
<1>3. ASSUME NEW p \in Procs, CreatePipe(p)
      PROVE  Inv'
  <2>1. UNCHANGED <<child, childFds>> /\ child[p] = "none"
    BY <1>3 DEF CreatePipe, childVars, Control
  <2>2. \A q \in Procs : q # p => mPipe'[q] = mPipe[q]
    BY <1>3 DEF CreatePipe, TypeOK
  <2>3. ChildInv'
    BY <2>1, <2>2, QuietChildren
  <2> QED
    BY <1>3, <2>3, CreatePipeKeepsTypes, CreatePipeKeepsParent
<1>4. ASSUME NEW p \in Procs, Fork(p) \/ ForkFails(p)
      PROVE  Inv'
  <2>1. TypeOK' /\ Control'
    BY <1>4, ForkKeepsTypes
  <2>2. /\ UNCHANGED <<mPipe, mFd, parentFds>> /\ pc[p] = "fork" /\ step[p] = 1 /\ child[p] = "none"
        /\ \/ Fork(p) /\ step' = step /\ pc' = [pc EXCEPT ![p] = "connect"]
              /\ child' = [child EXCEPT ![p] = "forked"]
           \/ ForkFails(p) /\ step' = step /\ pc' = [pc EXCEPT ![p] = "idle"] /\ UNCHANGED <<child, childFds>>
    BY <1>4 DEF Fork, ForkFails, Control, Returns, childVars
  <2>3. ASSUME NEW q \in Procs, NEW n \in Pipes
        PROVE  /\ Pending(q, n)' => Pending(q, n)
               /\ Unconnected(q, n)' => Unconnected(q, n)
               /\ child'[q] # "none" /\ ~Unconnected(q, n)' => child[q] # "none" /\ ~Unconnected(q, n)
    <3>1. Place(n) \in 1..3
      BY NamesFacts
    <3>2. CASE q # p
      <4>1. pc'[q] = pc[q] /\ step'[q] = step[q] /\ child'[q] = child[q]
        BY <2>2, <3>2 DEF TypeOK
      <4> QED
        BY <4>1 DEF Pending, Unconnected
    <3>3. CASE q = p
      <4>1. step'[p] = 1 /\ (pc'[p] = "connect" \/ (pc'[p] = "idle" /\ child'[p] = "none"))
        BY <2>2 DEF TypeOK
      <4> QED
        BY <2>2, <3>1, <3>3, <4>1 DEF Pending, Unconnected
    <3> QED
      BY <3>2, <3>3
  <2>4. ParentInv'
    BY <2>2, <2>3, QuietParent
  <2>5. ChildInv'
    BY <2>2, ForkKeepsChildren, QuietChildren
  <2> QED
    BY <2>1, <2>4, <2>5
<1>5. ASSUME NEW p \in Procs, ConnectParent(p)
      PROVE  Inv'
  <2>1. UNCHANGED <<mPipe, child, childFds>>
    BY <1>5 DEF ConnectParent, childVars
  <2>2. ChildInv'
    BY <2>1, QuietChildren
  <2> QED
    BY <1>5, <2>2, ConnectParentKeepsTypes, ConnectParentKeepsParent
<1>6. ASSUME NEW p \in Procs, Terminate(p) \/ WaitEnds(p) \/ WaitInterrupted(p)
      PROVE  Inv'
  <2>1. /\ CloseInput(p) /\ UNCHANGED <<step, mPipe, child, childFds>>
        /\ pc[p] \in {"idle", "wait"}
        /\ pc' = [pc EXCEPT ![p] = "wait"] \/ pc' = [pc EXCEPT ![p] = "idle"]
    BY <1>6 DEF Terminate, WaitEnds, WaitInterrupted, Ended, Begins, Returns, childVars
  <2>2. ParentInv'
    BY <2>1, CloseInputKeepsParent
  <2>3. ChildInv'
    BY <2>1, QuietChildren
  <2> QED
    BY <1>6, <2>2, <2>3, WaitKeepsTypes
<1>7. ASSUME NEW p \in Procs, Wait(p) \/ WaitForNothing(p)
      PROVE  Inv'
  <2>1. /\ UNCHANGED <<step, mPipe, mFd, parentFds, child, childFds>>
        /\ pc[p] \in {"idle", "wait"}
        /\ pc' = [pc EXCEPT ![p] = "wait"] \/ pc' = [pc EXCEPT ![p] = "idle"]
    BY <1>7 DEF Wait, WaitForNothing, Begins, Returns, childVars, objectVars
  <2>2. ASSUME NEW q \in Procs, NEW n \in Pipes
        PROVE  (Pending(q, n)' <=> Pending(q, n)) /\ (Unconnected(q, n)' <=> Unconnected(q, n))
    <3>1. q # p => pc'[q] = pc[q]
      BY <2>1 DEF TypeOK
    <3>2. pc'[p] \in {"idle", "wait"}
      BY <2>1 DEF TypeOK
    <3> QED
      BY <2>1, <3>1, <3>2 DEF Pending, Unconnected
  <2>3. ParentInv'
    BY <2>1, <2>2, QuietParent
  <2>4. ChildInv'
    BY <2>1, QuietChildren
  <2> QED
    BY <1>7, <2>3, <2>4, WaitKeepsTypes
<1>8. ASSUME NEW p \in Procs, Exec(p)
      PROVE  Inv'
  <2>1. UNCHANGED <<pc, step, mPipe, mFd, parentFds>> /\ child[p] = "forked"
        /\ \E to : child' = [child EXCEPT ![p] = to]
    BY <1>8 DEF Exec, callerVars, objectVars
  <2>2. \A q \in Procs : child'[q] # "none" => child[q] # "none"
    BY <2>1 DEF TypeOK
  <2>3. ParentInv'
    BY <2>1, <2>2, QuietParent DEF Pending, Unconnected
  <2> QED
    BY <1>8, <2>3, ExecKeepsTypes, ExecKeepsChildren
<1>9. ASSUME NEW p \in Procs, Exits(p) \/ ImposterEnds(p) \/ Kill(p)
      PROVE  Inv'
  <2>1. PICK how \in {"gone", "killed"} : IsGone(p, how) /\ child[p] # "none"
    BY <1>9 DEF Exits, ImposterEnds, Kill, Alive
  <2>2. UNCHANGED <<pc, step, mPipe, mFd, parentFds>> /\ child' = [child EXCEPT ![p] = how]
        /\ childFds' = [childFds EXCEPT ![p] = NoFds]
    BY <2>1 DEF IsGone, callerVars, objectVars
  <2>3. child'[p] = how /\ \A q \in Procs : q # p => child'[q] = child[q] /\ childFds'[q] = childFds[q]
    BY <2>2 DEF TypeOK
  <2>4. \A q \in Procs : child'[q] # "none" => child[q] # "none"
    BY <2>1, <2>3
  <2>5. ParentInv'
    BY <2>2, <2>4, QuietParent DEF Pending, Unconnected
  <2>6. ChildInv'
    BY <2>2, <2>3, QuietChildren
  <2> QED
    BY <2>1, <2>5, <2>6, IsGoneKeepsTypes
<1> QED
  BY <1>1, <1>2, <1>3, <1>4, <1>5, <1>6, <1>7, <1>8, <1>9 DEF Next, CallerResumes, ChildResumes

\* Every variable has its type, for any number of objects and descriptors.
THEOREM TypeCorrect == Spec => []TypeOK
<1>1. Inv => TypeOK
  BY DEF Inv
<1> QED
  BY <1>1, InitHasInv, NextKeepsInv, PTL DEF Spec

\* A program has its own ends of its pipes as 0, 1 and 2 and no other end of
\* them, whatever descriptors the parent gets and whichever it had.
THEOREM ChildrenAreConnected == Spec => []ChildIsConnected
<1>1. Inv => ChildIsConnected
  BY DEF Inv, ChildInv
<1> QED
  BY <1>1, InitHasInv, NextKeepsInv, PTL DEF Spec

\* No object's m_fd ever names a descriptor of another object, and the parent
\* keeps no end but those.
THEOREM ParentsAreConnected == Spec => []ParentIsConnected
<1>1. Inv => ParentIsConnected
  <2> SUFFICES ASSUME Inv, NEW p \in Procs, NEW name \in Pipes
               PROVE  /\ mFd[p][name] # NoFd =>
                            parentFds[mFd[p][name]] = End(p, name, ParentSide(name))
                      /\ child[p] # "none" /\ pc[p] # "connect" =>
                            \A fd \in Fds, side \in {"r", "w"} :
                                parentFds[fd] = End(p, name, side) => fd = mFd[p][name]
    BY DEF ParentIsConnected
  <2>1. Half(p, name)
    BY DEF Inv, ParentInv
  <2>2. child[p] # "none" /\ pc[p] # "connect" => ~Unconnected(p, name)
    BY DEF Inv, Control, Unconnected
  <2> QED
    BY <2>1, <2>2 DEF Half, Sides
<1> QED
  BY <1>1, InitHasInv, NextKeepsInv, PTL DEF Spec

\* running() is true of each object whose child lives, for any number of
\* objects that wait for each other's children.
THEOREM RunningIsTrue == Spec => []RunningWhileAlive
<1>1. Inv => RunningWhileAlive
  BY DEF Inv, Control, RunningWhileAlive
<1> QED
  BY <1>1, InitHasInv, NextKeepsInv, PTL DEF Spec
=============================================================================
