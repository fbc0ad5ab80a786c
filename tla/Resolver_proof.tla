--------------------------- MODULE Resolver_proof ---------------------------
(***************************************************************************)
(* What holds of the Resolver for any number of threads, any libraries,    *)
(* names and references: an initialiser runs once for each name, functions *)
(* are those that are named, and the settings of the Logger take effect.   *)
(***************************************************************************)
EXTENDS Resolver, Logging_proof, SequenceTheorems

Refs == References \union {InitReference}

FrameOK(r) ==
    /\ r = [op |-> r.op, ref |-> r.ref, image |-> r.image, pc |-> r.pc,
            handle |-> r.handle, result |-> r.result]
    /\ r.op \in {"open", "resolve", "get"}
    /\ r.op = "resolve" => r.ref \in Refs
    /\ r.op = "open" => r.image \in Images
    /\ r.op = "get" => r.pc \in {"start", "done"}
    /\ r.pc \in {"check", "load", "initialise", "insert", "opened"} => r.image \in DOMAIN Platform
    /\ r.pc = "initialise" => Platform[r.image] # <<>>

StackInv ==
    /\ \E S : stack \in [Threads -> Seq(S)]
    /\ \A t \in Threads : \A i \in 1..Len(stack[t]) : FrameOK(stack[t][i])

\* The call at depth i of thread t is opening the file.
IsOpening(t, i, f) ==
    /\ t \in Threads /\ i \in 1..Len(stack[t])
    /\ stack[t][i].pc \in {"load", "initialise", "insert"}
    /\ Platform[stack[t][i].image] = f

\* An image is opened by one call at a time, and not when it is in m_images.
OneOpens(f) ==
    \A t \in Threads : \A i \in 1..Len(stack[t]) :
        IsOpening(t, i, f) =>
            /\ f \notin DOMAIN images
            /\ \A u \in Threads : \A j \in 1..Len(stack[u]) : IsOpening(u, j, f) => u = t /\ j = i

\* An initialiser has run when its image is in m_images or about to be.
HasRun(f) ==
    inits[f] # 0 =>
        /\ inits[f] = 1
        /\ \/ f \in DOMAIN images
           \/ \E t \in Threads : \E i \in 1..Len(stack[t]) :
                IsOpening(t, i, f) /\ stack[t][i].pc = "insert"

OnceInv ==
    /\ inits \in [Range(Platform) -> Nat]
    /\ \A f \in DOMAIN inits \ (overlapped \union left) : OneOpens(f) /\ HasRun(f)

Inv == StackInv /\ OnceInv

-----------------------------------------------------------------------------
LEMMA TopFacts ==
    ASSUME StackInv, NEW t \in Threads, NEW pc, At(t, pc)
    PROVE  /\ stack[t] # <<>>
           /\ Len(stack[t]) \in Nat /\ Len(stack[t]) \in 1..Len(stack[t])
           /\ Top(t) = stack[t][Len(stack[t])]
           /\ FrameOK(Top(t))
           /\ Top(t).pc = pc /\ ~exited
<1>1. PICK S : stack \in [Threads -> Seq(S)]
  BY DEF StackInv
<1>2. stack[t] # <<>> /\ Top(t) = stack[t][Len(stack[t])] /\ Top(t).pc = pc /\ ~exited
  BY DEF At, Top
<1>3. stack[t] \in Seq(S)
  BY <1>1
<1>4. Len(stack[t]) \in Nat /\ Len(stack[t]) \in 1..Len(stack[t])
  BY <1>2, <1>3
<1> QED
  BY <1>2, <1>4 DEF StackInv

\* The innermost call of a thread changes, and nothing else on the stacks.
LEMMA GoesFacts ==
    ASSUME StackInv, NEW t \in Threads, stack[t] # <<>>, NEW r, Goes(t, r)
    PROVE  /\ \E S : stack' \in [Threads -> Seq(S)]
           /\ \A u \in Threads :
                /\ Len(stack'[u]) = Len(stack[u])
                /\ \A i \in 1..Len(stack[u]) :
                     stack'[u][i] = IF u = t /\ i = Len(stack[t]) THEN r ELSE stack[u][i]
<1>1. PICK S : stack \in [Threads -> Seq(S)]
  BY DEF StackInv
<1> DEFINE SS == S \union {r}
<1>2. \A u \in Threads : stack[u] \in Seq(S) /\ stack[u] \in Seq(SS)
  BY <1>1
<1>3. [stack[t] EXCEPT ![Len(stack[t])] = r] \in Seq(SS)
  BY <1>2
<1>4. stack' = [stack EXCEPT ![t] = [stack[t] EXCEPT ![Len(stack[t])] = r]]
  BY DEF Goes
<1>5. stack' \in [Threads -> Seq(SS)]
  BY <1>1, <1>2, <1>3, <1>4
<1>6. ASSUME NEW u \in Threads
      PROVE  /\ Len(stack'[u]) = Len(stack[u])
             /\ \A i \in 1..Len(stack[u]) :
                  stack'[u][i] = IF u = t /\ i = Len(stack[t]) THEN r ELSE stack[u][i]
  BY <1>1, <1>2, <1>4
<1> QED
  BY <1>5, <1>6

LEMMA GoesKeepsStackInv ==
    ASSUME StackInv, NEW t \in Threads, stack[t] # <<>>, NEW r, Goes(t, r),
           FrameOK(r)
    PROVE  StackInv'
<1>1. /\ \E S : stack' \in [Threads -> Seq(S)]
      /\ \A u \in Threads :
            /\ Len(stack'[u]) = Len(stack[u])
            /\ \A i \in 1..Len(stack[u]) :
                 stack'[u][i] = IF u = t /\ i = Len(stack[t]) THEN r ELSE stack[u][i]
  BY GoesFacts
<1>2. ASSUME NEW u \in Threads, NEW i \in 1..Len(stack'[u])
      PROVE  FrameOK(stack[u][i])'
  <2>1. i \in 1..Len(stack[u]) /\ FrameOK(stack[u][i])
    BY <1>1 DEF StackInv
  <2>2. stack'[u][i] = r \/ stack'[u][i] = stack[u][i]
    BY <1>1, <2>1
  <2>3. FrameOK(stack'[u][i])
    BY <2>1, <2>2
  <2> QED
    BY <2>3 DEF FrameOK
<1> QED
  BY <1>1, <1>2 DEF StackInv

OpeningPcs == {"load", "initialise", "insert"}

LEMMA OpeningAfterGoes ==
    ASSUME StackInv, NEW t \in Threads, stack[t] # <<>>, NEW r, Goes(t, r)
    PROVE  \A f : \A u \in Threads : \A i \in 1..Len(stack[u]) :
             /\ u = t /\ i = Len(stack[t]) =>
                  (IsOpening(u, i, f)' <=> r.pc \in OpeningPcs /\ Platform[r.image] = f)
             /\ ~(u = t /\ i = Len(stack[t])) => (IsOpening(u, i, f)' <=> IsOpening(u, i, f))
BY GoesFacts DEF IsOpening, OpeningPcs

\* A change of a call that opens nothing, before or after.
LEMMA QuietGoes ==
    ASSUME Inv, NEW t \in Threads, NEW pc, At(t, pc), pc \notin OpeningPcs,
           NEW r, Goes(t, r), r.pc \notin OpeningPcs,
           DOMAIN images' = DOMAIN images, UNCHANGED <<inits, overlapped, left>>
    PROVE  OnceInv'
<1>1. stack[t] # <<>> /\ Top(t) = stack[t][Len(stack[t])] /\ Top(t).pc = pc
      /\ Len(stack[t]) \in 1..Len(stack[t]) /\ StackInv
  BY TopFacts DEF Inv
<1>2. \A u \in Threads : /\ Len(stack'[u]) = Len(stack[u])
                         /\ \A i \in 1..Len(stack[u]) :
                              stack'[u][i] = IF u = t /\ i = Len(stack[t]) THEN r ELSE stack[u][i]
  BY <1>1, GoesFacts
<1>3. ASSUME NEW f, NEW u \in Threads, NEW i \in 1..Len(stack[u])
      PROVE  IsOpening(u, i, f)' <=> IsOpening(u, i, f)
  <2>1. CASE u = t /\ i = Len(stack[t])
    <3>1. IsOpening(u, i, f)' <=> r.pc \in OpeningPcs /\ Platform[r.image] = f
      BY <1>1, <2>1, OpeningAfterGoes
    <3>2. IsOpening(u, i, f) <=> pc \in OpeningPcs /\ Platform[Top(t).image] = f
      BY <1>1, <2>1 DEF IsOpening, OpeningPcs
    <3> QED
      BY <3>1, <3>2 DEF OpeningPcs
  <2>2. CASE ~(u = t /\ i = Len(stack[t]))
    BY <1>1, <2>2, OpeningAfterGoes
  <2> QED
    BY <2>1, <2>2
<1>4. ASSUME NEW f \in DOMAIN inits \ (overlapped \union left)
      PROVE  OneOpens(f)' /\ HasRun(f)'
  <2>1. OneOpens(f) /\ HasRun(f)
    BY <1>4 DEF Inv, OnceInv
  <2>2. OneOpens(f)'
    BY <1>2, <1>3, <2>1 DEF OneOpens
  <2>3. ASSUME inits[f] # 0, NEW u \in Threads, NEW i \in 1..Len(stack[u]),
               IsOpening(u, i, f), stack[u][i].pc = "insert"
        PROVE  IsOpening(u, i, f)' /\ stack'[u][i].pc = "insert"
    BY <1>1, <1>2, <1>3, <2>3 DEF OpeningPcs
  <2>4. HasRun(f)'
    BY <1>2, <2>1, <2>3 DEF HasRun
  <2> QED
    BY <2>2, <2>4
<1> QED
  BY <1>4 DEF Inv, OnceInv

\* A call that is opening a file goes on with it, and may make another call.
LEMMA OpeningGoesOn ==
    ASSUME Inv, NEW t \in Threads, NEW pc, At(t, pc), pc \in {"load", "initialise"},
           NEW r, r.pc \in OpeningPcs, r.image = Top(t).image,
           \A u \in Threads :
             /\ 1..Len(stack[u]) \subseteq 1..Len(stack'[u])
             /\ \A i \in 1..Len(stack[u]) :
                  stack'[u][i] = IF u = t /\ i = Len(stack[t]) THEN r ELSE stack[u][i]
             /\ \A i \in 1..Len(stack'[u]) : i \notin 1..Len(stack[u]) => stack'[u][i].pc = "start",
           UNCHANGED <<images, overlapped, left>>,
           inits' = inits \/ /\ r.pc = "insert"
                             /\ Platform[Top(t).image] \in DOMAIN inits
                             /\ inits' = [inits EXCEPT ![Platform[Top(t).image]] = @ + 1]
    PROVE  OnceInv'
<1> DEFINE file == Platform[Top(t).image]
<1>1. stack[t] # <<>> /\ Top(t) = stack[t][Len(stack[t])] /\ Top(t).pc = pc
      /\ Len(stack[t]) \in 1..Len(stack[t]) /\ StackInv
  BY TopFacts DEF Inv
<1>2. IsOpening(t, Len(stack[t]), file)
  BY <1>1 DEF IsOpening
<1>3. ASSUME NEW f, NEW u \in Threads, NEW i
      PROVE  IsOpening(u, i, f)' <=> IsOpening(u, i, f)
  <2>1. CASE i \in 1..Len(stack[u]) /\ u = t /\ i = Len(stack[t])
    BY <1>1, <2>1 DEF IsOpening, OpeningPcs
  <2>2. CASE i \in 1..Len(stack[u]) /\ ~(u = t /\ i = Len(stack[t]))
    BY <2>2 DEF IsOpening
  <2>3. CASE i \notin 1..Len(stack[u])
    BY <2>3 DEF IsOpening
  <2> QED
    BY <2>1, <2>2, <2>3
<1>4. inits' \in [Range(Platform) -> Nat] /\ DOMAIN inits' = DOMAIN inits
  BY DEF Inv, OnceInv
<1>5. ASSUME NEW f \in DOMAIN inits \ (overlapped \union left)
      PROVE  OneOpens(f)' /\ HasRun(f)'
  <2>1. OneOpens(f) /\ HasRun(f)
    BY <1>5 DEF Inv, OnceInv
  <2>2. OneOpens(f)'
    <3> SUFFICES ASSUME NEW u \in Threads, NEW i \in 1..Len(stack'[u]), IsOpening(u, i, f)'
                 PROVE  /\ f \notin DOMAIN images'
                        /\ \A v \in Threads : \A j \in 1..Len(stack'[v]) :
                             IsOpening(v, j, f)' => v = u /\ j = i
      BY DEF OneOpens
    <3>1. \A v \in Threads : \A j : IsOpening(v, j, f) => j \in 1..Len(stack[v])
      BY DEF IsOpening
    <3>2. IsOpening(u, i, f) /\ i \in 1..Len(stack[u])
      BY <1>3, <3>1
    <3>3. \A v \in Threads : \A j : IsOpening(v, j, f)' => IsOpening(v, j, f) /\ j \in 1..Len(stack[v])
      BY <1>3, <3>1
    <3> QED
      BY <2>1, <3>2, <3>3 DEF OneOpens
  <2>3. ASSUME NEW u \in Threads, NEW i \in 1..Len(stack[u]),
               IsOpening(u, i, f), stack[u][i].pc = "insert"
        PROVE  IsOpening(u, i, f)' /\ stack'[u][i].pc = "insert" /\ i \in 1..Len(stack'[u])
    BY <1>1, <1>3, <2>3
  <2> SUFFICES HasRun(f)'
    BY <2>2
  <2>4. CASE inits'[f] = inits[f]
    <3>1. CASE inits[f] = 0
      BY <2>4, <3>1 DEF HasRun
    <3>2. CASE f \in DOMAIN images
      BY <2>1, <2>4, <3>2 DEF HasRun
    <3>3. CASE \E u \in Threads : \E i \in 1..Len(stack[u]) :
                 IsOpening(u, i, f) /\ stack[u][i].pc = "insert"
      <4>1. \E u \in Threads : \E i \in 1..Len(stack'[u]) :
                 IsOpening(u, i, f)' /\ stack'[u][i].pc = "insert"
        BY <2>3, <3>3
      <4>2. inits[f] = 1 \/ inits[f] = 0
        BY <2>1 DEF HasRun
      <4> QED
        BY <2>4, <4>1, <4>2 DEF HasRun
    <3> QED
      BY <2>1, <3>1, <3>2, <3>3 DEF HasRun
  <2>5. CASE inits'[f] # inits[f]
    <3>1. f = file /\ r.pc = "insert" /\ inits'[f] = inits[f] + 1
      BY <2>5, <1>4 DEF Inv, OnceInv
    <3>2. inits[f] = 0
      <4>1. f \notin DOMAIN images
        BY <1>1, <1>2, <2>1, <3>1 DEF OneOpens
      <4>2. \A u \in Threads : \A i \in 1..Len(stack[u]) :
              IsOpening(u, i, f) => stack[u][i].pc # "insert"
        BY <1>1, <1>2, <2>1, <3>1 DEF OneOpens
      <4> QED
        BY <2>1, <4>1, <4>2 DEF HasRun
    <3>3. PICK n \in 1..Len(stack[t]) : n = Len(stack[t])
      BY <1>1
    <3>4. IsOpening(t, n, f)' /\ stack'[t][n].pc = "insert" /\ n \in 1..Len(stack'[t])
      BY <1>1, <1>2, <1>3, <3>1, <3>3
    <3>5. inits'[f] = 1
      BY <3>1, <3>2
    <3> QED
      BY <3>4, <3>5 DEF HasRun
  <2> QED
    BY <2>4, <2>5
<1> QED
  BY <1>4, <1>5 DEF OnceInv

\* Calls that open nothing come and go.
LEMMA OpeningsAreKept ==
    ASSUME Inv, UNCHANGED <<images, inits, overlapped, left>>,
           \A u \in Threads : \A i, f :
             /\ IsOpening(u, i, f)' <=> IsOpening(u, i, f)
             /\ IsOpening(u, i, f) => stack'[u][i] = stack[u][i]
    PROVE  OnceInv'
<1>1. \A u \in Threads : \A i, f :
         /\ IsOpening(u, i, f) => i \in 1..Len(stack[u]) /\ i \in 1..Len(stack'[u])
         /\ IsOpening(u, i, f)' => i \in 1..Len(stack[u])
  BY DEF IsOpening
<1>2. ASSUME NEW f \in DOMAIN inits \ (overlapped \union left)
      PROVE  OneOpens(f)' /\ HasRun(f)'
  <2>1. OneOpens(f) /\ HasRun(f)
    BY <1>2 DEF Inv, OnceInv
  <2>2. OneOpens(f)'
    BY <1>1, <2>1 DEF OneOpens
  <2>3. HasRun(f)'
    BY <1>1, <2>1 DEF HasRun
  <2> QED
    BY <2>2, <2>3
<1> QED
  BY <1>2 DEF Inv, OnceInv

-----------------------------------------------------------------------------
(* The steps of a thread in a call.                                        *)

LEMMA GetResolverKeepsInv ==
    ASSUME Inv, NEW t \in Threads, GetResolver(t)
    PROVE  Inv'
<1>1. PICK r : r = [Top(t) EXCEPT !.pc = "done"]
  OBVIOUS
<1>2. At(t, "start") /\ Goes(t, r) /\ UNCHANGED <<images, inits, overlapped, left>>
  BY <1>1 DEF GetResolver, GoesTo
<1>3. stack[t] # <<>> /\ FrameOK(Top(t)) /\ StackInv
  BY <1>2, TopFacts DEF Inv
<1>4. FrameOK(r) /\ r.pc = "done"
  BY <1>1, <1>3 DEF FrameOK
<1>5. StackInv'
  BY <1>2, <1>3, <1>4, GoesKeepsStackInv
<1>6. OnceInv'
  BY <1>2, <1>4, QuietGoes DEF OpeningPcs
<1> QED
  BY <1>5, <1>6 DEF Inv

LEMMA ParsedFacts ==
    ASSUME NEW ref \in Refs, Parsed[ref] # Invalid
    PROVE  Parsed[ref].image \in DOMAIN Platform
<1>1. Parsed[ref] \in Range(Parsed) \ {Invalid}
  BY DEF Parsed, Range, Refs
<1> QED
  BY <1>1 DEF Platform

LEMMA StartKeepsInv ==
    ASSUME Inv, NEW t \in Threads, Start(t)
    PROVE  Inv'
<1> DEFINE parsed == Parsed[Top(t).ref]
<1>1. PICK r : r = IF Top(t).op = "open" THEN [Top(t) EXCEPT !.pc = "check"]
                   ELSE IF parsed = Invalid THEN [Top(t) EXCEPT !.pc = "done", !.result = Invalid]
                   ELSE [Top(t) EXCEPT !.pc = "check", !.image = parsed.image]
  OBVIOUS
<1>2. /\ At(t, "start") /\ Top(t).op # "get" /\ Goes(t, r)
      /\ UNCHANGED <<images, inits, overlapped, left>>
  BY <1>1 DEF Start
<1>3. stack[t] # <<>> /\ FrameOK(Top(t)) /\ StackInv
  BY <1>2, TopFacts DEF Inv
<1>4. FrameOK(r) /\ r.pc \in {"check", "done"}
  <2>1. CASE Top(t).op = "open"
    <3>1. Top(t).image \in DOMAIN Platform
      BY <1>3, <2>1 DEF FrameOK, Platform
    <3> QED
      BY <1>1, <1>3, <2>1, <3>1 DEF FrameOK
  <2>2. CASE Top(t).op # "open" /\ parsed = Invalid
    BY <1>1, <1>2, <1>3, <2>2 DEF FrameOK
  <2>3. CASE Top(t).op # "open" /\ parsed # Invalid
    <3>1. parsed.image \in DOMAIN Platform
      BY <1>2, <1>3, <2>3, ParsedFacts DEF FrameOK
    <3> HIDE DEF parsed
    <3> QED
      BY <1>1, <1>2, <1>3, <2>3, <3>1 DEF FrameOK
  <2> QED
    BY <2>1, <2>2, <2>3
<1>6. StackInv'
  BY <1>2, <1>3, <1>4, GoesKeepsStackInv
<1>7. OnceInv'
  BY <1>2, <1>4, QuietGoes DEF OpeningPcs
<1> QED
  BY <1>6, <1>7 DEF Inv

LEMMA LookupKeepsInv ==
    ASSUME Inv, NEW t \in Threads, Lookup(t)
    PROVE  Inv'
<1> DEFINE name   == Platform[Top(t).image]
           symbol == Parsed[Top(t).ref].function
           value  == IF symbol \in DOMAIN images[name] THEN images[name][symbol]
                     ELSE Find(Opened(name), symbol)
<1>1. PICK found : At(t, "opened") /\ (Goes(t, [Top(t) EXCEPT !.pc = "done"])
                                      \/ Goes(t, [Top(t) EXCEPT !.pc = "done", !.result = found]))
  <2>1. At(t, "opened") /\ (GoesTo(t, "done")
                            \/ Goes(t, [Top(t) EXCEPT !.pc = "done", !.result = value]))
    BY Zenon DEF Lookup
  <2> HIDE DEF value
  <2> QED
    BY <2>1, Zenon DEF GoesTo
<1>2. PICK r : /\ Goes(t, r)
               /\ \/ r = [Top(t) EXCEPT !.pc = "done"]
                  \/ r = [Top(t) EXCEPT !.pc = "done", !.result = found]
  BY <1>1
<1>3. UNCHANGED <<inits, overlapped, left>> /\ DOMAIN images' = DOMAIN images
  BY DEF Lookup
<1>4. stack[t] # <<>> /\ FrameOK(Top(t)) /\ StackInv
  BY <1>1, TopFacts DEF Inv
<1>5. FrameOK(r) /\ r.pc = "done"
  <2>1. CASE r = [Top(t) EXCEPT !.pc = "done"]
    BY <1>4, <2>1 DEF FrameOK
  <2>2. CASE r = [Top(t) EXCEPT !.pc = "done", !.result = found]
    BY <1>4, <2>2 DEF FrameOK
  <2> QED
    BY <1>2, <2>1, <2>2
<1>6. StackInv'
  BY <1>2, <1>3, <1>4, <1>5, GoesKeepsStackInv
<1>7. OnceInv'
  BY <1>1, <1>2, <1>3, <1>5, QuietGoes DEF OpeningPcs
<1> QED
  BY <1>6, <1>7 DEF Inv

\* A name gives the program, or a library that some directory has, or nothing.
LEMMA OpenedFacts ==
    ASSUME NEW name
    PROVE  /\ Opened(name) \in Libraries \union {<<>>, None}
           /\ name # <<>> => Opened(name) \in Libraries \union {None} /\ Opened(name) # <<>>
           /\ Opened(<<>>) = <<>>
<1> DEFINE first == {d \in DOMAIN Files : /\ name \in DOMAIN Files[d]
                                          /\ \A e \in 1..d - 1 : name \notin DOMAIN Files[e]}
           d == CHOOSE d \in first : TRUE
<1>0. Opened(<<>>) = <<>> /\ <<>> \notin Libraries \union {None}
  <2>1. Opened(<<>>) = <<>>
    BY Zenon DEF Opened
  <2> QED
    BY <2>1, ResolverAssumption
<1>1. CASE name = <<>>
  BY <1>0, <1>1
<1>2. CASE name # <<>> /\ first = {}
  BY <1>0, <1>2 DEF Opened
<1>3. CASE name # <<>> /\ first # {}
  <2>1. Opened(name) = Files[d][name]
    BY <1>3 DEF Opened
  <2>2. d \in DOMAIN Files /\ name \in DOMAIN Files[d]
    BY <1>3
  <2> HIDE DEF d
  <2>3. Files[d][name] \in Range(Files[d])
    BY <2>2 DEF Range
  <2>4. Files[d][name] \in Libraries
    BY <2>2, <2>3 DEF Libraries
  <2> QED
    BY <1>0, <1>3, <2>1, <2>4
<1> QED
  BY <1>1, <1>2, <1>3

LEMMA LoadKeepsInv ==
    ASSUME Inv, NEW t \in Threads, Load(t)
    PROVE  Inv'
<1> DEFINE name == Platform[Top(t).image]
<1>1. PICK handle, r : r = [Top(t) EXCEPT !.pc = IF name = <<>> THEN "insert" ELSE "initialise",
                                          !.handle = handle]
                       /\ At(t, "load") /\ Goes(t, r)
  <2> DEFINE file == Opened(name)
             h    == IF file \in Broken THEN None ELSE file
             q    == [Top(t) EXCEPT !.pc = IF name = <<>> THEN "insert" ELSE "initialise",
                                    !.handle = h]
  <2>1. At(t, "load") /\ Goes(t, q)
    BY Zenon DEF Load
  <2> QED
    BY <2>1, Zenon
<1>2. UNCHANGED <<images, inits, overlapped, left>>
  BY DEF Load
<1>3. stack[t] # <<>> /\ FrameOK(Top(t)) /\ StackInv /\ Top(t).pc = "load"
  BY <1>1, TopFacts DEF Inv
<1>4. FrameOK(r) /\ r.pc \in {"initialise", "insert"} /\ r.image = Top(t).image
  BY <1>1, <1>3 DEF FrameOK
<1>7. StackInv'
  BY <1>1, <1>3, <1>4, GoesKeepsStackInv
<1>8. \A u \in Threads : /\ Len(stack'[u]) = Len(stack[u])
                         /\ \A i \in 1..Len(stack[u]) :
                              stack'[u][i] = IF u = t /\ i = Len(stack[t]) THEN r ELSE stack[u][i]
  BY <1>1, <1>3, GoesFacts
<1>9. OnceInv'
  <2>1. \A u \in Threads :
          /\ 1..Len(stack[u]) \subseteq 1..Len(stack'[u])
          /\ \A i \in 1..Len(stack[u]) :
               stack'[u][i] = IF u = t /\ i = Len(stack[t]) THEN r ELSE stack[u][i]
          /\ \A i \in 1..Len(stack'[u]) : i \notin 1..Len(stack[u]) => stack'[u][i].pc = "start"
    BY <1>8
  <2>2. r.pc \in OpeningPcs /\ r.image = Top(t).image
    BY <1>4 DEF OpeningPcs
  <2>3. At(t, "load") /\ inits' = inits /\ UNCHANGED <<images, overlapped, left>>
    BY <1>1, <1>2
  <2>4. PICK pc : At(t, pc) /\ pc \in {"load", "initialise"}
    BY <2>3
  <2> QED
    BY <2>1, <2>2, <2>3, <2>4, OpeningGoesOn
<1> QED
  BY <1>7, <1>9 DEF Inv

\* A file that another call is opening is one that is opened by two.
LEMMA CheckKeepsInv ==
    ASSUME Inv, NEW t \in Threads, Check(t)
    PROVE  Inv'
<1> DEFINE file == Platform[Top(t).image]
<1>1. PICK r : r = [Top(t) EXCEPT !.pc = IF file \in DOMAIN images THEN "opened" ELSE "load"]
  OBVIOUS
<1>2. /\ At(t, "check") /\ Goes(t, r) /\ UNCHANGED <<images, inits, left>>
      /\ file \in DOMAIN images => overlapped' = overlapped
      /\ file \notin DOMAIN images =>
            overlapped' = overlapped \union {f \in {file} : \E u \in Threads : Opening(u, f)}
  BY <1>1 DEF Check, GoesTo
<1>3. /\ stack[t] # <<>> /\ FrameOK(Top(t)) /\ StackInv /\ Top(t).pc = "check"
      /\ Top(t) = stack[t][Len(stack[t])] /\ Len(stack[t]) \in 1..Len(stack[t])
  BY <1>2, TopFacts DEF Inv
<1>4. /\ FrameOK(r) /\ r.pc = IF file \in DOMAIN images THEN "opened" ELSE "load"
      /\ r.image = Top(t).image
  BY <1>1, <1>3 DEF FrameOK
<1>5. StackInv'
  BY <1>2, <1>3, <1>4, GoesKeepsStackInv
<1>6. CASE file \in DOMAIN images
  <2>1. OnceInv'
    BY <1>2, <1>4, <1>6, QuietGoes DEF OpeningPcs
  <2> QED
    BY <1>5, <2>1 DEF Inv
<1>7. CASE file \notin DOMAIN images
  <2>1. \A u \in Threads : /\ Len(stack'[u]) = Len(stack[u])
                           /\ \A i \in 1..Len(stack[u]) :
                                stack'[u][i] = IF u = t /\ i = Len(stack[t]) THEN r ELSE stack[u][i]
    BY <1>2, <1>3, GoesFacts
  <2>2. ASSUME NEW f \in DOMAIN inits \ (overlapped' \union left)
        PROVE  OneOpens(f)' /\ HasRun(f)'
    <3>1. OneOpens(f) /\ HasRun(f)
      BY <1>2, <1>7, <2>2 DEF Inv, OnceInv
    <3>2. ASSUME NEW u \in Threads, NEW i \in 1..Len(stack[u]), ~(u = t /\ i = Len(stack[t]))
          PROVE  IsOpening(u, i, f)' <=> IsOpening(u, i, f)
      BY <1>2, <1>3, <3>2, OpeningAfterGoes
    <3>3. ASSUME NEW u \in Threads, NEW i \in 1..Len(stack[u]), IsOpening(u, i, f)
          PROVE  ~(u = t /\ i = Len(stack[t])) /\ IsOpening(u, i, f)' /\ f # file
      <4>1. ~(u = t /\ i = Len(stack[t]))
        BY <1>3, <3>3 DEF IsOpening
      <4>2. i \in DOMAIN stack[u]
        <5>1. PICK S : stack \in [Threads -> Seq(S)]
          BY <1>3 DEF StackInv
        <5> QED
          BY <5>1
      <4>3. Opening(u, f)
        BY <3>3, <4>2 DEF Opening, IsOpening
      <4> QED
        BY <1>2, <1>7, <2>2, <3>2, <3>3, <4>1, <4>3
    <3>4. ASSUME NEW u \in Threads, NEW i \in 1..Len(stack[u]), u = t /\ i = Len(stack[t])
          PROVE  IsOpening(u, i, f)' <=> f = file
      BY <1>2, <1>3, <1>4, <1>7, <3>4, OpeningAfterGoes DEF OpeningPcs
    <3>5. OneOpens(f)'
      <4>1. CASE f = file
        <5>1. \A u \in Threads : \A i \in 1..Len(stack[u]) :
                 IsOpening(u, i, f)' => u = t /\ i = Len(stack[t])
          BY <3>2, <3>3, <4>1
        <5> QED
          BY <1>2, <1>7, <2>1, <4>1, <5>1 DEF OneOpens
      <4>2. CASE f # file
        <5>1. \A u \in Threads : \A i \in 1..Len(stack[u]) : IsOpening(u, i, f)' <=> IsOpening(u, i, f)
          BY <3>2, <3>3, <3>4, <4>2
        <5> QED
          BY <1>2, <2>1, <3>1, <5>1 DEF OneOpens
      <4> QED
        BY <4>1, <4>2
    <3>6. HasRun(f)'
      BY <1>2, <2>1, <3>1, <3>3 DEF HasRun
    <3> QED
      BY <3>5, <3>6
  <2>3. OnceInv'
    BY <1>2, <2>2 DEF Inv, OnceInv
  <2> QED
    BY <1>5, <2>3 DEF Inv
<1> QED
  BY <1>6, <1>7

LEMMA InsertKeepsInv ==
    ASSUME Inv, NEW t \in Threads, Insert(t)
    PROVE  Inv'
<1> DEFINE file == Platform[Top(t).image]
<1>1. PICK r : r = [Top(t) EXCEPT !.pc = "opened"]
  OBVIOUS
<1>2. /\ At(t, "insert") /\ Goes(t, r) /\ UNCHANGED <<inits, overlapped, left>>
      /\ DOMAIN images' = DOMAIN images \union {file}
  BY <1>1 DEF Insert, GoesTo, Put
<1>3. /\ stack[t] # <<>> /\ FrameOK(Top(t)) /\ StackInv /\ Top(t).pc = "insert"
      /\ Top(t) = stack[t][Len(stack[t])] /\ Len(stack[t]) \in 1..Len(stack[t])
  BY <1>2, TopFacts DEF Inv
<1>4. FrameOK(r) /\ r.pc = "opened" /\ r.image = Top(t).image
  BY <1>1, <1>3 DEF FrameOK
<1>5. StackInv'
  BY <1>2, <1>3, <1>4, GoesKeepsStackInv
<1>6. \A u \in Threads : /\ Len(stack'[u]) = Len(stack[u])
                         /\ \A i \in 1..Len(stack[u]) :
                              stack'[u][i] = IF u = t /\ i = Len(stack[t]) THEN r ELSE stack[u][i]
  BY <1>2, <1>3, GoesFacts
<1>7. ASSUME NEW f \in DOMAIN inits \ (overlapped \union left)
      PROVE  OneOpens(f)' /\ HasRun(f)'
  <2>1. OneOpens(f) /\ HasRun(f)
    BY <1>7 DEF Inv, OnceInv
  <2>3. ASSUME NEW u \in Threads, NEW i \in 1..Len(stack[u])
        PROVE  IsOpening(u, i, f)' <=> IsOpening(u, i, f) /\ ~(u = t /\ i = Len(stack[t]))
    BY <1>2, <1>3, <1>4, OpeningAfterGoes DEF OpeningPcs
  <2>4. \A i \in 1..Len(stack[t]) : i = Len(stack[t]) /\ f = file => IsOpening(t, i, f)
    BY <1>3 DEF IsOpening
  <2>5. \A i \in 1..Len(stack[t]) : i = Len(stack[t]) => (IsOpening(t, i, f) => f = file)
    BY <1>3 DEF IsOpening
  <2>6. OneOpens(f)'
    BY <1>2, <1>3, <1>6, <2>1, <2>3, <2>4 DEF OneOpens
  <2>7. HasRun(f)'
    <3>1. ASSUME NEW u \in Threads, NEW i \in 1..Len(stack[u]),
                 IsOpening(u, i, f) /\ stack[u][i].pc = "insert", f \notin DOMAIN images'
          PROVE  IsOpening(u, i, f)' /\ stack'[u][i].pc = "insert"
      BY <1>2, <1>3, <1>6, <2>3, <2>5, <3>1
    <3> QED
      BY <1>2, <1>6, <2>1, <3>1 DEF HasRun
  <2> QED
    BY <2>6, <2>7
<1>8. OnceInv'
  BY <1>2, <1>7 DEF Inv, OnceInv
<1> QED
  BY <1>5, <1>8 DEF Inv

\* The call that was in the initialiser goes on to keep the Library, and the
\* initialiser may have made a call of its own.
LEMMA InitialiserFrames ==
    ASSUME StackInv, NEW t \in Threads, RunInitialiser(t),
           NEW r, r = [Top(t) EXCEPT !.pc = "insert"],
           NEW frame, frame = Frame("resolve", InitReference, <<>>)
    PROVE  /\ \E S : stack' \in [Threads -> Seq(S)]
           /\ \A u \in Threads :
                /\ 1..Len(stack[u]) \subseteq 1..Len(stack'[u])
                /\ \A i \in 1..Len(stack[u]) :
                     stack'[u][i] = IF u = t /\ i = Len(stack[t]) THEN r ELSE stack[u][i]
                /\ \A i \in 1..Len(stack'[u]) : i \notin 1..Len(stack[u]) => stack'[u][i] = frame
<1> DEFINE n == Len(stack[t])
           own == [stack[t] EXCEPT ![n].pc = "insert"]
<1>1. /\ At(t, "initialise")
      /\ \/ stack' = [stack EXCEPT ![t] = own]
         \/ stack' = [stack EXCEPT ![t] = Append(own, frame)]
  BY DEF RunInitialiser
<1>2. stack[t] # <<>> /\ Top(t) = stack[t][n] /\ n \in Nat /\ n \in 1..n
  BY <1>1, TopFacts
<1>3. PICK S : stack \in [Threads -> Seq(S)]
  BY DEF StackInv
<1> DEFINE SS == (S \union {r}) \union {frame}
<1>4. own = [stack[t] EXCEPT ![n] = r] /\ own \in Seq(SS) /\ Len(own) = n
  <2>1. stack[t] \in Seq(SS)
    BY <1>3
  <2>2. own = [stack[t] EXCEPT ![n] = r]
    BY <1>2
  <2>3. r \in SS
    OBVIOUS
  <2> HIDE DEF own, SS
  <2>4. [stack[t] EXCEPT ![n] = r] \in Seq(SS) /\ Len([stack[t] EXCEPT ![n] = r]) = n
    BY <1>2, <2>1, <2>3
  <2> QED
    BY <2>2, <2>4
<1>5. frame \in SS /\ Append(own, frame) \in Seq(SS)
  <2> HIDE DEF own
  <2> QED
    BY <1>4
<1>6. stack' \in [Threads -> Seq(SS)]
  <2>1. stack \in [Threads -> Seq(SS)]
    BY <1>3
  <2> HIDE DEF own, SS
  <2> QED
    BY <1>1, <1>4, <1>5, <2>1
<1>7. \A u \in Threads :
         /\ 1..Len(stack[u]) \subseteq 1..Len(stack'[u])
         /\ \A i \in 1..Len(stack[u]) :
              stack'[u][i] = IF u = t /\ i = Len(stack[t]) THEN r ELSE stack[u][i]
         /\ \A i \in 1..Len(stack'[u]) : i \notin 1..Len(stack[u]) => stack'[u][i] = frame
  <2>1. ASSUME NEW u \in Threads, u # t
        PROVE  stack'[u] = stack[u]
    BY <1>1, <1>3, <2>1
  <2>2. stack'[t] = own \/ stack'[t] = Append(own, frame)
    BY <1>1, <1>3
  <2>3. \A i \in 1..n : own[i] = IF i = n THEN r ELSE stack[t][i]
    BY <1>2, <1>3, <1>4
  <2> HIDE DEF own, SS, n
  <2>4. /\ 1..n \subseteq 1..Len(stack'[t])
        /\ \A i \in 1..n : stack'[t][i] = own[i]
        /\ \A i \in 1..Len(stack'[t]) : i \notin 1..n => stack'[t][i] = frame
    <3>1. CASE stack'[t] = own
      BY <1>4, <3>1
    <3>2. CASE stack'[t] = Append(own, frame)
      <4>1. n \in Nat
        BY <1>2
      <4>2. Len(stack'[t]) = n + 1 /\ stack'[t][n + 1] = frame
        BY <1>4, <3>2
      <4>3. \A i \in 1..n : stack'[t][i] = own[i]
        BY <1>4, <3>2, <4>1
      <4> QED
        BY <4>1, <4>2, <4>3
    <3> QED
      BY <2>2, <3>1, <3>2
  <2> QED
    BY <2>1, <2>3, <2>4 DEF n
<1> QED
  BY <1>6, <1>7

LEMMA RunInitialiserKeepsInv ==
    ASSUME Inv, NEW t \in Threads, RunInitialiser(t)
    PROVE  Inv'
<1> DEFINE file == Platform[Top(t).image]
           n == Len(stack[t])
           frame == Frame("resolve", InitReference, <<>>)
<1>1. PICK r : r = [Top(t) EXCEPT !.pc = "insert"]
  OBVIOUS
<1>2. /\ At(t, "initialise") /\ UNCHANGED <<images, overlapped, left>>
      /\ inits' = inits \/ inits' = [inits EXCEPT ![file] = @ + 1]
  BY DEF RunInitialiser
<1>3. /\ stack[t] # <<>> /\ FrameOK(Top(t)) /\ StackInv /\ Top(t).pc = "initialise"
      /\ Top(t) = stack[t][n] /\ n \in Nat /\ n \in 1..n
  BY <1>2, TopFacts DEF Inv
<1>4. FrameOK(r) /\ r.pc = "insert" /\ r.image = Top(t).image
  BY <1>1, <1>3 DEF FrameOK
<1>5. FrameOK(frame) /\ frame.pc = "start"
  BY DEF FrameOK, Frame, Refs
<1>6. \E S : stack' \in [Threads -> Seq(S)]
  BY <1>1, <1>3, InitialiserFrames
<1>7. \A u \in Threads :
         /\ 1..Len(stack[u]) \subseteq 1..Len(stack'[u])
         /\ \A i \in 1..Len(stack[u]) :
              stack'[u][i] = IF u = t /\ i = Len(stack[t]) THEN r ELSE stack[u][i]
         /\ \A i \in 1..Len(stack'[u]) : i \notin 1..Len(stack[u]) => stack'[u][i] = frame
  BY <1>1, <1>3, InitialiserFrames
<1> HIDE DEF frame
<1>8. StackInv'
  <2>1. ASSUME NEW u \in Threads, NEW i \in 1..Len(stack'[u])
        PROVE  FrameOK(stack[u][i])'
    <3>1. \/ stack'[u][i] \in {r, frame}
          \/ i \in 1..Len(stack[u]) /\ stack'[u][i] = stack[u][i]
      BY <1>7
    <3>2. FrameOK(stack'[u][i])
      BY <1>3, <1>4, <1>5, <3>1 DEF StackInv
    <3> QED
      BY <3>2 DEF FrameOK
  <2> QED
    BY <1>6, <2>1 DEF StackInv
<1>9. OnceInv'
  <2>1. file \in DOMAIN inits
    BY <1>3 DEF FrameOK, Range, Inv, OnceInv
  <2>2. r.pc \in OpeningPcs
    BY <1>4 DEF OpeningPcs
  <2>3. \A u \in Threads :
          /\ 1..Len(stack[u]) \subseteq 1..Len(stack'[u])
          /\ \A i \in 1..Len(stack[u]) :
               stack'[u][i] = IF u = t /\ i = Len(stack[t]) THEN r ELSE stack[u][i]
          /\ \A i \in 1..Len(stack'[u]) : i \notin 1..Len(stack[u]) => stack'[u][i].pc = "start"
    BY <1>5, <1>7
  <2> QED
    BY <1>2, <1>4, <2>1, <2>2, <2>3, OpeningGoesOn
<1> QED
  BY <1>8, <1>9 DEF Inv

\* What the calls of the thread were opening is left.
LEMMA ThrowKeepsInv ==
    ASSUME Inv, NEW t \in Threads, Throw(t)
    PROVE  Inv'
<1>1. /\ stack' = [stack EXCEPT ![t] = <<>>]
      /\ left' = left \union {name \in Range(Platform) : Opening(t, name)}
      /\ UNCHANGED <<images, inits, overlapped>>
  BY DEF Throw
<1>2. PICK S : stack \in [Threads -> Seq(S)]
  BY DEF Inv, StackInv
<1>3. stack' \in [Threads -> Seq(S)] /\ Len(stack'[t]) = 0 /\ \A u \in Threads : u # t => stack'[u] = stack[u]
  BY <1>1, <1>2
<1>4. StackInv'
  <2>1. ASSUME NEW u \in Threads, NEW i \in 1..Len(stack'[u])
        PROVE  FrameOK(stack[u][i])'
    <3>1. u # t /\ stack'[u] = stack[u]
      BY <1>3
    <3>2. FrameOK(stack'[u][i])
      BY <3>1 DEF Inv, StackInv
    <3> QED
      BY <3>2 DEF FrameOK
  <2> QED
    BY <1>3, <2>1 DEF StackInv
<1>5. ASSUME NEW f \in DOMAIN inits \ (overlapped \union left')
      PROVE  OneOpens(f)' /\ HasRun(f)'
  <2>1. OneOpens(f) /\ HasRun(f) /\ f \in Range(Platform)
    BY <1>1, <1>5 DEF Inv, OnceInv
  <2>2. \A i : ~IsOpening(t, i, f)
    <3>1. ASSUME NEW i, IsOpening(t, i, f)
          PROVE  Opening(t, f)
      BY <1>2, <3>1 DEF IsOpening, Opening
    <3> QED
      BY <1>1, <1>5, <2>1, <3>1
  <2>3. \A i : ~IsOpening(t, i, f)'
    BY <1>3 DEF IsOpening
  <2>4. \A u \in Threads : u # t => stack'[u] = stack[u] /\ \A i : IsOpening(u, i, f)' <=> IsOpening(u, i, f)
    BY <1>3 DEF IsOpening
  <2>5. OneOpens(f)'
    BY <1>1, <2>1, <2>3, <2>4 DEF OneOpens
  <2>6. HasRun(f)'
    BY <1>1, <2>1, <2>2, <2>4 DEF HasRun
  <2> QED
    BY <2>5, <2>6
<1> QED
  BY <1>1, <1>4, <1>5 DEF Inv, OnceInv

\* A call begins, or returns.
LEMMA CallsKeepInv ==
    ASSUME Inv, NEW t \in Threads, UNCHANGED <<images, inits, overlapped, left>>,
           \/ \E frame : FrameOK(frame) /\ frame.pc = "start" /\ stack[t] = <<>>
                           /\ stack' = [stack EXCEPT ![t] = <<frame>>]
           \/ At(t, "done") /\ stack' = [stack EXCEPT ![t] = Front(@)]
    PROVE  Inv'
<1>1. PICK S : stack \in [Threads -> Seq(S)]
  BY DEF Inv, StackInv
<1>2. CASE \E frame : FrameOK(frame) /\ frame.pc = "start" /\ stack[t] = <<>>
                        /\ stack' = [stack EXCEPT ![t] = <<frame>>]
  <2>1. PICK frame : FrameOK(frame) /\ frame.pc = "start" /\ stack[t] = <<>>
                       /\ stack' = [stack EXCEPT ![t] = <<frame>>]
    BY <1>2
  <2>2. stack' \in [Threads -> Seq(S \union {frame})]
    BY <1>1, <2>1
  <2>3. \A u \in Threads : u # t => stack'[u] = stack[u]
    BY <1>1, <2>1
  <2>4. Len(stack[t]) = 0 /\ Len(stack'[t]) = 1 /\ stack'[t][1] = frame
    BY <1>1, <2>1
  <2>5. ASSUME NEW u \in Threads, NEW i \in 1..Len(stack'[u])
        PROVE  FrameOK(stack[u][i])'
    <3>1. CASE u = t
      BY <2>1, <2>4, <3>1 DEF FrameOK
    <3>2. CASE u # t
      BY <2>3, <3>2 DEF FrameOK, Inv, StackInv
    <3> QED
      BY <3>1, <3>2
  <2>6. StackInv'
    BY <2>2, <2>5 DEF StackInv
  <2>7. ASSUME NEW u \in Threads, NEW i, NEW f
        PROVE  /\ IsOpening(u, i, f)' <=> IsOpening(u, i, f)
               /\ IsOpening(u, i, f) => stack'[u][i] = stack[u][i]
    BY <2>1, <2>3, <2>4 DEF IsOpening
  <2> QED
    BY <2>6, <2>7, OpeningsAreKept DEF Inv
<1>3. CASE At(t, "done") /\ stack' = [stack EXCEPT ![t] = Front(@)]
  <2>1. /\ stack[t] # <<>> /\ Top(t).pc = "done" /\ Top(t) = stack[t][Len(stack[t])]
        /\ Len(stack[t]) \in 1..Len(stack[t])
    BY <1>3, TopFacts DEF Inv
  <2>2. stack' \in [Threads -> Seq(S)]
    BY <1>1, <1>3, <2>1 DEF Front
  <2>3. \A u \in Threads : u # t => stack'[u] = stack[u]
    BY <1>1, <1>3
  <2>4. /\ Len(stack'[t]) = Len(stack[t]) - 1
        /\ \A i \in 1..Len(stack[t]) - 1 : stack'[t][i] = stack[t][i]
    <3>1. stack[t] \in Seq(S) /\ stack'[t] = SubSeq(stack[t], 1, Len(stack[t]) - 1)
      BY <1>1, <1>3 DEF Front
    <3>2. Len(stack[t]) - 1 \in 0..Len(stack[t])
      BY <2>1, <3>1
    <3> QED
      BY <3>1, <3>2
  <2>5. ASSUME NEW u \in Threads, NEW i \in 1..Len(stack'[u])
        PROVE  stack'[u][i] = stack[u][i] /\ i \in 1..Len(stack[u])
    BY <1>1, <2>1, <2>3, <2>4
  <2>6. StackInv'
    BY <2>2, <2>5 DEF StackInv, FrameOK, Inv
  <2>7. ASSUME NEW u \in Threads, NEW i, NEW f
        PROVE  /\ IsOpening(u, i, f)' <=> IsOpening(u, i, f)
               /\ IsOpening(u, i, f) => stack'[u][i] = stack[u][i]
    <3>1. CASE u # t
      BY <2>3, <3>1 DEF IsOpening
    <3>2. CASE u = t /\ i \in 1..Len(stack[t]) - 1
      BY <1>1, <2>1, <2>4, <3>2 DEF IsOpening
    <3>3. CASE u = t /\ i \notin 1..Len(stack[t]) - 1
      <4>1. i \in 1..Len(stack[t]) => stack[t][i].pc = "done"
        BY <1>1, <2>1, <3>3
      <4>2. i \notin 1..Len(stack'[t])
        BY <2>4, <3>3
      <4> QED
        BY <3>3, <4>1, <4>2 DEF IsOpening
    <3> QED
      BY <3>1, <3>2, <3>3
  <2> QED
    BY <2>6, <2>7, OpeningsAreKept DEF Inv
<1> QED
  BY <1>2, <1>3

\* What the Logger does leaves the Resolver alone.
LEMMA OthersKeepInv ==
    ASSUME Inv, UNCHANGED <<images, stack, inits, overlapped, left>>
    PROVE  Inv'
<1>1. StackInv'
  BY DEF Inv, StackInv, FrameOK
<1>2. OnceInv'
  BY OpeningsAreKept DEF IsOpening, Inv
<1> QED
  BY <1>1, <1>2 DEF Inv

LEMMA InitHasInv ==
    ASSUME ResInit
    PROVE  Inv
<1>1. stack = [t \in Threads |-> <<>>] /\ inits = [f \in Range(Platform) |-> 0]
  BY DEF ResInit
<1>2. stack \in [Threads -> Seq({})] /\ \A t \in Threads : Len(stack[t]) = 0
  BY <1>1
<1>3. StackInv
  BY <1>2 DEF StackInv
<1>4. OnceInv
  BY <1>1, <1>2 DEF OnceInv, OneOpens, HasRun
<1> QED
  BY <1>3, <1>4 DEF Inv

LEMMA NextKeepsInv ==
    ASSUME Inv, [Next]_vars
    PROVE  Inv'
<1>1. ASSUME NEW t \in Threads, NEW op, NEW ref, NEW image, Call(t, op, ref, image),
             FrameOK(Frame(op, ref, image))
      PROVE  Inv'
  <2>1. Frame(op, ref, image).pc = "start"
    BY DEF Frame
  <2> QED
    BY <1>1, <2>1, CallsKeepInv DEF Call, Idle
<1>2. CASE \E t \in Threads : Running(t)
  <2>1. PICK t \in Threads : Running(t)
    BY <1>2
  <2>2. CASE Return(t)
    BY <2>2, CallsKeepInv DEF Return
  <2> QED
    BY <2>1, <2>2, GetResolverKeepsInv, StartKeepsInv, CheckKeepsInv, LoadKeepsInv,
       RunInitialiserKeepsInv, InsertKeepsInv, ThrowKeepsInv, LookupKeepsInv DEF Running
<1>3. CASE ProgramStarts \/ ProgramRegisters \/ UNCHANGED vars
           \/ \E t \in Threads : LogCall(t) \/ LogRuns(t)
  BY <1>3, OthersKeepInv DEF ProgramStarts, ProgramRegisters, LogCall, LogRuns, vars, resVars
<1>4. /\ \A ref \in References : FrameOK(Frame("resolve", ref, <<>>))
      /\ \A image \in Images : FrameOK(Frame("open", <<>>, image))
      /\ FrameOK(Frame("get", <<>>, <<>>))
  BY DEF FrameOK, Frame, Refs
<1> QED
  BY <1>1, <1>2, <1>3, <1>4 DEF Next

\* What dlopen() loads.
LEMMA FileAndNeeds ==
    ASSUME NEW file \in Libraries
    PROVE  /\ <<file>> \o Needs[file] \in Seq(Libraries)
           /\ Range(<<file>> \o Needs[file]) \subseteq Libraries
<1>1. Needs[file] \in Seq(Libraries) /\ <<file>> \in Seq(Libraries)
  BY ResolverAssumption
<1> DEFINE all == <<file>> \o Needs[file]
<1>2. all \in Seq(Libraries)
  BY <1>1
<1> HIDE DEF all
<1>3. Range(all) \subseteq Libraries
  BY <1>2 DEF Range
<1> QED
  BY <1>2, <1>3 DEF all

\* Each step of the program is one of the Logger or leaves it alone.  What
\* registers are the categories of files that are loaded, or the program's.
LEMMA NextKeepsLogInv ==
    ASSUME LogInv, [Next]_vars
    PROVE  LogInv'
<1>1. CASE UNCHANGED logVars
  BY <1>1, UnchangedKeeps DEF logVars
<1>2. CASE ProgramStarts
  BY <1>2, MakeLoggerKeeps DEF ProgramStarts
<1>3. ASSUME NEW S \in SUBSET (Libraries \union {<<>>}), Register(Registers[S])
      PROVE  LogInv'
  BY <1>3, RegisterKeeps, ResolverAssumption
<1>4. CASE ProgramRegisters
  BY <1>3, <1>4 DEF ProgramRegisters
<1>5. ASSUME NEW t \in Threads, Load(t)
      PROVE  LogInv'
  <2> DEFINE file == Opened(Platform[Top(t).image])
  <2>1. Register(Registers[Fresh(file)])
    BY <1>5 DEF Load
  <2>2. Fresh(file) \in SUBSET (Libraries \union {<<>>})
    <3>1. file \in Libraries \union {<<>>, None}
      BY OpenedFacts
    <3> HIDE DEF file
    <3>2. CASE file \in {<<>>, None} \union Broken
      BY <3>2 DEF Fresh
    <3>3. CASE file \notin {<<>>, None} \union Broken
      BY <3>1, <3>3, FileAndNeeds DEF Fresh
    <3> QED
      BY <3>2, <3>3
  <2> QED
    BY <1>3, <2>1, <2>2
<1>6. ASSUME NEW t \in Threads, LogCall(t)
      PROVE  LogInv'
  BY <1>6, SetCategoryKeeps, StartResetKeeps DEF LogCall
<1>7. ASSUME NEW t \in Threads, LogRuns(t)
      PROVE  LogInv'
  BY <1>7, ResetStepKeeps DEF LogRuns
<1>8. ASSUME NEW t \in Threads, Running(t), ~Load(t)
      PROVE  UNCHANGED logVars
  BY <1>8 DEF Running, GetResolver, Start, Check, RunInitialiser, Insert, Throw, Lookup, Return
<1>9. ASSUME NEW t \in Threads, NEW op, NEW ref, NEW image, Call(t, op, ref, image)
      PROVE  UNCHANGED logVars
  BY <1>9 DEF Call
<1>10. UNCHANGED vars => UNCHANGED logVars
  BY DEF vars
<1> QED
  BY <1>1, <1>2, <1>4, <1>5, <1>6, <1>7, <1>8, <1>9, <1>10 DEF Next

-----------------------------------------------------------------------------
(* What dlsym() gives, and what resolve() makes of it.                     *)

\* What resolve() gives, or has kept, for a symbol of a file.
IsOf(result, file, symbol) ==
    \/ result = Find(file, symbol)
    \/ file = <<>> /\ result = None

\* An image of the name is not kept, or about to be, without the initialiser
\* having run.
Initialised(name, file) ==
    name # <<>> /\ Find(file, OblInit) # None => inits[name] # 0

FunctionsInv ==
    /\ DOMAIN images \subseteq Range(Platform)
    /\ \A name \in DOMAIN images :
         /\ Opened(name) # None /\ Initialised(name, Opened(name))
         /\ \A s \in DOMAIN images[name] : IsOf(images[name][s], Opened(name), s)

\* A call of resolve() is at the image of its reference; a call that asks the
\* Library has one; what it returns is of the image and the function.
Named(r) ==
    /\ r.pc \in {"initialise", "insert"} => r.handle \in {None, Opened(Platform[r.image])}
    /\ r.pc = "insert" /\ r.handle # None => Initialised(Platform[r.image], r.handle)
    /\ r.pc = "opened" => Platform[r.image] \in DOMAIN images
    /\ r.op = "resolve" /\ r.pc \in {"check", "load", "initialise", "insert", "opened"} =>
          Parsed[r.ref] # Invalid /\ r.image = Parsed[r.ref].image
    /\ r.op = "resolve" /\ r.pc = "done" /\ r.result # Invalid =>
          /\ Parsed[r.ref] # Invalid /\ Opened(Platform[Parsed[r.ref].image]) # None
          /\ IsOf(r.result, Opened(Platform[Parsed[r.ref].image]), Parsed[r.ref].function)

NamedInv == \A t \in Threads : \A i \in 1..Len(stack[t]) : Named(stack[t][i])

LoadedInv == loaded \in Seq(Libraries)

FoundInv == LoadedInv /\ FunctionsInv /\ NamedInv

\* dlopen() loads more libraries behind those there are; an initialiser that
\* has run has run.
Grows ==
    /\ loaded' = loaded \/ \E more \in Seq(Libraries) : loaded' = loaded \o more
    /\ \A name \in Range(Platform) : inits[name] # 0 => inits'[name] # 0

LEMMA LeastOf ==
    ASSUME NEW S \in SUBSET Nat, S # {}
    PROVE  Min(S) \in S /\ \A y \in S : Min(S) <= y
<1>0. S \subseteq Nat
  OBVIOUS
<1>1. PICK x \in S : \A y \in S : ~(<<y, x>> \in OpToRel(<, Nat))
  BY <1>0, NatLessThanWellFounded, WFMin
<1>2. ASSUME NEW y \in S, y < x PROVE FALSE
  BY <1>1, <1>2 DEF OpToRel
<1>3. \A y \in S : x <= y
  BY <1>2
<1> QED
  BY <1>3 DEF Min

\* What is added behind does not change the first that is found.
LEMMA FirstStays ==
    ASSUME NEW n \in Nat, NEW m \in Nat, n <= m, NEW I \in SUBSET (1..n), NEW J \in SUBSET (1..m),
           I # {}, \A i \in 1..n : i \in I <=> i \in J
    PROVE  Min(J) = Min(I) /\ Min(I) \in 1..n
<1>1. I \in SUBSET Nat /\ J \in SUBSET Nat
  <2>1. 1..n \subseteq Nat /\ 1..m \subseteq Nat
    OBVIOUS
  <2> QED
    BY <2>1
<1>2. J # {}
  BY Zenon
<1>3. Min(I) \in I /\ Min(J) \in J /\ (\A y \in I : Min(I) <= y) /\ (\A y \in J : Min(J) <= y)
  BY <1>1, <1>2, LeastOf
<1> HIDE DEF Min
<1>4. PICK i, j : i = Min(I) /\ j = Min(J)
  OBVIOUS
<1>5. i \in 1..n /\ i \in J /\ j \in 1..m /\ j <= i
  BY <1>3, <1>4
<1>6. j \in I
  BY <1>3, <1>4, <1>5
<1>7. i <= j
  BY <1>3, <1>4, <1>6
<1> QED
  BY <1>4, <1>5, <1>7

\* The function of a library stays what it is; the program may get one that
\* it has not had.
LEMMA FindStays ==
    ASSUME LoadedInv, Grows, NEW file, file # None, NEW symbol
    PROVE  \/ Find(file, symbol)' = Find(file, symbol)
           \/ file = <<>> /\ Find(file, symbol) = None
<1>1. CASE file # <<>>
  <2> DEFINE scope == <<file>> \o Needs[file]
             I  == {i \in 1..Len(scope) : symbol \in Symbols(scope[i])}
             at == IF I # {} THEN Min(I) ELSE 0
  <2>1. Find(file, symbol) = IF at = 0 THEN None ELSE [file |-> scope[at], symbol |-> symbol]
    BY <1>1 DEF Find, SelectInSeq
  <2>2. Find(file, symbol)' = IF at = 0 THEN None ELSE [file |-> scope[at], symbol |-> symbol]
    BY <1>1 DEF Find, SelectInSeq
  <2> QED
    BY <2>1, <2>2
<1>2. CASE file = <<>>
  <2> DEFINE scope  == <<(<<>>)>> \o loaded
             scope1 == <<(<<>>)>> \o loaded'
             I == {i \in 1..Len(scope) : symbol \in Symbols(scope[i])}
             J == {i \in 1..Len(scope1) : symbol \in Symbols(scope1[i])}
             at  == IF I # {} THEN Min(I) ELSE 0
             at1 == IF J # {} THEN Min(J) ELSE 0
  <2>1. Find(file, symbol) = IF at = 0 THEN None ELSE [file |-> scope[at], symbol |-> symbol]
    BY <1>2 DEF Find, SelectInSeq
  <2>2. Find(file, symbol)' = IF at1 = 0 THEN None ELSE [file |-> scope1[at1], symbol |-> symbol]
    BY <1>2 DEF Find, SelectInSeq
  <2>3. /\ Len(scope) \in Nat /\ Len(scope1) \in Nat /\ Len(scope) <= Len(scope1)
        /\ \A i \in 1..Len(scope) : scope1[i] = scope[i]
    <3> DEFINE T == Libraries \union {<<>>}
    <3>1. <<(<<>>)>> \in Seq(T) /\ loaded \in Seq(T) /\ \A more \in Seq(Libraries) : more \in Seq(T)
      BY DEF LoadedInv
    <3>2. scope \in Seq(T)
      BY <3>1
    <3>3. CASE loaded' = loaded
      <4>1. scope1 = scope
        BY <3>3
      <4> HIDE DEF scope, scope1
      <4> QED
        BY <3>2, <4>1
    <3>4. ASSUME NEW more \in Seq(Libraries), loaded' = loaded \o more
          PROVE  /\ Len(scope) \in Nat /\ Len(scope1) \in Nat /\ Len(scope) <= Len(scope1)
                 /\ \A i \in 1..Len(scope) : scope1[i] = scope[i]
      <4>1. more \in Seq(T) /\ scope1 = <<(<<>>)>> \o (loaded \o more)
        BY <3>1, <3>4
      <4>2. scope1 = scope \o more
        BY <3>1, <4>1, ConcatAssociative
      <4> HIDE DEF scope, scope1, T
      <4> QED
        BY <3>2, <4>1, <4>2
    <3> QED
      BY <3>3, <3>4 DEF Grows
  <2> HIDE DEF scope, scope1
  <2>4. CASE I = {}
    BY <1>2, <2>1, <2>4
  <2>5. CASE I # {}
    <3>1. \A i \in 1..Len(scope) : i \in I <=> i \in J
      BY <2>3
    <3>2. J # {} /\ I \in SUBSET (1..Len(scope)) /\ J \in SUBSET (1..Len(scope1))
      BY <2>3, <2>5, <3>1
    <3> HIDE DEF I, J
    <3>3. Min(J) = Min(I) /\ Min(I) \in 1..Len(scope)
      BY <2>3, <2>5, <3>1, <3>2, FirstStays
    <3> QED
      BY <2>1, <2>2, <2>3, <2>5, <3>2, <3>3
  <2> QED
    BY <2>4, <2>5
<1> QED
  BY <1>1, <1>2

LEMMA IsOfStays ==
    ASSUME LoadedInv, Grows, NEW result, NEW file, file # None, NEW symbol,
           IsOf(result, file, symbol)
    PROVE  IsOf(result, file, symbol)'
BY FindStays DEF IsOf

LEMMA PlatformFacts ==
    ASSUME NEW image \in DOMAIN Platform
    PROVE  Platform[image] \in Range(Platform) /\ Platform[image] # None
BY ResolverAssumption DEF Range

LEMMA InitialisedStays ==
    ASSUME LoadedInv, Grows, NEW name \in Range(Platform), NEW file, file \notin {None, <<>>},
           Initialised(name, file)
    PROVE  Initialised(name, file)'
<1>1. Find(file, OblInit)' = Find(file, OblInit)
  BY FindStays
<1> QED
  BY <1>1 DEF Initialised, Grows

LEMMA NamedStays ==
    ASSUME LoadedInv, Grows, DOMAIN images \subseteq DOMAIN images', NEW r, FrameOK(r), Named(r)
    PROVE  Named(r)'
<1>1. ASSUME r.op = "resolve", r.pc = "done", r.result # Invalid
      PROVE  IsOf(r.result, Opened(Platform[Parsed[r.ref].image]), Parsed[r.ref].function)'
  <2>1. PICK file, symbol : file = Opened(Platform[Parsed[r.ref].image]) /\ symbol = Parsed[r.ref].function
    OBVIOUS
  <2>2. file # None /\ IsOf(r.result, file, symbol)
    BY <1>1, <2>1 DEF Named
  <2>3. IsOf(r.result, file, symbol)'
    BY <2>2, IsOfStays
  <2> QED
    BY <2>1, <2>3
<1>2. ASSUME r.pc = "insert", r.handle # None
      PROVE  Initialised(Platform[r.image], r.handle)'
  <2>1. PICK name : name = Platform[r.image]
    OBVIOUS
  <2>2. name \in Range(Platform) /\ r.handle = Opened(name) /\ Initialised(name, r.handle)
    BY <1>2, <2>1, PlatformFacts DEF Named, FrameOK
  <2>3. Initialised(name, r.handle)'
    <3>1. CASE name = <<>>
      BY <3>1 DEF Initialised
    <3>2. CASE name # <<>>
      BY <1>2, <2>2, <3>2, OpenedFacts, InitialisedStays
    <3> QED
      BY <3>1, <3>2
  <2> QED
    BY <2>1, <2>3
<1> QED
  BY <1>1, <1>2 DEF Named

\* Every call is one of before, or one of the two given.
Frames(q, r) ==
    \A u \in Threads : \A i \in 1..Len(stack'[u]) :
        stack'[u][i] \in {q, r} \/ (i \in 1..Len(stack[u]) /\ stack'[u][i] = stack[u][i])

LEMMA FramesStayNamed ==
    ASSUME StackInv, FoundInv, Grows, DOMAIN images \subseteq DOMAIN images',
           NEW q, NEW r, Named(q)', Named(r)', Frames(q, r)
    PROVE  NamedInv' /\ LoadedInv'
<1>1. LoadedInv'
  <2>1. loaded \in Seq(Libraries)
    BY DEF FoundInv, LoadedInv
  <2>2. \A more \in Seq(Libraries) : loaded \o more \in Seq(Libraries)
    BY <2>1
  <2> QED
    BY <2>1, <2>2 DEF LoadedInv, Grows
<1>2. ASSUME NEW u \in Threads, NEW i \in 1..Len(stack'[u])
      PROVE  Named(stack[u][i])'
  <2>1. PICK p : p = stack'[u][i]
    OBVIOUS
  <2>2. CASE p = q \/ p = r
    BY <2>1, <2>2
  <2>3. CASE p \notin {q, r}
    <3>1. i \in 1..Len(stack[u]) /\ p = stack[u][i]
      BY <2>1, <2>3 DEF Frames
    <3>2. FrameOK(p) /\ Named(p)
      BY <3>1 DEF StackInv, FoundInv, NamedInv
    <3>3. Named(p)'
      BY <3>2, NamedStays DEF FoundInv
    <3> QED
      BY <2>1, <3>3
  <2> QED
    BY <2>2, <2>3
<1> QED
  BY <1>1, <1>2 DEF NamedInv

\* The innermost call of a thread changes.
LEMMA GoesNamed ==
    ASSUME StackInv, FoundInv, Grows, DOMAIN images \subseteq DOMAIN images',
           NEW t \in Threads, stack[t] # <<>>, NEW r, Goes(t, r), Named(r)'
    PROVE  NamedInv' /\ LoadedInv'
<1>1. Frames(r, r)
  BY GoesFacts DEF Frames
<1> QED
  BY <1>1, FramesStayNamed

\* What is kept of an image stays what it is.
LEMMA ImageStays ==
    ASSUME LoadedInv, Grows, NEW name \in Range(Platform), NEW functions,
           Opened(name) # None, Initialised(name, Opened(name)),
           \A s \in DOMAIN functions : IsOf(functions[s], Opened(name), s)
    PROVE  /\ Initialised(name, Opened(name))'
           /\ \A s \in DOMAIN functions : IsOf(functions[s], Opened(name), s)'
<1>1. PICK file : file = Opened(name)
  OBVIOUS
<1>2. Initialised(name, file)'
  <2>1. CASE name = <<>>
    BY <2>1 DEF Initialised
  <2>2. CASE name # <<>>
    BY <1>1, <2>2, OpenedFacts, InitialisedStays
  <2> QED
    BY <2>1, <2>2
<1>3. ASSUME NEW s \in DOMAIN functions, NEW x, x = functions[s]
      PROVE  IsOf(x, file, s)'
  <2>1. IsOf(x, file, s)
    BY <1>1, <1>3
  <2> QED
    BY <1>1, <2>1, IsOfStays
<1> QED
  BY <1>1, <1>2, <1>3

\* Nothing is kept that was not.
LEMMA FunctionsStay ==
    ASSUME FoundInv, Grows, images' = images
    PROVE  FunctionsInv'
<1>1. ASSUME NEW name \in DOMAIN images
      PROVE  /\ Initialised(name, Opened(name))'
             /\ \A s \in DOMAIN images[name] : IsOf(images[name][s], Opened(name), s)'
  <2>1. PICK functions : functions = images[name]
    OBVIOUS
  <2>2. name \in Range(Platform) /\ Opened(name) # None /\ Initialised(name, Opened(name))
    BY DEF FoundInv, FunctionsInv
  <2>3. \A s \in DOMAIN functions : IsOf(functions[s], Opened(name), s)
    BY <2>1 DEF FoundInv, FunctionsInv
  <2>4. /\ Initialised(name, Opened(name))'
        /\ \A s \in DOMAIN functions : IsOf(functions[s], Opened(name), s)'
    BY <2>2, <2>3, ImageStays DEF FoundInv
  <2> QED
    BY <2>1, <2>4
<1> QED
  BY <1>1 DEF FoundInv, FunctionsInv

LEMMA StartNames ==
    ASSUME StackInv, FoundInv, NEW t \in Threads, Start(t) \/ GetResolver(t)
    PROVE  FoundInv'
<1> DEFINE parsed == Parsed[Top(t).ref]
<1>1. At(t, "start") /\ UNCHANGED <<images, loaded, inits>>
  BY DEF Start, GetResolver
<1>2. stack[t] # <<>> /\ FrameOK(Top(t)) /\ Top(t).pc = "start"
  BY <1>1, TopFacts
<1>3. PICK r : Goes(t, r) /\ Named(r)'
  <2>1. CASE GetResolver(t)
    <3>1. PICK r : r = [Top(t) EXCEPT !.pc = "done"]
      OBVIOUS
    <3>2. Goes(t, r) /\ Top(t).op = "get"
      BY <2>1, <3>1 DEF GetResolver, GoesTo
    <3>3. r.pc = "done" /\ r.op = "get"
      BY <1>2, <3>1, <3>2 DEF FrameOK
    <3> QED
      BY <3>2, <3>3 DEF Named
  <2>2. CASE Start(t) /\ Top(t).op = "open"
    <3>1. PICK r : r = [Top(t) EXCEPT !.pc = "check"]
      OBVIOUS
    <3>2. Goes(t, r)
      BY <2>2, <3>1 DEF Start
    <3>3. r.pc = "check" /\ r.op = "open"
      BY <1>2, <2>2, <3>1 DEF FrameOK
    <3> QED
      BY <3>2, <3>3 DEF Named
  <2>3. CASE Start(t) /\ Top(t).op # "open" /\ parsed = Invalid
    <3>1. PICK r : r = [Top(t) EXCEPT !.pc = "done", !.result = Invalid]
      OBVIOUS
    <3>2. Goes(t, r)
      BY <2>3, <3>1 DEF Start
    <3>3. r.pc = "done" /\ r.result = Invalid
      BY <1>2, <3>1 DEF FrameOK
    <3> QED
      BY <3>2, <3>3 DEF Named
  <2>4. CASE Start(t) /\ Top(t).op # "open" /\ parsed # Invalid
    <3>1. PICK r : r = [Top(t) EXCEPT !.pc = "check", !.image = parsed.image]
      OBVIOUS
    <3>2. Goes(t, r)
      BY <2>4, <3>1 DEF Start
    <3> HIDE DEF parsed
    <3>3. r.pc = "check" /\ r.image = parsed.image /\ r.ref = Top(t).ref
      BY <1>2, <3>1 DEF FrameOK
    <3> QED
      BY <2>4, <3>2, <3>3 DEF Named, parsed
  <2> QED
    BY <2>1, <2>2, <2>3, <2>4
<1>4. Grows /\ FunctionsInv'
  BY <1>1, FunctionsStay DEF Grows
<1> QED
  BY <1>1, <1>2, <1>3, <1>4, GoesNamed DEF FoundInv

LEMMA CheckNames ==
    ASSUME StackInv, FoundInv, NEW t \in Threads, Check(t)
    PROVE  FoundInv'
<1> DEFINE file == Platform[Top(t).image]
<1>1. PICK r : r = [Top(t) EXCEPT !.pc = IF file \in DOMAIN images THEN "opened" ELSE "load"]
  OBVIOUS
<1>2. At(t, "check") /\ Goes(t, r) /\ UNCHANGED <<images, loaded, inits>>
  BY <1>1 DEF Check, GoesTo
<1>3. stack[t] # <<>> /\ FrameOK(Top(t)) /\ Top(t).pc = "check" /\ Named(Top(t))
  BY <1>2, TopFacts DEF FoundInv, NamedInv
<1>4. /\ r.pc = IF file \in DOMAIN images THEN "opened" ELSE "load"
      /\ r.op = Top(t).op /\ r.ref = Top(t).ref /\ r.image = Top(t).image
  BY <1>1, <1>3 DEF FrameOK
<1>5. Named(r)'
  BY <1>2, <1>3, <1>4 DEF Named
<1>6. Grows /\ FunctionsInv'
  BY <1>2, FunctionsStay DEF Grows
<1> QED
  BY <1>2, <1>3, <1>5, <1>6, GoesNamed DEF FoundInv

LEMMA LoadNames ==
    ASSUME StackInv, FoundInv, NEW t \in Threads, Load(t)
    PROVE  FoundInv'
<1> DEFINE name == Platform[Top(t).image]
           file == Opened(name)
           more == <<file>> \o Needs[file]
<1>1. PICK r : r = [Top(t) EXCEPT !.pc = IF name = <<>> THEN "insert" ELSE "initialise",
                                  !.handle = IF file \in Broken THEN None ELSE file]
  OBVIOUS
<1>2. At(t, "load") /\ Goes(t, r) /\ UNCHANGED <<images, inits>>
      /\ loaded' = IF Fresh(file) = {} THEN loaded ELSE loaded \o <<file>> \o Needs[file]
  BY <1>1, Zenon DEF Load
<1>3. stack[t] # <<>> /\ FrameOK(Top(t)) /\ Top(t).pc = "load" /\ Named(Top(t))
  BY <1>2, TopFacts DEF FoundInv, NamedInv
<1>4. Grows
  <2>1. CASE Fresh(file) = {}
    BY <1>2, <2>1 DEF Grows
  <2>2. CASE Fresh(file) # {}
    <3>1. file \in Libraries
      <4>1. file \in Libraries \union {<<>>, None}
        BY OpenedFacts
      <4>2. file \notin {<<>>, None}
        BY <2>2 DEF Fresh
      <4> QED
        BY <4>1, <4>2
    <3>2. PICK a, b : a = <<file>> /\ b = Needs[file]
      OBVIOUS
    <3>3. /\ loaded \in Seq(Libraries) /\ a \in Seq(Libraries) /\ b \in Seq(Libraries)
          /\ more = a \o b /\ more \in Seq(Libraries)
      BY <3>1, <3>2, FileAndNeeds, ResolverAssumption DEF FoundInv, LoadedInv
    <3>4. (loaded \o a) \o b = loaded \o (a \o b)
      <4> HIDE DEF file, more
      <4> QED
        BY <3>3, ConcatAssociative
    <3>5. loaded' = (loaded \o a) \o b
      BY <1>2, <2>2, <3>2
    <3>6. loaded' = loaded \o more
      BY <3>3, <3>4, <3>5, Zenon
    <3> HIDE DEF more
    <3> QED
      BY <1>2, <3>3, <3>6 DEF Grows
  <2> QED
    BY <2>1, <2>2
<1> HIDE DEF file
<1>5. /\ r.pc = (IF name = <<>> THEN "insert" ELSE "initialise") /\ r.handle \in {file, None}
      /\ r.op = Top(t).op /\ r.ref = Top(t).ref /\ r.image = Top(t).image
  BY <1>1, <1>3 DEF FrameOK
<1>6. Named(r)'
  BY <1>3, <1>5 DEF Named, Initialised, file
<1>7. FunctionsInv'
  BY <1>2, <1>4, FunctionsStay
<1> QED
  BY <1>2, <1>3, <1>4, <1>6, <1>7, GoesNamed DEF FoundInv

LEMMA RunInitialiserNames ==
    ASSUME Inv, FoundInv, NEW t \in Threads, RunInitialiser(t)
    PROVE  FoundInv'
<1>1. PICK r, frame, name : /\ r = [Top(t) EXCEPT !.pc = "insert"] /\ name = Platform[Top(t).image]
                            /\ frame = Frame("resolve", InitReference, <<>>)
  OBVIOUS
<1>2. /\ At(t, "initialise") /\ UNCHANGED <<images, loaded>>
      /\ inits' = IF Find(Top(t).handle, OblInit) = None THEN inits
                  ELSE [inits EXCEPT ![name] = inits[name] + 1]
  BY <1>1, Zenon DEF RunInitialiser
<1>3. FrameOK(Top(t)) /\ Top(t).pc = "initialise" /\ Named(Top(t)) /\ StackInv
  BY <1>2, TopFacts DEF FoundInv, NamedInv, Inv
<1>4. /\ r.pc = "insert" /\ r.handle = Top(t).handle
      /\ r.op = Top(t).op /\ r.ref = Top(t).ref /\ r.image = Top(t).image
  BY <1>1, <1>3 DEF FrameOK
<1>5. name \in Range(Platform) /\ inits \in [Range(Platform) -> Nat]
  BY <1>1, <1>3, PlatformFacts DEF FrameOK, Inv, OnceInv
<1>6. Grows /\ (Find(Top(t).handle, OblInit) # None => inits'[name] # 0)
  <2>1. CASE Find(Top(t).handle, OblInit) = None
    BY <1>2, <2>1 DEF Grows
  <2>2. CASE Find(Top(t).handle, OblInit) # None
    <3>1. inits' = [inits EXCEPT ![name] = inits[name] + 1]
      BY <1>2, <2>2, Zenon
    <3>2. inits'[name] = inits[name] + 1 /\ \A n \in Range(Platform) \ {name} : inits'[n] = inits[n]
      BY <1>5, <3>1
    <3>3. \A n \in Range(Platform) : inits[n] # 0 => inits'[n] # 0
      BY <1>5, <3>2
    <3> QED
      BY <1>2, <1>5, <3>2, <3>3 DEF Grows
  <2> QED
    BY <2>1, <2>2
<1>7. ASSUME r.handle # None
      PROVE  Find(r.handle, OblInit)' = Find(r.handle, OblInit)
  <2>1. name # <<>> /\ r.handle = Opened(name)
    BY <1>1, <1>3, <1>4, <1>7 DEF FrameOK, Named
  <2>2. r.handle # <<>>
    BY <2>1, OpenedFacts
  <2> QED
    BY <1>6, <1>7, <2>2, FindStays DEF FoundInv
<1>8. r.handle # None => Initialised(name, r.handle)'
  BY <1>4, <1>6, <1>7 DEF Initialised
<1>9. Named(r)'
  BY <1>1, <1>3, <1>4, <1>8 DEF Named
<1>10. Named(frame)'
  BY <1>1 DEF Named, Frame
<1>11. FunctionsInv'
  BY <1>2, <1>6, FunctionsStay
<1>12. Frames(r, frame)
  <2>1. \A u \in Threads :
           /\ \A i \in 1..Len(stack[u]) :
                stack'[u][i] = IF u = t /\ i = Len(stack[t]) THEN r ELSE stack[u][i]
           /\ \A i \in 1..Len(stack'[u]) : i \notin 1..Len(stack[u]) => stack'[u][i] = frame
    BY <1>1, <1>3, InitialiserFrames
  <2> QED
    BY <2>1, Zenon DEF Frames
<1> QED
  BY <1>2, <1>3, <1>6, <1>9, <1>10, <1>11, <1>12, FramesStayNamed DEF FoundInv

\* The Library is kept as that of the image the call has asked for.
LEMMA InsertNames ==
    ASSUME StackInv, FoundInv, NEW t \in Threads, Insert(t)
    PROVE  FoundInv'
<1>1. PICK r, file, name : /\ r = [Top(t) EXCEPT !.pc = "opened"] /\ file = Top(t).handle
                           /\ name = Platform[Top(t).image]
  OBVIOUS
<1> DEFINE kept == IF name = <<>> THEN <<>> ELSE Put(<<>>, OblInit, Find(file, OblInit))
<1>2. /\ At(t, "insert") /\ file # None /\ Goes(t, r) /\ UNCHANGED <<loaded, inits>>
      /\ images' = Put(images, name, kept)
  BY <1>1 DEF Insert, GoesTo
<1>3. stack[t] # <<>> /\ FrameOK(Top(t)) /\ Top(t).pc = "insert" /\ Named(Top(t))
  BY <1>2, TopFacts DEF FoundInv, NamedInv
<1>4. /\ r.pc = "opened" /\ r.op = Top(t).op /\ r.ref = Top(t).ref /\ r.image = Top(t).image
  BY <1>1, <1>3 DEF FrameOK
<1>5. /\ name \in Range(Platform) /\ file = Opened(name) /\ Initialised(name, file)
      /\ name = Platform[r.image]
  BY <1>1, <1>2, <1>3, <1>4, PlatformFacts DEF Named, FrameOK
<1>6. DOMAIN images' = DOMAIN images \union {name}
  BY <1>2 DEF Put
<1>7. Named(r)'
  BY <1>3, <1>4, <1>5, <1>6 DEF Named
<1>8. Grows
  BY <1>2 DEF Grows
<1>9. FunctionsInv'
  <2>1. ASSUME NEW n \in DOMAIN images', NEW functions, functions = images'[n]
        PROVE  /\ n \in Range(Platform) /\ Opened(n) # None /\ Initialised(n, Opened(n))
               /\ \A s \in DOMAIN functions : IsOf(functions[s], Opened(n), s)
    <3>1. CASE n = name
      <4>1. functions = kept
        BY <1>2, <2>1, <3>1 DEF Put
      <4>2. ASSUME NEW s \in DOMAIN functions
            PROVE  IsOf(functions[s], file, s)
        <5>1. s = OblInit /\ functions[s] = Find(file, OblInit)
          BY <4>1, <4>2 DEF Put
        <5> QED
          BY <5>1 DEF IsOf
      <4> QED
        BY <1>2, <1>5, <3>1, <4>2
    <3>2. CASE n # name
      <4>1. n \in DOMAIN images /\ functions = images[n]
        BY <1>2, <2>1, <3>2 DEF Put
      <4> QED
        BY <4>1 DEF FoundInv, FunctionsInv
    <3> QED
      BY <3>1, <3>2
  <2>2. ASSUME NEW n \in DOMAIN images'
        PROVE  /\ n \in Range(Platform) /\ Opened(n) # None /\ Initialised(n, Opened(n))'
               /\ \A s \in DOMAIN images'[n] : IsOf(images[n][s], Opened(n), s)'
    <3>1. PICK functions : functions = images'[n]
      OBVIOUS
    <3>2. /\ n \in Range(Platform) /\ Opened(n) # None /\ Initialised(n, Opened(n))
          /\ \A s \in DOMAIN functions : IsOf(functions[s], Opened(n), s)
      BY <2>1, <3>1
    <3>3. /\ Initialised(n, Opened(n))'
          /\ \A s \in DOMAIN functions : IsOf(functions[s], Opened(n), s)'
      BY <1>8, <3>2, ImageStays DEF FoundInv
    <3> QED
      BY <3>1, <3>2, <3>3
  <2> QED
    BY <2>2 DEF FunctionsInv
<1> QED
  BY <1>2, <1>3, <1>6, <1>7, <1>8, <1>9, GoesNamed DEF FoundInv

\* What resolve() gives is kept in the Library of the image.
LEMMA LookupNames ==
    ASSUME StackInv, FoundInv, NEW t \in Threads, Lookup(t)
    PROVE  FoundInv'
<1>1. PICK name, symbol : name = Platform[Top(t).image] /\ symbol = Parsed[Top(t).ref].function
  OBVIOUS
<1>2. PICK found : found = IF symbol \in DOMAIN images[name] THEN images[name][symbol]
                           ELSE Find(Opened(name), symbol)
  OBVIOUS
<1>3. /\ At(t, "opened") /\ UNCHANGED <<loaded, inits>>
      /\ \/ Top(t).op = "open" /\ Goes(t, [Top(t) EXCEPT !.pc = "done"]) /\ UNCHANGED images
         \/ /\ Top(t).op # "open" /\ Goes(t, [Top(t) EXCEPT !.pc = "done", !.result = found])
            /\ images' = [images EXCEPT ![name] = Put(images[name], symbol, found)]
  BY <1>1, <1>2, Zenon DEF Lookup, GoesTo
<1>4. stack[t] # <<>> /\ FrameOK(Top(t)) /\ Top(t).pc = "opened" /\ Named(Top(t))
  BY <1>3, TopFacts DEF FoundInv, NamedInv
<1>5. Grows /\ DOMAIN images' = DOMAIN images
  BY <1>3 DEF Grows
<1>6. CASE Top(t).op = "open"
  <2>1. PICK r : r = [Top(t) EXCEPT !.pc = "done"]
    OBVIOUS
  <2>2. Goes(t, r) /\ UNCHANGED images
    BY <1>3, <1>6, <2>1
  <2>3. r.op = "open" /\ r.pc = "done"
    BY <1>4, <1>6, <2>1 DEF FrameOK
  <2>4. Named(r)'
    BY <2>3 DEF Named
  <2>5. FunctionsInv'
    BY <1>5, <2>2, FunctionsStay
  <2> QED
    BY <1>4, <1>5, <2>2, <2>4, <2>5, GoesNamed DEF FoundInv
<1>7. CASE Top(t).op # "open"
  <2>1. PICK r : r = [Top(t) EXCEPT !.pc = "done", !.result = found]
    OBVIOUS
  <2>2. Goes(t, r) /\ images' = [images EXCEPT ![name] = Put(images[name], symbol, found)]
    BY <1>3, <1>7, <2>1
  <2>3. Top(t).op = "resolve" /\ Parsed[Top(t).ref] # Invalid /\ Top(t).image = Parsed[Top(t).ref].image
    BY <1>4, <1>7 DEF FrameOK, Named
  <2>4. r.op = "resolve" /\ r.pc = "done" /\ r.result = found /\ r.ref = Top(t).ref
    BY <1>4, <2>1, <2>3 DEF FrameOK
  <2>5. name \in DOMAIN images /\ Opened(name) # None
    BY <1>1, <1>4 DEF Named, FoundInv, FunctionsInv
  <2>6. PICK file : file = Opened(name)
    OBVIOUS
  <2>7. IsOf(found, file, symbol)
    BY <1>2, <2>5, <2>6 DEF FoundInv, FunctionsInv, IsOf
  <2>8. IsOf(found, file, symbol)'
    BY <1>5, <2>5, <2>6, <2>7, IsOfStays DEF FoundInv
  <2>9. Named(r)'
    BY <1>1, <2>3, <2>4, <2>5, <2>6, <2>8 DEF Named
  <2>10. FunctionsInv'
    <3>1. ASSUME NEW n \in DOMAIN images', NEW functions, functions = images'[n]
          PROVE  /\ n \in Range(Platform) /\ Opened(n) # None /\ Initialised(n, Opened(n))
                 /\ \A s \in DOMAIN functions : IsOf(functions[s], Opened(n), s)
      <4>1. n \in DOMAIN images
        BY <1>5
      <4>2. /\ n \in Range(Platform) /\ Opened(n) # None /\ Initialised(n, Opened(n))
            /\ \A s \in DOMAIN images[n] : IsOf(images[n][s], Opened(n), s)
        BY <4>1 DEF FoundInv, FunctionsInv
      <4>3. ASSUME NEW s \in DOMAIN functions
            PROVE  IsOf(functions[s], Opened(n), s)
        <5>1. CASE n = name /\ s = symbol
          <6>1. functions[s] = found
            BY <2>2, <2>5, <3>1, <5>1 DEF Put
          <6> QED
            BY <2>6, <2>7, <5>1, <6>1
        <5>2. CASE ~(n = name /\ s = symbol)
          <6>1. s \in DOMAIN images[n] /\ functions[s] = images[n][s]
            BY <2>2, <2>5, <3>1, <4>1, <4>3, <5>2 DEF Put
          <6> QED
            BY <4>2, <6>1
        <5> QED
          BY <5>1, <5>2
      <4> QED
        BY <4>2, <4>3
    <3>2. ASSUME NEW n \in DOMAIN images'
          PROVE  /\ n \in Range(Platform) /\ Opened(n) # None /\ Initialised(n, Opened(n))'
                 /\ \A s \in DOMAIN images'[n] : IsOf(images[n][s], Opened(n), s)'
      <4>1. PICK functions : functions = images'[n]
        OBVIOUS
      <4>2. /\ n \in Range(Platform) /\ Opened(n) # None /\ Initialised(n, Opened(n))
            /\ \A s \in DOMAIN functions : IsOf(functions[s], Opened(n), s)
        BY <3>1, <4>1
      <4>3. /\ Initialised(n, Opened(n))'
            /\ \A s \in DOMAIN functions : IsOf(functions[s], Opened(n), s)'
        BY <1>5, <4>2, ImageStays DEF FoundInv
      <4> QED
        BY <4>1, <4>2, <4>3
    <3> QED
      BY <3>2 DEF FunctionsInv
  <2> QED
    BY <1>4, <1>5, <2>2, <2>9, <2>10, GoesNamed DEF FoundInv
<1> QED
  BY <1>6, <1>7

\* Calls begin, return and are left by an exception.
LEMMA CallsNames ==
    ASSUME StackInv, FoundInv, NEW t \in Threads, UNCHANGED <<images, loaded, inits>>,
           \/ \E frame : frame.pc = "start" /\ stack' = [stack EXCEPT ![t] = <<frame>>]
           \/ stack[t] # <<>> /\ stack' = [stack EXCEPT ![t] = Front(@)]
           \/ stack' = [stack EXCEPT ![t] = <<>>]
    PROVE  FoundInv'
<1>1. PICK S : stack \in [Threads -> Seq(S)]
  BY DEF StackInv
<1>2. \A u \in Threads : u # t => stack'[u] = stack[u]
  BY <1>1
<1>3. PICK frame : frame.pc = "start" /\ Frames(frame, frame)
  <2>1. ASSUME NEW frame, frame.pc = "start", stack' = [stack EXCEPT ![t] = <<frame>>]
        PROVE  Frames(frame, frame)
    <3>1. Len(stack'[t]) = 1 /\ stack'[t][1] = frame
      BY <1>1, <2>1
    <3> QED
      BY <1>2, <3>1 DEF Frames
  <2>2. ASSUME stack[t] # <<>>, stack' = [stack EXCEPT ![t] = Front(@)], NEW frame
        PROVE  Frames(frame, frame)
    <3>1. stack[t] \in Seq(S) /\ stack'[t] = SubSeq(stack[t], 1, Len(stack[t]) - 1)
      BY <1>1, <2>2 DEF Front
    <3>2. Len(stack[t]) \in Nat /\ Len(stack[t]) - 1 \in 0..Len(stack[t])
      BY <2>2, <3>1
    <3>3. /\ Len(stack'[t]) = Len(stack[t]) - 1
          /\ \A i \in 1..Len(stack[t]) - 1 : stack'[t][i] = stack[t][i]
      BY <3>1, <3>2
    <3> QED
      BY <1>2, <3>2, <3>3 DEF Frames
  <2>3. ASSUME stack' = [stack EXCEPT ![t] = <<>>], NEW frame
        PROVE  Frames(frame, frame)
    <3>1. Len(stack'[t]) = 0
      BY <1>1, <2>3
    <3> QED
      BY <1>2, <3>1 DEF Frames
  <2>4. Frame("get", <<>>, <<>>).pc = "start"
    BY DEF Frame
  <2> QED
    BY <2>1, <2>2, <2>3, <2>4
<1>4. Named(frame)'
  BY <1>3 DEF Named
<1>5. Grows /\ FunctionsInv'
  BY FunctionsStay DEF Grows
<1> QED
  BY <1>3, <1>4, <1>5, FramesStayNamed DEF FoundInv

LEMMA OthersName ==
    ASSUME StackInv, FoundInv, UNCHANGED <<images, loaded, stack, inits>>
    PROVE  FoundInv'
<1>1. Grows /\ FunctionsInv' /\ LoadedInv'
  BY FunctionsStay DEF Grows, FoundInv, LoadedInv
<1>2. ASSUME NEW u \in Threads, NEW i \in 1..Len(stack[u]), NEW r, r = stack[u][i]
      PROVE  Named(r)'
  <2>1. FrameOK(r) /\ Named(r)
    BY <1>2 DEF StackInv, FoundInv, NamedInv
  <2> QED
    BY <1>1, <2>1, NamedStays DEF FoundInv
<1>3. NamedInv'
  BY <1>2 DEF NamedInv
<1> QED
  BY <1>1, <1>3 DEF FoundInv

LEMMA InitNames ==
    ASSUME ResInit
    PROVE  FoundInv
<1>1. images = <<>> /\ loaded = <<>> /\ stack = [t \in Threads |-> <<>>]
  BY DEF ResInit
<1>2. loaded \in Seq(Libraries) /\ DOMAIN images = {} /\ \A t \in Threads : Len(stack[t]) = 0
  BY <1>1
<1> QED
  BY <1>2 DEF FoundInv, LoadedInv, FunctionsInv, NamedInv

LEMMA NextNames ==
    ASSUME Inv, FoundInv, [Next]_vars
    PROVE  FoundInv'
<1>1. ASSUME NEW t \in Threads, NEW op, NEW ref, NEW image, Call(t, op, ref, image)
      PROVE  FoundInv'
  <2>1. Frame(op, ref, image).pc = "start"
    BY DEF Frame
  <2> QED
    BY <1>1, <2>1, CallsNames DEF Call, Inv
<1>2. CASE \E t \in Threads : Running(t)
  <2>1. PICK t \in Threads : Running(t)
    BY <1>2
  <2>2. CASE Return(t) \/ Throw(t)
    <3>1. UNCHANGED <<images, loaded, inits>> /\ stack[t] # <<>>
      BY <2>2 DEF Return, Throw, At
    <3> QED
      BY <2>2, <3>1, CallsNames DEF Return, Throw, Inv
  <2> QED
    BY <2>1, <2>2, StartNames, CheckNames, LoadNames, RunInitialiserNames, InsertNames, LookupNames
    DEF Running, Inv
<1>3. CASE ProgramStarts \/ ProgramRegisters \/ UNCHANGED vars
           \/ \E t \in Threads : LogCall(t) \/ LogRuns(t)
  BY <1>3, OthersName DEF ProgramStarts, ProgramRegisters, LogCall, LogRuns, vars, resVars, Inv
<1> QED
  BY <1>1, <1>2, <1>3 DEF Next

-----------------------------------------------------------------------------
\* For any number of threads, libraries and names, open() runs the initialiser
\* of a library, or of one that it needs, once for each platform image: before
\* the Library is kept, and not again, as long as no two calls open the image
\* at once and none that opens it is left by an exception.  Nothing is said of
\* a library that two platform images name: it is initialised for each.
THEOREM InitialisersRunOnce == Spec => []InitialisedOnce
<1>1. Inv /\ FoundInv => InitialisedOnce
  <2> SUFFICES ASSUME Inv, FoundInv, NEW name \in DOMAIN inits
               PROVE  /\ name \notin overlapped \union left => inits[name] <= 1
                      /\ name \in DOMAIN images \ {<<>>} /\ Find(Opened(name), OblInit) # None
                            => inits[name] >= 1
    BY DEF InitialisedOnce
  <2>1. inits[name] \in Nat
    BY DEF Inv, OnceInv
  <2>2. name \notin overlapped \union left => inits[name] <= 1
    BY DEF Inv, OnceInv, HasRun
  <2>3. name \in DOMAIN images \ {<<>>} /\ Find(Opened(name), OblInit) # None => inits[name] # 0
    BY DEF FoundInv, FunctionsInv, Initialised
  <2> QED
    BY <2>1, <2>2, <2>3
<1>2. ResInit => Inv /\ FoundInv
  BY InitHasInv, InitNames
<1>3. Inv /\ FoundInv /\ [Next]_vars => (Inv /\ FoundInv)'
  BY NextKeepsInv, NextNames
<1> QED
  BY <1>1, <1>2, <1>3, PTL DEF Spec

\* If references are read as they are meant, resolve() gives the function that
\* is named, for any number of threads, libraries, names and directories: what
\* is kept of a symbol under a name is what dlsym() gives for it in the file of
\* that name and the libraries it needs, and a call asks the Library of its own
\* reference.
THEOREM FunctionsAreTheOnesNamed ==
    ASSUME ReadsAsMeant
    PROVE  Spec => []FunctionIsTheOneNamed
<1>1. Inv /\ FoundInv => FunctionIsTheOneNamed
  <2> SUFFICES ASSUME Inv, FoundInv, NEW t \in Threads, NEW i \in DOMAIN stack[t], NEW r, r = stack[t][i],
                      r.op = "resolve", r.pc = "done", r.result # Invalid
               PROVE  \/ r.result = Find(Meant[r.ref].file, Meant[r.ref].symbol)
                      \/ Meant[r.ref].file = <<>> /\ r.result = None
    BY DEF FunctionIsTheOneNamed
  <2>1. i \in 1..Len(stack[t])
    BY DEF Inv, StackInv
  <2>2. FrameOK(r) /\ Named(r)
    BY <2>1 DEF Inv, StackInv, FoundInv, NamedInv
  <2>3. r.ref \in DOMAIN Parsed /\ Parsed[r.ref] # Invalid
    BY <2>2 DEF FrameOK, Named, Parsed, Refs
  <2> DEFINE file == Opened(Platform[Parsed[r.ref].image])
  <2>4. IsOf(r.result, file, Parsed[r.ref].function)
    BY <2>2 DEF Named
  <2> HIDE DEF file
  <2>5. Meant[r.ref].file = file /\ Meant[r.ref].symbol = Parsed[r.ref].function
    <3>1. Meant[r.ref] = [file |-> file, symbol |-> Parsed[r.ref].function]
      BY <2>3, Zenon DEF ReadsAsMeant, file
    <3> QED
      BY <3>1
  <2> QED
    BY <2>4, <2>5 DEF IsOf
<1>2. ResInit => Inv /\ FoundInv
  BY InitHasInv, InitNames
<1>3. Inv /\ FoundInv /\ [Next]_vars => (Inv /\ FoundInv)'
  BY NextKeepsInv, NextNames
<1> QED
  BY <1>1, <1>2, <1>3, PTL DEF Spec

\* What was last asked for a name holds for its category, for any number of
\* categories and of threads, whichever of them comes first: nothing is let
\* through that was asked off, and only after an "all", for a category that
\* comes later, is a message not let through that was asked on.
THEOREM SettingsTakeEffect == Spec => []SettingTakesEffect
<1>1. ResInit => LogInv
  BY LogInitHolds DEF ResInit
<1> QED
  BY <1>1, NextKeepsLogInv, LogInvImplies, PTL DEF Spec
=============================================================================
