------------------------------ MODULE Resolver ------------------------------
(***************************************************************************)
(* core/Resolve.{h,cpp}: threads find functions by name in the program and *)
(* in shared libraries, which are opened when they are first named.        *)
(*                                                                         *)
(* resolve() holds g_resolve_mutex; open(), which it calls and a client    *)
(* may call, does not.  A library that is opened runs code of its own: the *)
(* constructors of its logging categories in dlopen(), and its initialiser *)
(* _obl_init, which may ask the resolver for a function.  A call is a      *)
(* frame on its thread's stack.                                            *)
(*                                                                         *)
(* Names are sequences of characters, and so are files, but a name is not  *)
(* the file: m_images is kept by name, where the dynamic linker knows the  *)
(* file.  The operations of m_images and the functions of the dynamic      *)
(* linker are taken to be atomic.                                          *)
(***************************************************************************)
EXTENDS Logging, SequencesExt

CONSTANTS
    References,     \* what clients ask resolve() for
    Images,         \* what clients ask open() for; <<>> is the program
    Files,          \* what each directory has: from names to files
    Broken,         \* the files with an undefined symbol
    Needs,          \* the libraries that each file is linked with, and so on
    Defines,        \* the symbols of the program and of each file
    Initialiser,    \* what _obl_init of each file does: "none", "plain", "resolves"
    Registers,      \* the categories that files make which are loaded together
    InitReference,  \* what an initialiser that resolves asks for
    None, Invalid,  \* no result, and that of an invalid reference
    Budget          \* bound: the calls of all clients

VARIABLES
    mutex,      \* the holder of g_resolve_mutex
    images,     \* m_images: from platform images to m_functions of the Library
    loaded,     \* the files dlopen() has loaded, by their first places
    stack,      \* the calls each thread is in, the innermost last
    exited,     \* log_error() has ended the program
    inits,      \* history: how often open() has run an initialiser for an image
    overlapped, \* history: images that two calls were opening at once
    left,       \* history: images that a call was opening when an exception left it
    budget      \* the calls clients may still make

resVars == <<mutex, images, loaded, stack, exited, inits, overlapped, left, budget>>
vars == <<logVars, resVars>>

Free == "nobody"

-----------------------------------------------------------------------------
(* Names.                                                                  *)

\* Library::platform_image(): what follows the last period is the extension,
\* also if the period is in the name of a directory.
PlatformImage(image) ==
    LET path == ReplaceAll(image, "\\", "/")
        dot  == SelectLastInSeq(path, LAMBDA ch : ch = ".")
    IN  IF image = <<>> THEN <<>>
        ELSE (IF dot = 0 THEN path ELSE SubSeq(path, 1, dot - 1)) \o <<".", "so">>

Upto(s, ch) == IF Contains(s, ch) THEN SubSeq(s, 1, SelectInSeq(s, LAMBDA c : c = ch) - 1) ELSE s

After(s, ch) == SubSeq(s, SelectInSeq(s, LAMBDA c : c = ch) + 1, Len(s))

\* What resolve() leaves of a reference: no parameters and spaces before them,
\* no first word and spaces after it.
Bare(ref) ==
    LET head == Upto(ref, "(")
        end  == SelectLastInSeq(head, LAMBDA c : c # " ")
        s    == IF head = ref THEN ref ELSE SubSeq(head, 1, end)
        rest == After(s, " ")
    IN  IF Contains(s, " ")
        THEN SubSeq(rest, SelectInSeq(rest, LAMBDA c : c # " "), Len(rest)) ELSE s

\* The image and the function of each reference, which has at most one colon.
Parsed == [ref \in References \union {InitReference} |->
    LET s == Bare(ref)
    IN  IF Cardinality({i \in DOMAIN s : s[i] = ":"}) > 1 THEN Invalid
        ELSE [image    |-> IF Contains(s, ":") THEN Upto(s, ":") ELSE <<>>,
              function |-> IF Contains(s, ":") THEN After(s, ":") ELSE s]]

Platform == [image \in Images \union {p.image : p \in Range(Parsed) \ {Invalid}} |->
                PlatformImage(image)]

Libraries == UNION {Range(Files[d]) : d \in DOMAIN Files}

ASSUME ResolverAssumption ==
    /\ None \notin Range(Platform) \union Libraries \union {<<>>} /\ <<>> \notin Libraries
    /\ \A S \in SUBSET (Libraries \union {<<>>}) : Registers[S] \in Seq(Categories)
    /\ Needs \in [Libraries -> Seq(Libraries)]
    /\ \A file \in Libraries \ Broken : Range(Needs[file]) \intersect Broken = {}

-----------------------------------------------------------------------------
(* The dynamic linker.                                                     *)

OblInit == <<"_obl_init">>

Symbols(file) == Defines[file] \union (IF Initialiser[file] = "none" THEN {} ELSE {OblInit})

\* dlsym(): the symbol of a library, or else of the first that it needs.  The
\* program and the null handle, which is RTLD_DEFAULT, give that of the program
\* or else of the first library loaded.
Find(handle, symbol) ==
    LET scope == IF handle \in {<<>>, None} THEN <<(<<>>)>> \o loaded
                 ELSE <<handle>> \o Needs[handle]
        at    == SelectInSeq(scope, LAMBDA file : symbol \in Symbols(file))
    IN  IF at = 0 THEN None ELSE [file |-> scope[at], symbol |-> symbol]

\* try_open() in the eight directories, until one does not fail: "undefined
\* symbol" does not count as a failure.
Opened(name) ==
    LET first == {d \in DOMAIN Files : /\ name \in DOMAIN Files[d]
                                       /\ \A e \in 1..d - 1 : name \notin DOMAIN Files[e]}
    IN  IF name = <<>> THEN <<>> ELSE IF first = {} THEN None
        ELSE Files[CHOOSE d \in first : TRUE][name]

\* What dlopen() of a file loads that was not loaded before.
Fresh(file) ==
    IF file \in {<<>>, None} \union Broken THEN {}
    ELSE Range(<<file>> \o Needs[file]) \ Range(loaded)

-----------------------------------------------------------------------------
(* Calls and frames.                                                       *)

Frame(op, ref, image) ==
    [op |-> op, ref |-> ref, image |-> image, pc |-> "start", handle |-> None, result |-> None]

Top(t) == stack[t][Len(stack[t])]
At(t, pc) == ~exited /\ stack[t] # <<>> /\ Top(t).pc = pc

\* The thread's innermost call goes on as the frame given.
Goes(t, frame) == stack' = [stack EXCEPT ![t][Len(stack[t])] = frame]

GoesTo(t, pc) == Goes(t, [Top(t) EXCEPT !.pc = pc])

\* The program's own categories register before main().
Started == {NameOf[c] : c \in Range(Registers[{<<>>}])} \subseteq DOMAIN categories

Idle(t) == ~exited /\ stack[t] = <<>> /\ resetting[t] = NoReset /\ logger = "ready" /\ Started

ResInit ==
    /\ LogInit
    /\ mutex = Free
    /\ images = <<>>
    /\ loaded = <<>>
    /\ stack = [t \in Threads |-> <<>>]
    /\ exited = FALSE
    /\ inits = [name \in Range(Platform) |-> 0]
    /\ overlapped = {}
    /\ left = {}
    /\ budget = Budget

\* A client calls open(), resolve() or get_resolver().
Call(t, op, ref, image) ==
    /\ budget > 0 /\ Idle(t)
    /\ budget' = budget - 1
    /\ stack' = [stack EXCEPT ![t] = <<Frame(op, ref, image)>>]
    /\ UNCHANGED <<logVars, mutex, images, loaded, exited, inits, overlapped, left>>

\* get_resolver(): what it makes under the mutex stays, and is not modelled.
GetResolver(t) ==
    /\ At(t, "start") /\ Top(t).op = "get" /\ mutex = Free
    /\ GoesTo(t, "done")
    /\ UNCHANGED <<logVars, mutex, images, loaded, exited, inits, overlapped, left, budget>>

\* resolve() takes the mutex and reads the reference; open() starts here.
Start(t) ==
    LET parsed == Parsed[Top(t).ref]
    IN  /\ At(t, "start") /\ Top(t).op # "get"
        /\ IF Top(t).op = "open" THEN UNCHANGED mutex ELSE mutex = Free /\ mutex' = t
        /\ Goes(t, IF Top(t).op = "open" THEN [Top(t) EXCEPT !.pc = "check"]
                   ELSE IF parsed = Invalid THEN [Top(t) EXCEPT !.pc = "done", !.result = Invalid]
                   ELSE [Top(t) EXCEPT !.pc = "check", !.image = parsed.image])
        /\ UNCHANGED <<logVars, images, loaded, exited, inits, overlapped, left, budget>>

Opening(t, name) ==
    \E i \in DOMAIN stack[t] :
        stack[t][i].pc \in {"load", "initialise", "insert"} /\ Platform[stack[t][i].image] = name

\* Resolver::open(): m_images is asked for the image ...
Check(t) ==
    LET name == Platform[Top(t).image]
    IN  /\ At(t, "check")
        /\ IF name \in DOMAIN images
           THEN GoesTo(t, "opened") /\ UNCHANGED overlapped
           ELSE /\ GoesTo(t, "load")
                /\ overlapped' = overlapped \union {n \in {name} : \E u \in Threads : Opening(u, n)}
        /\ UNCHANGED <<logVars, mutex, images, loaded, exited, inits, left, budget>>

\* ... and the image is opened: Library::open().  Without a file log_error()
\* ends the program.  Libraries that are loaded for the first time register
\* their categories.  Of a broken one the handle is null.
Load(t) ==
    LET name == Platform[Top(t).image]
        file == Opened(name)
    IN  /\ At(t, "load")
        /\ exited' = (file = None)
        /\ loaded' = IF Fresh(file) = {} THEN loaded ELSE loaded \o <<file>> \o Needs[file]
        /\ \E cs \in {Registers[Fresh(file)]} : Register(cs)
        /\ Goes(t, [Top(t) EXCEPT !.pc = IF name = <<>> THEN "insert" ELSE "initialise",
                                  !.handle = IF file \in Broken THEN None ELSE file])
        /\ UNCHANGED <<mutex, images, inits, overlapped, left, budget>>

\* The initialiser that dlsym() finds runs, and may itself call resolve().  It
\* is that of the file, whatever names it has been opened by before, or of a
\* library that the file needs.
RunInitialiser(t) ==
    LET init == Find(Top(t).handle, OblInit)
        own  == [stack[t] EXCEPT ![Len(stack[t])].pc = "insert"]
    IN  /\ At(t, "initialise")
        /\ inits' = IF init = None THEN inits ELSE [inits EXCEPT ![Platform[Top(t).image]] = @ + 1]
        /\ stack' = [stack EXCEPT ![t] =
                       IF init # None /\ Initialiser[init.file] = "resolves"
                       THEN Append(own, Frame("resolve", InitReference, <<>>)) ELSE own]
        /\ UNCHANGED <<logVars, mutex, images, loaded, exited, overlapped, left, budget>>

\* Mutant: the Library is not kept.
InsertForgets(t) ==
    /\ At(t, "insert") /\ Top(t).handle # None
    /\ GoesTo(t, IF Top(t).op = "open" THEN "done" ELSE "opened")
    /\ images' = IF Top(t).op = "open" THEN images ELSE Put(images, Platform[Top(t).image], <<>>)
    /\ UNCHANGED <<logVars, mutex, loaded, exited, inits, overlapped, left, budget>>

\* The Library goes into m_images, in place of one that is there already, with
\* what dlsym() gave for the initialiser.
Insert(t) ==
    LET name   == Platform[Top(t).image]
        handle == Top(t).handle
    IN  /\ At(t, "insert") /\ handle # None
        /\ GoesTo(t, "opened")
        /\ images' = Put(images, name,
                         IF name = <<>> THEN <<>> ELSE Put(<<>>, OblInit, Find(handle, OblInit)))
        /\ UNCHANGED <<logVars, mutex, loaded, exited, inits, overlapped, left, budget>>

\* With a null handle, Library::open() makes a string of the null pointer that
\* dlerror() returns the second time: the exception leaves every call.
Throw(t) ==
    /\ At(t, "insert") /\ Top(t).handle = None
    /\ stack' = [stack EXCEPT ![t] = <<>>]
    /\ mutex' = IF mutex = t THEN Free ELSE mutex
    /\ left' = left \union {name \in Range(Platform) : Opening(t, name)}
    /\ UNCHANGED <<logVars, images, loaded, exited, inits, overlapped, budget>>

\* Mutant: one cache for all images.
LookupAnyCache(t) ==
    LET name   == Platform[Top(t).image]
        symbol == Parsed[Top(t).ref].function
        all    == {n \in DOMAIN images : symbol \in DOMAIN images[n]}
        found  == IF all # {} THEN images[CHOOSE n \in all : TRUE][symbol]
                  ELSE Find(Opened(name), symbol)
    IN  /\ At(t, "opened")
        /\ IF Top(t).op = "open"
           THEN GoesTo(t, "done") /\ UNCHANGED images
           ELSE /\ Goes(t, [Top(t) EXCEPT !.pc = "done", !.result = found])
                /\ images' = [images EXCEPT ![name] = Put(@, symbol, found)]
        /\ UNCHANGED <<logVars, mutex, loaded, exited, inits, overlapped, left, budget>>

\* open() returns, resolve() asks the Library: get_function() keeps what it
\* has found, and also that it has found nothing.
Lookup(t) ==
    LET name   == Platform[Top(t).image]
        symbol == Parsed[Top(t).ref].function
        found  == IF symbol \in DOMAIN images[name] THEN images[name][symbol]
                  ELSE Find(Opened(name), symbol)
    IN  /\ At(t, "opened")
        /\ IF Top(t).op = "open"
           THEN GoesTo(t, "done") /\ UNCHANGED images
           ELSE /\ Goes(t, [Top(t) EXCEPT !.pc = "done", !.result = found])
                /\ images' = [images EXCEPT ![name] = Put(@, symbol, found)]
        /\ UNCHANGED <<logVars, mutex, loaded, exited, inits, overlapped, left, budget>>

\* Mutant: an invalid reference leaves the mutex locked.
ReturnLocked(t) ==
    /\ At(t, "done")
    /\ stack' = [stack EXCEPT ![t] = Front(@)]
    /\ mutex' = IF Top(t).op = "resolve" /\ Top(t).result # Invalid THEN Free ELSE mutex
    /\ UNCHANGED <<logVars, images, loaded, exited, inits, overlapped, left, budget>>

Return(t) ==
    /\ At(t, "done")
    /\ stack' = [stack EXCEPT ![t] = Front(@)]
    /\ mutex' = IF Top(t).op = "resolve" THEN Free ELSE mutex
    /\ UNCHANGED <<logVars, images, loaded, exited, inits, overlapped, left, budget>>

Running(t) ==
    \/ GetResolver(t) \/ Start(t) \/ Check(t) \/ Load(t) \/ RunInitialiser(t)
    \/ Insert(t) \/ Throw(t) \/ Lookup(t) \/ Return(t)

-----------------------------------------------------------------------------
\* The calls of the Logger between those of the Resolver.
LogCall(t) ==
    /\ budget > 0 /\ Idle(t) /\ budget' = budget - 1
    /\ UNCHANGED <<mutex, images, loaded, stack, exited, inits, overlapped, left>>
    /\ \/ \E name \in Names \union {"all"}, value \in BOOLEAN : SetCategory(name, value)
       \/ \E value \in BOOLEAN : StartReset(t, value)

LogRuns(t) == ~exited /\ ResetStep(t) /\ UNCHANGED resVars

\* The program starts: its own categories make the Logger and register.
ProgramStarts ==
    /\ \E level \in LogLevels, list \in DebugLists : MakeLogger(level, list)
    /\ UNCHANGED resVars

ProgramRegisters ==
    /\ ~Started
    /\ Register(Registers[{<<>>}])
    /\ UNCHANGED resVars

Next ==
    \/ ProgramStarts \/ ProgramRegisters
    \/ \E t \in Threads :
         \/ \E ref \in References : Call(t, "resolve", ref, <<>>)
         \/ \E image \in Images : Call(t, "open", <<>>, image)
         \/ Call(t, "get", <<>>, <<>>)
         \/ Running(t) \/ LogCall(t) \/ LogRuns(t)

Spec == ResInit /\ [][Next]_vars

\* A thread in a call goes on unless it waits for the mutex, which a thread
\* that goes on lets go; the calls are finite in number.
FairSpec == Spec /\ \A t \in Threads : WF_vars(Running(t))

-----------------------------------------------------------------------------
(* Properties.                                                             *)

\* For each platform image that a library is named by, open() runs the
\* initialiser that the library has, or one that it needs, once: not again
\* however often the image is named, and before the Library is kept, so that
\* nobody finds a function in a library that is not initialised.  It is once
\* for each image and not for each file: "a" and "./a" are two.  The exceptions
\* are two calls of the unlocked open() that overlap, and a call that is left
\* by an exception, which keeps nothing.
InitialisedOnce ==
    \A name \in DOMAIN inits :
        /\ name \notin overlapped \union left => inits[name] <= 1
        /\ name \in DOMAIN images \ {<<>>} /\ Find(Opened(name), OblInit) # None => inits[name] >= 1

\* What resolve() is to give: the symbol of the program or the library that
\* the client has named.
CONSTANT Meant

\* The reference is read as the client has meant it.
ReadsAsMeant ==
    \A ref \in DOMAIN Parsed : Parsed[ref] # Invalid =>
        Meant[ref] = [file |-> Opened(Platform[Parsed[ref].image]), symbol |-> Parsed[ref].function]

\* resolve() gives the function that the reference names, as dlsym() would
\* give it now: of the file the client has meant, of no other file of the name,
\* or of a library that it needs; only of the program it may have kept that
\* there was none.
FunctionIsTheOneNamed ==
    \A t \in Threads : \A i \in DOMAIN stack[t] :
        LET r == stack[t][i]
        IN  r.op = "resolve" /\ r.pc = "done" /\ r.result # Invalid =>
                \/ r.result = Find(Meant[r.ref].file, Meant[r.ref].symbol)
                \/ Meant[r.ref].file = <<>> /\ r.result = None

\* A thread waits for the mutex that it holds itself, in an initialiser.
SelfLocked == \E t \in Threads :
    mutex = t /\ At(t, "start") /\ Top(t).op # "open"

\* Every call returns or throws, unless the program has ended or a thread has
\* locked itself out.
CallsReturn ==
    \A t \in Threads : stack[t] # <<>> ~> stack[t] = <<>> \/ exited \/ SelfLocked
=============================================================================
