# TLA+ models of obelixlibs

obelixlibs is a set of C++ libraries: `src/core` (child processes, logging, dynamic loading, strings,
files) and `src/lexer` (a configurable tokenizer with its scanners, a token cursor and a parser base
class).  The modules here model the parts with the most state: **the child processes of `core/Process`**
(threads, pipes, signals), **the tokenizer stack of `lexer`** (a scanner edits a window on a text, the
tokenizer turns the window into tokens, a cursor moves over the tokens, a parser keeps errors about them),
and **the resolver of `core/Resolve` with the logger of `core/Logging`** (two mutexes, libraries that call
back).  TLC checks them on small instances, TLAPS proves the main invariants for every value of the
constants.

Line numbers are those of this commit.  `PROJECT.json` maps each definition to the lines it models, and
lists the runs, the mutants that show what each property can catch, the hazards and the theorems.

    tlc -workers 2 -config MCTokenizer.cfg MCTokenizer     # a run
    tlapm Tokenizer_proof.tla                              # the proofs of a module

## Inventory

| Component | State | Operations | What is hard | What makes it correct |
|---|---|---|---|---|
| `core/Process`: ReadPipe | `m_fd`, `m_lines`, `m_current`, `m_lock`, `m_condition`, a detached thread | `connect_parent`, `read`, `drain`, `newline`, `lines`, `expect`, `close` | threads and a monitor, output in pieces, failing `poll`/`read`, an unlocked `close()` | every byte once, in order; no lost wakeup; `expect()` comes back |
| `core/Process`: Process | `m_pid`, three pipes, the descriptors of parent and children | `execute`, `background`, `wait`, `terminate`, `running` | fork copies descriptors, failing `fork`/`pipe`/`exec`, signals, several objects | each child has its own ends and no other; `wait` and `terminate` return; `running()` is true |
| `core/StringBuffer` | text, `m_pos`, `m_mark` | `peek`, `skip`, `reset`, `rewind`, `partial_rewind`, ... | ends of the text | the window stays in the text |
| `lexer/Tokenizer` | window, token string, location, locked scanner, tokens | `tokenize`, `match_token`, and what scanners call: `push`, `push_as`, `discard`, `chop`, `rewind`, `accept`, `skip`, `lock_scanner` | any sequence of calls by any scanner, several tokens in one `match`, non-positive characters | tokens tile the text, values and locations belong to it, one end of file, it ends |
| `lexer/*Scanner.cpp` | `m_state` and a few variables each | `match` | states that survive a match, text that ends in the middle, CRLF | what is made a token is one |
| `lexer/Lexer` | buffer, tokens, cursor, bookmarks | `assign`, `tokenize`, `invalidate`, `peek`, `lex`, `match`, `replace`, `mark`, `discard_mark`, `rewind_to_mark` | lazy tokenizing, bookmarks over `invalidate`, values that point into the buffer | each token is passed once, in order; the cursor is on a token |
| `lexer/BasicParser`, `PlainTextParser`, `core/FileBuffer`, `core/ScopeGuard` | `m_errors`, the Lexer, an open file | `peek`, `lex`, `match`, `expect`, `replace`, `skip`, `add_error`, `clear_errors`, `read_file` | an unreadable token looks like the end of the file; a file that changes while it is read | no such token is passed without an error; what is read was once in the file |
| `lexer/Token.h` | - | `token_value`, spans | conversions between widths and signs | the number in the text, or an error |
| `core/StringUtil` | none | `split`, `join`, `strip`, `parse_pairs`, `string_to_integer`, `integer_to_string` | empty pieces, prefixes, signs, overflow | nothing lost; the number that is written |
| `core/Logging` | a mutex, categories, settings made before a category exists, level, file | `get_logger`, `add_category`, `enable`, `disable`, `reset`, `status`, `set_level`, `set_file` | settings before categories, a non-recursive mutex, state changed without it | a setting takes effect, whichever came first |
| `core/Resolve` | a mutex, images, their functions | `open`, `resolve`, `get_resolver`, `get_function` | initialisers that call back, a mutex that some callers do not take, cached results | initialised once; the function that was named; calls return |
| `core/Error`, `core/Format`, `core/Checked` | none | values, formatting, arithmetic | - | not modelled, see below |

How they interact: a `Process` owns two `ReadPipe`s, whose threads and whose users share `m_lines` under
`m_lock`.  A `Lexer` makes a `Tokenizer` on its `StringBuffer`, which calls `Scanner::match()`, which calls
back the `Tokenizer`.  A parser owns a `Lexer`, and reads a file into its buffer.  The `Resolver` opens a library,
whose logging categories register with the `Logger` while it is loaded, and whose initialiser may call the `Resolver`.

## Modules

| Module | Models | Composed of |
|---|---|---|
| `LineChannel` | what a ReadPipe promises: a channel of lines | - |
| `ReadPipe` | reader thread, consumers, kernel pipe, child as environment | refines `LineChannel` |
| `Process` | several Process objects, their threads, children and descriptors | - |
| `TokenBuffer` | the calls of Tokenizer and StringBuffer on the window | - |
| `Tokenizer` | `tokenize`, `match_token`, with an arbitrary scanner | extends `TokenBuffer` |
| `ConcreteScanner` | what the scanners of `src/lexer` have in common | extends `Tokenizer` |
| `WhitespaceScanner`, `QStringScanner`, `CommentScanner`, `NumberScanner`, `WordScanners` | `match()` of each (keywords and identifiers in one) | extend `ConcreteScanner` |
| `Scanners` | the Tokenizer with those in place of the arbitrary scanner | all of the scanners |
| `Lexer` | the cursor, with an arbitrary parser as client | parameter `Codes` stands for Tokenizer |
| `PlainTextScanner` | the scanner of PlainTextParser | extends `ConcreteScanner` |
| `StringUtil`, `Token` | pure operators: texts, pairs, numbers; the value of a token | used by `Scanners` |
| `BasicParser` | a parser and the file it reads, with an arbitrary derived class as client | extends `Lexer` |
| `Logging` | the Logger, its categories and settings | - |
| `Resolver` | threads in `open()` and `resolve()`, with the dynamic linker | extends `Logging` |
| `*_proof` | theorems about the module of that name; `BasicParser_proof` has those of the Lexer too, `Texts_proof` those of StringUtil and Token | |
| `MC*` | instances for TLC | |

### How state and actions correspond to the code

**ReadPipe.** `lock`, `current`, `lines`, `chunk`, `prevWasCr` and `fdOpen` are `m_lock`'s owner, `m_current`,
`m_lines`, the rest of `drain()`'s buffer, `prev_was_cr` and `m_fd >= 0`.  The reader takes a step per system
call or per byte scanned; the steps are named after the part of `read()`/`drain()` they are.  A byte is its
position in the output, so that a byte that is lost, doubled or moved is seen.  `Call(c, "take")` is `lines()`,
`Call(c, "check")` is `expect()`: `ExpectWaits` gives up the lock and waits, `Relock` takes it again, spurious
wakeups included.  The child is the environment.

**Process.** `start()` is `CreatePipe` (three times), `Fork` or `ForkFails`, and `ConnectParent` (three times); the
child's part is one action, `Exec`, as nothing else sees the child's descriptors in between.  `parentFds` and
`childFds` are descriptor tables: `fork` copies the parent's, `dup2` and `close` change them, `exec` keeps
them.  `wait()` is `WaitForNothing`, `WaitEnds` and `WaitInterrupted`: the code ignores SIGCHLD, so `waitpid()`
returns only when the child (with `m_pid` -1, every child) is gone, without a status; what the uninitialised
`exit_code` then says is a free choice.  A child whose `execvp()` failed is an `imposter`: it runs on in the
caller's code.

**TokenBuffer and Tokenizer.** `[mark, pos)` is the window, `tokenString` is `m_token_string`, `loc` the location
of the mark.  A value is a sequence of positions, `Foreign` (0) standing for a character that a scanner put in.
`MatchEnds` is what follows a `match()`; `MatchReturns` adds the one thing a scanner owes (`Owing`, below).
`ScannerEdits`, `ScannerLocks` and `ScannerAccepts` are a scanner's calls: any, in any order.  Three rules
restrict them, each one that the scanners of `src/lexer` keep, which *ScannersAreScanners* proves:
after an empty token before a positive character they take that character; they call `partial_rewind()` only
while the token string still stands for the window's text, character by character; they make finitely many calls.

**The scanners.** `at` is `m_state`, with more places where the code makes several calls in one state; a step makes
at most one call.  `setup` is the configuration.  `CommentScanner` has variables of its own as its state survives a
`match()`: `inComment` is `m_state == NewLine`.  `NumberScanner` is a table of moves.  `KeywordScanner`'s range of
the sorted keywords is the set of those that start with what was scanned.

**Lexer.** One action per member function.  `Filled` is what `tokenize()` makes of the buffer when the first token
is asked for.  History variables remember the cases in which a client left the terms of the class: a bookmark of
an older token list (`strayed`), a buffer assigned under the tokens (`swapped`), tokens made of a buffer
that was read before (`reread`); the properties say what holds without them, and the states with them are explored.

**BasicParser.** The Lexer's variables and calls are those of `Lexer`; each call of the parser is the Lexer's step
(`Peeking(0, ...)`) together with `Report`, which is the `add_error()` of `peek()` and `lex()`.  `skip()` is one action:
it passes the tokens of a code and peeks at the next.  A derived class can call the Lexer past the parser (`Direct`);
what it takes that way is `excused`.  `expect()` of a text compares with `strcmp` on a view that has no end of its own, so
that only a token at the end of the buffer can be equal.  `read_file()` takes a step per system call, between which
`FileChanges` writes to the file or gives the path to another one; `reading` is where it is and what its open file is.
`ScopeGuard` keeps a reference to a temporary, so that closing the file may or may not happen (`CloseOrLeak`).
The bytes that were read go to the `StringBuffer` as a C string (`FileBuffer.cpp:88-89`, `StringBuffer.cpp:55-60`): the text ends
before the first NUL of the file (`Delivered`, `IsTextOf`), and so does what *TextOfOneMoment* says of it.

**StringUtil and Token.** Pure operators.  A type is the range of its values; a conversion to it is modulo its width.  What
`Scanners` adds is the client that asks for the value of each token once the text is tokenized.

**Logging and Resolver.** A call of the Resolver is a frame on its thread's `stack`, with `pc` the place it is in; a callback
puts a frame on top.  `mutex` is `g_resolve_mutex`; `images` maps platform images to the `m_functions` of the Library.
A platform image is a name and not a file: `Files` says which file each directory has for a name, and two names may have the
same one.  `loaded` is the dynamic linker's list, which is of files.  A file is linked with the libraries it `Needs`:
`dlopen()` loads those that are not there yet (`Fresh`), and `dlsym()` of a handle searches them after the file (`Find`).
`Start` takes the mutex and reads the reference, `Check` looks in `m_images`, `Load`
is `dlopen()` in the eight directories with the constructors it runs, `RunInitialiser` calls `_obl_init`, `Insert` keeps the
Library, `Lookup` is `get_function()`.  The operations on `m_images`, which some callers make without the mutex, are
taken to be atomic.  An operation of the Logger under its mutex is one action; `reset()`, which has no lock when a
client calls it, takes a step per category.  The environment variables are read by `MakeLogger`.
History variables remember what the properties need: `wish` is what was last asked for each name, whether anything of that
name is known yet or not; `late` are the names that "all" has enabled before anything of the name was known; `astray` are those
whose last setting met an unlocked `reset()` or a second category of the name; `overlapped` and `left` are the images that two calls
were opening at once, or that an exception left.  All of them are kept per name, so that one name in trouble excuses no other.

## Runs

| Run | Instance and bounds | Shows |
|---|---|---|
| `read_pipe` | two consumers with two calls or wakeups each, a pipe of 3 bytes, reads of up to 3, four bytes written, failing `poll` and `read` | the safety properties of ReadPipe, and that it refines LineChannel |
| `read_pipe_live` | two consumers, a pipe of 2 bytes, reads of up to 2, three bytes, no failures | written output becomes lines; `expect()` is released |
| `process` | two objects, the three kinds of program, descriptors up to 11, failing fork, killed children, interrupted waits | descriptors and `running()` |
| `process_live` | two objects, programs that end by themselves or with their input, failing fork | `wait()` and `terminate()` return |
| `process_crash` | one object, one program that ends by itself | **violated**: a crash is reported for it |
| `tokenizer` | all texts of two of five characters (a letter, LF, CR, NUL, a negative one), two scanners with four edits each, one filtered code | tiling, values, locations, progress, termination |
| `lexer` | two texts, assigned up to three times, two bookmarks, six calls besides `lex()` | cursor, values, what the parser passes |
| `parser` | three texts, one the start of another, two of them with an unreadable token; a file with a NUL; two assignments, two bookmarks, three calls besides `lex()`; one change of the file, two descriptors | errors and `read_file()` |
| `resolver` | two threads, three calls; two libraries, one that the second needs and a broken one, five ways to name them (two platform images for one file), four references; four categories, three of one name; six environments | initialisers, results, settings, calls that return |
| `scanners` | 19 setups after the fixtures of `lexer/test`, every text of up to four to six of the characters that matter to the setup; a `long` of ten bits, and narrower types | each scanner's tokens, that they keep Tokenizer's rules, and the values a program gets from them |
| `scanners_comment` | the setup of comments in `/* */`, `//` and `#` | **violated**: a comment goes past an end marker |
| `scanners_number` | the setups of numbers | **violated**: zeroes are not just stripped |

Why the bounds are enough: in `read_pipe` a CRLF can be cut by a read, a read can fail inside a line and two
consumers can wait while the reader adds two lines.  In `process` two objects are what it takes for one child to
inherit the other's descriptors or for one to reuse a number the other closed.  In `tokenizer` two characters and
two scanners have a CRLF cut or kept, a scanner that edits and gives up before another, a lock over two rounds,
an empty token, and a token that ends inside the window; it has every character class the code distinguishes.
In `parser` a bookmark leads back over an unreadable token, the file is replaced in each gap of `read_file()`, and
the descriptors run out.  In `resolver` three calls are a library that is opened under two names by two threads at once and asked for a function, or
a setting, a reset and a library whose category comes between them; categories share a name, and one of them comes with a
library that another one needs.  Calls of initialisers come on top.
In `lexer` two bookmarks nest, and one can outlive an `invalidate()`.  In `scanners` six characters are an empty
line in a comment of several lines and the text after it, a full exponent, an escape before a quote.
The proofs have none of these bounds.

No run checks for deadlock: every system here may stop for good (a text ends, clients stop calling, a bound is used up).
That nobody is stuck half way is what the liveness runs are for.

### Fairness

- ReadPipe: weak fairness of the reader's step and of each consumer that is inside a call: threads are scheduled and
  a lock that is free is eventually had.  The child, new calls, failures and spurious wakeups are never forced.
- Process: weak fairness of each object's thread inside a member function and of each child (a `plain` program
  ends; a `filter` ends once its input does).  Calls, failures, signals and the end of an imposter are not forced.
- Tokenizer: weak fairness of the next step: `tokenize()` is sequential code, and `match()` makes finitely many calls.
- Resolver: weak fairness of each thread inside a call.  The mutex is not taken for ever, as the calls are finite in
  number and each holder goes on; weak fairness is enough.  Calls, settings and `reset()` are not forced.
- BasicParser: none; its properties are about safety.
- Lexer: weak fairness of `lex()`: a parser that goes on.  It is what `EndIsReached` is about.

## Theorems

`ReadPipe_proof`.  *TypeCorrect* has the extra invariant that `drain()` scans exactly while its chunk is not empty.
*NoWakeupIsLost* and *PartialLineIsProtected* rest on `MonitorInv`: who holds the lock follows from where each thread
is, and a consumer waits only with `lines` empty or before the reader's notification.  *ReadPipeImplementsChannel*
maps the bytes in `current`, the chunk and the pipe to the channel's pending text; every reader step is a delivery
or a stutter.  It needs `AfterTerminator`: behind a CR that was just scanned the current line is empty.
*NothingIsLostOrReordered* is about all the text at once: `FlattenSeq` and `DataIn` go through sequences of any length, so that its
lemmas need induction.  The library states induction for predicates, which the provers do not instantiate; for *sets* it follows from the least
element that the well-founded order of the naturals gives each set (`LeastNatural`, `SetInduction`, `SequencesInduction`).  A recursive
function is one that is chosen for its equation: that there is one for every length (`DataIsComputed`), and that two agree as far as their
arguments do (`ComputedOnce`), gives what one byte or line more, at either end, makes of the whole (`DataGrows`, `DataFrom`, `FlattenGrows`).

`Tokenizer_proof`.  One invariant, `Inv`: types, `Tiled` (the tokens' spans and the skipped positions partition
`1..mark`, by index), the window of the catch-all, the end of file, and progress.  Every call of a scanner either edits the
window and leaves everything behind the mark alone (`EditType`, `BehindKeepsTiled`), or passes it (`TakeFacts`).
So the theorems hold for any number of scanners, any texts and any calls that keep the rules above.
*LocationsAreTrue* and *ValuesAreFromTheText* each add a conjunct to `Inv`.  `StepKinds` says that a step passes text as
`PassTo` does or leaves the mark where it is.  `Located` then needs only that the line ends up to the new mark are the old ones and the
`Breaks` of what was passed (`BreaksAreLineEnds`), `Valued` that every edit keeps a token string `Ordered` in the window.

`BasicParser_proof`, the Lexer.  `Inv` has the types, `CursorInv` (cursor and bookmarks are on tokens of the list they were made for)
and `TextInv` (what the parser has passed, and had passed at each bookmark, is a prefix of the text's tokens).

`BasicParser_proof`, the parser: each call of it maps to steps of the Lexer that its `Inv` survives
(*LexerIsKept*; `SkipTo` is the one that passes several tokens at once).  *ErrorsAreNotPassedOver* needs `ReportInv`: not only what
the parser has passed but what it had passed at each bookmark is reported, for going back and on again must not
lose a report.  *FileIsOfOneMoment* needs `FileInv`: what the open file holds was in the file since the call began as long
as the path names it, and its size is that of the open file or larger unless it has `grown`.  The bytes up to that size have one text,
the one before their first NUL (`CutAssumption` says that there is one, for what it is of).

`Process_proof`.  *ChildrenAreConnected* and *ParentsAreConnected* are about two lists of descriptors, the parent's and the copy
that `fork()` makes of it, which other objects change in between.  `ParentInv` follows each pipe through `start()`: an end that
the parent holds is where `pipe()` has put it (`Placed`), both are there until it is connected (`Whole`), and then `m_fd` is the
only one (`Half`).  `ChildInv` says that a child that has not called `connect_child()` has its six ends there too
(`Forked`); they differ and, as the program keeps 0, 1 and 2 open, none is one of those, so that the three `dup2()` do not overwrite each other.  That the least free
descriptor exists comes from the order of the naturals.  `Control` ties the states of objects and children, and to it
`RunningIsTrue`: who is alive has its number in `m_pid`, but for an interrupted `wait()`.

`Resolver_proof`.  *InitialisersRunOnce* is about platform images, as `m_images` is, and not about files (see `a` and `./a.so` below).
It rests on `StackInv` (frames are well formed), on `OnceInv`: unless unlocked calls have overlapped at that image or an exception has left
it, the image is opened by one call at a time, not when it is in `m_images`, and its initialiser has run only when it is there or
the call is about to put it there; and, for *before the Library is kept*, on `FunctionsInv` and `NamedInv`.
*SettingsTakeEffect* needs `LogInv` of `Logging_proof`, which each operation of the Logger keeps.  `Settled` says of each name where
its wish is written: in its category, in `m_unregistered`, or, of a name that nobody knows, in `m_all_enabled`; there the wish for a
later category is what "all" was, which the category does not take over (`late`).  `ResetHolds` says that what a `reset()` in
progress has visited has its value.  Neither says anything of a name that went `astray`, until its next setting.

*FunctionsAreTheOnesNamed* needs `FoundInv`: a call of `resolve()` is at the image of its own reference, one that asks the Library has
an entry in `m_images`, and what is kept for a symbol of an image is what `dlsym()` gives for it now (`IsOf`).  That this lasts
is `FindStays`: the symbols of a library are its own and those of what it needs, and the program's first one stays first when
`dlopen()` appends files.
The theorem has a hypothesis, `ReadsAsMeant`: the reference is read as the client means it.  It is about the constants
only; `MCResolver` asks TLC for it with the spellings it has (parameters, a type before the name, an extension).

`Scanners_proof` is about the scanners of `src/lexer` in `ScannersSpec`.  *ScannersAreScanners* says that each step is one that `Tokenizer`
allows an arbitrary scanner.  The exception is `CutsAfterZeroes`: after leading zeroes were chopped, `NumberScanner` gives a period
back although the token is no longer its text.  The invariant is `Fits`, `Tokenizer_proof`'s `Inv` with five parts:
`WindowInv` (at which places of a `match()` the window has a character or is empty, and when the match has taken something),
`LockInv` (the lock is held exactly in the middle of a comment, and then there is text left), `BudgetInv` (a push takes a character and
leading zeroes are chopped once per window, so that the calls of a `match()` are bounded by its text), `CountInv`
(at most two tokens per character), `SetupInv` (the text is of the alphabet of the configuration).
*LockedScannerAlwaysSucceeds* is `LockInv`.  *ScannersTileTheText*, *ScannersEndWithEndOfFile*, *ScannersMakeProgress* and
*ScannersFollowTheText* carry the Tokenizer's theorems over, through the exception too, as it leaves what is behind the mark alone
(`RewindKeeps`).  *ValuesAreFromTheText* is not carried over: the exception is what makes `7.` of `007.x`.

*StringsAreAlwaysDecoded* is about what `QStringScanner` makes of a string.  `StringInv` is what it remembers in the middle of one
(`OpenString`): no character up to here closes the string, the next one is escaped exactly in the place `escape`, and the token string
is what the text means so far.  The property says which characters are escaped by counting the backslashes before them, and where a
character is in the value by its rank; `EscapedAfterEscape` (a character is escaped if the one before it escapes) and `DecodedAppends`
turn both into one step of the scanner.  `TokensStay` says that the tokens there are stay and which scanner makes which.

*KeywordsAreAlwaysWords* has to relate two scanners.  `WordsInv` says what the place of `KeywordScanner` means: some keyword agrees
with the window, and whether the window is one and the only one (`KeywordInv`); that what is offered to a later scanner starts with
no keyword that is a word of its own (`RejectedInv`: *KeywordIsRejected* shows it when the match ends and `OfferKeepsWords` that it
lasts from scanner to scanner); and that an identifier's window is of word characters (`IdentifierInv`).  The theorem has a
hypothesis about the configuration, `KeywordsComeFirst`: keywords are looked for before identifiers, and a keyword that goes on from
one that is a word goes on as a word.  The code needs both: see `i>f` below.  `MCScanners` asks TLC for it.

*LinesAreAlwaysKept* counts: up to the mark there are as many NewLine tokens as line ends, and the mark is not inside a CRLF
(`CountedInv`).  Three scanners make NewLine tokens and the others must not take a line end along, so `LinesInv` says of the window of
each what it has of line ends: none (`Clean`), one that is being read (`AtNewline`), or one at its end (`OneLine`).  `LeftInv` is for the
catch-all: where `WhitespaceScanner` or `PlainTextScanner` has left the text to the next one, no line end comes.  The hypothesis,
`LineEndsAreApart`, is about the configuration: no line end in a quote, a keyword or a marker, and where a text can have a CR there is a
`WhitespaceScanner`, and no `PlainTextScanner`, which cuts a CRLF in two; where line ends are to be kept, the options keep
them.  `MCScanners` asks TLC for it.  With it, what *ScannersFollowTheText* says of lines and columns has no exception (`crLfSplit`).

*CommentsAlwaysReachTheirEnd* follows a comment from its first character.  While `CommentScanner` looks for a start marker, `live` is the
markers that go on like the window, and one that stands in the text is longer than the window (`MarkersInv`): so it is found when it
is complete, and where the match gives up none starts (`UnopenedInv`, which lasts from scanner to scanner as `RejectedInv` does).  In
the text of a comment `OnlyFrom` says what has been passed over: up to here an end marker begins only where the scanner follows it, or where
the first character of one stands less than an end marker before (`Begun`).  `TextTo`, `EndingTo` and `EndTo` are that for a scanner
which follows none, is in the middle of one (how much of it stands there is `ending`), or has it all; `OnlyFromGrows` is the step from one
character to the next.  So the scanner ends the comment at an end marker, and any that it has passed was begun too early.  That it
passes those too is the finding `scanners_comment`; *CommentsReachTheirEnd* has the end markers that nothing like them stands before, of
any length but one.  The hypothesis, `MarkersAreApart`, is about the configuration: no start marker is empty or how another one starts
(`CommentScanner` takes a marker only when no other one starts alike), none that ends with the line starts with a line end, and numbers,
which can be `Error` tokens too, come after comments, as the names of the scanners order them.  `MCScanners` asks TLC for it.

*NumbersAreAlwaysNumerals* says of each state of `NumberScanner` what stands in the window (`Read`): zeroes, a mantissa, a mantissa and
an `e`, and so on.  A move reads one character more of it (`ReadGrows`, from the table of moves); where no move goes on, what is there is a
numeral and nothing longer is (`ZeroIsWhole` to `IntegerIsWhole`, one lemma for each state in which a number ends).  What is not plain
is the period: `NumberScanner` asks the *token*, not the window, whether an exponent may follow one, and a dropped zero makes the token
shorter; `NumeralInv` has that a zero is dropped only before a digit, so that a token with a period always has another character before
it.  The hypothesis, `NumbersAreComplete`, is that the features of numbers are set, except for `$`, and `MCScanners` asks TLC for it; a sign
and a period (`IsSignAndPeriod`) are left out, as in the property.

*PairsAreAlwaysTheText* needs of the tokenizer only the type of a token's value; the rest is about `parse_pairs()` and holds for every
text (`PairsOfText` of `Texts_proof`, which has what holds of the texts alone).  By the induction of `ReadPipe_proof` (on the set of the lengths for which a fact holds): the pieces that `split()`
makes put the text together again and have no separator in them (`SplitFacts`), and the pairs are those of the pieces with a name, in
their order (`PairsInOrder`).  `parse_pairs()` strips a piece first and then its name and its value; that comes to the same as stripping
what stands on each side of the first `=` (`StripInside`, `SplitAtFirst`, `PairOfIs`) because `=` is not blank.

*TokenValueIsAlwaysTheNumber* is about two programs, the one that makes a token's value and the one that reads it.  `ValueInv` says of each
state of `NumberScanner` what the token string is: the sign, and the text from the last zero that was dropped on (`Holds`, `Shape`), with the
period or without it where one was given back (`HoldsPeriod`); `ValuesInv` is what comes of it for each token.  On the other side
`Evaluated` multiplies by the radix from digit to digit, and the property sums the digits by their places: both are one kind of
recursion (`Linear`), and the sum is what the multiplication gives (`ReadIsSum`), with the zeroes that were dropped adding nothing.
Then come the forms a text can have: with a sign, a prefix or a period, and with the pairs of them that `to_long()` refuses (`UnsignedIsRead`,
`SignedIsRead`).  The last part is that what `integer_to_string()` writes is read back as the same number (`WrittenIsRead`), by induction on
the number.  The hypothesis is `NumbersAreComplete` again.  The theorem is for every text and configuration, but for the
widths of the model only: `Types` gives `long` 10 bits and the narrow types 4.

All of them assume only the named ASSUMEs of the modules: thread names differ, sizes are naturals, `EndOfFile` is
neither filtered nor a scanner's own code, and (`CutAssumption`) what is left of a file
that is cut is a text up to its first NUL, which is no token (`ParserAssumption`), the program's and the libraries' categories are known,
`None` is neither an image nor a library, and one that can be opened needs none that cannot (`ResolverAssumption`), a configuration
has a scanner for each place, no NUL or negative character in its alphabet, no NUL or backslash as a quote and sequences of characters
as keywords and markers (`SetupsAssumption`), and the bounds of `Tokenizer` leave room for its texts (`BoundsAssumption`).

Model-checked only: liveness, which is out of the prover's reach.

## What the code does and a document says otherwise

- `wait()` says a child *crashed due to signal* that ended normally (`process_crash`): SIGCHLD is ignored at
  `Process.cpp:276`, so `waitpid()` fails with ECHILD, and `exit_code` is read uninitialised.
- `QStringTest.cpp:30-41` expects an `Error` token for an unclosed string; `QStringScanner.cpp:86-98` makes one of the
  `Unclosed...` codes, and *StringsAreDecoded* says when.  (There is no run for this one: the two lines say it.)
- `CommentScanner.cpp:90-91` says of the character at which the match of an end marker is lost that it may be *the start of a new
  end marker match*; lines 93-95 make it text like any other, so that `/***/` is an unterminated comment (`scanners_comment`).
- `NumberScanner.cpp:88-89` strips leading zeroes; with a period that no digit follows (`007.x`) the
  token's value is `7.` (`scanners_number`): `partial_rewind()` counts from the text, which is longer than the token.

Behaviour that no document contradicts, kept as the code has it:

- The reader thread spins once the child has closed its output: `poll()` returns POLLHUP and nothing is read.
- In `drain()` an LF sets `prev_was_cr` too, so that empty lines between LFs that one `read()` returns are left out; of a CRLF that
  a `read()` cuts in two it makes an empty line.  (`LineChannel` allows both.)
- `expect()` without another line waits for ever, also when the child is gone.
- `execute()` of a program that reads its input to the end never returns; nobody closes `m_stdin`.
- When `pipe()` fails for the second or third pipe the descriptors of the ones before stay open.
- An end marker of one character never matches.
- A sign and a period (`+.`) are an Integer `+`.  `0e1` is the Integer `0` and an identifier.
- A keyword that is the start of another one is not recognised at the end of the text.  With the keywords `i` and `i>f` the
  text `i>i` starts with the identifier `i`: once the match of the longer one is lost, the shorter is not tried again.
- `PlainTextScanner` ends a text before the LF: the CR of a CRLF stays in the text token, and the two count as two lines.
- A NUL or a byte from 0x80 on that no scanner takes keeps `tokenize()` from returning (`StuckOnlyAtNonPositive`).
- With `OBL_LOGLEVEL` set the Logger's constructor waits for the mutex its caller holds (`Logging.cpp:138`, `190`), and with a
  separator in `OBL_DEBUG` its loop finds the same separator for ever (line 180): `logger` is then `"hung"`.
- `a` and `./a.so` are two platform images of one file and so two keys of `m_images`, which is asked before `dlopen()` (`Resolve.cpp:159-163`,
  `199-203`): the file is one library to the dynamic linker, and its initialiser runs twice.
- A library without an initialiser that is linked with one that has one runs that (`Resolve.cpp:190`: `dlsym()` of a handle
  searches its dependencies too), and again when the other is opened itself.
- An `open()` that an exception leaves keeps nothing, so that the next one runs the initialiser again.
- An initialiser that calls `resolve()` while it is run by `resolve()` locks its thread out (`SelfLocked`).
- A library with an undefined symbol counts as opened, with a null handle; `dlsym()` then finds the initialiser of
  another library and runs it again, and `std::string` of a null `dlerror()` throws (`Throw`).
- The extension of an image is what follows its last period, also one in a directory: `./a` becomes `.so`.
- That the program has no function of a name is kept, also when a library that has it is loaded later.
- After `enable("all")` a category of a name that was never heard of starts disabled (`Logging.cpp:54-57`): `enabled()` and `status()` of
  the Logger ask `m_all_enabled` too and say that it is on, but a message asks only `m_enabled` (`Logging.h:153`, `162`, `170`) and is dropped.
- A second category of a name starts disabled, whatever was set; while everything is enabled `status()` may say
  otherwise than a category's own setting.
- The text of a file ends at its first NUL.
- `skip()` does not return when a client has put a token of the skipped code in the place of the end of file.
- `expect(char const*)` compares with the rest of the buffer, not with the token.
- `string_to_integer()`: `0b10` is 16, an empty text, a blank one and `-` are 0, `--5` is 5, `1:` is 13; `+7` and `-0x10`
  are no numbers, so that `to_long()` aborts for tokens the NumberScanner makes; overflow wraps.
- `token_value<bool>` of a token that is no number aborts before it tries `true` and `false`.  `token_value` of an
  unsigned type as wide as `long` takes negative numbers.
- `split("")` reads before the text, and `rstrip()` of a blank text does; the model has the empty piece and the empty text.
- `NumberScanner.cpp:188` starts with a stray `5` that does not compile; the model leaves it out.

## Not modelled

- Lifetimes: the detached thread outlives a ReadPipe that is destroyed; libraries that are closed.
- `WritePipe::write`, a second `start()` of one object.
- The configurations of IdentifierScanner other than the default, keywords without regard to case, a scanner used for a
  second text.
- `core/Checked.h`: no file includes it and it does not compile (`std::swap` of a temporary in lines 34-35 and 50-51, a name that
  is declared nowhere), so there is no behaviour to model.
- `core/Format.h`, `core/Error.h`, the wording and writing of messages, `set_level()` and `set_file()` of a running Logger, the names
  of token codes, `Span::merge`: values and texts that nothing modelled depends on.
- Floating point values (`token_value<double>`, `to_double`): TLA+ has no arithmetic for them.  Read, not checked: its
  range test takes the smallest positive value for the least one and so refuses zero and negative numbers.

## Plan

Done: ReadPipe and its refinement, Process, Tokenizer, the scanners, Lexer, BasicParser with FileBuffer, Logging and
Resolver, the operators of StringUtil and Token; theorems as above.  Left, in order:

1. `Process`: a second `start()` of one object, `write()` with a reader that is gone, the destructors.
2. A scanner over a second text: `CommentScanner`'s state outlives the first.
