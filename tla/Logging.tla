------------------------------ MODULE Logging ------------------------------
(***************************************************************************)
(* core/Logging.{h,cpp}: the one Logger, the categories that register with *)
(* it, and the settings for them, which may be made before they exist.     *)
(*                                                                         *)
(* An operation that holds g_logging_mutex is one action, since it calls   *)
(* nothing that waits; what it needs of the mutex is that the constructor  *)
(* of the Logger has let it go.  reset() takes no lock and is one action   *)
(* for every category.  Messages, levels and the log file are left out.    *)
(***************************************************************************)
EXTENDS Functions, FiniteSets, Naturals, Sequences

CONSTANTS
    Threads,        \* the threads of the program
    Categories,     \* the LoggingCategory objects
    NameOf,         \* their names
    LogLevels,      \* what OBL_LOGLEVEL may be: "" when it is not set
    DebugLists      \* what OBL_DEBUG or DEBUG may be: the names in it, a sequence

Names == {NameOf[c] : c \in Categories}

ASSUME LoggingAssumption ==
    "all" \notin Names /\ DebugLists \subseteq Seq(Names \union {"all"})

VARIABLES
    logger,         \* "none", "ready", or "hung" in its constructor
    categories,     \* m_categories: from names to objects
    m_enabled,      \* of every LoggingCategory
    unregistered,   \* m_unregistered: from names to settings
    all_enabled,    \* m_all_enabled
    resetting,      \* where each thread is in reset()
    wish,           \* history: what was last asked for each name, known or not
    late,           \* history: names that "all" has enabled before they were known
    astray          \* history: names of which the last setting may have been lost

logVars == <<logger, categories, m_enabled, unregistered, all_enabled,
             resetting, wish, late, astray>>

NoReset == [phase |-> "none"]

LogInit ==
    /\ logger = "none"
    /\ categories = <<>>
    /\ m_enabled = [c \in Categories |-> FALSE]
    /\ unregistered = <<>>
    /\ all_enabled = FALSE
    /\ resetting = [t \in Threads |-> NoReset]
    /\ wish = [n \in Names |-> FALSE]
    /\ late = {}
    /\ astray = {}

Put(f, x, value) == [y \in DOMAIN f \union {x} |-> IF y = x THEN value ELSE f[y]]

Known == DOMAIN categories \union DOMAIN unregistered

Resets == \E t \in Threads : resetting[t] # NoReset

-----------------------------------------------------------------------------
\* A setting is made for the names ns: one that an unlocked reset() may
\* overwrite goes astray, any other says again what holds.
Asked(ns, value) ==
    /\ wish' = [n \in Names |-> IF n \in ns THEN value ELSE wish[n]]
    /\ astray' = IF Resets THEN astray \union ns ELSE astray \ ns

\* reset(value) by one who holds the mutex.
ResetAll(value) ==
    /\ m_enabled' = [c \in Categories |-> IF c \in Range(categories) THEN value ELSE m_enabled[c]]
    /\ unregistered' = [n \in DOMAIN unregistered |-> value]
    /\ all_enabled' = value
    /\ Asked(Names, value)
    /\ late' = IF value THEN Names \ Known ELSE {}
    /\ UNCHANGED categories

\* Mutant: what is set before a category exists is forgotten.
SetKnown(name, value) ==
    /\ name # "all"
    /\ m_enabled' = IF name \in DOMAIN categories
                    THEN [m_enabled EXCEPT ![categories[name]] = value] ELSE m_enabled
    /\ Asked({name}, value)
    /\ late' = late \ {name}
    /\ UNCHANGED <<categories, unregistered, all_enabled>>

\* set_nolock().
Set(name, value) ==
    \/ name = "all" /\ ResetAll(value)
    \/ /\ name \in DOMAIN categories
       /\ m_enabled' = [m_enabled EXCEPT ![categories[name]] = value]
       /\ Asked({name}, value)
       /\ late' = late \ {name}
       /\ UNCHANGED <<categories, unregistered, all_enabled>>
    \/ /\ name \in Names \ DOMAIN categories
       /\ unregistered' = Put(unregistered, name, value)
       /\ Asked({name}, value)
       /\ late' = late \ {name}
       /\ UNCHANGED <<categories, m_enabled, all_enabled>>

\* The first get_logger(): it holds the mutex while the Logger is made.
\* set_level() of a char* asks for the mutex again, and a list with a
\* separator in it is never read past the separator.
MakeLogger(level, list) ==
    /\ logger = "none"
    /\ logger' = IF level # "" \/ Len(list) > 1 THEN "hung" ELSE "ready"
    /\ IF list = <<>>
       THEN UNCHANGED <<categories, m_enabled, unregistered, all_enabled, wish, late, astray>>
       ELSE Set(list[1], TRUE)
    /\ UNCHANGED resetting

\* enable() and disable().
SetCategory(name, value) ==
    /\ logger = "ready"
    /\ Set(name, value)
    /\ UNCHANGED <<logger, resetting>>

\* The constructors of the categories cs, one after the other: add_category().
\* The last of a name has it; the first takes the setting that was made for
\* the name before, and the others start without one.
Register(cs) ==
    LET names    == {NameOf[c] : c \in Range(cs)}
        first(n) == CHOOSE i \in DOMAIN cs :
                      NameOf[cs[i]] = n /\ \A k \in DOMAIN cs : NameOf[cs[k]] = n => i <= k
        last(n)  == CHOOSE i \in DOMAIN cs :
                      NameOf[cs[i]] = n /\ \A k \in DOMAIN cs : NameOf[cs[k]] = n => k <= i
        takes(c) == /\ NameOf[c] \in DOMAIN unregistered /\ unregistered[NameOf[c]]
                    /\ c = cs[first(NameOf[c])]
    IN  /\ logger = "ready"
        /\ categories' = [n \in names \union DOMAIN categories |->
                           IF n \in names THEN cs[last(n)] ELSE categories[n]]
        /\ m_enabled' = [c \in Categories |-> IF c \in Range(cs) THEN takes(c) ELSE m_enabled[c]]
        /\ unregistered' = Restrict(unregistered, DOMAIN unregistered \ names)
        /\ astray' = astray \union {n \in names : Resets \/ n \in DOMAIN categories \/ first(n) # last(n)}
        /\ UNCHANGED <<logger, all_enabled, resetting, wish, late>>

\* reset() called by a client: it has no lock.  It goes astray altogether when
\* it meets another.
StartReset(t, value) ==
    /\ logger = "ready"
    /\ resetting[t] = NoReset
    /\ astray' = IF Resets THEN Names ELSE {}
    /\ resetting' = [resetting EXCEPT ![t] =
                       [phase |-> "categories", value |-> value, seen |-> {},
                        first |-> DOMAIN categories]]
    /\ UNCHANGED <<logger, categories, m_enabled, unregistered, all_enabled, wish, late>>

\* One more category, in any order, or the end of the categories: one that has
\* come since the start is visited or not.
ResetStep(t) ==
    LET r == resetting[t]
    IN  /\ UNCHANGED <<logger, categories, astray>>
        /\ \/ /\ r.phase = "categories"
              /\ \E n \in DOMAIN categories \ r.seen :
                   /\ m_enabled' = [m_enabled EXCEPT ![categories[n]] = r.value]
                   /\ resetting' = [resetting EXCEPT ![t].seen = @ \union {n}]
              /\ UNCHANGED <<unregistered, all_enabled, wish, late>>
           \/ /\ r.phase = "categories" /\ r.first \subseteq r.seen
              /\ unregistered' = [n \in DOMAIN unregistered |-> r.value]
              /\ resetting' = [resetting EXCEPT ![t].phase = "all"]
              /\ UNCHANGED <<m_enabled, all_enabled, wish, late>>
           \/ /\ r.phase = "all"
              /\ all_enabled' = r.value
              /\ wish' = [n \in Names |-> r.value]
              /\ late' = IF r.value THEN Names \ Known ELSE {}
              /\ resetting' = [resetting EXCEPT ![t] = NoReset]
              /\ UNCHANGED <<m_enabled, unregistered>>

-----------------------------------------------------------------------------
\* Logger::status(), between two calls of others.
Status(name) ==
    IF name \in DOMAIN categories THEN m_enabled[categories[name]] \/ all_enabled
    ELSE IF name \in DOMAIN unregistered THEN unregistered[name] ELSE all_enabled

\* The last setting that was made for a name, or for "all", holds for its
\* category, whether the category came first or the setting did, across
\* enable(), disable() and reset(): messages are let through (m_enabled) only
\* where that was asked for, status() says so wherever it was, and for a name
\* without a category, and while "all" is not set, status() says just that.
\* The exceptions are names and not states.  A category that comes after "all"
\* was enabled lets nothing through, and only status() says that it does.  A
\* setting is lost to a second category of the name, or when it is made, or
\* the category comes, while an unlocked reset() runs: until the next setting.
SettingTakesEffect ==
    ~Resets => \A n \in Names \ astray :
        /\ n \in DOMAIN categories /\ m_enabled[categories[n]] => wish[n]
        /\ n \in DOMAIN categories \ late => m_enabled[categories[n]] = wish[n]
        /\ wish[n] => Status(n)
        /\ n \notin DOMAIN categories \/ ~all_enabled => Status(n) = wish[n]
=============================================================================
