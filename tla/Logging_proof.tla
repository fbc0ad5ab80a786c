--------------------------- MODULE Logging_proof ---------------------------
(***************************************************************************)
(* What the Logger's operations keep, for any categories, names and        *)
(* threads.  The Logger has no behaviours of its own: Resolver calls it.   *)
(***************************************************************************)
EXTENDS Logging, WellFoundedInduction, TLAPS

Resetting == {NoReset} \union
    [phase : {"categories", "all"}, value : BOOLEAN, seen : SUBSET Names, first : SUBSET Names]

LogTypes ==
    /\ DOMAIN categories \subseteq Names
    /\ \A n \in DOMAIN categories : categories[n] \in Categories /\ NameOf[categories[n]] = n
    /\ m_enabled \in [Categories -> BOOLEAN]
    /\ DOMAIN unregistered \subseteq Names \ DOMAIN categories
    /\ \A n \in DOMAIN unregistered : unregistered[n] \in BOOLEAN
    /\ all_enabled \in BOOLEAN
    /\ wish \in [Names -> BOOLEAN]
    /\ resetting \in [Threads -> Resetting]

\* The category of a name, or the setting kept for it, or m_all_enabled says
\* what was wished.
Settled(n) ==
    /\ n \in DOMAIN categories =>
          /\ m_enabled[categories[n]] => wish[n]
          /\ n \notin late => m_enabled[categories[n]] = wish[n]
    /\ n \in late => wish[n] /\ all_enabled
    /\ n \in DOMAIN unregistered => unregistered[n] = wish[n] /\ n \notin late
    /\ n \notin Known => wish[n] = all_enabled /\ (wish[n] => n \in late)

\* What a reset() that runs has visited of a name has its value.
ResetHolds(t, n) ==
    LET r == resetting[t]
    IN  /\ \A u \in Threads : resetting[u] # NoReset => u = t
        /\ n \in DOMAIN categories => n \in r.first
        /\ n \in DOMAIN categories /\ n \in r.seen => m_enabled[categories[n]] = r.value
        /\ r.phase = "all" => /\ n \in DOMAIN categories => n \in r.seen
                              /\ n \in DOMAIN unregistered => unregistered[n] = r.value

LogInv ==
    /\ LogTypes
    /\ ~Resets => \A n \in Names \ astray : Settled(n)
    /\ \A t \in Threads : resetting[t] # NoReset => \A n \in Names \ astray : ResetHolds(t, n)

-----------------------------------------------------------------------------
LEMMA LogInitHolds == LogInit => LogInv
<1> SUFFICES ASSUME LogInit PROVE LogInv
  OBVIOUS
<1>1. /\ ~Resets /\ DOMAIN categories = {} /\ DOMAIN unregistered = {}
      /\ \A t \in Threads : resetting[t] = NoReset
  BY DEF LogInit, Resets
<1>2. LogTypes
  BY <1>1 DEF LogInit, LogTypes, Resetting
<1>3. \A n \in Names \ astray : Settled(n)
  BY <1>1 DEF LogInit, Settled, Known
<1> QED
  BY <1>1, <1>2, <1>3 DEF LogInv

\* A name that the setting is not made for stays what it was.
LEMMA OthersSettled ==
    ASSUME NEW n \in Names, UNCHANGED <<categories, all_enabled, resetting>>,
           n \in DOMAIN unregistered' <=> n \in DOMAIN unregistered,
           n \in DOMAIN unregistered => unregistered'[n] = unregistered[n],
           n \in DOMAIN categories => m_enabled'[categories[n]] = m_enabled[categories[n]],
           wish'[n] = wish[n], n \in late' <=> n \in late
    PROVE  /\ Settled(n) => Settled(n)'
           /\ \A t \in Threads : ResetHolds(t, n) => ResetHolds(t, n)'
BY DEF Settled, ResetHolds, Known

LEMMA AskedFacts ==
    ASSUME LogInv, NEW ns \in SUBSET Names, NEW value \in BOOLEAN, Asked(ns, value),
           UNCHANGED resetting
    PROVE  /\ wish' \in [Names -> BOOLEAN] /\ Resets' = Resets
           /\ \A n \in ns : wish'[n] = value
           /\ \A n \in Names \ ns : wish'[n] = wish[n]
           /\ \A n \in Names \ astray' : (n \notin astray \/ n \in ns) /\ (n \in ns => ~Resets)
BY DEF Asked, LogInv, LogTypes, Resets

\* The invariant, when the name is settled by a step that changes one name.
LEMMA OneNameKeeps ==
    ASSUME LogInv, LogTypes', NEW name \in Names, NEW value \in BOOLEAN,
           Asked({name}, value), UNCHANGED <<categories, all_enabled, resetting>>,
           late' = late \ {name}, Settled(name)',
           \A n \in Names \ {name} :
             /\ n \in DOMAIN unregistered' <=> n \in DOMAIN unregistered
             /\ n \in DOMAIN unregistered => unregistered'[n] = unregistered[n]
             /\ n \in DOMAIN categories => m_enabled'[categories[n]] = m_enabled[categories[n]]
    PROVE  LogInv'
<1>1. /\ Resets' = Resets
      /\ \A n \in Names \ {name} : wish'[n] = wish[n]
      /\ \A n \in Names \ astray' : (n \notin astray \/ n = name) /\ (n = name => ~Resets)
  <2>1. PICK ns \in SUBSET Names : ns = {name}
    OBVIOUS
  <2>2. Asked(ns, value)
    BY <2>1
  <2>3. /\ Resets' = Resets
        /\ \A n \in Names \ ns : wish'[n] = wish[n]
        /\ \A n \in Names \ astray' : (n \notin astray \/ n \in ns) /\ (n \in ns => ~Resets)
    BY <2>2, AskedFacts
  <2> QED
    BY <2>1, <2>3
<1>2. ASSUME NEW n \in Names \ {name}
      PROVE  /\ Settled(n) => Settled(n)'
             /\ \A t \in Threads : ResetHolds(t, n) => ResetHolds(t, n)'
  BY <1>1, <1>2, OthersSettled
<1>3. ASSUME ~Resets', NEW n \in Names \ astray'
      PROVE  Settled(n)'
  BY <1>1, <1>2, <1>3 DEF LogInv
<1>4. ASSUME NEW t \in Threads, resetting'[t] # NoReset, NEW n \in Names \ astray'
      PROVE  ResetHolds(t, n)'
  <2>1. Resets /\ resetting[t] # NoReset
    BY <1>4 DEF Resets
  <2>2. n \in Names \ {name} /\ n \in Names \ astray
    BY <1>1, <1>4, <2>1
  <2>3. ResetHolds(t, n)
    BY <2>1, <2>2 DEF LogInv
  <2> QED
    BY <1>2, <2>2, <2>3
<1> QED
  BY <1>3, <1>4 DEF LogInv

LEMMA ResetAllKeeps ==
    ASSUME LogInv, NEW value \in BOOLEAN, ResetAll(value), UNCHANGED resetting
    PROVE  LogInv'
<1>1. Asked(Names, value) /\ UNCHANGED categories
  BY DEF ResetAll
<1>2. /\ wish' \in [Names -> BOOLEAN] /\ Resets' = Resets
      /\ \A n \in Names : wish'[n] = value
      /\ \A n \in Names \ astray' : ~Resets
  BY <1>1, AskedFacts, Zenon
<1>3. /\ m_enabled' \in [Categories -> BOOLEAN]
      /\ \A n \in DOMAIN categories : m_enabled'[categories[n]] = value
  <2>1. \A n \in DOMAIN categories : categories[n] \in Range(categories)
    BY DEF Range
  <2> QED
    BY <2>1 DEF ResetAll, LogInv, LogTypes
<1>4. /\ DOMAIN unregistered' = DOMAIN unregistered /\ all_enabled' = value
      /\ \A n \in DOMAIN unregistered : unregistered'[n] = value
      /\ late' = IF value THEN Names \ Known ELSE {}
  BY DEF ResetAll
<1>5. LogTypes'
  BY <1>1, <1>2, <1>3, <1>4 DEF LogInv, LogTypes
<1>6. ASSUME NEW n \in Names PROVE Settled(n)'
  BY <1>1, <1>2, <1>3, <1>4 DEF Settled, Known
<1>7. ASSUME NEW t \in Threads, resetting'[t] # NoReset, NEW n \in Names \ astray'
      PROVE  FALSE
  BY <1>2, <1>7 DEF Resets
<1> QED
  BY <1>5, <1>6, <1>7 DEF LogInv

\* A setting is made.
LEMMA SetKeeps ==
    ASSUME LogInv, NEW name, NEW value \in BOOLEAN, Set(name, value), UNCHANGED resetting
    PROVE  LogInv'
<1>1. CASE name = "all" /\ ResetAll(value)
  BY <1>1, ResetAllKeeps
<1>2. CASE /\ name \in DOMAIN categories
           /\ m_enabled' = [m_enabled EXCEPT ![categories[name]] = value]
           /\ Asked({name}, value)
           /\ late' = late \ {name}
           /\ UNCHANGED <<categories, unregistered, all_enabled>>
  <2>1. name \in Names /\ categories[name] \in Categories /\ name \notin DOMAIN unregistered
    BY <1>2 DEF LogInv, LogTypes
  <2>2. wish' \in [Names -> BOOLEAN] /\ wish'[name] = value
    BY <1>2, <2>1, AskedFacts
  <2>3. /\ m_enabled' \in [Categories -> BOOLEAN] /\ m_enabled'[categories[name]] = value
        /\ \A n \in DOMAIN categories : n # name => m_enabled'[categories[n]] = m_enabled[categories[n]]
    BY <1>2, <2>1 DEF LogInv, LogTypes
  <2>4. LogTypes'
    BY <1>2, <2>2, <2>3 DEF LogInv, LogTypes
  <2>5. Settled(name)'
    BY <1>2, <2>1, <2>2, <2>3 DEF Settled, Known
  <2> QED
    BY <1>2, <2>1, <2>3, <2>4, <2>5, OneNameKeeps
<1>3. CASE /\ name \in Names \ DOMAIN categories
           /\ unregistered' = Put(unregistered, name, value)
           /\ Asked({name}, value)
           /\ late' = late \ {name}
           /\ UNCHANGED <<categories, m_enabled, all_enabled>>
  <2>1. wish' \in [Names -> BOOLEAN] /\ wish'[name] = value
    BY <1>3, AskedFacts
  <2>2. /\ DOMAIN unregistered' = DOMAIN unregistered \union {name} /\ unregistered'[name] = value
        /\ \A n \in DOMAIN unregistered : n # name => unregistered'[n] = unregistered[n]
    BY <1>3 DEF Put
  <2>3. LogTypes'
    BY <1>3, <2>1, <2>2 DEF LogInv, LogTypes
  <2>4. Settled(name)'
    BY <1>3, <2>1, <2>2 DEF Settled, Known
  <2> QED
    BY <1>3, <2>2, <2>3, <2>4, OneNameKeeps
<1> QED
  BY <1>1, <1>2, <1>3 DEF Set

LEMMA UnchangedKeeps ==
    ASSUME LogInv, UNCHANGED <<categories, m_enabled, unregistered, all_enabled,
                               resetting, wish, late, astray>>
    PROVE  LogInv'
BY DEF LogInv, LogTypes, Settled, ResetHolds, Resets, Known

LEMMA MakeLoggerKeeps ==
    ASSUME LogInv, NEW level, NEW list, MakeLogger(level, list)
    PROVE  LogInv'
<1>1. CASE list = <<>>
  BY <1>1, UnchangedKeeps DEF MakeLogger
<1>2. CASE list # <<>>
  BY <1>2, SetKeeps DEF MakeLogger
<1> QED
  BY <1>1, <1>2

LEMMA SetCategoryKeeps ==
    ASSUME LogInv, NEW name, NEW value \in BOOLEAN, SetCategory(name, value)
    PROVE  LogInv'
BY SetKeeps DEF SetCategory

-----------------------------------------------------------------------------
\* Of the places at which a sequence has something there is a last.
LEMMA LastPlace ==
    ASSUME NEW len \in Nat, NEW I \in SUBSET (1..len), I # {}
    PROVE  \E i \in I : \A k \in I : k <= i
<1> DEFINE S == {len - i : i \in I}
<1>1. S \subseteq Nat /\ S # {}
  <2>1. \A i \in I : len - i \in Nat
    OBVIOUS
  <2> QED
    BY <2>1
<1> HIDE DEF S
<1>2. PICK x \in S : \A y \in S : ~(<<y, x>> \in OpToRel(<, Nat))
  BY <1>1, NatLessThanWellFounded, WFMin
<1>3. ASSUME NEW y \in S, y < x PROVE FALSE
  BY <1>1, <1>2, <1>3 DEF OpToRel
<1>4. PICK i \in I : x = len - i
  BY DEF S
<1>5. ASSUME NEW k \in I PROVE k <= i
  <2>1. len - k \in S
    BY DEF S
  <2> QED
    BY <1>3, <1>4, <2>1
<1> QED
  BY <1>5

LEMMA RegisterKeeps ==
    ASSUME LogInv, NEW cs \in Seq(Categories), Register(cs)
    PROVE  LogInv'
<1> DEFINE names    == {NameOf[c] : c \in Range(cs)}
           first(n) == CHOOSE i \in DOMAIN cs :
                         NameOf[cs[i]] = n /\ \A k \in DOMAIN cs : NameOf[cs[k]] = n => i <= k
           last(n)  == CHOOSE i \in DOMAIN cs :
                         NameOf[cs[i]] = n /\ \A k \in DOMAIN cs : NameOf[cs[k]] = n => k <= i
           takes(c) == /\ NameOf[c] \in DOMAIN unregistered /\ unregistered[NameOf[c]]
                       /\ c = cs[first(NameOf[c])]
<1>1. /\ categories' = [n \in names \union DOMAIN categories |->
                          IF n \in names THEN cs[last(n)] ELSE categories[n]]
      /\ m_enabled' = [c \in Categories |-> IF c \in Range(cs) THEN takes(c) ELSE m_enabled[c]]
      /\ unregistered' = [n \in DOMAIN unregistered \ names |-> unregistered[n]]
      /\ astray' = astray \union {n \in names : Resets \/ n \in DOMAIN categories \/ first(n) # last(n)}
      /\ UNCHANGED <<logger, all_enabled, resetting, wish, late>>
  BY DEF Register, Restrict
<1>2. Range(cs) \subseteq Categories /\ DOMAIN cs = 1..Len(cs) /\ Len(cs) \in Nat
  BY DEF Range
<1>3. ASSUME NEW n \in names
      PROVE  last(n) \in DOMAIN cs /\ NameOf[cs[last(n)]] = n
  <2> DEFINE I == {i \in 1..Len(cs) : NameOf[cs[i]] = n}
  <2>1. I # {}
    BY <1>2 DEF Range
  <2>2. PICK i \in I : \A k \in I : k <= i
    BY <1>2, <2>1, LastPlace
  <2>3. i \in DOMAIN cs /\ NameOf[cs[i]] = n /\ \A k \in DOMAIN cs : NameOf[cs[k]] = n => k <= i
    BY <1>2, <2>2
  <2> QED
    BY <2>3
<1>4. names \subseteq Names
  BY <1>2 DEF Names
<1>5. \A n \in names : cs[last(n)] \in Range(cs)
  BY <1>3 DEF Range
<1>6. \A c \in Categories : c \notin Range(cs) => m_enabled'[c] = m_enabled[c]
  BY <1>1
<1>7. \A c \in Range(cs) : NameOf[c] \in names
  OBVIOUS
<1>8. ASSUME NEW n \in names
      PROVE  m_enabled'[cs[last(n)]] =
               (n \in DOMAIN unregistered /\ unregistered[n] /\ cs[last(n)] = cs[first(n)])
  <2>1. PICK c \in Range(cs) : c = cs[last(n)]
    BY <1>5
  <2>2. NameOf[c] = n /\ c \in Categories
    BY <1>2, <1>3, <2>1
  <2>3. takes(c) = (n \in DOMAIN unregistered /\ unregistered[n] /\ c = cs[first(n)])
    BY <2>2
  <2> HIDE DEF takes, first, last
  <2>4. m_enabled'[c] = takes(c)
    BY <1>1, <2>2
  <2> QED
    BY <2>1, <2>3, <2>4
<1>9. m_enabled' \in [Categories -> BOOLEAN]
  <2>1. \A c \in Categories : takes(c) \in BOOLEAN
    OBVIOUS
  <2> HIDE DEF takes
  <2> QED
    BY <1>1, <2>1 DEF LogInv, LogTypes
<1> HIDE DEF names, first, last, takes
<1>10. Resets' = Resets
  BY <1>1 DEF Resets
<1>11. LogTypes'
  <2>1. /\ DOMAIN categories' \subseteq Names
        /\ \A n \in DOMAIN categories' : categories'[n] \in Categories /\ NameOf[categories'[n]] = n
    BY <1>1, <1>2, <1>3, <1>4, <1>5 DEF LogInv, LogTypes
  <2>2. /\ DOMAIN unregistered' \subseteq Names \ DOMAIN categories'
        /\ \A n \in DOMAIN unregistered' : unregistered'[n] \in BOOLEAN
    BY <1>1 DEF LogInv, LogTypes
  <2> QED
    BY <1>1, <1>9, <2>1, <2>2 DEF LogInv, LogTypes
<1>12. ASSUME NEW n \in Names \ names
       PROVE  /\ Settled(n) => Settled(n)'
              /\ \A t \in Threads : ResetHolds(t, n) => ResetHolds(t, n)'
  <2>1. n \in DOMAIN categories' <=> n \in DOMAIN categories
    BY <1>1
  <2>2. n \in DOMAIN categories => categories'[n] = categories[n]
    BY <1>1
  <2>3. n \in DOMAIN categories => m_enabled'[categories[n]] = m_enabled[categories[n]]
    BY <1>6, <1>7 DEF LogInv, LogTypes
  <2>4. /\ n \in DOMAIN unregistered' <=> n \in DOMAIN unregistered
        /\ n \in DOMAIN unregistered => unregistered'[n] = unregistered[n]
    BY <1>1
  <2> QED
    BY <1>1, <2>1, <2>2, <2>3, <2>4 DEF Settled, ResetHolds, Known
<1>13. ASSUME ~Resets', NEW n \in Names \ astray'
       PROVE  Settled(n)'
  <2>1. n \notin astray /\ Settled(n)
    BY <1>1, <1>10, <1>13 DEF LogInv
  <2>2. CASE n \in names
    <3>1. n \notin DOMAIN categories /\ first(n) = last(n)
      BY <1>1, <1>13, <2>2
    <3>2. /\ categories'[n] = cs[last(n)] /\ n \in DOMAIN categories' /\ n \notin DOMAIN unregistered'
      BY <1>1, <2>2
    <3>3. m_enabled'[categories'[n]] = (n \in DOMAIN unregistered /\ unregistered[n])
      BY <1>8, <2>2, <3>1, <3>2
    <3>4. wish'[n] = wish[n] /\ wish[n] \in BOOLEAN /\ (n \in late' <=> n \in late) /\ all_enabled' = all_enabled
      BY <1>1, <1>13 DEF LogInv, LogTypes
    <3>5. CASE n \in DOMAIN unregistered
      BY <2>1, <3>1, <3>2, <3>3, <3>4, <3>5 DEF Settled, Known
    <3>6. CASE n \notin DOMAIN unregistered
      BY <2>1, <3>1, <3>2, <3>3, <3>4, <3>6 DEF Settled, Known
    <3> QED
      BY <3>5, <3>6
  <2> QED
    BY <1>12, <1>13, <2>1, <2>2
<1>14. ASSUME NEW t \in Threads, resetting'[t] # NoReset, NEW n \in Names \ astray'
       PROVE  ResetHolds(t, n)'
  <2>1. resetting[t] # NoReset /\ Resets
    BY <1>1, <1>14 DEF Resets
  <2>2. n \in Names \ names /\ n \in Names \ astray
    BY <1>1, <1>14, <2>1
  <2> QED
    BY <1>12, <2>1, <2>2 DEF LogInv
<1> QED
  BY <1>11, <1>13, <1>14 DEF LogInv

LEMMA StartResetKeeps ==
    ASSUME LogInv, NEW t \in Threads, NEW value \in BOOLEAN, StartReset(t, value)
    PROVE  LogInv'
<1> DEFINE r == [phase |-> "categories", value |-> value, seen |-> {}, first |-> DOMAIN categories]
<1>1. /\ resetting' = [resetting EXCEPT ![t] = r]
      /\ astray' = IF Resets THEN Names ELSE {}
      /\ UNCHANGED <<logger, categories, m_enabled, unregistered, all_enabled, wish, late>>
  BY DEF StartReset
<1>2. r \in Resetting /\ r # NoReset
  BY DEF LogInv, LogTypes, Resetting, NoReset
<1>3. r.phase = "categories" /\ r.seen = {} /\ r.first = DOMAIN categories
  OBVIOUS
<1> HIDE DEF r
<1>4. LogTypes'
  BY <1>1, <1>2 DEF LogInv, LogTypes
<1>5. Resets'
  BY <1>1, <1>2 DEF LogInv, LogTypes, Resets
<1>6. ASSUME NEW u \in Threads, resetting'[u] # NoReset, NEW n \in Names \ astray'
      PROVE  ResetHolds(u, n)'
  <2>1. \A v \in Threads : resetting[v] = NoReset
    BY <1>1, <1>6 DEF Resets
  <2>2. u = t /\ resetting'[t] = r /\ \A v \in Threads : resetting'[v] # NoReset => v = t
    BY <1>1, <1>6, <2>1 DEF LogInv, LogTypes
  <2> QED
    BY <1>1, <1>3, <2>2 DEF ResetHolds
<1> QED
  BY <1>4, <1>5, <1>6 DEF LogInv

\* The invariant while a reset() goes on: r becomes q.
LEMMA ResettingGoesOn ==
    ASSUME LogInv, LogTypes', NEW t \in Threads, resetting[t] # NoReset, NEW q \in Resetting,
           q # NoReset, resetting' = [resetting EXCEPT ![t] = q],
           UNCHANGED <<categories, astray>>, q.value = resetting[t].value, q.first = resetting[t].first,
           \A n \in Names : ResetHolds(t, n) =>
             /\ n \in DOMAIN categories /\ n \in q.seen => m_enabled'[categories[n]] = q.value
             /\ q.phase = "all" => /\ n \in DOMAIN categories => n \in q.seen
                                   /\ n \in DOMAIN unregistered' => unregistered'[n] = q.value
    PROVE  LogInv'
<1>1. resetting'[t] = q /\ Resets' /\ \A u \in Threads : u # t => resetting'[u] = resetting[u]
  BY DEF LogInv, LogTypes, Resets
<1>2. ASSUME NEW u \in Threads, resetting'[u] # NoReset, NEW n \in Names \ astray'
      PROVE  ResetHolds(u, n)'
  <2>1. ResetHolds(t, n)
    BY DEF LogInv
  <2>2. \A v \in Threads : resetting'[v] # NoReset => v = t
    BY <1>1, <2>1 DEF ResetHolds
  <2>3. u = t
    BY <1>2, <2>2
  <2> QED
    BY <1>1, <2>1, <2>2, <2>3 DEF ResetHolds
<1> QED
  BY <1>1, <1>2 DEF LogInv

LEMMA ResetStepKeeps ==
    ASSUME LogInv, NEW t \in Threads, ResetStep(t)
    PROVE  LogInv'
<1> DEFINE r == resetting[t]
<1>0. UNCHANGED <<logger, categories, astray>>
  BY DEF ResetStep
<1>1. r \in Resetting /\ (r.phase \in {"categories", "all"} =>
        /\ r # NoReset /\ r.value \in BOOLEAN /\ r.seen \subseteq Names /\ r.first \subseteq Names
        /\ r = [phase |-> r.phase, value |-> r.value, seen |-> r.seen, first |-> r.first])
  BY DEF LogInv, LogTypes, Resetting, NoReset
<1>2. CASE /\ r.phase = "categories"
           /\ \E n \in DOMAIN categories \ r.seen :
                /\ m_enabled' = [m_enabled EXCEPT ![categories[n]] = r.value]
                /\ resetting' = [resetting EXCEPT ![t].seen = @ \union {n}]
           /\ UNCHANGED <<unregistered, all_enabled, wish, late>>
  <2>1. PICK n \in DOMAIN categories \ r.seen :
                /\ m_enabled' = [m_enabled EXCEPT ![categories[n]] = r.value]
                /\ resetting' = [resetting EXCEPT ![t].seen = @ \union {n}]
    BY <1>2
  <2> DEFINE q == [phase |-> r.phase, value |-> r.value, seen |-> r.seen \union {n}, first |-> r.first]
  <2>2. resetting' = [resetting EXCEPT ![t] = q]
    BY <1>1, <1>2, <2>1
  <2>3. q \in Resetting /\ q # NoReset
    BY <1>1, <1>2, <2>1 DEF Resetting, NoReset, LogInv, LogTypes
  <2>4. q.phase = "categories" /\ q.value = r.value /\ q.seen = r.seen \union {n} /\ q.first = r.first
    BY <1>2
  <2> HIDE DEF q
  <2>5. LogTypes'
    <3>1. m_enabled' \in [Categories -> BOOLEAN]
      BY <1>1, <1>2, <2>1 DEF LogInv, LogTypes
    <3>2. resetting' \in [Threads -> Resetting]
      BY <2>2, <2>3 DEF LogInv, LogTypes
    <3> QED
      BY <1>0, <1>2, <3>1, <3>2 DEF LogInv, LogTypes
  <2>6. ASSUME NEW m \in Names, ResetHolds(t, m), m \in DOMAIN categories, m \in q.seen
        PROVE  m_enabled'[categories[m]] = q.value
    BY <1>1, <1>2, <2>1, <2>4, <2>6 DEF ResetHolds, LogInv, LogTypes
  <2> QED
    BY <1>0, <1>1, <1>2, <2>2, <2>3, <2>4, <2>5, <2>6, ResettingGoesOn
<1>3. CASE /\ r.phase = "categories" /\ r.first \subseteq r.seen
           /\ unregistered' = [n \in DOMAIN unregistered |-> r.value]
           /\ resetting' = [resetting EXCEPT ![t].phase = "all"]
           /\ UNCHANGED <<m_enabled, all_enabled, wish, late>>
  <2> DEFINE q == [phase |-> "all", value |-> r.value, seen |-> r.seen, first |-> r.first]
  <2>1. [r EXCEPT !.phase = "all"] = q
    BY <1>1, <1>3
  <2>2. resetting' = [resetting EXCEPT ![t] = q]
    BY <1>3, <2>1
  <2>3. q \in Resetting /\ q # NoReset
    BY <1>1, <1>3 DEF Resetting, NoReset
  <2>4. q.phase = "all" /\ q.value = r.value /\ q.seen = r.seen /\ q.first = r.first
    OBVIOUS
  <2> HIDE DEF q
  <2>5. LogTypes'
    <3>1. /\ DOMAIN unregistered' = DOMAIN unregistered
          /\ \A n \in DOMAIN unregistered' : unregistered'[n] \in BOOLEAN
      BY <1>1, <1>3
    <3>2. resetting' \in [Threads -> Resetting]
      BY <2>2, <2>3 DEF LogInv, LogTypes
    <3> QED
      BY <1>0, <1>3, <3>1, <3>2 DEF LogInv, LogTypes
  <2>6. ASSUME NEW m \in Names, ResetHolds(t, m)
        PROVE  /\ m \in DOMAIN categories => m \in q.seen
               /\ m \in DOMAIN categories => m_enabled'[categories[m]] = q.value
               /\ m \in DOMAIN unregistered' => unregistered'[m] = q.value
    BY <1>3, <2>4, <2>6 DEF ResetHolds
  <2>7. \A m \in Names : ResetHolds(t, m) =>
             /\ m \in DOMAIN categories /\ m \in q.seen => m_enabled'[categories[m]] = q.value
             /\ q.phase = "all" => /\ m \in DOMAIN categories => m \in q.seen
                                   /\ m \in DOMAIN unregistered' => unregistered'[m] = q.value
    BY <2>6
  <2>8. resetting[t] # NoReset /\ UNCHANGED <<categories, astray>>
    BY <1>0, <1>1, <1>3
  <2> QED
    BY <2>2, <2>3, <2>4, <2>5, <2>7, <2>8, ResettingGoesOn
<1>4. CASE /\ r.phase = "all"
           /\ all_enabled' = r.value
           /\ wish' = [n \in Names |-> r.value]
           /\ late' = IF r.value THEN Names \ Known ELSE {}
           /\ resetting' = [resetting EXCEPT ![t] = NoReset]
           /\ UNCHANGED <<m_enabled, unregistered>>
  <2>1. LogTypes'
    <3>1. resetting' \in [Threads -> Resetting] /\ wish' \in [Names -> BOOLEAN]
      BY <1>1, <1>4 DEF LogInv, LogTypes, Resetting
    <3> QED
      BY <1>0, <1>1, <1>4, <3>1 DEF LogInv, LogTypes
  <2>2. ASSUME NEW n \in Names \ astray'
        PROVE  ResetHolds(t, n)
    BY <1>0, <1>1, <1>4 DEF LogInv
  <2>3. ASSUME NEW n \in Names \ astray'
        PROVE  Settled(n)'
    <3>1. n \in DOMAIN categories => m_enabled[categories[n]] = r.value
      BY <1>4, <2>2 DEF ResetHolds
    <3>2. n \in DOMAIN unregistered => unregistered[n] = r.value
      BY <1>4, <2>2 DEF ResetHolds
    <3>3. n \in late' <=> r.value /\ n \notin Known
      BY <1>1, <1>4
    <3> QED
      BY <1>0, <1>1, <1>4, <3>1, <3>2, <3>3 DEF Settled, Known
  <2>4. ASSUME NEW u \in Threads, resetting'[u] # NoReset, NEW n \in Names \ astray'
        PROVE  FALSE
    BY <1>4, <2>2, <2>4 DEF ResetHolds, LogInv, LogTypes
  <2> QED
    BY <2>1, <2>3, <2>4 DEF LogInv
<1> QED
  BY <1>2, <1>3, <1>4 DEF ResetStep

LEMMA LogInvImplies == LogInv => SettingTakesEffect
<1> SUFFICES ASSUME LogInv, ~Resets, NEW n \in Names \ astray
             PROVE  /\ n \in DOMAIN categories /\ m_enabled[categories[n]] => wish[n]
                    /\ n \in DOMAIN categories \ late => m_enabled[categories[n]] = wish[n]
                    /\ wish[n] => Status(n)
                    /\ n \notin DOMAIN categories \/ ~all_enabled => Status(n) = wish[n]
  BY DEF SettingTakesEffect
<1>1. Settled(n) /\ wish[n] \in BOOLEAN /\ all_enabled \in BOOLEAN
      /\ (n \in DOMAIN categories => m_enabled[categories[n]] \in BOOLEAN)
  BY DEF LogInv, LogTypes
<1>2. CASE n \in DOMAIN categories
  BY <1>1, <1>2 DEF Settled, Status
<1>3. CASE n \notin DOMAIN categories
  BY <1>1, <1>3 DEF Settled, Status, Known
<1> QED
  BY <1>2, <1>3
=============================================================================
