---------------------------- MODULE Texts_proof ----------------------------
(***************************************************************************)
(* What the functions of core/StringUtil.h make of any text: split() and   *)
(* join(), strip(), parse_pairs(), string_to_integer() and what            *)
(* integer_to_string() writes.  Nothing here depends on the tokenizer but  *)
(* for the texts of its tokens.                                            *)
(***************************************************************************)
EXTENDS Scanners, SequenceTheorems, FiniteSetTheorems, WellFoundedInduction, TLAPS

-----------------------------------------------------------------------------
(* Induction.  The library states it for predicates, which the provers do  *)
(* not instantiate; for sets it follows from the least element each set of *)
(* naturals has.                                                           *)

\* A set of naturals that is not empty has a least element.
LEMMA LeastNatural ==
    ASSUME NEW S, S \subseteq Nat, S # {}
    PROVE  \E least \in S : \A n \in S : least <= n
<1> DEFINE R == {ss \in Nat \X Nat : ss[1] < ss[2]}
<1>1. IsWellFoundedOn(R, Nat)
  BY NatLessThanWellFounded, Zenon DEF OpToRel
<1>2. \A x, y \in Nat : y < x => <<y, x>> \in R
  OBVIOUS
<1> HIDE DEF R
<1>3. PICK x \in S : \A y \in S : ~(<<y, x>> \in R)
  BY <1>1, WFMin, Zenon
<1>4. ASSUME NEW y \in S
      PROVE  x <= y
  <2>1. x \in Nat /\ y \in Nat
    OBVIOUS
  <2>2. ~(y < x)
    BY <1>2, <1>3, <2>1, Zenon
  <2> QED
    BY <2>1, <2>2
<1> QED
  BY <1>4

\* Induction over the naturals: the set of those that have the property.
LEMMA SetInduction ==
    ASSUME NEW S, 0 \in S, \A n \in Nat : n \in S => n + 1 \in S
    PROVE  Nat \subseteq S
<1> SUFFICES ASSUME ~(Nat \subseteq S) PROVE FALSE
  OBVIOUS
<1> DEFINE T == Nat \ S
<1>1. T \subseteq Nat /\ T # {}
  OBVIOUS
<1>2. PICK least \in T : \A n \in T : least <= n
  <2> HIDE DEF T
  <2> QED
    BY <1>1, LeastNatural
<1>3. least \in Nat \ {0}
  OBVIOUS
<1>4. least - 1 \in Nat /\ least - 1 \notin T /\ (least - 1) + 1 = least
  BY <1>2, <1>3
<1> QED
  BY <1>4

\* All sequences are made from the empty one.
LEMMA SequencesInduction ==
    ASSUME NEW X, NEW S, <<>> \in S,
           \A s \in Seq(X), x \in X : s \in S => Append(s, x) \in S
    PROVE  Seq(X) \subseteq S
<1> DEFINE T == {n \in Nat : \A s \in Seq(X) : Len(s) = n => s \in S}
<1>1. 0 \in T
  <2>1. \A s \in Seq(X) : Len(s) = 0 => s = <<>>
    BY EmptySeq
  <2> QED
    BY <2>1
<1>2. ASSUME NEW n \in Nat, n \in T
      PROVE  n + 1 \in T
  <2> SUFFICES ASSUME NEW s \in Seq(X), Len(s) = n + 1
               PROVE  s \in S
    OBVIOUS
  <2>1. s # <<>>
    BY EmptySeq
  <2>2. PICK front \in Seq(X), last \in X : s = Append(front, last)
    <3> DEFINE front == SubSeq(s, 1, n)
               last == s[n + 1]
    <3>1. last \in X
      BY ElementOfSeq
    <3>2. front \in Seq(X) /\ Len(front) = n /\ \A i \in 1..n : front[i] = s[i]
      BY ElementOfSeq, SubSeqProperties
    <3> HIDE DEF front, last
    <3>3. /\ Append(front, last) \in Seq(X) /\ Len(Append(front, last)) = n + 1
          /\ \A i \in 1..n : Append(front, last)[i] = front[i]
          /\ Append(front, last)[n + 1] = last
      BY <3>1, <3>2, AppendProperties
    <3>4. \A i \in 1..n + 1 : Append(front, last)[i] = s[i]
      <4>1. \A i \in 1..n + 1 : i \in 1..n \/ i = n + 1
        OBVIOUS
      <4> QED
        BY <3>2, <3>3, <4>1 DEF last
    <3>5. s = Append(front, last)
      BY <3>3, <3>4, SeqEqual
    <3> QED
      BY <3>1, <3>2, <3>5
  <2>3. Len(front) = n
    <3>1. Len(s) = Len(front) + 1 /\ Len(front) \in Nat
      BY <2>2, AppendProperties, LenProperties
    <3> QED
      BY <3>1
  <2> QED
    BY <1>2, <2>2, <2>3
<1> HIDE DEF T
<1>3. Nat \subseteq T
  BY <1>1, <1>2, SetInduction
<1>4. \A s \in Seq(X) : Len(s) \in T
  BY <1>3, LenProperties
<1> QED
  BY <1>4 DEF T

-----------------------------------------------------------------------------
(* Texts: split() and join().                                              *)

\* pieces is what Split computes for s, up to n.
SplitStep(pieces, s, sep, i) ==
    IF i = 0 THEN <<(<<>>)>>
    ELSE IF s[i] = sep THEN Append(pieces[i - 1], <<>>)
    ELSE [pieces[i - 1] EXCEPT ![Len(pieces[i - 1])] = Append(@, s[i])]

Splits(pieces, s, sep, n) == pieces = [i \in 0..n |-> SplitStep(pieces, s, sep, i)]

\* What such a function is at each position of the text.
LEMMA SplitsIs ==
    ASSUME NEW pieces, NEW s, NEW sep, NEW n \in Nat, Splits(pieces, s, sep, n), NEW i \in 0..n
    PROVE  pieces[i] = SplitStep(pieces, s, sep, i)
<1>1. [j \in 0..n |-> SplitStep(pieces, s, sep, j)][i] = SplitStep(pieces, s, sep, i)
  OBVIOUS
<1> QED
  BY <1>1, Zenon DEF Splits

\* There is such a function for every text.
LEMMA SplitIsComputed ==
    ASSUME NEW s, NEW sep, NEW n \in Nat
    PROVE  \E pieces : Splits(pieces, s, sep, n)
<1> DEFINE T == {m \in Nat : \E pieces : Splits(pieces, s, sep, m)}
<1>1. 0 \in T
  <2> DEFINE pieces == [i \in 0..0 |-> <<(<<>>)>>]
  <2>1. \A i \in 0..0 : SplitStep(pieces, s, sep, i) = <<(<<>>)>>
    BY DEF SplitStep
  <2>2. pieces = [i \in 0..0 |-> SplitStep(pieces, s, sep, i)]
    BY <2>1, Zenon
  <2> HIDE DEF pieces
  <2>3. Splits(pieces, s, sep, 0)
    BY <2>2 DEF Splits
  <2> QED
    BY <2>3
<1>2. ASSUME NEW m \in Nat, m \in T
      PROVE  m + 1 \in T
  <2>1. PICK pieces : Splits(pieces, s, sep, m)
    BY <1>2
  <2> DEFINE last == SplitStep(pieces, s, sep, m + 1)
             more == [i \in 0..m + 1 |-> IF i <= m THEN pieces[i] ELSE last]
  <2> HIDE DEF last
  <2>2. /\ \A i \in 0..m : more[i] = pieces[i]
        /\ more[m + 1] = last
        /\ more = [i \in 0..m + 1 |-> more[i]]
    OBVIOUS
  <2> HIDE DEF more
  <2>3. ASSUME NEW i \in 0..m + 1
        PROVE  more[i] = SplitStep(more, s, sep, i)
    <3>1. i = 0 \/ (i # 0 /\ i - 1 \in 0..m)
      OBVIOUS
    <3>2. i = 0 \/ more[i - 1] = pieces[i - 1]
      BY <2>2, <3>1
    <3>3. SplitStep(more, s, sep, i) = SplitStep(pieces, s, sep, i)
      BY <3>2, Zenon DEF SplitStep
    <3>4. i \in 0..m \/ i = m + 1
      OBVIOUS
    <3>5. CASE i \in 0..m
      <4>1. pieces[i] = SplitStep(pieces, s, sep, i)
        BY <2>1, <3>5, SplitsIs, Zenon
      <4> QED
        BY <2>2, <3>3, <3>5, <4>1, Zenon
    <3>6. CASE i = m + 1
      BY <2>2, <3>3, <3>6, Zenon DEF last
    <3> QED
      BY <3>4, <3>5, <3>6
  <2>4. Splits(more, s, sep, m + 1)
    BY <2>2, <2>3, Zenon DEF Splits
  <2> QED
    BY <2>4
<1> HIDE DEF T
<1>3. n \in T
  BY <1>1, <1>2, SetInduction
<1> QED
  BY <1>3 DEF T

\* Split is the last value of such a function.
LEMMA SplitIs ==
    ASSUME NEW s, NEW sep, Len(s) \in Nat
    PROVE  \E pieces : Splits(pieces, s, sep, Len(s)) /\ Split(s, sep) = pieces[Len(s)]
<1> DEFINE pieces == CHOOSE p : Splits(p, s, sep, Len(s))
<1>1. Split(s, sep) = pieces[Len(s)]
  BY DEF Split, Splits, SplitStep
<1>2. Splits(pieces, s, sep, Len(s))
  <2>1. \E p : Splits(p, s, sep, Len(s))
    BY SplitIsComputed
  <2> QED
    BY <2>1, Zenon
<1> QED
  BY <1>1, <1>2

\* joined is what Join computes for ps, up to n.
JoinStep(joined, ps, sep, i) ==
    IF i = 0 THEN <<>>
    ELSE IF i = 1 THEN ps[1]
    ELSE joined[i - 1] \o <<sep>> \o ps[i]

Joins(joined, ps, sep, n) == joined = [i \in 0..n |-> JoinStep(joined, ps, sep, i)]

\* What such a function is at each piece.
LEMMA JoinsIs ==
    ASSUME NEW joined, NEW ps, NEW sep, NEW n \in Nat, Joins(joined, ps, sep, n), NEW i \in 0..n
    PROVE  joined[i] = JoinStep(joined, ps, sep, i)
<1>1. [j \in 0..n |-> JoinStep(joined, ps, sep, j)][i] = JoinStep(joined, ps, sep, i)
  OBVIOUS
<1> QED
  BY <1>1, Zenon DEF Joins

\* There is such a function for every sequence of pieces.
LEMMA JoinIsComputed ==
    ASSUME NEW ps, NEW sep, NEW n \in Nat
    PROVE  \E joined : Joins(joined, ps, sep, n)
<1> DEFINE T == {m \in Nat : \E joined : Joins(joined, ps, sep, m)}
<1>1. 0 \in T
  <2> DEFINE joined == [i \in 0..0 |-> <<>>]
  <2>1. \A i \in 0..0 : JoinStep(joined, ps, sep, i) = <<>>
    BY DEF JoinStep
  <2>2. joined = [i \in 0..0 |-> JoinStep(joined, ps, sep, i)]
    BY <2>1, Zenon
  <2> HIDE DEF joined
  <2>3. Joins(joined, ps, sep, 0)
    BY <2>2 DEF Joins
  <2> QED
    BY <2>3
<1>2. ASSUME NEW m \in Nat, m \in T
      PROVE  m + 1 \in T
  <2>1. PICK joined : Joins(joined, ps, sep, m)
    BY <1>2
  <2> DEFINE last == JoinStep(joined, ps, sep, m + 1)
             more == [i \in 0..m + 1 |-> IF i <= m THEN joined[i] ELSE last]
  <2> HIDE DEF last
  <2>2. /\ \A i \in 0..m : more[i] = joined[i]
        /\ more[m + 1] = last
        /\ more = [i \in 0..m + 1 |-> more[i]]
    OBVIOUS
  <2> HIDE DEF more
  <2>3. ASSUME NEW i \in 0..m + 1
        PROVE  more[i] = JoinStep(more, ps, sep, i)
    <3>1. i = 0 \/ (i # 0 /\ i - 1 \in 0..m)
      OBVIOUS
    <3>2. i = 0 \/ more[i - 1] = joined[i - 1]
      BY <2>2, <3>1
    <3>3. JoinStep(more, ps, sep, i) = JoinStep(joined, ps, sep, i)
      BY <3>2, Zenon DEF JoinStep
    <3>4. i \in 0..m \/ i = m + 1
      OBVIOUS
    <3>5. CASE i \in 0..m
      <4>1. joined[i] = JoinStep(joined, ps, sep, i)
        BY <2>1, <3>5, JoinsIs, Zenon
      <4> QED
        BY <2>2, <3>3, <3>5, <4>1, Zenon
    <3>6. CASE i = m + 1
      BY <2>2, <3>3, <3>6, Zenon DEF last
    <3> QED
      BY <3>4, <3>5, <3>6
  <2>4. Joins(more, ps, sep, m + 1)
    BY <2>2, <2>3, Zenon DEF Joins
  <2> QED
    BY <2>4
<1> HIDE DEF T
<1>3. n \in T
  BY <1>1, <1>2, SetInduction
<1> QED
  BY <1>3 DEF T

SameUpTo(ps, qs, n) == \A i \in 1..n : ps[i] = qs[i]

\* Pieces that agree up to n make the same text up to n.
LEMMA JoinedOnce ==
    ASSUME NEW ps, NEW qs, NEW sep, NEW n \in Nat, NEW m \in Nat, n <= m, SameUpTo(ps, qs, n),
           NEW f, NEW g, Joins(f, ps, sep, n), Joins(g, qs, sep, m)
    PROVE  f[n] = g[n]
<1> DEFINE T == {i \in Nat : i <= n => f[i] = g[i]}
<1>0. ASSUME NEW i \in Nat, i <= n
      PROVE  f[i] = JoinStep(f, ps, sep, i) /\ g[i] = JoinStep(g, qs, sep, i)
  <2>1. i \in 0..n /\ i \in 0..m
    BY <1>0
  <2> QED
    BY <2>1, JoinsIs, Zenon
<1>1. 0 \in T
  BY <1>0 DEF JoinStep
<1>2. ASSUME NEW i \in Nat, i \in T
      PROVE  i + 1 \in T
  <2> SUFFICES ASSUME i + 1 <= n
               PROVE  f[i + 1] = g[i + 1]
    OBVIOUS
  <2> DEFINE k == i + 1
  <2>1. k \in Nat /\ k <= n /\ k - 1 = i /\ 1 \in 1..n /\ k \in 1..n /\ k # 0
    OBVIOUS
  <2>2. f[i] = g[i]
    BY <1>2
  <2> HIDE DEF k
  <2>3. ps[1] = qs[1] /\ ps[k] = qs[k]
    BY <2>1 DEF SameUpTo
  <2>4. f[k] = JoinStep(f, ps, sep, k) /\ g[k] = JoinStep(g, qs, sep, k)
    BY <1>0, <2>1
  <2>5. JoinStep(f, ps, sep, k) = JoinStep(g, qs, sep, k)
    BY <2>1, <2>2, <2>3 DEF JoinStep
  <2>6. f[k] = g[k]
    BY <2>4, <2>5
  <2> QED
    BY <2>6 DEF k
<1> HIDE DEF T
<1>3. n \in T
  BY <1>1, <1>2, SetInduction
<1> QED
  BY <1>3 DEF T

\* Join is the last value of such a function.
LEMMA JoinIs ==
    ASSUME NEW ps, NEW sep, Len(ps) \in Nat
    PROVE  \E joined : Joins(joined, ps, sep, Len(ps)) /\ Join(ps, sep) = joined[Len(ps)]
<1> DEFINE joined == CHOOSE p : Joins(p, ps, sep, Len(ps))
<1>1. Join(ps, sep) = joined[Len(ps)]
  BY DEF Join, Joins, JoinStep
<1>2. Joins(joined, ps, sep, Len(ps))
  <2>1. \E p : Joins(p, ps, sep, Len(ps))
    BY JoinIsComputed
  <2> QED
    BY <2>1, Zenon
<1> QED
  BY <1>1, <1>2

\* One piece more.
LEMMA JoinGrows ==
    ASSUME NEW S, NEW ps \in Seq(S), NEW x \in S, NEW sep
    PROVE  Join(Append(ps, x), sep) =
              IF ps = <<>> THEN x ELSE Join(ps, sep) \o <<sep>> \o x
<1> DEFINE qs == Append(ps, x)
           n == Len(ps)
           k == n + 1
<1>1. /\ n \in Nat /\ Len(qs) = k /\ qs[k] = x /\ \A i \in 1..n : ps[i] = qs[i]
  BY AppendProperties, LenProperties
<1>2. /\ k \in Nat /\ n <= k /\ k \in 0..k /\ k # 0 /\ k - 1 = n /\ n \in 0..n
      /\ k = 1 <=> n = 0
  BY <1>1
<1>3. n = 0 <=> ps = <<>>
  BY EmptySeq
<1> HIDE DEF qs
<1>4. PICK f : Joins(f, ps, sep, n) /\ Join(ps, sep) = f[n]
  BY <1>1, JoinIs
<1> HIDE DEF n, k
<1>5. PICK g : Joins(g, qs, sep, k) /\ Join(qs, sep) = g[k]
  <2>1. Len(qs) \in Nat
    BY <1>1, <1>2
  <2>2. \E g : Joins(g, qs, sep, Len(qs)) /\ Join(qs, sep) = g[Len(qs)]
    BY <2>1, JoinIs, Zenon
  <2> QED
    BY <1>1, <2>2
<1>6. SameUpTo(ps, qs, n)
  BY <1>1 DEF SameUpTo
<1>7. f[n] = g[n]
  BY <1>1, <1>2, <1>4, <1>5, <1>6, JoinedOnce
<1>8. g[k] = JoinStep(g, qs, sep, k)
  BY <1>2, <1>5, JoinsIs
<1>9. JoinStep(g, qs, sep, k) = IF k = 1 THEN qs[1] ELSE g[k - 1] \o <<sep>> \o qs[k]
  BY <1>2, Zenon DEF JoinStep
<1>10. CASE ps = <<>>
  <2>1. k = 1
    BY <1>2, <1>3, <1>10
  <2>2. g[k] = qs[k]
    BY <1>8, <1>9, <2>1
  <2> QED
    BY <1>1, <1>5, <1>10, <2>2 DEF qs
<1>11. CASE ps # <<>>
  <2>1. k # 1
    BY <1>2, <1>3, <1>11
  <2>2. g[k] = g[n] \o <<sep>> \o x
    BY <1>1, <1>2, <1>8, <1>9, <2>1
  <2> QED
    BY <1>4, <1>5, <1>7, <1>11, <2>2 DEF qs
<1> QED
  BY <1>10, <1>11

\* No piece, and one.
LEMMA JoinOfFew ==
    ASSUME NEW S, NEW x \in S, NEW sep
    PROVE  Join(<<>>, sep) = <<>> /\ Join(<<x>>, sep) = x
<1>1. Len(<<>>) = 0 /\ 0 \in 0..0 /\ 0 \in Nat
  OBVIOUS
<1>2. PICK f : Joins(f, <<>>, sep, 0) /\ Join(<<>>, sep) = f[0]
  <2>1. \E f : Joins(f, <<>>, sep, Len(<<>>)) /\ Join(<<>>, sep) = f[Len(<<>>)]
    BY <1>1, JoinIs
  <2> QED
    BY <1>1, <2>1
<1>3. f[0] = JoinStep(f, <<>>, sep, 0)
  BY <1>1, <1>2, JoinsIs, Zenon
<1>4. f[0] = <<>>
  BY <1>3 DEF JoinStep
<1>5. <<>> \in Seq(S) /\ <<x>> = Append(<<>>, x)
  BY EmptySeq
<1>6. Join(Append(<<>>, x), sep) = x
  BY <1>5, JoinGrows
<1> QED
  BY <1>2, <1>4, <1>5, <1>6

\* The text that pieces make.
LEMMA JoinIsText ==
    ASSUME NEW X, NEW sep \in X, NEW ps \in Seq(Seq(X))
    PROVE  Join(ps, sep) \in Seq(X)
<1> DEFINE T == {qs \in Seq(Seq(X)) : Join(qs, sep) \in Seq(X)}
<1>0. <<>> \in Seq(X) /\ <<>> \in Seq(Seq(X)) /\ <<sep>> \in Seq(X)
  BY EmptySeq
<1>1. <<>> \in T
  BY <1>0, JoinOfFew
<1>2. ASSUME NEW qs \in Seq(Seq(X)), NEW x \in Seq(X), qs \in T
      PROVE  Append(qs, x) \in T
  <2>1. Append(qs, x) \in Seq(Seq(X))
    BY AppendProperties
  <2>2. Join(qs, sep) \in Seq(X)
    BY <1>2
  <2>3. Join(qs, sep) \o <<sep>> \o x \in Seq(X)
    BY <1>0, <2>2, ConcatProperties
  <2>4. Join(Append(qs, x), sep) \in Seq(X)
    BY <2>3, JoinGrows
  <2> QED
    BY <2>1, <2>4
<1> HIDE DEF T
<1>3. ps \in T
  BY <1>1, <1>2, SequencesInduction
<1> QED
  BY <1>3 DEF T

\* The tail of a sequence that is one element longer.
LEMMA TailGrows ==
    ASSUME NEW S, NEW s \in Seq(S), NEW x \in S, s # <<>>
    PROVE  /\ Tail(Append(s, x)) = Append(Tail(s), x)
           /\ Append(s, x)[1] = s[1]
           /\ Tail(s) \in Seq(S)
           /\ Tail(s) = <<>> <=> Len(s) = 1
<1> DEFINE n == Len(s)
           a == Append(s, x)
           u == Tail(a)
           v == Append(Tail(s), x)
<1>1. n \in Nat \ {0}
  BY EmptySeq, LenProperties
<1>2. a \in Seq(S) /\ Len(a) = n + 1 /\ a[n + 1] = x /\ \A i \in 1..n : a[i] = s[i]
  BY AppendProperties
<1>3. /\ Tail(s) \in Seq(S) /\ Len(Tail(s)) = n - 1
      /\ \A i \in 1..n - 1 : Tail(s)[i] = s[i + 1]
  BY HeadTailProperties
<1>4. a # <<>>
  BY <1>1, <1>2, EmptySeq
<1> HIDE DEF a
<1>5. u \in Seq(S) /\ Len(u) = n /\ \A i \in 1..n : u[i] = a[i + 1]
  BY <1>1, <1>2, <1>4, HeadTailProperties
<1>6. v \in Seq(S) /\ Len(v) = n /\ v[n] = x /\ \A i \in 1..n - 1 : v[i] = Tail(s)[i]
  BY <1>1, <1>3, AppendProperties
<1> HIDE DEF u, v
<1>7. ASSUME NEW i \in 1..n
      PROVE  u[i] = v[i]
  <2>1. CASE i = n
    BY <1>2, <1>5, <1>6, <2>1
  <2>2. CASE i # n
    <3>1. i \in 1..n - 1 /\ i + 1 \in 1..n
      BY <2>2
    <3> QED
      BY <1>2, <1>3, <1>5, <1>6, <3>1
  <2> QED
    BY <2>1, <2>2
<1>8. u = v
  BY <1>5, <1>6, <1>7, SeqEqual
<1>9. Tail(s) = <<>> <=> n - 1 = 0
  BY <1>3, EmptySeq
<1>10. 1 \in 1..n
  BY <1>1
<1> QED
  BY <1>1, <1>2, <1>3, <1>8, <1>9, <1>10 DEF u, v, a

\* The first piece, and what the others make.
LEMMA JoinFirst ==
    ASSUME NEW X, NEW sep \in X, NEW ps \in Seq(Seq(X)), ps # <<>>
    PROVE  Join(ps, sep) = IF Len(ps) = 1 THEN ps[1]
                           ELSE ps[1] \o <<sep>> \o Join(Tail(ps), sep)
<1> DEFINE FromFirst(qs) == IF Len(qs) = 1 THEN qs[1] ELSE qs[1] \o <<sep>> \o Join(Tail(qs), sep)
           T == {qs \in Seq(Seq(X)) : qs # <<>> => Join(qs, sep) = FromFirst(qs)}
<1>0. <<>> \in Seq(X) /\ <<>> \in Seq(Seq(X)) /\ <<sep>> \in Seq(X)
  BY EmptySeq
<1>1. <<>> \in T
  BY <1>0
<1>2. ASSUME NEW qs \in Seq(Seq(X)), NEW x \in Seq(X), qs \in T
      PROVE  Append(qs, x) \in T
  <2> DEFINE rs == Append(qs, x)
  <2>1. rs \in Seq(Seq(X)) /\ Len(rs) = Len(qs) + 1 /\ Len(qs) \in Nat /\ rs[Len(qs) + 1] = x
    BY AppendProperties, LenProperties
  <2>2. Join(rs, sep) = IF qs = <<>> THEN x ELSE Join(qs, sep) \o <<sep>> \o x
    BY JoinGrows
  <2>3. CASE qs = <<>>
    <3>1. Len(rs) = 1 /\ rs[1] = x
      BY <2>1, <2>3, EmptySeq
    <3>2. Join(rs, sep) = FromFirst(rs)
      BY <2>2, <2>3, <3>1
    <3> QED
      BY <2>1, <3>2
  <2>4. CASE qs # <<>>
    <3>1. /\ Tail(rs) = Append(Tail(qs), x) /\ rs[1] = qs[1]
          /\ Tail(qs) \in Seq(Seq(X))
          /\ Tail(qs) = <<>> <=> Len(qs) = 1
      BY <2>4, TailGrows
    <3>2. Len(rs) # 1 /\ Len(qs) # 0
      BY <2>1, <2>4, EmptySeq
    <3>3. Join(qs, sep) = FromFirst(qs)
      BY <1>2, <2>4
    <3>4. Join(Tail(rs), sep) =
             IF Tail(qs) = <<>> THEN x ELSE Join(Tail(qs), sep) \o <<sep>> \o x
      <4>1. Join(Append(Tail(qs), x), sep) =
               IF Tail(qs) = <<>> THEN x ELSE Join(Tail(qs), sep) \o <<sep>> \o x
        <5> DEFINE ts == Tail(qs)
        <5>1. ts \in Seq(Seq(X))
          BY <3>1
        <5> HIDE DEF ts
        <5>2. Join(Append(ts, x), sep) = IF ts = <<>> THEN x ELSE Join(ts, sep) \o <<sep>> \o x
          BY <5>1, JoinGrows
        <5> QED
          BY <5>2 DEF ts
      <4> QED
        BY <3>1, <4>1
    <3> HIDE DEF rs
    <3>5. CASE Len(qs) = 1
      <4>1. Join(qs, sep) = qs[1] /\ Join(Tail(rs), sep) = x
        BY <3>1, <3>3, <3>4, <3>5
      <4>2. Join(rs, sep) = qs[1] \o <<sep>> \o x
        BY <2>2, <2>4, <4>1
      <4>3. FromFirst(rs) = qs[1] \o <<sep>> \o x
        BY <3>1, <3>2, <4>1
      <4> HIDE DEF FromFirst
      <4>4. Join(rs, sep) = FromFirst(rs)
        BY <4>2, <4>3
      <4> QED
        BY <2>1, <4>4 DEF rs
    <3>6. CASE Len(qs) # 1
      <4> DEFINE a == qs[1]
                 b == <<sep>>
                 c == Join(Tail(qs), sep)
      <4>1. Join(rs, sep) = ((a \o b) \o c) \o b \o x
        BY <2>2, <2>4, <3>3, <3>6
      <4>2. FromFirst(rs) = (a \o b) \o (c \o b \o x)
        BY <3>1, <3>2, <3>4, <3>6
      <4>3. a \in Seq(X) /\ b \in Seq(X) /\ c \in Seq(X) /\ x \in Seq(X)
        <5>1. a \in Seq(X)
          BY <2>1, <3>2, ElementOfSeq
        <5>2. c \in Seq(X)
          BY <3>1, JoinIsText
        <5> QED
          BY <1>0, <5>1, <5>2
      <4>4. \A d, e, f \in Seq(X) : (d \o e) \o f = d \o (e \o f)
        BY ConcatAssociative, SMTT(30)
      <4> HIDE DEF a, b, c, FromFirst
      <4>5. a \o b \in Seq(X) /\ b \o x \in Seq(X) /\ c \o b \in Seq(X) /\ (a \o b) \o c \in Seq(X)
        BY <4>3, ConcatProperties
      <4>6. (((a \o b) \o c) \o b) \o x = (a \o b) \o ((c \o b) \o x)
        <5> DEFINE d == a \o b
        <5>1. d \in Seq(X)
          BY <4>5
        <5> HIDE DEF d
        <5>2. (d \o c) \o b = d \o (c \o b)
          BY <4>3, <4>4, <5>1, Zenon
        <5>3. (d \o (c \o b)) \o x = d \o ((c \o b) \o x)
          <6> DEFINE e == c \o b
          <6>1. e \in Seq(X) /\ x \in Seq(X)
            BY <4>5
          <6> HIDE DEF e
          <6>2. (d \o e) \o x = d \o (e \o x)
            BY <4>4, <5>1, <6>1, Zenon
          <6> QED
            BY <6>2 DEF e
        <5>4. ((d \o c) \o b) \o x = d \o ((c \o b) \o x)
          BY <5>2, <5>3
        <5> QED
          BY <5>4 DEF d
      <4>7. Join(rs, sep) = FromFirst(rs)
        BY <4>1, <4>2, <4>6, Zenon
      <4> QED
        BY <2>1, <4>7 DEF rs
    <3> QED
      BY <3>5, <3>6
  <2> QED
    BY <2>3, <2>4
<1> HIDE DEF T
<1>3. ps \in T
  BY <1>1, <1>2, SequencesInduction
<1> QED
  BY <1>3 DEF T

\* The last piece is one character longer.
Extended(ps, ch) == [ps EXCEPT ![Len(ps)] = Append(@, ch)]

\* A sequence that is not empty is its front and its last element.
LEMMA FrontAndLast ==
    ASSUME NEW S, NEW s \in Seq(S), s # <<>>
    PROVE  \E front \in Seq(S), last \in S : s = Append(front, last)
<1> DEFINE T == {t \in Seq(S) : t # <<>> => \E front \in Seq(S), last \in S : t = Append(front, last)}
<1>1. <<>> \in T
  BY EmptySeq
<1>2. ASSUME NEW t \in Seq(S), NEW x \in S, t \in T
      PROVE  Append(t, x) \in T
  BY AppendProperties
<1> HIDE DEF T
<1>3. s \in T
  BY <1>1, <1>2, SequencesInduction
<1> QED
  BY <1>3 DEF T

\* So of pieces as their front and their last one.
LEMMA ExtendedIs ==
    ASSUME NEW X, NEW front \in Seq(Seq(X)), NEW last \in Seq(X), NEW ch \in X
    PROVE  Extended(Append(front, last), ch) = Append(front, Append(last, ch))
<1> DEFINE n == Len(front)
           a == Append(front, last)
           e == Extended(a, ch)
           b == Append(front, Append(last, ch))
<1>1. n \in Nat /\ Append(last, ch) \in Seq(X)
  BY AppendProperties, LenProperties
<1>2. /\ a \in Seq(Seq(X)) /\ Len(a) = n + 1 /\ a[n + 1] = last
      /\ \A i \in 1..n : a[i] = front[i]
  BY AppendProperties
<1>3. /\ b \in Seq(Seq(X)) /\ Len(b) = n + 1 /\ b[n + 1] = Append(last, ch)
      /\ \A i \in 1..n : b[i] = front[i]
  BY <1>1, AppendProperties
<1> HIDE DEF a, b
<1>4. DOMAIN a = 1..n + 1 /\ DOMAIN b = 1..n + 1
  BY <1>1, <1>2, <1>3, LenProperties
<1>5. /\ DOMAIN e = 1..n + 1
      /\ e[n + 1] = Append(last, ch)
      /\ \A i \in 1..n : e[i] = a[i]
      /\ e = [i \in 1..n + 1 |-> e[i]]
  <2> DEFINE l == Append(last, ch)
             k == n + 1
  <2>1. e = [i \in 1..k |-> IF i = k THEN l ELSE a[i]]
    <3>1. e = [a EXCEPT ![k] = Append(a[k], ch)]
      BY <1>2, Zenon DEF Extended
    <3> QED
      BY <1>2, <1>4, <3>1
  <2>2. k \in 1..k /\ \A i \in 1..n : i \in 1..k /\ i # k
    BY <1>1
  <2> HIDE DEF e, l, k
  <2>3. DOMAIN e = 1..k /\ e[k] = l /\ (\A i \in 1..n : e[i] = a[i]) /\ e = [i \in 1..k |-> e[i]]
    BY <2>1, <2>2
  <2> QED
    BY <2>3 DEF k, l
<1>6. b = [i \in 1..n + 1 |-> b[i]]
  BY <1>3, <1>4
<1> HIDE DEF e
<1>7. ASSUME NEW i \in 1..n + 1
      PROVE  e[i] = b[i]
  <2>1. i \in 1..n \/ i = n + 1
    BY <1>1
  <2> QED
    BY <1>2, <1>3, <1>5, <2>1
<1>8. e = b
  BY <1>5, <1>6, <1>7, Zenon
<1> QED
  BY <1>8 DEF e, a, b

\* What the pieces make grows with the last one.
LEMMA JoinExtends ==
    ASSUME NEW X, NEW sep \in X, NEW ps \in Seq(Seq(X)), ps # <<>>, NEW ch \in X
    PROVE  /\ Extended(ps, ch) \in Seq(Seq(X))
           /\ Extended(ps, ch) # <<>>
           /\ Join(Extended(ps, ch), sep) = Append(Join(ps, sep), ch)
<1>1. PICK front \in Seq(Seq(X)), last \in Seq(X) : ps = Append(front, last)
  BY FrontAndLast
<1> DEFINE more == Append(last, ch)
<1>2. more \in Seq(X) /\ <<ch>> \in Seq(X) /\ <<sep>> \in Seq(X) /\ more = last \o <<ch>>
  BY AppendProperties, AppendIsConcat
<1> HIDE DEF more
<1>3. Extended(ps, ch) = Append(front, more)
  BY <1>1, ExtendedIs DEF more
<1>4. Append(front, more) \in Seq(Seq(X)) /\ Append(front, more) # <<>>
  BY <1>2, AppendProperties
<1>5. Join(ps, sep) = IF front = <<>> THEN last ELSE Join(front, sep) \o <<sep>> \o last
  BY <1>1, JoinGrows
<1>6. Join(Append(front, more), sep) = IF front = <<>> THEN more ELSE Join(front, sep) \o <<sep>> \o more
  <2>1. \A x \in Seq(X) : Join(Append(front, x), sep) =
                              IF front = <<>> THEN x ELSE Join(front, sep) \o <<sep>> \o x
    BY JoinGrows
  <2> QED
    BY <1>2, <2>1, Zenon
<1>7. CASE front = <<>>
  BY <1>3, <1>4, <1>5, <1>6, <1>7 DEF more
<1>8. CASE front # <<>>
  <2> DEFINE a == Join(front, sep) \o <<sep>>
  <2>1. a \in Seq(X)
    BY <1>2, JoinIsText, ConcatProperties
  <2>2. Join(ps, sep) = a \o last /\ Join(Append(front, more), sep) = a \o more
    BY <1>5, <1>6, <1>8
  <2> HIDE DEF a
  <2>3. a \o last \in Seq(X)
    BY <2>1, ConcatProperties
  <2>4. Append(a \o last, ch) = (a \o last) \o <<ch>>
    BY <2>3, AppendIsConcat
  <2>5. (a \o last) \o <<ch>> = a \o (last \o <<ch>>)
    <3>1. \A d, e, f \in Seq(X) : (d \o e) \o f = d \o (e \o f)
      BY ConcatAssociative, SMTT(30)
    <3> QED
      BY <1>2, <2>1, <3>1, Zenon
  <2>6. a \o more = Append(a \o last, ch)
    BY <1>2, <2>4, <2>5
  <2> QED
    BY <1>3, <1>4, <2>2, <2>6
<1> QED
  BY <1>7, <1>8

\* No piece has a separator in it.
Apart(ps, sep) == \A i \in 1..Len(ps) : \A j \in 1..Len(ps[i]) : ps[i][j] # sep

\* That stays so when there is a new piece, and when the last one grows.
LEMMA ApartGrows ==
    ASSUME NEW X, NEW sep, NEW ps \in Seq(Seq(X)), Apart(ps, sep)
    PROVE  /\ Apart(Append(ps, <<>>), sep)
           /\ \A ch \in X : ps # <<>> /\ ch # sep => Apart(Extended(ps, ch), sep)
<1>1. Apart(Append(ps, <<>>), sep)
  <2>1. <<>> \in Seq(X) /\ Len(<<>>) = 0
    BY EmptySeq
  <2>2. /\ Len(Append(ps, <<>>)) = Len(ps) + 1 /\ Len(ps) \in Nat
        /\ Append(ps, <<>>)[Len(ps) + 1] = <<>>
        /\ \A i \in 1..Len(ps) : Append(ps, <<>>)[i] = ps[i]
    BY <2>1, AppendProperties, LenProperties
  <2> DEFINE qs == Append(ps, <<>>)
  <2> HIDE DEF qs
  <2>3. SUFFICES ASSUME NEW i \in 1..Len(qs), NEW j \in 1..Len(qs[i]) PROVE qs[i][j] # sep
    BY DEF Apart, qs
  <2>4. CASE i \in 1..Len(ps)
    <3>1. qs[i] = ps[i]
      BY <2>2, <2>4 DEF qs
    <3> QED
      BY <2>4, <3>1 DEF Apart
  <2>5. CASE i = Len(ps) + 1
    <3>1. qs[i] = <<>>
      BY <2>2, <2>5 DEF qs
    <3> QED
      BY <2>1, <3>1
  <2>6. i \in 1..Len(ps) \/ i = Len(ps) + 1
    BY <2>2 DEF qs
  <2> QED
    BY <2>4, <2>5, <2>6
<1>2. ASSUME NEW ch \in X, ps # <<>>, ch # sep
      PROVE  Apart(Extended(ps, ch), sep)
  <2>1. PICK front \in Seq(Seq(X)), last \in Seq(X) : ps = Append(front, last)
    BY <1>2, FrontAndLast
  <2> DEFINE more == Append(last, ch)
             qs == Append(front, more)
             n == Len(front)
  <2>2. /\ more \in Seq(X) /\ Len(more) = Len(last) + 1 /\ Len(last) \in Nat
        /\ more[Len(last) + 1] = ch /\ \A j \in 1..Len(last) : more[j] = last[j]
    BY AppendProperties, LenProperties
  <2> HIDE DEF more
  <2>3. /\ n \in Nat /\ Len(ps) = n + 1 /\ ps[n + 1] = last
        /\ \A i \in 1..n : ps[i] = front[i]
    BY <2>1, AppendProperties, LenProperties
  <2>4. Len(qs) = n + 1 /\ qs[n + 1] = more /\ \A i \in 1..n : qs[i] = front[i]
    BY <2>2, AppendProperties
  <2>5. Extended(ps, ch) = qs
    BY <2>1, ExtendedIs DEF more
  <2> HIDE DEF qs, n
  <2>6. ASSUME NEW i \in 1..Len(qs), NEW j \in 1..Len(qs[i])
        PROVE  qs[i][j] # sep
    <3>1. i \in 1..n \/ i = n + 1
      BY <2>3, <2>4
    <3>2. CASE i \in 1..n
      <4>1. qs[i] = ps[i] /\ i \in 1..Len(ps)
        BY <2>3, <2>4, <3>2
      <4> QED
        BY <4>1 DEF Apart
    <3>3. CASE i = n + 1
      <4>1. qs[i] = more /\ (j \in 1..Len(last) \/ j = Len(last) + 1)
        BY <2>2, <2>4, <3>3
      <4>2. CASE j = Len(last) + 1
        BY <1>2, <2>2, <4>1, <4>2
      <4>3. CASE j \in 1..Len(last)
        <5>1. last[j] # sep
          <6>1. n + 1 \in 1..Len(ps)
            BY <2>3
          <6> QED
            BY <2>3, <4>3, <6>1 DEF Apart
        <5> QED
          BY <2>2, <4>1, <4>3, <5>1
      <4> QED
        BY <4>1, <4>2, <4>3
    <3> QED
      BY <3>1, <3>2, <3>3
  <2> QED
    BY <2>5, <2>6 DEF Apart
<1> QED
  BY <1>1, <1>2

\* The pieces make the text again, and have no separator in them.
LEMMA SplitFacts ==
    ASSUME NEW X, NEW sep \in X, NEW s \in Seq(X)
    PROVE  /\ Split(s, sep) \in Seq(Seq(X))
           /\ Split(s, sep) # <<>>
           /\ Join(Split(s, sep), sep) = s
           /\ Apart(Split(s, sep), sep)
<1> DEFINE n == Len(s)
<1>0. n \in Nat /\ \A i \in 1..n : s[i] \in X
  BY LenProperties
<1>1. PICK p : Splits(p, s, sep, n) /\ Split(s, sep) = p[n]
  BY <1>0, SplitIs
<1> HIDE DEF n
<1> DEFINE Good(i) == /\ p[i] \in Seq(Seq(X)) /\ p[i] # <<>>
                      /\ Join(p[i], sep) = SubSeq(s, 1, i)
                      /\ Apart(p[i], sep)
           T == {i \in Nat : i <= n => Good(i)}
<1>e. <<>> \in Seq(X) /\ <<>> \in Seq(Seq(X)) /\ <<sep>> \in Seq(X)
  BY EmptySeq
<1>2. 0 \in T
  <2>1. 0 \in 0..n
    BY <1>0
  <2>2. p[0] = SplitStep(p, s, sep, 0)
    BY <1>0, <1>1, <2>1, SplitsIs
  <2>3. p[0] = <<(<<>>)>>
    BY <2>2 DEF SplitStep
  <2> DEFINE one == <<(<<>>)>>
  <2>4. one \in Seq(Seq(X)) /\ one # <<>> /\ Len(one) = 1 /\ one[1] = <<>>
    BY <1>e
  <2>5. Join(one, sep) = <<>>
    BY <1>e, JoinOfFew
  <2>6. SubSeq(s, 1, 0) = <<>>
    OBVIOUS
  <2>7. Apart(one, sep)
    BY <2>4 DEF Apart
  <2> QED
    BY <2>3, <2>4, <2>5, <2>6, <2>7
<1>3. ASSUME NEW i \in Nat, i \in T
      PROVE  i + 1 \in T
  <2> SUFFICES ASSUME i + 1 <= n PROVE Good(i + 1)
    OBVIOUS
  <2> DEFINE k == i + 1
  <2>1. i <= n /\ k \in 1..n /\ k \in 0..n /\ k # 0 /\ k - 1 = i /\ i \in 0..n /\ k \in Nat
    BY <1>0
  <2>2. Good(i)
    BY <1>3, <2>1
  <2> HIDE DEF k
  <2> DEFINE q == p[i]
             ch == s[k]
  <2>3. p[k] = SplitStep(p, s, sep, k)
    BY <1>0, <1>1, <2>1, SplitsIs
  <2>4. p[k] = IF ch = sep THEN Append(q, <<>>) ELSE Extended(q, ch)
    BY <2>1, <2>3 DEF SplitStep, Extended
  <2>5. ch \in X
    BY <1>0, <2>1
  <2>6. /\ q \in Seq(Seq(X)) /\ q # <<>> /\ Join(q, sep) = SubSeq(s, 1, i) /\ Apart(q, sep)
    BY <2>2
  <2>7. SubSeq(s, 1, k) = Append(SubSeq(s, 1, i), ch)
    <3>1. SubSeq(s, 1, k) = SubSeq(s, 1, k - 1) \o <<s[k]>>
      BY <2>1, SubSeqRecursiveSecond DEF n
    <3>2. SubSeq(s, 1, i) \in Seq(X)
      BY <2>6, JoinIsText
    <3> QED
      BY <2>1, <2>5, <3>1, <3>2, AppendIsConcat
  <2> HIDE DEF q, ch
  <2>8. CASE ch = sep
    <3>1. p[k] = Append(q, <<>>)
      BY <2>4, <2>8
    <3>2. Append(q, <<>>) \in Seq(Seq(X)) /\ Append(q, <<>>) # <<>>
      BY <1>e, <2>6, AppendProperties
    <3>3. Join(Append(q, <<>>), sep) = Join(q, sep) \o <<sep>> \o <<>>
      BY <1>e, <2>6, JoinGrows
    <3>4. Join(q, sep) \o <<sep>> \o <<>> = Append(Join(q, sep), sep)
      <4>1. Join(q, sep) \in Seq(X)
        BY <2>6, JoinIsText
      <4>2. Join(q, sep) \o <<sep>> \in Seq(X)
        BY <1>e, <4>1, ConcatProperties
      <4>3. (Join(q, sep) \o <<sep>>) \o <<>> = Join(q, sep) \o <<sep>>
        BY <4>2, ConcatEmptySeq
      <4> QED
        BY <4>1, <4>3, AppendIsConcat
    <3>5. Apart(Append(q, <<>>), sep)
      BY <2>6, ApartGrows
    <3>6. Join(p[k], sep) = SubSeq(s, 1, k)
      BY <2>6, <2>7, <2>8, <3>1, <3>3, <3>4
    <3>7. p[k] \in Seq(Seq(X)) /\ p[k] # <<>> /\ Apart(p[k], sep)
      BY <3>1, <3>2, <3>5
    <3> QED
      BY <3>6, <3>7 DEF k
  <2>9. CASE ch # sep
    <3>1. p[k] = Extended(q, ch)
      BY <2>4, <2>9
    <3>2. /\ Extended(q, ch) \in Seq(Seq(X)) /\ Extended(q, ch) # <<>>
          /\ Join(Extended(q, ch), sep) = Append(Join(q, sep), ch)
      BY <2>5, <2>6, JoinExtends
    <3>3. Apart(Extended(q, ch), sep)
      BY <2>5, <2>6, <2>9, ApartGrows
    <3>4. Join(p[k], sep) = SubSeq(s, 1, k)
      BY <2>6, <2>7, <3>1, <3>2
    <3>5. p[k] \in Seq(Seq(X)) /\ p[k] # <<>> /\ Apart(p[k], sep)
      BY <3>1, <3>2, <3>3
    <3> QED
      BY <3>4, <3>5 DEF k
  <2> QED
    BY <2>8, <2>9
<1> HIDE DEF T
<1>4. n \in T
  BY <1>0, <1>2, <1>3, SetInduction
<1>5. Good(n)
  BY <1>0, <1>4 DEF T
<1>6. SubSeq(s, 1, n) = s
  BY SubSeqFull DEF n
<1> QED
  BY <1>1, <1>5, <1>6

-----------------------------------------------------------------------------
(* Texts: strip().                                                         *)

\* The part of a text from a to b, which may be empty.
LEMMA PartFacts ==
    ASSUME NEW X, NEW s \in Seq(X), NEW a \in Int, NEW b \in Int, 1 <= a, b <= Len(s), a <= b + 1
    PROVE  /\ SubSeq(s, a, b) \in Seq(X)
           /\ Len(SubSeq(s, a, b)) = (b - a) + 1
           /\ \A i \in 1..(b - a) + 1 : SubSeq(s, a, b)[i] = s[(a + i) - 1]
<1>1. \A i \in a..b : s[i] \in X
  <2>1. \A i \in a..b : i \in 1..Len(s)
    BY LenProperties
  <2> QED
    BY <2>1, LenProperties
<1>2. /\ SubSeq(s, a, b) \in Seq(X)
      /\ Len(SubSeq(s, a, b)) = IF a <= b THEN b - a + 1 ELSE 0
      /\ \A i \in 1..b - a + 1 : SubSeq(s, a, b)[i] = s[a + i - 1]
  BY <1>1, SubSeqProperties
<1>3. (IF a <= b THEN b - a + 1 ELSE 0) = (b - a) + 1
  OBVIOUS
<1>4. \A i \in 1..(b - a) + 1 : SubSeq(s, a, b)[i] = s[(a + i) - 1]
  <2>1. ASSUME NEW i \in 1..(b - a) + 1
        PROVE  i \in 1..b - a + 1 /\ a + i - 1 = (a + i) - 1
    OBVIOUS
  <2> QED
    BY <1>2, <2>1
<1> QED
  BY <1>2, <1>3, <1>4

\* A part of a part is a part.
LEMMA PartOfPart ==
    ASSUME NEW X, NEW s \in Seq(X), NEW a \in Int, NEW b \in Int, 1 <= a, b <= Len(s), a <= b + 1,
           NEW i \in Int, NEW j \in Int, 1 <= i, j <= (b - a) + 1, i <= j + 1
    PROVE  SubSeq(SubSeq(s, a, b), i, j) = SubSeq(s, (a + i) - 1, (a + j) - 1)
<1> DEFINE u == SubSeq(s, a, b)
           c == (a + i) - 1
           d == (a + j) - 1
           v == SubSeq(u, i, j)
           w == SubSeq(s, c, d)
           m == (j - i) + 1
<1>1. /\ u \in Seq(X) /\ Len(u) = (b - a) + 1
      /\ \A k \in 1..(b - a) + 1 : u[k] = s[(a + k) - 1]
  BY PartFacts
<1>2. c \in Int /\ d \in Int /\ 1 <= c /\ d <= Len(s) /\ c <= d + 1 /\ (d - c) + 1 = m /\ m \in Nat
  BY LenProperties
<1>3. j <= Len(u)
  BY <1>1
<1> HIDE DEF u, c, d
<1>4. v \in Seq(X) /\ Len(v) = m /\ \A k \in 1..m : v[k] = u[(i + k) - 1]
  BY <1>1, <1>3, PartFacts
<1>5. w \in Seq(X) /\ Len(w) = m /\ \A k \in 1..m : w[k] = s[(c + k) - 1]
  BY <1>2, PartFacts
<1> HIDE DEF v, w
<1>6. ASSUME NEW k \in 1..m
      PROVE  v[k] = w[k]
  <2> DEFINE l == (i + k) - 1
  <2>1. l \in 1..(b - a) + 1 /\ (a + l) - 1 = (c + k) - 1
    BY DEF c
  <2> HIDE DEF l
  <2>2. u[l] = s[(a + l) - 1]
    BY <1>1, <2>1
  <2>3. v[k] = u[l]
    BY <1>4 DEF l
  <2> QED
    BY <1>5, <2>1, <2>2, <2>3
<1>7. v = w
  BY <1>2, <1>4, <1>5, <1>6, SeqEqual
<1> QED
  BY <1>7 DEF v, w, u, c, d

\* There are only blanks in s before a and behind b.
Around(s, a, b) ==
    /\ \A k \in 1..a - 1 : IsBlank(s[k])
    /\ \A k \in b + 1..Len(s) : IsBlank(s[k])

\* What is left of s when the blanks around it are taken away.
Within(s, a, b) ==
    /\ a \in 1..Len(s) + 1
    /\ b \in 0..Len(s)
    /\ a <= b + 1
    /\ Around(s, a, b)
    /\ a <= b => ~IsBlank(s[a]) /\ ~IsBlank(s[b])

\* That is what is asked for.
LEMMA WithinIsStripped ==
    ASSUME NEW s, NEW a, NEW b, Within(s, a, b)
    PROVE  IsStripped(SubSeq(s, a, b), s)
<1>1. a \in 1..Len(s) + 1 /\ b \in 0..Len(s) /\ (a <= b => ~IsBlank(s[a]) /\ ~IsBlank(s[b]))
  BY DEF Within
<1>2. \A k \in (1..a - 1) \union (b + 1..Len(s)) : IsBlank(s[k])
  BY DEF Within, Around
<1> QED
  BY <1>1, <1>2 DEF IsStripped

\* lstrip() takes the blanks away that a text starts with.
LEMMA LStripIs ==
    ASSUME NEW X, NEW s \in Seq(X)
    PROVE  \/ LStrip(s) = <<>> /\ \A k \in 1..Len(s) : IsBlank(s[k])
           \/ \E f \in 1..Len(s) : /\ LStrip(s) = SubSeq(s, f, Len(s))
                                   /\ ~IsBlank(s[f])
                                   /\ \A k \in 1..f - 1 : IsBlank(s[k])
<1> DEFINE I == {i \in 1..Len(s) : ~IsBlank(s[i])}
           first == IF I # {} THEN CHOOSE x \in I : \A y \in I : x <= y ELSE 0
<1>1. LStrip(s) = IF first = 0 THEN <<>> ELSE SubSeq(s, first, Len(s))
  BY Zenon DEF LStrip, Seqs!SelectInSeq, Seqs!Min
<1>2. CASE I = {}
  <2>1. LStrip(s) = <<>>
    BY <1>1, <1>2
  <2>2. \A k \in 1..Len(s) : IsBlank(s[k])
    BY <1>2
  <2> QED
    BY <2>1, <2>2
<1>3. CASE I # {}
  <2>1. I \subseteq Nat
    BY LenProperties
  <2> HIDE DEF I
  <2>2. \E x \in I : \A y \in I : x <= y
    BY <1>3, <2>1, LeastNatural
  <2>3. first \in I /\ \A y \in I : first <= y
    BY <1>3, <2>2
  <2> HIDE DEF first
  <2>4. first \in 1..Len(s) /\ ~IsBlank(s[first])
    BY <2>3 DEF I
  <2>5. LStrip(s) = SubSeq(s, first, Len(s))
    BY <1>1, <2>4, LenProperties
  <2>6. ASSUME NEW k \in 1..first - 1
        PROVE  IsBlank(s[k])
    <3>1. k \in 1..Len(s) /\ ~(first <= k)
      BY <2>4, LenProperties
    <3>2. k \notin I
      BY <2>3, <3>1
    <3> QED
      BY <3>1, <3>2 DEF I
  <2> QED
    BY <2>4, <2>5, <2>6
<1> QED
  BY <1>2, <1>3

\* rstrip() takes the blanks away that a text ends with.
LEMMA WithoutBlanksAfterIs ==
    ASSUME NEW X, NEW s \in Seq(X)
    PROVE  \E l \in 0..Len(s) : /\ WithoutBlanksAfter(s) = SubSeq(s, 1, l)
                                /\ l # 0 => ~IsBlank(s[l])
                                /\ \A k \in l + 1..Len(s) : IsBlank(s[k])
<1> DEFINE n == Len(s)
           I == {i \in 1..n : ~IsBlank(s[i])}
           last == IF I # {} THEN CHOOSE x \in I : \A y \in I : x >= y ELSE 0
<1>0. n \in Nat
  BY LenProperties
<1>1. WithoutBlanksAfter(s) = SubSeq(s, 1, last)
  BY Zenon DEF WithoutBlanksAfter, Seqs!SelectLastInSeq, Seqs!Max
<1> HIDE DEF n
<1>2. CASE I = {}
  <2>1. WithoutBlanksAfter(s) = SubSeq(s, 1, 0)
    BY <1>1, <1>2
  <2>2. \A k \in 0 + 1..n : IsBlank(s[k])
    BY <1>2
  <2>3. 0 \in 0..n
    BY <1>0
  <2> QED
    BY <2>1, <2>2, <2>3 DEF n
<1>3. CASE I # {}
  <2> DEFINE J == {j \in 0..n - 1 : n - j \in I}
  <2>1. J \subseteq Nat
    OBVIOUS
  <2>2. J # {}
    <3>1. PICK i \in I : TRUE
      BY <1>3
    <3>2. i \in 1..n
      OBVIOUS
    <3>3. n - i \in 0..n - 1 /\ n - (n - i) = i
      BY <1>0, <3>2
    <3>4. n - i \in J
      BY <3>1, <3>3
    <3> QED
      BY <3>4
  <2>3. PICK j \in J : \A k \in J : j <= k
    <3> HIDE DEF J
    <3> QED
      BY <2>1, <2>2, LeastNatural
  <2>4. n - j \in I /\ j \in 0..n - 1
    OBVIOUS
  <2>5. ASSUME NEW y \in I
        PROVE  n - j >= y
    <3>1. y \in 1..n /\ n - y \in 0..n - 1 /\ n - (n - y) = y
      BY <1>0
    <3>2. n - y \in J
      BY <3>1
    <3>3. j <= n - y
      BY <2>3, <3>2
    <3> QED
      BY <1>0, <2>4, <3>1, <3>3
  <2> HIDE DEF J
  <2>6. last \in I /\ \A y \in I : last >= y
    <3> DEFINE Greatest(x) == \A y \in I : x >= y
    <3>1. \E x \in I : Greatest(x)
      BY <2>4, <2>5
    <3>2. last = CHOOSE x \in I : Greatest(x)
      BY <1>3
    <3> HIDE DEF I, Greatest, last
    <3>3. last \in I /\ Greatest(last)
      BY <3>1, <3>2
    <3> QED
      BY <3>3 DEF Greatest
  <2> HIDE DEF last
  <2>7. last \in 1..n /\ ~IsBlank(s[last])
    BY <2>6
  <2>8. ASSUME NEW k \in last + 1..n
        PROVE  IsBlank(s[k])
    <3>1. k \in 1..n /\ ~(last >= k)
      BY <1>0, <2>7
    <3>2. k \notin I
      BY <2>6, <3>1
    <3> QED
      BY <3>1, <3>2
  <2>9. last \in 0..n
    BY <2>7
  <2> QED
    BY <1>1, <2>7, <2>8, <2>9 DEF n
<1> QED
  BY <1>2, <1>3

\* strip() takes away the blanks on both sides.
LEMMA StripCuts ==
    ASSUME NEW X, NEW s \in Seq(X)
    PROVE  \E a, b \in Int : Within(s, a, b) /\ Strip(s) = SubSeq(s, a, b)
<1> DEFINE n == Len(s)
<1>0. n \in Nat
  BY LenProperties
<1>1. CASE LStrip(s) = <<>> /\ \A k \in 1..Len(s) : IsBlank(s[k])
  <2>1. <<>> \in Seq(X) /\ Len(<<>>) = 0
    BY EmptySeq
  <2>2. PICK l \in 0..Len(<<>>) : WithoutBlanksAfter(<<>>) = SubSeq(<<>>, 1, l)
    BY <2>1, WithoutBlanksAfterIs
  <2>3. Strip(s) = SubSeq(<<>>, 1, 0)
    BY <1>1, <2>1, <2>2 DEF Strip
  <2>4. SubSeq(<<>>, 1, 0) = <<>> /\ SubSeq(s, 1, 0) = <<>>
    BY SubSeqEmpty
  <2>5. Within(s, 1, 0)
    BY <1>0, <1>1 DEF Within, Around
  <2> QED
    BY <2>3, <2>4, <2>5
<1>2. ASSUME NEW f \in 1..n, LStrip(s) = SubSeq(s, f, n), ~IsBlank(s[f]),
             \A k \in 1..f - 1 : IsBlank(s[k])
      PROVE  \E a, b \in Int : Within(s, a, b) /\ Strip(s) = SubSeq(s, a, b)
  <2> DEFINE t == SubSeq(s, f, n)
             m == (n - f) + 1
  <2>1. f \in Int /\ n \in Int /\ 1 <= f /\ n <= Len(s) /\ f <= n + 1 /\ m \in Nat \ {0}
    BY <1>0
  <2>2. t \in Seq(X) /\ Len(t) = m /\ \A i \in 1..m : t[i] = s[(f + i) - 1]
    BY <2>1, PartFacts
  <2> HIDE DEF t
  <2>3. PICK l \in 0..Len(t) : /\ WithoutBlanksAfter(t) = SubSeq(t, 1, l)
                               /\ l # 0 => ~IsBlank(t[l])
                               /\ \A k \in l + 1..Len(t) : IsBlank(t[k])
    BY <2>2, WithoutBlanksAfterIs
  <2>4. l \in 1..m
    <3>1. SUFFICES l # 0
      BY <2>2
    <3>2. t[1] = s[f]
      <4>1. 1 \in 1..m /\ (f + 1) - 1 = f
        BY <2>1
      <4> QED
        BY <2>2, <4>1
    <3>3. 1 \in 0 + 1..Len(t)
      BY <2>1, <2>2
    <3> QED
      BY <1>2, <2>3, <3>2, <3>3
  <2> DEFINE e == (f + l) - 1
  <2>5. e \in f..n /\ (f + 1) - 1 = f
    BY <1>0, <2>1, <2>4
  <2>6. Strip(s) = SubSeq(s, f, e)
    <3>1. SubSeq(SubSeq(s, f, n), 1, l) = SubSeq(s, (f + 1) - 1, (f + l) - 1)
      <4>1. 1 \in Int /\ l \in Int /\ 1 <= 1 /\ l <= (n - f) + 1 /\ 1 <= l + 1
        BY <2>4
      <4> HIDE DEF n
      <4> QED
        BY <2>1, <4>1, PartOfPart
    <3> QED
      BY <1>2, <2>3, <2>5, <3>1 DEF Strip, t
  <2>7. ~IsBlank(s[e])
    BY <2>2, <2>3, <2>4
  <2>8. ASSUME NEW k \in e + 1..n
        PROVE  IsBlank(s[k])
    <3> DEFINE i == (k - f) + 1
    <3>1. i \in l + 1..m /\ i \in 1..m /\ (f + i) - 1 = k
      BY <1>0, <2>4, <2>5
    <3> HIDE DEF i
    <3>2. t[i] = s[k]
      BY <2>2, <3>1
    <3> QED
      BY <2>2, <2>3, <3>1, <3>2
  <2>9. Around(s, f, e)
    BY <1>2, <2>8 DEF Around
  <2>10. Within(s, f, e) /\ f \in Int /\ e \in Int
    <3> HIDE DEF e
    <3>1. f \in 1..n + 1 /\ e \in 0..n /\ f <= e + 1
      BY <1>0, <2>5
    <3> QED
      BY <1>2, <2>7, <2>9, <3>1 DEF Within
  <2> QED
    BY <2>6, <2>10
<1> QED
  BY <1>1, <1>2, LStripIs

\* Nothing is left of a text just if it is blank.
LEMMA BlankIsStripped ==
    ASSUME NEW X, NEW s \in Seq(X)
    PROVE  /\ IsStripped(<<>>, s) <=> \A k \in 1..Len(s) : IsBlank(s[k])
           /\ Strip(s) = <<>> <=> \A k \in 1..Len(s) : IsBlank(s[k])
<1> DEFINE n == Len(s)
           Blank == \A k \in 1..n : IsBlank(s[k])
<1>0. n \in Nat
  BY LenProperties
<1>1. ASSUME NEW a \in Int, NEW b \in Int, 1 <= a, b <= n, SubSeq(s, a, b) = <<>>
      PROVE  ~(a <= b)
  <2> SUFFICES ASSUME a <= b PROVE FALSE
    OBVIOUS
  <2>1. Len(SubSeq(s, a, b)) = (b - a) + 1
    BY <1>1, PartFacts
  <2> QED
    BY <1>1, <2>1
<1>2. ASSUME Blank PROVE IsStripped(<<>>, s)
  <2>1. Within(s, 1, 0)
    BY <1>0, <1>2 DEF Within, Around
  <2>2. SubSeq(s, 1, 0) = <<>>
    BY SubSeqEmpty
  <2>3. IsStripped(SubSeq(s, 1, 0), s)
    BY <2>1, WithinIsStripped
  <2> QED
    BY <2>2, <2>3
<1>3. ASSUME IsStripped(<<>>, s) PROVE Blank
  <2>1. PICK i \in 1..n + 1, j \in 0..n :
           /\ <<>> = SubSeq(s, i, j)
           /\ \A k \in (1..i - 1) \union (j + 1..n) : IsBlank(s[k])
    BY <1>3 DEF IsStripped
  <2>2. ~(i <= j)
    BY <1>0, <1>1, <2>1
  <2>3. ASSUME NEW k \in 1..n
        PROVE  IsBlank(s[k])
    <3>1. k \in (1..i - 1) \union (j + 1..n)
      BY <1>0, <2>2
    <3> QED
      BY <2>1, <3>1
  <2> QED
    BY <2>3
<1>4. PICK a \in Int, b \in Int : Within(s, a, b) /\ Strip(s) = SubSeq(s, a, b)
  BY StripCuts
<1>5. /\ 1 <= a /\ b <= n /\ a <= b + 1
      /\ a <= b => ~IsBlank(s[a]) /\ a \in 1..n
      /\ \A k \in (1..a - 1) \union (b + 1..n) : IsBlank(s[k])
  BY <1>0, <1>4 DEF Within, Around
<1>6. ASSUME Strip(s) = <<>> PROVE Blank
  <2>1. ~(a <= b)
    BY <1>1, <1>4, <1>5, <1>6
  <2>2. ASSUME NEW k \in 1..n
        PROVE  IsBlank(s[k])
    <3>1. k \in (1..a - 1) \union (b + 1..n)
      BY <1>0, <2>1
    <3> QED
      BY <1>5, <3>1
  <2> QED
    BY <2>2
<1>7. ASSUME Blank PROVE Strip(s) = <<>>
  <2>1. ~(a <= b)
    BY <1>5, <1>7
  <2>2. SubSeq(s, a, b) = <<>>
    BY <2>1, SubSeqEmpty
  <2> QED
    BY <1>4, <2>2
<1> QED
  BY <1>2, <1>3, <1>6, <1>7

\* Of a text that has blanks around a part strip() of that part is what is
\* left.
LEMMA StripInside ==
    ASSUME NEW X, NEW s \in Seq(X), NEW a \in Int, NEW b \in Int, 1 <= a, b <= Len(s), a <= b + 1,
           Around(s, a, b)
    PROVE  /\ IsStripped(Strip(SubSeq(s, a, b)), s)
           /\ Strip(SubSeq(s, a, b)) = <<>> <=> IsStripped(<<>>, s)
<1> DEFINE n == Len(s)
           u == SubSeq(s, a, b)
           m == (b - a) + 1
<1>0. n \in Nat
  BY LenProperties
<1>1. u \in Seq(X) /\ Len(u) = m /\ \A i \in 1..m : u[i] = s[(a + i) - 1]
  BY PartFacts
<1>2. PICK i \in Int, j \in Int : Within(u, i, j) /\ Strip(u) = SubSeq(u, i, j)
  BY <1>1, StripCuts
<1>3. 1 <= i /\ j <= m /\ i <= j + 1 /\ 0 <= j /\ i <= m + 1
  BY <1>1, <1>2 DEF Within
<1> DEFINE c == (a + i) - 1
           d == (a + j) - 1
<1>4. Strip(u) = SubSeq(s, c, d)
  BY <1>2, <1>3, PartOfPart
<1>5. Within(s, c, d)
  <2>1. c \in 1..n + 1 /\ d \in 0..n /\ c <= d + 1
    BY <1>0, <1>3
  <2> HIDE DEF u
  <2>2. ASSUME NEW k \in 1..c - 1
        PROVE  IsBlank(s[k])
    <3>1. CASE k < a
      BY <3>1 DEF Around
    <3>2. CASE a <= k
      <4> DEFINE l == (k - a) + 1
      <4>1. l \in 1..i - 1 /\ l \in 1..m /\ (a + l) - 1 = k
        BY <1>3, <3>2
      <4> HIDE DEF l
      <4>2. u[l] = s[k]
        BY <1>1, <4>1
      <4> QED
        BY <1>2, <4>1, <4>2 DEF Within, Around
    <3> QED
      BY <3>1, <3>2
  <2>3. ASSUME NEW k \in d + 1..n
        PROVE  IsBlank(s[k])
    <3>1. CASE k > b
      BY <3>1 DEF Around
    <3>2. CASE k <= b
      <4> DEFINE l == (k - a) + 1
      <4>1. l \in j + 1..m /\ l \in 1..m /\ (a + l) - 1 = k
        BY <1>3, <3>2
      <4> HIDE DEF l
      <4>2. u[l] = s[k]
        BY <1>1, <4>1
      <4> QED
        BY <1>1, <1>2, <4>1, <4>2 DEF Within, Around
    <3> QED
      BY <3>1, <3>2
  <2>4. c <= d => ~IsBlank(s[c]) /\ ~IsBlank(s[d])
    <3> SUFFICES ASSUME c <= d PROVE ~IsBlank(s[c]) /\ ~IsBlank(s[d])
      OBVIOUS
    <3>1. i <= j /\ i \in 1..m /\ j \in 1..m
      BY <1>3
    <3>2. u[i] = s[c] /\ u[j] = s[d]
      BY <1>1, <3>1
    <3> HIDE DEF c, d
    <3> QED
      BY <1>2, <3>1, <3>2 DEF Within
  <2> HIDE DEF c, d
  <2> QED
    BY <2>1, <2>2, <2>3, <2>4 DEF Within, Around
<1>6. IsStripped(Strip(u), s)
  BY <1>4, <1>5, WithinIsStripped
<1>7. ASSUME IsStripped(<<>>, s)
      PROVE  Strip(u) = <<>>
  <2>1. \A k \in 1..n : IsBlank(s[k])
    BY <1>7, BlankIsStripped
  <2>2. ASSUME NEW k \in 1..Len(u)
        PROVE  IsBlank(u[k])
    <3>1. (a + k) - 1 \in 1..n /\ k \in 1..m
      BY <1>0, <1>1
    <3> QED
      BY <1>1, <2>1, <3>1
  <2> QED
    BY <1>1, <2>2, BlankIsStripped
<1> QED
  BY <1>6, <1>7

\* The two parts of a concatenation.
LEMMA ConcatParts ==
    ASSUME NEW S, NEW a \in Seq(S), NEW r \in Seq(S)
    PROVE  /\ SubSeq(a \o r, 1, Len(a)) = a
           /\ SubSeq(a \o r, Len(a) + 1, Len(a \o r)) = r
           /\ Len(a) <= Len(a \o r)
<1>1. /\ a \o r \in Seq(S)
      /\ Len(a \o r) = Len(a) + Len(r)
      /\ Len(a) \in Nat /\ Len(r) \in Nat
      /\ \A i \in 1..Len(a) + Len(r) :
            (a \o r)[i] = IF i <= Len(a) THEN a[i] ELSE r[i - Len(a)]
      /\ \A i \in 1..Len(a \o r) : (a \o r)[i] \in S
  BY ConcatProperties, LenProperties
<1>2. SubSeq(a \o r, 1, Len(a)) = a
  <2>1. /\ SubSeq(a \o r, 1, Len(a)) \in Seq(S)
        /\ Len(SubSeq(a \o r, 1, Len(a))) = Len(a)
        /\ \A i \in 1..Len(a) : SubSeq(a \o r, 1, Len(a))[i] = (a \o r)[i]
    BY <1>1, SubSeqProperties
  <2>2. \A i \in 1..Len(a) : (a \o r)[i] = a[i]
    BY <1>1
  <2> QED
    BY <2>1, <2>2, SeqEqual
<1>3. SubSeq(a \o r, Len(a) + 1, Len(a \o r)) = r
  <2> DEFINE t == SubSeq(a \o r, Len(a) + 1, Len(a \o r))
  <2>1. /\ t \in Seq(S)
        /\ Len(t) = Len(r)
        /\ \A i \in 1..Len(r) : t[i] = (a \o r)[Len(a) + i]
    BY <1>1, SubSeqProperties
  <2>2. \A i \in 1..Len(r) : (a \o r)[Len(a) + i] = r[i]
    BY <1>1
  <2> HIDE DEF t
  <2>3. t = r
    BY <2>1, <2>2, SeqEqual
  <2> QED
    BY <2>3 DEF t
<1> QED
  BY <1>1, <1>2, <1>3

-----------------------------------------------------------------------------
(* Texts: parse_pairs().                                                   *)

\* Where the name ends.
LEMMA NameEndIs ==
    ASSUME NEW s, Len(s) \in Nat, NEW sep
    PROVE  /\ (\A k \in 1..Len(s) : s[k] # sep) => NameEnd(s, sep) = Len(s) + 1
           /\ \A e \in 1..Len(s) :
                 s[e] = sep /\ (\A k \in 1..e - 1 : s[k] # sep) => NameEnd(s, sep) = e
<1> DEFINE n == Len(s)
           ends == {i \in 1..n : s[i] = sep} \union {n + 1}
           Least(i) == i \in ends /\ \A j \in ends : i <= j
<1>1. NameEnd(s, sep) = CHOOSE i \in ends : \A j \in ends : i <= j
  BY Zenon DEF NameEnd
<1>2. ASSUME NEW e, Least(e)
      PROVE  NameEnd(s, sep) = e
  <2>1. \A i \in ends : i \in Int
    OBVIOUS
  <2> DEFINE c == CHOOSE i \in ends : \A j \in ends : i <= j
  <2> HIDE DEF ends
  <2>2. c \in ends /\ \A j \in ends : c <= j
    BY <1>2
  <2> HIDE DEF c
  <2>3. c <= e /\ e <= c /\ c \in Int /\ e \in Int
    BY <1>2, <2>1, <2>2
  <2>4. c = e
    BY <2>3
  <2> QED
    BY <1>1, <2>4 DEF c
<1>3. ASSUME \A k \in 1..n : s[k] # sep
      PROVE  NameEnd(s, sep) = n + 1
  <2>1. Least(n + 1)
    BY <1>3
  <2> HIDE DEF Least
  <2> QED
    BY <1>2, <2>1
<1>4. ASSUME NEW e \in 1..n, s[e] = sep, \A k \in 1..e - 1 : s[k] # sep
      PROVE  NameEnd(s, sep) = e
  <2>1. ASSUME NEW j \in ends
        PROVE  e <= j
    <3>1. CASE j = n + 1
      BY <3>1
    <3>2. CASE j \in 1..n /\ s[j] = sep
      <4>1. j \notin 1..e - 1
        BY <1>4, <3>2
      <4> QED
        BY <3>2, <4>1
    <3> QED
      BY <3>1, <3>2
  <2>2. e \in ends
    BY <1>4
  <2> HIDE DEF ends
  <2>3. Least(e)
    BY <2>1, <2>2
  <2> QED
    BY <1>2, <2>3
<1> QED
  BY <1>3, <1>4

\* p is a text of one piece, or of a first one and what the others make.
CutAtFirst(s, p, sep) ==
    \/ /\ \A k \in 1..Len(s) : s[k] # sep
       /\ p[1] = s
       /\ Join(Tail(p), sep) = <<>>
    \/ \E e \in 1..Len(s) :
          /\ s[e] = sep
          /\ \A k \in 1..e - 1 : s[k] # sep
          /\ p[1] = SubSeq(s, 1, e - 1)
          /\ Join(Tail(p), sep) = SubSeq(s, e + 1, Len(s))

\* The first piece ends where the first separator is, and the others are what
\* comes behind it.
LEMMA SplitAtFirst ==
    ASSUME NEW X, NEW sep \in X, NEW s \in Seq(X)
    PROVE  CutAtFirst(s, Split(s, sep), sep)
<1> DEFINE p == Split(s, sep)
           n == Len(s)
<1>1. p \in Seq(Seq(X)) /\ p # <<>> /\ Join(p, sep) = s /\ Apart(p, sep)
  BY SplitFacts
<1> HIDE DEF p
<1>2. Len(p) \in Nat \ {0} /\ 1 \in 1..Len(p)
  BY <1>1, EmptySeq, LenProperties
<1> DEFINE q == p[1]
<1>3. q \in Seq(X) /\ \A j \in 1..Len(q) : q[j] # sep
  BY <1>1, <1>2, ElementOfSeq DEF Apart
<1>4. s = IF Len(p) = 1 THEN q ELSE q \o <<sep>> \o Join(Tail(p), sep)
  BY <1>1, JoinFirst
<1>5. Tail(p) \in Seq(Seq(X)) /\ Len(Tail(p)) = Len(p) - 1
  BY <1>1, HeadTailProperties
<1> HIDE DEF q
<1>6. CASE Len(p) = 1
  <2>1. Tail(p) = <<>>
    <3>1. Len(Tail(p)) = 0
      BY <1>5, <1>6
    <3> QED
      BY <1>5, <3>1, EmptySeq
  <2>2. Join(Tail(p), sep) = <<>>
    BY <1>3, <2>1, JoinOfFew
  <2> QED
    BY <1>3, <1>4, <1>6, <2>2 DEF p, q, CutAtFirst
<1>7. CASE Len(p) # 1
  <2> DEFINE r == Join(Tail(p), sep)
             a == q \o <<sep>>
             e == Len(q) + 1
  <2>1. r \in Seq(X) /\ <<sep>> \in Seq(X)
    <3>1. \A ts \in Seq(Seq(X)) : Join(ts, sep) \in Seq(X)
      BY JoinIsText
    <3>2. r \in Seq(X)
      BY <1>5, <3>1, Zenon
    <3> QED
      BY <3>2
  <2>2. s = a \o r
    BY <1>4, <1>7
  <2> HIDE DEF r
  <2>3. a = Append(q, sep)
    BY <1>3, AppendIsConcat
  <2>4. /\ a \in Seq(X) /\ Len(a) = e /\ a[e] = sep /\ Len(q) \in Nat
        /\ \A k \in 1..Len(q) : a[k] = q[k]
    BY <1>3, <2>3, AppendProperties, LenProperties
  <2>5. SubSeq(a, 1, Len(q)) = q
    BY <1>3, <2>1, ConcatParts
  <2> HIDE DEF a
  <2>6. /\ n = Len(a) + Len(r) /\ Len(r) \in Nat
        /\ \A k \in 1..Len(a) : s[k] = a[k]
    <3>1. \A k \in 1..Len(a) + Len(r) : (a \o r)[k] = IF k <= Len(a) THEN a[k] ELSE r[k - Len(a)]
      BY <2>1, <2>4, ConcatProperties
    <3>2. Len(a \o r) = Len(a) + Len(r) /\ Len(a) \in Nat /\ Len(r) \in Nat
      BY <2>1, <2>4, ConcatProperties, LenProperties
    <3> QED
      BY <2>2, <3>1, <3>2
  <2>7. SubSeq(s, e + 1, n) = r /\ SubSeq(s, 1, e) = a
    BY <2>1, <2>2, <2>4, ConcatParts
  <2>8. e \in 1..n /\ s[e] = sep /\ e - 1 = Len(q)
    BY <2>4, <2>6
  <2>9. \A k \in 1..e - 1 : s[k] # sep
    BY <1>3, <2>4, <2>6
  <2>10. SubSeq(s, 1, e - 1) = q
    <3> DEFINE l == Len(q)
               u == SubSeq(s, 1, l)
    <3>1. l \in Nat /\ l <= n /\ l = e - 1
      BY <2>4, <2>6
    <3> HIDE DEF l
    <3>2. u \in Seq(X) /\ Len(u) = l /\ \A k \in 1..l : u[k] = s[k]
      <4>1. /\ u \in Seq(X) /\ Len(u) = (l - 1) + 1
            /\ \A k \in 1..(l - 1) + 1 : u[k] = s[(1 + k) - 1]
        BY <3>1, PartFacts
      <4> QED
        BY <3>1, <4>1
    <3> HIDE DEF u
    <3>3. \A k \in 1..l : u[k] = q[k]
      BY <2>4, <2>6, <3>2 DEF l
    <3>4. u = q
      BY <1>3, <3>2, <3>3, SeqEqual DEF l
    <3> QED
      BY <3>1, <3>4 DEF u
  <2> HIDE DEF e
  <2> QED
    BY <2>7, <2>8, <2>9, <2>10 DEF p, q, r, CutAtFirst
<1> QED
  BY <1>6, <1>7

\* A name and its value.
LEMMA PairOfIs ==
    ASSUME NEW X, NEW sep \in X, ~IsBlank(sep), NEW s \in Seq(X)
    PROVE  /\ IsStripped(PairOf(s, sep)[1], NameIn(s, sep))
           /\ IsStripped(PairOf(s, sep)[2], ValueIn(s, sep))
           /\ PairOf(s, sep)[1] = <<>> <=> IsStripped(<<>>, NameIn(s, sep))
<1> DEFINE n == Len(s)
           q == Strip(s)
           p == Split(q, sep)
<1>0. n \in Nat
  BY LenProperties
<1>1. PICK a \in Int, b \in Int : Within(s, a, b) /\ q = SubSeq(s, a, b)
  BY StripCuts
<1>2. 1 <= a /\ b <= n /\ a <= b + 1 /\ Around(s, a, b) /\ 0 <= b /\ a <= n + 1
  BY <1>0, <1>1 DEF Within
<1> DEFINE m == (b - a) + 1
<1>3. q \in Seq(X) /\ Len(q) = m /\ \A i \in 1..m : q[i] = s[(a + i) - 1]
  BY <1>1, <1>2, PartFacts
<1>4. PairOf(s, sep) = <<Strip(p[1]), Strip(Join(Tail(p), sep))>>
  BY DEF PairOf
<1>5. /\ PairOf(s, sep)[1] = Strip(p[1])
      /\ PairOf(s, sep)[2] = Strip(Join(Tail(p), sep))
  BY <1>4
<1> HIDE DEF q
<1>6. ASSUME NEW k \in 1..n, s[k] = sep
      PROVE  k \in a..b
  <2>1. k \notin 1..a - 1 /\ k \notin b + 1..n
    BY <1>2, <1>6 DEF Around
  <2> QED
    BY <1>0, <1>2, <2>1
<1>7. CASE /\ \A k \in 1..Len(q) : q[k] # sep
           /\ p[1] = q
           /\ Join(Tail(p), sep) = <<>>
  <2>1. ASSUME NEW k \in 1..n
        PROVE  s[k] # sep
    <3> SUFFICES ASSUME s[k] = sep PROVE FALSE
      OBVIOUS
    <3>1. k \in a..b
      BY <1>6
    <3> DEFINE i == (k - a) + 1
    <3>2. i \in 1..m /\ (a + i) - 1 = k
      BY <1>2, <3>1
    <3> HIDE DEF i
    <3>3. q[i] = sep
      BY <1>3, <3>2
    <3> QED
      BY <1>3, <1>7, <3>2, <3>3
  <2>2. NameEnd(s, sep) = n + 1
    BY <1>0, <2>1, NameEndIs
  <2>3. NameIn(s, sep) = s
    <3>1. (n + 1) - 1 = n
      BY <1>0
    <3> QED
      BY <2>2, <3>1, SubSeqFull DEF NameIn
  <2>4. ValueIn(s, sep) = <<>>
    BY <1>0, <2>2, SubSeqEmpty DEF ValueIn
  <2>5. Strip(<<>>) = <<>> /\ IsStripped(<<>>, <<>>)
    <3>1. <<>> \in Seq(X) /\ \A k \in 1..Len(<<>>) : IsBlank(<<>>[k])
      BY EmptySeq
    <3> QED
      BY <3>1, BlankIsStripped
  <2>6. IsStripped(Strip(q), s) /\ (Strip(q) = <<>> <=> IsStripped(<<>>, s))
    BY <1>1, <1>2, StripInside
  <2>7. PairOf(s, sep)[1] = Strip(q) /\ PairOf(s, sep)[2] = <<>>
    BY <1>5, <1>7, <2>5
  <2> QED
    BY <2>3, <2>4, <2>5, <2>6, <2>7
<1>8. ASSUME NEW f \in 1..Len(q),
             q[f] = sep,
             \A k \in 1..f - 1 : q[k] # sep,
             p[1] = SubSeq(q, 1, f - 1),
             Join(Tail(p), sep) = SubSeq(q, f + 1, Len(q))
      PROVE  /\ IsStripped(PairOf(s, sep)[1], NameIn(s, sep))
             /\ IsStripped(PairOf(s, sep)[2], ValueIn(s, sep))
             /\ PairOf(s, sep)[1] = <<>> <=> IsStripped(<<>>, NameIn(s, sep))
  <2> DEFINE e == (a + f) - 1
  <2>1. f \in 1..m /\ e \in a..b /\ e \in 1..n /\ e \in Int
    BY <1>0, <1>2, <1>3
  <2>2. s[e] = sep
    BY <1>3, <1>8, <2>1
  <2>3. ASSUME NEW k \in 1..e - 1
        PROVE  s[k] # sep
    <3> SUFFICES ASSUME s[k] = sep PROVE FALSE
      OBVIOUS
    <3>1. k \in 1..n
      BY <2>1
    <3>2. k \in a..b
      BY <1>6, <3>1
    <3> DEFINE i == (k - a) + 1
    <3>3. i \in 1..f - 1 /\ i \in 1..m /\ (a + i) - 1 = k
      BY <1>2, <2>1, <3>2
    <3> HIDE DEF i
    <3>4. q[i] = sep
      BY <1>3, <3>3
    <3> QED
      BY <1>8, <3>3, <3>4
  <2>4. NameEnd(s, sep) = e
    <3> HIDE DEF e
    <3> QED
      BY <1>0, <2>1, <2>2, <2>3, NameEndIs
  <2> DEFINE name == SubSeq(s, 1, e - 1)
             value == SubSeq(s, e + 1, n)
  <2>5. NameIn(s, sep) = name /\ ValueIn(s, sep) = value
    BY <2>4, Zenon DEF NameIn, ValueIn
  <2>6. p[1] = SubSeq(s, a, e - 1)
    <3>1. SubSeq(SubSeq(s, a, b), 1, f - 1) = SubSeq(s, (a + 1) - 1, (a + (f - 1)) - 1)
      <4>1. 1 \in Int /\ f - 1 \in Int /\ 1 <= 1 /\ f - 1 <= (b - a) + 1 /\ 1 <= (f - 1) + 1
        BY <2>1
      <4> QED
        BY <1>2, <4>1, PartOfPart
    <3>2. (a + 1) - 1 = a /\ (a + (f - 1)) - 1 = e - 1
      BY <2>1
    <3> QED
      BY <1>1, <1>8, <3>1, <3>2
  <2>7. Join(Tail(p), sep) = SubSeq(s, e + 1, b)
    <3>1. SubSeq(SubSeq(s, a, b), f + 1, m) = SubSeq(s, (a + (f + 1)) - 1, (a + m) - 1)
      <4>1. f + 1 \in Int /\ m \in Int /\ 1 <= f + 1 /\ m <= (b - a) + 1 /\ f + 1 <= m + 1
        BY <2>1
      <4> QED
        BY <1>2, <4>1, PartOfPart
    <3>2. (a + (f + 1)) - 1 = e + 1 /\ (a + m) - 1 = b
      BY <2>1
    <3> QED
      BY <1>1, <1>3, <1>8, <3>1, <3>2
  <2> HIDE DEF e
  <2>8. /\ name \in Seq(X) /\ Len(name) = e - 1
        /\ \A k \in 1..e - 1 : name[k] = s[k]
    <3>1. 1 \in Int /\ e - 1 \in Int /\ 1 <= 1 /\ e - 1 <= Len(s) /\ 1 <= (e - 1) + 1
      BY <2>1
    <3>2. /\ name \in Seq(X) /\ Len(name) = ((e - 1) - 1) + 1
          /\ \A k \in 1..((e - 1) - 1) + 1 : name[k] = s[(1 + k) - 1]
      BY <3>1, PartFacts
    <3> HIDE DEF name
    <3> QED
      BY <2>1, <3>2
  <2>9. /\ value \in Seq(X) /\ Len(value) = n - e
        /\ \A k \in 1..n - e : value[k] = s[e + k]
    <3>1. e + 1 \in Int /\ n \in Int /\ 1 <= e + 1 /\ n <= Len(s) /\ e + 1 <= n + 1
      BY <1>0, <2>1
    <3>2. /\ value \in Seq(X) /\ Len(value) = (n - (e + 1)) + 1
          /\ \A k \in 1..(n - (e + 1)) + 1 : value[k] = s[((e + 1) + k) - 1]
      BY <3>1, PartFacts
    <3> HIDE DEF value
    <3> QED
      BY <1>0, <2>1, <3>2
  <2>10. /\ IsStripped(Strip(p[1]), name)
         /\ Strip(p[1]) = <<>> <=> IsStripped(<<>>, name)
    <3>1. SubSeq(name, a, e - 1) = SubSeq(s, a, e - 1)
      <4>1. SubSeq(SubSeq(s, 1, e - 1), a, e - 1) = SubSeq(s, (1 + a) - 1, (1 + (e - 1)) - 1)
        <5>1. /\ 1 \in Int /\ e - 1 \in Int /\ 1 <= 1 /\ e - 1 <= Len(s) /\ 1 <= (e - 1) + 1
              /\ e - 1 <= ((e - 1) - 1) + 1 /\ a <= (e - 1) + 1
          BY <2>1
        <5> QED
          BY <1>2, <5>1, PartOfPart
      <4>2. (1 + a) - 1 = a /\ (1 + (e - 1)) - 1 = e - 1
        BY <2>1
      <4> QED
        BY <4>1, <4>2
    <3>2. /\ 1 <= a /\ e - 1 <= Len(name) /\ a <= (e - 1) + 1 /\ e - 1 \in Int
      BY <1>2, <2>1, <2>8
    <3>3. Around(name, a, e - 1)
      <4>1. \A k \in 1..a - 1 : k \in 1..e - 1
        BY <2>1
      <4>2. \A k \in 1..a - 1 : IsBlank(s[k])
        BY <1>2 DEF Around
      <4>3. \A k \in (e - 1) + 1..Len(name) : FALSE
        BY <2>1, <2>8
      <4> HIDE DEF name
      <4> QED
        BY <2>8, <4>1, <4>2, <4>3 DEF Around
    <3> DEFINE d == e - 1
    <3>4. name \in Seq(X) /\ d \in Int /\ d <= Len(name) /\ a <= d + 1 /\ Around(name, a, d)
      BY <2>8, <3>2, <3>3
    <3>5. p[1] = SubSeq(name, a, d)
      BY <2>6, <3>1
    <3> HIDE DEF name, d
    <3>6. /\ IsStripped(Strip(SubSeq(name, a, d)), name)
          /\ Strip(SubSeq(name, a, d)) = <<>> <=> IsStripped(<<>>, name)
      BY <3>2, <3>4, StripInside
    <3> QED
      BY <3>5, <3>6
  <2>11. IsStripped(Strip(Join(Tail(p), sep)), value)
    <3>1. SubSeq(value, 1, b - e) = SubSeq(s, e + 1, b)
      <4>1. SubSeq(SubSeq(s, e + 1, n), 1, b - e) = SubSeq(s, ((e + 1) + 1) - 1, ((e + 1) + (b - e)) - 1)
        <5>1. /\ e + 1 \in Int /\ n \in Int /\ 1 <= e + 1 /\ n <= Len(s) /\ e + 1 <= n + 1
              /\ 1 \in Int /\ b - e \in Int /\ 1 <= 1 /\ b - e <= (n - (e + 1)) + 1 /\ 1 <= (b - e) + 1
          BY <1>0, <1>2, <2>1
        <5> DEFINE c == e + 1
                   d == b - e
        <5>2. /\ c \in Int /\ n \in Int /\ 1 <= c /\ n <= Len(s) /\ c <= n + 1
              /\ 1 \in Int /\ d \in Int /\ 1 <= 1 /\ d <= (n - c) + 1 /\ 1 <= d + 1
          BY <5>1
        <5> HIDE DEF c, d, n
        <5>3. SubSeq(SubSeq(s, c, n), 1, d) = SubSeq(s, (c + 1) - 1, (c + d) - 1)
          BY <5>2, PartOfPart
        <5> QED
          BY <5>3 DEF c, d
      <4>2. ((e + 1) + 1) - 1 = e + 1 /\ ((e + 1) + (b - e)) - 1 = b
        BY <2>1
      <4> QED
        BY <4>1, <4>2
    <3>2. 1 <= 1 /\ b - e <= Len(value) /\ 1 <= (b - e) + 1 /\ b - e \in Int /\ 1 \in Int
      BY <1>0, <1>2, <2>1, <2>9
    <3>3. Around(value, 1, b - e)
      <4>1. ASSUME NEW k \in (b - e) + 1..Len(value)
            PROVE  k \in 1..n - e /\ e + k \in b + 1..n
        BY <1>0, <1>2, <2>1, <2>9
      <4>2. \A k \in b + 1..n : IsBlank(s[k])
        BY <1>2 DEF Around
      <4>3. \A k \in 1..1 - 1 : FALSE
        OBVIOUS
      <4> HIDE DEF value
      <4>4. \A k \in (b - e) + 1..Len(value) : IsBlank(value[k])
        BY <2>9, <4>1, <4>2
      <4> QED
        BY <4>3, <4>4 DEF Around
    <3> HIDE DEF value
    <3> QED
      BY <2>7, <2>9, <3>1, <3>2, <3>3, StripInside
  <2> QED
    BY <1>5, <2>5, <2>10, <2>11
<1>9. CutAtFirst(q, p, sep)
  BY <1>3, SplitAtFirst
<1> QED
  BY <1>7, <1>8, <1>9 DEF CutAtFirst

\* pairs is what ParsePairs computes for the pieces, up to n.
PairStep(pairs, ps, sep, i) ==
    IF i = 0 THEN <<>>
    ELSE IF PairOf(ps[i], sep)[1] = <<>> THEN pairs[i - 1]
    ELSE Append(pairs[i - 1], PairOf(ps[i], sep))

Pairs(pairs, ps, sep, n) == pairs = [i \in 0..n |-> PairStep(pairs, ps, sep, i)]

\* What such a function is at each piece.
LEMMA PairsIs ==
    ASSUME NEW pairs, NEW ps, NEW sep, NEW n \in Nat, Pairs(pairs, ps, sep, n), NEW i \in 0..n
    PROVE  pairs[i] = PairStep(pairs, ps, sep, i)
<1>1. [j \in 0..n |-> PairStep(pairs, ps, sep, j)][i] = PairStep(pairs, ps, sep, i)
  OBVIOUS
<1> QED
  BY <1>1, Zenon DEF Pairs

\* There is such a function for every sequence of pieces.
LEMMA PairsAreComputed ==
    ASSUME NEW ps, NEW sep, NEW n \in Nat
    PROVE  \E pairs : Pairs(pairs, ps, sep, n)
<1> DEFINE T == {m \in Nat : \E pairs : Pairs(pairs, ps, sep, m)}
<1>1. 0 \in T
  <2> DEFINE pairs == [i \in 0..0 |-> <<>>]
  <2>1. \A i \in 0..0 : PairStep(pairs, ps, sep, i) = <<>>
    BY DEF PairStep
  <2>2. pairs = [i \in 0..0 |-> PairStep(pairs, ps, sep, i)]
    BY <2>1, Zenon
  <2> HIDE DEF pairs
  <2>3. Pairs(pairs, ps, sep, 0)
    BY <2>2 DEF Pairs
  <2> QED
    BY <2>3
<1>2. ASSUME NEW m \in Nat, m \in T
      PROVE  m + 1 \in T
  <2>1. PICK pairs : Pairs(pairs, ps, sep, m)
    BY <1>2
  <2> DEFINE last == PairStep(pairs, ps, sep, m + 1)
             more == [i \in 0..m + 1 |-> IF i <= m THEN pairs[i] ELSE last]
  <2> HIDE DEF last
  <2>2. /\ \A i \in 0..m : more[i] = pairs[i]
        /\ more[m + 1] = last
        /\ more = [i \in 0..m + 1 |-> more[i]]
    OBVIOUS
  <2> HIDE DEF more
  <2>3. ASSUME NEW i \in 0..m + 1
        PROVE  more[i] = PairStep(more, ps, sep, i)
    <3>1. i = 0 \/ (i # 0 /\ i - 1 \in 0..m)
      OBVIOUS
    <3>2. i = 0 \/ more[i - 1] = pairs[i - 1]
      BY <2>2, <3>1
    <3>3. PairStep(more, ps, sep, i) = PairStep(pairs, ps, sep, i)
      BY <3>2, Zenon DEF PairStep
    <3>4. i \in 0..m \/ i = m + 1
      OBVIOUS
    <3>5. CASE i \in 0..m
      <4>1. pairs[i] = PairStep(pairs, ps, sep, i)
        BY <2>1, <3>5, PairsIs, Zenon
      <4> QED
        BY <2>2, <3>3, <3>5, <4>1, Zenon
    <3>6. CASE i = m + 1
      BY <2>2, <3>3, <3>6, Zenon DEF last
    <3> QED
      BY <3>4, <3>5, <3>6
  <2>4. Pairs(more, ps, sep, m + 1)
    BY <2>2, <2>3, Zenon DEF Pairs
  <2> QED
    BY <2>4
<1> HIDE DEF T
<1>3. n \in T
  BY <1>1, <1>2, SetInduction
<1> QED
  BY <1>3 DEF T

\* ParsePairs is the last value of such a function.
LEMMA ParsePairsIs ==
    ASSUME NEW s, NEW pairSep, NEW sep, Len(Split(s, pairSep)) \in Nat
    PROVE  \E pairs : /\ Pairs(pairs, Split(s, pairSep), sep, Len(Split(s, pairSep)))
                      /\ ParsePairs(s, pairSep, sep) = pairs[Len(Split(s, pairSep))]
<1> DEFINE ps == Split(s, pairSep)
           pairs == CHOOSE p : Pairs(p, ps, sep, Len(ps))
<1>1. ParsePairs(s, pairSep, sep) = pairs[Len(ps)]
  BY DEF ParsePairs, Pairs, PairStep
<1>2. Pairs(pairs, ps, sep, Len(ps))
  <2>1. \E p : Pairs(p, ps, sep, Len(ps))
    BY PairsAreComputed
  <2> QED
    BY <2>1, Zenon
<1> QED
  BY <1>1, <1>2

\* The pieces up to n that have a name, and what it means that pairs are those
\* of the pieces N.
Named(ps, sep, n) == {i \in 1..n : PairOf(ps[i], sep)[1] # <<>>}

InOrder(pairs, ps, sep, N) ==
    /\ Len(pairs) = Cardinality(N)
    /\ \A k \in N : pairs[Cardinality({j \in N : j <= k})] = PairOf(ps[k], sep)

\* The pairs of pieces are those of the pieces that have one, in their order.
LEMMA PairsInOrder ==
    ASSUME NEW ps, NEW sep, NEW n \in Nat, NEW f, Pairs(f, ps, sep, n)
    PROVE  InOrder(f[n], ps, sep, Named(ps, sep, n))
<1> SUFFICES ASSUME NEW N, N = {i \in 1..n : PairOf(ps[i], sep)[1] # <<>>}
             PROVE  /\ Len(f[n]) = Cardinality(N)
                    /\ \A k \in N : f[n][Cardinality({j \in N : j <= k})] = PairOf(ps[k], sep)
  BY DEF InOrder, Named
<1> DEFINE UpTo(i) == {j \in N : j <= i}
           PlaceOf(k) == Cardinality(UpTo(k))
           V == {PairOf(ps[k], sep) : k \in 1..n}
           Good(i) == /\ f[i] \in Seq(V)
                      /\ Len(f[i]) = Cardinality(UpTo(i))
                      /\ \A k \in UpTo(i) : f[i][PlaceOf(k)] = PairOf(ps[k], sep)
           T == {i \in Nat : i <= n => Good(i)}
<1>1. IsFiniteSet(N) /\ \A k \in N : k \in 1..n
  <2>1. IsFiniteSet(1..n)
    BY FS_Interval
  <2> QED
    BY <2>1, FS_Subset
<1>2. ASSUME NEW i
      PROVE  IsFiniteSet(UpTo(i)) /\ Cardinality(UpTo(i)) \in Nat
  <2>1. UpTo(i) \subseteq N
    OBVIOUS
  <2>2. IsFiniteSet(UpTo(i))
    BY <1>1, <2>1, FS_Subset
  <2> QED
    BY <2>2, FS_CardinalityType
<1>3. ASSUME NEW i \in Nat, NEW k \in UpTo(i)
      PROVE  PlaceOf(k) \in 1..Cardinality(UpTo(i))
  <2> DEFINE A == UpTo(k)
             B == UpTo(i)
  <2>1. A \subseteq B /\ k \in A
    BY <1>1
  <2>2. IsFiniteSet(A) /\ IsFiniteSet(B) /\ Cardinality(A) \in Nat /\ Cardinality(B) \in Nat
    BY <1>2
  <2> HIDE DEF A, B
  <2>3. Cardinality(A) <= Cardinality(B)
    BY <2>1, <2>2, FS_Subset
  <2>4. Cardinality(A) # 0
    BY <2>1, <2>2, FS_EmptySet
  <2>5. Cardinality(A) \in 1..Cardinality(B)
    BY <2>2, <2>3, <2>4
  <2> QED
    BY <2>5 DEF A, B
<1>4. 0 \in T
  <2>1. UpTo(0) = {}
    BY <1>1
  <2>2. Cardinality({}) = 0
    BY FS_EmptySet
  <2>3. f[0] = <<>>
    <3>1. f[0] = PairStep(f, ps, sep, 0)
      BY PairsIs
    <3> QED
      BY <3>1 DEF PairStep
  <2> HIDE DEF V, UpTo
  <2>4. f[0] \in Seq(V) /\ Len(f[0]) = 0
    BY <2>3, EmptySeq
  <2>5. Good(0)
    BY <2>1, <2>2, <2>4
  <2> QED
    BY <2>5
<1>5. ASSUME NEW i \in Nat, i \in T
      PROVE  i + 1 \in T
  <2> SUFFICES ASSUME i + 1 <= n PROVE Good(i + 1)
    OBVIOUS
  <2> DEFINE m == i + 1
             pair == PairOf(ps[m], sep)
  <2>1. m \in 1..n /\ m \in 0..n /\ m # 0 /\ m - 1 = i /\ i <= n /\ m \in Nat
    OBVIOUS
  <2>2. Good(i)
    BY <1>5, <2>1
  <2>3. pair \in V
    BY <2>1
  <2>4. f[m] = PairStep(f, ps, sep, m)
    BY <2>1, PairsIs
  <2> HIDE DEF m
  <2>5. f[m] = IF pair[1] = <<>> THEN f[i] ELSE Append(f[i], pair)
    BY <2>1, <2>4 DEF PairStep
  <2>6. m \in N <=> pair[1] # <<>>
    BY <2>1
  <2>7. \A j \in N : j <= m <=> j <= i \/ j = m
    BY <1>1 DEF m
  <2>8. CASE m \notin N
    <3>1. UpTo(m) = UpTo(i)
      BY <2>7, <2>8
    <3>2. f[m] = f[i]
      BY <2>5, <2>6, <2>8
    <3> HIDE DEF UpTo, V
    <3>3. Good(m)
      BY <2>2, <3>1, <3>2
    <3> QED
      BY <3>3 DEF m
  <2>9. CASE m \in N
    <3>1. UpTo(m) = UpTo(i) \union {m} /\ m \notin UpTo(i)
      <4>1. ~(m <= i)
        BY DEF m
      <4> QED
        BY <2>1, <2>7, <2>9, <4>1
    <3>2. f[m] = Append(f[i], pair)
      BY <2>5, <2>6, <2>9
    <3> DEFINE c == Cardinality(UpTo(i))
    <3>3. Cardinality(UpTo(m)) = c + 1 /\ c \in Nat
      <4>1. IsFiniteSet(UpTo(i)) /\ Cardinality(UpTo(i)) \in Nat
        BY <1>2
      <4> HIDE DEF UpTo
      <4> QED
        BY <3>1, <4>1, FS_AddElement
    <3>4. \A k \in UpTo(i) : PlaceOf(k) \in 1..c
      BY <1>3
    <3> HIDE DEF UpTo, V, pair
    <3>5. f[i] \in Seq(V) /\ Len(f[i]) = c
      BY <2>2
    <3> HIDE DEF c
    <3>6. /\ f[m] \in Seq(V) /\ Len(f[m]) = c + 1 /\ f[m][c + 1] = pair
          /\ \A r \in 1..c : f[m][r] = f[i][r]
      BY <2>3, <3>2, <3>5, AppendProperties
    <3>7. ASSUME NEW k \in UpTo(m)
          PROVE  f[m][PlaceOf(k)] = PairOf(ps[k], sep)
      <4>1. CASE k = m
        BY <3>3, <3>6, <4>1 DEF pair
      <4>2. CASE k \in UpTo(i)
        BY <2>2, <3>4, <3>6, <4>2
      <4> QED
        BY <3>1, <4>1, <4>2
    <3>8. Good(m)
      BY <3>3, <3>6, <3>7
    <3> QED
      BY <3>8 DEF m
  <2> QED
    BY <2>8, <2>9
<1>6. UpTo(n) = N
  BY <1>1
<1> HIDE DEF T
<1>7. n \in T
  BY <1>4, <1>5, SetInduction
<1>8. Good(n)
  BY <1>7 DEF T
<1> QED
  BY <1>6, <1>8

\* parse_pairs() finds the names and values that are in a text, whatever the
\* text is, if the character between them is not blank.
LEMMA PairsOfText ==
    ASSUME NEW X, NEW pairSep \in X, NEW valueSep \in X, ~IsBlank(valueSep), NEW s \in Seq(X)
    PROVE  PairsMatch(s, pairSep, valueSep)
<1> DEFINE ps == Split(s, pairSep)
           n == Len(ps)
           pairs == ParsePairs(s, pairSep, valueSep)
           named == {i \in 1..n : ~IsStripped(<<>>, NameIn(ps[i], valueSep))}
           N == Named(ps, valueSep, n)
<1>1. ps \in Seq(Seq(X)) /\ Join(ps, pairSep) = s /\ Apart(ps, pairSep)
  BY SplitFacts
<1>2. n \in Nat /\ \A i \in 1..n : ps[i] \in Seq(X)
  BY <1>1, LenProperties, ElementOfSeq
<1>3. PICK f : Pairs(f, ps, valueSep, n) /\ pairs = f[n]
  BY <1>2, ParsePairsIs
<1> HIDE DEF ps, n, pairs
<1>4. ASSUME NEW i \in 1..n
      PROVE  /\ IsStripped(PairOf(ps[i], valueSep)[1], NameIn(ps[i], valueSep))
             /\ IsStripped(PairOf(ps[i], valueSep)[2], ValueIn(ps[i], valueSep))
             /\ PairOf(ps[i], valueSep)[1] = <<>> <=> IsStripped(<<>>, NameIn(ps[i], valueSep))
  BY <1>2, PairOfIs
<1>5. named = N
  BY <1>4 DEF Named
<1>6. InOrder(pairs, ps, valueSep, Named(ps, valueSep, n))
  BY <1>2, <1>3, PairsInOrder, Zenon
<1> HIDE DEF N, named
<1>7. Len(pairs) = Cardinality(named)
  BY <1>5, <1>6 DEF InOrder, N
<1>8. ASSUME NEW i \in named
      PROVE  LET pair == pairs[Cardinality({j \in named : j <= i})]
             IN  /\ IsStripped(pair[1], NameIn(ps[i], valueSep))
                 /\ IsStripped(pair[2], ValueIn(ps[i], valueSep))
  <2>1. pairs[Cardinality({j \in named : j <= i})] = PairOf(ps[i], valueSep)
    BY <1>5, <1>6, Zenon DEF InOrder, N
  <2>2. i \in 1..n
    BY DEF named
  <2> QED
    BY <1>4, <2>1, <2>2
<1>9. \A i \in 1..n : \A j \in 1..Len(ps[i]) : ps[i][j] # pairSep
  BY <1>1 DEF Apart, n
<1> QED
  BY <1>1, <1>7, <1>8, <1>9, Zenon DEF PairsMatch, ps, n, pairs, named

\* The text of a token is a sequence, of some characters and the separators.
LEMMA SpellingIsText ==
    ASSUME BufferOK, NEW k \in 1..Len(tokens)
    PROVE  \E X : Spelling(tokens[k]) \in Seq(X) /\ ";" \in X /\ "=" \in X
<1> DEFINE value == tokens[k].value
           n == Len(value)
           X == {text[value[i]] : i \in 1..n} \union {";", "="}
<1>1. value \in Seq(Positions)
  <2>1. tokens \in Seq(Token)
    BY DEF BufferOK
  <2>2. tokens[k] \in Token
    BY <2>1, ElementOfSeq
  <2> QED
    BY <2>2 DEF Token
<1>2. n \in Nat /\ DOMAIN value = 1..n
  <2> HIDE DEF value
  <2> QED
    BY <1>1, LenProperties
<1>3. Spelling(tokens[k]) = [i \in 1..n |-> text[value[i]]]
  BY <1>2, Zenon DEF Spelling
<1>4. \A i \in 1..n : text[value[i]] \in X
  OBVIOUS
<1>5. ";" \in X /\ "=" \in X
  OBVIOUS
<1> HIDE DEF X, n, value
<1>6. [i \in 1..n |-> text[value[i]]] \in Seq(X)
  <2>1. [i \in 1..n |-> text[value[i]]] \in [1..n -> X]
    BY <1>4
  <2> QED
    BY <1>2, <2>1
<1> QED
  BY <1>3, <1>5, <1>6

-----------------------------------------------------------------------------
(* Numbers: what digits stand for.                                         *)

\* f goes on by a factor and a summand for each place.
Linear(f, n, base, r, d) == f = [i \in 0..n |-> IF i = 0 THEN base ELSE f[i - 1] * r + d[i]]

\* What f has in one place.
LEMMA LinearIs ==
    ASSUME NEW f, NEW n \in Nat, NEW base, NEW r, NEW d, Linear(f, n, base, r, d), NEW i \in 0..n
    PROVE  f[i] = IF i = 0 THEN base ELSE f[i - 1] * r + d[i]
<1>1. [j \in 0..n |-> IF j = 0 THEN base ELSE f[j - 1] * r + d[j]][i]
        = IF i = 0 THEN base ELSE f[i - 1] * r + d[i]
  OBVIOUS
<1> QED
  BY <1>1, Zenon DEF Linear

\* There is such a function.
LEMMA LinearExists ==
    ASSUME NEW n \in Nat, NEW base, NEW r, NEW d
    PROVE  \E f : Linear(f, n, base, r, d)
<1> DEFINE T == {m \in Nat : \E f : Linear(f, m, base, r, d)}
<1>1. 0 \in T
  <2> DEFINE f == [i \in 0..0 |-> base]
  <2>1. f = [i \in 0..0 |-> IF i = 0 THEN base ELSE f[i - 1] * r + d[i]]
    OBVIOUS
  <2> HIDE DEF f
  <2>2. Linear(f, 0, base, r, d)
    BY <2>1, Zenon DEF Linear
  <2> QED
    BY <2>2
<1>2. ASSUME NEW m \in Nat, m \in T
      PROVE  m + 1 \in T
  <2>1. PICK f : Linear(f, m, base, r, d)
    BY <1>2
  <2> DEFINE last == f[m] * r + d[m + 1]
             g == [i \in 0..m + 1 |-> IF i <= m THEN f[i] ELSE last]
  <2> HIDE DEF last
  <2>2. /\ \A i \in 0..m : g[i] = f[i]
        /\ g[m + 1] = last
        /\ g = [i \in 0..m + 1 |-> g[i]]
    OBVIOUS
  <2> HIDE DEF g
  <2>3. ASSUME NEW i \in 0..m + 1
        PROVE  g[i] = IF i = 0 THEN base ELSE g[i - 1] * r + d[i]
    <3>1. i = 0 \/ (i # 0 /\ i - 1 \in 0..m)
      OBVIOUS
    <3>2. i = 0 \/ (i # 0 /\ g[i - 1] = f[i - 1])
      BY <2>2, <3>1
    <3>3. i \in 0..m \/ (i = m + 1 /\ i - 1 = m /\ i # 0)
      OBVIOUS
    <3>4. CASE i \in 0..m
      <4>1. f[i] = IF i = 0 THEN base ELSE f[i - 1] * r + d[i]
        BY <2>1, <3>4, LinearIs
      <4> QED
        BY <2>2, <3>2, <3>4, <4>1, Zenon
    <3>5. CASE i = m + 1 /\ i - 1 = m /\ i # 0
      <4>1. g[i - 1] * r + d[i] = last
        BY <3>2, <3>5, Zenon DEF last
      <4> QED
        BY <2>2, <3>5, <4>1, Zenon
    <3> QED
      BY <3>3, <3>4, <3>5
  <2>4. g = [i \in 0..m + 1 |-> IF i = 0 THEN base ELSE g[i - 1] * r + d[i]]
    BY <2>2, <2>3, Zenon
  <2>5. Linear(g, m + 1, base, r, d)
    BY <2>4, Zenon DEF Linear
  <2> QED
    BY <2>5
<1> HIDE DEF T
<1>3. n \in T
  BY <1>1, <1>2, SetInduction
<1> QED
  BY <1>3 DEF T

\* Its values are numbers.
LEMMA LinearType ==
    ASSUME NEW f, NEW n \in Nat, NEW base \in Nat, NEW r \in Nat, NEW d,
           \A i \in 1..n : d[i] \in Nat, Linear(f, n, base, r, d)
    PROVE  \A i \in 0..n : f[i] \in Nat
<1> DEFINE T == {m \in Nat : m <= n => f[m] \in Nat}
<1>1. 0 \in T
  <2>1. f[0] = base
    BY LinearIs
  <2> QED
    BY <2>1
<1>2. ASSUME NEW m \in Nat, m \in T
      PROVE  m + 1 \in T
  <2> SUFFICES ASSUME m + 1 <= n PROVE f[m + 1] \in Nat
    OBVIOUS
  <2>1. m + 1 \in 0..n /\ m + 1 \in 1..n /\ m + 1 # 0 /\ (m + 1) - 1 = m /\ m <= n
    OBVIOUS
  <2>2. f[m + 1] = f[m] * r + d[m + 1]
    <3> DEFINE i == m + 1
    <3>1. i \in 0..n /\ i # 0 /\ i - 1 = m
      BY <2>1
    <3> HIDE DEF i
    <3>2. f[i] = f[i - 1] * r + d[i]
      BY <3>1, LinearIs
    <3>3. f[i] = f[m] * r + d[i]
      BY <3>1, <3>2
    <3> QED
      BY <3>3 DEF i
  <2>3. f[m] \in Nat /\ d[m + 1] \in Nat
    BY <1>2, <2>1
  <2>4. \A a, b, c \in Nat : a * b + c \in Nat
    OBVIOUS
  <2> DEFINE a == f[m]
             c == d[m + 1]
  <2>5. a \in Nat /\ c \in Nat /\ f[m + 1] = a * r + c
    BY <2>2, <2>3
  <2> HIDE DEF a, c
  <2>6. a * r + c \in Nat
    BY <2>4, <2>5, Zenon
  <2> QED
    BY <2>5, <2>6, Zenon
<1> HIDE DEF T
<1>3. Nat \subseteq T
  BY <1>1, <1>2, SetInduction
<1> QED
  BY <1>3 DEF T

\* d and e have the same summands up to n.
Agree(d, e, n) == \A i \in 1..n : d[i] = e[i]

\* What goes on the same way is the same.
LEMMA LinearAgree ==
    ASSUME NEW f, NEW g, NEW n \in Nat, NEW m \in Nat, n <= m, NEW base, NEW r, NEW d, NEW e,
           Agree(d, e, n), Linear(f, n, base, r, d), Linear(g, m, base, r, e)
    PROVE  f[n] = g[n]
<1> DEFINE T == {i \in Nat : i <= n => f[i] = g[i]}
<1>1. 0 \in T
  <2>1. f[0] = base /\ g[0] = base
    BY LinearIs
  <2> QED
    BY <2>1
<1>2. ASSUME NEW j \in Nat, j \in T
      PROVE  j + 1 \in T
  <2> SUFFICES ASSUME j + 1 <= n PROVE f[j + 1] = g[j + 1]
    OBVIOUS
  <2> DEFINE i == j + 1
  <2>1. i \in 0..n /\ i \in 0..m /\ i \in 1..n /\ i # 0 /\ i - 1 = j /\ j <= n
    OBVIOUS
  <2> HIDE DEF i
  <2>2. f[i] = f[i - 1] * r + d[i] /\ g[i] = g[i - 1] * r + e[i]
    BY <2>1, LinearIs
  <2>3. f[i - 1] = g[i - 1] /\ d[i] = e[i]
    BY <1>2, <2>1 DEF Agree
  <2>4. f[i] = g[i]
    BY <2>2, <2>3, Zenon
  <2> QED
    BY <2>4 DEF i
<1> HIDE DEF T
<1>3. Nat \subseteq T
  BY <1>1, <1>2, SetInduction
<1> QED
  BY <1>3 DEF T

\* The powers of a radix.
LEMMA PowerIs ==
    ASSUME NEW r \in Nat, NEW n \in Nat
    PROVE  /\ Power(r, n) \in Nat
           /\ Power(r, 0) = 1
           /\ Power(r, n + 1) = Power(r, n) * r
<1> DEFINE d(k) == [i \in 1..k |-> 0]
           F(f, k) == f = [i \in 0..k |-> IF i = 0 THEN 1 ELSE f[i - 1] * r]
           G(k) == CHOOSE f : F(f, k)
<1>1. \A k \in Nat : Power(r, k) = G(k)[k]
  BY DEF Power
<1>2. ASSUME NEW k \in Nat, NEW f
      PROVE  Linear(f, k, 1, r, d(k)) => F(f, k)
  <2> SUFFICES ASSUME Linear(f, k, 1, r, d(k)) PROVE F(f, k)
    OBVIOUS
  <2>1. \A i \in 0..k : f[i] \in Nat
    <3>1. \A i \in 1..k : d(k)[i] \in Nat
      OBVIOUS
    <3> HIDE DEF d
    <3> QED
      BY <3>1, LinearType
  <2>2. ASSUME NEW i \in 0..k
        PROVE  f[i] = IF i = 0 THEN 1 ELSE f[i - 1] * r
    <3>1. f[i] = IF i = 0 THEN 1 ELSE f[i - 1] * r + d(k)[i]
      <4> HIDE DEF d
      <4> QED
        BY LinearIs
    <3>2. CASE i = 0
      BY <3>1, <3>2
    <3>3. CASE i # 0
      <4>1. i - 1 \in 0..k /\ i \in 1..k
        BY <3>3
      <4>2. d(k)[i] = 0 /\ f[i - 1] \in Nat
        BY <2>1, <4>1
      <4> DEFINE a == f[i - 1] * r
      <4>3. \A x, y \in Nat : x * y \in Nat
        OBVIOUS
      <4>4. a \in Nat
        BY <4>2, <4>3, Zenon
      <4>5. f[i] = a + 0
        BY <3>1, <3>3, <4>2, Zenon
      <4> HIDE DEF a
      <4>6. f[i] = a
        BY <4>4, <4>5
      <4> QED
        BY <3>3, <4>6 DEF a
    <3> QED
      BY <3>2, <3>3
  <2>3. f = [i \in 0..k |-> f[i]]
    BY Zenon DEF Linear
  <2> QED
    BY <2>2, <2>3, Zenon
<1>3. ASSUME NEW k \in Nat, NEW f
      PROVE  F(f, k) => Linear(f, k, 1, r, d(k))
  <2> SUFFICES ASSUME F(f, k) PROVE Linear(f, k, 1, r, d(k))
    OBVIOUS
  <2> DEFINE T == {m \in Nat : m <= k => f[m] \in Nat}
  <2>1. ASSUME NEW i \in 0..k
        PROVE  f[i] = IF i = 0 THEN 1 ELSE f[i - 1] * r
    <3>1. [j \in 0..k |-> IF j = 0 THEN 1 ELSE f[j - 1] * r][i] = IF i = 0 THEN 1 ELSE f[i - 1] * r
      OBVIOUS
    <3> QED
      BY <3>1, Zenon
  <2>2. f = [i \in 0..k |-> f[i]]
    BY Zenon
  <2> HIDE DEF F
  <2>3. 0 \in T
    BY <2>1
  <2>4. ASSUME NEW m \in Nat, m \in T
        PROVE  m + 1 \in T
    <3> SUFFICES ASSUME m + 1 <= k PROVE f[m + 1] \in Nat
      OBVIOUS
    <3> DEFINE i == m + 1
               a == f[m]
    <3>1. i \in 0..k /\ i # 0 /\ i - 1 = m /\ m <= k
      OBVIOUS
    <3>2. a \in Nat
      BY <2>4, <3>1
    <3> HIDE DEF i
    <3>3. f[i] = a * r
      BY <2>1, <3>1
    <3> HIDE DEF a
    <3>4. \A x, y \in Nat : x * y \in Nat
      OBVIOUS
    <3>5. f[i] \in Nat
      BY <3>2, <3>3, <3>4, Zenon
    <3> QED
      BY <3>5 DEF i
  <2> HIDE DEF T
  <2>5. Nat \subseteq T
    BY <2>3, <2>4, SetInduction
  <2>6. \A i \in 0..k : f[i] \in Nat
    BY <2>5 DEF T
  <2>7. ASSUME NEW i \in 0..k
        PROVE  f[i] = IF i = 0 THEN 1 ELSE f[i - 1] * r + d(k)[i]
    <3>1. CASE i = 0
      BY <2>1, <3>1
    <3>2. CASE i # 0
      <4>1. d(k)[i] = 0
        BY <3>2
      <4>2. f[i] = f[i - 1] * r /\ f[i] \in Nat
        BY <2>1, <2>6, <3>2
      <4>3. f[i] = f[i] + 0
        BY <4>2
      <4> QED
        BY <3>2, <4>1, <4>2, <4>3, Zenon
    <3> QED
      BY <3>1, <3>2
  <2> QED
    BY <2>2, <2>7, Zenon DEF Linear
<1>4. ASSUME NEW k \in Nat
      PROVE  Linear(G(k), k, 1, r, d(k))
  <2>1. \E f : Linear(f, k, 1, r, d(k))
    <3> HIDE DEF d
    <3> QED
      BY LinearExists
  <2>2. \E f : F(f, k)
    <3> HIDE DEF F
    <3> QED
      BY <1>2, <2>1, Zenon
  <2>3. F(G(k), k)
    BY <2>2, Zenon
  <2> HIDE DEF F, G
  <2> QED
    BY <1>3, <2>3, Zenon
<1>5. \A k \in Nat : \A i \in 1..k : d(k)[i] = 0
  OBVIOUS
<1> HIDE DEF d, F, G
<1>6. ASSUME NEW k \in Nat
      PROVE  G(k)[k] \in Nat
  <2>1. \A i \in 0..k : G(k)[i] \in Nat
    BY <1>4, <1>5, LinearType
  <2> QED
    BY <2>1
<1>7. G(0)[0] = 1
  BY <1>4, LinearIs
<1>8. G(n + 1)[n + 1] = G(n)[n] * r
  <2> DEFINE k == n + 1
  <2>1. k \in Nat /\ n \in 0..n /\ k \in 0..k /\ k # 0 /\ k - 1 = n /\ n <= k /\ k \in 1..k
    OBVIOUS
  <2>2. \A i \in 1..n : d(k)[i] = d(n)[i]
    BY <1>5
  <2> HIDE DEF k
  <2>3. G(k)[n] = G(n)[n]
    <3>1. Linear(G(k), k, 1, r, d(k)) /\ Linear(G(n), n, 1, r, d(n))
      BY <1>4, <2>1
    <3>2. Agree(d(n), d(k), n)
      BY <2>2 DEF Agree
    <3>3. G(n)[n] = G(k)[n]
      BY <2>1, <3>1, <3>2, LinearAgree, Zenon
    <3> QED
      BY <3>3
  <2>4. G(k)[k] = G(k)[k - 1] * r + d(k)[k]
    BY <1>4, <2>1, LinearIs
  <2>5. G(k)[k] = G(n)[n] * r + 0
    BY <1>5, <2>1, <2>3, <2>4, Zenon
  <2> DEFINE a == G(n)[n]
  <2>6. a \in Nat /\ G(k)[k] = a * r + 0
    BY <1>6, <2>5
  <2> HIDE DEF a
  <2>7. \A x, y \in Nat : x * y + 0 = x * y
    OBVIOUS
  <2>8. G(k)[k] = a * r
    BY <2>6, <2>7, Zenon
  <2> QED
    BY <2>8 DEF a, k
<1> QED
  BY <1>1, <1>6, <1>7, <1>8

\* The digits of a text by their places from the left.
Places(digits) == [i \in 1..Len(digits) |-> Digit(digits[i])]

\* Evaluated is the last value of such a function.
LEMMA EvaluatedIs ==
    ASSUME NEW digits, NEW radix, Len(digits) \in Nat
    PROVE  \E f : /\ Linear(f, Len(digits), 0, radix, Places(digits))
                  /\ Evaluated(digits, radix) =
                       IF \E i \in 1..Len(digits) : Digit(digits[i]) \notin 0..radix - 1
                       THEN Nothing ELSE {f[Len(digits)]}
<1> DEFINE n == Len(digits)
           F(f) == f = [i \in 0..n |-> IF i = 0 THEN 0 ELSE f[i - 1] * radix + Digit(digits[i])]
           h == CHOOSE f : F(f)
<1>1. Evaluated(digits, radix) =
        IF \E i \in 1..n : Digit(digits[i]) \notin 0..radix - 1 THEN Nothing ELSE {h[n]}
  BY DEF Evaluated
<1>2. ASSUME NEW f
      PROVE  F(f) <=> Linear(f, n, 0, radix, Places(digits))
  <2>1. \A i \in 0..n : i = 0 \/ Places(digits)[i] = Digit(digits[i])
    <3> HIDE DEF n
    <3> QED
      BY DEF Places, n
  <2>2. [i \in 0..n |-> IF i = 0 THEN 0 ELSE f[i - 1] * radix + Digit(digits[i])]
          = [i \in 0..n |-> IF i = 0 THEN 0 ELSE f[i - 1] * radix + Places(digits)[i]]
    <3>1. \A i \in 0..n : (IF i = 0 THEN 0 ELSE f[i - 1] * radix + Digit(digits[i]))
                            = (IF i = 0 THEN 0 ELSE f[i - 1] * radix + Places(digits)[i])
      BY <2>1, Zenon
    <3> QED
      BY <3>1, Zenon
  <2> QED
    BY <2>2, Zenon DEF Linear
<1>3. F(h)
  <2>1. \E f : Linear(f, n, 0, radix, Places(digits))
    BY LinearExists
  <2> HIDE DEF F
  <2>2. \E f : F(f)
    BY <1>2, <2>1, Zenon
  <2> QED
    BY <2>2, Zenon
<1> HIDE DEF F, h
<1>4. Linear(h, n, 0, radix, Places(digits))
  BY <1>2, <1>3, Zenon
<1> QED
  BY <1>1, <1>4

\* What the digit at i stands for.
WeightOf(first, b, radix, i) ==
    IF i < first \/ text[i] = "x" THEN 0 ELSE Digit(text[i]) * Power(radix, b - i)

\* SumOf is the last value of a function that adds them.
LEMMA SumOfIs ==
    ASSUME NEW first, NEW b \in Nat, NEW radix,
           \A i \in 1..b : WeightOf(first, b, radix, i) \in Nat
    PROVE  \E sum : /\ SumOf(first, b, radix) = sum[b]
                    /\ sum[0] = 0
                    /\ \A i \in 1..b : sum[i] = sum[i - 1] + WeightOf(first, b, radix, i)
<1> DEFINE W(i) == WeightOf(first, b, radix, i)
           d == [i \in 1..b |-> W(i)]
           F(f) == f = [i \in 0..b |-> IF i = 0 THEN 0 ELSE f[i - 1] + W(i)]
           sum == CHOOSE f : F(f)
<1>1. SumOf(first, b, radix) = sum[b]
  BY DEF SumOf, WeightOf
<1>2. PICK f : Linear(f, b, 0, 1, d)
  <2> HIDE DEF d
  <2> QED
    BY LinearExists
<1>3. \A i \in 1..b : d[i] = W(i) /\ d[i] \in Nat
  <2> HIDE DEF W
  <2>1. \A i \in 1..b : W(i) \in Nat
    BY DEF W
  <2> QED
    BY <2>1
<1> HIDE DEF d, W
<1>4. \A i \in 0..b : f[i] \in Nat
  BY <1>2, <1>3, LinearType
<1>5. ASSUME NEW i \in 0..b
      PROVE  f[i] = IF i = 0 THEN 0 ELSE f[i - 1] + W(i)
  <2>1. f[i] = IF i = 0 THEN 0 ELSE f[i - 1] * 1 + d[i]
    BY <1>2, LinearIs
  <2>2. CASE i = 0
    BY <2>1, <2>2
  <2>3. CASE i # 0
    <3>1. i \in 1..b /\ i - 1 \in 0..b
      BY <2>3
    <3> QED
      BY <1>3, <1>4, <2>1, <2>3, <3>1
  <2> QED
    BY <2>2, <2>3
<1>6. f = [i \in 0..b |-> f[i]]
  BY <1>2, Zenon DEF Linear
<1>7. F(f)
  BY <1>5, <1>6, Zenon
<1>8. F(sum)
  <2> HIDE DEF F
  <2> QED
    BY <1>7, Zenon
<1>9. ASSUME NEW i \in 0..b
      PROVE  sum[i] = IF i = 0 THEN 0 ELSE sum[i - 1] + W(i)
  <2> HIDE DEF sum
  <2>1. [j \in 0..b |-> IF j = 0 THEN 0 ELSE sum[j - 1] + W(j)][i]
          = IF i = 0 THEN 0 ELSE sum[i - 1] + W(i)
    OBVIOUS
  <2> QED
    BY <1>8, <2>1, Zenon
<1> HIDE DEF sum
<1>10. sum[0] = 0 /\ \A i \in 1..b : sum[i] = sum[i - 1] + W(i)
  BY <1>9
<1> QED
  BY <1>1, <1>10 DEF W

\* The text from z to b.
DigitsFrom(z, b) == [i \in 1..(b + 1) - z |-> text[(z + i) - 1]]

\* The digits of a number with what adds nothing to it before them.
IsPadded(first, z, b, radix) ==
    /\ \A i \in first..z - 1 : text[i] = "x" \/ Digit(text[i]) = 0
    /\ \A i \in z..b : text[i] # "x" /\ Digit(text[i]) \in 0..radix - 1

\* What is read digit by digit from the left is the sum of what each stands for
\* by its place; zeroes before, and the x of a hexadecimal number, add nothing.
LEMMA ReadIsSum ==
    ASSUME NEW first \in Nat, NEW z \in Nat, NEW b \in Nat, NEW radix \in Nat,
           1 <= first, first <= z, z <= b + 1, IsPadded(first, z, b, radix)
    PROVE  /\ SumOf(first, b, radix) \in Nat
           /\ Evaluated(DigitsFrom(z, b), radix) = {SumOf(first, b, radix)}
<1>0. /\ \A i \in first..z - 1 : text[i] = "x" \/ Digit(text[i]) = 0
      /\ \A i \in z..b : text[i] # "x" /\ Digit(text[i]) \in 0..radix - 1
  BY DEF IsPadded
<1> USE <1>0
<1> DEFINE n == (b + 1) - z
           digits == [i \in 1..n |-> text[(z + i) - 1]]
           W(i) == WeightOf(first, b, radix, i)
           P(i) == Power(radix, b - i)
           e == Places(digits)
<1>1. n \in Nat /\ Len(digits) = n /\ e = [i \in 1..n |-> Digit(digits[i])]
  <2>1. n \in Nat
    OBVIOUS
  <2> HIDE DEF n
  <2> DEFINE V == {text[(z + i) - 1] : i \in 1..n}
  <2>2. digits \in Seq(V)
    <3>1. \A i \in 1..n : text[(z + i) - 1] \in V
      OBVIOUS
    <3> HIDE DEF V
    <3> QED
      BY <2>1, <3>1
  <2> HIDE DEF V
  <2>3. Len(digits) = n
    BY <2>1, <2>2, LenProperties
  <2> QED
    BY <2>1, <2>3 DEF Places
<1>2. \A i \in 1..n : e[i] = Digit(text[(z + i) - 1]) /\ e[i] \in 0..radix - 1
  <2>1. \A i \in 1..n : (z + i) - 1 \in z..b
    OBVIOUS
  <2>2. \A i \in 1..n : digits[i] = text[(z + i) - 1]
    OBVIOUS
  <2> HIDE DEF digits, n
  <2>3. \A i \in 1..n : e[i] = Digit(digits[i])
    BY <1>1
  <2> QED
    BY <2>1, <2>2, <2>3
<1>3. \A i \in 0..b : P(i) \in Nat
  <2>1. \A i \in 0..b : b - i \in Nat
    OBVIOUS
  <2>2. \A m \in Nat : Power(radix, m) \in Nat
    BY PowerIs
  <2> QED
    BY <2>1, <2>2
<1>4. /\ \A i \in 1..z - 1 : i <= b => W(i) = 0
      /\ \A i \in z..b : W(i) = Digit(text[i]) * P(i) /\ W(i) \in Nat
  <2>1. ASSUME NEW i \in 1..z - 1, i <= b
        PROVE  W(i) = 0
    <3>1. CASE i < first \/ text[i] = "x"
      BY <3>1 DEF WeightOf
    <3>2. CASE ~(i < first \/ text[i] = "x")
      <4>1. Digit(text[i]) = 0 /\ P(i) \in Nat
        BY <1>3, <2>1, <3>2
      <4>2. \A p \in Nat : 0 * p = 0
        OBVIOUS
      <4>3. W(i) = Digit(text[i]) * P(i)
        BY <3>2, Zenon DEF WeightOf
      <4> QED
        BY <4>1, <4>2, <4>3, Zenon
    <3> QED
      BY <3>1, <3>2
  <2>2. ASSUME NEW i \in z..b
        PROVE  W(i) = Digit(text[i]) * P(i) /\ W(i) \in Nat
    <3>1. ~(i < first \/ text[i] = "x")
      OBVIOUS
    <3>2. W(i) = Digit(text[i]) * P(i)
      BY <3>1, Zenon DEF WeightOf
    <3>3. Digit(text[i]) \in Nat /\ P(i) \in Nat
      BY <1>3
    <3>4. \A p, q \in Nat : p * q \in Nat
      OBVIOUS
    <3> QED
      BY <3>2, <3>3, <3>4, Zenon
  <2> QED
    BY <2>1, <2>2
<1>5. \A i \in 1..b : W(i) \in Nat
  <2> HIDE DEF W
  <2>1. \A i \in 1..b : i \in 1..z - 1 \/ i \in z..b
    OBVIOUS
  <2> QED
    BY <1>4, <2>1
<1>6. PICK sum : /\ SumOf(first, b, radix) = sum[b]
                 /\ sum[0] = 0
                 /\ \A i \in 1..b : sum[i] = sum[i - 1] + W(i)
  BY <1>5, SumOfIs
<1>7. PICK h : /\ Linear(h, n, 0, radix, e)
               /\ Evaluated(digits, radix) =
                    IF \E i \in 1..n : Digit(digits[i]) \notin 0..radix - 1
                    THEN Nothing ELSE {h[n]}
  <2> HIDE DEF digits
  <2> QED
    BY <1>1, EvaluatedIs
<1>8. Evaluated(digits, radix) = {h[n]}
  <2>1. \A i \in 1..n : Digit(digits[i]) = e[i]
    <3> HIDE DEF digits, n
    <3> QED
      BY <1>1
  <2> QED
    BY <1>2, <1>7, <2>1
<1> HIDE DEF digits, e, W, P
<1>9. \A i \in 0..n : h[i] \in Nat
  <2>1. \A i \in 1..n : e[i] \in Nat
    BY <1>2
  <2> QED
    BY <1>1, <1>7, <2>1, LinearType
<1>10. h[0] = 0 /\ \A i \in 1..n : h[i] = h[i - 1] * radix + e[i]
  <2> HIDE DEF n
  <2>1. 0 \in 0..n /\ \A i \in 1..n : i \in 0..n /\ i # 0
    BY <1>1
  <2>2. \A i \in 0..n : h[i] = IF i = 0 THEN 0 ELSE h[i - 1] * radix + e[i]
    BY <1>1, <1>7, LinearIs
  <2> QED
    BY <2>1, <2>2
<1> DEFINE T == {i \in Nat : i <= b =>
                    sum[i] = IF i < z THEN 0 ELSE h[(i + 1) - z] * P(i)}
<1>11. 0 \in T
  BY <1>6
<1>12. ASSUME NEW i \in Nat, i \in T
       PROVE  i + 1 \in T
  <2> SUFFICES ASSUME i + 1 <= b
               PROVE  sum[i + 1] = IF i + 1 < z THEN 0 ELSE h[(i + 2) - z] * P(i + 1)
    OBVIOUS
  <2>1. /\ i \in 0..b /\ i + 1 \in 1..b /\ i <= b
        /\ sum[i + 1] = sum[i] + W(i + 1)
    BY <1>6
  <2>2. sum[i] = IF i < z THEN 0 ELSE h[(i + 1) - z] * P(i)
    BY <1>12, <2>1
  <2>3. CASE i + 1 < z
    <3>1. W(i + 1) = 0 /\ sum[i] = 0
      BY <1>4, <2>2, <2>3
    <3> QED
      BY <2>1, <2>3, <3>1
  <2>4. CASE ~(i + 1 < z)
    <3> DEFINE j == (i + 1) - z
               p == P(i + 1)
               q == h[j]
               c == e[j + 1]
    <3>1. /\ j \in 0..n /\ j + 1 \in 1..n /\ j + 1 \in 0..n /\ i + 1 \in z..b
          /\ (z + (j + 1)) - 1 = i + 1 /\ (i + 2) - z = j + 1 /\ (j + 1) - 1 = j
      BY <2>1, <2>4
    <3>2. P(i) = p * radix /\ p \in Nat /\ P(i) \in Nat
      <4> DEFINE k == (b - i) - 1
      <4>1. k \in Nat /\ b - i = k + 1 /\ b - (i + 1) = k
        BY <2>1
      <4> HIDE DEF k
      <4>2. Power(radix, k + 1) = Power(radix, k) * radix /\ Power(radix, k) \in Nat
            /\ Power(radix, k + 1) \in Nat
        <5>1. \A m \in Nat : /\ Power(radix, m) \in Nat
                             /\ Power(radix, m + 1) = Power(radix, m) * radix
          BY PowerIs
        <5>2. k + 1 \in Nat
          BY <4>1
        <5> QED
          BY <4>1, <5>1, <5>2, Zenon
      <4> QED
        BY <4>1, <4>2 DEF P
    <3>3. c \in Nat /\ W(i + 1) = c * p
      <4>1. e[j + 1] = Digit(text[i + 1]) /\ e[j + 1] \in 0..radix - 1
        <5> DEFINE m == j + 1
        <5>1. m \in 1..n /\ (z + m) - 1 = i + 1
          BY <3>1
        <5> HIDE DEF m
        <5>2. e[m] = Digit(text[(z + m) - 1]) /\ e[m] \in 0..radix - 1
          BY <1>2, <5>1, Zenon
        <5>3. e[m] = Digit(text[i + 1]) /\ e[m] \in 0..radix - 1
          BY <5>1, <5>2, Zenon
        <5> QED
          BY <5>3 DEF m
      <4>2. W(i + 1) = Digit(text[i + 1]) * P(i + 1)
        BY <1>4, <3>1
      <4> QED
        BY <4>1, <4>2
    <3>4. sum[i] = q * P(i) /\ q \in Nat
      <4>1. q \in Nat
        BY <1>9, <3>1
      <4>2. CASE i < z
        <5>1. j = 0
          BY <2>4, <4>2
        <5>2. q = 0
          BY <1>10, <5>1
        <5>3. \A x \in Nat : 0 * x = 0
          OBVIOUS
        <5>4. q * P(i) = 0
          BY <3>2, <5>2, <5>3, Zenon
        <5> QED
          BY <2>2, <4>1, <4>2, <5>4
      <4>3. CASE ~(i < z)
        BY <2>2, <4>1, <4>3
      <4> QED
        BY <4>2, <4>3
    <3>5. h[j + 1] = q * radix + c
      BY <1>10, <3>1
    <3> HIDE DEF j, p, q, c
    <3>6. sum[i + 1] = q * (p * radix) + c * p
      BY <2>1, <3>2, <3>3, <3>4, Zenon
    <3>7. \A u, v, w, x \in Nat : u * (v * w) + x * v = (u * w + x) * v
      OBVIOUS
    <3> DEFINE Good(u, v, w, x) == u * (v * w) + x * v = (u * w + x) * v
    <3>8. \A u, v, w, x \in Nat : Good(u, v, w, x)
      BY <3>7, Zenon
    <3> HIDE DEF Good
    <3>9. sum[i + 1] = h[j + 1] * p
      <4>1. q * (p * radix) + c * p = (q * radix + c) * p
        <5>1. p \in Nat /\ q \in Nat /\ c \in Nat /\ radix \in Nat
          BY <3>2, <3>3, <3>4
        <5> QED
          <6>1. Good(q, p, radix, c)
            BY <5>1, <3>8, Zenon
          <6> QED
            BY <6>1, Zenon DEF Good
      <4> QED
        BY <3>5, <3>6, <4>1, Zenon
    <3> QED
      BY <2>4, <3>1, <3>9 DEF p
  <2> QED
    BY <2>3, <2>4
<1> HIDE DEF T
<1>13. b \in T
  BY <1>11, <1>12, SetInduction
<1>14. sum[b] = IF b < z THEN 0 ELSE h[(b + 1) - z] * P(b)
  BY <1>13 DEF T
<1>15. sum[b] = h[n]
  <2>1. CASE b < z
    <3>1. n = 0
      BY <2>1
    <3> QED
      BY <1>10, <1>14, <2>1, <3>1
  <2>2. CASE ~(b < z)
    <3>1. P(b) = 1
      <4>1. b - b = 0
        OBVIOUS
      <4> QED
        BY <4>1, PowerIs DEF P
    <3>2. h[n] \in Nat
      BY <1>1, <1>9
    <3>3. h[(b + 1) - z] = h[n]
      OBVIOUS
    <3>4. \A x \in Nat : x * 1 = x
      OBVIOUS
    <3> QED
      BY <1>14, <2>2, <3>1, <3>2, <3>3, <3>4, Zenon
  <2> QED
    BY <2>1, <2>2
<1>16. h[n] \in Nat
  BY <1>1, <1>9
<1>17. Evaluated(DigitsFrom(z, b), radix) = {h[n]}
  <2>1. DigitsFrom(z, b) = digits
    BY DEF DigitsFrom, digits, n
  <2> QED
    BY <1>8, <2>1
<1> QED
  BY <1>6, <1>15, <1>16, <1>17

-----------------------------------------------------------------------------
(* Digits.                                                                 *)

\* The digits, one by one.
LEMMA DigitsOfIs ==
    /\ DigitsOf[1] = "0" /\ DigitsOf[2] = "1" /\ DigitsOf[3] = "2" /\ DigitsOf[4] = "3"
    /\ DigitsOf[5] = "4" /\ DigitsOf[6] = "5" /\ DigitsOf[7] = "6" /\ DigitsOf[8] = "7"
    /\ DigitsOf[9] = "8" /\ DigitsOf[10] = "9" /\ DigitsOf[11] = "a" /\ DigitsOf[12] = "b"
    /\ DigitsOf[13] = "c" /\ DigitsOf[14] = "d" /\ DigitsOf[15] = "e" /\ DigitsOf[16] = "f"
BY DEF DigitsOf

\* Every digit has one value.
LEMMA DigitIs ==
    ASSUME NEW i \in 1..16
    PROVE  Digit(DigitsOf[i]) = i - 1
<1> DEFINE ch == DigitsOf[i]
           j == CHOOSE k \in 1..16 : DigitsOf[k] = ch
<1>1. \E k \in 1..16 : DigitsOf[k] = ch
  OBVIOUS
<1>2. j \in 1..16 /\ DigitsOf[j] = DigitsOf[i]
  BY <1>1
<1>3. Digit(ch) = j - 1
  <2>1. ch \notin Alphas \ {"a", "e", "f"}
    <3>1. \A k \in 1..16 : k = 1 \/ k = 2 \/ k = 3 \/ k = 4 \/ k = 5 \/ k = 6 \/ k = 7 \/ k = 8
                           \/ k = 9 \/ k = 10 \/ k = 11 \/ k = 12 \/ k = 13 \/ k = 14 \/ k = 15 \/ k = 16
      OBVIOUS
    <3> QED
      BY <3>1, DigitsOfIs DEF Alphas
  <2> HIDE DEF ch
  <2> QED
    BY <1>1, <2>1 DEF Digit
<1> HIDE DEF j
<1>4. j = i
  <2> DEFINE D == DigitsOf
  <2>1. \A k \in 1..16 : k = 1 \/ k = 2 \/ k = 3 \/ k = 4 \/ k = 5 \/ k = 6 \/ k = 7 \/ k = 8
                         \/ k = 9 \/ k = 10 \/ k = 11 \/ k = 12 \/ k = 13 \/ k = 14 \/ k = 15 \/ k = 16
    OBVIOUS
  <2> QED
    BY <1>2, <2>1, DigitsOfIs
<1> QED
  BY <1>3, <1>4

\* The characters of numbers.
LEMMA DigitsAre ==
    /\ Digit(Zero) = 0
    /\ \A ch \in Digits : Digit(ch) \in 0..10 - 1
    /\ \A ch \in HexDigits : Digit(ch) \in 0..16 - 1
    /\ Digit("x") \notin 0..10 - 1
    /\ \A ch \in {Period} \union Signs : Digit(ch) \notin 0..10 - 1 /\ Digit(ch) \notin 0..16 - 1
<1>1. /\ Digit("0") = 0 /\ Digit("1") = 1 /\ Digit("7") = 7
      /\ Digit("a") = 10 /\ Digit("e") = 14 /\ Digit("f") = 15
  <2>1. 1 \in 1..16 /\ 2 \in 1..16 /\ 8 \in 1..16 /\ 11 \in 1..16 /\ 15 \in 1..16 /\ 16 \in 1..16
    OBVIOUS
  <2>2. \A i \in 1..16 : Digit(DigitsOf[i]) = i - 1
    BY DigitIs
  <2> QED
    BY <2>1, <2>2, DigitsOfIs
<1>2. ASSUME NEW ch \in {"x", "+", "-", "."}
      PROVE  ~\E i \in 1..16 : DigitsOf[i] = ch
  <2>1. \A k \in 1..16 : k = 1 \/ k = 2 \/ k = 3 \/ k = 4 \/ k = 5 \/ k = 6 \/ k = 7 \/ k = 8
                         \/ k = 9 \/ k = 10 \/ k = 11 \/ k = 12 \/ k = 13 \/ k = 14 \/ k = 15 \/ k = 16
    OBVIOUS
  <2> QED
    BY <2>1, DigitsOfIs
<1>3. Digit("x") = 16
  <2>1. "x" \in Alphas \ {"a", "e", "f"}
    BY DEF Alphas
  <2> QED
    BY <1>2, <2>1 DEF Digit
<1>4. ASSUME NEW ch \in {"+", "-", "."}
      PROVE  Digit(ch) = -1
  <2>1. ch \notin Alphas
    BY DEF Alphas
  <2> QED
    BY <1>2, <2>1 DEF Digit
<1> QED
  BY <1>1, <1>3, <1>4 DEF Zero, Digits, HexDigits, Period, Signs

-----------------------------------------------------------------------------
(* What string_to_integer() reads.                                         *)

\* Nothing is taken away from a text that has no blanks.
LEMMA NotBlankIsKept ==
    ASSUME NEW X, NEW w \in Seq(X), \A i \in 1..Len(w) : ~IsBlank(w[i])
    PROVE  LStrip(w) = w /\ WithoutBlanksAfter(w) = w /\ SubSeq(w, 1, Len(w)) = w
<1> DEFINE n == Len(w)
           part == SubSeq(w, 1, n)
<1>1. n \in Nat
  BY LenProperties
<1>2. part = w
  <2>1. part \in Seq(X) /\ Len(part) = (n - 1) + 1 /\ \A i \in 1..(n - 1) + 1 : part[i] = w[(1 + i) - 1]
    <3> HIDE DEF n
    <3> QED
      BY <1>1, PartFacts DEF n
  <2>2. Len(part) = n /\ \A i \in 1..n : part[i] = w[i]
    <3>1. (n - 1) + 1 = n /\ \A i \in 1..n : (1 + i) - 1 = i
      BY <1>1
    <3> HIDE DEF part, n
    <3> QED
      BY <2>1, <3>1
  <2> HIDE DEF part
  <2> QED
    BY <2>1, <2>2, SeqEqual
<1>3. LStrip(w) = w
  <2>1. CASE LStrip(w) = <<>> /\ \A k \in 1..n : IsBlank(w[k])
    <3>1. n = 0
      BY <1>1, <2>1
    <3> QED
      BY <2>1, <3>1, EmptySeq
  <2>2. CASE \E f \in 1..n : /\ LStrip(w) = SubSeq(w, f, n)
                             /\ \A k \in 1..f - 1 : IsBlank(w[k])
    <3>1. PICK f \in 1..n : LStrip(w) = SubSeq(w, f, n) /\ \A k \in 1..f - 1 : IsBlank(w[k])
      BY <2>2
    <3>2. f = 1
      <4>1. f # 1 => 1 \in 1..f - 1 /\ 1 \in 1..n
        BY <1>1
      <4> QED
        BY <3>1, <4>1
    <3> QED
      BY <1>2, <3>1, <3>2
  <2> QED
    BY <2>1, <2>2, LStripIs
<1>4. WithoutBlanksAfter(w) = w
  <2>1. PICK l \in 0..n : /\ WithoutBlanksAfter(w) = SubSeq(w, 1, l)
                          /\ \A k \in l + 1..n : IsBlank(w[k])
    BY WithoutBlanksAfterIs
  <2>2. l = n
    <3>1. l # n => n \in l + 1..n /\ n \in 1..n
      BY <1>1
    <3> QED
      BY <2>1, <3>1
  <2> QED
    BY <1>2, <2>1, <2>2
<1> QED
  BY <1>2, <1>3, <1>4

\* A text that has neither a minus nor a prefix.
LEMMA ReadPlain ==
    ASSUME NEW X, NEW w \in Seq(X), \A i \in 1..Len(w) : ~IsBlank(w[i]),
           w # <<>> => w[1] # "-" /\ w[1] # "$",
           ~(Len(w) > 2 /\ w[1] = "0" /\ w[2] \in {"x", "b"})
    PROVE  StringToInteger(w, Long) = {Wrapped(n, Long) : n \in Evaluated(w, 10)}
<1> DEFINE body0  == LStrip(w)
           signed == body0 # <<>> /\ body0[1] = "-"
           body   == IF signed THEN Tail(body0) ELSE body0
           prefix == RadixPrefix(body, signed)
           rest   == WithoutBlanksAfter(SubSeq(body, prefix.skip + 1, Len(body)))
           minus  == Long.min < 0 /\ Len(rest) > 1 /\ rest[1] = "-"
           found  == Evaluated(IF minus THEN Tail(rest) ELSE rest, prefix.radix)
<1>1. StringToInteger(w, Long) =
        IF signed /\ Long.min = 0 THEN Nothing
        ELSE {Wrapped(IF signed # minus THEN -n ELSE n, Long) : n \in found}
  BY DEF StringToInteger
<1>2. body0 = w
  BY NotBlankIsKept
<1> HIDE DEF body0
<1>3. signed = FALSE
  BY <1>2
<1> HIDE DEF signed
<1>4. body = w
  BY <1>2, <1>3
<1> HIDE DEF body
<1>5. prefix = [radix |-> 10, skip |-> 0]
  BY <1>3, <1>4, Zenon DEF RadixPrefix
<1>6. prefix.radix = 10 /\ prefix.skip + 1 = 1
  BY <1>5
<1> HIDE DEF prefix
<1>7. rest = w
  BY <1>4, <1>6, NotBlankIsKept
<1> HIDE DEF rest
<1>8. minus = FALSE
  <2>1. w = <<>> => Len(w) = 0
    BY EmptySeq
  <2>2. Len(w) > 1 => w # <<>>
    BY <2>1
  <2> QED
    BY <1>7, <2>2
<1> HIDE DEF minus
<1>9. found = Evaluated(w, 10)
  BY <1>6, <1>7, <1>8
<1> HIDE DEF found
<1> QED
  BY <1>1, <1>3, <1>8, <1>9, Zenon

\* A text with a minus is read in radix 10.
LEMMA ReadMinus ==
    ASSUME NEW X, NEW w \in Seq(X), \A i \in 1..Len(w) : ~IsBlank(w[i]),
           w # <<>>, w[1] = "-", Tail(w) # <<>> => Tail(w)[1] # "-"
    PROVE  StringToInteger(w, Long) = {Wrapped(-n, Long) : n \in Evaluated(Tail(w), 10)}
<1> DEFINE body0  == LStrip(w)
           signed == body0 # <<>> /\ body0[1] = "-"
           body   == IF signed THEN Tail(body0) ELSE body0
           prefix == RadixPrefix(body, signed)
           rest   == WithoutBlanksAfter(SubSeq(body, prefix.skip + 1, Len(body)))
           minus  == Long.min < 0 /\ Len(rest) > 1 /\ rest[1] = "-"
           found  == Evaluated(IF minus THEN Tail(rest) ELSE rest, prefix.radix)
<1>1. StringToInteger(w, Long) =
        IF signed /\ Long.min = 0 THEN Nothing
        ELSE {Wrapped(IF signed # minus THEN -n ELSE n, Long) : n \in found}
  BY DEF StringToInteger
<1>2. body0 = w
  BY NotBlankIsKept
<1> HIDE DEF body0
<1>3. signed
  BY <1>2
<1> HIDE DEF signed
<1>4. body = Tail(w)
  BY <1>2, <1>3
<1> HIDE DEF body
<1>5. prefix = [radix |-> 10, skip |-> 0]
  BY <1>3, <1>4, Zenon DEF RadixPrefix
<1>6. prefix.radix = 10 /\ prefix.skip + 1 = 1
  BY <1>5
<1> HIDE DEF prefix
<1>7. Tail(w) \in Seq(X) /\ \A i \in 1..Len(Tail(w)) : ~IsBlank(Tail(w)[i])
  <2>1. Tail(w) \in Seq(X) /\ Len(Tail(w)) = Len(w) - 1 /\ \A i \in 1..Len(w) - 1 : Tail(w)[i] = w[i + 1]
    BY HeadTailProperties
  <2>2. Len(w) \in Nat
    BY LenProperties
  <2> QED
    BY <2>1, <2>2
<1>8. rest = Tail(w)
  BY <1>4, <1>6, <1>7, NotBlankIsKept
<1> HIDE DEF rest
<1>9. ~minus
  <2>1. Tail(w) = <<>> => Len(Tail(w)) = 0
    BY EmptySeq
  <2>2. Len(Tail(w)) > 1 => Tail(w) # <<>>
    BY <2>1
  <2> QED
    BY <1>8, <2>2
<1> HIDE DEF minus
<1>10. found = Evaluated(Tail(w), 10)
  BY <1>6, <1>8, <1>9
<1> HIDE DEF found
<1>11. Long.min # 0
  BY DEF Long
<1> QED
  BY <1>1, <1>3, <1>9, <1>10, <1>11, Zenon

\* A text with a prefix is read in radix 16.
LEMMA ReadPrefixed ==
    ASSUME NEW X, NEW w \in Seq(X), \A i \in 1..Len(w) : ~IsBlank(w[i]),
           Len(w) > 2, w[1] = "0", w[2] = "x", w[3] # "-"
    PROVE  StringToInteger(w, Long) =
             {Wrapped(n, Long) : n \in Evaluated(SubSeq(w, 3, Len(w)), 16)}
<1> DEFINE body0  == LStrip(w)
           signed == body0 # <<>> /\ body0[1] = "-"
           body   == IF signed THEN Tail(body0) ELSE body0
           prefix == RadixPrefix(body, signed)
           rest   == WithoutBlanksAfter(SubSeq(body, prefix.skip + 1, Len(body)))
           minus  == Long.min < 0 /\ Len(rest) > 1 /\ rest[1] = "-"
           found  == Evaluated(IF minus THEN Tail(rest) ELSE rest, prefix.radix)
           part == SubSeq(w, 3, Len(w))
<1>1. StringToInteger(w, Long) =
        IF signed /\ Long.min = 0 THEN Nothing
        ELSE {Wrapped(IF signed # minus THEN -n ELSE n, Long) : n \in found}
  BY DEF StringToInteger
<1>2. body0 = w
  BY NotBlankIsKept
<1> HIDE DEF body0
<1>3. signed = FALSE
  BY <1>2
<1> HIDE DEF signed
<1>4. body = w
  BY <1>2, <1>3
<1> HIDE DEF body
<1>5. w # <<>> /\ Len(w) \in Nat
  BY EmptySeq, LenProperties
<1>6. prefix = [radix |-> 16, skip |-> 2]
  <2>1. w[1] # "$" /\ w[2] \in {"x", "b"}
    OBVIOUS
  <2> QED
    BY <1>3, <1>4, <1>5, <2>1, Zenon DEF RadixPrefix
<1>7. prefix.radix = 16 /\ prefix.skip + 1 = 3
  BY <1>6
<1> HIDE DEF prefix
<1>8. /\ part \in Seq(X) /\ Len(part) = (Len(w) - 3) + 1
      /\ \A i \in 1..(Len(w) - 3) + 1 : part[i] = w[(3 + i) - 1]
  <2> DEFINE b == Len(w)
  <2>1. b \in Int /\ 1 <= 3 /\ b <= Len(w) /\ 3 <= b + 1 /\ 3 \in Int
    BY <1>5
  <2> HIDE DEF b
  <2>2. /\ SubSeq(w, 3, b) \in Seq(X) /\ Len(SubSeq(w, 3, b)) = (b - 3) + 1
        /\ \A i \in 1..(b - 3) + 1 : SubSeq(w, 3, b)[i] = w[(3 + i) - 1]
    BY <2>1, PartFacts
  <2> QED
    BY <2>2 DEF b
<1>9. \A i \in 1..Len(part) : ~IsBlank(part[i])
  <2>1. \A i \in 1..(Len(w) - 3) + 1 : (3 + i) - 1 \in 1..Len(w)
    BY <1>5
  <2> HIDE DEF part
  <2> QED
    BY <1>8, <2>1
<1>10. part[1] = w[3]
  <2>1. 1 \in 1..(Len(w) - 3) + 1 /\ (3 + 1) - 1 = 3
    BY <1>5
  <2> HIDE DEF part
  <2> QED
    BY <1>8, <2>1
<1>11. rest = part
  <2>1. WithoutBlanksAfter(part) = part
    <3> HIDE DEF part
    <3> QED
      BY <1>8, <1>9, NotBlankIsKept
  <2> QED
    BY <1>4, <1>7, <2>1
<1> HIDE DEF rest
<1>12. minus = FALSE
  BY <1>10, <1>11
<1> HIDE DEF minus
<1>13. found = Evaluated(part, 16)
  BY <1>7, <1>11, <1>12
<1> HIDE DEF found
<1> QED
  BY <1>1, <1>3, <1>12, <1>13, Zenon

\* A number in the range of a type is converted to itself.
LEMMA WrappedIs ==
    ASSUME NEW type \in Types, NEW n \in type.min..type.max
    PROVE  Wrapped(n, type) = n
<1>1. type \in {[min |-> -8, max |-> 7], [min |-> 0, max |-> 15],
                [min |-> -512, max |-> 511], [min |-> 0, max |-> 1023]}
  BY DEF Types, Long
<1>2. CASE type = [min |-> -8, max |-> 7]
  <2>1. type.min = -8 /\ type.max = 7
    BY <1>2
  <2>2. n \in Int /\ -8 <= n /\ n <= 7
    BY <2>1
  <2>3. (n + 8) % 16 = n + 8
    BY <2>2
  <2>4. n - (-8) = n + 8 /\ (7 - (-8)) + 1 = 16 /\ -8 + (n + 8) = n
    BY <2>2
  <2> QED
    BY <2>1, <2>3, <2>4 DEF Wrapped
<1>3. CASE type = [min |-> 0, max |-> 15]
  <2>1. type.min = 0 /\ type.max = 15
    BY <1>3
  <2>2. n \in Int /\ 0 <= n /\ n <= 15
    BY <2>1
  <2>3. n % 16 = n
    BY <2>2
  <2>4. n - 0 = n /\ (15 - 0) + 1 = 16 /\ 0 + n = n
    BY <2>2
  <2> QED
    BY <2>1, <2>3, <2>4 DEF Wrapped
<1>4. CASE type = [min |-> -512, max |-> 511]
  <2>1. type.min = -512 /\ type.max = 511
    BY <1>4
  <2>2. n \in Int /\ -512 <= n /\ n <= 511
    BY <2>1
  <2>3. (n + 512) % 1024 = n + 512
    BY <2>2
  <2>4. n - (-512) = n + 512 /\ (511 - (-512)) + 1 = 1024 /\ -512 + (n + 512) = n
    BY <2>2
  <2> QED
    BY <2>1, <2>3, <2>4 DEF Wrapped
<1>5. CASE type = [min |-> 0, max |-> 1023]
  <2>1. type.min = 0 /\ type.max = 1023
    BY <1>5
  <2>2. n \in Int /\ 0 <= n /\ n <= 1023
    BY <2>1
  <2>3. n % 1024 = n
    BY <2>2
  <2>4. n - 0 = n /\ (1023 - 0) + 1 = 1024 /\ 0 + n = n
    BY <2>2
  <2> QED
    BY <2>1, <2>3, <2>4 DEF Wrapped
<1> QED
  BY <1>1, <1>2, <1>3, <1>4, <1>5

\* Long is one of the types, and its range.
LEMMA LongIs == Long \in Types /\ Long.min = -512 /\ Long.max = 511
BY DEF Long, Types

\* A token whose text is read as a number in the range of long.
LEMMA ValueIsRead ==
    ASSUME NEW token, IsNumberCode(token.code), NEW n \in Long.min..Long.max,
           StringToInteger(Spelling(token), Long) = {n}
    PROVE  /\ \A type \in Types :
                 ~(n < 0 /\ type.max > Long.max) =>
                    TokenValue(token, type, Long) =
                       IF n \in type.min..type.max THEN Value(n) ELSE SyntaxError
           /\ TokenTruth(token, Long) = Value(IF n = 0 THEN 0 ELSE 1)
<1>1. {n} # Nothing
  BY DEF Nothing
<1>2. (CHOOSE v \in {n} : TRUE) = n
  OBVIOUS
<1>3. \A type : TokenValue(token, type, Long) =
                  IF InRange(n, type, Long) THEN Value(Wrapped(n, type)) ELSE SyntaxError
  <2> DEFINE parsed == StringToInteger(Spelling(token), Long)
             v == CHOOSE k \in parsed : TRUE
  <2>1. \A type : TokenValue(token, type, Long) =
                    IF ~IsNumberCode(token.code) THEN SyntaxError
                    ELSE IF parsed = Nothing THEN Aborts
                    ELSE IF InRange(v, type, Long) THEN Value(Wrapped(v, type))
                    ELSE SyntaxError
    BY DEF TokenValue
  <2>2. parsed # Nothing /\ v = n
    BY <1>1, <1>2
  <2> HIDE DEF parsed, v
  <2> QED
    BY <2>1, <2>2, Zenon
<1>4. ASSUME NEW type \in Types, ~(n < 0 /\ type.max > Long.max)
      PROVE  TokenValue(token, type, Long) =
               IF n \in type.min..type.max THEN Value(n) ELSE SyntaxError
  <2>1. InRange(n, type, Long) <=> n \in type.min..type.max
    <3>1. type.min = 0 /\ type.max = Long.max - Long.min => n \in type.min..type.max
      BY <1>4, LongIs
    <3> QED
      BY <3>1, Zenon DEF InRange
  <2>2. n \in type.min..type.max => Wrapped(n, type) = n
    BY WrappedIs
  <2> QED
    BY <1>3, <2>1, <2>2, Zenon
<1>5. TokenTruth(token, Long) = Value(IF {n} = {0} THEN 0 ELSE 1)
  BY <1>1, Zenon DEF TokenTruth
<1>6. {n} = {0} <=> n = 0
  OBVIOUS
<1> QED
  BY <1>4, <1>5, <1>6, Zenon

\* And one whose text is not read as a number.
LEMMA NoValueIsRead ==
    ASSUME NEW token, IsNumberCode(token.code), StringToInteger(Spelling(token), Long) = Nothing
    PROVE  \A type \in Types : TokenValue(token, type, Long) = Aborts
BY Zenon DEF TokenValue

\* One digit more.
LEMMA EvaluatedGrows ==
    ASSUME NEW X, NEW s \in Seq(X), NEW ch \in X, NEW radix \in Nat, NEW v, Evaluated(s, radix) = {v},
           Digit(ch) \in 0..radix - 1
    PROVE  Evaluated(Append(s, ch), radix) = {v * radix + Digit(ch)}
<1> DEFINE n == Len(s)
           t == Append(s, ch)
           m == n + 1
<1>1. n \in Nat /\ t \in Seq(X) /\ Len(t) = m /\ t[m] = ch /\ \A i \in 1..n : t[i] = s[i]
  BY LenProperties, AppendProperties
<1>2. n <= n /\ n <= m /\ m \in Nat /\ m \in 0..m /\ n \in 0..n /\ m # 0 /\ m - 1 = n
      /\ \A i \in 1..m : i \in 1..n \/ i = m
  BY <1>1
<1>3. PICK f : /\ Linear(f, n, 0, radix, Places(s))
               /\ Evaluated(s, radix) =
                    IF \E i \in 1..n : Digit(s[i]) \notin 0..radix - 1 THEN Nothing ELSE {f[n]}
  BY <1>1, EvaluatedIs
<1> HIDE DEF t
<1>4. PICK g : /\ Linear(g, m, 0, radix, Places(t))
               /\ Evaluated(t, radix) =
                    IF \E i \in 1..m : Digit(t[i]) \notin 0..radix - 1 THEN Nothing ELSE {g[m]}
  <2>1. Len(t) \in Nat
    BY <1>1, <1>2
  <2> HIDE DEF m
  <2>2. \E g : /\ Linear(g, Len(t), 0, radix, Places(t))
               /\ Evaluated(t, radix) =
                    IF \E i \in 1..Len(t) : Digit(t[i]) \notin 0..radix - 1
                    THEN Nothing ELSE {g[Len(t)]}
    BY <2>1, EvaluatedIs
  <2> QED
    BY <1>1, <2>2
<1> HIDE DEF n, m
<1>5. (\A i \in 1..n : Digit(s[i]) \in 0..radix - 1) /\ f[n] = v
  <2>1. {v} # Nothing
    BY DEF Nothing
  <2>2. ~\E i \in 1..n : Digit(s[i]) \notin 0..radix - 1
    BY <1>3, <2>1, Zenon
  <2>3. {f[n]} = {v}
    BY <1>3, <2>2, Zenon
  <2> QED
    BY <2>2, <2>3
<1>6. Evaluated(t, radix) = {g[m]}
  <2>1. \A i \in 1..m : Digit(t[i]) \in 0..radix - 1
    BY <1>1, <1>2, <1>5
  <2> QED
    BY <1>4, <2>1
<1>7. Places(s) = [i \in 1..n |-> Digit(s[i])] /\ Places(t) = [i \in 1..m |-> Digit(t[i])]
  BY <1>1, Zenon DEF Places, n
<1>8. \A i \in 1..n : Places(s)[i] = Places(t)[i]
  BY <1>1, <1>2, <1>7
<1>9. g[n] = f[n]
  <2>1. Agree(Places(s), Places(t), n)
    BY <1>8 DEF Agree
  <2>2. n \in Nat /\ m \in Nat /\ n <= m
    BY <1>1, <1>2
  <2>3. Linear(f, n, 0, radix, Places(s)) /\ Linear(g, m, 0, radix, Places(t))
    BY <1>3, <1>4, Zenon
  <2>4. f[n] = g[n]
    BY <2>1, <2>2, <2>3, LinearAgree, Zenon
  <2> QED
    BY <2>4
<1>10. g[m] = g[m - 1] * radix + Places(t)[m]
  BY <1>2, <1>4, LinearIs
<1>11. Places(t)[m] = Digit(ch)
  <2>1. m \in 1..m
    BY <1>2
  <2> QED
    BY <1>1, <1>7, <2>1
<1> QED
  BY <1>2, <1>5, <1>6, <1>9, <1>10, <1>11 DEF t

\* The last digit of m, and the text of m from the texts of smaller numbers.
LastDigit(m) == DigitsOf[(m % 10) + 1]
WriteStep(g, m) == IF m < 10 THEN <<LastDigit(m)>> ELSE Append(g[m \div 10], LastDigit(m))

\* g is what IntegerToString computes for the numbers up to n.
Writes(g, n) == g = [m \in 0..n |-> WriteStep(g, m)]

\* What g has for one number.
LEMMA WritesIs ==
    ASSUME NEW g, NEW n \in Nat, Writes(g, n), NEW m \in 0..n
    PROVE  g[m] = WriteStep(g, m)
<1>1. [k \in 0..n |-> WriteStep(g, k)][m] = WriteStep(g, m)
  OBVIOUS
<1> QED
  BY <1>1, Zenon DEF Writes

\* There is such a function for every number.
LEMMA WritesExists ==
    ASSUME NEW n \in Nat
    PROVE  \E g : Writes(g, n)
<1> DEFINE T == {m \in Nat : \E g : Writes(g, m)}
<1>1. 0 \in T
  <2> DEFINE g == [m \in 0..0 |-> <<LastDigit(m)>>]
  <2>1. \A m \in 0..0 : WriteStep(g, m) = <<LastDigit(m)>>
    BY DEF WriteStep
  <2>2. g = [m \in 0..0 |-> WriteStep(g, m)]
    BY <2>1, Zenon
  <2> HIDE DEF g
  <2>3. Writes(g, 0)
    BY <2>2 DEF Writes
  <2> QED
    BY <2>3
<1>2. ASSUME NEW n0 \in Nat, n0 \in T
      PROVE  n0 + 1 \in T
  <2>1. PICK g : Writes(g, n0)
    BY <1>2
  <2> DEFINE last == WriteStep(g, n0 + 1)
             h == [m \in 0..n0 + 1 |-> IF m <= n0 THEN g[m] ELSE last]
  <2> HIDE DEF last
  <2>2. /\ \A m \in 0..n0 : h[m] = g[m]
        /\ h[n0 + 1] = last
        /\ h = [m \in 0..n0 + 1 |-> h[m]]
    OBVIOUS
  <2> HIDE DEF h
  <2>3. ASSUME NEW m \in 0..n0 + 1
        PROVE  h[m] = WriteStep(h, m)
    <3>1. m < 10 \/ m \div 10 \in 0..n0
      OBVIOUS
    <3>2. m < 10 \/ h[m \div 10] = g[m \div 10]
      BY <2>2, <3>1
    <3>3. WriteStep(h, m) = WriteStep(g, m)
      BY <3>2, Zenon DEF WriteStep
    <3>4. m \in 0..n0 \/ m = n0 + 1
      OBVIOUS
    <3>5. CASE m \in 0..n0
      <4>1. g[m] = WriteStep(g, m)
        BY <2>1, <3>5, WritesIs, Zenon
      <4> QED
        BY <2>2, <3>3, <3>5, <4>1, Zenon
    <3>6. CASE m = n0 + 1
      BY <2>2, <3>3, <3>6, Zenon DEF last
    <3> QED
      BY <3>4, <3>5, <3>6
  <2>4. Writes(h, n0 + 1)
    BY <2>2, <2>3, Zenon DEF Writes
  <2> QED
    BY <2>4
<1> HIDE DEF T
<1>3. n \in T
  BY <1>1, <1>2, SetInduction
<1> QED
  BY <1>3 DEF T

\* The digits of decimal numbers.
Decimals == {DigitsOf[i] : i \in 1..10}

\* What a text of a number is.
IsTextOf(s, m) ==
    /\ s \in Seq(Decimals)
    /\ s # <<>>
    /\ Evaluated(s, 10) = {m}
    /\ m >= 1 => s[1] # "0"
    /\ m = 0 => Len(s) = 1

\* A decimal digit is a digit below ten and nothing else that is looked for.
LEMMA DecimalsAre ==
    ASSUME NEW ch \in Decimals
    PROVE  /\ Digit(ch) \in 0..10 - 1
           /\ ch = "0" <=> Digit(ch) = 0
           /\ ~IsBlank(ch) /\ ch # "-" /\ ch # "$" /\ ch # "x" /\ ch # "b"
<1>1. PICK i \in 1..10 : ch = DigitsOf[i]
  BY DEF Decimals
<1>2. i \in 1..16
  OBVIOUS
<1>3. Digit(ch) = i - 1
  BY <1>1, <1>2, DigitIs
<1>4. i = 1 \/ i = 2 \/ i = 3 \/ i = 4 \/ i = 5 \/ i = 6 \/ i = 7 \/ i = 8 \/ i = 9 \/ i = 10
  OBVIOUS
<1>5. /\ ~IsBlank(ch) /\ ch # "-" /\ ch # "$" /\ ch # "x" /\ ch # "b"
      /\ ch = "0" <=> i = 1
  BY <1>1, <1>4, DigitsOfIs DEF IsBlank, Space, LineFeed, Return
<1> QED
  BY <1>3, <1>5

\* The text of one digit.
LEMMA OneDigit ==
    ASSUME NEW X, NEW ch \in X, NEW radix \in Nat, Digit(ch) \in 0..radix - 1
    PROVE  Evaluated(<<ch>>, radix) = {Digit(ch)} /\ Evaluated(<<>>, radix) = {0}
<1>1. Evaluated(<<>>, radix) = {0}
  <2> DEFINE s == <<>>
  <2>1. s \in Seq(X) /\ Len(s) = 0
    BY EmptySeq
  <2> HIDE DEF s
  <2>2. PICK f : /\ Linear(f, Len(s), 0, radix, Places(s))
                 /\ Evaluated(s, radix) =
                      IF \E i \in 1..Len(s) : Digit(s[i]) \notin 0..radix - 1
                      THEN Nothing ELSE {f[Len(s)]}
    <3>1. Len(s) \in Nat
      BY <2>1
    <3> QED
      BY <3>1, EvaluatedIs, Zenon
  <2>3. f[0] = 0
    <3> DEFINE n == Len(s)
               d == Places(s)
    <3>1. n \in Nat /\ 0 \in 0..n /\ Linear(f, n, 0, radix, d)
      BY <2>1, <2>2
    <3> HIDE DEF n, d
    <3> QED
      BY <3>1, LinearIs
  <2>4. Evaluated(s, radix) = {0}
    BY <2>1, <2>2, <2>3
  <2> QED
    BY <2>4 DEF s
<1>2. <<>> \in Seq(X)
  BY EmptySeq
<1>3. Evaluated(Append(<<>>, ch), radix) = {0 * radix + Digit(ch)}
  <2> DEFINE s == <<>>
             v == 0
  <2>1. s \in Seq(X) /\ Evaluated(s, radix) = {v}
    BY <1>1, <1>2
  <2> HIDE DEF s, v
  <2>2. Evaluated(Append(s, ch), radix) = {v * radix + Digit(ch)}
    BY <2>1, EvaluatedGrows
  <2> QED
    BY <2>2 DEF s, v
<1>4. Append(<<>>, ch) = <<ch>> /\ 0 * radix + Digit(ch) = Digit(ch)
  OBVIOUS
<1> QED
  BY <1>1, <1>3, <1>4

\* A number's text has the one of the number without its last digit before it.
LEMMA WriteStepIs ==
    ASSUME NEW g, NEW n \in Nat, Writes(g, n), NEW m \in 0..n,
           \A j \in 0..m - 1 : IsTextOf(g[j], j)
    PROVE  IsTextOf(g[m], m)
<1> DEFINE last == LastDigit(m)
           d == m % 10
<1>1. d \in 0..9 /\ m \in Nat /\ m = (m \div 10) * 10 + d
  OBVIOUS
<1>2. last \in Decimals /\ Digit(last) = d
  <2> DEFINE i == d + 1
  <2>1. i \in 1..10 /\ i \in 1..16 /\ i - 1 = d
    BY <1>1
  <2>2. last = DigitsOf[i]
    BY DEF LastDigit
  <2> HIDE DEF i, d, last
  <2>3. Digit(DigitsOf[i]) = i - 1
    BY <2>1, DigitIs
  <2>4. DigitsOf[i] \in Decimals
    BY <2>1 DEF Decimals
  <2> QED
    BY <2>1, <2>2, <2>3, <2>4
<1>3. g[m] = IF m < 10 THEN <<last>> ELSE Append(g[m \div 10], last)
  BY WritesIs DEF WriteStep
<1> HIDE DEF last
<1>4. Digit(last) \in 0..10 - 1
  BY <1>1, <1>2
<1>5. CASE m < 10
  <2>1. g[m] = <<last>> /\ d = m
    BY <1>1, <1>3, <1>5
  <2>2. Evaluated(<<last>>, 10) = {Digit(last)}
    BY <1>2, <1>4, OneDigit
  <2>3. <<last>> \in Seq(Decimals) /\ Len(<<last>>) = 1 /\ <<last>>[1] = last /\ <<last>> # <<>>
    BY <1>2
  <2>4. m >= 1 => last # "0"
    BY <1>2, <2>1, DecimalsAre
  <2> QED
    BY <1>2, <2>1, <2>2, <2>3, <2>4 DEF IsTextOf
<1>6. CASE ~(m < 10)
  <2> DEFINE j == m \div 10
             s == g[j]
  <2>1. j \in 0..m - 1 /\ j >= 1 /\ j \in Nat /\ j * 10 + d = m /\ m # 0
    BY <1>1, <1>6
  <2>2. IsTextOf(s, j)
    BY <2>1
  <2>3. g[m] = Append(s, last)
    BY <1>3, <1>6
  <2> HIDE DEF j, s
  <2>4. s \in Seq(Decimals) /\ s # <<>> /\ Evaluated(s, 10) = {j} /\ s[1] # "0"
    BY <2>1, <2>2 DEF IsTextOf
  <2>5. Evaluated(Append(s, last), 10) = {j * 10 + Digit(last)}
    <3> DEFINE radix == 10
    <3>1. /\ s \in Seq(Decimals) /\ last \in Decimals /\ radix \in Nat
          /\ Evaluated(s, radix) = {j} /\ Digit(last) \in 0..radix - 1
      BY <1>2, <1>4, <2>4
    <3> HIDE DEF radix
    <3>2. Evaluated(Append(s, last), radix) = {j * radix + Digit(last)}
      BY <3>1, EvaluatedGrows, SMTT(30)
    <3> QED
      BY <3>2 DEF radix
  <2>6. /\ Append(s, last) \in Seq(Decimals) /\ Append(s, last) # <<>>
        /\ Append(s, last)[1] = s[1]
    <3>1. Len(s) \in Nat /\ Len(s) # 0
      BY <2>4, EmptySeq, LenProperties
    <3>2. 1 \in 1..Len(s)
      BY <3>1
    <3>3. /\ Append(s, last) \in Seq(Decimals)
          /\ Len(Append(s, last)) = Len(s) + 1
          /\ \A i \in 1..Len(s) : Append(s, last)[i] = s[i]
      BY <1>2, <2>4, AppendProperties
    <3>4. Append(s, last) # <<>>
      BY <3>1, <3>3, EmptySeq
    <3> QED
      BY <3>2, <3>3, <3>4
  <2>7. j * 10 + Digit(last) = m
    BY <1>2, <2>1
  <2> QED
    BY <2>1, <2>3, <2>4, <2>5, <2>6, <2>7 DEF IsTextOf
<1> QED
  BY <1>5, <1>6

\* IntegerToString writes each number up to n as a text of it.
LEMMA TextsAreWritten ==
    ASSUME NEW g, NEW n \in Nat, Writes(g, n)
    PROVE  IsTextOf(g[n], n)
<1> DEFINE T == {k \in Nat : k <= n => \A m \in 0..k : IsTextOf(g[m], m)}
<1>1. 0 \in T
  <2>1. \A j \in 0..0 - 1 : IsTextOf(g[j], j)
    OBVIOUS
  <2>2. IsTextOf(g[0], 0)
    BY <2>1, WriteStepIs
  <2>3. \A m \in 0..0 : m = 0
    OBVIOUS
  <2> QED
    BY <2>2, <2>3
<1>2. ASSUME NEW k \in Nat, k \in T
      PROVE  k + 1 \in T
  <2> SUFFICES ASSUME k + 1 <= n PROVE \A m \in 0..k + 1 : IsTextOf(g[m], m)
    OBVIOUS
  <2> DEFINE m == k + 1
  <2>1. m \in 0..n /\ m - 1 = k /\ k <= n
    OBVIOUS
  <2>2. \A j \in 0..k : IsTextOf(g[j], j)
    BY <1>2, <2>1
  <2>3. \A j \in 0..m : j \in 0..k \/ j = m
    OBVIOUS
  <2> HIDE DEF m
  <2>4. IsTextOf(g[m], m)
    BY <2>1, <2>2, WriteStepIs
  <2>5. \A j \in 0..m : IsTextOf(g[j], j)
    BY <2>2, <2>3, <2>4
  <2> QED
    BY <2>5 DEF m
<1> HIDE DEF T
<1>3. n \in T
  BY <1>1, <1>2, SetInduction
<1>4. n \in 0..n /\ n <= n
  OBVIOUS
<1> QED
  BY <1>3, <1>4 DEF T

\* What integer_to_string() writes for a number.
LEMMA IntegerToStringIs ==
    ASSUME NEW n \in Int
    PROVE  \E s : /\ IsTextOf(s, IF n < 0 THEN -n ELSE n)
                  /\ IntegerToString(n, 10) = IF n < 0 THEN <<"-">> \o s ELSE s
<1> DEFINE abs == IF n < 0 THEN -n ELSE n
           g == CHOOSE f : Writes(f, abs)
<1>1. IntegerToString(n, 10) = IF n < 0 THEN <<"-">> \o g[abs] ELSE g[abs]
  BY DEF IntegerToString, Writes, WriteStep, LastDigit
<1>2. abs \in Nat
  OBVIOUS
<1> HIDE DEF abs
<1>3. Writes(g, abs)
  <2>1. \E f : Writes(f, abs)
    BY <1>2, WritesExists
  <2> QED
    BY <2>1, Zenon
<1> HIDE DEF g
<1>4. IsTextOf(g[abs], abs)
  BY <1>2, <1>3, TextsAreWritten
<1> QED
  BY <1>1, <1>4 DEF abs

\* A number that is written is read again.
LEMMA WrittenIsRead ==
    ASSUME NEW n \in Long.min..Long.max
    PROVE  StringToInteger(IntegerToString(n, 10), Long) = {n}
<1>1. n \in Int
  BY LongIs
<1> DEFINE abs == IF n < 0 THEN -n ELSE n
<1>2. PICK s : /\ IsTextOf(s, abs)
               /\ IntegerToString(n, 10) = IF n < 0 THEN <<"-">> \o s ELSE s
  BY <1>1, IntegerToStringIs
<1>3. abs \in Nat
  BY <1>1
<1>4. n < 0 => -abs = n
  BY <1>1
<1>5. ~(n < 0) => abs = n
  OBVIOUS
<1>6. abs = 0 \/ abs >= 1
  BY <1>3
<1> HIDE DEF abs
<1>7. s \in Seq(Decimals) /\ s # <<>> /\ Evaluated(s, 10) = {abs}
  BY <1>2 DEF IsTextOf
<1>8. Len(s) \in Nat /\ Len(s) # 0 /\ \A i \in 1..Len(s) : s[i] \in Decimals
  BY <1>7, EmptySeq, LenProperties, ElementOfSeq
<1>9. \A i \in 1..Len(s) : ~IsBlank(s[i]) /\ s[i] # "-" /\ s[i] # "$"
  BY <1>8, DecimalsAre
<1>10. 1 \in 1..Len(s)
  BY <1>8
<1>11. Long \in Types /\ Wrapped(n, Long) = n
  BY LongIs, WrappedIs
<1>12. CASE ~(n < 0)
  <2>1. IntegerToString(n, 10) = s
    BY <1>2, <1>12
  <2>2. ~(Len(s) > 2 /\ s[1] = "0" /\ s[2] \in {"x", "b"})
    BY <1>2, <1>6 DEF IsTextOf
  <2>3. StringToInteger(s, Long) = {Wrapped(v, Long) : v \in Evaluated(s, 10)}
    BY <1>7, <1>9, <1>10, <2>2, ReadPlain
  <2>4. Evaluated(s, 10) = {n}
    BY <1>5, <1>7, <1>12
  <2> QED
    BY <1>11, <2>1, <2>3, <2>4
<1>13. CASE n < 0
  <2> DEFINE X == Decimals \union {"-"}
             w == <<"-">> \o s
  <2>1. IntegerToString(n, 10) = w
    BY <1>2, <1>13
  <2>2. s \in Seq(X) /\ <<"-">> \in Seq(X) /\ Len(<<"-">>) = 1 /\ <<"-">>[1] = "-"
    BY <1>7, <1>8
  <2> HIDE DEF X
  <2>3. /\ w \in Seq(X) /\ Len(w) = 1 + Len(s)
        /\ \A i \in 1..1 + Len(s) : w[i] = IF i <= 1 THEN <<"-">>[i] ELSE s[i - 1]
    BY <2>2, ConcatProperties
  <2> HIDE DEF w
  <2>4. w[1] = "-" /\ w # <<>> /\ \A i \in 1..Len(s) : w[i + 1] = s[i]
    <3>1. 1 \in 1..1 + Len(s) /\ Len(w) # 0
      BY <1>8, <2>3
    <3>2. w[1] = "-"
      BY <2>2, <2>3, <3>1
    <3>3. \A i \in 1..Len(s) : i + 1 \in 1..1 + Len(s) /\ ~(i + 1 <= 1) /\ (i + 1) - 1 = i
      BY <1>8
    <3>4. ASSUME NEW i \in 1..Len(s)
          PROVE  w[i + 1] = s[i]
      <4> DEFINE j == i + 1
      <4>1. j \in 1..1 + Len(s) /\ ~(j <= 1) /\ j - 1 = i
        BY <3>3
      <4> HIDE DEF j
      <4>2. w[j] = s[i]
        BY <2>3, <4>1
      <4> QED
        BY <4>2 DEF j
    <3>5. w # <<>>
      BY <3>1, EmptySeq
    <3> QED
      BY <3>2, <3>4, <3>5
  <2>5. Tail(w) = s
    <3>1. /\ Tail(w) \in Seq(X) /\ Len(Tail(w)) = Len(w) - 1
          /\ \A i \in 1..Len(w) - 1 : Tail(w)[i] = w[i + 1]
      BY <2>3, <2>4, HeadTailProperties
    <3>2. Len(w) - 1 = Len(s)
      BY <1>8, <2>3
    <3>3. Len(Tail(w)) = Len(s) /\ \A i \in 1..Len(s) : Tail(w)[i] = s[i]
      BY <2>4, <3>1, <3>2
    <3> HIDE DEF w
    <3> QED
      BY <2>2, <3>1, <3>3, SeqEqual
  <2>6. \A i \in 1..Len(w) : ~IsBlank(w[i])
    <3>1. ASSUME NEW i \in 1..Len(w)
          PROVE  ~IsBlank(w[i])
      <4>1. CASE i = 1
        <5>1. ~IsBlank("-")
          BY DEF IsBlank, Space, LineFeed, Return
        <5> QED
          BY <2>4, <4>1, <5>1
      <4>2. CASE i # 1
        <5>1. i - 1 \in 1..Len(s) /\ (i - 1) + 1 = i
          BY <1>8, <2>3, <4>2
        <5>2. w[(i - 1) + 1] = s[i - 1]
          BY <2>4, <5>1
        <5> QED
          BY <1>9, <5>1, <5>2
      <4> QED
        BY <4>1, <4>2
    <3> QED
      BY <3>1
  <2>7. Tail(w)[1] # "-"
    BY <1>9, <1>10, <2>5
  <2>8. StringToInteger(w, Long) = {Wrapped(-v, Long) : v \in Evaluated(Tail(w), 10)}
    BY <2>3, <2>4, <2>6, <2>7, ReadMinus
  <2>9. StringToInteger(w, Long) = {Wrapped(-abs, Long)}
    BY <1>7, <2>5, <2>8
  <2> QED
    BY <1>4, <1>11, <1>13, <2>1, <2>9
<1> QED
  BY <1>12, <1>13
=============================================================================
