--------------------------- MODULE ResponseProofs ---------------------------
(***************************************************************************)
(* Proofs about ResponseBytes, for every number of connections, size of    *)
(* the cache, limits of the gather and memory.                             *)
(***************************************************************************)
EXTENDS ResponseBytes, FiniteSetTheorems, TLAPS

Concat(s, t) == s \o t
Joined == INSTANCE FoldLaws WITH Op <- Concat

-----------------------------------------------------------------------------
(* How often an object is in a sequence *)

One(b) == IF b THEN 1 ELSE 0

\* Where it is
At(o, s) == {i \in DOMAIN s : s[i] = o}

\* It is a number, and 0 if and only if the object is not there.
LEMMA TimesType ==
  ASSUME NEW X, NEW s \in Seq(X), NEW o
  PROVE  /\ IsFiniteSet(At(o, s)) /\ Times(o, s) = Cardinality(At(o, s))
         /\ Times(o, s) \in Nat
         /\ Times(o, s) = 0 <=> \A i \in DOMAIN s : s[i] # o
  <1>1. DOMAIN s = 1..Len(s) /\ Len(s) \in Nat
    OBVIOUS
  <1>2. IsFiniteSet(1..Len(s))
    BY <1>1, FS_Interval
  <1>3. IsFiniteSet(At(o, s))
    BY <1>1, <1>2, FS_Subset DEF At
  <1>4. Times(o, s) = Cardinality(At(o, s))
    BY DEF Times, At
  <1>5. Cardinality(At(o, s)) = 0 <=> At(o, s) = {}
    BY <1>3, FS_EmptySet
  <1>6. At(o, s) = {} <=> \A i \in DOMAIN s : s[i] # o
    BY DEF At
  <1>7. QED
    BY <1>3, <1>4, <1>5, <1>6, FS_CardinalityType

\* In two sequences one behind the other, as often as in both
LEMMA TimesConcat ==
  ASSUME NEW X, NEW s \in Seq(X), NEW t \in Seq(X), NEW o
  PROVE  Times(o, s \o t) = Times(o, s) + Times(o, t)
  <1> DEFINE n == Len(s)
             u == s \o t
             B == {i + n : i \in At(o, t)}
             f == [i \in At(o, t) |-> i + n]
  <1>1. /\ n \in Nat /\ Len(t) \in Nat /\ u \in Seq(X) /\ Len(u) = n + Len(t)
        /\ DOMAIN u = 1..(n + Len(t)) /\ DOMAIN s = 1..n /\ DOMAIN t = 1..Len(t)
        /\ \A i \in 1..n : u[i] = s[i]
        /\ \A i \in 1..Len(t) : u[i + n] = t[i]
    OBVIOUS
  <1> HIDE DEF n, u
  <1>2. At(o, u) = At(o, s) \cup B
    <2>1. ASSUME NEW i \in At(o, u) PROVE i \in At(o, s) \cup B
      <3>1. i \in 1..(n + Len(t)) /\ u[i] = o
        BY <1>1 DEF At
      <3>2. CASE i <= n
        BY <1>1, <3>1, <3>2 DEF At
      <3>3. CASE ~(i <= n)
        <4>1. i - n \in 1..Len(t) /\ i = (i - n) + n
          BY <1>1, <3>1, <3>3
        <4>2. i - n \in At(o, t)
          BY <1>1, <3>1, <4>1 DEF At
        <4>3. QED
          BY <4>1, <4>2
      <3>4. QED
        BY <3>2, <3>3
    <2>2. ASSUME NEW i \in At(o, s) PROVE i \in At(o, u)
      BY <1>1 DEF At
    <2>3. ASSUME NEW i \in At(o, t) PROVE i + n \in At(o, u)
      BY <1>1 DEF At
    <2>4. QED
      BY <2>1, <2>2, <2>3
  <1>3. At(o, s) \cap B = {}
    BY <1>1 DEF At
  <1>4. f \in Bijection(At(o, t), B)
    <2>1. At(o, t) \subseteq Nat
      BY <1>1 DEF At
    <2>2. f \in [At(o, t) -> B] /\ \A b \in B : \E i \in At(o, t) : f[i] = b
      OBVIOUS
    <2>3. \A i, j \in At(o, t) : f[i] = f[j] => i = j
      BY <1>1, <2>1
    <2>4. QED
      BY <2>2, <2>3, Zenon DEF Bijection, Injection, Surjection, IsInjective
  <1>5. IsFiniteSet(B) /\ Cardinality(B) = Times(o, t)
    <2>1. ExistsBijection(At(o, t), B)
      BY <1>4 DEF ExistsBijection
    <2>2. QED
      BY <2>1, TimesType, FS_Bijection
  <1>6. Cardinality(At(o, s) \cup B) = Times(o, s) + Times(o, t)
    <2>1. IsFiniteSet(At(o, s)) /\ Times(o, s) = Cardinality(At(o, s)) /\ Times(o, s) \in Nat
          /\ Times(o, t) \in Nat
      BY TimesType
    <2>2. Cardinality(At(o, s) \cup B)
            = Cardinality(At(o, s)) + Cardinality(B) - Cardinality(At(o, s) \cap B)
      BY <1>5, <2>1, FS_Union
    <2>3. Cardinality(At(o, s) \cap B) = 0
      BY <1>3, FS_EmptySet
    <2> HIDE DEF B
    <2>4. QED
      BY <1>5, <2>1, <2>2, <2>3
  <1>7. Times(o, u) = Cardinality(At(o, u))
    BY <1>1, TimesType
  <1> HIDE DEF B
  <1>8. QED
    BY <1>2, <1>6, <1>7 DEF u

\* In a sequence of one
LEMMA TimesOne ==
  ASSUME NEW e, NEW o
  PROVE  Times(o, <<e>>) = One(e = o)
  <1>1. <<e>> \in Seq({e}) /\ DOMAIN <<e>> = {1} /\ <<e>>[1] = e
    OBVIOUS
  <1>2. At(o, <<e>>) = IF e = o THEN {1} ELSE {}
    BY <1>1 DEF At
  <1>3. Times(o, <<e>>) = Cardinality(At(o, <<e>>))
    BY DEF Times, At
  <1>4. QED
    BY <1>2, <1>3, FS_Singleton, FS_EmptySet DEF One

\* In none
LEMMA TimesNone == ASSUME NEW o PROVE Times(o, << >>) = 0
  <1>1. << >> \in Seq({}) /\ DOMAIN << >> = {}
    OBVIOUS
  <1>2. QED
    BY <1>1, TimesType

\* One more at the end
LEMMA TimesAppend ==
  ASSUME NEW X, NEW s \in Seq(X), NEW e \in X, NEW o
  PROVE  Times(o, Append(s, e)) = Times(o, s) + One(e = o)
  <1>1. Append(s, e) = s \o <<e>> /\ <<e>> \in Seq(X)
    OBVIOUS
  <1>2. Times(o, s \o <<e>>) = Times(o, s) + Times(o, <<e>>)
    BY <1>1, TimesConcat
  <1>3. Times(o, <<e>>) = One(e = o)
    BY TimesOne
  <1>4. QED
    BY <1>1, <1>2, <1>3

\* One less at the front
LEMMA TimesTail ==
  ASSUME NEW X, NEW s \in Seq(X), s # << >>, NEW o
  PROVE  Times(o, s) = Times(o, Tail(s)) + One(Head(s) = o)
  <1>1. /\ s = <<Head(s)>> \o Tail(s) /\ Tail(s) \in Seq(X)
        /\ <<Head(s)>> \in Seq(X)
    OBVIOUS
  <1>2. Times(o, <<Head(s)>> \o Tail(s)) = Times(o, <<Head(s)>>) + Times(o, Tail(s))
    BY <1>1, TimesConcat
  <1>3. Times(o, Tail(s)) \in Nat
    BY <1>1, TimesType
  <1>4. Times(o, <<Head(s)>>) = One(Head(s) = o) /\ One(Head(s) = o) \in Nat
    BY TimesOne DEF One
  <1>5. Times(o, s) = Times(o, <<Head(s)>> \o Tail(s))
    BY <1>1
  <1>6. QED
    BY <1>2, <1>3, <1>4, <1>5

-----------------------------------------------------------------------------
(* What a sequence of objects holds *)

\* Texts is the fold FoldLaws is about.
LEMMA TextsFold ==
  ASSUME NEW m, NEW s
  PROVE  Texts(m, s) = Joined!Fold(<< >>, TextOf(m, s))
  BY DEF Texts, Joined!Fold, Joined!FoldLeft, Joined!MapThenFoldSet, Joined!Max, Concat,
         FoldLeft, MapThenFoldSet, Max

\* The texts in memory are of T.
Written(m, T) == \A o \in Objects : m[o].text \in T

\* A text per object
LEMMA TextOfType ==
  ASSUME NEW T, NEW m, Written(m, T), NEW s \in Seq(Objects)
  PROVE  /\ TextOf(m, s) \in Seq(T) /\ Len(TextOf(m, s)) = Len(s)
         /\ \A i \in 1..Len(s) : TextOf(m, s)[i] = m[s[i]].text
  <1>1. DOMAIN s = 1..Len(s) /\ Len(s) \in Nat /\ \A i \in 1..Len(s) : s[i] \in Objects
    OBVIOUS
  <1>2. TextOf(m, s) \in [1..Len(s) -> T]
    BY <1>1 DEF TextOf, Written
  <1>3. QED
    BY <1>1, <1>2 DEF TextOf

\* None hold nothing.
LEMMA TextsNone == ASSUME NEW m PROVE Texts(m, << >>) = << >>
  <1>1. TextOf(m, << >>) = << >>
    BY DEF TextOf
  <1>2. QED
    BY <1>1, TextsFold, Joined!FoldEmpty

\* One more behind the others
LEMMA TextsAppend ==
  ASSUME NEW T, NEW m, Written(m, T), NEW s \in Seq(Objects), NEW o \in Objects
  PROVE  Texts(m, Append(s, o)) = Texts(m, s) \o m[o].text
  <1>1. PICK a \in Seq(Objects), e \in T, n \in Nat :
          a = Append(s, o) /\ e = m[o].text /\ n = Len(s)
    <2>1. Append(s, o) \in Seq(Objects) /\ m[o].text \in T /\ Len(s) \in Nat
      BY DEF Written
    <2>2. QED
      BY <2>1
  <1>2. /\ Len(a) = n + 1 /\ a[n + 1] = o
        /\ \A i \in 1..n : a[i] = s[i]
    BY <1>1
  <1>3. PICK t \in Seq(T) : t = TextOf(m, s)
    BY TextOfType
  <1>4. PICK u \in Seq(T) : u = TextOf(m, a)
    BY TextOfType
  <1>5. Len(t) = n /\ \A i \in 1..n : t[i] = m[s[i]].text
    BY <1>1, <1>3, TextOfType
  <1>6. Len(u) = n + 1 /\ \A i \in 1..(n + 1) : u[i] = m[a[i]].text
    BY <1>2, <1>4, TextOfType
  <1>7. u = Append(t, e)
    <2>1. Append(t, e) \in Seq(T) /\ Len(Append(t, e)) = n + 1
      BY <1>5
    <2>2. ASSUME NEW i \in 1..(n + 1) PROVE u[i] = Append(t, e)[i]
      <3>1. CASE i = n + 1
        BY <1>1, <1>2, <1>5, <1>6, <3>1
      <3>2. CASE i # n + 1
        <4>1. i \in 1..n
          BY <3>2
        <4>2. Append(t, e)[i] = t[i]
          BY <1>5, <4>1
        <4>3. QED
          BY <1>2, <1>5, <1>6, <4>1, <4>2
      <3>3. QED
        BY <3>1, <3>2
    <2>3. QED
      BY <1>6, <2>1, <2>2
  <1>8. Joined!Fold(<< >>, Append(t, e)) = Concat(Joined!Fold(<< >>, t), e)
    BY Joined!FoldAppend
  <1>9. QED
    BY <1>1, <1>3, <1>4, <1>7, <1>8, TextsFold DEF Concat

\* Texts are a monoid.
LEMMA TextsMonoid == ASSUME NEW E PROVE Joined!Monoid(Seq(E), << >>)
  <1>1. << >> \in Seq(E) /\ \A x, y \in Seq(E) : x \o y \in Seq(E)
    OBVIOUS
  <1>2. \A x \in Seq(E) : << >> \o x = x /\ x \o << >> = x
    OBVIOUS
  <1>3. \A x, y, t \in Seq(E) : (x \o y) \o t = x \o (y \o t)
    OBVIOUS
  <1>4. QED
    BY <1>1, <1>2, <1>3 DEF Joined!Monoid, Concat

\* What objects hold is a text ...
LEMMA TextsType ==
  ASSUME NEW T, Joined!Monoid(T, << >>), NEW m, Written(m, T), NEW s \in Seq(Objects)
  PROVE  Texts(m, s) \in T
  <1>1. TextOf(m, s) \in Seq(T)
    BY TextOfType
  <1>2. QED
    BY <1>1, Joined!FoldFront, TextsFold

\* ... that begins with that of the first.
LEMMA TextsHead ==
  ASSUME NEW T, Joined!Monoid(T, << >>), NEW m, Written(m, T),
         NEW s \in Seq(Objects), s # << >>
  PROVE  Texts(m, s) = m[Head(s)].text \o Texts(m, Tail(s))
  <1>1. PICK r \in Seq(Objects), n \in Nat : r = Tail(s) /\ n = Len(r)
    <2>1. Tail(s) \in Seq(Objects) /\ Len(Tail(s)) \in Nat
      OBVIOUS
    <2>2. QED
      BY <2>1
  <1>2. Len(s) = n + 1 /\ s[1] = Head(s) /\ \A i \in 1..n : r[i] = s[i + 1]
    BY <1>1
  <1>3. PICK t \in Seq(T) : t = TextOf(m, s)
    BY TextOfType
  <1>4. PICK u \in Seq(T) : u = TextOf(m, r)
    BY TextOfType
  <1>5. Len(t) = n + 1 /\ \A i \in 1..(n + 1) : t[i] = m[s[i]].text
    BY <1>2, <1>3, TextOfType
  <1>6. Len(u) = n /\ \A i \in 1..n : u[i] = m[r[i]].text
    <2>1. /\ Len(TextOf(m, r)) = Len(r)
          /\ \A i \in 1..Len(r) : TextOf(m, r)[i] = m[r[i]].text
      BY TextOfType
    <2>2. QED
      BY <1>1, <1>4, <2>1
  <1>7. t # << >> /\ t[1] = m[Head(s)].text
    BY <1>2, <1>5
  <1>8. Tail(t) \in Seq(T) /\ Len(Tail(t)) = n /\ \A i \in 1..n : Tail(t)[i] = t[i + 1]
    BY <1>5, <1>7
  <1>9. ASSUME NEW i \in 1..n PROVE u[i] = Tail(t)[i]
    <2>1. i + 1 \in 1..(n + 1)
      OBVIOUS
    <2>2. t[i + 1] = m[s[i + 1]].text
      BY <1>5, <2>1
    <2>3. QED
      BY <1>2, <1>6, <1>8, <2>2
  <1>10. u = Tail(t)
    BY <1>6, <1>8, <1>9
  <1>11. Joined!Fold(<< >>, t) = Concat(t[1], Joined!Fold(<< >>, Tail(t)))
    BY <1>7, Joined!FoldFront
  <1>12. QED
    BY <1>1, <1>3, <1>4, <1>7, <1>10, <1>11, TextsFold DEF Concat

\* Only the texts of the objects in it matter.
LEMMA TextsSame ==
  ASSUME NEW m, NEW w, NEW s, \A i \in DOMAIN s : w[s[i]].text = m[s[i]].text
  PROVE  Texts(w, s) = Texts(m, s)
  <1>1. TextOf(w, s) = TextOf(m, s)
    BY DEF TextOf
  <1>2. QED
    BY <1>1, TextsFold

-----------------------------------------------------------------------------
(* Sums over the connections *)

Picked(t) == CHOOSE x \in t : TRUE

\* The recursive function inside SumFunction
IsSum(g, C, f) ==
  g = [t \in SUBSET C |-> IF t = {} THEN 0 ELSE f[Picked(t)] + g[t \ {Picked(t)}]]

\* ... as far as sets of up to n elements
IsSumTo(g, C, f, n) ==
  \A t \in SUBSET C :
    Cardinality(t) <= n => g[t] = IF t = {} THEN 0 ELSE f[Picked(t)] + g[t \ {Picked(t)}]

\* What is picked is an element, and without it there is one less.
LEMMA PickedOne ==
  ASSUME NEW C, IsFiniteSet(C), NEW t \in SUBSET C
  PROVE  /\ IsFiniteSet(t) /\ Cardinality(t) \in Nat /\ (Cardinality(t) = 0 <=> t = {})
         /\ \A x \in t : Cardinality(t \ {x}) = Cardinality(t) - 1 /\ t \ {x} \in SUBSET C
         /\ t # {} => Picked(t) \in t
  <1>1. IsFiniteSet(t)
    BY FS_Subset
  <1>2. Cardinality(t) \in Nat /\ (Cardinality(t) = 0 <=> t = {})
    BY <1>1, FS_CardinalityType, FS_EmptySet
  <1>3. \A x \in t : Cardinality(t \ {x}) = Cardinality(t) - 1
    BY <1>1, FS_RemoveElement
  <1>4. t # {} => Picked(t) \in t
    BY DEF Picked
  <1>5. QED
    BY <1>1, <1>2, <1>3, <1>4

\* The recursion has a solution.
LEMMA SumExists ==
  ASSUME NEW C, IsFiniteSet(C), NEW f
  PROVE  \E g : IsSum(g, C, f)
  <1> DEFINE S == {n \in Nat : \E g : g = [t \in SUBSET C |-> g[t]] /\ IsSumTo(g, C, f, n)}
  <1>1. 0 \in S
    <2> DEFINE g == [t \in SUBSET C |-> 0]
    <2>1. IsSumTo(g, C, f, 0)
      <3>1. ASSUME NEW t \in SUBSET C, Cardinality(t) <= 0 PROVE t = {}
        BY <3>1, PickedOne
      <3>2. QED
        BY <3>1 DEF IsSumTo
    <2>2. g = [t \in SUBSET C |-> g[t]]
      OBVIOUS
    <2> HIDE DEF g
    <2>3. QED
      BY <2>1, <2>2
  <1>2. ASSUME NEW n \in Nat, n \in S PROVE n + 1 \in S
    <2>1. PICK g : IsSumTo(g, C, f, n)
      BY <1>2
    <2> DEFINE h == [t \in SUBSET C |->
                       IF Cardinality(t) <= n THEN g[t]
                       ELSE f[Picked(t)] + g[t \ {Picked(t)}]]
    <2>2. \A t \in SUBSET C : h[t] = IF Cardinality(t) <= n THEN g[t]
                                     ELSE f[Picked(t)] + g[t \ {Picked(t)}]
      OBVIOUS
    <2>3. h = [t \in SUBSET C |-> h[t]]
      OBVIOUS
    <2> HIDE DEF h
    <2>4. ASSUME NEW t \in SUBSET C, Cardinality(t) <= n + 1
          PROVE  h[t] = IF t = {} THEN 0 ELSE f[Picked(t)] + h[t \ {Picked(t)}]
      <3>1. CASE t = {}
        <4>1. Cardinality(t) = 0
          BY <3>1, PickedOne
        <4>2. Cardinality(t) <= n
          BY <4>1
        <4>3. QED
          BY <2>1, <2>2, <3>1, <4>2 DEF IsSumTo
      <3>2. CASE t # {}
        <4> DEFINE r == t \ {Picked(t)}
        <4>1. r \in SUBSET C /\ Cardinality(r) = Cardinality(t) - 1 /\ Cardinality(t) \in Nat
          BY <3>2, PickedOne
        <4>2. Cardinality(r) <= n
          BY <2>4, <4>1
        <4>3. h[r] = g[r]
          BY <2>2, <4>1, <4>2
        <4>4. h[t] = f[Picked(t)] + g[r]
          <5>1. CASE Cardinality(t) <= n
            BY <2>1, <2>2, <3>2, <5>1 DEF IsSumTo
          <5>2. CASE ~(Cardinality(t) <= n)
            BY <2>2, <5>2
          <5>3. QED
            BY <5>1, <5>2
        <4>5. QED
          BY <3>2, <4>3, <4>4
      <3>3. QED
        BY <3>1, <3>2
    <2>5. IsSumTo(h, C, f, n + 1)
      BY <2>4 DEF IsSumTo
    <2>6. QED
      BY <2>3, <2>5
  <1> HIDE DEF S
  <1>3. Cardinality(C) \in Nat
    BY FS_CardinalityType
  <1>4. Cardinality(C) \in S
    BY <1>1, <1>2, <1>3, Joined!SetInduction
  <1>5. PICK g : g = [t \in SUBSET C |-> g[t]] /\ IsSumTo(g, C, f, Cardinality(C))
    BY <1>4 DEF S
  <1>6. \A t \in SUBSET C : g[t] = IF t = {} THEN 0 ELSE f[Picked(t)] + g[t \ {Picked(t)}]
    BY <1>5, FS_Subset DEF IsSumTo
  <1>7. g = [t \in SUBSET C |-> IF t = {} THEN 0 ELSE f[Picked(t)] + g[t \ {Picked(t)}]]
    BY <1>5, <1>6
  <1>8. QED
    BY <1>7 DEF IsSum

\* What SumFunction is
LEMMA SumIs ==
  ASSUME NEW f, IsFiniteSet(DOMAIN f)
  PROVE  \E g : IsSum(g, DOMAIN f, f) /\ SumFunction(f) = g[DOMAIN f]
  <1> DEFINE g == CHOOSE h : h = [t \in SUBSET DOMAIN f |->
                     IF t = {} THEN 0 ELSE f[CHOOSE x \in t : TRUE]
                                           + h[t \ {CHOOSE x \in t : TRUE}]]
  <1>1. PICK k : IsSum(k, DOMAIN f, f)
    BY SumExists
  <1>2. k = [t \in SUBSET DOMAIN f |->
               IF t = {} THEN 0 ELSE f[CHOOSE x \in t : TRUE]
                                     + k[t \ {CHOOSE x \in t : TRUE}]]
    BY <1>1 DEF IsSum, Picked
  <1>3. g = [t \in SUBSET DOMAIN f |->
               IF t = {} THEN 0 ELSE f[CHOOSE x \in t : TRUE]
                                     + g[t \ {CHOOSE x \in t : TRUE}]]
    BY <1>2, Zenon
  <1>4. SumFunction(f) = g[DOMAIN f]
    BY Zenon DEF SumFunction, SumFunctionOnSet, FoldFunctionOnSet, MapThenFoldSet
  <1> HIDE DEF g
  <1>5. IsSum(g, DOMAIN f, f)
    BY <1>3 DEF IsSum, Picked
  <1>6. QED
    BY <1>4, <1>5

\* A function of numbers
Numbers(f, C) == f \in [C -> Nat]

\* The sum of a set is that of the set without one of its elements and it.
Adds(g, C, f) ==
  \A t \in SUBSET C : g[t] \in Nat /\ \A x \in t : g[t] = f[x] + g[t \ {x}]

\* A sum of numbers is a number, in whatever order they are added.
LEMMA SumAnyOrder ==
  ASSUME NEW C, IsFiniteSet(C), NEW f, Numbers(f, C), NEW g, IsSum(g, C, f)
  PROVE  Adds(g, C, f)
  <1> DEFINE S == {n \in Nat : \A t \in SUBSET C : Cardinality(t) <= n =>
                     g[t] \in Nat /\ \A x \in t : g[t] = f[x] + g[t \ {x}]}
  <1>1. \A t \in SUBSET C : g[t] = IF t = {} THEN 0 ELSE f[Picked(t)] + g[t \ {Picked(t)}]
    BY DEF IsSum
  <1>2. 0 \in S
    <2>1. ASSUME NEW t \in SUBSET C, Cardinality(t) <= 0
          PROVE  g[t] \in Nat /\ \A x \in t : g[t] = f[x] + g[t \ {x}]
      <3>1. t = {}
        BY <2>1, PickedOne
      <3>2. g[t] = 0
        BY <1>1, <3>1
      <3> HIDE DEF S
      <3>3. QED
        BY <3>1, <3>2
    <2>2. QED
      BY <2>1
  <1>3. ASSUME NEW n \in Nat, n \in S PROVE n + 1 \in S
    <2>1. \A t \in SUBSET C : Cardinality(t) <= n =>
            g[t] \in Nat /\ \A x \in t : g[t] = f[x] + g[t \ {x}]
      BY <1>3
    <2> HIDE DEF S
    <2>2. ASSUME NEW t \in SUBSET C, Cardinality(t) <= n + 1
          PROVE  g[t] \in Nat /\ \A x \in t : g[t] = f[x] + g[t \ {x}]
      <3>1. CASE t = {}
        <4>1. g[t] = 0
          BY <1>1, <3>1
        <4>2. QED
          BY <3>1, <4>1
      <3>2. CASE t # {}
        <4>1. PICK p \in t : p = Picked(t)
          BY <3>2, PickedOne
        <4>2. g[t] = f[p] + g[t \ {p}]
          BY <1>1, <3>2, <4>1
        <4>3. \A x \in t : t \ {x} \in SUBSET C /\ Cardinality(t \ {x}) <= n
          <5>1. \A x \in t : Cardinality(t \ {x}) = Cardinality(t) - 1
            BY PickedOne
          <5>2. Cardinality(t) \in Nat
            BY PickedOne
          <5>3. QED
            BY <2>2, <5>1, <5>2
        <4>4. f[p] \in Nat /\ g[t \ {p}] \in Nat
          BY <2>1, <4>3 DEF Numbers
        <4>5. ASSUME NEW x \in t PROVE g[t] = f[x] + g[t \ {x}]
          <5>1. CASE x = p
            BY <4>2, <5>1
          <5>2. CASE x # p
            <6>1. g[t \ {p}] = f[x] + g[(t \ {p}) \ {x}]
              BY <2>1, <4>3, <5>2
            <6>2. g[t \ {x}] = f[p] + g[(t \ {x}) \ {p}]
              BY <2>1, <4>3, <5>2
            <6>3. PICK r : r = (t \ {p}) \ {x}
              OBVIOUS
            <6>4. (t \ {x}) \ {p} = r
              BY <6>3
            <6>5. g[r] \in Nat
              <7>1. r \in SUBSET C /\ Cardinality(r) <= n
                <8>1. x \in t \ {p} /\ t \ {p} \in SUBSET C /\ Cardinality(t \ {p}) <= n
                  BY <4>3, <5>2
                <8>2. Cardinality((t \ {p}) \ {x}) = Cardinality(t \ {p}) - 1
                      /\ Cardinality(t \ {p}) \in Nat
                  BY <8>1, PickedOne
                <8>3. QED
                  BY <6>3, <8>1, <8>2
              <7>2. QED
                BY <2>1, <7>1
            <6>6. f[x] \in Nat
              BY DEF Numbers
            <6>7. QED
              BY <4>2, <4>4, <6>1, <6>2, <6>3, <6>4, <6>5, <6>6
          <5>3. QED
            BY <5>1, <5>2
        <4>6. g[t] \in Nat
          BY <4>2, <4>4
        <4>7. QED
          BY <4>5, <4>6
      <3>3. QED
        BY <3>1, <3>2
    <2>3. QED
      BY <2>2 DEF S
  <1> HIDE DEF S
  <1>4. ASSUME NEW t \in SUBSET C
        PROVE  g[t] \in Nat /\ \A x \in t : g[t] = f[x] + g[t \ {x}]
    <2>1. Cardinality(t) \in Nat
      BY PickedOne
    <2>2. Cardinality(t) \in S
      BY <1>2, <1>3, <2>1, Joined!SetInduction
    <2>3. QED
      BY <2>1, <2>2 DEF S
  <1>5. QED
    BY <1>4 DEF Adds

\* Sums of the same numbers are equal.
LEMMA SumSame ==
  ASSUME NEW C, IsFiniteSet(C), NEW f, NEW k, NEW g, IsSum(g, C, f), NEW h, IsSum(h, C, k),
         NEW u \in SUBSET C, \A x \in u : f[x] = k[x]
  PROVE  g[u] = h[u]
  <1> DEFINE S == {n \in Nat : \A t \in SUBSET u : Cardinality(t) <= n => g[t] = h[t]}
  <1>1. \A t \in SUBSET u :
          /\ t \in SUBSET C
          /\ g[t] = IF t = {} THEN 0 ELSE f[Picked(t)] + g[t \ {Picked(t)}]
          /\ h[t] = IF t = {} THEN 0 ELSE k[Picked(t)] + h[t \ {Picked(t)}]
    BY DEF IsSum
  <1>2. 0 \in S
    <2>1. ASSUME NEW t \in SUBSET u, Cardinality(t) <= 0 PROVE g[t] = h[t]
      <3>1. t = {}
        BY <1>1, <2>1, PickedOne
      <3>2. QED
        BY <1>1, <3>1
    <2>2. QED
      BY <2>1
  <1>3. ASSUME NEW n \in Nat, n \in S PROVE n + 1 \in S
    <2>1. ASSUME NEW t \in SUBSET u, Cardinality(t) <= n + 1 PROVE g[t] = h[t]
      <3>1. CASE t = {}
        BY <1>1, <3>1
      <3>2. CASE t # {}
        <4>1. PICK p \in t : p = Picked(t)
          BY <1>1, <3>2, PickedOne
        <4>2. t \ {p} \in SUBSET u /\ Cardinality(t \ {p}) <= n
          <5>1. Cardinality(t \ {p}) = Cardinality(t) - 1 /\ Cardinality(t) \in Nat
            BY <1>1, PickedOne
          <5>2. QED
            BY <2>1, <5>1
        <4>3. g[t \ {p}] = h[t \ {p}]
          BY <1>3, <4>2
        <4>4. f[p] = k[p]
          OBVIOUS
        <4> HIDE DEF S
        <4>5. QED
          BY <1>1, <3>2, <4>1, <4>3, <4>4
      <3>3. QED
        BY <3>1, <3>2
    <2>2. QED
      BY <2>1
  <1> HIDE DEF S
  <1>4. Cardinality(u) \in Nat
    BY PickedOne
  <1>5. Cardinality(u) \in S
    BY <1>2, <1>3, <1>4, Joined!SetInduction
  <1>6. QED
    BY <1>4, <1>5 DEF S

\* One number can be taken out of a sum.
LEMMA SumWithout ==
  ASSUME NEW C, IsFiniteSet(C), NEW f, Numbers(f, C), NEW c \in C
  PROVE  \E g : /\ IsSum(g, C, f) /\ SumFunction(f) = f[c] + g[C \ {c}]
               /\ Adds(g, C, f)
  <1>1. DOMAIN f = C /\ C \in SUBSET C
    BY DEF Numbers
  <1>2. PICK g : IsSum(g, C, f) /\ SumFunction(f) = g[C]
    BY <1>1, SumIs
  <1>3. Adds(g, C, f)
    BY <1>2, SumAnyOrder
  <1>4. SumFunction(f) = f[c] + g[C \ {c}]
    BY <1>1, <1>2, <1>3 DEF Adds
  <1>5. QED
    BY <1>2, <1>3, <1>4

\* Two sums that differ in one number
LEMMA SumChange ==
  ASSUME NEW C, IsFiniteSet(C), NEW f, Numbers(f, C), NEW k, Numbers(k, C),
         NEW c \in C, \A d \in C \ {c} : k[d] = f[d]
  PROVE  \E rest \in Nat : SumFunction(f) = f[c] + rest /\ SumFunction(k) = k[c] + rest
  <1>1. PICK g : /\ IsSum(g, C, f) /\ SumFunction(f) = f[c] + g[C \ {c}]
                 /\ Adds(g, C, f)
    BY SumWithout
  <1>2. PICK h : IsSum(h, C, k) /\ SumFunction(k) = k[c] + h[C \ {c}] /\ Adds(h, C, k)
    BY SumWithout
  <1>3. C \ {c} \in SUBSET C
    OBVIOUS
  <1>4. g[C \ {c}] = h[C \ {c}]
    BY <1>1, <1>2, <1>3, SumSame
  <1>5. g[C \ {c}] \in Nat
    BY <1>1, <1>3 DEF Adds
  <1>6. QED
    BY <1>1, <1>2, <1>4, <1>5

\* The sum of zeros
LEMMA SumOfNone ==
  ASSUME NEW f, IsFiniteSet(DOMAIN f), \A c \in DOMAIN f : f[c] = 0
  PROVE  SumFunction(f) = 0
  <1>1. PICK C : C = DOMAIN f
    OBVIOUS
  <1>2. PICK g : IsSum(g, C, f) /\ SumFunction(f) = g[C]
    BY <1>1, SumIs
  <1>3. \A t \in SUBSET C : g[t] = IF t = {} THEN 0 ELSE f[Picked(t)] + g[t \ {Picked(t)}]
    BY <1>2 DEF IsSum
  <1> DEFINE S == {n \in Nat : \A t \in SUBSET C : Cardinality(t) <= n => g[t] = 0}
  <1>4. 0 \in S
    <2>1. ASSUME NEW t \in SUBSET C, Cardinality(t) <= 0 PROVE g[t] = 0
      <3>1. t = {}
        BY <1>1, <2>1, PickedOne
      <3>2. QED
        BY <1>3, <3>1
    <2>2. QED
      BY <2>1
  <1>5. ASSUME NEW n \in Nat, n \in S PROVE n + 1 \in S
    <2>1. ASSUME NEW t \in SUBSET C, Cardinality(t) <= n + 1 PROVE g[t] = 0
      <3>1. CASE t = {}
        BY <1>3, <3>1
      <3>2. CASE t # {}
        <4>1. PICK p \in t : p = Picked(t)
          BY <1>1, <3>2, PickedOne
        <4>2. t \ {p} \in SUBSET C /\ Cardinality(t \ {p}) = Cardinality(t) - 1
              /\ Cardinality(t) \in Nat
          BY <1>1, PickedOne
        <4>3. g[t \ {p}] = 0
          BY <1>5, <2>1, <4>2
        <4>4. f[p] = 0
          BY <1>1
        <4> HIDE DEF S
        <4>5. QED
          BY <1>3, <3>2, <4>1, <4>3, <4>4
      <3>3. QED
        BY <3>1, <3>2
    <2>2. QED
      BY <2>1
  <1> HIDE DEF S
  <1>6. Cardinality(C) \in Nat /\ C \in SUBSET C
    BY <1>1, PickedOne
  <1>7. Cardinality(C) \in S
    BY <1>4, <1>5, <1>6, Joined!SetInduction
  <1>8. QED
    BY <1>2, <1>6, <1>7 DEF S

\* A sum is at least any two of its numbers.
LEMMA SumOfTwo ==
  ASSUME NEW C, IsFiniteSet(C), NEW f, Numbers(f, C), NEW c \in C, NEW d \in C, c # d
  PROVE  \E rest \in Nat : SumFunction(f) = f[c] + (f[d] + rest)
  <1>1. PICK g : /\ SumFunction(f) = f[c] + g[C \ {c}]
                 /\ Adds(g, C, f)
    BY SumWithout
  <1>2. C \ {c} \in SUBSET C /\ (C \ {c}) \ {d} \in SUBSET C /\ d \in C \ {c}
    OBVIOUS
  <1>3. g[C \ {c}] = f[d] + g[(C \ {c}) \ {d}] /\ g[(C \ {c}) \ {d}] \in Nat
    BY <1>1, <1>2 DEF Adds
  <1>4. QED
    BY <1>1, <1>3

-----------------------------------------------------------------------------
(* Memory and one connection *)

Bytes == Seq({Rendering(r) : r \in Responses})

\* Memory whose counts may be below zero, between two of them
Shape(m) == m \in [Objects -> [refs : Int, text : Bytes]]

ConnectionTyped(c) ==
  /\ c \in [responses : Seq(Objects), len : Nat, prev_buffer : Objects \cup {NULL},
            queue : Seq(Objects), wire : Bytes, open : BOOLEAN]
  /\ c.responses = << >> <=> c.len = 0
  /\ Len(c.responses) <= GATHER_MAX_RESP /\ c.len <= GATHER_MAX_LEN

\* The references to an object are those of the connection and b[o] others.
Balanced(m, c, b) ==
  /\ Shape(m) /\ ConnectionTyped(c) /\ Numbers(b, Objects)
  /\ \A o \in Objects : m[o].refs = b[o] + HeldBy(c, o)

\* One of the others is the caller's.
Owned(b, x) == [o \in Objects |-> b[o] + One(x = o)]

\* What was sent and what is to be sent before what is gathered
Out(m, c) == c.wire \o Texts(m, c.queue)
Full(m, c) == Out(m, c) \o Texts(m, c.responses)

LEMMA OneType == ASSUME NEW b PROVE One(b) \in Nat /\ (b => One(b) = 1) /\ (~b => One(b) = 0)
  BY DEF One

LEMMA OwnedIs ==
  ASSUME NEW b, Numbers(b, Objects), NEW x
  PROVE  /\ Numbers(Owned(b, x), Objects)
         /\ \A o \in Objects : /\ Owned(b, x)[o] = b[o] + One(x = o)
                               /\ b[o] \in Nat /\ One(x = o) \in Nat
  BY DEF Owned, One, Numbers

LEMMA AppendIs ==
  ASSUME NEW X, NEW s \in Seq(X), NEW e \in X
  PROVE  /\ Append(s, e) \in Seq(X) /\ Append(s, e) # << >>
         /\ Len(s) \in Nat /\ Len(Append(s, e)) = Len(s) + 1
  OBVIOUS

LEMMA BytesMonoid ==
  /\ Joined!Monoid(Bytes, << >>)
  /\ << >> \in Bytes
  /\ \A x, y \in Bytes : x \o y \in Bytes
  /\ \A x \in Bytes : << >> \o x = x /\ x \o << >> = x
  /\ \A x, y, z \in Bytes : (x \o y) \o z = x \o (y \o z)
  <1>1. Joined!Monoid(Bytes, << >>)
    BY TextsMonoid DEF Bytes
  <1>2. QED
    BY <1>1 DEF Joined!Monoid, Concat

LEMMA OneByte ==
  ASSUME NEW r \in Responses
  PROVE  <<Rendering(r)>> \in Bytes /\ \A t \in Bytes : Append(t, Rendering(r)) = t \o <<Rendering(r)>>
  <1>1. PICK E : E = {Rendering(s) : s \in Responses}
    OBVIOUS
  <1>2. PICK e \in E : e = Rendering(r)
    BY <1>1
  <1>3. <<e>> \in Seq(E) /\ \A t \in Seq(E) : Append(t, e) = t \o <<e>>
    OBVIOUS
  <1>4. QED
    BY <1>1, <1>2, <1>3 DEF Bytes

LEMMA ShapeIs ==
  ASSUME NEW m, Shape(m)
  PROVE  Written(m, Bytes)
         /\ \A o \in Objects : m[o].refs \in Int /\ m[o].text \in Bytes
                               /\ m[o] \in [refs : Int, text : Bytes]
  BY DEF Shape, Written

LEMMA HeldByIs ==
  ASSUME NEW c, ConnectionTyped(c), NEW o
  PROVE  /\ HeldBy(c, o) = Times(o, c.responses) + Times(o, c.queue) + One(c.prev_buffer = o)
         /\ Times(o, c.responses) \in Nat /\ Times(o, c.queue) \in Nat
         /\ HeldBy(c, o) \in Nat
  <1>1. c.responses \in Seq(Objects) /\ c.queue \in Seq(Objects)
    BY DEF ConnectionTyped
  <1>2. Times(o, c.responses) \in Nat
    BY <1>1, TimesType
  <1>3. Times(o, c.queue) \in Nat
    BY <1>1, TimesType
  <1>4. Times(o, <<c.prev_buffer>>) = One(c.prev_buffer = o)
    BY TimesOne
  <1>5. HeldBy(c, o) = Times(o, c.responses) + Times(o, c.queue) + One(c.prev_buffer = o)
    BY <1>4 DEF HeldBy
  <1>6. QED
    BY <1>2, <1>3, <1>5, OneType

\* The operations on memory
LEMMA IncrefIs ==
  ASSUME NEW m, Shape(m), NEW x \in Objects
  PROVE  /\ Shape(Incref(m, x))
         /\ \A o \in Objects : /\ Incref(m, x)[o].refs = m[o].refs + One(x = o)
                               /\ Incref(m, x)[o].text = m[o].text
  BY DEF Shape, Incref, One

LEMMA DecrefIs ==
  ASSUME NEW m, Shape(m), NEW x \in Objects
  PROVE  /\ Shape(Decref(m, x))
         /\ \A o \in Objects : /\ Decref(m, x)[o].refs = m[o].refs - One(x = o)
                               /\ Decref(m, x)[o].text = m[o].text
  BY DEF Shape, Decref, One

LEMMA DecrefAllIs ==
  ASSUME NEW m, Shape(m), NEW s \in Seq(Objects)
  PROVE  /\ Shape(DecrefAll(m, s))
         /\ \A o \in Objects : /\ DecrefAll(m, s)[o].refs = m[o].refs - Times(o, s)
                               /\ DecrefAll(m, s)[o].text = m[o].text
                               /\ Times(o, s) \in Nat
  <1>1. \A o \in Objects : Times(o, s) \in Nat
    BY TimesType
  <1>2. ASSUME NEW o \in Objects
        PROVE  /\ m[o] \in [refs : Int, text : Bytes] /\ m[o].refs - Times(o, s) \in Int
               /\ DecrefAll(m, s)[o] = [m[o] EXCEPT !.refs = m[o].refs - Times(o, s)]
    BY <1>1, ShapeIs DEF DecrefAll
  <1>3. ASSUME NEW o \in Objects
        PROVE  /\ DecrefAll(m, s)[o] \in [refs : Int, text : Bytes]
               /\ DecrefAll(m, s)[o].refs = m[o].refs - Times(o, s)
               /\ DecrefAll(m, s)[o].text = m[o].text
    BY <1>2
  <1>4. Shape(DecrefAll(m, s))
    BY <1>3 DEF Shape, DecrefAll
  <1>5. QED
    BY <1>1, <1>3, <1>4

Filled(m, x, t) == [m EXCEPT ![x].text = t]

LEMMA FilledIs ==
  ASSUME NEW m, Shape(m), NEW x \in Objects, NEW t \in Bytes
  PROVE  /\ Shape(Filled(m, x, t))
         /\ \A o \in Objects : /\ Filled(m, x, t)[o].refs = m[o].refs
                               /\ Filled(m, x, t)[o].text = IF o = x THEN t ELSE m[o].text
  BY DEF Shape, Filled

\* There is memory: an object nobody refers to.
LEMMA NewObjectFree ==
  ASSUME NEW m, Free(m) # {}
  PROVE  NewObject(m) \in Objects /\ m[NewObject(m)].refs = 0
  <1>1. Free(m) \subseteq Nat
    BY ResponseBytesAssumption DEF Free
  <1>2. PICK x \in Free(m) : \A y \in Free(m) : x <= y
    BY <1>1, Joined!LeastElement
  <1>3. NewObject(m) \in Free(m)
    BY <1>2 DEF NewObject, Min
  <1>4. QED
    BY <1>3 DEF Free

LEMMA CreateIs ==
  ASSUME NEW m, Shape(m), Free(m) # {}, NEW t \in Bytes
  PROVE  /\ Shape(Create(m, t))
         /\ \A o \in Objects :
              /\ Create(m, t)[o].refs = m[o].refs + One(NewObject(m) = o)
              /\ Create(m, t)[o].text = IF o = NewObject(m) THEN t ELSE m[o].text
  <1>1. PICK x \in Objects : x = NewObject(m) /\ m[x].refs = 0
    BY NewObjectFree
  <1>2. Create(m, t) = [m EXCEPT ![x] = [refs |-> 1, text |-> t]]
    BY <1>1 DEF Create
  <1>3. QED
    BY <1>1, <1>2 DEF Shape, One

\* The texts of what is queued are as they were.
LEMMA QueueSame ==
  ASSUME NEW m, NEW w, NEW s \in Seq(Objects),
         \A o \in Objects : Times(o, s) > 0 => w[o].text = m[o].text
  PROVE  Texts(w, s) = Texts(m, s)
  <1>1. ASSUME NEW i \in DOMAIN s PROVE w[s[i]].text = m[s[i]].text
    <2>1. s[i] \in Objects
      OBVIOUS
    <2>2. Times(s[i], s) \in Nat /\ Times(s[i], s) # 0
      BY <2>1, TimesType
    <2>3. QED
      BY <2>1, <2>2
  <1>2. QED
    BY <1>1, TextsSame

\* An emptied gather
LEMMA EmptiedIs ==
  ASSUME NEW c, ConnectionTyped(c)
  PROVE  LET d == Emptied(c)
         IN /\ d.queue = c.queue /\ d.wire = c.wire /\ d.open = c.open
            /\ d.responses = << >> /\ d.len = 0 /\ d.prev_buffer = c.prev_buffer
            /\ ConnectionTyped(d)
  <1>1. << >> \in Seq(Objects) /\ Len(<< >>) = 0 /\ 0 <= GATHER_MAX_RESP
        /\ 0 <= GATHER_MAX_LEN /\ 0 \in Nat
    BY ResponseBytesAssumption
  <1>2. PICK none \in Seq(Objects) : none = << >>
    BY <1>1
  <1>3. PICK d : d = [c EXCEPT !.responses = none, !.len = 0]
    OBVIOUS
  <1>4. /\ d.queue = c.queue /\ d.wire = c.wire /\ d.open = c.open
        /\ d.responses = none /\ d.len = 0 /\ d.prev_buffer = c.prev_buffer
        /\ d \in [responses : Seq(Objects), len : Nat, prev_buffer : Objects \cup {NULL},
                  queue : Seq(Objects), wire : Bytes, open : BOOLEAN]
    BY <1>3 DEF ConnectionTyped
  <1>5. ConnectionTyped(d)
    BY <1>1, <1>2, <1>4 DEF ConnectionTyped
  <1>6. d = Emptied(c)
    BY <1>2, <1>3 DEF Emptied
  <1>7. QED
    BY <1>2, <1>4, <1>5, <1>6

\* What a flush leaves: a buffer of the caller's with the texts that were
\* gathered; nothing that another holds, or that is queued, is written to.
FlushLeaves(m, c, b, f) ==
  /\ f.buffer \in Objects
  /\ Balanced(f.m, f.c, Owned(b, f.buffer))
  /\ f.c.queue = c.queue /\ f.c.wire = c.wire /\ f.c.open = c.open
  /\ f.c.responses = << >>
  /\ f.m[f.buffer].text = Texts(m, c.responses)
  /\ \A o \in Objects : b[o] > 0 \/ Times(o, c.queue) > 0 => f.m[o].text = m[o].text

\* The only response is the buffer itself.
LEMMA FlushOne ==
  ASSUME NEW m, NEW c, NEW b, Balanced(m, c, b), Len(c.responses) = 1
  PROVE  FlushLeaves(m, c, b, [m |-> m, c |-> Emptied(c), buffer |-> c.responses[1]])
  <1>1. Shape(m) /\ ConnectionTyped(c) /\ Numbers(b, Objects)
        /\ \A o \in Objects : m[o].refs = b[o] + HeldBy(c, o)
    BY DEF Balanced
  <1>2. c.responses \in Seq(Objects)
    BY <1>1 DEF ConnectionTyped
  <1>3. PICK x \in Objects : x = c.responses[1] /\ c.responses = <<x>>
    BY <1>2
  <1>4. PICK d : d = Emptied(c)
    OBVIOUS
  <1>5. /\ d.queue = c.queue /\ d.wire = c.wire /\ d.open = c.open
        /\ d.responses = << >> /\ d.len = 0 /\ d.prev_buffer = c.prev_buffer
        /\ ConnectionTyped(d)
    BY <1>1, <1>4, EmptiedIs
  <1>6. ASSUME NEW o \in Objects PROVE m[o].refs = Owned(b, x)[o] + HeldBy(d, o)
    <2>1. HeldBy(c, o) = Times(o, c.responses) + Times(o, c.queue) + One(c.prev_buffer = o)
      BY <1>1, HeldByIs
    <2>2. HeldBy(d, o) = Times(o, d.responses) + Times(o, d.queue) + One(d.prev_buffer = o)
      BY <1>5, HeldByIs
    <2>3. Times(o, c.responses) = One(x = o)
      BY <1>3, TimesOne
    <2>4. Times(o, d.responses) = 0
      BY <1>5, TimesNone
    <2>5. Owned(b, x)[o] = b[o] + One(x = o) /\ b[o] \in Nat
      BY <1>1, OwnedIs
    <2>6. Times(o, c.queue) \in Nat
      BY <1>1, HeldByIs
    <2>7. One(c.prev_buffer = o) \in Nat /\ One(x = o) \in Nat
      BY OneType
    <2>8. m[o].refs = b[o] + HeldBy(c, o)
      BY <1>1
    <2>9. QED
      BY <1>5, <2>1, <2>2, <2>3, <2>4, <2>5, <2>6, <2>7, <2>8
  <1>7. Balanced(m, d, Owned(b, x))
    BY <1>1, <1>5, <1>6, OwnedIs DEF Balanced
  <1>8. m[x].text = Texts(m, c.responses)
    <2>1. Written(m, Bytes) /\ Joined!Monoid(Bytes, << >>) /\ m[x].text \in Bytes
      BY <1>1, ShapeIs, BytesMonoid
    <2>2. c.responses # << >> /\ Head(c.responses) = x /\ Tail(c.responses) = << >>
      BY <1>3
    <2>3. Texts(m, c.responses) = m[x].text \o Texts(m, << >>)
      BY <1>2, <2>1, <2>2, TextsHead
    <2>4. QED
      BY <2>1, <2>3, TextsNone, BytesMonoid
  <1>9. QED
    BY <1>3, <1>4, <1>5, <1>7, <1>8 DEF FlushLeaves

\* Otherwise a buffer is filled: the previous one, which is nobody else's, or
\* a new one.
LEMMA FlushManyKeeps ==
  ASSUME NEW m, NEW c, NEW b, Balanced(m, c, b), Free(m) # {}
  PROVE  FlushLeaves(m, c, b, FlushMany([m |-> m, c |-> c]))
  <1> DEFINE p == [m |-> m, c |-> c]
             P == c.prev_buffer
             R == c.responses
  <1>1. Shape(m) /\ ConnectionTyped(c) /\ Numbers(b, Objects)
        /\ \A o \in Objects : m[o].refs = b[o] + HeldBy(c, o)
    BY DEF Balanced
  <1>2. R \in Seq(Objects) /\ c.queue \in Seq(Objects) /\ P \in Objects \cup {NULL}
    BY <1>1 DEF ConnectionTyped
  <1>3. PICK text \in Bytes : text = Texts(m, R)
    BY <1>1, <1>2, ShapeIs, BytesMonoid, TextsType
  <1>4. ASSUME NEW o \in Objects
        PROVE  /\ m[o].refs = b[o] + Times(o, R) + Times(o, c.queue) + One(P = o)
               /\ b[o] \in Nat /\ Times(o, R) \in Nat /\ Times(o, c.queue) \in Nat
    BY <1>1, HeldByIs, OneType DEF Numbers
  <1>5. NULL \notin Objects
    BY ResponseBytesAssumption DEF NULL
  \* The buffer, filled, and the references to it and to the previous one
  <1> DEFINE Chosen(w, x) ==
        /\ x \in Objects /\ Shape(w)
        /\ m[x].refs = One(P = x)
        /\ \A o \in Objects : w[o].text = IF o = x THEN text ELSE m[o].text
        /\ \A o \in Objects : w[o].refs = m[o].refs + One(x = o) - One(P = o)
  <1>6. \E w, x : /\ Chosen(w, x)
                  /\ FlushMany(p) = [m |-> Incref(DecrefAll(w, R), x),
                                     c |-> [Emptied(c) EXCEPT !.prev_buffer = x],
                                     buffer |-> x]
    <2>1. CASE Reusable(p)
      <3>1. PICK x \in Objects : x = P /\ m[x].refs = 1
        BY <1>2, <2>1 DEF Reusable
      <3>2. PICK w : w = Filled(m, x, text)
        OBVIOUS
      <3>3. Shape(w) /\ \A o \in Objects :
              w[o].refs = m[o].refs /\ w[o].text = IF o = x THEN text ELSE m[o].text
        BY <1>1, <3>2, FilledIs
      <3>4. FlushMany(p) = [m |-> Incref(DecrefAll(w, R), x),
                            c |-> [Emptied(c) EXCEPT !.prev_buffer = x],
                            buffer |-> x]
        BY <1>3, <2>1, <3>1, <3>2 DEF FlushMany, Filled
      <3>5. m[x].refs = One(P = x)
        BY <3>1, OneType
      <3>6. ASSUME NEW o \in Objects
            PROVE  w[o].refs = m[o].refs + One(x = o) - One(P = o)
        <4>1. m[o].refs \in Int /\ One(x = o) \in Nat
          BY <1>1, OneType, ShapeIs
        <4>2. QED
          BY <3>1, <3>3, <4>1
      <3>7. Chosen(w, x)
        BY <3>3, <3>5, <3>6
      <3>8. QED
        BY <3>4, <3>7
    <2>2. CASE ~Reusable(p)
      <3>1. PICK v : v = IF P # NULL THEN Decref(m, P) ELSE m
        OBVIOUS
      <3>2. Shape(v) /\ \A o \in Objects :
              v[o].refs = m[o].refs - One(P = o) /\ v[o].text = m[o].text
        <4>1. CASE P # NULL
          <5>1. P \in Objects /\ v = Decref(m, P)
            BY <1>2, <3>1, <4>1
          <5>2. QED
            BY <1>1, <5>1, DecrefIs
        <4>2. CASE P = NULL
          <5>1. \A o \in Objects : One(P = o) = 0
            BY <1>5, <4>2, OneType
          <5>2. QED
            BY <1>1, <3>1, <4>2, <5>1, ShapeIs
        <4>3. QED
          BY <4>1, <4>2
      <3>3. ASSUME NEW o \in Objects, v[o].refs = 0 PROVE m[o].refs = 0 /\ One(P = o) = 0
        <4>1. CASE P = o
          <5>1. m[o].refs # 1
            BY <1>5, <2>2, <4>1 DEF Reusable
          <5>2. One(P = o) = 1
            BY <4>1, OneType
          <5>3. m[o].refs \in Int
            BY <1>1, ShapeIs
          <5>4. QED
            BY <3>2, <3>3, <5>1, <5>2, <5>3
        <4>2. CASE P # o
          <5>1. One(P = o) = 0 /\ m[o].refs \in Int
            BY <1>1, <4>2, OneType, ShapeIs
          <5>2. QED
            BY <3>2, <3>3, <5>1
        <4>3. QED
          BY <4>1, <4>2
      <3>4. Free(v) # {}
        <4>1. PICK o \in Objects : m[o].refs = 0
          BY DEF Free
        <4>2. /\ m[o].refs = b[o] + Times(o, R) + Times(o, c.queue) + One(P = o)
              /\ b[o] \in Nat /\ Times(o, R) \in Nat /\ Times(o, c.queue) \in Nat
          BY <1>4
        <4>3. One(P = o) = 0
          <5>1. One(P = o) \in Nat
            BY OneType
          <5> HIDE DEF P, R
          <5>2. QED
            BY <4>1, <4>2, <5>1
        <4>4. v[o].refs = 0
          BY <3>2, <4>1, <4>3
        <4>5. QED
          BY <4>4 DEF Free
      <3>5. PICK x \in Objects : x = NewObject(v) /\ v[x].refs = 0
        BY <3>4, NewObjectFree
      <3>6. PICK w : w = Create(v, text)
        OBVIOUS
      <3>7. Shape(w) /\ \A o \in Objects :
              /\ w[o].refs = v[o].refs + One(x = o)
              /\ w[o].text = IF o = x THEN text ELSE v[o].text
        BY <3>2, <3>4, <3>5, <3>6, CreateIs
      <3>8. FlushMany(p) = [m |-> Incref(DecrefAll(w, R), x),
                            c |-> [Emptied(c) EXCEPT !.prev_buffer = x],
                            buffer |-> x]
        BY <1>3, <2>2, <3>1, <3>5, <3>6 DEF FlushMany
      <3>9. m[x].refs = One(P = x)
        BY <3>3, <3>5
      <3>10. ASSUME NEW o \in Objects
             PROVE  w[o].refs = m[o].refs + One(x = o) - One(P = o)
        <4>1. m[o].refs \in Int /\ One(x = o) \in Nat /\ One(P = o) \in Nat
          BY <1>1, OneType, ShapeIs
        <4>2. QED
          BY <3>2, <3>7, <4>1
      <3>11. Chosen(w, x)
        BY <3>2, <3>7, <3>9, <3>10
      <3>12. QED
        BY <3>8, <3>11
    <2>3. QED
      BY <2>1, <2>2
  <1>7. PICK w, x : /\ Chosen(w, x)
                    /\ FlushMany(p) = [m |-> Incref(DecrefAll(w, R), x),
                                       c |-> [Emptied(c) EXCEPT !.prev_buffer = x],
                                       buffer |-> x]
    BY <1>6
  <1>8. PICK f : f = FlushMany(p)
    OBVIOUS
  <1>9. f.m = Incref(DecrefAll(w, R), x) /\ f.buffer = x
        /\ f.c = [Emptied(c) EXCEPT !.prev_buffer = x]
    BY <1>7, <1>8
  <1>10. x \in Objects /\ Shape(w) /\ m[x].refs = One(P = x)
         /\ (\A o \in Objects : w[o].text = IF o = x THEN text ELSE m[o].text)
         /\ \A o \in Objects : w[o].refs = m[o].refs + One(x = o) - One(P = o)
    BY <1>7
  <1> HIDE DEF p, Chosen
  <1>11. Shape(f.m) /\ \A o \in Objects :
           /\ f.m[o].text = w[o].text
           /\ f.m[o].refs = w[o].refs - Times(o, R) + One(x = o)
    <2>1. PICK v : v = DecrefAll(w, R)
      OBVIOUS
    <2>2. Shape(v) /\ \A o \in Objects :
            v[o].refs = w[o].refs - Times(o, R) /\ v[o].text = w[o].text
      BY <1>2, <1>10, <2>1, DecrefAllIs
    <2>3. QED
      BY <1>9, <1>10, <2>1, <2>2, IncrefIs
  <1>12. /\ f.c.queue = c.queue /\ f.c.wire = c.wire /\ f.c.open = c.open
         /\ f.c.responses = << >> /\ f.c.len = 0 /\ f.c.prev_buffer = x
         /\ ConnectionTyped(f.c)
    <2>1. PICK d : d = Emptied(c)
      OBVIOUS
    <2>2. /\ d.queue = c.queue /\ d.wire = c.wire /\ d.open = c.open
          /\ d.responses = << >> /\ d.len = 0 /\ ConnectionTyped(d)
      BY <1>1, <2>1, EmptiedIs
    <2>3. f.c = [d EXCEPT !.prev_buffer = x]
      BY <1>9, <2>1
    <2>4. /\ f.c.queue = c.queue /\ f.c.wire = c.wire /\ f.c.open = c.open
          /\ f.c.responses = << >> /\ f.c.len = 0 /\ f.c.prev_buffer = x
          /\ f.c \in [responses : Seq(Objects), len : Nat, prev_buffer : Objects \cup {NULL},
                      queue : Seq(Objects), wire : Bytes, open : BOOLEAN]
      BY <1>10, <2>2, <2>3 DEF ConnectionTyped
    <2>5. QED
      BY <2>2, <2>4 DEF ConnectionTyped
  <1>13. ASSUME NEW o \in Objects PROVE f.m[o].refs = Owned(b, x)[o] + HeldBy(f.c, o)
    <2>1. HeldBy(f.c, o) = Times(o, f.c.responses) + Times(o, f.c.queue)
                             + One(f.c.prev_buffer = o)
      BY <1>12, HeldByIs
    <2>2. Times(o, f.c.responses) = 0
      BY <1>12, TimesNone
    <2>3. Owned(b, x)[o] = b[o] + One(x = o)
      BY <1>1, OwnedIs
    <2>4. One(x = o) \in Nat /\ One(P = o) \in Nat
      BY OneType
    <2>5. /\ m[o].refs = b[o] + Times(o, R) + Times(o, c.queue) + One(P = o)
          /\ b[o] \in Nat /\ Times(o, R) \in Nat /\ Times(o, c.queue) \in Nat
      BY <1>4
    <2>6. f.m[o].refs = w[o].refs - Times(o, R) + One(x = o)
      BY <1>11
    <2>7. w[o].refs = m[o].refs + One(x = o) - One(P = o)
      BY <1>10
    <2> HIDE DEF P, R
    <2>8. QED
      BY <1>12, <2>1, <2>2, <2>3, <2>4, <2>5, <2>6, <2>7
  <1>14. Balanced(f.m, f.c, Owned(b, x))
    BY <1>1, <1>11, <1>12, <1>13, OwnedIs DEF Balanced
  <1>15. ASSUME NEW o \in Objects, b[o] > 0 \/ Times(o, c.queue) > 0
         PROVE  f.m[o].text = m[o].text
    <2>1. o # x
      <3>1. /\ m[o].refs = b[o] + Times(o, R) + Times(o, c.queue) + One(P = o)
            /\ b[o] \in Nat /\ Times(o, R) \in Nat /\ Times(o, c.queue) \in Nat
        BY <1>4
      <3>2. One(P = o) \in Nat
        BY OneType
      <3>3. m[o].refs # One(P = o)
        <4> HIDE DEF P, R
        <4>1. QED
          BY <1>15, <3>1, <3>2, SMTT(30)
      <3>4. QED
        BY <1>10, <3>3
    <2>2. QED
      BY <1>10, <1>11, <2>1
  <1>16. f.m[x].text = Texts(m, c.responses)
    BY <1>3, <1>10, <1>11
  <1>17. FlushLeaves(m, c, b, f)
    BY <1>9, <1>10, <1>12, <1>14, <1>15, <1>16 DEF FlushLeaves
  <1>18. QED
    BY <1>8, <1>17 DEF p

\* What was sent, what is to be sent and what is gathered are bytes.
LEMMA OutType ==
  ASSUME NEW m, Shape(m), NEW c, ConnectionTyped(c)
  PROVE  /\ c.wire \in Bytes /\ Texts(m, c.queue) \in Bytes /\ Texts(m, c.responses) \in Bytes
         /\ Out(m, c) \in Bytes /\ Full(m, c) \in Bytes
  <1>1. c.wire \in Bytes /\ c.queue \in Seq(Objects) /\ c.responses \in Seq(Objects)
    BY DEF ConnectionTyped
  <1>2. Written(m, Bytes)
    BY ShapeIs
  <1>3. Texts(m, c.queue) \in Bytes
    BY <1>1, <1>2, BytesMonoid, TextsType
  <1>4. Texts(m, c.responses) \in Bytes
    BY <1>1, <1>2, BytesMonoid, TextsType
  <1>5. Out(m, c) \in Bytes
    BY <1>1, <1>3, BytesMonoid DEF Out
  <1>6. Full(m, c) \in Bytes
    BY <1>4, <1>5, BytesMonoid DEF Full
  <1>7. QED
    BY <1>1, <1>3, <1>4, <1>5, <1>6

\* Gather_flush
LEMMA GatherFlushKeeps ==
  ASSUME NEW m, NEW c, NEW b, Balanced(m, c, b), Free(m) # {}
  PROVE  FlushLeaves(m, c, b, Gather_flush([m |-> m, c |-> c]))
  <1>1. CASE Len(c.responses) = 1
    <2>1. Gather_flush([m |-> m, c |-> c])
            = [m |-> m, c |-> Emptied(c), buffer |-> c.responses[1]]
      BY <1>1 DEF Gather_flush
    <2>2. QED
      BY <1>1, <2>1, FlushOne
  <1>2. CASE Len(c.responses) # 1
    <2>1. Gather_flush([m |-> m, c |-> c]) = FlushMany([m |-> m, c |-> c])
      BY <1>2 DEF Gather_flush
    <2>2. QED
      BY <2>1, FlushManyKeeps
  <1>3. QED
    BY <1>1, <1>2

\* The caller's object is written and the caller's reference dropped: it is
\* behind everything before it, and nothing is written to.
Dropped(w, o) == [w EXCEPT !.m = Decref(@, o)]

WriteLeaves(m, c, b, o, q) ==
  /\ q = [m |-> q.m, c |-> q.c]
  /\ Balanced(q.m, q.c, b)
  /\ Out(q.m, q.c) = Out(m, c) \o m[o].text
  /\ q.c.responses = c.responses /\ q.c.len = c.len /\ q.c.open = c.open
  /\ \A x \in Objects : q.m[x].text = m[x].text

LEMMA WriteKeeps ==
  ASSUME NEW m, NEW c, NEW b, Numbers(b, Objects), NEW o \in Objects,
         Balanced(m, c, Owned(b, o)), NEW now
  PROVE  WriteLeaves(m, c, b, o, Dropped(Write([m |-> m, c |-> c], o, now), o))
  <1>1. Shape(m) /\ ConnectionTyped(c)
    BY DEF Balanced
  <1>2. ASSUME NEW x \in Objects
        PROVE  /\ m[x].refs = b[x] + One(o = x) + HeldBy(c, x)
               /\ b[x] \in Nat /\ One(o = x) \in Nat /\ HeldBy(c, x) \in Nat
    BY <1>1, OwnedIs, OneType, HeldByIs DEF Balanced
  <1>3. PICK t \in Bytes : t = m[o].text
    BY <1>1, ShapeIs
  <1>4. c.queue \in Seq(Objects) /\ c.wire \in Bytes /\ Texts(m, c.queue) \in Bytes
    BY <1>1, OutType DEF ConnectionTyped
  <1>5. CASE now /\ c.queue = << >>
    <2>1. PICK sent \in Bytes : sent = c.wire \o t
      BY <1>4, BytesMonoid
    <2>2. PICK d : d = [c EXCEPT !.wire = sent]
      OBVIOUS
    <2>3. PICK v : v = Decref(m, o)
      OBVIOUS
    <2>4. Dropped(Write([m |-> m, c |-> c], o, now), o) = [m |-> v, c |-> d]
      <3>1. PICK p : p = [m |-> m, c |-> c]
        OBVIOUS
      <3>2. p.m = m /\ p.c = c
        BY <3>1
      <3>3. Write(p, o, now) = [p EXCEPT !.c.wire = sent]
        BY <1>3, <1>5, <2>1, <3>2 DEF Write
      <3>4. [p EXCEPT !.c.wire = sent] = [m |-> m, c |-> d]
        BY <2>2, <3>1
      <3>5. QED
        BY <2>3, <3>1, <3>3, <3>4 DEF Dropped
    <2>5. /\ d.wire = sent /\ d.queue = c.queue /\ d.responses = c.responses
          /\ d.prev_buffer = c.prev_buffer /\ d.len = c.len /\ d.open = c.open
          /\ ConnectionTyped(d)
      BY <1>1, <2>2 DEF ConnectionTyped
    <2>6. Shape(v) /\ \A x \in Objects :
            v[x].refs = m[x].refs - One(o = x) /\ v[x].text = m[x].text
      BY <1>1, <2>3, DecrefIs
    <2>7. ASSUME NEW x \in Objects PROVE v[x].refs = b[x] + HeldBy(d, x)
      <3>1. HeldBy(d, x) = HeldBy(c, x)
        BY <2>5 DEF HeldBy
      <3>2. QED
        BY <1>2, <2>6, <3>1
    <2>8. Balanced(v, d, b)
      BY <2>5, <2>6, <2>7 DEF Balanced
    <2>9. Out(v, d) = Out(m, c) \o t
      <3>1. Texts(v, d.queue) = << >> /\ Texts(m, c.queue) = << >>
        BY <1>5, <2>5, TextsNone
      <3>2. QED
        BY <1>4, <2>1, <2>5, <3>1, BytesMonoid DEF Out
    <2>10. QED
      BY <1>3, <2>4, <2>5, <2>6, <2>8, <2>9 DEF WriteLeaves
  <1>6. CASE ~(now /\ c.queue = << >>)
    <2>1. PICK queue \in Seq(Objects) : queue = Append(c.queue, o)
      BY <1>4, AppendIs
    <2>2. PICK d : d = [c EXCEPT !.queue = queue]
      OBVIOUS
    <2>3. PICK u : u = Incref(m, o)
      OBVIOUS
    <2>4. PICK v : v = Decref(u, o)
      OBVIOUS
    <2>5. Dropped(Write([m |-> m, c |-> c], o, now), o) = [m |-> v, c |-> d]
      <3>1. PICK p : p = [m |-> m, c |-> c]
        OBVIOUS
      <3>2. p.m = m /\ p.c = c
        BY <3>1
      <3>3. Write(p, o, now) = [m |-> u, c |-> d]
        BY <1>6, <2>1, <2>2, <2>3, <3>2 DEF Write
      <3>4. QED
        BY <2>4, <3>1, <3>3 DEF Dropped
    <2>6. /\ d.wire = c.wire /\ d.queue = queue /\ d.responses = c.responses
          /\ d.prev_buffer = c.prev_buffer /\ d.len = c.len /\ d.open = c.open
          /\ ConnectionTyped(d)
      BY <1>1, <2>2 DEF ConnectionTyped
    <2>7. Shape(u) /\ \A x \in Objects :
            u[x].refs = m[x].refs + One(o = x) /\ u[x].text = m[x].text
      BY <1>1, <2>3, IncrefIs
    <2>8. Shape(v) /\ \A x \in Objects :
            v[x].refs = u[x].refs - One(o = x) /\ v[x].text = u[x].text
      BY <2>4, <2>7, DecrefIs
    <2>9. ASSUME NEW x \in Objects PROVE v[x].refs = b[x] + HeldBy(d, x)
      <3>1. Times(x, queue) = Times(x, c.queue) + One(o = x)
        BY <1>4, <2>1, TimesAppend
      <3>2. /\ HeldBy(c, x) = Times(x, c.responses) + Times(x, c.queue)
                                + One(c.prev_buffer = x)
            /\ Times(x, c.responses) \in Nat /\ Times(x, c.queue) \in Nat
        BY <1>1, HeldByIs
      <3>3. HeldBy(d, x) = Times(x, d.responses) + Times(x, d.queue)
                             + One(d.prev_buffer = x)
        BY <2>6, HeldByIs
      <3>4. One(c.prev_buffer = x) \in Nat
        BY OneType
      <3>5. m[x].refs = b[x] + One(o = x) + HeldBy(c, x) /\ b[x] \in Nat /\ One(o = x) \in Nat
        BY <1>2
      <3>6. QED
        BY <2>6, <2>7, <2>8, <3>1, <3>2, <3>3, <3>4, <3>5
    <2>10. Balanced(v, d, b)
      BY <2>6, <2>8, <2>9 DEF Balanced
    <2>11. Out(v, d) = Out(m, c) \o t
      <3>1. Written(m, Bytes)
        BY <1>1, ShapeIs
      <3>2. Texts(m, Append(c.queue, o)) = Texts(m, c.queue) \o m[o].text
        BY <1>4, <3>1, TextsAppend
      <3>3. \A x \in Objects : v[x].text = m[x].text
        BY <2>7, <2>8
      <3>4. Texts(v, queue) = Texts(m, queue)
        BY <3>3, QueueSame
      <3>5. Out(v, d) = c.wire \o (Texts(m, c.queue) \o t)
        BY <1>3, <2>1, <2>6, <3>2, <3>4 DEF Out
      <3>6. QED
        BY <1>4, <3>5, BytesMonoid DEF Out
    <2>12. \A x \in Objects : v[x].text = m[x].text
      BY <2>7, <2>8
    <2>13. PICK q : q = [m |-> v, c |-> d]
      OBVIOUS
    <2>14. q.m = v /\ q.c = d
      BY <2>13
    <2>15. WriteLeaves(m, c, b, o, q)
      BY <1>3, <2>6, <2>10, <2>11, <2>12, <2>13, <2>14 DEF WriteLeaves
    <2>16. QED
      BY <2>5, <2>13, <2>15
  <1>7. QED
    BY <1>5, <1>6

\* Flushing sends what is gathered behind the rest.
FlushedLeaves(m, c, b, q) ==
  /\ q = [m |-> q.m, c |-> q.c]
  /\ Balanced(q.m, q.c, b)
  /\ Out(q.m, q.c) = Full(m, c)
  /\ q.c.responses = << >> /\ q.c.open = c.open
  /\ \A x \in Objects : b[x] > 0 => q.m[x].text = m[x].text

LEMMA FlushedKeeps ==
  ASSUME NEW m, NEW c, NEW b, Balanced(m, c, b), Free(m) # {}, NEW now
  PROVE  FlushedLeaves(m, c, b, Flushed([m |-> m, c |-> c], now))
  <1>1. Shape(m) /\ ConnectionTyped(c) /\ Numbers(b, Objects)
    BY DEF Balanced
  <1>2. CASE c.len = 0
    <2>1. Flushed([m |-> m, c |-> c], now) = [m |-> m, c |-> c]
      BY <1>2 DEF Flushed
    <2>2. c.responses = << >>
      BY <1>1, <1>2 DEF ConnectionTyped
    <2>3. Full(m, c) = Out(m, c)
      <3>1. Texts(m, c.responses) = << >>
        BY <2>2, TextsNone
      <3>2. Out(m, c) \in Bytes
        BY <1>1, OutType
      <3>3. QED
        BY <3>1, <3>2, BytesMonoid DEF Full
    <2>4. QED
      BY <2>1, <2>2, <2>3 DEF FlushedLeaves
  <1>3. CASE c.len # 0
    <2>1. PICK f : f = Gather_flush([m |-> m, c |-> c])
      OBVIOUS
    <2>2. FlushLeaves(m, c, b, f)
      BY <2>1, GatherFlushKeeps
    <2>3. PICK q : q = Dropped(Write([m |-> f.m, c |-> f.c], f.buffer, now), f.buffer)
      OBVIOUS
    <2>4. Flushed([m |-> m, c |-> c], now) = q
      BY <1>3, <2>1, <2>3 DEF Flushed, Dropped
    <2>5. WriteLeaves(f.m, f.c, b, f.buffer, q)
      BY <1>1, <2>2, <2>3, WriteKeeps DEF FlushLeaves
    <2>6. Texts(f.m, c.queue) = Texts(m, c.queue)
      BY <1>1, <2>2, QueueSame DEF FlushLeaves, ConnectionTyped
    <2>7. Out(q.m, q.c) = Full(m, c)
      BY <2>2, <2>5, <2>6 DEF FlushLeaves, WriteLeaves, Out, Full
    <2>8. ASSUME NEW x \in Objects, b[x] > 0 PROVE q.m[x].text = m[x].text
      BY <2>2, <2>5, <2>8 DEF FlushLeaves, WriteLeaves
    <2>9. QED
      BY <2>2, <2>4, <2>5, <2>7, <2>8 DEF FlushLeaves, WriteLeaves, FlushedLeaves
  <1>4. QED
    BY <1>2, <1>3

\* A response of the caller's, gathered or written, is behind all the others.
AnswerLeaves(m, c, b, o, q) ==
  /\ Balanced(q.m, q.c, b)
  /\ Full(q.m, q.c) = Full(m, c) \o m[o].text
  /\ q.c.open = c.open
  /\ \A x \in Objects : b[x] > 0 => q.m[x].text = m[x].text

LEMMA WrittenBehindKeeps ==
  ASSUME NEW m, NEW c, NEW b, Numbers(b, Objects), NEW o \in Objects,
         Balanced(m, c, Owned(b, o)), Free(m) # {}, NEW now
  PROVE  AnswerLeaves(m, c, b, o, WrittenBehind([m |-> m, c |-> c], o, now))
  <1>1. PICK f : f = Flushed([m |-> m, c |-> c], now)
    OBVIOUS
  <1>2. FlushedLeaves(m, c, Owned(b, o), f)
    BY <1>1, FlushedKeeps
  <1>3. PICK q : q = Dropped(Write(f, o, now), o)
    OBVIOUS
  <1>4. WrittenBehind([m |-> m, c |-> c], o, now) = q
    BY <1>1, <1>3 DEF WrittenBehind, Dropped
  <1>5. WriteLeaves(f.m, f.c, b, o, q)
    <2>1. f = [m |-> f.m, c |-> f.c]
      BY <1>2 DEF FlushedLeaves
    <2>2. q = Dropped(Write([m |-> f.m, c |-> f.c], o, now), o)
      BY <1>3, <2>1
    <2>3. QED
      BY <1>2, <2>2, WriteKeeps DEF FlushedLeaves
  <1>6. ASSUME NEW x \in Objects, Owned(b, o)[x] > 0 PROVE f.m[x].text = m[x].text
    BY <1>2, <1>6 DEF FlushedLeaves
  <1>7. f.m[o].text = m[o].text
    <2>1. Owned(b, o)[o] = b[o] + One(o = o) /\ b[o] \in Nat
      BY OwnedIs
    <2>2. One(o = o) = 1
      BY OneType
    <2>3. QED
      BY <1>6, <2>1, <2>2
  <1>8. ASSUME NEW x \in Objects, b[x] > 0 PROVE q.m[x].text = m[x].text
    <2>1. Owned(b, o)[x] = b[x] + One(o = x) /\ b[x] \in Nat /\ One(o = x) \in Nat
      BY OwnedIs, OneType
    <2>2. f.m[x].text = m[x].text
      BY <1>6, <1>8, <2>1
    <2>3. QED
      BY <1>5, <2>2 DEF WriteLeaves
  <1>9. Full(q.m, q.c) = Full(m, c) \o m[o].text
    <2>1. Out(q.m, q.c) = Full(m, c) \o m[o].text
      BY <1>2, <1>5, <1>7 DEF FlushedLeaves, WriteLeaves
    <2>2. Texts(q.m, q.c.responses) = << >>
      BY <1>2, <1>5, TextsNone DEF FlushedLeaves, WriteLeaves
    <2>3. Out(q.m, q.c) \in Bytes
      BY <1>5, OutType DEF WriteLeaves, Balanced
    <2>4. QED
      BY <2>1, <2>2, <2>3, BytesMonoid DEF Full
  <1>10. QED
    BY <1>2, <1>4, <1>5, <1>8, <1>9 DEF FlushedLeaves, WriteLeaves, AnswerLeaves

LEMMA GatheredKeeps ==
  ASSUME NEW m, NEW c, NEW b, Numbers(b, Objects), NEW o \in Objects,
         Balanced(m, c, Owned(b, o)), NEW size \in Nat \ {0}, GatherRoom(c, size)
  PROVE  AnswerLeaves(m, c, b, o, Gathered([m |-> m, c |-> c], o, size))
  <1>1. Shape(m) /\ ConnectionTyped(c) /\ c.responses \in Seq(Objects)
        /\ c.len \in Nat /\ Len(c.responses) \in Nat
    BY DEF Balanced, ConnectionTyped
  <1>2. PICK responses \in Seq(Objects) : responses = Append(c.responses, o)
    BY <1>1, AppendIs
  <1>3. Len(responses) = Len(c.responses) + 1 /\ responses # << >>
    BY <1>1, <1>2, AppendIs
  <1>4. PICK len \in Nat : len = c.len + size
    BY <1>1
  <1>5. PICK d : d = [c EXCEPT !.responses = responses, !.len = len]
    OBVIOUS
  <1>6. Gathered([m |-> m, c |-> c], o, size) = [m |-> m, c |-> d]
    <2>1. PICK p : p = [m |-> m, c |-> c]
      OBVIOUS
    <2>2. p.m = m /\ p.c = c
      BY <2>1
    <2>3. Gathered(p, o, size) = [p EXCEPT !.c.responses = responses, !.c.len = len]
      BY <1>2, <1>4, <2>2 DEF Gathered
    <2>4. QED
      BY <1>5, <2>1, <2>3
  <1>7. /\ d.responses = responses /\ d.len = len /\ d.queue = c.queue
        /\ d.prev_buffer = c.prev_buffer /\ d.wire = c.wire /\ d.open = c.open
        /\ d \in [responses : Seq(Objects), len : Nat, prev_buffer : Objects \cup {NULL},
                  queue : Seq(Objects), wire : Bytes, open : BOOLEAN]
    BY <1>1, <1>5 DEF ConnectionTyped
  <1>8. ConnectionTyped(d)
    <2>1. Len(d.responses) <= GATHER_MAX_RESP /\ d.len <= GATHER_MAX_LEN
      BY <1>1, <1>3, <1>4, <1>7, ResponseBytesAssumption DEF GatherRoom, ConnectionTyped, Balanced
    <2>2. d.responses # << >> /\ d.len # 0
      BY <1>1, <1>3, <1>4, <1>7
    <2>3. QED
      BY <1>7, <2>1, <2>2 DEF ConnectionTyped
  <1>9. ASSUME NEW x \in Objects PROVE m[x].refs = b[x] + HeldBy(d, x)
    <2>1. Times(x, responses) = Times(x, c.responses) + One(o = x)
      BY <1>1, <1>2, TimesAppend
    <2>2. /\ HeldBy(c, x) = Times(x, c.responses) + Times(x, c.queue)
                              + One(c.prev_buffer = x)
          /\ Times(x, c.responses) \in Nat /\ Times(x, c.queue) \in Nat
      BY <1>1, HeldByIs
    <2>3. HeldBy(d, x) = Times(x, d.responses) + Times(x, d.queue) + One(d.prev_buffer = x)
      BY <1>8, HeldByIs
    <2>4. m[x].refs = b[x] + One(o = x) + HeldBy(c, x) /\ b[x] \in Nat
      BY OwnedIs DEF Balanced
    <2>5. One(c.prev_buffer = x) \in Nat /\ One(o = x) \in Nat
      BY OneType
    <2>6. QED
      BY <1>7, <2>1, <2>2, <2>3, <2>4, <2>5
  <1>10. Balanced(m, d, b)
    BY <1>1, <1>8, <1>9 DEF Balanced
  <1>11. Full(m, d) = Full(m, c) \o m[o].text
    <2>1. Written(m, Bytes) /\ m[o].text \in Bytes
      BY <1>1, ShapeIs
    <2>2. Texts(m, Append(c.responses, o)) = Texts(m, c.responses) \o m[o].text
      BY <1>1, <2>1, TextsAppend
    <2>3. Out(m, d) = Out(m, c)
      BY <1>7 DEF Out
    <2>4. Full(m, d) = Out(m, c) \o (Texts(m, c.responses) \o m[o].text)
      BY <1>2, <1>7, <2>2, <2>3 DEF Full
    <2>5. Out(m, c) \in Bytes /\ Texts(m, c.responses) \in Bytes
      BY <1>1, OutType
    <2>6. QED
      BY <2>1, <2>4, <2>5, BytesMonoid DEF Full
  <1>12. QED
    BY <1>6, <1>7, <1>10, <1>11, SMTT(30) DEF AnswerLeaves

-----------------------------------------------------------------------------
(* The inductive invariant *)

Entry == [body : STRING, response_bytes : Objects]

Typed ==
  /\ Shape(memory)
  /\ cache \in Seq(Entry) /\ Len(cache) <= CACHE_LEN
  /\ connection = [c \in Connections |-> connection[c]]
  /\ \A c \in Connections : ConnectionTyped(connection[c])
  /\ answered = [c \in Connections |-> answered[c]]
  /\ \A c \in Connections : answered[c] \in Bytes
  /\ leaked \in Seq(Objects)

\* What is in the cache is what Response_cacheable lets in, under its body.
CacheExact ==
  \A i \in DOMAIN cache :
    memory[cache[i].response_bytes].text
      = <<[body |-> cache[i].body, plain |-> TRUE, minor_version |-> 1]>>

IInv == Typed /\ CountsAreHolders /\ CacheExact /\ WireExact

\* The references to an object that are not a connection's, and those that are
\* not this connection's
Elsewhere(o) == Times(o, CachedObjects) + Times(o, leaked)
Rest(c) == [o \in Objects |-> memory[o].refs - HeldBy(connection[c], o)]

LEMMA EntriesAre ==
  ASSUME NEW s \in Seq(Entry)
  PROVE  /\ Len(s) \in Nat /\ DOMAIN s = 1..Len(s)
         /\ \A i \in 1..Len(s) : s[i] \in Entry /\ s[i].response_bytes \in Objects
  <1>1. Len(s) \in Nat /\ DOMAIN s = 1..Len(s) /\ \A i \in 1..Len(s) : s[i] \in Entry
    OBVIOUS
  <1>2. \A e \in Entry : e.response_bytes \in Objects
    BY DEF Entry
  <1>3. QED
    BY <1>1, <1>2

LEMMA ElsewhereIs ==
  ASSUME Typed, NEW o
  PROVE  /\ CachedObjects \in Seq(Objects) /\ Len(CachedObjects) = Len(cache)
         /\ Times(o, CachedObjects) \in Nat /\ Times(o, leaked) \in Nat
         /\ Elsewhere(o) = Times(o, CachedObjects) + Times(o, leaked)
         /\ Elsewhere(o) \in Nat
  <1>1. CachedObjects \in Seq(Objects) /\ Len(CachedObjects) = Len(cache)
    <2>1. DOMAIN cache = 1..Len(cache) /\ Len(cache) \in Nat
          /\ \A i \in 1..Len(cache) : cache[i].response_bytes \in Objects
      BY EntriesAre DEF Typed
    <2>2. CachedObjects \in [1..Len(cache) -> Objects]
      BY <2>1 DEF CachedObjects
    <2>3. QED
      BY <2>1, <2>2
  <1>2. Times(o, CachedObjects) \in Nat
    BY <1>1, TimesType
  <1>3. leaked \in Seq(Objects)
    BY DEF Typed
  <1>4. Times(o, leaked) \in Nat
    BY <1>3, TimesType
  <1>5. QED
    BY <1>1, <1>2, <1>4 DEF Elsewhere

ElsewhereCounted == \A o \in Objects : Elsewhere(o) \in Nat

LEMMA ElsewhereNumber == Typed => ElsewhereCounted
  BY ElsewhereIs DEF ElsewhereCounted

LEMMA HoldersAre ==
  ASSUME NEW o PROVE Holders(o) = Elsewhere(o) + HeldByAll(o)
  BY DEF Holders, Elsewhere

\* What connections hold, per connection
LEMMA HeldNumbers ==
  ASSUME Typed, NEW o, NEW f, f = [c \in Connections |-> HeldBy(connection[c], o)]
  PROVE  Numbers(f, Connections) /\ \A c \in Connections : f[c] = HeldBy(connection[c], o)
  <1>1. \A c \in Connections : HeldBy(connection[c], o) \in Nat
    BY HeldByIs DEF Typed
  <1>2. QED
    BY <1>1 DEF Numbers

\* What one connection and another hold is part of what all hold.
LEMMA HeldByTwo ==
  ASSUME Typed, NEW o, NEW c \in Connections
  PROVE  /\ \E rest \in Nat : HeldByAll(o) = HeldBy(connection[c], o) + rest
         /\ \A d \in Connections \ {c} : \E rest \in Nat :
              HeldByAll(o) = HeldBy(connection[c], o) + (HeldBy(connection[d], o) + rest)
  <1>1. PICK f : f = [d \in Connections |-> HeldBy(connection[d], o)]
    OBVIOUS
  <1>2. Numbers(f, Connections) /\ \A d \in Connections : f[d] = HeldBy(connection[d], o)
    BY <1>1, HeldNumbers
  <1>3. HeldByAll(o) = SumFunction(f) /\ IsFiniteSet(Connections)
    BY <1>1, ResponseBytesAssumption DEF HeldByAll
  <1>4. \E rest \in Nat : SumFunction(f) = f[c] + rest
    BY <1>2, <1>3, SumChange
  <1>5. ASSUME NEW d \in Connections \ {c}
        PROVE  \E rest \in Nat : SumFunction(f) = f[c] + (f[d] + rest)
    BY <1>2, <1>3, SumOfTwo
  <1>6. QED
    BY <1>2, <1>3, <1>4, <1>5

\* When one connection changes, what the others hold does not.
LEMMA HeldByChange ==
  ASSUME Typed, Typed', NEW o, NEW c \in Connections,
         \A d \in Connections \ {c} : connection'[d] = connection[d]
  PROVE  \E rest \in Nat : /\ HeldByAll(o) = HeldBy(connection[c], o) + rest
                           /\ HeldByAll(o)' = HeldBy(connection'[c], o) + rest
  <1>1. PICK f : f = [d \in Connections |-> HeldBy(connection[d], o)]
    OBVIOUS
  <1>2. PICK k : k = [d \in Connections |-> HeldBy(connection'[d], o)]
    OBVIOUS
  <1>3. Numbers(f, Connections) /\ \A d \in Connections : f[d] = HeldBy(connection[d], o)
    BY <1>1, HeldNumbers
  <1>4. Numbers(k, Connections) /\ \A d \in Connections : k[d] = HeldBy(connection'[d], o)
    <2>1. \A d \in Connections : HeldBy(connection'[d], o) \in Nat
      BY HeldByIs DEF Typed
    <2>2. QED
      BY <1>2, <2>1 DEF Numbers
  <1>5. \A d \in Connections \ {c} : k[d] = f[d]
    BY <1>3, <1>4
  <1>6. IsFiniteSet(Connections)
    BY ResponseBytesAssumption
  <1>7. PICK rest \in Nat : SumFunction(f) = f[c] + rest /\ SumFunction(k) = k[c] + rest
    BY <1>3, <1>4, <1>5, <1>6, SumChange
  <1>8. HeldByAll(o) = SumFunction(f)
    BY <1>1 DEF HeldByAll
  <1>9. HeldByAll(o)' = SumFunction(k)
    BY <1>2 DEF HeldByAll
  <1>10. QED
    BY <1>3, <1>4, <1>7, <1>8, <1>9

\* Rest(c) is the others of a balance, and has what the cache and each other
\* connection holds.
LEMMA RestIs ==
  ASSUME Typed, CountsAreHolders, NEW c \in Connections
  PROVE  /\ Balanced(memory, connection[c], Rest(c))
         /\ \A o \in Objects :
              /\ Rest(c)[o] = memory[o].refs - HeldBy(connection[c], o)
              /\ Rest(c)[o] >= Times(o, CachedObjects)
              /\ \A d \in Connections \ {c} : Rest(c)[o] >= HeldBy(connection[d], o)
  <1>1. ASSUME NEW o \in Objects
        PROVE  /\ Rest(c)[o] = memory[o].refs - HeldBy(connection[c], o)
               /\ memory[o].refs = Elsewhere(o) + HeldByAll(o)
               /\ HeldBy(connection[c], o) \in Nat
               /\ Elsewhere(o) \in Nat /\ Elsewhere(o) >= Times(o, CachedObjects)
    <2>1. Times(o, CachedObjects) \in Nat /\ Times(o, leaked) \in Nat
          /\ Elsewhere(o) = Times(o, CachedObjects) + Times(o, leaked)
      BY ElsewhereIs
    <2>2. HeldBy(connection[c], o) \in Nat
      BY HeldByIs DEF Typed
    <2>3. memory[o].refs = Elsewhere(o) + HeldByAll(o)
      BY HoldersAre DEF CountsAreHolders
    <2>4. Rest(c)[o] = memory[o].refs - HeldBy(connection[c], o)
      BY DEF Rest
    <2>5. Elsewhere(o) \in Nat /\ Elsewhere(o) >= Times(o, CachedObjects)
      BY <2>1
    <2>6. QED
      BY <2>2, <2>3, <2>4, <2>5
  <1>2. ASSUME NEW o \in Objects
        PROVE  /\ Rest(c)[o] \in Nat /\ Rest(c)[o] >= Times(o, CachedObjects)
               /\ memory[o].refs = Rest(c)[o] + HeldBy(connection[c], o)
    <2>1. PICK rest \in Nat : HeldByAll(o) = HeldBy(connection[c], o) + rest
      BY HeldByTwo
    <2>2. Times(o, CachedObjects) \in Nat
      BY ElsewhereIs
    <2>3. Rest(c)[o] = Elsewhere(o) + rest
      BY <1>1, <2>1
    <2>4. QED
      BY <1>1, <2>1, <2>2, <2>3
  <1>3. ASSUME NEW o \in Objects, NEW d \in Connections \ {c}
        PROVE  Rest(c)[o] >= HeldBy(connection[d], o)
    <2>1. PICK rest \in Nat :
            HeldByAll(o) = HeldBy(connection[c], o) + (HeldBy(connection[d], o) + rest)
      BY HeldByTwo
    <2>2. HeldBy(connection[d], o) \in Nat
      BY HeldByIs DEF Typed
    <2>3. Rest(c)[o] = Elsewhere(o) + (HeldBy(connection[d], o) + rest)
      BY <1>1, <2>1, <2>2
    <2>4. QED
      BY <1>1, <2>2, <2>3
  <1>4. Numbers(Rest(c), Objects)
    BY <1>2 DEF Numbers, Rest
  <1>5. Balanced(memory, connection[c], Rest(c))
    BY <1>2, <1>4 DEF Balanced, Typed
  <1>6. QED
    BY <1>1, <1>2, <1>3, <1>5

-----------------------------------------------------------------------------
(* The steps *)

\* A step of one connection, from which the counts of all objects, the cache's
\* texts and the output of the other connections follow
StepOf(c, b) ==
  /\ Typed'
  /\ \A d \in Connections \ {c} : connection'[d] = connection[d] /\ answered'[d] = answered[d]
  /\ Balanced(memory', connection'[c], b)
  /\ \A o \in Objects : b[o] + Elsewhere(o) = Rest(c)[o] + Elsewhere(o)'
  /\ \A o \in Objects : Rest(c)[o] > 0 => memory'[o].text = memory[o].text

LEMMA StepCounts ==
  ASSUME IInv, NEW c \in Connections, NEW b, StepOf(c, b)
  PROVE  CountsAreHolders'
  <1> USE DEF IInv
  <1>1. ASSUME NEW o \in Objects PROVE memory'[o].refs = Holders(o)'
    <2>1. Typed' /\ \A d \in Connections \ {c} : connection'[d] = connection[d]
      BY DEF StepOf
    <2>2. PICK rest \in Nat : /\ HeldByAll(o) = HeldBy(connection[c], o) + rest
                              /\ HeldByAll(o)' = HeldBy(connection'[c], o) + rest
      BY <2>1, HeldByChange
    <2>3. memory[o].refs = Elsewhere(o) + HeldByAll(o)
      BY HoldersAre DEF CountsAreHolders
    <2>4. HeldBy(connection[c], o) \in Nat /\ HeldBy(connection'[c], o) \in Nat
      BY <2>1, HeldByIs DEF Typed
    <2>5. Elsewhere(o) \in Nat /\ Elsewhere(o)' \in Nat
      <3>1. (Typed => ElsewhereCounted)'
        BY ElsewhereNumber, PTL
      <3>2. QED
        BY <2>1, <3>1, ElsewhereNumber DEF ElsewhereCounted
    <2>6. Rest(c)[o] = memory[o].refs - HeldBy(connection[c], o)
      BY RestIs
    <2>7. b[o] + Elsewhere(o) = Rest(c)[o] + Elsewhere(o)' /\ b[o] \in Nat
      BY DEF StepOf, Balanced, Numbers
    <2>8. memory'[o].refs = b[o] + HeldBy(connection'[c], o)
      BY DEF StepOf, Balanced
    <2>9. memory'[o].refs = Elsewhere(o)' + HeldByAll(o)'
      BY <2>2, <2>3, <2>4, <2>5, <2>6, <2>7, <2>8
    <2>10. QED
      BY <2>9 DEF Holders, Elsewhere
  <1>2. QED
    BY <1>1 DEF CountsAreHolders

LEMMA StepCache ==
  ASSUME IInv, NEW c \in Connections, NEW b, StepOf(c, b), NEW i \in DOMAIN cache
  PROVE  memory'[cache[i].response_bytes].text
           = <<[body |-> cache[i].body, plain |-> TRUE, minor_version |-> 1]>>
  <1> USE DEF IInv
  <1>1. PICK o \in Objects : o = cache[i].response_bytes
    BY EntriesAre DEF Typed
  <1>2. CachedObjects \in Seq(Objects) /\ i \in DOMAIN CachedObjects /\ CachedObjects[i] = o
    BY <1>1, ElsewhereIs DEF CachedObjects
  <1>3. Times(o, CachedObjects) \in Nat /\ Times(o, CachedObjects) # 0
    BY <1>2, TimesType
  <1>4. Rest(c)[o] >= Times(o, CachedObjects) /\ Rest(c)[o] \in Nat
    BY RestIs DEF Balanced, Numbers
  <1>5. memory'[o].text = memory[o].text
    BY <1>3, <1>4 DEF StepOf
  <1>6. QED
    BY <1>1, <1>5 DEF CacheExact

LEMMA StepOthers ==
  ASSUME IInv, NEW c \in Connections, NEW b, StepOf(c, b), NEW d \in Connections \ {c},
         connection'[d].open
  PROVE  Full(memory', connection'[d]) = answered'[d]
  <1> USE DEF IInv
  <1>1. connection'[d] = connection[d] /\ answered'[d] = answered[d]
    BY DEF StepOf
  <1>2. PICK k : k = connection[d]
    OBVIOUS
  <1>3. ConnectionTyped(k) /\ k.queue \in Seq(Objects) /\ k.responses \in Seq(Objects)
    BY <1>2 DEF Typed, ConnectionTyped
  <1>4. ASSUME NEW o \in Objects, Times(o, k.queue) > 0 \/ Times(o, k.responses) > 0
        PROVE  memory'[o].text = memory[o].text
    <2>1. HeldBy(k, o) = Times(o, k.responses) + Times(o, k.queue) + One(k.prev_buffer = o)
          /\ Times(o, k.responses) \in Nat /\ Times(o, k.queue) \in Nat
      BY <1>3, HeldByIs
    <2>2. One(k.prev_buffer = o) \in Nat
      BY OneType
    <2>3. Rest(c)[o] >= HeldBy(k, o) /\ Rest(c)[o] \in Nat
      BY <1>2, RestIs DEF Balanced, Numbers
    <2>4. Rest(c)[o] > 0
      BY <1>4, <2>1, <2>2, <2>3
    <2>5. QED
      BY <2>4 DEF StepOf
  <1>5. Texts(memory', k.queue) = Texts(memory, k.queue)
    BY <1>3, <1>4, QueueSame
  <1>6. Texts(memory', k.responses) = Texts(memory, k.responses)
    BY <1>3, <1>4, QueueSame
  <1>7. Full(memory, k) = answered[d]
    BY <1>1, <1>2 DEF WireExact, Full, Out
  <1>8. QED
    BY <1>1, <1>2, <1>5, <1>6, <1>7 DEF Full, Out

\* ... so that only the output of the connection itself and a new entry of the
\* cache are left.
LEMMA StepKeeps ==
  ASSUME IInv, NEW c \in Connections, NEW b, StepOf(c, b), CacheExact',
         connection'[c].open => Full(memory', connection'[c]) = answered'[c]
  PROVE  IInv'
  <1>1. Typed'
    BY DEF StepOf
  <1>2. CountsAreHolders'
    BY StepCounts
  <1>3. ASSUME NEW d \in Connections, connection'[d].open
        PROVE  Full(memory', connection'[d]) = answered'[d]
    BY <1>3, StepOthers
  <1>4. WireExact'
    BY <1>3 DEF WireExact, Full, Out
  <1>5. QED
    BY <1>1, <1>2, <1>4 DEF IInv

LEMMA StepCacheSame ==
  ASSUME IInv, NEW c \in Connections, NEW b, StepOf(c, b), cache' = cache
  PROVE  CacheExact'
  BY StepCache DEF CacheExact

\* What the cache and leaked responses hold when the cache has one more, and
\* when it is the same
LEMMA ElsewhereAppend ==
  ASSUME Typed, NEW e \in Entry, cache' = Append(cache, e), leaked' = leaked, NEW o
  PROVE  Elsewhere(o)' = Elsewhere(o) + One(e.response_bytes = o)
  <1>1. PICK s \in Seq(Entry), n \in Nat : s = cache /\ n = Len(s)
    BY DEF Typed
  <1>2. PICK z \in Seq(Entry) : z = Append(s, e)
    BY AppendIs
  <1>3. /\ Len(z) = n + 1 /\ z[n + 1] = e /\ \A i \in 1..n : z[i] = s[i]
        /\ DOMAIN z = 1..(n + 1) /\ DOMAIN s = 1..n
    BY <1>1, <1>2
  <1>4. PICK t \in Seq(Objects) : t = CachedObjects /\ Len(t) = n
    BY <1>1, ElsewhereIs
  <1>5. PICK x \in Objects : x = e.response_bytes
    BY DEF Entry
  <1>6. PICK u : u = CachedObjects'
    OBVIOUS
  <1>7. u = [i \in 1..(n + 1) |-> z[i].response_bytes]
    BY <1>1, <1>2, <1>3, <1>6 DEF CachedObjects
  <1>8. \A i \in 1..n : t[i] = s[i].response_bytes
    BY <1>1, <1>3, <1>4 DEF CachedObjects
  <1>9. u = Append(t, x)
    <2>1. PICK v \in Seq(Objects) : v = Append(t, x)
      BY AppendIs
    <2>2. Len(v) = n + 1 /\ DOMAIN v = 1..(n + 1) /\ v[n + 1] = x /\ \A i \in 1..n : v[i] = t[i]
      BY <1>4, <2>1
    <2>3. ASSUME NEW i \in 1..(n + 1) PROVE v[i] = z[i].response_bytes
      <3>1. CASE i = n + 1
        BY <1>3, <1>5, <2>2, <3>1
      <3>2. CASE i # n + 1
        <4>1. i \in 1..n
          BY <3>2
        <4>2. QED
          BY <1>3, <1>8, <2>2, <4>1
      <3>3. QED
        BY <3>1, <3>2
    <2>4. v = [i \in 1..(n + 1) |-> v[i]]
      BY <2>2
    <2>5. v = u
      BY <1>7, <2>3, <2>4
    <2>6. QED
      BY <2>1, <2>5
  <1>10. Times(o, u) = Times(o, t) + One(x = o)
    BY <1>9, TimesAppend
  <1>11. Elsewhere(o)' = Times(o, u) + Times(o, leaked)
    BY <1>6 DEF Elsewhere
  <1>12. Elsewhere(o) = Times(o, t) + Times(o, leaked)
    BY <1>4 DEF Elsewhere
  <1>13. Times(o, t) \in Nat /\ Times(o, leaked) \in Nat /\ One(x = o) \in Nat
    BY <1>4, ElsewhereIs, OneType
  <1>14. QED
    BY <1>5, <1>10, <1>11, <1>12, <1>13

LEMMA ElsewhereSame ==
  ASSUME cache' = cache, leaked' = leaked, NEW o
  PROVE  Elsewhere(o)' = Elsewhere(o)
  BY DEF Elsewhere, CachedObjects

\* What Response_render leaves: a reference for the caller, and one for the
\* cache if that keeps the object, to an object that holds what is asked for.
RenderLeaves(r, o, m) ==
  /\ o \in Objects /\ Shape(m)
  /\ \A x \in Objects :
       /\ m[x].refs = memory[x].refs + One(o = x) + One(Kept(r) /\ o = x)
       /\ memory[x].refs > 0 => m[x].text = memory[x].text
  /\ m[o].text = <<Rendering(r)>>

LEMMA RenderKeeps ==
  ASSUME IInv, NEW r \in Responses, Free(memory) # {}
  PROVE  RenderLeaves(r, Rendered(r), Response_render(r))
  <1>1. Typed /\ Shape(memory)
    BY DEF IInv, Typed
  <1>2. \A x \in Objects : memory[x].refs \in Int
    BY <1>1, ShapeIs
  <1>3. CASE Hit(r)
    <2>1. ~Kept(r) /\ r.plain /\ r.minor_version = 1 /\ CachedFor(r) # {}
      BY <1>3 DEF Hit, Kept, Response_cacheable
    <2>2. cache \in Seq(Entry) /\ CachedFor(r) \subseteq DOMAIN cache
      BY <1>1 DEF Typed, CachedFor
    <2>3. CachedFor(r) \subseteq Nat
      BY <2>2, EntriesAre
    <2>4. PICK i \in CachedFor(r) : i = Min(CachedFor(r))
      <3>1. PICK x \in CachedFor(r) : \A y \in CachedFor(r) : x <= y
        BY <2>1, <2>3, Joined!LeastElement
      <3>2. Min(CachedFor(r)) \in CachedFor(r)
        BY <3>1 DEF Min
      <3>3. QED
        BY <3>2
    <2>5. PICK o \in Objects : o = cache[i].response_bytes
      BY <2>2, EntriesAre
    <2>6. Rendered(r) = o /\ Response_render(r) = Incref(memory, o)
      BY <1>3, <2>4, <2>5 DEF Rendered, Response_render
    <2>7. memory[o].text = <<Rendering(r)>>
      <3>1. memory[o].text = <<[body |-> cache[i].body, plain |-> TRUE, minor_version |-> 1]>>
        BY <2>2, <2>5 DEF IInv, CacheExact
      <3>2. cache[i].body = r.body
        BY DEF CachedFor
      <3>3. r.plain = TRUE
        BY <2>1, ResponseBytesAssumption DEF ResponseType
      <3>4. QED
        BY <2>1, <3>1, <3>2, <3>3 DEF Rendering
    <2>8. PICK m : m = Incref(memory, o)
      OBVIOUS
    <2>9. Shape(m) /\ \A x \in Objects : m[x].refs = memory[x].refs + One(o = x)
                                         /\ m[x].text = memory[x].text
      BY <1>1, <2>8, IncrefIs
    <2>10. \A x \in Objects : One(Kept(r) /\ o = x) = 0 /\ One(o = x) \in Nat
      BY <2>1, OneType
    <2>11. RenderLeaves(r, o, m)
      BY <1>2, <2>7, <2>9, <2>10 DEF RenderLeaves
    <2>12. QED
      BY <2>6, <2>8, <2>11
  <1>4. CASE ~Hit(r)
    <2>1. PICK text \in Bytes : text = <<Rendering(r)>>
      BY OneByte
    <2>2. PICK o \in Objects : o = NewObject(memory) /\ memory[o].refs = 0
      BY NewObjectFree
    <2>3. PICK v : v = Create(memory, text)
      OBVIOUS
    <2>4. Shape(v) /\ \A x \in Objects :
            /\ v[x].refs = memory[x].refs + One(o = x)
            /\ v[x].text = IF x = o THEN text ELSE memory[x].text
      BY <1>1, <2>2, <2>3, CreateIs
    <2>5. PICK m : m = IF Kept(r) THEN Incref(v, o) ELSE v
      OBVIOUS
    <2>6. Rendered(r) = o /\ Response_render(r) = m
      BY <1>4, <2>1, <2>2, <2>3, <2>5 DEF Rendered, Response_render
    <2>7. Shape(m) /\ \A x \in Objects :
            m[x].refs = v[x].refs + One(Kept(r) /\ o = x) /\ m[x].text = v[x].text
      <3>1. CASE Kept(r)
        <4>1. \A x \in Objects : One(Kept(r) /\ o = x) = One(o = x)
          BY <3>1 DEF One
        <4>2. m = Incref(v, o)
          BY <2>5, <3>1
        <4>3. QED
          BY <2>4, <4>1, <4>2, IncrefIs
      <3>2. CASE ~Kept(r)
        <4>1. \A x \in Objects : One(Kept(r) /\ o = x) = 0
          BY <3>2, OneType
        <4>2. m = v
          BY <2>5, <3>2
        <4>3. \A x \in Objects : v[x].refs \in Int
          BY <2>4, ShapeIs
        <4>4. QED
          BY <2>4, <4>1, <4>2, <4>3
      <3>3. QED
        BY <3>1, <3>2
    <2>8. \A x \in Objects : memory[x].refs > 0 => x # o
      BY <2>2
    <2>9. RenderLeaves(r, o, m)
      BY <2>1, <2>4, <2>7, <2>8 DEF RenderLeaves
    <2>10. QED
      BY <2>6, <2>9
  <1>5. QED
    BY <1>3, <1>4

\* There is memory for the response and for a buffer.
LEMMA TwoFree ==
  ASSUME MemoryLeft
  PROVE  \E x, y \in Objects : x # y /\ memory[x].refs = 0 /\ memory[y].refs = 0
  <1>1. IsFiniteSet(Free(memory))
    BY ResponseBytesAssumption, FS_Subset DEF Free
  <1>2. Cardinality(Free(memory)) \in Nat /\ Cardinality(Free(memory)) >= 2
    BY <1>1, FS_CardinalityType DEF MemoryLeft
  <1>3. Free(memory) # {}
    BY <1>2, FS_EmptySet
  <1>4. PICK x \in Free(memory) : TRUE
    BY <1>3
  <1>5. /\ Cardinality(Free(memory) \ {x}) = Cardinality(Free(memory)) - 1
        /\ IsFiniteSet(Free(memory) \ {x})
    BY <1>1, FS_RemoveElement
  <1>6. Free(memory) \ {x} # {}
    BY <1>2, <1>5, FS_EmptySet
  <1>7. QED
    BY <1>6 DEF Free

\* As long as what is referred to is not written to, a connection's output is
\* the same.
LEMMA FullSame ==
  ASSUME IInv, NEW c \in Connections, NEW w,
         \A x \in Objects : memory[x].refs > 0 => w[x].text = memory[x].text
  PROVE  Full(w, connection[c]) = Full(memory, connection[c])
  <1>1. PICK k : k = connection[c]
    OBVIOUS
  <1>2. ConnectionTyped(k) /\ k.queue \in Seq(Objects) /\ k.responses \in Seq(Objects)
    BY <1>1 DEF IInv, Typed, ConnectionTyped
  <1>3. ASSUME NEW o \in Objects, Times(o, k.queue) > 0 \/ Times(o, k.responses) > 0
        PROVE  w[o].text = memory[o].text
    <2>1. HeldBy(k, o) = Times(o, k.responses) + Times(o, k.queue) + One(k.prev_buffer = o)
          /\ Times(o, k.responses) \in Nat /\ Times(o, k.queue) \in Nat
      BY <1>2, HeldByIs
    <2>2. One(k.prev_buffer = o) \in Nat
      BY OneType
    <2>3. memory[o].refs = Rest(c)[o] + HeldBy(k, o) /\ Rest(c)[o] \in Nat
      BY <1>1, RestIs DEF IInv, Balanced, Numbers
    <2>4. memory[o].refs > 0
      BY <1>3, <2>1, <2>2, <2>3
    <2>5. QED
      BY <2>4
  <1>4. Texts(w, k.queue) = Texts(memory, k.queue)
    BY <1>2, <1>3, QueueSame
  <1>5. Texts(w, k.responses) = Texts(memory, k.responses)
    BY <1>2, <1>3, QueueSame
  <1>6. QED
    BY <1>1, <1>4, <1>5 DEF Full, Out

-----------------------------------------------------------------------------
(* The actions *)

\* The types that a step of one connection has to keep besides memory's
LEMMA StepTyped ==
  ASSUME Typed, NEW c \in Connections, NEW d,
         connection' = [connection EXCEPT ![c] = d], ConnectionTyped(d), Shape(memory'),
         cache' \in Seq(Entry), Len(cache') <= CACHE_LEN, leaked' \in Seq(Objects),
         NEW t \in Bytes, answered' = [answered EXCEPT ![c] = t]
  PROVE  /\ Typed' /\ connection'[c] = d /\ answered'[c] = t
         /\ \A e \in Connections \ {c} :
              connection'[e] = connection[e] /\ answered'[e] = answered[e]
  <1>1. connection = [e \in Connections |-> connection[e]]
        /\ answered = [e \in Connections |-> answered[e]]
    BY DEF Typed
  <1>2. connection' = [e \in Connections |-> IF e = c THEN d ELSE connection[e]]
    BY <1>1
  <1>3. answered' = [e \in Connections |-> IF e = c THEN t ELSE answered[e]]
    BY <1>1
  <1>4. connection' = [e \in Connections |-> connection'[e]]
        /\ answered' = [e \in Connections |-> answered'[e]]
    BY <1>2, <1>3
  <1>5. \A e \in Connections : ConnectionTyped(connection'[e]) /\ answered'[e] \in Bytes
    BY <1>2, <1>3 DEF Typed
  <1>6. QED
    BY <1>2, <1>3, <1>4, <1>5 DEF Typed

LEMMA AnswerStep ==
  ASSUME IInv, NEW c \in Connections, NEW r \in Responses, NEW enabled, NEW now,
         Answer(c, r, enabled, now)
  PROVE  IInv'
  <1>1. PICK y, z \in Objects : y # z /\ memory[y].refs = 0 /\ memory[z].refs = 0
    BY TwoFree DEF Answer
  <1>2. Free(memory) # {}
    BY <1>1 DEF Free
  <1>3. PICK o, m : o = Rendered(r) /\ m = Response_render(r)
    OBVIOUS
  <1>4. /\ o \in Objects /\ Shape(m)
        /\ \A x \in Objects :
             /\ m[x].refs = memory[x].refs + One(o = x) + One(Kept(r) /\ o = x)
             /\ memory[x].refs > 0 => m[x].text = memory[x].text
        /\ m[o].text = <<Rendering(r)>>
    BY <1>2, <1>3, RenderKeeps DEF RenderLeaves
  <1>5. PICK k : k = connection[c]
    OBVIOUS
  <1>6. ConnectionTyped(k) /\ k.open /\ Typed
    BY <1>5 DEF IInv, Typed, Answer
  <1>7. PICK b : b = [x \in Objects |-> Rest(c)[x] + One(Kept(r) /\ o = x)]
    OBVIOUS
  <1>8. ASSUME NEW x \in Objects
        PROVE  /\ b[x] = Rest(c)[x] + One(Kept(r) /\ o = x) /\ Rest(c)[x] \in Nat
               /\ One(Kept(r) /\ o = x) \in Nat /\ b[x] \in Nat
               /\ memory[x].refs = Rest(c)[x] + HeldBy(k, x) /\ HeldBy(k, x) \in Nat
    <2>1. Rest(c)[x] \in Nat /\ memory[x].refs = Rest(c)[x] + HeldBy(k, x)
      BY <1>5, RestIs DEF IInv, Balanced, Numbers
    <2>2. HeldBy(k, x) \in Nat
      BY <1>6, HeldByIs
    <2>3. One(Kept(r) /\ o = x) \in Nat
      BY OneType
    <2>4. QED
      BY <1>7, <2>1, <2>2, <2>3
  <1>9. Numbers(b, Objects)
    BY <1>7, <1>8 DEF Numbers
  <1>10. Balanced(m, k, Owned(b, o))
    <2>1. ASSUME NEW x \in Objects PROVE m[x].refs = Owned(b, o)[x] + HeldBy(k, x)
      <3>1. Owned(b, o)[x] = b[x] + One(o = x) /\ One(o = x) \in Nat
        BY <1>9, OwnedIs
      <3>2. m[x].refs = memory[x].refs + One(o = x) + One(Kept(r) /\ o = x)
        BY <1>4
      <3>3. QED
        BY <1>8, <3>1, <3>2
    <2>2. QED
      BY <1>4, <1>6, <1>9, <2>1, OwnedIs DEF Balanced
  <1>11. Free(m) # {}
    <2>1. PICK x \in Objects : x # o /\ memory[x].refs = 0
      BY <1>1
    <2>2. One(o = x) = 0 /\ One(Kept(r) /\ o = x) = 0
      BY <2>1, OneType
    <2>3. m[x].refs = 0
      BY <1>4, <2>1, <2>2
    <2>4. QED
      BY <2>3 DEF Free
  <1>12. PICK q : /\ AnswerLeaves(m, k, b, o, q)
                  /\ memory' = q.m /\ connection' = [connection EXCEPT ![c] = q.c]
    <2>1. CASE enabled /\ GatherRoom(k, r.size)
      <3>1. r.size \in Nat \ {0}
        BY ResponseBytesAssumption DEF ResponseType
      <3>2. AnswerLeaves(m, k, b, o, Gathered([m |-> m, c |-> k], o, r.size))
        BY <1>4, <1>9, <1>10, <2>1, <3>1, GatheredKeeps
      <3>3. QED
        BY <1>3, <1>5, <2>1, <3>2 DEF Answer
    <2>2. CASE ~(enabled /\ GatherRoom(k, r.size))
      <3>1. AnswerLeaves(m, k, b, o, WrittenBehind([m |-> m, c |-> k], o, now))
        BY <1>4, <1>9, <1>10, <1>11, WrittenBehindKeeps
      <3>2. QED
        BY <1>3, <1>5, <2>2, <3>1 DEF Answer
    <2>3. QED
      BY <2>1, <2>2
  <1>13. /\ Balanced(q.m, q.c, b) /\ Full(q.m, q.c) = Full(m, k) \o m[o].text
         /\ \A x \in Objects : b[x] > 0 => q.m[x].text = m[x].text
    BY <1>12 DEF AnswerLeaves
  <1>14. PICK e \in Entry : e = [body |-> r.body, response_bytes |-> o]
    BY <1>4, ResponseBytesAssumption DEF Entry, ResponseType
  <1>15. cache' = IF Kept(r) THEN Append(cache, e) ELSE cache
    BY <1>3, <1>14 DEF Answer, Response_cache
  <1>16. cache' \in Seq(Entry) /\ Len(cache') <= CACHE_LEN
    <2>1. cache \in Seq(Entry) /\ Len(cache) <= CACHE_LEN
      BY <1>6 DEF Typed
    <2>2. CASE Kept(r)
      <3>1. Len(cache) < CACHE_LEN
        BY <2>2 DEF Kept
      <3>2. /\ Append(cache, e) \in Seq(Entry)
            /\ Len(cache) \in Nat /\ Len(Append(cache, e)) = Len(cache) + 1
        BY <2>1, AppendIs
      <3>3. QED
        BY <1>15, <2>2, <3>1, <3>2, ResponseBytesAssumption
    <2>3. CASE ~Kept(r)
      BY <1>15, <2>1, <2>3
    <2>4. QED
      BY <2>2, <2>3
  <1>17. answered[c] \in Bytes /\ leaked \in Seq(Objects) /\ leaked' = leaked
    BY <1>6 DEF Typed, Answer
  <1>18. PICK t \in Bytes : t = answered[c] \o <<Rendering(r)>>
    BY <1>17, OneByte, BytesMonoid
  <1>19. answered' = [answered EXCEPT ![c] = t]
    <2>1. Append(answered[c], Rendering(r)) = t
      BY <1>17, <1>18, OneByte
    <2>2. QED
      BY <2>1 DEF Answer
  <1>20. /\ Typed' /\ connection'[c] = q.c /\ answered'[c] = t
         /\ \A d \in Connections \ {c} :
              connection'[d] = connection[d] /\ answered'[d] = answered[d]
    <2>1. ConnectionTyped(q.c) /\ Shape(memory')
      BY <1>12, <1>13 DEF Balanced
    <2>2. QED
      BY <1>6, <1>12, <1>16, <1>17, <1>19, <2>1, StepTyped
  <1>21. ASSUME NEW x \in Objects PROVE b[x] + Elsewhere(x) = Rest(c)[x] + Elsewhere(x)'
    <2>1. Elsewhere(x)' = Elsewhere(x) + One(Kept(r) /\ o = x)
      <3>1. CASE Kept(r)
        <4>1. Elsewhere(x)' = Elsewhere(x) + One(e.response_bytes = x)
          BY <1>6, <1>15, <1>17, <3>1, ElsewhereAppend
        <4>2. One(e.response_bytes = x) = One(Kept(r) /\ o = x)
          BY <1>14, <3>1 DEF One
        <4>3. QED
          BY <4>1, <4>2
      <3>2. CASE ~Kept(r)
        <4>1. Elsewhere(x)' = Elsewhere(x) /\ Elsewhere(x) \in Nat
          BY <1>6, <1>15, <1>17, <3>2, ElsewhereSame, ElsewhereIs
        <4>2. One(Kept(r) /\ o = x) = 0
          BY <3>2, OneType
        <4>3. QED
          BY <4>1, <4>2
      <3>3. QED
        BY <3>1, <3>2
    <2>2. Elsewhere(x) \in Nat
      BY <1>6, ElsewhereIs
    <2>3. QED
      BY <1>8, <2>1, <2>2
  <1>22. ASSUME NEW x \in Objects, Rest(c)[x] > 0 PROVE memory'[x].text = memory[x].text
    <2>1. memory[x].refs > 0 /\ b[x] > 0
      BY <1>8, <1>22
    <2>2. QED
      BY <1>4, <1>12, <1>13, <2>1
  <1>23. StepOf(c, b)
    BY <1>12, <1>13, <1>20, <1>21, <1>22 DEF StepOf
  <1>24. CacheExact'
    <2>1. CASE Kept(r)
      <3>1. memory'[o].text = <<[body |-> r.body, plain |-> TRUE, minor_version |-> 1]>>
        <4>1. One(Kept(r) /\ o = o) = 1
          BY <2>1, OneType
        <4>2. b[o] > 0
          BY <1>4, <1>8, <4>1
        <4>3. memory'[o].text = <<Rendering(r)>>
          BY <1>4, <1>12, <1>13, <4>2
        <4>4. r.plain = TRUE /\ r.minor_version = 1
          BY <2>1, ResponseBytesAssumption DEF Kept, Response_cacheable, ResponseType
        <4>5. QED
          BY <4>3, <4>4 DEF Rendering
      <3>2. cache \in Seq(Entry) /\ cache' = Append(cache, e)
        BY <1>6, <1>15, <2>1 DEF Typed
      <3>3. ASSUME NEW i \in DOMAIN cache'
            PROVE  memory'[cache'[i].response_bytes].text
                     = <<[body |-> cache'[i].body, plain |-> TRUE, minor_version |-> 1]>>
        <4>1. CASE i \in DOMAIN cache
          <5>1. cache'[i] = cache[i]
            BY <3>2, <4>1
          <5>2. QED
            BY <1>23, <4>1, <5>1, StepCache
        <4>2. CASE i \notin DOMAIN cache
          <5>1. cache'[i] = e
            BY <3>2, <4>2
          <5>2. QED
            BY <1>14, <3>1, <5>1
        <4>3. QED
          BY <4>1, <4>2
      <3>4. QED
        BY <3>3 DEF CacheExact
    <2>2. CASE ~Kept(r)
      <3>1. cache' = cache
        BY <1>15, <2>2
      <3>2. QED
        BY <1>23, <3>1, StepCacheSame
    <2>3. QED
      BY <2>1, <2>2
  <1>25. Full(memory', connection'[c]) = answered'[c]
    <2>1. Full(m, k) = Full(memory, k)
      BY <1>4, <1>5, FullSame
    <2>2. Full(memory, k) = answered[c]
      BY <1>5, <1>6 DEF IInv, WireExact, Full, Out
    <2>3. QED
      BY <1>4, <1>12, <1>13, <1>18, <1>20, <2>1, <2>2
  <1>26. QED
    BY <1>23, <1>24, <1>25, StepKeeps

LEMMA IncompleteStep ==
  ASSUME IInv, NEW c \in Connections, NEW now, Incomplete(c, now)
  PROVE  IInv'
  <1>1. Typed /\ Free(memory) # {}
    <2>1. PICK y, z \in Objects : y # z /\ memory[y].refs = 0 /\ memory[z].refs = 0
      BY TwoFree DEF Incomplete
    <2>2. QED
      BY <2>1 DEF Free, IInv
  <1>2. PICK k, b : k = connection[c] /\ b = Rest(c)
    OBVIOUS
  <1>3. Balanced(memory, k, b)
    BY <1>2, RestIs DEF IInv
  <1>4. PICK q : q = Flushed([m |-> memory, c |-> k], now)
    OBVIOUS
  <1>5. FlushedLeaves(memory, k, b, q)
    BY <1>1, <1>3, <1>4, FlushedKeeps
  <1>6. /\ memory' = q.m /\ connection' = [connection EXCEPT ![c] = q.c]
        /\ cache' = cache /\ answered' = answered /\ leaked' = leaked /\ k.open
    BY <1>2, <1>4 DEF Incomplete
  <1>7. PICK t \in Bytes : t = answered[c]
    BY <1>1 DEF Typed
  <1>8. /\ Typed' /\ connection'[c] = q.c /\ answered'[c] = t
        /\ \A d \in Connections \ {c} :
             connection'[d] = connection[d] /\ answered'[d] = answered[d]
    <2>1. /\ ConnectionTyped(q.c) /\ Shape(memory')
          /\ cache' \in Seq(Entry) /\ Len(cache') <= CACHE_LEN /\ leaked' \in Seq(Objects)
      BY <1>1, <1>5, <1>6 DEF FlushedLeaves, Balanced, Typed
    <2>2. answered' = [answered EXCEPT ![c] = t]
      BY <1>1, <1>6, <1>7 DEF Typed
    <2>3. QED
      BY <1>1, <1>6, <2>1, <2>2, StepTyped
  <1>9. \A x \in Objects : b[x] + Elsewhere(x) = Rest(c)[x] + Elsewhere(x)'
    BY <1>2, <1>6, ElsewhereSame
  <1>10. StepOf(c, b)
    BY <1>2, <1>5, <1>6, <1>8, <1>9 DEF StepOf, FlushedLeaves
  <1>11. CacheExact'
    BY <1>6, <1>10, StepCacheSame
  <1>12. Full(memory', connection'[c]) = answered'[c]
    <2>1. Full(memory, k) = answered[c]
      BY <1>2, <1>6 DEF IInv, WireExact, Full, Out
    <2>2. Out(q.m, q.c) = Full(memory, k) /\ Texts(q.m, q.c.responses) = << >>
      BY <1>5, TextsNone DEF FlushedLeaves
    <2>3. Out(q.m, q.c) \in Bytes
      BY <1>5, OutType DEF FlushedLeaves, Balanced
    <2>4. Full(q.m, q.c) = answered[c]
      BY <2>1, <2>2, <2>3, BytesMonoid DEF Full
    <2>5. QED
      BY <1>6, <1>7, <1>8, <2>4
  <1>13. QED
    BY <1>10, <1>11, <1>12, StepKeeps

LEMMA SendStep ==
  ASSUME IInv, NEW c \in Connections, Send(c)
  PROVE  IInv'
  <1>1. Typed
    BY DEF IInv
  <1>2. PICK k, b : k = connection[c] /\ b = Rest(c)
    OBVIOUS
  <1>3. Balanced(memory, k, b) /\ Shape(memory) /\ ConnectionTyped(k)
        /\ k.queue \in Seq(Objects) /\ k.queue # << >>
    BY <1>2, RestIs DEF IInv, Balanced, ConnectionTyped, Send
  <1>4. PICK o \in Objects, queue \in Seq(Objects) : o = Head(k.queue) /\ queue = Tail(k.queue)
    <2>1. PICK s \in Seq(Objects) : s = k.queue
      BY <1>3
    <2>2. Head(s) \in Objects /\ Tail(s) \in Seq(Objects)
      BY <1>3, <2>1
    <2>3. QED
      BY <2>1, <2>2
  <1>5. k.wire \in Bytes /\ memory[o].text \in Bytes
    BY <1>3, OutType, ShapeIs
  <1>6. PICK wire \in Bytes : wire = k.wire \o memory[o].text
    BY <1>5, BytesMonoid
  <1>7. PICK d : d = [k EXCEPT !.wire = wire, !.queue = queue]
    OBVIOUS
  <1>8. /\ connection' = [connection EXCEPT ![c] = d] /\ memory' = Decref(memory, o)
        /\ cache' = cache /\ answered' = answered /\ leaked' = leaked
    BY <1>2, <1>4, <1>6, <1>7 DEF Send
  <1>9. /\ d.wire = wire /\ d.queue = queue /\ d.responses = k.responses
        /\ d.prev_buffer = k.prev_buffer /\ d.open = k.open /\ ConnectionTyped(d)
    BY <1>3, <1>7 DEF ConnectionTyped
  <1>10. Shape(memory') /\ \A x \in Objects :
           memory'[x].refs = memory[x].refs - One(o = x) /\ memory'[x].text = memory[x].text
    <2>1. PICK w : w = Decref(memory, o)
      OBVIOUS
    <2>2. Shape(w) /\ \A x \in Objects :
            w[x].refs = memory[x].refs - One(o = x) /\ w[x].text = memory[x].text
      <3>1. Shape(memory)
        BY <1>3
      <3>2. QED
        BY <2>1, <3>1, DecrefIs
    <2>3. QED
      BY <1>8, <2>1, <2>2
  <1>11. ASSUME NEW x \in Objects PROVE memory'[x].refs = b[x] + HeldBy(d, x)
    <2>1. Times(x, k.queue) = Times(x, queue) + One(o = x)
      BY <1>3, <1>4, TimesTail
    <2>2. HeldBy(k, x) = Times(x, k.responses) + Times(x, k.queue) + One(k.prev_buffer = x)
          /\ Times(x, k.responses) \in Nat
      BY <1>3, HeldByIs
    <2>3. HeldBy(d, x) = Times(x, d.responses) + Times(x, d.queue) + One(d.prev_buffer = x)
          /\ Times(x, d.queue) \in Nat
      BY <1>9, HeldByIs
    <2>4. memory[x].refs = b[x] + HeldBy(k, x) /\ b[x] \in Nat
      BY <1>3 DEF Balanced, Numbers
    <2>5. One(k.prev_buffer = x) \in Nat /\ One(o = x) \in Nat
      BY OneType
    <2>6. memory'[x].refs = memory[x].refs - One(o = x)
      BY <1>10
    <2>7. QED
      BY <1>9, <2>1, <2>2, <2>3, <2>4, <2>5, <2>6
  <1>12. Balanced(memory', d, b)
    BY <1>3, <1>9, <1>10, <1>11 DEF Balanced
  <1>13. PICK t \in Bytes : t = answered[c]
    BY <1>1 DEF Typed
  <1>14. /\ Typed' /\ connection'[c] = d /\ answered'[c] = t
         /\ \A e \in Connections \ {c} :
              connection'[e] = connection[e] /\ answered'[e] = answered[e]
    <2>1. cache' \in Seq(Entry) /\ Len(cache') <= CACHE_LEN /\ leaked' \in Seq(Objects)
      BY <1>1, <1>8 DEF Typed
    <2>2. answered' = [answered EXCEPT ![c] = t]
      BY <1>1, <1>8, <1>13 DEF Typed
    <2>3. QED
      BY <1>1, <1>8, <1>9, <1>10, <2>1, <2>2, StepTyped, ZenonT(40)
  <1>15. \A x \in Objects : b[x] + Elsewhere(x) = Rest(c)[x] + Elsewhere(x)'
    BY <1>2, <1>8, ElsewhereSame
  <1>16. StepOf(c, b)
    BY <1>2, <1>10, <1>12, <1>14, <1>15 DEF StepOf
  <1>17. CacheExact'
    BY <1>8, <1>16, StepCacheSame
  <1>18. ASSUME d.open PROVE Full(memory', d) = answered[c]
    <2>1. Full(memory, k) = answered[c]
      BY <1>2, <1>9, <1>18 DEF IInv, WireExact, Full, Out
    <2>2. PICK w : w = memory'
      OBVIOUS
    <2>3. Texts(w, queue) = Texts(memory, queue)
          /\ Texts(w, k.responses) = Texts(memory, k.responses)
      <3>1. \A x \in Objects : w[x].text = memory[x].text
        BY <1>10, <2>2
      <3>2. k.responses \in Seq(Objects)
        BY <1>3 DEF ConnectionTyped
      <3>3. Texts(w, queue) = Texts(memory, queue)
        BY <3>1, QueueSame
      <3>4. Texts(w, k.responses) = Texts(memory, k.responses)
        BY <3>1, <3>2, QueueSame
      <3>5. QED
        BY <3>3, <3>4
    <2>4. Written(memory, Bytes) /\ Joined!Monoid(Bytes, << >>)
      BY <1>3, ShapeIs, BytesMonoid
    <2>5. Texts(memory, k.queue) = memory[o].text \o Texts(memory, queue)
      BY <1>3, <1>4, <2>4, TextsHead
    <2>6. Texts(memory, queue) \in Bytes
      BY <1>4, <2>4, TextsType
    <2>7. k.wire \o (memory[o].text \o Texts(memory, queue)) = wire \o Texts(memory, queue)
      <3>1. PICK x \in Bytes, y \in Bytes, z \in Bytes :
              x = k.wire /\ y = memory[o].text /\ z = Texts(memory, queue)
        BY <1>5, <2>6, Zenon
      <3>2. (x \o y) \o z = x \o (y \o z)
        <4>1. \A r, s, q \in Bytes : (r \o s) \o q = r \o (s \o q)
          BY BytesMonoid
        <4>2. QED
          BY <4>1
      <3>3. QED
        BY <1>6, <3>1, <3>2
    <2>8. QED
      BY <1>9, <2>1, <2>2, <2>3, <2>5, <2>7 DEF Full, Out
  <1>19. connection'[c].open => Full(memory', connection'[c]) = answered'[c]
    BY <1>13, <1>14, <1>18
  <1>20. QED
    BY <1>16, <1>17, <1>19, StepKeeps

LEMMA DeallocStep ==
  ASSUME IInv, NEW c \in Connections, Dealloc(c)
  PROVE  IInv'
  <1>1. Typed
    BY DEF IInv
  <1>2. PICK k : k = connection[c]
    OBVIOUS
  <1>3. /\ Balanced(memory, k, Rest(c)) /\ Shape(memory) /\ ConnectionTyped(k)
        /\ k.queue \in Seq(Objects) /\ k.responses \in Seq(Objects)
        /\ k.prev_buffer \in Objects \cup {NULL}
    BY <1>2, RestIs DEF IInv, Balanced, ConnectionTyped
  <1>4. NULL \notin Objects
    BY ResponseBytesAssumption DEF NULL
  <1>5. PICK v : v = DecrefAll(memory, k.queue)
    OBVIOUS
  <1>6. Shape(v) /\ \A x \in Objects : v[x].refs = memory[x].refs - Times(x, k.queue)
                                       /\ v[x].text = memory[x].text
    BY <1>3, <1>5, DecrefAllIs
  <1>7. Shape(memory') /\ \A x \in Objects :
          memory'[x].refs = v[x].refs - One(k.prev_buffer = x) /\ memory'[x].text = v[x].text
    <2>1. CASE k.prev_buffer = NULL
      <3>1. memory' = v
        BY <1>2, <1>5, <2>1 DEF Dealloc
      <3>2. \A x \in Objects : One(k.prev_buffer = x) = 0 /\ v[x].refs \in Int
        BY <1>4, <1>6, <2>1, OneType, ShapeIs
      <3>3. QED
        BY <1>6, <3>1, <3>2
    <2>2. CASE k.prev_buffer # NULL
      <3>1. memory' = Decref(v, k.prev_buffer) /\ k.prev_buffer \in Objects
        BY <1>2, <1>3, <1>5, <2>2 DEF Dealloc
      <3>2. QED
        BY <1>6, <3>1, DecrefIs
    <2>3. QED
      BY <2>1, <2>2
  <1>8. PICK d : d = [NewConnection EXCEPT !.open = FALSE]
    OBVIOUS
  <1>9. /\ d.responses = << >> /\ d.queue = << >> /\ d.prev_buffer = NULL /\ d.open = FALSE
        /\ ConnectionTyped(d)
    <2>1. d = [responses |-> << >>, len |-> 0, prev_buffer |-> NULL, queue |-> << >>,
               wire |-> << >>, open |-> FALSE]
      BY <1>8 DEF NewConnection
    <2>2. << >> \in Bytes /\ << >> \in Seq(Objects) /\ Len(<< >>) = 0
      BY BytesMonoid
    <2>3. QED
      BY <2>1, <2>2, ResponseBytesAssumption DEF ConnectionTyped
  <1>10. \A x \in Objects : HeldBy(d, x) = 0
    <2>1. ASSUME NEW x \in Objects PROVE HeldBy(d, x) = 0
      <3>1. Times(x, d.responses) = 0 /\ Times(x, d.queue) = 0
        BY <1>9, TimesNone
      <3>2. One(d.prev_buffer = x) = 0
        BY <1>4, <1>9, OneType
      <3>3. QED
        BY <1>9, <3>1, <3>2, HeldByIs
    <2>2. QED
      BY <2>1
  <1>11. PICK b : b = [x \in Objects |-> Rest(c)[x] + Times(x, k.responses)]
    OBVIOUS
  <1>12. ASSUME NEW x \in Objects
         PROVE  /\ b[x] = Rest(c)[x] + Times(x, k.responses) /\ b[x] \in Nat
                /\ Rest(c)[x] \in Nat /\ Times(x, k.responses) \in Nat
                /\ memory'[x].refs = b[x]
    <2>1. HeldBy(k, x) = Times(x, k.responses) + Times(x, k.queue) + One(k.prev_buffer = x)
          /\ Times(x, k.responses) \in Nat /\ Times(x, k.queue) \in Nat
      BY <1>3, HeldByIs
    <2>2. memory[x].refs = Rest(c)[x] + HeldBy(k, x) /\ Rest(c)[x] \in Nat
      BY <1>3 DEF Balanced, Numbers
    <2>3. One(k.prev_buffer = x) \in Nat
      BY OneType
    <2>4. memory'[x].refs = v[x].refs - One(k.prev_buffer = x)
          /\ v[x].refs = memory[x].refs - Times(x, k.queue)
      BY <1>6, <1>7
    <2>5. b[x] = Rest(c)[x] + Times(x, k.responses)
      BY <1>11
    <2>6. QED
      BY <2>1, <2>2, <2>3, <2>4, <2>5
  <1>13. Balanced(memory', d, b)
    <2>1. Numbers(b, Objects)
      BY <1>11, <1>12 DEF Numbers
    <2>2. QED
      BY <1>7, <1>9, <1>10, <1>12, <2>1 DEF Balanced
  <1>14. /\ connection' = [connection EXCEPT ![c] = d] /\ cache' = cache
         /\ answered' = answered /\ leaked' = leaked \o k.responses
    BY <1>2, <1>8 DEF Dealloc
  <1>15. PICK t \in Bytes : t = answered[c]
    BY <1>1 DEF Typed
  <1>16. leaked \in Seq(Objects) /\ leaked' \in Seq(Objects)
    <2>1. PICK s \in Seq(Objects), u \in Seq(Objects) : s = leaked /\ u = k.responses
      BY <1>1, <1>3 DEF Typed
    <2>2. s \o u \in Seq(Objects)
      OBVIOUS
    <2>3. QED
      BY <1>14, <2>1, <2>2
  <1>17. /\ Typed' /\ connection'[c] = d /\ answered'[c] = t
         /\ \A e \in Connections \ {c} :
              connection'[e] = connection[e] /\ answered'[e] = answered[e]
    <2>1. cache' \in Seq(Entry) /\ Len(cache') <= CACHE_LEN
      BY <1>1, <1>14 DEF Typed
    <2>2. answered' = [answered EXCEPT ![c] = t]
      BY <1>1, <1>14, <1>15 DEF Typed
    <2>3. QED
      BY <1>1, <1>7, <1>9, <1>14, <1>16, <2>1, <2>2, StepTyped, ZenonT(40)
  <1>18. ASSUME NEW x \in Objects PROVE b[x] + Elsewhere(x) = Rest(c)[x] + Elsewhere(x)'
    <2>1. Times(x, leaked \o k.responses) = Times(x, leaked) + Times(x, k.responses)
      BY <1>3, <1>16, TimesConcat
    <2>2. Elsewhere(x)' = Times(x, CachedObjects) + Times(x, leaked \o k.responses)
      BY <1>14 DEF Elsewhere, CachedObjects
    <2>3. Elsewhere(x) = Times(x, CachedObjects) + Times(x, leaked)
          /\ Times(x, CachedObjects) \in Nat /\ Times(x, leaked) \in Nat
      BY <1>1, ElsewhereIs
    <2>4. QED
      BY <1>12, <2>1, <2>2, <2>3
  <1>19. StepOf(c, b)
    BY <1>6, <1>7, <1>13, <1>17, <1>18 DEF StepOf
  <1>20. CacheExact'
    BY <1>14, <1>19, StepCacheSame
  <1>21. ~connection'[c].open
    BY <1>9, <1>17
  <1>22. QED
    BY <1>19, <1>20, <1>21, StepKeeps

-----------------------------------------------------------------------------
(* The theorems *)

LEMMA InitIInv == ASSUME Init PROVE IInv
  <1> USE DEF Init
  <1>1. Shape(memory)
    BY BytesMonoid DEF Shape
  <1>2. PICK d : d = NewConnection
    OBVIOUS
  <1>3. /\ d.responses = << >> /\ d.queue = << >> /\ d.prev_buffer = NULL /\ d.wire = << >>
        /\ ConnectionTyped(d)
    <2>1. << >> \in Bytes /\ << >> \in Seq(Objects) /\ Len(<< >>) = 0
      BY BytesMonoid
    <2>2. QED
      BY <1>2, <2>1, ResponseBytesAssumption DEF ConnectionTyped, NewConnection
  <1>4. connection = [c \in Connections |-> d] /\ answered = [c \in Connections |-> << >>]
    BY <1>2
  <1>5. Typed
    <2>1. << >> \in Seq(Entry) /\ Len(<< >>) = 0 /\ << >> \in Seq(Objects)
      OBVIOUS
    <2>2. connection = [c \in Connections |-> connection[c]]
          /\ answered = [c \in Connections |-> answered[c]]
      BY <1>4
    <2>3. \A c \in Connections : ConnectionTyped(connection[c]) /\ answered[c] \in Bytes
      BY <1>3, <1>4, BytesMonoid
    <2>4. QED
      BY <1>1, <2>1, <2>2, <2>3, ResponseBytesAssumption DEF Typed
  <1>6. CountsAreHolders
    <2>1. ASSUME NEW o \in Objects PROVE memory[o].refs = Holders(o)
      <3>1. PICK f : f = [c \in Connections |-> HeldBy(connection[c], o)]
        OBVIOUS
      <3>2. \A c \in Connections : HeldBy(connection[c], o) = 0
        <4>1. Times(o, d.responses) = 0 /\ Times(o, d.queue) = 0
          BY <1>3, TimesNone
        <4>2. One(d.prev_buffer = o) = 0
          BY <1>3, ResponseBytesAssumption, OneType DEF NULL
        <4>3. HeldBy(d, o) = 0
          BY <1>3, <4>1, <4>2, HeldByIs
        <4>4. QED
          BY <1>4, <4>3
      <3>3. HeldByAll(o) = 0
        <4>1. HeldByAll(o) = SumFunction(f) /\ DOMAIN f = Connections
              /\ IsFiniteSet(Connections)
          BY <3>1, ResponseBytesAssumption DEF HeldByAll
        <4>2. \A c \in Connections : f[c] = 0
          BY <3>1, <3>2
        <4>3. QED
          BY <4>1, <4>2, SumOfNone
      <3>4. Times(o, CachedObjects) = 0 /\ Times(o, leaked) = 0
        <4>1. Len(CachedObjects) = 0 /\ CachedObjects \in Seq(Objects)
          BY <1>5, ElsewhereIs
        <4>2. CachedObjects = << >> /\ leaked = << >>
          BY <4>1
        <4>3. QED
          BY <4>2, TimesNone
      <3>5. Holders(o) = 0
        BY <3>3, <3>4 DEF Holders
      <3>6. QED
        BY <3>5
    <2>2. QED
      BY <2>1 DEF CountsAreHolders
  <1>7. CacheExact
    BY DEF CacheExact
  <1>8. WireExact
    <2>1. \A c \in Connections : /\ connection[c].wire = << >> /\ answered[c] = << >>
                                 /\ connection[c].queue = << >>
                                 /\ connection[c].responses = << >>
      BY <1>3, <1>4
    <2>2. Texts(memory, << >>) = << >>
      BY TextsNone
    <2>3. << >> \o << >> \o << >> = << >>
      OBVIOUS
    <2>4. QED
      BY <2>1, <2>2, <2>3 DEF WireExact
  <1>9. QED
    BY <1>5, <1>6, <1>7, <1>8 DEF IInv

LEMMA NextIInv == ASSUME IInv, [Next]_vars PROVE IInv'
  <1>1. CASE Next
    <2>1. ASSUME NEW c \in Connections, NEW r \in Responses,
                 NEW enabled \in BOOLEAN, NEW now \in BOOLEAN, Answer(c, r, enabled, now)
          PROVE  IInv'
      BY <2>1, AnswerStep
    <2>2. ASSUME NEW c \in Connections, NEW now \in BOOLEAN, Incomplete(c, now) PROVE IInv'
      BY <2>2, IncompleteStep
    <2>3. ASSUME NEW c \in Connections, Send(c) PROVE IInv'
      BY <2>3, SendStep
    <2>4. ASSUME NEW c \in Connections, Dealloc(c) PROVE IInv'
      BY <2>4, DeallocStep
    <2>5. QED
      BY <1>1, <2>1, <2>2, <2>3, <2>4 DEF Next
  <1>2. CASE UNCHANGED vars
    BY <1>2 DEF vars, IInv, Typed, CountsAreHolders, CacheExact, WireExact, Holders,
                HeldByAll, CachedObjects
  <1>3. QED
    BY <1>1, <1>2

(* The invariant the theorems below follow from: the counts of objects, the *)
(* texts of the cache and the output of all connections have to be carried  *)
(* together, for a buffer is only filled again when its count says that no  *)
(* one else refers to it (Response_render, Gather_flush, Protocol_dealloc). *)
THEOREM Inductive == Spec => []IInv
  <1>1. Init => IInv
    BY InitIInv
  <1>2. IInv /\ [Next]_vars => IInv'
    BY NextIInv
  <1>3. QED
    BY <1>1, <1>2, PTL DEF Spec

(* Between two calls an object's reference count is the number of places    *)
(* that hold it, whatever the connections, the cache and the limits of the  *)
(* gather are (Py_INCREF and Py_DECREF around Response_render and           *)
(* Gather_flush).                                                           *)
THEOREM CountsExact == Spec => []CountsAreHolders
  <1>1. IInv => CountsAreHolders
    BY DEF IInv
  <1>2. QED
    BY <1>1, Inductive, PTL

(* What a connection sent, what its transport holds and what is gathered    *)
(* are its responses in order, each as it was asked for: neither the cache  *)
(* nor a buffer that is filled again changes bytes that are still to be     *)
(* sent (Response_cacheable, Gather_flush).                                 *)
THEOREM OutputExact == Spec => []WireExact
  <1>1. IInv => WireExact
    BY DEF IInv
  <1>2. QED
    BY <1>1, Inductive, PTL

(* Counts never go below zero, and the cache and the gather stay within     *)
(* their limits (Response_cache, Protocol_write_response_or_err).           *)
THEOREM TypeCorrect == Spec => []TypeOK
  <1>1. IInv => TypeOK
    <2> SUFFICES ASSUME IInv PROVE TypeOK
      OBVIOUS
    <2>1. ASSUME NEW o \in Objects PROVE memory[o].refs \in Nat
      <3>1. memory[o].refs = Elsewhere(o) + HeldByAll(o) /\ Elsewhere(o) \in Nat
        BY HoldersAre, ElsewhereIs DEF IInv, CountsAreHolders
      <3>2. HeldByAll(o) \in Nat
        <4>1. CASE Connections = {}
          <5>1. PICK f : f = [c \in Connections |-> HeldBy(connection[c], o)]
            OBVIOUS
          <5>2. DOMAIN f = Connections /\ IsFiniteSet(Connections)
                /\ HeldByAll(o) = SumFunction(f) /\ \A c \in Connections : f[c] = 0
            BY <4>1, <5>1, ResponseBytesAssumption DEF HeldByAll
          <5>3. QED
            BY <5>2, SumOfNone
        <4>2. CASE Connections # {}
          <5>1. PICK c \in Connections : TRUE
            BY <4>2
          <5>2. PICK rest \in Nat : HeldByAll(o) = HeldBy(connection[c], o) + rest
            BY HeldByTwo DEF IInv
          <5>3. HeldBy(connection[c], o) \in Nat
            BY HeldByIs DEF IInv, Typed
          <5>4. QED
            BY <5>2, <5>3
        <4>3. QED
          BY <4>1, <4>2
      <3>3. QED
        BY <3>1, <3>2
    <2>2. Len(cache) <= CACHE_LEN
      BY DEF IInv, Typed
    <2>3. ASSUME NEW c \in Connections
          PROVE  /\ connection[c].prev_buffer \in Objects \cup {NULL}
                 /\ Len(connection[c].responses) <= GATHER_MAX_RESP
                 /\ connection[c].len <= GATHER_MAX_LEN
      <3>1. ConnectionTyped(connection[c])
        BY DEF IInv, Typed
      <3>2. QED
        BY <3>1 DEF ConnectionTyped
    <2>4. QED
      BY <2>1, <2>2, <2>3 DEF TypeOK
  <1>2. QED
    BY <1>1, Inductive, PTL
=============================================================================
