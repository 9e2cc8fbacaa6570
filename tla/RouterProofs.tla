---------------------------- MODULE RouterProofs ----------------------------
(***************************************************************************)
(* Proofs about Router: for all patterns, methods and requests, parsed     *)
(* segments keep the pattern's meaning, a request reaches a route that     *)
(* fits it, and no route declared for it is skipped.                       *)
(*                                                                         *)
(* The loop over segments and the one over characters are folds; what is   *)
(* known after k turns is carried from each to the next (Covered, Kept,    *)
(* Good, Between).  The joined methods are laid out word by word, so that  *)
(* a method found in them lies inside one.  The inductive invariant Inv    *)
(* says that routes are in order, that the entries are the first of them   *)
(* compiled, and that the outcome is that of a call with these entries.    *)
(***************************************************************************)
EXTENDS Router, FiniteSetTheorems, TLAPS

\* FoldLaws for the three operators that are folded
Reading == INSTANCE FoldLaws WITH Op <- ReadChar
Matching == INSTANCE FoldLaws WITH Op <- ReadSegment
Naming == INSTANCE FoldLaws WITH Op <- AddName

-----------------------------------------------------------------------------
(* Sequences of sequences *)

Cat(s, t) == s \o t
Joined == INSTANCE FoldLaws WITH Op <- Cat

\* A sequence of length 0.
LEMMA EmptyIs ==
  ASSUME NEW T, NEW s \in Seq(T), Len(s) = 0
  PROVE  s = << >>
  OBVIOUS

\* FlattenSeq is a fold.
LEMMA FlattenIsFold ==
  ASSUME NEW E, NEW s \in Seq(Seq(E))
  PROVE  FlattenSeq(s) = Joined!Fold(<< >>, s)
  <1>1. PICK n \in Nat : n = Len(s)
    OBVIOUS
  <1>2. CASE n = 0
    <2>1. FlattenSeq(s) = s
      BY <1>1, <1>2 DEF FlattenSeq
    <2>2. s = << >>
      BY <1>1, <1>2, EmptyIs
    <2>3. QED
      BY <2>1, <2>2, Joined!FoldEmpty
  <1>3. CASE n # 0
    <2>1. FlattenSeq(s) =
            (CHOOSE f : f = [i \in 1..n |-> IF i = 1 THEN s[i] ELSE Cat(f[i - 1], s[i])])[n]
      BY <1>1, <1>3 DEF FlattenSeq, Cat
    <2>2. Cat(<< >>, s[1]) = s[1]
      <3>1. s[1] \in Seq(E)
        BY <1>1, <1>3
      <3>2. QED
        BY <3>1 DEF Cat
    <2>3. QED
      BY <1>1, <1>3, <2>1, <2>2, Joined!ChainIsFold
  <1>4. QED
    BY <1>2, <1>3

\* One more sequence goes behind what the others are together.
LEMMA FlattenAppend ==
  ASSUME NEW E, NEW s \in Seq(Seq(E)), NEW e \in Seq(E)
  PROVE  FlattenSeq(Append(s, e)) = FlattenSeq(s) \o e
  <1>1. Append(s, e) \in Seq(Seq(E))
    OBVIOUS
  <1>2. Joined!Fold(<< >>, Append(s, e)) = Cat(Joined!Fold(<< >>, s), e)
    BY Joined!FoldAppend
  <1>3. QED
    BY <1>1, <1>2, FlattenIsFold DEF Cat

\* Sequences under concatenation
LEMMA CatMonoid ==
  ASSUME NEW E
  PROVE  Joined!Monoid(Seq(E), << >>)
  <1>1. \A x, y \in Seq(E) : Cat(x, y) \in Seq(E)
    BY DEF Cat
  <1>2. \A x \in Seq(E) : Cat(<< >>, x) = x /\ Cat(x, << >>) = x
    BY DEF Cat
  <1>3. \A x, y, z \in Seq(E) : Cat(Cat(x, y), z) = Cat(x, Cat(y, z))
    BY DEF Cat
  <1>4. << >> \in Seq(E)
    OBVIOUS
  <1>5. QED
    BY <1>1, <1>2, <1>3, <1>4 DEF Joined!Monoid

\* What sequences are together is a sequence of the same elements.
LEMMA FlattenType ==
  ASSUME NEW E, NEW s \in Seq(Seq(E))
  PROVE  FlattenSeq(s) \in Seq(E)
  BY CatMonoid, FlattenIsFold, Joined!FoldFront

\* Where each sequence ends up in what all are together.
Layout(ends, s, t) ==
  /\ ends \in [0..Len(s) -> Nat]
  /\ ends[0] = 0 /\ Len(t) = ends[Len(s)]
  /\ \A k \in 1..Len(s) : /\ ends[k] = ends[k - 1] + Len(s[k])
                          /\ \A i \in 1..Len(s[k]) : t[ends[k - 1] + i] = s[k][i]

\* Two sequences, one behind the other, element by element
LEMMA CatIs ==
  ASSUME NEW E, NEW x \in Seq(E), NEW y \in Seq(E)
  PROVE  /\ Len(Cat(x, y)) = Len(x) + Len(y)
         /\ \A i \in 1..Len(x) : Cat(x, y)[i] = x[i]
         /\ \A i \in 1..Len(y) : Cat(x, y)[Len(x) + i] = y[i]
  BY DEF Cat

\* The intermediate results of the fold say where each sequence ends.
LEMMA FlattenLayout ==
  ASSUME NEW E, NEW s \in Seq(Seq(E))
  PROVE  \E ends : Layout(ends, s, FlattenSeq(s))
  <1>1. PICK n \in Nat : n = Len(s)
    OBVIOUS
  <1>2. \A k \in 1..n : s[k] \in Seq(E)
    BY <1>1
  <1>3. PICK r : Joined!Results(r, << >>, s) /\ FlattenSeq(s) = r[n]
    BY <1>1, FlattenIsFold, Joined!FoldSteps
  <1>4. r[0] = << >> /\ \A k \in 1..n : r[k] = Cat(r[k - 1], s[k])
    BY <1>1, <1>3 DEF Joined!Results
  <1> DEFINE In(k) == /\ r[k] \in Seq(E)
                      /\ \A j \in 1..k : /\ Len(r[j]) <= Len(r[k])
                                         /\ Len(r[j]) = Len(r[j - 1]) + Len(s[j])
                                         /\ \A i \in 1..Len(s[j]) : r[k][Len(r[j - 1]) + i] = s[j][i]
             S == {k \in Nat : k <= n => \A m \in 0..k : In(m)}
  <1>5. 0 \in S
    <2>1. r[0] \in Seq(E)
      BY <1>4
    <2>2. In(0)
      BY <2>1
    <2>3. \A m \in 0..0 : m = 0
      OBVIOUS
    <2> HIDE DEF In
    <2>4. QED
      BY <2>2, <2>3
  <1>6. ASSUME NEW k \in Nat, k \in S PROVE k + 1 \in S
    <2> SUFFICES ASSUME k + 1 <= n PROVE In(k + 1)
      <3>1. \A m \in 0..(k + 1) : m \in 0..k \/ m = k + 1
        OBVIOUS
      <3>2. k + 1 <= n => k <= n
        OBVIOUS
      <3> HIDE DEF In
      <3>3. QED
        BY <1>6, <3>1, <3>2
    <2>1. k + 1 \in 1..n /\ k + 1 - 1 = k /\ k \in 0..k /\ k <= n
      OBVIOUS
    <2>2. \A m \in 0..k : In(m)
      <3> HIDE DEF In
      <3>1. QED
        BY <1>6, <2>1
    <2>20. In(k)
      <3> HIDE DEF In
      <3>1. QED
        BY <2>1, <2>2
    <2>3. s[k + 1] \in Seq(E) /\ r[k + 1] = Cat(r[k], s[k + 1])
      BY <1>2, <1>4, <2>1
    <2>4. PICK x \in Seq(E), y \in Seq(E), z \in Seq(E) : x = r[k] /\ y = s[k + 1] /\ z = r[k + 1]
      <3>1. Cat(r[k], s[k + 1]) \in Seq(E)
        BY <2>20, <2>3 DEF Cat
      <3>2. QED
        BY <2>20, <2>3, <3>1
    <2>5. /\ Len(z) = Len(x) + Len(y)
          /\ \A i \in 1..Len(x) : z[i] = x[i]
          /\ \A i \in 1..Len(y) : z[Len(x) + i] = y[i]
      <3>1. z = Cat(x, y)
        BY <2>3, <2>4
      <3> HIDE DEF In, S
      <3>2. /\ Len(Cat(x, y)) = Len(x) + Len(y)
            /\ \A i \in 1..Len(x) : Cat(x, y)[i] = x[i]
            /\ \A i \in 1..Len(y) : Cat(x, y)[Len(x) + i] = y[i]
        BY DEF Cat
      <3>3. QED
        BY <3>1, <3>2
    <2>6. ASSUME NEW j \in 1..(k + 1)
          PROVE  /\ Len(r[j]) <= Len(z)
                 /\ Len(r[j]) = Len(r[j - 1]) + Len(s[j])
                 /\ \A i \in 1..Len(s[j]) : z[Len(r[j - 1]) + i] = s[j][i]
      <3>1. CASE j = k + 1
        <4>1. j - 1 = k
          BY <3>1
        <4>2. r[j] = z /\ r[j - 1] = x /\ s[j] = y
          BY <2>4, <3>1, <4>1
        <4>3. QED
          BY <2>5, <4>2
      <3>2. CASE j # k + 1
        <4>1. j \in 1..k /\ j - 1 \in 0..k /\ j \in 0..k /\ j \in 1..n
          BY <2>1, <3>2
        <4>2. In(j) /\ In(j - 1)
          <5> HIDE DEF In
          <5>1. QED
            BY <2>2, <4>1
        <4>3. PICK a \in Seq(E), b \in Seq(E), c \in Seq(E) : a = r[j] /\ b = r[j - 1] /\ c = s[j]
          BY <1>2, <4>1, <4>2
        <4>4. /\ Len(a) <= Len(x) /\ Len(a) = Len(b) + Len(c)
              /\ \A i \in 1..Len(c) : x[Len(b) + i] = c[i]
          BY <2>20, <2>4, <4>1, <4>3
        <4>5. \A i \in 1..Len(c) : z[Len(b) + i] = c[i]
          <5>1. \A i \in 1..Len(c) : Len(b) + i \in 1..Len(x)
            BY <4>4
          <5>2. QED
            BY <2>5, <4>4, <5>1
        <4>6. Len(a) <= Len(z)
          BY <2>5, <4>4
        <4>7. QED
          BY <4>3, <4>4, <4>5, <4>6
      <3>3. QED
        BY <3>1, <3>2
    <2>7. QED
      BY <2>4, <2>6
  <1> HIDE DEF S
  <1>7. n \in S
    BY <1>5, <1>6, Joined!SetInduction
  <1>8. \A m \in 0..n : In(m)
    <2> HIDE DEF In
    <2>1. QED
      BY <1>7 DEF S
  <1> DEFINE ends == [k \in 0..n |-> Len(r[k])]
  <1>9. ends \in [0..n -> Nat] /\ ends[0] = 0 /\ Len(FlattenSeq(s)) = ends[n]
    <2>1. \A m \in 0..n : Len(r[m]) \in Nat
      BY <1>8
    <2>2. QED
      BY <1>3, <1>4, <2>1
  <1>10. ASSUME NEW k \in 1..n
         PROVE  /\ ends[k] = ends[k - 1] + Len(s[k])
                /\ \A i \in 1..Len(s[k]) : FlattenSeq(s)[ends[k - 1] + i] = s[k][i]
    <2>1. k \in 0..n /\ k - 1 \in 0..n /\ n \in 0..n
      OBVIOUS
    <2>2. ends[k] = Len(r[k]) /\ ends[k - 1] = Len(r[k - 1])
      BY <2>1
    <2>3. In(n)
      BY <1>8, <2>1
    <2> HIDE DEF ends
    <2>4. QED
      BY <1>3, <2>2, <2>3
  <1> HIDE DEF ends, In
  <1>11. PICK t : t = FlattenSeq(s)
    OBVIOUS
  <1>12. Layout(ends, s, t)
    BY <1>1, <1>9, <1>10, <1>11 DEF Layout
  <1>13. QED
    BY <1>11, <1>12
-----------------------------------------------------------------------------
(* The first elements of a sequence *)

Up(s, k) == SubSeq(s, 1, k)

\* The first k elements are k.
LEMMA UpIs ==
  ASSUME NEW E, NEW s \in Seq(E), NEW k \in 0..Len(s)
  PROVE  Up(s, k) \in Seq(E) /\ Len(Up(s, k)) = k /\ \A i \in 1..k : Up(s, k)[i] = s[i]
  BY DEF Up

\* The first none and the first all
LEMMA UpEnds ==
  ASSUME NEW E, NEW s \in Seq(E)
  PROVE  Up(s, 0) = << >> /\ Up(s, Len(s)) = s
  BY DEF Up

\* One element more
LEMMA UpStep ==
  ASSUME NEW E, NEW s \in Seq(E), NEW k \in Nat, k + 1 <= Len(s)
  PROVE  Up(s, k + 1) = Append(Up(s, k), s[k + 1])
  BY DEF Up

\* The first of the first
LEMMA UpUp ==
  ASSUME NEW E, NEW s \in Seq(E), NEW n \in 0..Len(s), NEW k \in 0..n
  PROVE  Up(Up(s, n), k) = Up(s, k)
  BY DEF Up

\* Concatenation is associative and the empty sequence its unit.
LEMMA CatLaws ==
  ASSUME NEW E, NEW x \in Seq(E), NEW y \in Seq(E), NEW z \in Seq(E)
  PROVE  /\ x \o y \in Seq(E)
         /\ (x \o y) \o z = x \o (y \o z)
         /\ x \o << >> = x /\ << >> \o x = x
  OBVIOUS

\* What stands before is taken off both.
LEMMA Cancel ==
  ASSUME NEW E, NEW x \in Seq(E), NEW y \in Seq(E), NEW z \in Seq(E), x \o y = x \o z
  PROVE  y = z
  <1>1. /\ Len(x \o y) = Len(x) + Len(y) /\ Len(x \o z) = Len(x) + Len(z)
        /\ \A i \in 1..Len(y) : (x \o y)[Len(x) + i] = y[i]
        /\ \A i \in 1..Len(z) : (x \o z)[Len(x) + i] = z[i]
    OBVIOUS
  <1>2. Len(y) = Len(z)
    BY <1>1
  <1>3. \A i \in 1..Len(y) : y[i] = z[i]
    BY <1>1, <1>2
  <1>4. QED
    BY <1>2, <1>3

\* What stands behind a part is what SubSeq finds behind its length.
LEMMA TakeOff ==
  ASSUME NEW E, NEW x \in Seq(E), NEW y \in Seq(E)
  PROVE  SubSeq(x \o y, Len(x) + 1, Len(x \o y)) = y
  OBVIOUS

\* A sequence is its first n elements and the others.
LEMMA SplitAt ==
  ASSUME NEW E, NEW s \in Seq(E), NEW n \in 0..Len(s)
  PROVE  /\ SubSeq(s, 1, n) \in Seq(E) /\ SubSeq(s, n + 1, Len(s)) \in Seq(E)
         /\ Len(SubSeq(s, 1, n)) = n
         /\ s = SubSeq(s, 1, n) \o SubSeq(s, n + 1, Len(s))
  <1>1. PICK l \in Nat : l = Len(s) /\ n <= l /\ n \in Nat
    OBVIOUS
  <1>2. PICK x \in Seq(E), y \in Seq(E) : x = SubSeq(s, 1, n) /\ y = SubSeq(s, n + 1, Len(s))
    <2>1. SubSeq(s, 1, n) \in Seq(E)
      BY <1>1
    <2>2. SubSeq(s, n + 1, l) \in Seq(E)
      BY <1>1
    <2>3. QED
      BY <1>1, <2>1, <2>2
  <1>3. /\ Len(x) = n /\ Len(y) = l - n
        /\ \A i \in 1..n : x[i] = s[i]
    BY <1>1, <1>2
  <1>4. ASSUME NEW j \in 1..(l - n) PROVE y[j] = s[n + j]
    <2>1. n + 1 + j - 1 = n + j
      OBVIOUS
    <2>2. QED
      BY <1>1, <1>2, <2>1
  <1>5. /\ Len(x \o y) = l /\ x \o y \in Seq(E)
        /\ \A i \in 1..n : (x \o y)[i] = x[i]
        /\ \A j \in 1..(l - n) : (x \o y)[n + j] = y[j]
    BY <1>1, <1>3
  <1>6. ASSUME NEW i \in 1..l PROVE (x \o y)[i] = s[i]
    <2>1. CASE i <= n
      BY <1>3, <1>5, <2>1
    <2>2. CASE n < i
      <3>1. PICK j \in 1..(l - n) : i = n + j
        <4>1. i - n \in 1..(l - n) /\ i = n + (i - n)
          BY <2>2
        <4>2. QED
          BY <4>1
      <3>2. y[j] = s[n + j] /\ (x \o y)[n + j] = y[j]
        BY <1>4, <1>5
      <3>3. QED
        BY <3>1, <3>2
    <2>3. i <= n \/ n < i
      BY <1>1
    <2>4. QED
      BY <2>1, <2>2, <2>3, Zenon
  <1>7. x \o y = s
    <2>1. PICK z \in Seq(E) : z = x \o y
      BY <1>5
    <2>2. Len(z) = Len(s) /\ \A i \in 1..Len(s) : z[i] = s[i]
      BY <1>1, <1>5, <1>6, <2>1
    <2>3. z = s
      BY <2>2
    <2>4. QED
      BY <2>1, <2>3
  <1>8. QED
    BY <1>2, <1>3, <1>7

\* A prefix is what a sequence begins with.
LEMMA PrefixIs ==
  ASSUME NEW E, NEW x \in Seq(E), NEW s \in Seq(E)
  PROVE  /\ IsPrefix(x, s) => Len(x) <= Len(s) /\ x = SubSeq(s, 1, Len(x))
         /\ \A y \in Seq(E) : s = x \o y => IsPrefix(x, s)
  <1>1. SubSeq(x, 1, Len(x)) = x
    OBVIOUS
  <1>2. ASSUME NEW y \in Seq(E) PROVE IsPrefix(x, x \o y)
    <2>1. Len(x \o y) = Len(x) + Len(y) /\ SubSeq(x \o y, 1, Len(x)) = x
      OBVIOUS
    <2>2. QED
      BY <1>1, <2>1 DEF IsPrefix
  <1>3. QED
    BY <1>1, <1>2 DEF IsPrefix
-----------------------------------------------------------------------------
(* Segments *)

\* The characters: those that the code looks for are named, because the provers
\* do not know that a string is in STRING.
Char == STRING \cup {" ", "/", "{", "}"}
Text == Seq(Char)

\* What the assumption on the constants calls a sequence of strings
LEMMA StringsAreTexts ==
  ASSUME NEW s \in Seq(STRING)
  PROVE  s \in Text
  <1>1. STRING \subseteq Char
    BY Zenon DEF Char
  <1>2. PICK T : T = STRING
    OBVIOUS
  <1>3. s \in Seq(T) /\ T \subseteq Char
    BY <1>1, <1>2, Zenon
  <1>4. s \in Seq(Char)
    BY <1>3
  <1>5. QED
    BY <1>4 DEF Text

\* The space, whose being a string does not matter
Space == " "

\* A token is a text without a space.
LEMMA TokenIs ==
  ASSUME NEW s, IsToken(s)
  PROVE  s \in Text /\ Len(s) \in Nat /\ \A i \in 1..Len(s) : s[i] # Space
  <1>1. s \in Text
    BY StringsAreTexts DEF IsToken
  <1>2. Len(s) \in Nat
    BY <1>1 DEF Text
  <1>3. \A i \in 1..Len(s) : s[i] # Space
    BY Zenon DEF IsToken, Contains, Space
  <1>4. QED
    BY <1>1, <1>2, <1>3

Segment == [type : {"exact", "placeholder"}, data : Text]
Segments == Seq(Segment)

\* A list of segments has segments.
LEMMA SegmentAt ==
  ASSUME NEW s \in Segments, NEW k \in 1..Len(s)
  PROVE  s[k] \in Segment /\ s[k] \in Range(s)
  <1>1. s[k] \in Segment
    BY DEF Segments
  <1>2. k \in DOMAIN s
    BY DEF Segments
  <1>3. QED
    BY <1>1, <1>2 DEF Range

\* Names is a fold.
LEMMA NameFold ==
  ASSUME NEW s
  PROVE  Names(s) = Naming!Fold(<< >>, s)
  BY DEF Names, Naming!Fold, Naming!FoldLeft, Naming!MapThenFoldSet, Naming!Max,
         FoldLeft, MapThenFoldSet, Max

\* One segment more in the count of placeholders
LEMMA CountAppend ==
  ASSUME NEW s \in Segments, NEW e
  PROVE  /\ PlaceholderCount(<< >>) = 0
         /\ PlaceholderCount(s) \in Nat
         /\ PlaceholderCount(Append(s, e))
              = IF IsPlaceholder(e) THEN PlaceholderCount(s) + 1 ELSE PlaceholderCount(s)
  <1> DEFINE P(z) == {i \in DOMAIN z : IsPlaceholder(z[i])}
  <1>1. P(<< >>) = {}
    OBVIOUS
  <1>2. PICK n \in Nat : n = Len(s)
    BY DEF Segments
  <1>3. /\ DOMAIN s = 1..n /\ DOMAIN Append(s, e) = 1..(n + 1)
        /\ \A i \in 1..n : Append(s, e)[i] = s[i]
        /\ Append(s, e)[n + 1] = e
    BY <1>2 DEF Segments
  <1>4. IsFiniteSet(P(s))
    <2>1. P(s) \subseteq 1..n /\ IsFiniteSet(1..n)
      BY <1>3, FS_Interval
    <2>2. QED
      BY <2>1, FS_Subset
  <1>5. P(Append(s, e)) = IF IsPlaceholder(e) THEN P(s) \cup {n + 1} ELSE P(s)
    BY <1>3
  <1>6. n + 1 \notin P(s)
    BY <1>3
  <1> HIDE DEF P
  <1>7. Cardinality(P(s)) \in Nat /\ Cardinality(P(s) \cup {n + 1}) = Cardinality(P(s)) + 1
    BY <1>4, <1>6, FS_CardinalityType, FS_AddElement
  <1>8. Cardinality(P(<< >>)) = 0
    BY <1>1, FS_EmptySet
  <1>9. QED
    BY <1>5, <1>7, <1>8 DEF PlaceholderCount, P

\* A placeholder behind the first k segments counts.
LEMMA CountUp ==
  ASSUME NEW s \in Segments, NEW k \in 0..Len(s)
  PROVE  /\ PlaceholderCount(Up(s, k)) \in Nat
         /\ PlaceholderCount(Up(s, k)) <= PlaceholderCount(s)
         /\ PlaceholderCount(Up(s, k)) = PlaceholderCount(s) =>
              \A i \in k+1..Len(s) : ~IsPlaceholder(s[i])
  <1> DEFINE P == {i \in DOMAIN s : IsPlaceholder(s[i])}
             Q == {i \in DOMAIN Up(s, k) : IsPlaceholder(Up(s, k)[i])}
  <1>1. PICK n \in Nat : n = Len(s)
    BY DEF Segments
  <1>2. /\ DOMAIN s = 1..n /\ DOMAIN Up(s, k) = 1..k /\ Up(s, k) \in Segments
        /\ \A i \in 1..k : Up(s, k)[i] = s[i]
    BY <1>1, UpIs DEF Segments
  <1>3. IsFiniteSet(P)
    <2>1. P \subseteq 1..n /\ IsFiniteSet(1..n)
      BY <1>2, FS_Interval
    <2>2. QED
      BY <2>1, FS_Subset
  <1>4. Q \subseteq P
    BY <1>1, <1>2
  <1>5. \A i \in k+1..n : i \notin Q /\ (i \in P <=> IsPlaceholder(s[i]))
    BY <1>1, <1>2
  <1> HIDE DEF P, Q
  <1>6. /\ IsFiniteSet(Q) /\ Cardinality(Q) <= Cardinality(P)
        /\ Cardinality(Q) = Cardinality(P) => Q = P
    BY <1>3, <1>4, FS_Subset
  <1>7. Cardinality(Q) \in Nat
    BY <1>6, FS_CardinalityType
  <1>8. PlaceholderCount(s) = Cardinality(P) /\ PlaceholderCount(Up(s, k)) = Cardinality(Q)
    BY DEF PlaceholderCount, P, Q
  <1>9. QED
    BY <1>1, <1>5, <1>6, <1>7, <1>8

\* One segment more in the names
LEMMA NamesAppend ==
  ASSUME NEW s \in Segments, NEW e \in Segment
  PROVE  /\ Names(<< >>) = << >>
         /\ Names(Append(s, e)) = AddName(Names(s), e)
  <1>1. Naming!Fold(<< >>, << >>) = << >>
    BY Naming!FoldEmpty
  <1>2. s \in Seq(Segment)
    BY DEF Segments
  <1>3. Naming!Fold(<< >>, Append(s, e)) = AddName(Naming!Fold(<< >>, s), e)
    BY <1>2, Naming!FoldAppend
  <1>4. QED
    BY <1>1, <1>3, NameFold

\* There is a name for each placeholder, and each is one of a placeholder.
LEMMA NamesAre ==
  ASSUME NEW s \in Segments
  PROVE  /\ Names(s) \in Seq(Text) /\ Len(Names(s)) = PlaceholderCount(s)
         /\ \A j \in 1..Len(Names(s)) : Placeholder(Names(s)[j]) \in Range(s)
  <1> DEFINE Is(k) == LET z == Up(s, k) IN
               /\ Names(z) \in Seq(Text) /\ Len(Names(z)) = PlaceholderCount(z)
               /\ \A j \in 1..Len(Names(z)) : Placeholder(Names(z)[j]) \in Range(s)
             S == {k \in Nat : k <= Len(s) => Is(k)}
  <1>1. 0 \in S
    <2>1. Up(s, 0) = << >> /\ Names(<< >>) = << >> /\ PlaceholderCount(<< >>) = 0
      <3>1. [type |-> "exact", data |-> << >>] \in Segment
        BY DEF Segment, Text
      <3>2. Up(s, 0) = << >>
        BY UpEnds DEF Segments
      <3>3. QED
        BY <3>1, <3>2, NamesAppend, CountAppend
    <2>2. << >> \in Seq(Text) /\ Len(<< >>) = 0 /\ 1..0 = {}
      OBVIOUS
    <2>3. Is(0)
      BY <2>1, <2>2
    <2> HIDE DEF Is
    <2>4. QED
      BY <2>3
  <1>2. ASSUME NEW k \in Nat, k \in S PROVE k + 1 \in S
    <2> SUFFICES ASSUME k + 1 <= Len(s) PROVE Is(k + 1)
      OBVIOUS
    <2>1. Is(k)
      <3>1. k <= Len(s)
        BY DEF Segments
      <3> HIDE DEF Is
      <3>2. QED
        BY <1>2, <3>1
    <2>2. PICK z \in Segments : z = Up(s, k)
      BY UpIs DEF Segments
    <2>3. PICK e \in Segment : e = s[k + 1] /\ e \in Range(s)
      <3>1. k + 1 \in 1..Len(s)
        BY DEF Segments
      <3>2. QED
        BY <3>1, SegmentAt
    <2>4. Up(s, k + 1) = Append(z, e)
      BY <2>2, <2>3, UpStep DEF Segments
    <2>5. Names(Append(z, e)) = AddName(Names(z), e)
      BY NamesAppend
    <2>6. PICK m \in Seq(Text) : m = Names(z)
      BY <2>1, <2>2
    <2>7. /\ Len(m) = PlaceholderCount(z)
          /\ \A j \in 1..Len(m) : Placeholder(m[j]) \in Range(s)
      BY <2>1, <2>2, <2>6
    <2>8. PICK q : q = AddName(m, e)
      OBVIOUS
    <2>9. /\ q \in Seq(Text)
          /\ Len(q) = IF IsPlaceholder(e) THEN Len(m) + 1 ELSE Len(m)
          /\ \A j \in 1..Len(m) : q[j] = m[j]
          /\ IsPlaceholder(e) => q[Len(m) + 1] = e.data
      BY <2>8 DEF AddName, Segment
    <2>10. IsPlaceholder(e) => Placeholder(e.data) = e
      BY DEF IsPlaceholder, Placeholder, Segment
    <2>11. PlaceholderCount(Append(z, e))
             = IF IsPlaceholder(e) THEN PlaceholderCount(z) + 1 ELSE PlaceholderCount(z)
      BY CountAppend
    <2>12. ASSUME NEW j \in 1..Len(q) PROVE Placeholder(q[j]) \in Range(s)
      <3>1. CASE j \in 1..Len(m)
        BY <2>7, <2>9, <3>1
      <3>2. CASE j \notin 1..Len(m)
        <4>1. IsPlaceholder(e) /\ j = Len(m) + 1
          BY <2>9, <3>2
        <4>2. QED
          BY <2>3, <2>9, <2>10, <4>1
      <3>3. QED
        BY <3>1, <3>2
    <2>13. Names(Up(s, k + 1)) = q /\ Len(q) = PlaceholderCount(Up(s, k + 1))
      BY <2>4, <2>5, <2>6, <2>7, <2>8, <2>9, <2>11
    <2>14. QED
      BY <2>9, <2>12, <2>13
  <1> HIDE DEF S
  <1>3. Len(s) \in S
    <2>1. Len(s) \in Nat
      BY DEF Segments
    <2>2. QED
      BY <1>1, <1>2, <2>1, Naming!SetInduction
  <1>4. Up(s, Len(s)) = s
    BY UpEnds DEF Segments
  <1>5. QED
    BY <1>3, <1>4 DEF S

\* Segments without a placeholder add no name.
LEMMA NamesStay ==
  ASSUME NEW s \in Segments, NEW n \in 0..Len(s),
         \A i \in n+1..Len(s) : ~IsPlaceholder(s[i])
  PROVE  Names(Up(s, n)) = Names(s)
  <1> DEFINE S == {k \in Nat : n + k <= Len(s) => Names(Up(s, n + k)) = Names(Up(s, n))}
  <1>1. 0 \in S
    OBVIOUS
  <1>2. ASSUME NEW k \in Nat, k \in S PROVE k + 1 \in S
    <2> SUFFICES ASSUME n + (k + 1) <= Len(s) PROVE Names(Up(s, n + (k + 1))) = Names(Up(s, n))
      OBVIOUS
    <2>0. Len(s) \in Nat /\ n \in Nat
      BY DEF Segments
    <2>00. n + k \in Nat
      BY <2>0
    <2>1. PICK m \in Nat, l \in Nat : m = n + k /\ l = Len(s)
      BY <2>0, <2>00
    <2>2. /\ n + (k + 1) = m + 1 /\ m + 1 <= l /\ m <= l
          /\ m \in 0..l /\ m + 1 \in 1..l /\ m + 1 \in n+1..l
      BY <2>1
    <2>3. Names(Up(s, m)) = Names(Up(s, n)) /\ ~IsPlaceholder(s[m + 1])
      BY <1>2, <2>1, <2>2
    <2>4. Up(s, m + 1) = Append(Up(s, m), s[m + 1]) /\ Up(s, m) \in Segments
      BY <2>1, <2>2, UpStep, UpIs DEF Segments
    <2>5. s[m + 1] \in Segment
      BY <2>1, <2>2, SegmentAt
    <2>6. Names(Up(s, m + 1)) = AddName(Names(Up(s, m)), s[m + 1])
      BY <2>4, <2>5, NamesAppend
    <2>7. QED
      BY <2>2, <2>3, <2>6 DEF AddName
  <1> HIDE DEF S
  <1>3. Len(s) - n \in S
    <2>1. Len(s) - n \in Nat
      BY DEF Segments
    <2>2. QED
      BY <1>1, <1>2, <2>1, Naming!SetInduction
  <1>4. Up(s, Len(s)) = s /\ n + (Len(s) - n) = Len(s) /\ Len(s) <= Len(s)
    <2>1. Len(s) \in Nat
      BY DEF Segments
    <2>2. QED
      BY <2>1, UpEnds DEF Segments
  <1>5. QED
    BY <1>3, <1>4 DEF S

-----------------------------------------------------------------------------
(* The pattern with values in place of the placeholders *)

\* Texts under concatenation, in one
LEMMA TextCat ==
  ASSUME NEW x \in Text, NEW y \in Text, NEW z \in Text
  PROVE  /\ x \o y \in Text /\ << >> \in Text
         /\ (x \o y) \o z = x \o (y \o z)
         /\ x \o << >> = x /\ << >> \o x = x
         /\ x \o y = x \o z => y = z
         /\ Len(x) \in Nat /\ DOMAIN x = 1..Len(x)
         /\ Len(x \o y) = Len(x) + Len(y)
  <1>1. x \in Seq(Char) /\ y \in Seq(Char) /\ z \in Seq(Char)
    BY DEF Text
  <1>2. x \o y \in Seq(Char) /\ (x \o y) \o z = x \o (y \o z) /\ x \o << >> = x /\ << >> \o x = x
    BY <1>1, CatLaws
  <1>3. x \o y = x \o z => y = z
    BY <1>1, Cancel
  <1>4. /\ Len(x) \in Nat /\ DOMAIN x = 1..Len(x) /\ << >> \in Seq(Char)
        /\ Len(x \o y) = Len(x) + Len(y)
    BY <1>1
  <1>5. QED
    BY <1>2, <1>3, <1>4 DEF Text

\* A text behind another is a text.
LEMMA TextJoin ==
  ASSUME NEW x \in Text, NEW y \in Text
  PROVE  x \o y \in Text
  <1>1. x \in Seq(Char) /\ y \in Seq(Char)
    BY DEF Text
  <1>2. QED
    BY <1>1, CatLaws DEF Text

\* What stands before is taken off both.
LEMMA TextCancel ==
  ASSUME NEW x \in Text, NEW y \in Text, NEW z \in Text, x \o y = x \o z
  PROVE  y = z
  <1>1. x \in Seq(Char) /\ y \in Seq(Char) /\ z \in Seq(Char)
    BY DEF Text
  <1>2. QED
    BY <1>1, Cancel

\* Concatenation of texts is associative.
LEMMA TextAssoc ==
  ASSUME NEW x \in Text, NEW y \in Text, NEW z \in Text
  PROVE  (x \o y) \o z = x \o (y \o z)
  <1>1. x \in Seq(Char) /\ y \in Seq(Char) /\ z \in Seq(Char)
    BY DEF Text
  <1>2. QED
    BY <1>1, CatLaws

\* A text is its first n characters and the others.
LEMMA TextSplit ==
  ASSUME NEW s \in Text, NEW n \in 0..Len(s)
  PROVE  \E x \in Text, y \in Text :
           /\ x = SubSeq(s, 1, n) /\ y = SubSeq(s, n + 1, Len(s))
           /\ Len(x) = n /\ s = x \o y /\ \A i \in 1..n : x[i] = s[i]
  <1>1. s \in Seq(Char)
    BY DEF Text
  <1>2. /\ SubSeq(s, 1, n) \in Seq(Char) /\ SubSeq(s, n + 1, Len(s)) \in Seq(Char)
        /\ Len(SubSeq(s, 1, n)) = n
        /\ s = SubSeq(s, 1, n) \o SubSeq(s, n + 1, Len(s))
    BY <1>1, SplitAt
  <1>3. \A i \in 1..n : SubSeq(s, 1, n)[i] = s[i]
    BY <1>1
  <1>4. PICK x \in Text, y \in Text : x = SubSeq(s, 1, n) /\ y = SubSeq(s, n + 1, Len(s))
    BY <1>2 DEF Text
  <1>5. QED
    BY <1>2, <1>3, <1>4

ValuesFor(values, n) == \A j \in 1..n : values[j] \in Text

\* What stands for the i-th segment
Part(segments, values, i) ==
  IF IsPlaceholder(segments[i]) THEN values[PlaceholderCount(Up(segments, i))]
  ELSE segments[i].data

Parts(segments, values, n) == [i \in 1..n |-> Part(segments, values, i)]

\* Up to a placeholder there is one placeholder more than before it.
LEMMA CountStep ==
  ASSUME NEW s \in Segments, NEW k \in Nat, k + 1 <= Len(s)
  PROVE  PlaceholderCount(Up(s, k + 1))
           = IF IsPlaceholder(s[k + 1]) THEN PlaceholderCount(Up(s, k)) + 1
             ELSE PlaceholderCount(Up(s, k))
  <1>1. Up(s, k) \in Segments /\ Up(s, k + 1) = Append(Up(s, k), s[k + 1])
    <2>1. k \in 0..Len(s)
      BY DEF Segments
    <2>2. QED
      BY <2>1, UpIs, UpStep DEF Segments
  <1>2. QED
    BY <1>1, CountAppend

\* What stands for a segment is a text.
LEMMA PartType ==
  ASSUME NEW s \in Segments, NEW k \in 1..Len(s), NEW values,
         ValuesFor(values, PlaceholderCount(Up(s, k)))
  PROVE  Part(s, values, k) \in Text
  <1>1. s[k].data \in Text
    BY SegmentAt DEF Segment
  <1>2. ASSUME IsPlaceholder(s[k]) PROVE PlaceholderCount(Up(s, k)) \in 1..PlaceholderCount(Up(s, k))
    <2>1. k - 1 \in Nat /\ k - 1 + 1 = k /\ k <= Len(s) /\ k - 1 \in 0..Len(s)
      BY DEF Segments
    <2>2. PlaceholderCount(Up(s, k)) = PlaceholderCount(Up(s, k - 1)) + 1
      BY <1>2, <2>1, CountStep
    <2>3. PlaceholderCount(Up(s, k - 1)) \in Nat
      BY <2>1, CountUp
    <2>4. QED
      BY <2>2, <2>3
  <1>3. QED
    BY <1>1, <1>2 DEF Part, ValuesFor

\* The pattern with values is its parts together.
LEMMA FilledIs ==
  ASSUME NEW s \in Segments, NEW values, NEW n \in 0..Len(s)
  PROVE  Filled(Up(s, n), values) = FlattenSeq(Parts(s, values, n))
  <1>1. n \in Nat /\ DOMAIN Up(s, n) = 1..n /\ \A i \in 1..n : Up(s, n)[i] = s[i]
    BY UpIs DEF Segments
  <1>2. ASSUME NEW i \in 1..n PROVE SubSeq(Up(s, n), 1, i) = Up(s, i)
    <2>1. i \in 0..n
      BY <1>1
    <2>2. QED
      BY <2>1, UpUp DEF Up, Segments
  <1> DEFINE g == [i \in DOMAIN Up(s, n) |->
                     IF IsPlaceholder(Up(s, n)[i])
                       THEN values[PlaceholderCount(SubSeq(Up(s, n), 1, i))]
                       ELSE Up(s, n)[i].data]
  <1>3. g = Parts(s, values, n)
    BY <1>1, <1>2 DEF Parts, Part
  <1>4. Filled(Up(s, n), values) = FlattenSeq(g)
    BY DEF Filled
  <1>5. QED
    BY <1>3, <1>4

\* The parts are texts, and one more segment adds its own.
LEMMA PartsStep ==
  ASSUME NEW s \in Segments, NEW n \in Nat, n <= Len(s), NEW values,
         ValuesFor(values, PlaceholderCount(Up(s, n)))
  PROVE  /\ Parts(s, values, n) \in Seq(Text)
         /\ Parts(s, values, 0) = << >>
         /\ Parts(s, values, n + 1) = Append(Parts(s, values, n), Part(s, values, n + 1))
  <1>1. ASSUME NEW i \in 1..n PROVE Part(s, values, i) \in Text
    <2>1. i \in 1..Len(s) /\ i \in 0..Len(s) /\ i \in 0..n /\ n \in 0..Len(s)
      BY DEF Segments
    <2>2. Up(s, n) \in Segments /\ Len(Up(s, n)) = n /\ Up(Up(s, n), i) = Up(s, i)
      BY <2>1, UpIs, UpUp DEF Segments
    <2>3. /\ PlaceholderCount(Up(s, i)) \in Nat /\ PlaceholderCount(Up(s, n)) \in Nat
          /\ PlaceholderCount(Up(s, i)) <= PlaceholderCount(Up(s, n))
      BY <2>1, <2>2, CountUp
    <2>4. ValuesFor(values, PlaceholderCount(Up(s, i)))
      BY <2>3 DEF ValuesFor
    <2>5. QED
      BY <2>1, <2>4, PartType
  <1>2. Parts(s, values, n) \in Seq(Text)
    BY <1>1 DEF Parts
  <1>3. Parts(s, values, 0) = << >>
    BY DEF Parts
  <1>4. Parts(s, values, n + 1) = Append(Parts(s, values, n), Part(s, values, n + 1))
    BY <1>2 DEF Parts
  <1>5. QED
    BY <1>2, <1>3, <1>4

\* One segment more
LEMMA FilledStep ==
  ASSUME NEW s \in Segments, NEW k \in Nat, k + 1 <= Len(s), NEW values,
         ValuesFor(values, PlaceholderCount(Up(s, k + 1)))
  PROVE  /\ Filled(Up(s, k), values) \in Text /\ Part(s, values, k + 1) \in Text
         /\ Filled(Up(s, k + 1), values) = Filled(Up(s, k), values) \o Part(s, values, k + 1)
  <1>1. k \in 0..Len(s) /\ k + 1 \in 1..Len(s) /\ k + 1 \in 0..Len(s) /\ k <= Len(s)
    BY DEF Segments
  <1>2. ValuesFor(values, PlaceholderCount(Up(s, k)))
    <2>1. PlaceholderCount(Up(s, k)) \in Nat
      BY <1>1, CountUp
    <2>2. QED
      BY <2>1, CountStep DEF ValuesFor
  <1>3. Part(s, values, k + 1) \in Text
    BY <1>1, PartType
  <1>4. /\ Parts(s, values, k) \in Seq(Text)
        /\ Parts(s, values, k + 1) = Append(Parts(s, values, k), Part(s, values, k + 1))
    BY <1>1, <1>2, PartsStep
  <1>5. FlattenSeq(Parts(s, values, k + 1)) = FlattenSeq(Parts(s, values, k)) \o Part(s, values, k + 1)
    BY <1>3, <1>4, FlattenAppend DEF Text
  <1>6. FlattenSeq(Parts(s, values, k)) \in Text
    BY <1>4, FlattenType DEF Text
  <1>7. QED
    BY <1>1, <1>3, <1>5, <1>6, FilledIs

\* No segment stands for the empty text.
LEMMA FilledNone ==
  ASSUME NEW s \in Segments, NEW values
  PROVE  Filled(Up(s, 0), values) = << >>
  <1>1. 0 \in 0..Len(s)
    BY DEF Segments
  <1>2. Parts(s, values, 0) = << >>
    BY DEF Parts
  <1>3. FlattenSeq(<< >>) = << >>
    BY DEF FlattenSeq
  <1>4. QED
    BY <1>1, <1>2, <1>3, FilledIs

\* Values behind those for the placeholders do not matter.
LEMMA FilledAgree ==
  ASSUME NEW s \in Segments, NEW n \in 0..Len(s), NEW v, NEW w,
         \A j \in 1..PlaceholderCount(Up(s, n)) : v[j] = w[j]
  PROVE  Filled(Up(s, n), v) = Filled(Up(s, n), w)
  <1>1. ASSUME NEW i \in 1..n PROVE Part(s, v, i) = Part(s, w, i)
    <2>1. /\ i \in 1..Len(s) /\ i \in 0..Len(s) /\ i \in 0..n /\ n \in Nat
          /\ i - 1 \in Nat /\ i - 1 + 1 = i /\ i <= Len(s) /\ i - 1 \in 0..Len(s)
      BY DEF Segments
    <2>2. Up(s, n) \in Segments /\ Len(Up(s, n)) = n /\ Up(Up(s, n), i) = Up(s, i)
      BY <2>1, UpIs, UpUp DEF Segments
    <2>3. /\ PlaceholderCount(Up(s, i)) \in Nat /\ PlaceholderCount(Up(s, n)) \in Nat
          /\ PlaceholderCount(Up(s, i)) <= PlaceholderCount(Up(s, n))
          /\ PlaceholderCount(Up(s, i - 1)) \in Nat
      BY <2>1, <2>2, CountUp
    <2>4. IsPlaceholder(s[i]) => PlaceholderCount(Up(s, i)) = PlaceholderCount(Up(s, i - 1)) + 1
      BY <2>1, CountStep
    <2>5. IsPlaceholder(s[i]) => PlaceholderCount(Up(s, i)) \in 1..PlaceholderCount(Up(s, n))
      BY <2>3, <2>4
    <2>6. QED
      BY <2>5 DEF Part
  <1>2. Parts(s, v, n) = Parts(s, w, n)
    BY <1>1 DEF Parts
  <1>3. QED
    BY <1>2, FilledIs

\* The first k segments stand at the front of all.
LEMMA FilledSplit ==
  ASSUME NEW s \in Segments, NEW values, ValuesFor(values, PlaceholderCount(s)),
         NEW k \in 0..Len(s)
  PROVE  \E r \in Text : Filled(s, values) = Filled(Up(s, k), values) \o r
  <1>1. PICK l \in Nat : l = Len(s)
    BY DEF Segments
  <1> DEFINE At(q) == \E r \in Text : Filled(s, values) = Filled(Up(s, q), values) \o r
             S == {j \in Nat : j <= l => At(l - j)}
  <1>2. Up(s, l) = s
    BY <1>1, UpEnds DEF Segments
  <1>3. ASSUME NEW q \in 0..l PROVE ValuesFor(values, PlaceholderCount(Up(s, q)))
    <2>1. /\ PlaceholderCount(Up(s, q)) <= PlaceholderCount(s)
          /\ PlaceholderCount(Up(s, q)) \in Nat
      BY <1>1, CountUp
    <2>2. PlaceholderCount(s) \in Nat
      BY CountAppend
    <2>3. QED
      BY <2>1, <2>2 DEF ValuesFor
  <1>4. ASSUME NEW q \in 0..l PROVE Filled(Up(s, q), values) \in Text
    <2>1. q <= Len(s) /\ q \in Nat /\ q \in 0..Len(s)
      BY <1>1
    <2>2. Parts(s, values, q) \in Seq(Text)
      BY <1>3, <2>1, PartsStep
    <2>3. QED
      BY <2>1, <2>2, FilledIs, FlattenType DEF Text
  <1>5. 0 \in S
    <2>1. Filled(s, values) = Filled(Up(s, l), values) /\ Filled(Up(s, l), values) \in Text
      BY <1>2, <1>4
    <2>2. PICK x \in Text : x = Filled(Up(s, l), values)
      BY <2>1
    <2>3. x = x \o << >> /\ << >> \in Text
      BY DEF Text
    <2>4. At(l)
      BY <2>1, <2>2, <2>3
    <2>5. l - 0 = l
      OBVIOUS
    <2> HIDE DEF At
    <2>6. QED
      BY <2>4, <2>5
  <1>6. ASSUME NEW j \in Nat, j \in S PROVE j + 1 \in S
    <2> SUFFICES ASSUME j + 1 <= l PROVE At(l - (j + 1))
      OBVIOUS
    <2>1. PICK q \in Nat : q = l - (j + 1)
      OBVIOUS
    <2>2. q + 1 = l - j /\ j <= l /\ q + 1 <= l /\ q + 1 \in 0..l
      BY <2>1
    <2>3. At(q + 1)
      <3> HIDE DEF At
      <3>1. QED
        BY <1>6, <2>2
    <2>4. PICK r \in Text : Filled(s, values) = Filled(Up(s, q + 1), values) \o r
      BY <2>3
    <2>5. /\ Filled(Up(s, q), values) \in Text /\ Part(s, values, q + 1) \in Text
          /\ Filled(Up(s, q + 1), values) = Filled(Up(s, q), values) \o Part(s, values, q + 1)
      BY <1>1, <1>3, <2>2, FilledStep
    <2>6. PICK x \in Text, y \in Text : x = Filled(Up(s, q), values) /\ y = Part(s, values, q + 1)
      BY <2>5
    <2>7. (x \o y) \o r = x \o (y \o r) /\ y \o r \in Text
      <3>1. x \in Seq(Char) /\ y \in Seq(Char) /\ r \in Seq(Char)
        BY DEF Text
      <3>2. (x \o y) \o r = x \o (y \o r) /\ y \o r \in Seq(Char)
        BY <3>1, CatLaws
      <3>3. QED
        BY <3>2 DEF Text
    <2>8. Filled(s, values) = Filled(Up(s, q), values) \o (y \o r)
      BY <2>4, <2>5, <2>6, <2>7
    <2>9. At(q)
      BY <2>7, <2>8
    <2> HIDE DEF At
    <2>10. QED
      BY <2>1, <2>9
  <1> HIDE DEF S
  <1>7. l - k \in S
    <2>1. l - k \in Nat
      BY <1>1
    <2>2. QED
      BY <1>5, <1>6, <2>1, Naming!SetInduction
  <1>8. l - k <= l /\ l - (l - k) = k
    BY <1>1
  <1> HIDE DEF At
  <1>9. At(k)
    BY <1>7, <1>8 DEF S
  <1>10. QED
    BY <1>9 DEF At

-----------------------------------------------------------------------------
(* One turn of the segment loop *)

Keys(dict) == [i \in DOMAIN dict |-> dict[i][1]]
Values(dict) == [i \in DOMAIN dict |-> dict[i][2]]

MatchState == [rest : Text, empty : BOOLEAN, left : BOOLEAN, dict : Seq(Text \X Text)]

\* What a turn of the loop leaves
Took(m, r) == [m EXCEPT !.rest = r]
\* One entry more in the match dictionary
With(dict, name, v) == Append(dict, <<name, v>>)
TookValue(m, r, name, v) == [m EXCEPT !.rest = r, !.dict = Append(@, <<name, v>>)]
Stopped(m) == [m EXCEPT !.left = TRUE]
StoppedEmpty(m) == [m EXCEPT !.left = TRUE, !.empty = TRUE]

\* The states a turn leaves when no value is taken
LEMMA TurnTypes ==
  ASSUME NEW m \in MatchState, NEW r \in Text
  PROVE  /\ Took(m, r) \in MatchState /\ Took(m, r).rest = r /\ Took(m, r).dict = m.dict
         /\ Stopped(m) \in MatchState /\ Stopped(m).left
         /\ Stopped(m).rest = m.rest /\ Stopped(m).dict = m.dict
         /\ StoppedEmpty(m) \in MatchState /\ StoppedEmpty(m).left
         /\ StoppedEmpty(m).rest = m.rest /\ StoppedEmpty(m).dict = m.dict
  BY DEF Took, Stopped, StoppedEmpty, MatchState

\* The state a turn leaves when a value is taken
LEMMA TookValueIs ==
  ASSUME NEW m \in MatchState, NEW r \in Text, NEW name \in Text, NEW v \in Text
  PROVE  /\ TookValue(m, r, name, v) \in MatchState
         /\ TookValue(m, r, name, v).rest = r
         /\ TookValue(m, r, name, v).dict = With(m.dict, name, v)
  <1>1. PICK T : T = Text \X Text
    OBVIOUS
  <1>2. PICK p \in T : p = <<name, v>>
    BY <1>1
  <1>3. m \in [rest : Text, empty : BOOLEAN, left : BOOLEAN, dict : Seq(T)]
    BY <1>1 DEF MatchState
  <1>4. PICK d \in Seq(T) : d = Append(m.dict, p)
    <2>1. PICK x \in Seq(T) : x = m.dict
      BY <1>3
    <2>2. Append(x, p) \in Seq(T)
      OBVIOUS
    <2>3. QED
      BY <2>1, <2>2
  <1>5. TookValue(m, r, name, v) = [m EXCEPT !.rest = r, !.dict = d]
    BY <1>2, <1>4 DEF TookValue
  <1>6. TookValue(m, r, name, v) \in MatchState
    BY <1>1, <1>3, <1>5 DEF MatchState
  <1>7. TookValue(m, r, name, v).rest = r /\ TookValue(m, r, name, v).dict = d
    BY <1>3, <1>5
  <1>8. QED
    BY <1>2, <1>4, <1>6, <1>7 DEF With

\* The text up to the first slash
LEMMA ValueLengthIs ==
  ASSUME NEW rest \in Text
  PROVE  /\ ValueLength(rest) \in 0..Len(rest)
         /\ \A i \in 1..ValueLength(rest) : rest[i] # "/"
         /\ ValueLength(rest) < Len(rest) => rest[ValueLength(rest) + 1] = "/"
  <1>1. PICK l \in Nat : l = Len(rest) /\ DOMAIN rest = 1..l
    BY DEF Text
  <1> DEFINE T == {i \in DOMAIN rest : rest[i] = "/"}
  <1>2. CASE T = {}
    <2>1. ValueLength(rest) = l
      BY <1>1, <1>2 DEF ValueLength
    <2>2. \A i \in 1..l : rest[i] # "/"
      BY <1>1, <1>2
    <2>3. QED
      BY <1>1, <2>1, <2>2
  <1>3. CASE T # {}
    <2>1. T \subseteq Nat
      BY <1>1
    <2>2. \E x \in T : \A y \in T : x <= y
      <3> HIDE DEF T
      <3>1. QED
        BY <1>3, <2>1, Naming!LeastElement
    <2>3. Min(T) \in T /\ \A y \in T : Min(T) <= y
      <3> HIDE DEF T
      <3>1. QED
        BY <2>2 DEF Min
    <2>4. PICK x \in T : x = Min(T) /\ \A y \in T : x <= y
      BY <2>3
    <2>5. ValueLength(rest) = x - 1
      BY <1>3, <2>4 DEF ValueLength
    <2>6. x \in 1..l /\ rest[x] = "/"
      BY <1>1
    <2>7. \A i \in 1..(x - 1) : rest[i] # "/"
      <3>1. ASSUME NEW i \in 1..(x - 1), rest[i] = "/" PROVE FALSE
        <4>1. i \in T /\ i < x
          BY <1>1, <2>6, <3>1
        <4>2. x <= i
          BY <2>4, <4>1
        <4>3. QED
          BY <2>6, <4>1, <4>2
      <3>2. QED
        BY <3>1
    <2>8. x - 1 \in 0..l /\ x - 1 + 1 = x
      BY <2>6
    <2>9. QED
      BY <1>1, <2>5, <2>6, <2>7, <2>8
  <1>4. QED
    BY <1>2, <1>3

\* A value without a slash is found before a slash and at the end.
LEMMA ValueLengthOf ==
  ASSUME NEW v \in Text, NEW r \in Text, ~Contains(v, "/"), r = << >> \/ r[1] = "/"
  PROVE  ValueLength(v \o r) = Len(v)
  <1>1. PICK l \in Nat, k \in Nat : l = Len(v) /\ k = Len(r)
    BY DEF Text
  <1>2. PICK z \in Text : z = v \o r
    BY TextCat
  <1>3. /\ Len(z) = l + k
        /\ \A i \in 1..l : z[i] = v[i]
        /\ \A i \in 1..k : z[l + i] = r[i]
    BY <1>1, <1>2 DEF Text
  <1>4. \A i \in 1..l : v[i] # "/"
    BY <1>1 DEF Contains
  <1>5. PICK n \in 0..(l + k) :
          /\ n = ValueLength(z)
          /\ \A i \in 1..n : z[i] # "/"
          /\ n < l + k => z[n + 1] = "/"
    BY <1>3, ValueLengthIs
  <1>6. ~(n < l)
    <2>1. SUFFICES ASSUME n < l PROVE FALSE
      OBVIOUS
    <2>2. n + 1 \in 1..l /\ n < l + k
      BY <2>1
    <2>3. QED
      BY <1>3, <1>4, <1>5, <2>2
  <1>7. ~(l < n)
    <2>1. SUFFICES ASSUME l < n PROVE FALSE
      OBVIOUS
    <2>2. k # 0 /\ 1 \in 1..k /\ l + 1 \in 1..n
      BY <2>1
    <2>3. r # << >>
      BY <1>1, <2>2
    <2>4. r[1] = "/" /\ z[l + 1] = r[1]
      BY <1>3, <2>2, <2>3
    <2>5. QED
      BY <1>5, <2>2, <2>4
  <1>8. n = l
    BY <1>6, <1>7
  <1>9. QED
    BY <1>1, <1>2, <1>5, <1>8

\* A loop that was left stays left.
LEMMA ReadLeft ==
  ASSUME NEW m, NEW s, m.left
  PROVE  ReadSegment(m, s) = m
  BY DEF ReadSegment

\* Of an exact segment that fits, the text is taken; at another the loop is left.
LEMMA ReadExact ==
  ASSUME NEW m \in MatchState, NEW s \in Segment, ~m.left, ~IsPlaceholder(s)
  PROVE  \/ /\ ~\E r \in Text : m.rest = s.data \o r
            /\ ReadSegment(m, s) = Stopped(m)
         \/ \E r \in Text : /\ m.rest = s.data \o r
                            /\ ReadSegment(m, s) = Took(m, r)
  <1>1. PICK d \in Text, t \in Text : d = s.data /\ t = m.rest
    BY DEF Segment, MatchState
  <1>2. /\ IsPrefix(d, t) => Len(d) <= Len(t) /\ d = SubSeq(t, 1, Len(d))
        /\ \A y \in Text : t = d \o y => IsPrefix(d, t)
    BY PrefixIs DEF Text
  <1>3. CASE IsPrefix(d, t)
    <2>1. Len(d) \in 0..Len(t)
      BY <1>2, <1>3 DEF Text
    <2>2. PICK r \in Text : r = SubSeq(t, Len(d) + 1, Len(t)) /\ t = d \o r
      <3>1. PICK x \in Text, y \in Text :
              x = SubSeq(t, 1, Len(d)) /\ y = SubSeq(t, Len(d) + 1, Len(t)) /\ t = x \o y
        BY <2>1, TextSplit
      <3>2. x = d
        BY <1>2, <1>3, <3>1
      <3>3. QED
        BY <3>1, <3>2
    <2>3. ReadSegment(m, s) = Took(m, r)
      BY <1>1, <1>3, <2>2 DEF ReadSegment, Took, TookValue, Stopped, StoppedEmpty
    <2>4. QED
      BY <1>1, <2>2, <2>3
  <1>4. CASE ~IsPrefix(d, t)
    <2>1. ReadSegment(m, s) = Stopped(m)
      BY <1>1, <1>4 DEF ReadSegment, Took, TookValue, Stopped, StoppedEmpty
    <2>2. QED
      BY <1>1, <1>2, <1>4, <2>1
  <1>5. QED
    BY <1>3, <1>4

\* Of a placeholder the value is what stands before the next slash.
LEMMA ReadPlaceholder ==
  ASSUME NEW m \in MatchState, NEW s \in Segment, ~m.left, IsPlaceholder(s)
  PROVE  \/ /\ ValueLength(m.rest) = 0
            /\ ReadSegment(m, s) = StoppedEmpty(m)
         \/ \E v \in Text, r \in Text :
              /\ m.rest = v \o r /\ ValueOK(v) /\ Len(v) = ValueLength(m.rest)
              /\ ReadSegment(m, s) = TookValue(m, r, s.data, v)
  <1>1. PICK t \in Text : t = m.rest
    BY DEF MatchState
  <1>2. PICK n \in 0..Len(t) : n = ValueLength(t) /\ \A i \in 1..n : t[i] # "/"
    BY ValueLengthIs
  <1>3. CASE n = 0
    BY <1>1, <1>2, <1>3 DEF ReadSegment, Took, TookValue, Stopped, StoppedEmpty
  <1>4. CASE n # 0
    <2>1. PICK v \in Text, r \in Text :
            v = SubSeq(t, 1, n) /\ r = SubSeq(t, n + 1, Len(t)) /\ t = v \o r /\ Len(v) = n
      BY TextSplit
    <2>2. \A i \in 1..n : v[i] = t[i]
      <3>1. t \in Seq(Char)
        BY DEF Text
      <3>2. \A i \in 1..n : SubSeq(t, 1, n)[i] = t[i]
        BY <3>1
      <3>3. QED
        BY <2>1, <3>2
    <2>3. ValueOK(v)
      <3>1. v # << >>
        BY <1>4, <2>1
      <3>2. QED
        BY <1>2, <2>1, <2>2, <3>1 DEF ValueOK, Contains
    <2>4. ReadSegment(m, s) = TookValue(m, r, s.data, v)
      BY <1>1, <1>2, <1>4, <2>1 DEF ReadSegment, Took, TookValue, Stopped, StoppedEmpty
    <2>5. QED
      BY <1>1, <1>2, <2>1, <2>3, <2>4
  <1>5. QED
    BY <1>3, <1>4

\* What an entry in the match dictionary adds to its keys and values
LEMMA DictAppend ==
  ASSUME NEW d \in Seq(Text \X Text), NEW a \in Text, NEW b \in Text
  PROVE  LET e == With(d, a, b) IN
         /\ e \in Seq(Text \X Text) /\ Len(e) = Len(d) + 1
         /\ Keys(e) = Append(Keys(d), a)
         /\ Values(e) = Append(Values(d), b)
         /\ Keys(d) \in Seq(Text) /\ Values(d) \in Seq(Text)
         /\ Len(Keys(d)) = Len(d) /\ Len(Values(d)) = Len(d)
  <1>1. PICK n \in Nat : n = Len(d) /\ DOMAIN d = 1..n
    OBVIOUS
  <1>2. PICK e \in Seq(Text \X Text) : e = Append(d, <<a, b>>)
    <2>1. PICK T : T = Text \X Text
      OBVIOUS
    <2>2. PICK p \in T : p = <<a, b>>
      BY <2>1
    <2>3. d \in Seq(T)
      BY <2>1
    <2>4. Append(d, p) \in Seq(T)
      BY <2>3
    <2>5. QED
      BY <2>1, <2>2, <2>4
  <1>3. /\ Len(e) = n + 1 /\ DOMAIN e = 1..(n + 1)
        /\ \A i \in 1..n : e[i] = d[i]
        /\ e[n + 1] = <<a, b>>
    BY <1>1, <1>2
  <1>4. Keys(d) = [i \in 1..n |-> d[i][1]] /\ Values(d) = [i \in 1..n |-> d[i][2]]
    BY <1>1 DEF Keys, Values
  <1>5. \A i \in 1..n : d[i][1] \in Text /\ d[i][2] \in Text
    <2>1. \A i \in 1..n : d[i] \in Text \X Text
      BY <1>1
    <2>2. QED
      BY <2>1
  <1>6. Keys(d) \in Seq(Text) /\ Len(Keys(d)) = n /\ Values(d) \in Seq(Text) /\ Len(Values(d)) = n
    BY <1>4, <1>5
  <1>7. Keys(e) = [i \in 1..(n + 1) |-> e[i][1]] /\ Values(e) = [i \in 1..(n + 1) |-> e[i][2]]
    BY <1>3 DEF Keys, Values
  <1>8. <<a, b>>[1] = a /\ <<a, b>>[2] = b
    OBVIOUS
  <1>9. Keys(e) = Append(Keys(d), a)
    BY <1>3, <1>4, <1>5, <1>7, <1>8
  <1>10. Values(e) = Append(Values(d), b)
    BY <1>3, <1>4, <1>5, <1>7, <1>8
  <1>11. QED
    BY <1>1, <1>2, <1>3, <1>6, <1>9, <1>10 DEF With

-----------------------------------------------------------------------------
(* What the segment loop has read *)

\* The first n segments, all k unless the loop was left, stand for what was taken
\* of the path, with the values in the dictionary.
Reads(segments, path, k, m, n) ==
  /\ m.left \/ n = k
  /\ Keys(m.dict) = Names(Up(segments, n))
  /\ \A i \in 1..Len(m.dict) : ValueOK(Values(m.dict)[i])
  /\ Filled(Up(segments, n), Values(m.dict)) \o m.rest = path

Covered(segments, path, k) ==
  {m \in MatchState : \E n \in 0..k : Reads(segments, path, k, m, n)}

MatchStart(path) == [rest |-> path, empty |-> FALSE, left |-> FALSE, dict |-> <<>>]

\* MatchSegments is a fold.
LEMMA MatchFold ==
  ASSUME NEW s, NEW path
  PROVE  MatchSegments(s, path) = Matching!Fold(MatchStart(path), s)
  BY DEF MatchSegments, MatchStart, Matching!Fold, Matching!FoldLeft, Matching!MapThenFoldSet,
         Matching!Max, FoldLeft, MapThenFoldSet, Max

\* Before the first turn nothing was read.
LEMMA CoveredStart ==
  ASSUME NEW s \in Segments, NEW path \in Text
  PROVE  MatchStart(path) \in Covered(s, path, 0)
  <1>1. MatchStart(path) \in MatchState
    BY DEF MatchStart, MatchState
  <1>2. Up(s, 0) = << >> /\ Filled(Up(s, 0), << >>) = << >>
    BY UpEnds, FilledNone DEF Segments
  <1>3. Names(<< >>) = << >>
    <2>1. [type |-> "exact", data |-> << >>] \in Segment
      BY DEF Segment, Text
    <2>2. QED
      BY <2>1, NamesAppend
  <1>4. Keys(<< >>) = << >> /\ Values(<< >>) = << >>
    BY DEF Keys, Values
  <1>5. << >> \o path = path
    BY TextCat
  <1>6. Reads(s, path, 0, MatchStart(path), 0)
    <2>1. MatchStart(path).dict = << >> /\ MatchStart(path).rest = path
      BY DEF MatchStart
    <2>2. Len(<< >>) = 0 /\ 1..0 = {}
      OBVIOUS
    <2>3. QED
      BY <1>2, <1>3, <1>4, <1>5, <2>1, <2>2 DEF Reads
  <1>7. QED
    BY <1>1, <1>6 DEF Covered

\* Each turn reads one segment more or leaves the loop.
LEMMA CoveredStep ==
  ASSUME NEW s \in Segments, NEW path \in Text, NEW j \in Nat, j + 1 <= Len(s),
         NEW m \in Covered(s, path, j)
  PROVE  ReadSegment(m, s[j + 1]) \in Covered(s, path, j + 1)
  <1>0. j + 1 \in 1..Len(s) /\ j + 1 \in 0..j+1 /\ j \in 0..Len(s)
    BY DEF Segments
  <1>1. m \in MatchState
    BY DEF Covered
  <1>2. PICK n \in 0..j : Reads(s, path, j, m, n)
    BY <1>0 DEF Covered
  <1>3. PICK e \in Segment : e = s[j + 1]
    BY <1>0, SegmentAt
  <1>4. n \in 0..j+1
    BY <1>0
  <1> DEFINE q == ReadSegment(m, e)
  <1>5. CASE m.left
    <2>1. q = m
      BY <1>5, ReadLeft
    <2>2. Reads(s, path, j + 1, m, n)
      BY <1>2, <1>5 DEF Reads
    <2>3. QED
      BY <1>1, <1>3, <1>4, <2>1, <2>2 DEF Covered
  <1>6. ASSUME q.left, q \in MatchState, q.dict = m.dict, q.rest = m.rest PROVE q \in Covered(s, path, j + 1)
    <2> HIDE DEF q
    <2>1. Reads(s, path, j + 1, q, n)
      BY <1>2, <1>6 DEF Reads
    <2>2. QED
      BY <1>4, <1>6, <2>1 DEF Covered
  <1>7. CASE ~m.left
    <2>1. n = j
      BY <1>2, <1>7 DEF Reads
    <2>2. PICK d \in Seq(Text \X Text), t \in Text : d = m.dict /\ t = m.rest
      BY <1>1 DEF MatchState
    <2>3. /\ Keys(d) = Names(Up(s, j)) /\ Filled(Up(s, j), Values(d)) \o t = path
          /\ \A i \in 1..Len(d) : ValueOK(Values(d)[i])
      BY <1>2, <2>1, <2>2 DEF Reads
    <2>4. Up(s, j) \in Segments /\ Up(s, j + 1) = Append(Up(s, j), e)
      BY <1>0, <1>3, UpIs, UpStep DEF Segments
    <2>5. Names(Up(s, j + 1)) = AddName(Names(Up(s, j)), e)
      BY <2>4, NamesAppend
    <2>6. /\ Keys(d) \in Seq(Text) /\ Values(d) \in Seq(Text)
          /\ Len(Keys(d)) = Len(d) /\ Len(Values(d)) = Len(d)
      <3>1. << >> \in Text
        BY TextCat
      <3>2. QED
        BY <3>1, DictAppend
    <2>7. Len(d) = PlaceholderCount(Up(s, j))
      BY <2>3, <2>4, <2>6, NamesAre
    <2>8. CASE ~IsPlaceholder(e)
      <3>1. CASE q = Stopped(m)
        <4>1. q.left /\ q \in MatchState /\ q.dict = m.dict /\ q.rest = m.rest
          <5>1. << >> \in Text
            BY TextCat
          <5>2. QED
            BY <1>1, <3>1, <5>1, TurnTypes
        <4>2. QED
          BY <1>3, <1>6, <4>1
      <3>2. ASSUME NEW r \in Text, t = e.data \o r, q = Took(m, r)
            PROVE  q \in Covered(s, path, j + 1)
        <4>1. q \in MatchState /\ q.dict = d /\ q.rest = r
          <5>1. e.data \in Text /\ r \in Text
            BY DEF Segment
          <5>2. Took(m, r) \in MatchState /\ Took(m, r).rest = r /\ Took(m, r).dict = m.dict
            BY <1>1, <5>1, TurnTypes
          <5>3. QED
            BY <2>2, <3>2, <5>2
        <4>2. PlaceholderCount(Up(s, j + 1)) = Len(d)
          BY <1>0, <1>3, <2>7, <2>8, CountStep
        <4>3. ValuesFor(Values(d), Len(d))
          BY <2>6 DEF ValuesFor
        <4>4. Part(s, Values(d), j + 1) = e.data /\ e.data \in Text
          BY <1>3, <2>8 DEF Part, Segment
        <4>5. /\ Filled(Up(s, j), Values(d)) \in Text
              /\ Filled(Up(s, j + 1), Values(d)) = Filled(Up(s, j), Values(d)) \o e.data
          BY <1>0, <4>2, <4>3, <4>4, FilledStep
        <4>6. PICK f \in Text, a \in Text : f = Filled(Up(s, j), Values(d)) /\ a = e.data
          BY <4>4, <4>5
        <4>7. (f \o a) \o r = f \o (a \o r)
          BY TextAssoc
        <4>8. Filled(Up(s, j + 1), Values(d)) \o r = path
          BY <2>3, <3>2, <4>5, <4>6, <4>7
        <4>9. Names(Up(s, j + 1)) = Keys(d)
          BY <2>3, <2>5, <2>8 DEF AddName
        <4> HIDE DEF q
        <4>10. Reads(s, path, j + 1, q, j + 1)
          BY <2>3, <4>1, <4>8, <4>9 DEF Reads
        <4>11. QED
          BY <1>0, <4>1, <4>10 DEF Covered
      <3>3. q = Stopped(m)
              \/ \E r \in Text : m.rest = e.data \o r /\ q = Took(m, r)
        BY <1>1, <1>7, <2>8, ReadExact
      <3> HIDE DEF q
      <3>4. CASE \E r \in Text : m.rest = e.data \o r /\ q = Took(m, r)
        <4>1. PICK r \in Text : t = e.data \o r /\ q = Took(m, r)
          BY <2>2, <3>4
        <4>2. q \in Covered(s, path, j + 1)
          BY <3>2, <4>1
        <4>3. QED
          BY <1>3, <4>2 DEF q
      <3>5. QED
        BY <1>3, <3>1, <3>3, <3>4 DEF q
    <2>9. CASE IsPlaceholder(e)
      <3>1. CASE q = StoppedEmpty(m)
        <4>1. q.left /\ q \in MatchState /\ q.dict = m.dict /\ q.rest = m.rest
          <5>1. << >> \in Text
            BY TextCat
          <5>2. QED
            BY <1>1, <3>1, <5>1, TurnTypes
        <4>2. QED
          BY <1>3, <1>6, <4>1
      <3>2. ASSUME NEW v \in Text, NEW r \in Text, t = v \o r, ValueOK(v),
                   q = TookValue(m, r, e.data, v)
            PROVE  q \in Covered(s, path, j + 1)
        <4>1. PICK a \in Text : a = e.data
          BY DEF Segment
        <4>2. PICK g \in Seq(Text \X Text) : g = With(d, a, v)
          BY DictAppend
        <4>3. /\ Len(g) = Len(d) + 1 /\ Keys(g) = Append(Keys(d), a)
              /\ Values(g) = Append(Values(d), v)
          BY <4>2, DictAppend
        <4>4. q \in MatchState /\ q.dict = g /\ q.rest = r
          <5>1. /\ TookValue(m, r, a, v) \in MatchState /\ TookValue(m, r, a, v).rest = r
                /\ TookValue(m, r, a, v).dict = With(m.dict, a, v)
            BY <1>1, TookValueIs
          <5>2. QED
            BY <2>2, <3>2, <4>1, <4>2, <5>1
        <4>5. Names(Up(s, j + 1)) = Keys(g)
          BY <2>3, <2>5, <2>9, <4>1, <4>3 DEF AddName
        <4>60. Values(g) \in Seq(Text) /\ Len(d) \in Nat
          BY <2>6, <4>3
        <4>6. PICK V \in Seq(Text), W \in Seq(Text), c \in Nat :
                V = Values(d) /\ W = Values(g) /\ c = Len(d)
          BY <2>6, <4>60
        <4>7. /\ Len(V) = c /\ Len(W) = c + 1 /\ W[c + 1] = v
              /\ \A i \in 1..c : V[i] = W[i]
          BY <2>6, <4>3, <4>6
        <4>8. PlaceholderCount(Up(s, j + 1)) = c + 1
          BY <1>0, <1>3, <2>7, <2>9, <4>6, CountStep
        <4>9. ValuesFor(W, c + 1)
          BY <4>7 DEF ValuesFor
        <4>10. Part(s, W, j + 1) = v
          BY <1>3, <2>9, <4>7, <4>8 DEF Part
        <4>11. /\ Filled(Up(s, j), W) \in Text
               /\ Filled(Up(s, j + 1), W) = Filled(Up(s, j), W) \o v
          BY <1>0, <4>8, <4>9, <4>10, FilledStep
        <4>12. Filled(Up(s, j), V) = Filled(Up(s, j), W)
          <5>1. \A i \in 1..PlaceholderCount(Up(s, j)) : V[i] = W[i]
            BY <2>7, <4>6, <4>7
          <5>2. QED
            BY <1>0, <5>1, FilledAgree
        <4>13. PICK f \in Text : f = Filled(Up(s, j), W)
          BY <4>11
        <4>14. (f \o v) \o r = f \o (v \o r)
          BY TextAssoc
        <4>15. Filled(Up(s, j + 1), W) \o r = path
          BY <2>3, <3>2, <4>6, <4>11, <4>12, <4>13, <4>14
        <4>16. ASSUME NEW i \in 1..(c + 1) PROVE ValueOK(W[i])
          <5>1. CASE i \in 1..c
            BY <2>3, <4>6, <4>7, <5>1
          <5>2. CASE i \notin 1..c
            <6>1. i = c + 1
              BY <5>2
            <6>2. QED
              BY <3>2, <4>7, <6>1
          <5>3. QED
            BY <5>1, <5>2
        <4> HIDE DEF q
        <4>17. Reads(s, path, j + 1, q, j + 1)
          BY <4>3, <4>4, <4>5, <4>6, <4>15, <4>16 DEF Reads
        <4>18. QED
          BY <1>0, <4>4, <4>17 DEF Covered
      <3>3. q = StoppedEmpty(m)
              \/ \E v \in Text, r \in Text :
                   /\ m.rest = v \o r /\ ValueOK(v)
                   /\ q = TookValue(m, r, e.data, v)
        BY <1>1, <1>7, <2>9, ReadPlaceholder
      <3> HIDE DEF q
      <3>4. CASE \E v \in Text, r \in Text :
                   /\ m.rest = v \o r /\ ValueOK(v)
                   /\ q = TookValue(m, r, e.data, v)
        <4>1. PICK v \in Text, r \in Text : t = v \o r /\ ValueOK(v) /\ q = TookValue(m, r, e.data, v)
          BY <2>2, <3>4
        <4>2. q \in Covered(s, path, j + 1)
          BY <3>2, <4>1
        <4>3. QED
          BY <1>3, <4>2 DEF q
      <3>5. QED
        BY <1>3, <3>1, <3>3, <3>4 DEF q
    <2>10. QED
      BY <2>8, <2>9
  <1>8. QED
    BY <1>5, <1>7

\* Where the loop ends
LEMMA LoopCovers ==
  ASSUME NEW s \in Segments, NEW path \in Text
  PROVE  MatchSegments(s, path) \in Covered(s, path, Len(s))
  <1> DEFINE I == [k \in 0..Len(s) |-> Covered(s, path, k)]
  <1>1. Len(s) \in Nat
    BY DEF Segments
  <1>2. MatchStart(path) \in I[0]
    BY <1>1, CoveredStart
  <1>3. ASSUME NEW k \in 1..Len(s), NEW m \in I[k - 1] PROVE ReadSegment(m, s[k]) \in I[k]
    <2>1. k \in 0..Len(s) /\ k - 1 \in 0..Len(s)
      BY <1>1
    <2>2. PICK j \in Nat : j = k - 1 /\ j + 1 = k /\ j + 1 <= Len(s)
      BY <1>1
    <2>3. m \in Covered(s, path, j)
      BY <2>1, <2>2
    <2>4. ReadSegment(m, s[j + 1]) \in Covered(s, path, j + 1)
      BY <2>2, <2>3, CoveredStep
    <2>5. QED
      BY <2>1, <2>2, <2>4
  <1>4. I[Len(s)] = Covered(s, path, Len(s))
    BY <1>1
  <1> HIDE DEF I
  <1>5. s \in Seq(Segment)
    BY DEF Segments
  <1>6. Matching!Fold(MatchStart(path), s) \in I[Len(s)]
    BY <1>2, <1>3, <1>5, Matching!FoldInvariant
  <1>7. QED
    BY <1>4, <1>6, MatchFold

-----------------------------------------------------------------------------
(* A path made of the pattern is read to its end *)

MadeOf(s, values, path) ==
  /\ s \in Segments /\ WellFormed(s) /\ path \in Text
  /\ \A j \in 1..PlaceholderCount(s) : values[j] \in Text /\ ValueOK(values[j])
  /\ Filled(s, values) = path

Kept(s, values, path, k) ==
  {m \in MatchState : /\ ~m.left /\ ~m.empty
                      /\ Len(m.dict) = PlaceholderCount(Up(s, k))
                      /\ Filled(Up(s, k), values) \o m.rest = path}

\* A turn that takes text leaves the loop running.
LEMMA TurnKeeps ==
  ASSUME NEW m \in MatchState, NEW r, NEW name, NEW v, ~m.left, ~m.empty
  PROVE  /\ ~Took(m, r).left /\ ~Took(m, r).empty
         /\ ~TookValue(m, r, name, v).left /\ ~TookValue(m, r, name, v).empty
  BY DEF MatchState, Took, TookValue

\* Two fronts of the same length are the same.
LEMMA SameFront ==
  ASSUME NEW x \in Text, NEW y \in Text, NEW z \in Text, NEW w \in Text,
         x \o y = z \o w, Len(x) = Len(z)
  PROVE  x = z
  <1>1. x \in Seq(Char) /\ y \in Seq(Char) /\ z \in Seq(Char) /\ w \in Seq(Char)
    BY DEF Text
  <1>2. \A i \in 1..Len(x) : (x \o y)[i] = x[i]
    BY <1>1
  <1>3. \A i \in 1..Len(z) : (z \o w)[i] = z[i]
    BY <1>1
  <1>4. \A i \in 1..Len(x) : x[i] = z[i]
    BY <1>2, <1>3
  <1>5. QED
    BY <1>1, <1>4

\* Where the pattern goes on, the path does with the same text.
LEMMA GoesOn ==
  ASSUME NEW s, NEW values, NEW path, MadeOf(s, values, path), NEW j \in Nat, j + 1 <= Len(s)
  PROVE  /\ Filled(Up(s, j), values) \in Text /\ Part(s, values, j + 1) \in Text
         /\ Filled(Up(s, j + 1), values) = Filled(Up(s, j), values) \o Part(s, values, j + 1)
         /\ Filled(Up(s, j + 1), values) \in Text
         /\ IsPlaceholder(s[j + 1]) => ValueOK(Part(s, values, j + 1))
  <1>1. s \in Segments
    BY DEF MadeOf
  <1>2. j + 1 \in 0..Len(s) /\ j \in 0..Len(s)
    BY <1>1 DEF Segments
  <1>3. /\ PlaceholderCount(Up(s, j + 1)) \in Nat /\ PlaceholderCount(s) \in Nat
        /\ PlaceholderCount(Up(s, j)) \in Nat
        /\ PlaceholderCount(Up(s, j + 1)) <= PlaceholderCount(s)
    <2>1. PlaceholderCount(s) \in Nat
      BY <1>1, CountAppend
    <2>2. QED
      BY <1>1, <1>2, <2>1, CountUp
  <1>4. ValuesFor(values, PlaceholderCount(Up(s, j + 1)))
    BY <1>3 DEF ValuesFor, MadeOf
  <1>5. /\ Filled(Up(s, j), values) \in Text /\ Part(s, values, j + 1) \in Text
        /\ Filled(Up(s, j + 1), values) = Filled(Up(s, j), values) \o Part(s, values, j + 1)
    BY <1>1, <1>4, FilledStep
  <1>6. Filled(Up(s, j + 1), values) \in Text
    BY <1>5, TextJoin
  <1>7. ASSUME IsPlaceholder(s[j + 1]) PROVE ValueOK(Part(s, values, j + 1))
    <2>1. PlaceholderCount(Up(s, j + 1)) = PlaceholderCount(Up(s, j)) + 1
      BY <1>1, <1>7, CountStep
    <2>2. PlaceholderCount(Up(s, j + 1)) \in 1..PlaceholderCount(s)
      BY <1>3, <2>1
    <2>3. QED
      BY <1>7, <2>2 DEF MadeOf, Part
  <1>8. QED
    BY <1>5, <1>6, <1>7

\* Behind a placeholder's value comes nothing or a slash.
LEMMA ValueEnds ==
  ASSUME NEW s, NEW values, NEW path, MadeOf(s, values, path), NEW j \in Nat, j + 1 <= Len(s),
         IsPlaceholder(s[j + 1]), NEW r \in Text, path = Filled(Up(s, j + 1), values) \o r
  PROVE  r = << >> \/ r[1] = "/"
  <1>1. s \in Segments /\ path \in Text /\ Len(s) \in Nat
    BY DEF MadeOf, Segments
  <1>2. PICK f \in Text : f = Filled(Up(s, j + 1), values)
    BY GoesOn
  <1>3. CASE j + 1 = Len(s)
    <2>1. f = path
      BY <1>1, <1>2, <1>3, UpEnds DEF MadeOf, Segments
    <2>2. path \o << >> = path /\ << >> \in Text
      BY <1>1, TextCat
    <2>3. path \o r = path \o << >>
      BY <1>2, <2>1, <2>2
    <2>4. r = << >>
      BY <1>1, <2>2, <2>3, TextCancel
    <2>5. QED
      BY <2>4
  <1>4. CASE j + 1 # Len(s)
    <2>1. j + 1 \in Nat /\ j + 1 + 1 <= Len(s) /\ j + 1 + 1 \in 0..Len(s) /\ j + 1 + 1 \in 2..Len(s)
          /\ j + 1 + 1 - 1 = j + 1 /\ j + 1 + 1 \in 1..Len(s)
      BY <1>1, <1>4
    <2>2. PICK i \in Nat : i = j + 1
      BY <2>1
    <2>3. ~IsPlaceholder(s[i + 1]) /\ s[i + 1].data[1] = "/" /\ s[i + 1].data # << >>
      <3>1. i + 1 \in 2..Len(s) /\ i + 1 - 1 = i /\ IsPlaceholder(s[i]) /\ i + 1 \in DOMAIN s
        BY <1>1, <2>1, <2>2 DEF Segments
      <3>2. ~IsPlaceholder(s[i + 1])
        BY <3>1 DEF MadeOf, WellFormed
      <3>3. QED
        BY <3>1, <3>2 DEF MadeOf, WellFormed
    <2>4. PICK d \in Text : d = Part(s, values, i + 1)
      BY <2>1, <2>2, GoesOn
    <2>5. d[1] = "/" /\ d # << >>
      BY <2>3, <2>4 DEF Part
    <2>6. Filled(Up(s, i + 1), values) = f \o d
      BY <1>2, <2>1, <2>2, <2>4, GoesOn
    <2>7. PICK w \in Text : path = Filled(Up(s, i + 1), values) \o w
      <3>1. ValuesFor(values, PlaceholderCount(s))
        BY DEF ValuesFor, MadeOf
      <3>2. i + 1 \in 0..Len(s) /\ Filled(s, values) = path
        BY <2>1, <2>2 DEF MadeOf
      <3>3. QED
        BY <1>1, <3>1, <3>2, FilledSplit
    <2>8. path = f \o (d \o w) /\ d \o w \in Text
      <3>1. (f \o d) \o w = f \o (d \o w) /\ d \o w \in Text
        BY TextAssoc, TextJoin
      <3>2. QED
        BY <2>6, <2>7, <3>1
    <2>9. r = d \o w
      BY <1>2, <2>8, TextCancel
    <2>10. (d \o w)[1] = d[1]
      <3>1. d \in Seq(Char) /\ w \in Seq(Char)
        BY DEF Text
      <3>2. QED
        BY <2>5, <3>1
    <2>11. QED
      BY <2>5, <2>9, <2>10
  <1>5. QED
    BY <1>3, <1>4

\* Each turn takes the part of the path that stands for its segment.
LEMMA KeptStep ==
  ASSUME NEW s, NEW values, NEW path, MadeOf(s, values, path), NEW j \in Nat, j + 1 <= Len(s),
         NEW m \in Kept(s, values, path, j)
  PROVE  ReadSegment(m, s[j + 1]) \in Kept(s, values, path, j + 1)
  <1>1. s \in Segments /\ path \in Text /\ j + 1 \in 0..Len(s) /\ j + 1 \in 1..Len(s)
    BY DEF MadeOf, Segments
  <1>2. /\ m \in MatchState /\ ~m.left /\ ~m.empty
        /\ Len(m.dict) = PlaceholderCount(Up(s, j))
        /\ Filled(Up(s, j), values) \o m.rest = path
    BY DEF Kept
  <1>3. PICK e \in Segment, t \in Text, d \in Seq(Text \X Text) :
          e = s[j + 1] /\ t = m.rest /\ d = m.dict
    BY <1>1, <1>2, SegmentAt DEF MatchState
  <1>4. PICK f \in Text, p \in Text :
          f = Filled(Up(s, j), values) /\ p = Part(s, values, j + 1)
    BY GoesOn
  <1>5. Filled(Up(s, j + 1), values) = f \o p
    BY <1>4, GoesOn
  <1>6. PICK w \in Text : path = Filled(Up(s, j + 1), values) \o w
    <2>1. ValuesFor(values, PlaceholderCount(s)) /\ Filled(s, values) = path
      BY DEF ValuesFor, MadeOf
    <2>2. QED
      BY <1>1, <2>1, FilledSplit
  <1>7. t = p \o w
    <2>1. path = f \o (p \o w) /\ p \o w \in Text
      <3>1. (f \o p) \o w = f \o (p \o w) /\ p \o w \in Text
        BY TextAssoc, TextJoin
      <3>2. QED
        BY <1>5, <1>6, <3>1
    <2>2. f \o t = path
      BY <1>2, <1>3, <1>4
    <2>3. PICK z \in Text : z = p \o w
      BY <2>1
    <2>4. f \o t = f \o z
      BY <2>1, <2>2, <2>3
    <2>5. t = z
      BY <2>4, TextCancel
    <2>6. QED
      BY <2>3, <2>5
  \* What is left is right.
  <1>8. ASSUME NEW q \in MatchState, ~q.left, ~q.empty, NEW r \in Text, q.rest = r, t = p \o r,
               Len(q.dict) = PlaceholderCount(Up(s, j + 1))
        PROVE  q \in Kept(s, values, path, j + 1)
    <2>1. (f \o p) \o r = f \o (p \o r)
      BY TextAssoc
    <2>2. Filled(Up(s, j + 1), values) \o r = path
      BY <1>2, <1>3, <1>4, <1>5, <1>8, <2>1
    <2>3. QED
      BY <1>8, <2>2 DEF Kept
  <1>9. CASE ~IsPlaceholder(e)
    <2>1. p = e.data /\ PlaceholderCount(Up(s, j + 1)) = PlaceholderCount(Up(s, j))
      BY <1>1, <1>3, <1>4, <1>9, CountStep DEF Part
    <2>2. \E r \in Text : m.rest = e.data \o r
      BY <1>3, <1>7, <2>1
    <2>3. PICK r \in Text : m.rest = e.data \o r /\ ReadSegment(m, e) = Took(m, r)
      BY <1>2, <1>9, <2>2, ReadExact
    <2>4. /\ Took(m, r) \in MatchState /\ Took(m, r).rest = r /\ Took(m, r).dict = m.dict
          /\ ~Took(m, r).left /\ ~Took(m, r).empty
      BY <1>2, TurnTypes, TurnKeeps
    <2>5. t = p \o r
      BY <1>3, <2>1, <2>3
    <2>6. Took(m, r) \in Kept(s, values, path, j + 1)
      BY <1>2, <1>8, <2>1, <2>4, <2>5
    <2>7. QED
      BY <1>3, <2>3, <2>6
  <1>10. CASE IsPlaceholder(e)
    <2>1. ValueOK(p) /\ PlaceholderCount(Up(s, j + 1)) = PlaceholderCount(Up(s, j)) + 1
      BY <1>1, <1>3, <1>4, <1>10, CountStep, GoesOn
    <2>2. w = << >> \/ w[1] = "/"
      BY <1>3, <1>6, <1>10, ValueEnds
    <2>3. ValueLength(t) = Len(p)
      BY <1>7, <2>1, <2>2, ValueLengthOf DEF ValueOK
    <2>4. Len(p) # 0
      <3>1. p \in Seq(Char) /\ p # << >>
        BY <2>1 DEF Text, ValueOK
      <3>2. QED
        BY <3>1
    <2>5. PICK v \in Text, r \in Text :
            /\ m.rest = v \o r /\ Len(v) = ValueLength(m.rest)
            /\ ReadSegment(m, e) = TookValue(m, r, e.data, v)
      BY <1>2, <1>3, <1>10, <2>3, <2>4, ReadPlaceholder
    <2>6. v = p /\ t = p \o r
      <3>1. v \o r = p \o w /\ Len(v) = Len(p)
        BY <1>3, <1>7, <2>3, <2>5
      <3>2. v = p
        BY <3>1, SameFront
      <3>3. QED
        BY <1>3, <2>5, <3>2
    <2>7. PICK a \in Text : a = e.data
      BY DEF Segment
    <2>8. /\ TookValue(m, r, a, v) \in MatchState /\ TookValue(m, r, a, v).rest = r
          /\ TookValue(m, r, a, v).dict = With(d, a, v)
      BY <1>2, <1>3, TookValueIs
    <2>9. ~TookValue(m, r, a, v).left /\ ~TookValue(m, r, a, v).empty
      BY <1>2, TurnKeeps
    <2>10. Len(With(d, a, v)) = Len(d) + 1
      BY DictAppend
    <2>11. TookValue(m, r, a, v) \in Kept(s, values, path, j + 1)
      BY <1>2, <1>3, <1>8, <2>1, <2>6, <2>8, <2>9, <2>10
    <2>12. QED
      BY <1>3, <2>5, <2>7, <2>11
  <1>11. QED
    BY <1>9, <1>10

\* The loop of a path made of the pattern takes all of it.
LEMMA LoopKeeps ==
  ASSUME NEW s, NEW values, NEW path, MadeOf(s, values, path)
  PROVE  LET m == MatchSegments(s, path) IN
         m.rest = <<>> /\ ~m.empty /\ Len(m.dict) = PlaceholderCount(s)
  <1> DEFINE I == [k \in 0..Len(s) |-> Kept(s, values, path, k)]
  <1>1. s \in Seq(Segment) /\ s \in Segments /\ Len(s) \in Nat /\ path \in Text
    BY DEF MadeOf, Segments
  <1>2. MatchStart(path) \in I[0]
    <2>1. MatchStart(path) \in MatchState
      BY <1>1 DEF MatchStart, MatchState
    <2>2. Up(s, 0) = << >> /\ Filled(Up(s, 0), values) = << >> /\ PlaceholderCount(<< >>) = 0
      BY <1>1, UpEnds, FilledNone, CountAppend
    <2>3. /\ MatchStart(path).rest = path /\ MatchStart(path).dict = << >>
          /\ ~MatchStart(path).left /\ ~MatchStart(path).empty /\ Len(<< >>) = 0
      BY DEF MatchStart
    <2>4. << >> \o path = path
      BY <1>1, TextCat
    <2>5. MatchStart(path) \in Kept(s, values, path, 0)
      BY <2>1, <2>2, <2>3, <2>4 DEF Kept
    <2>6. QED
      BY <1>1, <2>5
  <1>3. ASSUME NEW k \in 1..Len(s), NEW m \in I[k - 1] PROVE ReadSegment(m, s[k]) \in I[k]
    <2>1. k \in 0..Len(s) /\ k - 1 \in 0..Len(s)
      BY <1>1
    <2>2. PICK j \in Nat : j = k - 1 /\ j + 1 = k /\ j + 1 <= Len(s)
      BY <1>1
    <2>3. m \in Kept(s, values, path, j)
      BY <2>1, <2>2
    <2>4. ReadSegment(m, s[j + 1]) \in Kept(s, values, path, j + 1)
      BY <2>2, <2>3, KeptStep
    <2>5. QED
      BY <2>1, <2>2, <2>4
  <1>4. I[Len(s)] = Kept(s, values, path, Len(s))
    BY <1>1
  <1> HIDE DEF I
  <1>5. Matching!Fold(MatchStart(path), s) \in I[Len(s)]
    BY <1>1, <1>2, <1>3, Matching!FoldInvariant
  <1>6. PICK m \in Kept(s, values, path, Len(s)) : m = MatchSegments(s, path)
    BY <1>4, <1>5, MatchFold
  <1>7. /\ m \in MatchState /\ ~m.left /\ ~m.empty
        /\ Len(m.dict) = PlaceholderCount(s)
        /\ path \o m.rest = path
    <2>1. Up(s, Len(s)) = s /\ Filled(s, values) = path
      BY <1>1, UpEnds DEF MadeOf
    <2>2. QED
      BY <2>1 DEF Kept
  <1>8. m.rest = << >>
    <2>1. PICK t \in Text : t = m.rest
      BY <1>7 DEF MatchState
    <2>2. path \o << >> = path /\ << >> \in Text
      BY <1>1, TextCat
    <2>3. t = << >>
      BY <1>1, <1>7, <2>1, <2>2, TextCancel
    <2>4. QED
      BY <2>1, <2>3
  <1>9. QED
    BY <1>6, <1>7, <1>8

-----------------------------------------------------------------------------
(* The joined methods *)

\* s stands in t behind the first o characters.
Occurs(s, t, o) ==
  /\ o \in Nat /\ o + Len(s) <= Len(t)
  /\ \A i \in 1..Len(s) : t[o + i] = s[i]

\* n characters behind the first o
LEMMA SubSeqIs ==
  ASSUME NEW t \in Text, NEW o \in Nat, NEW n \in Nat, o + n <= Len(t)
  PROVE  /\ SubSeq(t, o + 1, o + n) \in Text /\ Len(SubSeq(t, o + 1, o + n)) = n
         /\ \A i \in 1..n : SubSeq(t, o + 1, o + n)[i] = t[o + i]
  <1>1. t \in Seq(Char) /\ Len(t) \in Nat
    BY DEF Text
  <1>2. PICK u : u = SubSeq(t, o + 1, o + n)
    OBVIOUS
  <1>3. u \in Seq(Char) /\ Len(u) = n
    BY <1>1, <1>2
  <1>4. ASSUME NEW i \in 1..n PROVE u[i] = t[o + i]
    <2>1. o + 1 + i - 1 = o + i
      OBVIOUS
    <2>2. u[i] = t[o + 1 + i - 1]
      BY <1>1, <1>2
    <2>3. QED
      BY <2>1, <2>2
  <1>5. QED
    BY <1>2, <1>3, <1>4 DEF Text

\* The first l characters are a text.
LEMMA PrefixText ==
  ASSUME NEW t \in Text, NEW l \in 0..Len(t)
  PROVE  \E u \in Text : u = SubSeq(t, 1, l) /\ Len(u) = l /\ \A i \in 1..l : u[i] = t[i]
  <1>1. t \in Seq(Char) /\ Len(t) \in Nat
    BY DEF Text
  <1>2. PICK u : u = SubSeq(t, 1, l)
    OBVIOUS
  <1>3. u \in Seq(Char) /\ Len(u) = l /\ \A i \in 1..l : u[i] = t[i]
    BY <1>1, <1>2
  <1>4. QED
    BY <1>2, <1>3 DEF Text

\* Texts with the same characters are the same.
LEMMA SameText ==
  ASSUME NEW x \in Text, NEW y \in Text, Len(x) = Len(y), \A i \in 1..Len(x) : x[i] = y[i]
  PROVE  x = y
  BY DEF Text

\* A text that stands in another is one of its parts.
LEMMA OccursIsSubSeq ==
  ASSUME NEW s \in Text, NEW t \in Text, NEW o, Occurs(s, t, o)
  PROVE  s \in SubSeqs(t)
  <1>1. o \in Nat /\ Len(s) \in Nat /\ Len(t) \in Nat /\ o + Len(s) <= Len(t)
    BY DEF Occurs, Text
  <1>2. PICK n \in Nat : n = Len(s)
    BY <1>1
  <1>3. PICK u \in Text : /\ u = SubSeq(t, o + 1, o + n) /\ Len(u) = n
                          /\ \A i \in 1..n : u[i] = t[o + i]
    BY <1>1, <1>2, SubSeqIs
  <1>4. s = u
    BY <1>2, <1>3, SameText DEF Occurs
  <1>5. o \in 0..Len(t) /\ o + n \in 0..Len(t)
    BY <1>1, <1>2
  <1>6. SubSeq(t, o + 1, o + n) \in SubSeqs(t)
    BY <1>5 DEF SubSeqs
  <1>7. QED
    BY <1>3, <1>4, <1>6

\* A text that is not empty and part of the first l characters ends at some b <= l.
LEMMA SubSeqEnds ==
  ASSUME NEW s \in Text, s # <<>>, NEW t \in Text, NEW l \in 0..Len(t),
         s \in SubSeqs(SubSeq(t, 1, l))
  PROVE  \E b \in Len(s)..l : Occurs(s, t, b - Len(s))
  <1>1. Len(t) \in Nat /\ l \in Nat /\ 0 + l <= Len(t) /\ 0 + 1 = 1 /\ 0 + l = l
    BY DEF Text
  <1>2. PICK u \in Text : /\ u = SubSeq(t, 1, l) /\ Len(u) = l
                          /\ \A i \in 1..l : u[i] = t[i]
    BY PrefixText
  <1>3. PICK a \in 0..l, b \in 0..l : s = SubSeq(u, a + 1, b)
    <2>1. s \in SubSeqs(u)
      BY <1>2
    <2>2. \E i, j \in 0..Len(u) : s = SubSeq(u, i + 1, j)
      BY <2>1 DEF SubSeqs
    <2>3. QED
      BY <1>2, <2>2
  <1>4. Len(s) \in Nat /\ Len(s) # 0
    <2>1. s \in Seq(Char)
      BY DEF Text
    <2>2. QED
      BY <2>1
  <1>5. a < b
    <2>1. SUFFICES ASSUME ~(a < b) PROVE FALSE
      OBVIOUS
    <2>2. u \in Seq(Char)
      BY DEF Text
    <2>3. SubSeq(u, a + 1, b) = << >>
      BY <1>1, <1>3, <2>1, <2>2
    <2>4. QED
      BY <1>3, <2>3
  <1>6. PICK n \in Nat : n = b - a /\ b = a + n
    <2>1. b - a \in Nat /\ b = a + (b - a)
      BY <1>5
    <2>2. QED
      BY <2>1
  <1>7. Len(s) = n /\ \A i \in 1..n : s[i] = u[a + i]
    <2>1. a \in Nat /\ a + n <= Len(u)
      BY <1>2, <1>3, <1>6
    <2>2. QED
      BY <1>3, <1>6, <2>1, SubSeqIs
  <1>8. ASSUME NEW i \in 1..n PROVE t[a + i] = s[i]
    <2>1. a + i \in 1..l
      BY <1>6
    <2>2. QED
      BY <1>2, <1>7, <2>1
  <1>9. Occurs(s, t, a)
    <2>1. a \in Nat /\ a + n <= Len(t)
      BY <1>1, <1>6
    <2>2. QED
      BY <1>7, <1>8, <2>1 DEF Occurs
  <1>10. b - Len(s) = a /\ b \in Len(s)..l
    BY <1>6, <1>7
  <1>11. QED
    BY <1>9, <1>10

\* memmem: the first place is one.
LEMMA FirstOccurs ==
  ASSUME NEW s \in Text, s # <<>>, NEW t \in Text, s \in SubSeqs(t)
  PROVE  \E o \in Nat : Occurs(s, t, o) /\ IndexFirstSubSeq(s, t) = o + 1
  <1>1. Len(t) \in Nat /\ Len(s) \in Nat /\ Len(t) \in 0..Len(t)
    BY DEF Text
  <1> DEFINE In(i) == s \in SubSeqs(SubSeq(t, 1, i))
             T == {i \in 0..Len(t) : In(i)}
             last == CHOOSE i \in 0..Len(t) :
                       s \in SubSeqs(SubSeq(t, 1, i))
                         /\ \A j \in 0..i-1 : s \notin SubSeqs(SubSeq(t, 1, j))
  <1>2. SubSeq(t, 1, Len(t)) = t
    BY DEF Text
  <1>3. Len(t) \in T
    BY <1>1, <1>2
  <1>4. \E x \in T : \A y \in T : x <= y
    <2>1. T \subseteq Nat /\ T # {}
      BY <1>1, <1>3
    <2> HIDE DEF T
    <2>2. QED
      BY <2>1, Naming!LeastElement
  <1>5. \E i \in 0..Len(t) : In(i) /\ \A j \in 0..i-1 : ~In(j)
    <2>1. PICK x \in T : \A y \in T : x <= y
      BY <1>4
    <2>2. x \in 0..Len(t) /\ In(x)
      BY <2>1
    <2>3. ASSUME NEW j \in 0..x-1, In(j) PROVE FALSE
      <3>1. j \in 0..Len(t) /\ j < x
        BY <1>1, <2>2
      <3>2. j \in T
        BY <2>3, <3>1
      <3>3. x <= j
        BY <2>1, <3>2
      <3> HIDE DEF T, In
      <3>4. QED
        BY <2>2, <3>1, <3>3
    <2> HIDE DEF In
    <2>4. QED
      BY <2>2, <2>3
  <1>6. last \in 0..Len(t) /\ In(last) /\ \A j \in 0..last-1 : ~In(j)
    BY <1>5
  <1>7. IndexFirstSubSeq(s, t) = last - (Len(s) - 1)
    BY DEF IndexFirstSubSeq
  <1> HIDE DEF last
  <1>8. PICK b \in Len(s)..last : Occurs(s, t, b - Len(s))
    BY <1>6, SubSeqEnds
  <1>9. b \in Nat /\ last \in Nat /\ b <= last /\ b \in 0..Len(t)
    BY <1>1, <1>6
  <1>10. PICK n \in Nat, o \in Nat : n = Len(s) /\ o = b - Len(s) /\ b = o + n
    BY <1>1, <1>8, <1>9
  <1>11. In(b)
    <2>3. PICK u \in Text : u = SubSeq(t, 1, b) /\ Len(u) = b /\ \A i \in 1..b : u[i] = t[i]
      BY <1>9, PrefixText
    <2>4. \A i \in 1..n : o + i \in 1..b
      BY <1>10
    <2>5. \A i \in 1..n : t[o + i] = s[i]
      BY <1>8, <1>10 DEF Occurs
    <2>6. o + n <= b
      BY <1>10
    <2>7. Occurs(s, u, o)
      BY <1>10, <2>3, <2>4, <2>5, <2>6 DEF Occurs
    <2>8. QED
      BY <2>3, <2>7, OccursIsSubSeq
  <1>12. b = last
    <2>1. SUFFICES ASSUME b # last PROVE FALSE
      OBVIOUS
    <2>2. b \in 0..last-1
      BY <1>9, <2>1
    <2> HIDE DEF In
    <2>3. QED
      BY <1>6, <1>11, <2>2
  <1>13. last - (Len(s) - 1) = o + 1
    BY <1>10, <1>12
  <1>14. QED
    BY <1>7, <1>8, <1>10, <1>13

WithSpaces(words) == [i \in DOMAIN words |-> Append(words[i], " ")]

Words(words) == words \in Seq(Text) /\ \A i \in 1..Len(words) : IsToken(words[i])

\* A word with its space
LEMMA SpacedWord ==
  ASSUME NEW words, Words(words), NEW i \in 1..Len(words)
  PROVE  /\ words[i] \in Text /\ WithSpaces(words)[i] \in Text
         /\ Len(words[i]) \in Nat /\ Len(WithSpaces(words)[i]) = Len(words[i]) + 1
         /\ \A j \in 1..Len(words[i]) : /\ WithSpaces(words)[i][j] = words[i][j]
                                        /\ words[i][j] # Space
         /\ WithSpaces(words)[i][Len(words[i]) + 1] = Space
  <1>1. words \in Seq(Text) /\ i \in DOMAIN words
    BY DEF Words
  <1>2. PICK w \in Seq(Char) : w = words[i] /\ IsToken(w)
    BY <1>1 DEF Text, Words
  <1>3. WithSpaces(words)[i] = Append(w, Space)
    BY <1>1, <1>2, Zenon DEF WithSpaces, Space
  <1>4. Space \in Char
    BY Zenon DEF Char, Space
  <1>40. Append(w, Space) \in Seq(Char)
    BY <1>4
  <1>5. PICK z \in Seq(Char) : z = Append(w, Space)
    BY <1>40
  <1>6. /\ Len(z) = Len(w) + 1 /\ Len(w) \in Nat /\ z[Len(w) + 1] = Space
        /\ \A j \in 1..Len(w) : z[j] = w[j]
    BY <1>40, <1>5
  <1>7. \A j \in 1..Len(w) : w[j] # Space
    BY <1>2, TokenIs
  <1>8. QED
    BY <1>2, <1>3, <1>40, <1>5, <1>6, <1>7 DEF Text

\* The words with their spaces are a text.
LEMMA JoinedWords ==
  ASSUME NEW words, Words(words)
  PROVE  /\ WithSpaces(words) \in Seq(Text) /\ Len(WithSpaces(words)) = Len(words)
         /\ Len(words) \in Nat
         /\ FlattenSeq(WithSpaces(words)) \in Text
  <1>1. words \in Seq(Text) /\ DOMAIN words = 1..Len(words) /\ Len(words) \in Nat
    BY DEF Words
  <1>2. \A i \in 1..Len(words) : WithSpaces(words)[i] \in Text
    BY SpacedWord
  <1>3. DOMAIN WithSpaces(words) = 1..Len(words)
    BY <1>1 DEF WithSpaces
  <1>4. WithSpaces(words) = [i \in 1..Len(words) |-> WithSpaces(words)[i]]
    BY <1>1 DEF WithSpaces
  <1>5. WithSpaces(words) \in Seq(Text) /\ Len(WithSpaces(words)) = Len(words)
    <2>1. PICK g : g = WithSpaces(words)
      OBVIOUS
    <2>2. g = [i \in 1..Len(words) |-> g[i]] /\ \A i \in 1..Len(words) : g[i] \in Text
      BY <1>2, <1>4, <2>1
    <2>3. g \in Seq(Text) /\ Len(g) = Len(words)
      BY <1>1, <2>2
    <2>4. QED
      BY <2>1, <2>3
  <1>6. QED
    BY <1>1, <1>5, FlattenType DEF Text

\* A token found in the joined words stands inside one of them, and a space
\* follows when it stands at its end.
LEMMA InsideOneWord ==
  ASSUME NEW words, Words(words), NEW s, IsToken(s), s # <<>>,
         NEW o \in Nat, Occurs(s, FlattenSeq(WithSpaces(words)), o)
  PROVE  \E b \in 1..Len(words) : \E p \in Nat :
           /\ Occurs(s, words[b], p)
           /\ p + Len(s) = Len(words[b]) <=> FlattenSeq(WithSpaces(words))[o + 1 + Len(s)] = Space
  <1>1. PICK t \in Text : t = FlattenSeq(WithSpaces(words))
    BY JoinedWords
  <1>2. PICK n \in Nat : n = Len(words) /\ n = Len(WithSpaces(words))
    BY JoinedWords
  <1>3. PICK ends : Layout(ends, WithSpaces(words), t)
    <2>1. WithSpaces(words) \in Seq(Seq(Char))
      BY JoinedWords DEF Text
    <2>2. QED
      BY <1>1, <2>1, FlattenLayout
  <1>4. /\ ends \in [0..n -> Nat] /\ ends[0] = 0 /\ Len(t) = ends[n]
        /\ \A k \in 1..n : /\ ends[k] = ends[k - 1] + Len(WithSpaces(words)[k])
                           /\ \A i \in 1..Len(WithSpaces(words)[k]) :
                                t[ends[k - 1] + i] = WithSpaces(words)[k][i]
    BY <1>2, <1>3 DEF Layout
  <1>40. /\ ends[0] = 0 /\ ends[n] = Len(t) /\ \A k \in 0..n : ends[k] \in Nat
    BY <1>4
  <1>5. PICK l \in Nat : l = Len(s) /\ l # 0
    <2>1. s \in Seq(Char) /\ s # << >>
      BY TokenIs DEF Text
    <2>2. QED
      BY <2>1
  <1>60. PICK f \in Nat : f = ends[n] /\ f = Len(t)
    BY <1>40
  <1>6. o \in Nat /\ o + l <= f /\ \A i \in 1..l : t[o + i] = s[i] /\ s[i] # Space
    BY <1>1, <1>5, <1>60, TokenIs DEF Occurs
  <1> DEFINE T == {k \in 1..n : o < ends[k]}
  <1>7. T \subseteq Nat /\ T # {}
    <2>1. n # 0
      BY <1>40, <1>5, <1>6, <1>60
    <2>2. n \in 1..n
      BY <2>1
    <2>3. o < f
      BY <1>5, <1>6, <1>60
    <2>4. n \in T
      BY <1>60, <2>2, <2>3
    <2>5. QED
      BY <2>4
  <1>8. PICK b \in T : \A y \in T : b <= y
    <2> HIDE DEF T
    <2>1. QED
      BY <1>7, Naming!LeastElement
  <1>9. b \in 1..n /\ o < ends[b] /\ b \in Nat
    OBVIOUS
  <1>10. PICK c \in Nat, e \in Nat : c = ends[b - 1] /\ e = ends[b]
    <2>1. b - 1 \in 0..n /\ b \in 0..n
      BY <1>9
    <2>2. QED
      BY <1>40, <2>1
  <1>11. c <= o
    <2>1. CASE b = 1
      <3>1. c = 0
        BY <1>40, <1>10, <2>1
      <3>2. QED
        BY <1>6, <3>1
    <2>2. CASE b # 1
      <3>1. b - 1 \in 1..n /\ b - 1 < b
        BY <1>9, <2>2
      <3>2. b - 1 \notin T
        <4>1. SUFFICES ASSUME b - 1 \in T PROVE FALSE
          OBVIOUS
        <4>2. b <= b - 1
          BY <1>8, <4>1
        <4>3. QED
          BY <1>9, <4>2
      <3>3. ~(o < ends[b - 1])
        BY <3>1, <3>2
      <3>4. QED
        BY <1>6, <1>10, <3>3
    <2>3. QED
      BY <2>1, <2>2
  <1> HIDE DEF T
  <1>12. PICK w \in Text, z \in Text, m \in Nat :
           /\ w = words[b] /\ z = WithSpaces(words)[b] /\ m = Len(w)
           /\ Len(z) = m + 1 /\ z[m + 1] = Space
           /\ \A j \in 1..m : z[j] = w[j] /\ w[j] # Space
    <2>1. b \in 1..Len(words)
      BY <1>2, <1>9
    <2>2. /\ words[b] \in Text /\ WithSpaces(words)[b] \in Text
          /\ Len(words[b]) \in Nat /\ Len(WithSpaces(words)[b]) = Len(words[b]) + 1
          /\ \A j \in 1..Len(words[b]) : /\ WithSpaces(words)[b][j] = words[b][j]
                                         /\ words[b][j] # Space
          /\ WithSpaces(words)[b][Len(words[b]) + 1] = Space
      BY <2>1, SpacedWord
    <2>3. QED
      BY <2>2
  <1>13. e = c + (m + 1) /\ \A i \in 1..(m + 1) : t[c + i] = z[i]
    BY <1>4, <1>9, <1>10, <1>12
  <1>14. PICK p \in Nat : p = o - c /\ o = c + p
    <2>0. o \in Nat
      BY <1>6
    <2>1. o - c \in Nat /\ o = c + (o - c)
      BY <1>11, <2>0
    <2>2. QED
      BY <2>1
  <1>15. p + l <= m
    <2>1. SUFFICES ASSUME ~(p + l <= m) PROVE FALSE
      OBVIOUS
    <2>2. o < e /\ p < m + 1
      BY <1>9, <1>10, <1>13, <1>14
    <2>3. PICK i \in 1..l : p + i = m + 1
      <3>1. m + 1 - p \in 1..l /\ p + (m + 1 - p) = m + 1
        BY <2>1, <2>2
      <3>2. QED
        BY <3>1
    <2>4. o + i = c + (m + 1) /\ m + 1 \in 1..(m + 1)
      BY <1>14, <2>3
    <2>5. t[o + i] = Space
      BY <1>12, <1>13, <2>4
    <2>6. QED
      BY <1>6, <2>5
  <1>16. ASSUME NEW i \in 1..l PROVE w[p + i] = s[i]
    <2>1. p + i \in 1..m /\ p + i \in 1..(m + 1) /\ o + i = c + (p + i)
      BY <1>14, <1>15
    <2>2. t[o + i] = z[p + i]
      BY <1>13, <2>1
    <2>3. QED
      BY <1>6, <1>12, <2>1, <2>2
  <1>17. Occurs(s, w, p)
    BY <1>5, <1>12, <1>15, <1>16 DEF Occurs
  <1>18. p + l = m <=> t[o + 1 + l] = Space
    <2>1. PICK q \in 1..(m + 1) : q = p + l + 1 /\ o + 1 + l = c + q
      <3>1. p + l + 1 \in 1..(m + 1) /\ o + 1 + l = c + (p + l + 1)
        BY <1>14, <1>15
      <3>2. QED
        BY <3>1
    <2>2. t[o + 1 + l] = z[q]
      BY <1>13, <2>1
    <2>3. CASE q = m + 1
      BY <1>12, <2>1, <2>2, <2>3
    <2>4. CASE q # m + 1
      <3>1. q \in 1..m
        BY <2>4
      <3>2. z[q] # Space
        BY <1>12, <3>1
      <3>3. p + l # m
        BY <2>1, <2>4
      <3>4. QED
        BY <2>2, <3>2, <3>3
    <2>5. QED
      BY <2>3, <2>4
  <1>19. QED
    BY <1>1, <1>2, <1>5, <1>9, <1>12, <1>17, <1>18

\* Each word is found in the joined words.
LEMMA WordIsJoined ==
  ASSUME NEW words, Words(words), NEW b \in 1..Len(words)
  PROVE  words[b] \in SubSeqs(FlattenSeq(WithSpaces(words)))
  <1>1. PICK t \in Text : t = FlattenSeq(WithSpaces(words))
    BY JoinedWords
  <1>2. PICK n \in Nat : n = Len(words) /\ n = Len(WithSpaces(words))
    BY JoinedWords
  <1>3. PICK ends : Layout(ends, WithSpaces(words), t)
    <2>1. WithSpaces(words) \in Seq(Seq(Char))
      BY JoinedWords DEF Text
    <2>2. QED
      BY <1>1, <2>1, FlattenLayout
  <1>4. /\ ends \in [0..n -> Nat] /\ ends[0] = 0 /\ Len(t) = ends[n]
        /\ \A k \in 1..n : /\ ends[k] = ends[k - 1] + Len(WithSpaces(words)[k])
                           /\ \A i \in 1..Len(WithSpaces(words)[k]) :
                                t[ends[k - 1] + i] = WithSpaces(words)[k][i]
    BY <1>2, <1>3 DEF Layout
  <1> DEFINE S == {k \in Nat : b + k <= n => ends[b] <= ends[b + k]}
  <1>5. 0 \in S
    <2>1. b \in 0..n /\ b + 0 = b
      BY <1>2
    <2>2. ends[b] \in Nat
      BY <1>4, <2>1
    <2>3. ends[b] <= ends[b + 0]
      BY <2>1, <2>2
    <2>4. QED
      BY <2>3
  <1>6. ASSUME NEW k \in Nat, k \in S PROVE k + 1 \in S
    <2> SUFFICES ASSUME b + (k + 1) <= n PROVE ends[b] <= ends[b + (k + 1)]
      OBVIOUS
    <2>1. PICK q \in Nat : q = b + k /\ q + 1 = b + (k + 1)
      OBVIOUS
    <2>2. q \in 0..n /\ q + 1 \in 1..n /\ q + 1 - 1 = q /\ b \in 0..n /\ q + 1 \in 0..n
      BY <1>2, <2>1
    <2>3. ends[b] <= ends[q]
      BY <1>6, <2>1, <2>2
    <2>4. Len(WithSpaces(words)[q + 1]) \in Nat
      <3>1. q + 1 \in 1..Len(words)
        BY <1>2, <2>2
      <3>2. Len(WithSpaces(words)[q + 1]) = Len(words[q + 1]) + 1 /\ Len(words[q + 1]) \in Nat
        BY <3>1, SpacedWord
      <3>3. QED
        BY <3>2
    <2>5. ends[q + 1] = ends[q] + Len(WithSpaces(words)[q + 1])
      BY <1>4, <2>2
    <2>6. ends[q] \in Nat /\ ends[b] \in Nat
      BY <1>4, <2>2
    <2> HIDE DEF S
    <2>7. ends[b] <= ends[q + 1]
      BY <2>3, <2>4, <2>5, <2>6
    <2>8. QED
      BY <2>1, <2>7
  <1> HIDE DEF S
  <1>7. n - b \in S
    <2>1. n - b \in Nat
      BY <1>2
    <2>2. QED
      BY <1>5, <1>6, <2>1, Naming!SetInduction
  <1>8. ends[b] <= Len(t)
    <2>1. b + (n - b) = n /\ n <= n
      BY <1>2
    <2>2. ends[b] <= ends[n]
      BY <1>7, <2>1 DEF S
    <2>3. QED
      BY <1>4, <2>2
  <1>9. PICK c \in Nat, e \in Nat : c = ends[b - 1] /\ e = ends[b]
    <2>1. b - 1 \in 0..n /\ b \in 0..n
      BY <1>2
    <2>2. QED
      BY <1>4, <2>1
  <1>10. PICK w \in Text, z \in Text, m \in Nat :
           /\ w = words[b] /\ z = WithSpaces(words)[b] /\ m = Len(w) /\ Len(z) = m + 1
           /\ \A j \in 1..m : z[j] = w[j]
    <2>1. /\ words[b] \in Text /\ WithSpaces(words)[b] \in Text
          /\ Len(words[b]) \in Nat /\ Len(WithSpaces(words)[b]) = Len(words[b]) + 1
          /\ \A j \in 1..Len(words[b]) : WithSpaces(words)[b][j] = words[b][j]
      BY SpacedWord
    <2>2. QED
      BY <2>1
  <1>11. e = c + (m + 1) /\ \A i \in 1..(m + 1) : t[c + i] = z[i]
    BY <1>2, <1>4, <1>9, <1>10
  <1>12. \A i \in 1..m : t[c + i] = w[i]
    BY <1>10, <1>11
  <1>13. c + m <= Len(t)
    <2>1. PICK q \in Nat : q = Len(t)
      BY DEF Text
    <2>2. c + m <= q
      BY <1>8, <1>9, <1>11, <2>1
    <2>3. QED
      BY <2>1, <2>2
  <1>14. Occurs(w, t, c)
    BY <1>10, <1>12, <1>13 DEF Occurs
  <1>15. QED
    BY <1>1, <1>10, <1>14, OccursIsSubSeq

\* What stands at the end is a suffix.
LEMMA EndIsSuffix ==
  ASSUME NEW s \in Text, NEW w \in Text, NEW p, Occurs(s, w, p), p + Len(s) = Len(w)
  PROVE  IsSuffix(s, w)
  <1>1. PICK l \in Nat, m \in Nat : l = Len(s) /\ m = Len(w)
    BY DEF Text
  <1>2. p \in Nat /\ p + l = m /\ \A i \in 1..l : w[p + i] = s[i]
    BY <1>1 DEF Occurs
  <1>3. Reverse(s) = [i \in 1..l |-> s[(l - i) + 1]] /\ Reverse(w) = [i \in 1..m |-> w[(m - i) + 1]]
    BY <1>1 DEF Reverse
  <1>4. ASSUME NEW i \in 1..l PROVE Reverse(s)[i] = Reverse(w)[i]
    <2>1. PICK j \in 1..l : j = (l - i) + 1 /\ p + j = (m - i) + 1
      <3>1. (l - i) + 1 \in 1..l /\ p + ((l - i) + 1) = (m - i) + 1
        BY <1>2
      <3>2. QED
        BY <3>1
    <2>2. i \in 1..m
      BY <1>2
    <2>3. QED
      BY <1>2, <1>3, <2>1, <2>2
  <1>5. Reverse(s) \in Text /\ Len(Reverse(s)) = l
    <2>1. \A i \in 1..l : s[(l - i) + 1] \in Char
      <3>1. ASSUME NEW i \in 1..l PROVE s[(l - i) + 1] \in Char
        <4>1. (l - i) + 1 \in 1..l
          OBVIOUS
        <4>2. QED
          BY <1>1, <4>1 DEF Text
      <3>2. QED
        BY <3>1
    <2>2. QED
      BY <1>3, <2>1 DEF Text
  <1>6. Reverse(w) \in Text /\ Len(Reverse(w)) = m
    <2>1. \A i \in 1..m : w[(m - i) + 1] \in Char
      <3>1. ASSUME NEW i \in 1..m PROVE w[(m - i) + 1] \in Char
        <4>1. (m - i) + 1 \in 1..m
          OBVIOUS
        <4>2. QED
          BY <1>1, <4>1 DEF Text
      <3>2. QED
        BY <3>1
    <2>2. QED
      BY <1>3, <2>1 DEF Text
  <1>7. PICK x \in Text, y \in Text : x = Reverse(s) /\ y = Reverse(w)
    BY <1>5, <1>6
  <1>8. l \in 0..Len(x) /\ l \in 0..Len(y)
    BY <1>2, <1>5, <1>6, <1>7
  <1>9. PICK u \in Text : u = SubSeq(x, 1, l) /\ Len(u) = l /\ \A i \in 1..l : u[i] = x[i]
    BY <1>8, PrefixText
  <1>10. PICK v \in Text : v = SubSeq(y, 1, l) /\ Len(v) = l /\ \A i \in 1..l : v[i] = y[i]
    BY <1>8, PrefixText
  <1>11. u = v
    BY <1>4, <1>7, <1>9, <1>10, SameText
  <1>12. Len(x) <= Len(y)
    BY <1>2, <1>5, <1>6, <1>7
  <1>13. QED
    BY <1>5, <1>7, <1>9, <1>10, <1>11, <1>12 DEF IsSuffix, IsPrefix

-----------------------------------------------------------------------------
(* Parsed segments *)

\* A name as partition('}') can leave it behind a lone brace
NameOK(name) ==
  /\ \A i \in 1..Len(name) : name[i] # "}"
  /\ name # << >> => name[1] # "{"

\* No placeholder is there twice.
Distinct(s) ==
  \A i, j \in 1..Len(s) : IsPlaceholder(s[i]) /\ s[i] = s[j] => i = j

SegmentsOK(s) ==
  /\ s \in Segments /\ WellFormed(s) /\ IsInjective(Names(s)) /\ Distinct(s)
  /\ \A i \in 1..Len(s) : IsPlaceholder(s[i]) => NameOK(s[i].data)

EndsExact(s) == s = << >> \/ ~IsPlaceholder(s[Len(s)])
EndsPlaceholder(s) == s = << >> \/ IsPlaceholder(s[Len(s)])

\* A text that may stand behind these segments
Follows(s, text) == s # << >> => text # << >> /\ text[1] = "/"

\* The empty list of segments is in order.
LEMMA NoSegments ==
  SegmentsOK(<< >>) /\ EndsExact(<< >>) /\ EndsPlaceholder(<< >>)
  <1>1. << >> \in Segments /\ Len(<< >>) = 0 /\ DOMAIN << >> = {} /\ 2..0 = {} /\ 1..0 = {}
    BY DEF Segments
  <1>2. WellFormed(<< >>) /\ Distinct(<< >>)
    BY <1>1 DEF WellFormed, Distinct
  <1>3. Names(<< >>) = << >>
    <2>1. << >> \in Text
      BY DEF Text
    <2>2. [type |-> "exact", data |-> << >>] \in Segment
      BY <2>1 DEF Segment
    <2>3. QED
      BY <1>1, <2>2, NamesAppend
  <1>4. IsInjective(<< >>)
    BY <1>1 DEF IsInjective
  <1>5. QED
    BY <1>1, <1>2, <1>3, <1>4 DEF SegmentsOK, EndsExact, EndsPlaceholder

\* A list of segments with one more, element by element
LEMMA AddedIs ==
  ASSUME NEW s \in Segments, NEW e \in Segment
  PROVE  \E z \in Segments, n \in Nat :
           /\ z = Append(s, e) /\ n = Len(s) /\ Len(z) = n + 1 /\ z # << >>
           /\ DOMAIN z = 1..(n + 1) /\ DOMAIN s = 1..n
           /\ z[n + 1] = e /\ \A i \in 1..n : z[i] = s[i]
  <1>1. Append(s, e) \in Segments /\ Len(s) \in Nat
    BY DEF Segments
  <1>2. PICK z \in Segments, n \in Nat : z = Append(s, e) /\ n = Len(s)
    BY <1>1
  <1>3. /\ Len(z) = n + 1 /\ z # << >> /\ DOMAIN z = 1..(n + 1) /\ DOMAIN s = 1..n
        /\ z[n + 1] = e /\ \A i \in 1..n : z[i] = s[i]
    BY <1>2 DEF Segments
  <1>4. QED
    BY <1>2, <1>3

\* A segment that fits to the last one keeps the list well formed.
LEMMA WellFormedAdd ==
  ASSUME NEW s \in Segments, WellFormed(s), NEW e \in Segment,
         IF IsPlaceholder(e) THEN EndsExact(s)
         ELSE EndsPlaceholder(s) /\ e.data # << >> /\ Follows(s, e.data)
  PROVE  WellFormed(Append(s, e))
  <1>1. PICK z \in Segments, n \in Nat :
          /\ z = Append(s, e) /\ n = Len(s) /\ Len(z) = n + 1 /\ DOMAIN z = 1..(n + 1)
          /\ DOMAIN s = 1..n /\ z[n + 1] = e /\ \A i \in 1..n : z[i] = s[i]
    BY AddedIs
  <1>2. ASSUME NEW i \in 1..(n + 1) PROVE IsPlaceholder(z[i]) \/ z[i].data # << >>
    <2>1. CASE i = n + 1
      BY <1>1, <2>1
    <2>2. CASE i # n + 1
      <3>1. i \in 1..n
        BY <2>2
      <3>2. IsPlaceholder(s[i]) \/ s[i].data # << >>
        BY <1>1, <3>1 DEF WellFormed
      <3>3. QED
        BY <1>1, <3>1, <3>2
    <2>3. QED
      BY <2>1, <2>2
  <1>3. ASSUME NEW i \in 2..(n + 1)
        PROVE  IF IsPlaceholder(z[i]) THEN ~IsPlaceholder(z[i - 1])
               ELSE IsPlaceholder(z[i - 1]) /\ z[i].data[1] = "/"
    <2>1. CASE i = n + 1
      <3>1. i - 1 = n /\ n \in 1..n
        BY <2>1
      <3>2. s # << >> /\ z[i] = e /\ z[i - 1] = s[Len(s)]
        BY <1>1, <2>1, <3>1
      <3>3. QED
        BY <3>2 DEF EndsExact, EndsPlaceholder, Follows
    <2>2. CASE i # n + 1
      <3>1. i \in 2..n /\ i \in 1..n /\ i - 1 \in 1..n
        BY <2>2
      <3>2. IF IsPlaceholder(s[i]) THEN ~IsPlaceholder(s[i - 1])
            ELSE IsPlaceholder(s[i - 1]) /\ s[i].data[1] = "/"
        BY <1>1, <3>1 DEF WellFormed
      <3>3. QED
        BY <1>1, <3>1, <3>2
    <2>3. QED
      BY <2>1, <2>2
  <1>4. WellFormed(z)
    BY <1>1, <1>2, <1>3 DEF WellFormed
  <1>5. QED
    BY <1>1, <1>4

\* An exact text behind a placeholder
LEMMA AddExact ==
  ASSUME NEW s, SegmentsOK(s), EndsPlaceholder(s), NEW text \in Text, text # << >>, Follows(s, text)
  PROVE  SegmentsOK(Append(s, Exact(text))) /\ EndsExact(Append(s, Exact(text)))
  <1>1. s \in Segments
    BY DEF SegmentsOK
  <1>2. PICK e \in Segment : e = Exact(text) /\ ~IsPlaceholder(e) /\ e.data = text
    <2>1. Exact(text) \in Segment
      BY DEF Exact, Segment
    <2>2. ~IsPlaceholder(Exact(text)) /\ Exact(text).data = text
      BY DEF Exact, IsPlaceholder
    <2>3. QED
      BY <2>1, <2>2
  <1>3. PICK z \in Segments, n \in Nat :
          /\ z = Append(s, e) /\ n = Len(s) /\ Len(z) = n + 1
          /\ z[n + 1] = e /\ \A i \in 1..n : z[i] = s[i]
    BY <1>1, AddedIs
  <1>4. WellFormed(z)
    BY <1>1, <1>2, <1>3, WellFormedAdd DEF SegmentsOK
  <1>5. Names(z) = Names(s)
    BY <1>1, <1>2, <1>3, NamesAppend DEF AddName
  <1>6. ASSUME NEW i \in 1..(n + 1), NEW j \in 1..(n + 1), IsPlaceholder(z[i]), z[i] = z[j]
        PROVE  i = j
    <2>1. i # n + 1 /\ j # n + 1
      BY <1>2, <1>3, <1>6
    <2>2. i \in 1..n /\ j \in 1..n
      BY <2>1
    <2>3. IsPlaceholder(s[i]) /\ s[i] = s[j]
      BY <1>3, <1>6, <2>2
    <2>4. QED
      BY <1>3, <2>2, <2>3 DEF SegmentsOK, Distinct
  <1>7. ASSUME NEW i \in 1..(n + 1), IsPlaceholder(z[i]) PROVE NameOK(z[i].data)
    <2>1. i # n + 1
      BY <1>2, <1>3, <1>7
    <2>2. i \in 1..n
      BY <2>1
    <2>3. QED
      BY <1>3, <1>7, <2>2 DEF SegmentsOK
  <1>8. Distinct(z)
    BY <1>3, <1>6 DEF Distinct
  <1>9. SegmentsOK(z)
    BY <1>3, <1>4, <1>5, <1>7, <1>8 DEF SegmentsOK
  <1>10. EndsExact(z)
    BY <1>2, <1>3 DEF EndsExact
  <1>11. QED
    BY <1>2, <1>3, <1>9, <1>10

\* A placeholder with a new name behind an exact text
LEMMA AddPlaceholder ==
  ASSUME NEW s, SegmentsOK(s), EndsExact(s), NEW name \in Text, NameOK(name),
         Placeholder(name) \notin Range(s)
  PROVE  LET z == Append(s, Placeholder(name)) IN
         SegmentsOK(z) /\ z # << >> /\ EndsPlaceholder(z)
  <1>1. s \in Segments
    BY DEF SegmentsOK
  <1>2. PICK e \in Segment : e = Placeholder(name) /\ IsPlaceholder(e) /\ e.data = name
    BY DEF Placeholder, Segment, IsPlaceholder
  <1>3. PICK z \in Segments, n \in Nat :
          /\ z = Append(s, e) /\ n = Len(s) /\ Len(z) = n + 1 /\ z # << >>
          /\ z[n + 1] = e /\ \A i \in 1..n : z[i] = s[i]
    BY <1>1, AddedIs
  <1>4. WellFormed(z)
    BY <1>1, <1>2, <1>3, WellFormedAdd DEF SegmentsOK
  <1>5. \A i \in 1..n : s[i] # e
    BY <1>1, <1>2, <1>3, SegmentAt
  <1>6. IsInjective(Names(z))
    <2>1. Names(z) = Append(Names(s), name)
      BY <1>1, <1>2, <1>3, NamesAppend DEF AddName
    <2>2. PICK a \in Seq(Text), m \in Nat : /\ a = Names(s) /\ m = Len(a) /\ DOMAIN a = 1..m
                                            /\ \A j \in 1..m : Placeholder(a[j]) \in Range(s)
      <3>1. /\ Names(s) \in Seq(Text)
            /\ \A j \in 1..Len(Names(s)) : Placeholder(Names(s)[j]) \in Range(s)
        BY <1>1, NamesAre
      <3>2. QED
        BY <3>1
    <2>3. \A j \in 1..m : a[j] # name
      BY <2>2
    <2>4. PICK c : c = Append(a, name)
      OBVIOUS
    <2>5. DOMAIN c = 1..(m + 1) /\ c[m + 1] = name /\ \A j \in 1..m : c[j] = a[j]
      BY <2>2, <2>4
    <2>6. ASSUME NEW i \in 1..(m + 1), NEW j \in 1..(m + 1), c[i] = c[j] PROVE i = j
      <3>1. CASE i \in 1..m /\ j \in 1..m
        <4>1. a[i] = a[j]
          BY <2>5, <2>6, <3>1
        <4>2. QED
          BY <2>2, <3>1, <4>1 DEF SegmentsOK, IsInjective
      <3>2. CASE i \in 1..m /\ j \notin 1..m
        <4>1. j = m + 1
          BY <3>2
        <4>2. QED
          BY <2>3, <2>5, <2>6, <3>2, <4>1
      <3>3. CASE i \notin 1..m /\ j \in 1..m
        <4>1. i = m + 1
          BY <3>3
        <4>2. QED
          BY <2>3, <2>5, <2>6, <3>3, <4>1
      <3>4. CASE i \notin 1..m /\ j \notin 1..m
        BY <3>4
      <3>5. QED
        BY <3>1, <3>2, <3>3, <3>4
    <2>7. IsInjective(c)
      BY <2>5, <2>6 DEF IsInjective
    <2>8. QED
      BY <2>1, <2>2, <2>4, <2>7
  <1>7. ASSUME NEW i \in 1..(n + 1), NEW j \in 1..(n + 1), IsPlaceholder(z[i]), z[i] = z[j]
        PROVE  i = j
    <2>1. CASE i \in 1..n /\ j \in 1..n
      <3>1. IsPlaceholder(s[i]) /\ s[i] = s[j]
        BY <1>3, <1>7, <2>1
      <3>2. QED
        BY <1>3, <2>1, <3>1 DEF SegmentsOK, Distinct
    <2>2. CASE i \in 1..n /\ j \notin 1..n
      <3>1. j = n + 1
        BY <2>2
      <3>2. QED
        BY <1>3, <1>5, <1>7, <2>2, <3>1
    <2>3. CASE i \notin 1..n /\ j \in 1..n
      <3>1. i = n + 1
        BY <2>3
      <3>2. QED
        BY <1>3, <1>5, <1>7, <2>3, <3>1
    <2>4. CASE i \notin 1..n /\ j \notin 1..n
      BY <2>4
    <2>5. QED
      BY <2>1, <2>2, <2>3, <2>4
  <1>8. ASSUME NEW i \in 1..(n + 1), IsPlaceholder(z[i]) PROVE NameOK(z[i].data)
    <2>1. CASE i = n + 1
      BY <1>2, <1>3, <2>1
    <2>2. CASE i # n + 1
      <3>1. i \in 1..n
        BY <2>2
      <3>2. QED
        BY <1>3, <1>8, <3>1 DEF SegmentsOK
    <2>3. QED
      BY <2>1, <2>2
  <1>9. Distinct(z)
    BY <1>3, <1>7 DEF Distinct
  <1>10. SegmentsOK(z)
    BY <1>3, <1>4, <1>6, <1>8, <1>9 DEF SegmentsOK
  <1>11. EndsPlaceholder(z)
    BY <1>2, <1>3 DEF EndsPlaceholder
  <1>12. QED
    BY <1>2, <1>3, <1>10, <1>11

-----------------------------------------------------------------------------
(* The pattern parser *)

Modes == {"exact", "open", "name", "closed", "error"}
ParserState ==
  [mode : Modes, half : BOOLEAN, text : Text, name : Text, segments : Segments]

InText(p) == p.mode = "exact" \/ p.mode = "open"

\* Outside of braces: the text follows the segments; behind a lone brace: a name
\* follows them; behind a name: nothing was read.
Good(p) ==
  /\ p \in ParserState
  /\ p.mode # "error" => SegmentsOK(p.segments)
  /\ InText(p) => EndsPlaceholder(p.segments) /\ Follows(p.segments, p.text)
  /\ p.mode = "name" => /\ EndsExact(p.segments) /\ p.text = << >>
                        /\ NameOK(p.name) /\ p.name # << >>
  /\ p.mode = "closed" => /\ EndsPlaceholder(p.segments) /\ p.segments # << >>
                          /\ p.text = << >>

\* The characters the parser looks for
LEMMA CharsAre == "{" \in Char /\ "}" \in Char /\ "/" \in Char
  BY Zenon DEF Char

\* A character is a text of length 1.
LEMMA OneIsText ==
  ASSUME NEW c \in Char
  PROVE  <<c>> \in Text
  BY DEF Text

\* A text with one character more
LEMMA TextAppend ==
  ASSUME NEW s \in Text, NEW c \in Char
  PROVE  /\ Append(s, c) \in Text /\ Append(s, c) # << >> /\ Len(s) \in Nat
         /\ Len(Append(s, c)) = Len(s) + 1 /\ Append(s, c)[Len(s) + 1] = c
         /\ \A i \in 1..Len(s) : Append(s, c)[i] = s[i]
         /\ s # << >> => Append(s, c)[1] = s[1]
         /\ s = << >> => Append(s, c)[1] = c
  BY DEF Text

\* A longer text follows where its beginning does.
LEMMA FollowsAppend ==
  ASSUME NEW s, NEW text \in Text, Follows(s, text), NEW c \in Char
  PROVE  Follows(s, Append(text, c))
  BY TextAppend DEF Follows

\* A number up to n + 1 is the last one or one before it.
LEMMA LastOrBefore ==
  ASSUME NEW n \in Nat, NEW i \in 1..(n + 1)
  PROVE  i = n + 1 \/ i \in 1..n
  OBVIOUS

\* A name with one character more
LEMMA NameAppend ==
  ASSUME NEW name \in Text, NameOK(name), NEW c \in Char, c # "}", name # << >> \/ c # "{"
  PROVE  NameOK(Append(name, c)) /\ Append(name, c) # << >> /\ Append(name, c) \in Text
  <1>1. PICK z \in Text, n \in Nat :
          /\ z = Append(name, c) /\ n = Len(name) /\ Len(z) = n + 1 /\ z # << >>
          /\ z[n + 1] = c /\ \A i \in 1..n : z[i] = name[i]
          /\ name # << >> => z[1] = name[1]
          /\ name = << >> => z[1] = c
    BY TextAppend
  <1>0. \A i \in 1..(n + 1) : i = n + 1 \/ i \in 1..n
    BY LastOrBefore
  <1>2. ASSUME NEW i \in 1..(n + 1) PROVE z[i] # "}"
    <2>1. CASE i = n + 1
      BY <1>1, <2>1
    <2>2. CASE i # n + 1
      <3>1. i \in 1..n
        BY <1>0, <2>2, Zenon
      <3>2. name[i] # "}"
        BY <1>1, <3>1 DEF NameOK
      <3>3. QED
        BY <1>1, <3>1, <3>2
    <2>3. QED
      BY <2>1, <2>2
  <1>3. z[1] # "{"
    BY <1>1 DEF NameOK
  <1>4. QED
    BY <1>1, <1>2, <1>3 DEF NameOK

\* Flush makes a segment of the text.
LEMMA FlushIs ==
  ASSUME NEW p \in ParserState, SegmentsOK(p.segments),
         EndsPlaceholder(p.segments), Follows(p.segments, p.text)
  PROVE  /\ Flush(p) \in ParserState /\ Flush(p).text = << >> /\ Flush(p).mode = p.mode
         /\ SegmentsOK(Flush(p).segments) /\ EndsExact(Flush(p).segments)
  <1>1. p.text \in Text /\ p.segments \in Segments
    BY DEF ParserState
  <1>2. CASE p.text = << >>
    <2>1. Flush(p) = p
      BY <1>2 DEF Flush
    <2>2. p.segments = << >>
      BY <1>2 DEF Follows
    <2>3. QED
      BY <1>2, <2>1, <2>2 DEF EndsExact
  <1>3. CASE p.text # << >>
    <2>1. PICK g \in Segments : g = Append(p.segments, Exact(p.text)) /\ SegmentsOK(g) /\ EndsExact(g)
      BY <1>1, <1>3, AddExact DEF SegmentsOK
    <2>2. Flush(p) = [p EXCEPT !.segments = g, !.text = << >>]
      BY <1>3, <2>1 DEF Flush
    <2>3. << >> \in Text
      BY DEF Text
    <2>4. Flush(p) \in ParserState /\ Flush(p).text = << >> /\ Flush(p).mode = p.mode
          /\ Flush(p).segments = g
      BY <2>2, <2>3 DEF ParserState
    <2>5. QED
      BY <2>1, <2>4
  <1>4. QED
    BY <1>2, <1>3

\* A character of a name
LEMMA ReadNameGood ==
  ASSUME NEW p \in ParserState, p.mode = "name", SegmentsOK(p.segments), EndsExact(p.segments),
         p.text = << >>, NameOK(p.name), NEW c \in Char, p.name # << >> \/ c # "{"
  PROVE  Good(ReadName(p, c))
  <1>1. p.name \in Text /\ p.segments \in Segments
    BY DEF ParserState
  <1>2. CASE c # "}"
    <2>1. PICK n \in Text : n = Append(p.name, c) /\ NameOK(n) /\ n # << >>
      BY <1>1, <1>2, NameAppend
    <2>2. PICK q : q = [p EXCEPT !.name = n]
      OBVIOUS
    <2>3. ReadName(p, c) = q
      BY <1>2, <2>1, <2>2 DEF ReadName
    <2>4. q \in ParserState /\ q.mode = "name" /\ q.segments = p.segments /\ q.text = p.text /\ q.name = n
      BY <2>2 DEF ParserState
    <2>5. ~InText(q) /\ q.mode # "closed"
      BY <2>4 DEF InText
    <2>6. Good(q)
      BY <2>1, <2>4, <2>5 DEF Good
    <2>7. QED
      BY <2>3, <2>6
  <1>3. CASE c = "}"
    <2>1. ReadName(p, c) = CloseName(p)
      BY <1>3 DEF ReadName
    <2>2. CASE Placeholder(p.name) \in Range(p.segments)
      <3>1. PICK q : q = [p EXCEPT !.mode = "error"]
        OBVIOUS
      <3>2. CloseName(p) = q
        BY <2>2, <3>1 DEF CloseName
      <3>3. q \in ParserState /\ q.mode = "error"
        BY <3>1 DEF ParserState, Modes
      <3>4. Good(q)
        BY <3>3 DEF Good, InText
      <3>5. QED
        BY <2>1, <3>2, <3>4
    <2>3. CASE Placeholder(p.name) \notin Range(p.segments)
      <3>1. PICK g \in Segments : /\ g = Append(p.segments, Placeholder(p.name))
                                  /\ SegmentsOK(g) /\ g # << >> /\ EndsPlaceholder(g)
        BY <1>1, <2>3, AddPlaceholder DEF SegmentsOK
      <3>2. PICK q : q = [p EXCEPT !.mode = "closed", !.segments = g]
        OBVIOUS
      <3>3. CloseName(p) = q
        BY <2>3, <3>1, <3>2 DEF CloseName
      <3>4. q \in ParserState /\ q.mode = "closed" /\ q.segments = g /\ q.text = << >>
        BY <3>2 DEF ParserState, Modes
      <3>5. Good(q)
        BY <3>1, <3>4 DEF Good, InText
      <3>6. QED
        BY <2>1, <3>3, <3>5
    <2>4. QED
      BY <2>2, <2>3
  <1>4. QED
    BY <1>2, <1>3

\* The state in which a name begins
Named(p) == [Flush(p) EXCEPT !.mode = "name", !.name = <<>>]

\* Where a name begins the segments end with an exact text.
LEMMA NamedIs ==
  ASSUME NEW p \in ParserState, SegmentsOK(p.segments),
         EndsPlaceholder(p.segments), Follows(p.segments, p.text)
  PROVE  /\ Named(p) \in ParserState /\ Named(p).mode = "name"
         /\ SegmentsOK(Named(p).segments) /\ EndsExact(Named(p).segments)
         /\ Named(p).text = << >> /\ Named(p).name = << >>
         /\ Named(p).segments = Flush(p).segments /\ Named(p).half = Flush(p).half
  <1>1. PICK f \in ParserState :
          f = Flush(p) /\ f.text = << >> /\ SegmentsOK(f.segments) /\ EndsExact(f.segments)
    BY FlushIs
  <1>2. << >> \in Text
    BY DEF Text
  <1>3. PICK q : q = [f EXCEPT !.mode = "name", !.name = <<>>]
    OBVIOUS
  <1>4. /\ q \in ParserState /\ q.mode = "name" /\ q.name = << >>
        /\ q.segments = f.segments /\ q.text = f.text /\ q.half = f.half
    BY <1>2, <1>3 DEF ParserState, Modes
  <1>5. Named(p) = q
    BY <1>1, <1>3 DEF Named
  <1>6. QED
    BY <1>1, <1>4, <1>5

\* The empty name
LEMMA NoName == NameOK(<< >>)
  <1>1. Len(<< >>) = 0 /\ 1..0 = {}
    OBVIOUS
  <1>2. QED
    BY <1>1 DEF NameOK

\* Each character leaves a state of the parser.
LEMMA GoodStep ==
  ASSUME NEW p, Good(p), NEW c \in Char
  PROVE  Good(ReadChar(p, c))
  <1>1. p \in ParserState /\ p.text \in Text /\ p.segments \in Segments /\ p.mode \in Modes
    BY DEF Good, ParserState
  <1>2. CASE p.mode = "error"
    BY <1>2 DEF ReadChar
  <1>3. ASSUME NEW q \in ParserState, InText(q), q.segments = p.segments, InText(p),
               q.text = p.text \/ \E d \in Char : q.text = Append(p.text, d)
        PROVE  Good(q)
    <2>1. SegmentsOK(p.segments) /\ EndsPlaceholder(p.segments) /\ Follows(p.segments, p.text)
      BY <1>3 DEF Good, InText
    <2>2. Follows(p.segments, q.text)
      BY <1>1, <1>3, <2>1, FollowsAppend
    <2>3. q.mode # "name" /\ q.mode # "closed"
      BY <1>3 DEF InText
    <2>4. QED
      BY <1>3, <2>1, <2>2, <2>3 DEF Good
  <1>4. CASE p.mode = "exact"
    <2>1. CASE c = "{"
      <3>1. PICK q : q = [p EXCEPT !.mode = "open", !.half = FALSE]
        OBVIOUS
      <3>2. ReadChar(p, c) = q
        BY <1>4, <2>1, <3>1 DEF ReadChar
      <3>3. q \in ParserState /\ q.mode = "open" /\ q.segments = p.segments /\ q.text = p.text
        BY <1>1, <3>1 DEF ParserState, Modes
      <3>4. QED
        BY <1>3, <1>4, <3>2, <3>3 DEF InText
    <2>2. CASE c = "}" /\ p.half
      <3>1. PICK q : q = [p EXCEPT !.half = FALSE]
        OBVIOUS
      <3>2. ReadChar(p, c) = q
        BY <1>4, <2>2, <3>1 DEF ReadChar
      <3>3. q \in ParserState /\ q.mode = "exact" /\ q.segments = p.segments /\ q.text = p.text
        BY <1>1, <1>4, <3>1 DEF ParserState
      <3>4. QED
        BY <1>3, <1>4, <3>2, <3>3 DEF InText
    <2>3. CASE c # "{" /\ ~(c = "}" /\ p.half)
      <3>1. PICK t \in Text : t = Append(p.text, c)
        BY <1>1, TextAppend
      <3>2. PICK h \in BOOLEAN : h = (c = "}")
        OBVIOUS
      <3>3. PICK q : q = [p EXCEPT !.text = t, !.half = h]
        OBVIOUS
      <3>4. ReadChar(p, c) = q
        BY <1>4, <2>3, <3>1, <3>2, <3>3 DEF ReadChar
      <3>5. q \in ParserState /\ q.mode = "exact" /\ q.segments = p.segments /\ q.text = t
        BY <1>1, <1>4, <3>3 DEF ParserState
      <3>6. QED
        BY <1>3, <1>4, <3>1, <3>4, <3>5 DEF InText
    <2>4. QED
      BY <2>1, <2>2, <2>3
  <1>5. CASE p.mode = "open"
    <2>1. CASE c = "{"
      <3>1. PICK t \in Text : t = Append(p.text, "{")
        BY <1>1, <2>1, TextAppend
      <3>2. PICK q : q = [p EXCEPT !.mode = "exact", !.text = t]
        OBVIOUS
      <3>3. ReadChar(p, c) = q
        BY <1>5, <2>1, <3>1, <3>2 DEF ReadChar
      <3>4. q \in ParserState /\ q.mode = "exact" /\ q.segments = p.segments /\ q.text = t
        BY <1>1, <3>2 DEF ParserState, Modes
      <3>5. QED
        BY <1>3, <1>5, <2>1, <3>1, <3>3, <3>4 DEF InText
    <2>2. CASE c # "{"
      <3>1. ReadChar(p, c) = ReadName(Named(p), c)
        BY <1>5, <2>2 DEF ReadChar, Named
      <3>2. SegmentsOK(p.segments) /\ EndsPlaceholder(p.segments) /\ Follows(p.segments, p.text)
        BY <1>5 DEF Good, InText
      <3>3. /\ Named(p) \in ParserState /\ Named(p).mode = "name"
            /\ SegmentsOK(Named(p).segments) /\ EndsExact(Named(p).segments)
            /\ Named(p).text = << >> /\ Named(p).name = << >>
        BY <1>1, <3>2, NamedIs
      <3>4. QED
        BY <2>2, <3>1, <3>3, NoName, ReadNameGood
    <2>3. QED
      BY <2>1, <2>2
  <1>6. CASE p.mode = "name"
    <2>1. ReadChar(p, c) = ReadName(p, c)
      BY <1>6 DEF ReadChar
    <2>2. /\ SegmentsOK(p.segments) /\ EndsExact(p.segments) /\ p.text = << >>
          /\ NameOK(p.name) /\ p.name # << >>
      BY <1>6 DEF Good
    <2>3. QED
      BY <1>1, <1>6, <2>1, <2>2, ReadNameGood
  <1>7. CASE p.mode = "closed"
    <2>0. SegmentsOK(p.segments) /\ EndsPlaceholder(p.segments)
      BY <1>7 DEF Good
    <2>1. CASE c = "/"
      <3>1. PICK t \in Text : t = <<"/">>
        BY CharsAre, OneIsText
      <3>2. PICK q : q = [p EXCEPT !.mode = "exact", !.text = t]
        OBVIOUS
      <3>3. ReadChar(p, c) = q
        BY <1>7, <2>1, <3>1, <3>2 DEF ReadChar
      <3>4. q \in ParserState /\ q.mode = "exact" /\ q.segments = p.segments /\ q.text = t
        BY <1>1, <3>2 DEF ParserState, Modes
      <3>5. Follows(p.segments, t)
        BY <3>1 DEF Follows
      <3>6. Good(q)
        BY <2>0, <3>4, <3>5 DEF Good
      <3>7. QED
        BY <3>3, <3>6
    <2>2. CASE c # "/"
      <3>1. PICK q : q = [p EXCEPT !.mode = "error"]
        OBVIOUS
      <3>2. ReadChar(p, c) = q
        BY <1>7, <2>2, <3>1 DEF ReadChar
      <3>3. q \in ParserState /\ q.mode = "error"
        BY <1>1, <3>1 DEF ParserState, Modes
      <3>4. Good(q)
        BY <3>3 DEF Good, InText
      <3>5. QED
        BY <3>2, <3>4
    <2>3. QED
      BY <2>1, <2>2
  <1>8. QED
    BY <1>1, <1>2, <1>4, <1>5, <1>6, <1>7 DEF Modes

\* The parser's first state
LEMMA GoodStart == Good(Start)
  <1>1. << >> \in Text /\ << >> \in Segments
    BY DEF Text, Segments
  <1>2. Start \in ParserState /\ Start.mode = "exact" /\ Start.segments = << >>
    BY <1>1 DEF Start, ParserState, Modes
  <1>3. Follows(<< >>, Start.text)
    BY DEF Follows
  <1>4. QED
    BY <1>2, <1>3, NoSegments DEF Good

\* Parse folds ReadChar.
LEMMA ParseFold ==
  ASSUME NEW b, NEW s
  PROVE  FoldLeft(ReadChar, b, s) = Reading!Fold(b, s)
  BY DEF Reading!Fold, Reading!FoldLeft, Reading!MapThenFoldSet, Reading!Max,
         FoldLeft, MapThenFoldSet, Max

\* A pattern that parses has segments in order.
LEMMA ParsedOK ==
  ASSUME NEW pattern \in Text, Parses(pattern)
  PROVE  SegmentsOK(Parse(pattern).segments)
  <1>1. PICK l \in Nat : l = Len(pattern) /\ pattern \in Seq(Char)
    BY DEF Text
  <1> DEFINE G == {p \in ParserState : Good(p)}
             I == [k \in 0..l |-> G]
  <1>2. Start \in I[0]
    BY GoodStart DEF Good
  <1>3. ASSUME NEW k \in 1..l, NEW p \in I[k - 1] PROVE ReadChar(p, pattern[k]) \in I[k]
    <2>1. k - 1 \in 0..l /\ k \in 0..l /\ pattern[k] \in Char
      BY <1>1
    <2>2. Good(p)
      BY <2>1
    <2>3. Good(ReadChar(p, pattern[k]))
      BY <2>1, <2>2, GoodStep
    <2>4. ReadChar(p, pattern[k]) \in G
      BY <2>3 DEF Good
    <2>5. QED
      BY <2>1, <2>4
  <1>4. I[l] = G
    OBVIOUS
  <1> HIDE DEF I
  <1>5. Reading!Fold(Start, pattern) \in I[l]
    BY <1>1, <1>2, <1>3, Reading!FoldInvariant
  <1>6. PICK p : p = FoldLeft(ReadChar, Start, pattern) /\ Good(p)
    BY <1>4, <1>5, ParseFold
  <1>7. Parse(pattern) = Flush(p)
    BY <1>6 DEF Parse
  <1>8. Flush(p).mode = p.mode /\ p \in ParserState
    BY <1>6 DEF Flush, Good, ParserState
  <1>9. p.mode \in {"exact", "open", "closed"}
    BY <1>7, <1>8 DEF Parses, ParserState, Modes
  <1>10. CASE p.mode = "closed"
    <2>1. p.text = << >> /\ SegmentsOK(p.segments)
      BY <1>6, <1>10 DEF Good
    <2>2. Flush(p) = p
      BY <2>1 DEF Flush
    <2>3. QED
      BY <1>7, <2>1, <2>2
  <1>11. CASE InText(p)
    <2>1. SegmentsOK(p.segments) /\ EndsPlaceholder(p.segments) /\ Follows(p.segments, p.text)
      BY <1>6, <1>11 DEF Good, InText
    <2>2. QED
      BY <1>7, <1>8, <2>1, FlushIs
  <1>12. QED
    BY <1>9, <1>10, <1>11 DEF InText

-----------------------------------------------------------------------------
(* What is written parses again *)

\* The parser's state after a text
After(p, s) == Reading!Fold(p, s)

\* One character more
LEMMA AfterAppend ==
  ASSUME NEW p, NEW s \in Text, NEW c \in Char
  PROVE  After(p, Append(s, c)) = ReadChar(After(p, s), c)
  BY Reading!FoldAppend DEF After, Text

\* No character
LEMMA AfterNone ==
  ASSUME NEW p
  PROVE  After(p, << >>) = p
  BY Reading!FoldEmpty DEF After

\* One character
LEMMA AfterOne ==
  ASSUME NEW p, NEW c \in Char
  PROVE  After(p, <<c>>) = ReadChar(p, c)
  <1>1. << >> \in Text /\ Append(<< >>, c) = <<c>>
    BY DEF Text
  <1>2. QED
    BY <1>1, AfterAppend, AfterNone

\* Two characters
LEMMA AfterTwo ==
  ASSUME NEW p, NEW c \in Char, NEW d \in Char
  PROVE  After(p, <<c, d>>) = ReadChar(ReadChar(p, c), d)
  <1>1. <<c>> \in Text
    BY OneIsText
  <1>2. PICK u \in Text : u = <<c>> /\ Len(u) = 1 /\ u[1] = c
    BY <1>1
  <1>3. Append(u, d) \in Text /\ Len(Append(u, d)) = 2 /\ Append(u, d)[1] = c /\ Append(u, d)[2] = d
    BY <1>2 DEF Text
  <1>4. <<c, d>> \in Text /\ Len(<<c, d>>) = 2 /\ <<c, d>>[1] = c /\ <<c, d>>[2] = d
    BY DEF Text
  <1>5. Append(u, d) = <<c, d>>
    <2>1. PICK x \in Text, y \in Text :
            /\ x = Append(u, d) /\ y = <<c, d>> /\ Len(x) = 2 /\ Len(y) = 2
            /\ x[1] = y[1] /\ x[2] = y[2]
      BY <1>3, <1>4
    <2>2. \A i \in 1..2 : i = 1 \/ i = 2
      OBVIOUS
    <2>3. \A i \in 1..Len(x) : x[i] = y[i]
      BY <2>1, <2>2
    <2>4. x = y
      BY <2>1, <2>3, SameText
    <2>5. QED
      BY <2>1, <2>4
  <1>6. After(p, Append(u, d)) = ReadChar(After(p, u), d)
    BY AfterAppend
  <1>7. After(p, u) = ReadChar(p, c)
    BY <1>2, AfterOne
  <1>8. QED
    BY <1>5, <1>6, <1>7

\* The first characters of a text, and the next one
LEMMA TextUp ==
  ASSUME NEW t \in Text, NEW k \in Nat, k + 1 <= Len(t)
  PROVE  /\ Up(t, k) \in Text /\ t[k + 1] \in Char
         /\ Up(t, k + 1) = Append(Up(t, k), t[k + 1])
  BY UpIs, UpStep DEF Text

\* One text is read behind the other.
LEMMA AfterCat ==
  ASSUME NEW p, NEW s \in Text, NEW t \in Text
  PROVE  After(p, s \o t) = After(After(p, s), t)
  <1> DEFINE Is(k) == After(p, s \o Up(t, k)) = After(After(p, s), Up(t, k))
             S == {k \in Nat : k <= Len(t) => Is(k)}
  <1>0. Len(t) \in Nat /\ Up(t, 0) = << >> /\ Up(t, Len(t)) = t /\ s \o << >> = s
    BY UpEnds, TextCat DEF Text
  <1>1. 0 \in S
    BY <1>0, AfterNone
  <1>2. ASSUME NEW k \in Nat, k \in S PROVE k + 1 \in S
    <2> SUFFICES ASSUME k + 1 <= Len(t) PROVE Is(k + 1)
      OBVIOUS
    <2>1. k <= Len(t)
      BY <1>0
    <2>2. Is(k)
      BY <1>2, <2>1
    <2>3. PICK u \in Text, c \in Char : u = Up(t, k) /\ c = t[k + 1] /\ Up(t, k + 1) = Append(u, c)
      BY TextUp
    <2>4. s \o Append(u, c) = Append(s \o u, c) /\ s \o u \in Text
      BY DEF Text
    <2>5. /\ After(p, Append(s \o u, c)) = ReadChar(After(p, s \o u), c)
          /\ After(After(p, s), Append(u, c)) = ReadChar(After(After(p, s), u), c)
      BY <2>4, AfterAppend
    <2>6. After(p, s \o u) = After(After(p, s), u)
      BY <2>2, <2>3
    <2>7. After(p, s \o Append(u, c)) = After(After(p, s), Append(u, c))
      BY <2>4, <2>5, <2>6, Zenon
    <2>8. QED
      BY <2>3, <2>7, Zenon
  <1> HIDE DEF S
  <1>3. \A k \in Nat : k \in S
    BY <1>1, <1>2, Reading!SetInduction
  <1>4. QED
    BY <1>0, <1>3 DEF S

-----------------------------------------------------------------------------
\* A character as Escape writes it, a segment as Write does
Twice(c) == IF c \in {"{", "}"} THEN <<c, c>> ELSE <<c>>
Written(e) ==
  IF e.type = "exact" THEN Escape(e.data) ELSE <<"{">> \o e.data \o <<"}">>

\* A character, written, is a text.
LEMMA TwiceType ==
  ASSUME NEW c \in Char
  PROVE  Twice(c) \in Text
  <1>1. <<c>> \in Text /\ <<c, c>> \in Text
    BY DEF Text
  <1>2. QED
    BY <1>1 DEF Twice

TwiceEach(t) == [i \in DOMAIN t |-> Twice(t[i])]
WrittenEach(s) == [i \in DOMAIN s |-> Written(s[i])]

\* One character more in what Escape writes
LEMMA EscapeStep ==
  ASSUME NEW t \in Text, NEW c \in Char
  PROVE  /\ Escape(<< >>) = << >> /\ Escape(t) \in Text
         /\ Escape(Append(t, c)) = Escape(t) \o Twice(c)
  <1>1. Escape(t) = FlattenSeq(TwiceEach(t)) /\ Escape(Append(t, c)) = FlattenSeq(TwiceEach(Append(t, c)))
    BY DEF Escape, TwiceEach, Twice
  <1>2. \A i \in 1..Len(t) : Twice(t[i]) \in Text
    BY TwiceType DEF Text
  <1>3. TwiceEach(t) \in Seq(Text)
    BY <1>2 DEF TwiceEach, Text
  <1>4. TwiceEach(Append(t, c)) = Append(TwiceEach(t), Twice(c))
    BY DEF TwiceEach, Text
  <1>5. Twice(c) \in Text
    BY TwiceType
  <1>6. FlattenSeq(TwiceEach(t)) \in Text
    BY <1>3, FlattenType DEF Text
  <1>7. FlattenSeq(Append(TwiceEach(t), Twice(c))) = FlattenSeq(TwiceEach(t)) \o Twice(c)
    BY <1>3, <1>5, FlattenAppend DEF Text
  <1>8. Escape(<< >>) = << >>
    BY DEF Escape, FlattenSeq
  <1>9. QED
    BY <1>1, <1>4, <1>6, <1>7, <1>8

\* A segment, written, is a text.
LEMMA WrittenType ==
  ASSUME NEW e \in Segment
  PROVE  Written(e) \in Text
  <1>1. e.data \in Text
    BY DEF Segment
  <1>2. Escape(e.data) \in Text
    BY <1>1, CharsAre, EscapeStep
  <1>3. <<"{">> \in Text /\ <<"}">> \in Text
    BY CharsAre, OneIsText
  <1>4. <<"{">> \o e.data \o <<"}">> \in Text
    BY <1>1, <1>3, TextJoin
  <1>5. QED
    BY <1>2, <1>4 DEF Written

\* One segment more in what Write writes
LEMMA WriteStep ==
  ASSUME NEW s \in Segments, NEW e \in Segment
  PROVE  /\ Write(<< >>) = << >> /\ Write(s) \in Text
         /\ Write(Append(s, e)) = Write(s) \o Written(e)
  <1>1. Write(s) = FlattenSeq(WrittenEach(s)) /\ Write(Append(s, e)) = FlattenSeq(WrittenEach(Append(s, e)))
    BY DEF Write, WrittenEach, Written
  <1>2. \A i \in 1..Len(s) : Written(s[i]) \in Text
    BY WrittenType DEF Segments
  <1>3. WrittenEach(s) \in Seq(Text)
    BY <1>2 DEF WrittenEach, Segments
  <1>4. WrittenEach(Append(s, e)) = Append(WrittenEach(s), Written(e))
    BY DEF WrittenEach, Segments
  <1>5. Written(e) \in Text
    BY WrittenType
  <1>6. FlattenSeq(WrittenEach(s)) \in Text
    BY <1>3, FlattenType DEF Text
  <1>7. FlattenSeq(Append(WrittenEach(s), Written(e))) = FlattenSeq(WrittenEach(s)) \o Written(e)
    BY <1>3, <1>5, FlattenAppend DEF Text
  <1>8. Write(<< >>) = << >>
    BY DEF Write, FlattenSeq
  <1>9. QED
    BY <1>1, <1>4, <1>6, <1>7, <1>8

-----------------------------------------------------------------------------
\* Between two characters: in an exact text, in a name, behind a name.
ExactAt(p, g, t) ==
  p \in ParserState /\ p.mode = "exact" /\ ~p.half /\ p.segments = g /\ p.text = t
NameAt(p, g, n) ==
  p \in ParserState /\ p.mode = "name" /\ ~p.half /\ p.segments = g /\ p.text = << >> /\ p.name = n
ClosedAt(p, g) ==
  p \in ParserState /\ p.mode = "closed" /\ ~p.half /\ p.segments = g /\ p.text = << >>

\* A character of an exact text, written, is read as that character.
LEMMA ReadTwice ==
  ASSUME NEW p, NEW g, NEW t \in Text, ExactAt(p, g, t), NEW c \in Char
  PROVE  ExactAt(After(p, Twice(c)), g, Append(t, c))
  <1>1. /\ p \in ParserState /\ p.mode = "exact" /\ ~p.half /\ p.segments = g /\ p.text = t
    BY DEF ExactAt
  <1>2. PICK z \in Text : z = Append(t, c)
    BY TextAppend
  <1>3. CASE c = "{"
    <2>1. PICK q : q = [p EXCEPT !.mode = "open", !.half = FALSE]
      OBVIOUS
    <2>2. ReadChar(p, c) = q
      BY <1>1, <1>3, <2>1 DEF ReadChar
    <2>3. q \in ParserState /\ q.mode = "open" /\ ~q.half /\ q.segments = g /\ q.text = t
      BY <1>1, <2>1 DEF ParserState, Modes
    <2>4. PICK r : r = [q EXCEPT !.mode = "exact", !.text = z]
      OBVIOUS
    <2>5. ReadChar(q, c) = r
      BY <1>2, <1>3, <2>3, <2>4 DEF ReadChar
    <2>6. ExactAt(r, g, z)
      BY <2>3, <2>4 DEF ExactAt, ParserState, Modes
    <2>7. After(p, Twice(c)) = r
      BY <1>3, <2>2, <2>5, AfterTwo DEF Twice
    <2>8. QED
      BY <1>2, <2>6, <2>7
  <1>4. CASE c = "}"
    <2>1. PICK q : q = [p EXCEPT !.text = z, !.half = TRUE]
      OBVIOUS
    <2>2. ReadChar(p, c) = q
      BY <1>1, <1>2, <1>4, <2>1 DEF ReadChar
    <2>3. q \in ParserState /\ q.mode = "exact" /\ q.half /\ q.segments = g /\ q.text = z
      BY <1>1, <2>1 DEF ParserState, Modes
    <2>4. PICK r : r = [q EXCEPT !.half = FALSE]
      OBVIOUS
    <2>5. ReadChar(q, c) = r
      BY <1>4, <2>3, <2>4 DEF ReadChar
    <2>6. ExactAt(r, g, z)
      BY <2>3, <2>4 DEF ExactAt, ParserState, Modes
    <2>7. After(p, Twice(c)) = r
      BY <1>4, <2>2, <2>5, AfterTwo DEF Twice
    <2>8. QED
      BY <1>2, <2>6, <2>7
  <1>5. CASE c # "{" /\ c # "}"
    <2>1. PICK q : q = [p EXCEPT !.text = z, !.half = FALSE]
      OBVIOUS
    <2>2. ReadChar(p, c) = q
      BY <1>1, <1>2, <1>5, <2>1 DEF ReadChar
    <2>3. ExactAt(q, g, z)
      BY <1>1, <2>1 DEF ExactAt, ParserState, Modes
    <2>4. After(p, Twice(c)) = q
      BY <1>5, <2>2, AfterOne DEF Twice
    <2>5. QED
      BY <1>2, <2>3, <2>4
  <1>6. QED
    BY <1>3, <1>4, <1>5

\* The slash behind a name begins an exact text.
LEMMA ReadSlash ==
  ASSUME NEW p, NEW g, ClosedAt(p, g), NEW c \in Char, c = "/"
  PROVE  ExactAt(After(p, Twice(c)), g, <<c>>)
  <1>1. /\ p \in ParserState /\ p.mode = "closed" /\ ~p.half /\ p.segments = g
    BY DEF ClosedAt
  <1>2. PICK z \in Text : z = <<c>> /\ z = <<"/">>
    BY OneIsText
  <1>3. PICK q : q = [p EXCEPT !.mode = "exact", !.text = z]
    OBVIOUS
  <1>4. ReadChar(p, c) = q
    BY <1>1, <1>2, <1>3 DEF ReadChar
  <1>5. ExactAt(q, g, z)
    BY <1>1, <1>3 DEF ExactAt, ParserState, Modes
  <1>6. After(p, Twice(c)) = q
    BY <1>4, AfterOne DEF Twice
  <1>7. QED
    BY <1>2, <1>5, <1>6

\* An exact text, written, is read as that text.
LEMMA ReadExactText ==
  ASSUME NEW p, NEW g, NEW t \in Text, t # << >>,
         ExactAt(p, g, << >>) \/ (ClosedAt(p, g) /\ t[1] = "/")
  PROVE  ExactAt(After(p, Escape(t)), g, t)
  <1> DEFINE Is(k) == ExactAt(After(p, Escape(Up(t, k + 1))), g, Up(t, k + 1))
             S == {k \in Nat : k + 1 <= Len(t) => Is(k)}
  <1>0. PICK l \in Nat : l + 1 = Len(t) /\ Up(t, l + 1) = t /\ Up(t, 0) = << >> /\ 0 + 1 <= Len(t)
    <2>1. PICK n \in Nat : n = Len(t) /\ n # 0 /\ Up(t, n) = t /\ Up(t, 0) = << >>
      BY UpEnds DEF Text
    <2>2. n - 1 \in Nat /\ n - 1 + 1 = n /\ 0 + 1 <= n
      BY <2>1
    <2>3. QED
      BY <2>1, <2>2
  <1>1. 0 \in S
    <2>1. PICK c \in Char : c = t[1] /\ Up(t, 0 + 1) = Append(<< >>, c)
      <3>1. t[0 + 1] \in Char /\ Up(t, 0 + 1) = Append(Up(t, 0), t[0 + 1])
        BY <1>0, TextUp
      <3>2. 0 + 1 = 1
        OBVIOUS
      <3>3. QED
        BY <1>0, <3>1, <3>2
    <2>2. << >> \in Text /\ Append(<< >>, c) = <<c>>
      BY DEF Text
    <2>3. Escape(Append(<< >>, c)) = Twice(c)
      <3>1. Escape(Append(<< >>, c)) = << >> \o Twice(c)
        BY <2>2, EscapeStep
      <3>2. << >> \o Twice(c) = Twice(c)
        BY TwiceType DEF Text
      <3>3. QED
        BY <3>1, <3>2
    <2>4. CASE ExactAt(p, g, << >>)
      BY <2>1, <2>2, <2>3, <2>4, ReadTwice
    <2>5. CASE ClosedAt(p, g) /\ t[1] = "/"
      BY <2>1, <2>2, <2>3, <2>5, ReadSlash
    <2>6. QED
      BY <2>4, <2>5
  <1>2. ASSUME NEW k \in Nat, k \in S PROVE k + 1 \in S
    <2> SUFFICES ASSUME k + 1 + 1 <= Len(t) PROVE Is(k + 1)
      OBVIOUS
    <2>1. k + 1 <= Len(t) /\ k + 1 \in Nat
      BY <1>0
    <2>2. PICK j \in Nat : j = k + 1
      BY <2>1
    <2>3. ExactAt(After(p, Escape(Up(t, j))), g, Up(t, j))
      BY <1>2, <2>1, <2>2
    <2>4. PICK u \in Text, c \in Char : u = Up(t, j) /\ c = t[j + 1] /\ Up(t, j + 1) = Append(u, c)
      BY <2>2, TextUp
    <2>5. ExactAt(After(After(p, Escape(u)), Twice(c)), g, Append(u, c))
      BY <2>3, <2>4, ReadTwice
    <2>6. Escape(Append(u, c)) = Escape(u) \o Twice(c) /\ Escape(u) \in Text /\ Twice(c) \in Text
      BY EscapeStep, TwiceType
    <2>7. After(p, Escape(Append(u, c))) = After(After(p, Escape(u)), Twice(c))
      BY <2>6, AfterCat
    <2>8. QED
      BY <2>2, <2>4, <2>5, <2>7
  <1> HIDE DEF S
  <1>3. \A k \in Nat : k \in S
    BY <1>1, <1>2, Reading!SetInduction
  <1>4. l + 1 <= Len(t)
    BY <1>0
  <1>5. QED
    BY <1>0, <1>3, <1>4 DEF S

\* A list of segments with one more
LEMMA SegmentsAppend ==
  ASSUME NEW s \in Segments, NEW e \in Segment
  PROVE  Append(s, e) \in Segments
  BY DEF Segments

\* Flush, whatever the segments are
LEMMA FlushKeeps ==
  ASSUME NEW p \in ParserState
  PROVE  /\ Flush(p) \in ParserState /\ Flush(p).text = << >>
         /\ Flush(p).mode = p.mode /\ Flush(p).half = p.half
  <1>1. p.text \in Text /\ p.segments \in Segments /\ << >> \in Text
    BY DEF ParserState, Text
  <1>2. CASE p.text = << >>
    BY <1>2 DEF Flush
  <1>3. CASE p.text # << >>
    <2>1. Exact(p.text) \in Segment
      BY <1>1 DEF Exact, Segment
    <2>2. PICK g \in Segments : g = Append(p.segments, Exact(p.text))
      BY <1>1, <2>1, SegmentsAppend
    <2>3. Flush(p) = [p EXCEPT !.segments = g, !.text = << >>]
      BY <1>3, <2>2 DEF Flush
    <2>4. QED
      BY <1>1, <2>3 DEF ParserState
  <1>4. QED
    BY <1>2, <1>3

\* What Flush makes of the segments depends on them and the text.
LEMMA FlushSegments ==
  ASSUME NEW p \in ParserState
  PROVE  Flush(p).segments = IF p.text = << >> THEN p.segments ELSE Append(p.segments, Exact(p.text))
  BY DEF Flush, ParserState

\* A character of a name
LEMMA ReadNameChar ==
  ASSUME NEW p, NEW g, NEW n \in Text, NameAt(p, g, n), NEW c \in Char, c # "}"
  PROVE  NameAt(ReadName(p, c), g, Append(n, c))
  <1>1. PICK z \in Text : z = Append(n, c)
    BY TextAppend
  <1>2. PICK q : q = [p EXCEPT !.name = z]
    OBVIOUS
  <1>3. ReadName(p, c) = q
    BY <1>1, <1>2 DEF ReadName, NameAt
  <1>4. NameAt(q, g, z)
    BY <1>2 DEF NameAt, ParserState
  <1>5. QED
    BY <1>1, <1>3, <1>4

\* The brace that ends a name
LEMMA ReadNameEnd ==
  ASSUME NEW p, NEW g \in Segments, NEW n \in Text, NameAt(p, g, n), Placeholder(n) \notin Range(g)
  PROVE  ClosedAt(ReadName(p, "}"), Append(g, Placeholder(n)))
  <1>1. p \in ParserState /\ ~p.half /\ p.segments = g /\ p.text = << >> /\ p.name = n
    BY DEF NameAt
  <1>2. Placeholder(n) \in Segment
    BY DEF Placeholder, Segment
  <1>3. PICK h \in Segments : h = Append(g, Placeholder(n))
    BY <1>2, SegmentsAppend
  <1>4. PICK q : q = [p EXCEPT !.mode = "closed", !.segments = h]
    OBVIOUS
  <1>5. ReadName(p, "}") = q
    BY <1>1, <1>3, <1>4 DEF ReadName, CloseName
  <1>6. ClosedAt(q, h)
    BY <1>1, <1>4 DEF ClosedAt, ParserState, Modes
  <1>7. QED
    BY <1>3, <1>5, <1>6

\* In front of a name: a lone brace was read.
OpenAt(p, g) == p \in ParserState /\ p.mode = "open" /\ ~p.half /\ Flush(p).segments = g

\* The first character of a name, or the brace of an empty one
LEMMA ReadOpen ==
  ASSUME NEW p, NEW g, OpenAt(p, g), NEW c \in Char, c # "{"
  PROVE  ReadChar(p, c) = ReadName(Named(p), c) /\ NameAt(Named(p), g, << >>)
  <1>1. p \in ParserState /\ p.mode = "open" /\ ~p.half /\ Flush(p).segments = g
    BY DEF OpenAt
  <1>2. ReadChar(p, c) = ReadName(Named(p), c)
    BY <1>1 DEF ReadChar, Named
  <1>3. PICK f \in ParserState : f = Flush(p) /\ f.text = << >> /\ ~f.half /\ f.segments = g
    BY <1>1, FlushKeeps
  <1>4. << >> \in Text
    BY CharsAre, TextCat, OneIsText
  <1>5. PICK q : q = [f EXCEPT !.mode = "name", !.name = << >>]
    OBVIOUS
  <1>6. NameAt(q, g, << >>)
    BY <1>3, <1>4, <1>5 DEF NameAt, ParserState, Modes
  <1>7. Named(p) = q
    BY <1>3, <1>5 DEF Named
  <1>8. QED
    BY <1>2, <1>6, <1>7

\* What stands behind the name n is read as behind a name.
InName(p, g, n, c) ==
  \E q : NameAt(q, g, n) /\ ReadChar(After(p, n), c) = ReadName(q, c)

\* A name behind its brace is read to its end.
LEMMA ReadNameText ==
  ASSUME NEW p, NEW g, OpenAt(p, g), NEW n \in Text, NameOK(n)
  PROVE  \A c \in Char : c # "{" \/ n # << >> => InName(p, g, n, c)
  <1> DEFINE Is(k) == \A c \in Char : c # "{" \/ k # 0 =>
                        \E q : /\ NameAt(q, g, Up(n, k))
                               /\ ReadChar(After(p, Up(n, k)), c) = ReadName(q, c)
             S == {k \in Nat : k <= Len(n) => Is(k)}
  <1> HIDE DEF Is
  <1>0. PICK l \in Nat : l = Len(n) /\ Up(n, 0) = << >> /\ Up(n, l) = n /\ (n # << >> => l # 0)
    BY UpEnds DEF Text
  <1>1. 0 \in S
    <2>1. Is(0)
      BY <1>0, ReadOpen, AfterNone DEF Is
    <2>2. QED
      BY <2>1
  <1>2. ASSUME NEW k \in Nat, k \in S PROVE k + 1 \in S
    <2> SUFFICES ASSUME k + 1 <= Len(n) PROVE Is(k + 1)
      OBVIOUS
    <2>1. Is(k)
      <3>1. k <= Len(n)
        BY <1>0
      <3>2. QED
        BY <1>2, <3>1
    <2>2. PICK u \in Text, d \in Char : u = Up(n, k) /\ d = n[k + 1] /\ Up(n, k + 1) = Append(u, d)
      BY TextUp
    <2>3. d # "}" /\ (d # "{" \/ k # 0)
      <3>1. k + 1 \in 1..Len(n) /\ n # << >> /\ (k = 0 => k + 1 = 1)
        BY <1>0
      <3>2. QED
        BY <2>2, <3>1, Zenon DEF NameOK
    <2>4. PICK q : NameAt(q, g, u) /\ ReadChar(After(p, u), d) = ReadName(q, d)
      BY <2>1, <2>2, <2>3 DEF Is
    <2>5. NameAt(ReadName(q, d), g, Append(u, d))
      BY <2>3, <2>4, ReadNameChar
    <2>6. PICK r : r = ReadName(q, d) /\ r = After(p, Append(u, d)) /\ NameAt(r, g, Append(u, d))
      BY <2>4, <2>5, AfterAppend
    <2>7. \A c : ReadChar(r, c) = ReadName(r, c)
      BY <2>6 DEF ReadChar, NameAt
    <2>8. QED
      BY <2>2, <2>6, <2>7, Zenon DEF Is
  <1> HIDE DEF S
  <1>3. \A k \in Nat : k \in S
    BY <1>1, <1>2, Reading!SetInduction
  <1>4. Is(l)
    BY <1>0, <1>3 DEF S
  <1>5. QED
    BY <1>0, <1>4, Zenon DEF Is, InName

\* The brace in front of a name
LEMMA ReadBrace ==
  ASSUME NEW p, NEW g, p \in ParserState, p.mode = "exact", ~p.half, Flush(p).segments = g
  PROVE  OpenAt(ReadChar(p, "{"), g)
  <1>1. PICK q : q = [p EXCEPT !.mode = "open", !.half = FALSE]
    OBVIOUS
  <1>2. ReadChar(p, "{") = q
    BY <1>1 DEF ReadChar
  <1>3. q \in ParserState /\ q.mode = "open" /\ ~q.half /\ q.segments = p.segments /\ q.text = p.text
    BY <1>1 DEF ParserState, Modes
  <1>4. Flush(q).segments = g
    BY <1>3, FlushSegments
  <1>5. QED
    BY <1>2, <1>3, <1>4 DEF OpenAt

\* A placeholder, written, is read as that placeholder.
LEMMA ReadPlaceholderText ==
  ASSUME NEW p, NEW g \in Segments, p \in ParserState, p.mode = "exact", ~p.half,
         Flush(p).segments = g, NEW n \in Text, NameOK(n), Placeholder(n) \notin Range(g)
  PROVE  ClosedAt(After(p, <<"{">> \o n \o <<"}">>), Append(g, Placeholder(n)))
  <1>1. PICK b \in Text, e \in Text : b = <<"{">> /\ e = <<"}">>
    BY CharsAre, OneIsText
  <1>2. PICK q : q = After(p, b) /\ OpenAt(q, g)
    BY <1>1, CharsAre, AfterOne, ReadBrace
  <1>3. After(p, b \o n \o e) = After(After(q, n), e)
    BY <1>2, AfterCat, TextJoin
  <1>4. After(After(q, n), e) = ReadChar(After(q, n), "}")
    BY <1>1, CharsAre, AfterOne
  <1>5. PICK r : NameAt(r, g, n) /\ ReadChar(After(q, n), "}") = ReadName(r, "}")
    <2>1. PICK c \in Char : c = "}" /\ c # "{"
      BY CharsAre
    <2>2. \A d \in Char : d # "{" \/ n # << >> => InName(q, g, n, d)
      BY <1>2, ReadNameText
    <2>3. QED
      BY <2>1, <2>2, Zenon DEF InName
  <1>6. ClosedAt(ReadName(r, "}"), Append(g, Placeholder(n)))
    BY <1>5, ReadNameEnd
  <1>7. QED
    BY <1>1, <1>3, <1>4, <1>5, <1>6

-----------------------------------------------------------------------------
\* After the first k segments, written
Between(p, s, k) ==
  /\ p \in ParserState /\ ~p.half /\ Flush(p).segments = Up(s, k)
  /\ \/ k = 0 /\ ExactAt(p, << >>, << >>)
     \/ k > 0 /\ IsPlaceholder(s[k]) /\ ClosedAt(p, Up(s, k))
     \/ k > 0 /\ ~IsPlaceholder(s[k]) /\ p.mode = "exact"

\* Nothing was read.
LEMMA BetweenStart ==
  ASSUME NEW s \in Segments
  PROVE  Between(Start, s, 0)
  <1>1. << >> \in Text /\ << >> \in Segments
    BY DEF Text, Segments
  <1>2. Start \in ParserState /\ ~Start.half /\ Start.mode = "exact" /\ Start.segments = << >> /\ Start.text = << >>
    BY <1>1 DEF Start, ParserState, Modes
  <1>3. Flush(Start).segments = << >>
    BY <1>2, FlushSegments
  <1>4. Up(s, 0) = << >>
    BY UpEnds DEF Segments
  <1>5. QED
    BY <1>2, <1>3, <1>4 DEF Between, ExactAt

\* One segment more
LEMMA BetweenStep ==
  ASSUME NEW s, SegmentsOK(s), NEW k \in Nat, k + 1 <= Len(s), NEW p, Between(p, s, k)
  PROVE  Between(After(p, Written(s[k + 1])), s, k + 1)
  <1>1. s \in Segments /\ Len(s) \in Nat /\ k + 1 \in 1..Len(s) /\ k + 1 \in DOMAIN s
        /\ k \in 0..Len(s) /\ (k > 0 => k + 1 \in 2..Len(s) /\ k \in 1..Len(s)) /\ k + 1 - 1 = k /\ k + 1 > 0
    BY DEF SegmentsOK, Segments
  <1>2. PICK j \in Nat, e \in Segment, g \in Segments :
          j = k + 1 /\ e = s[j] /\ g = Up(s, k) /\ Up(s, j) = Append(g, e) /\ j - 1 = k /\ j > 0
    <2>1. s[k + 1] \in Segment
      BY <1>1, SegmentAt
    <2>2. Up(s, k) \in Segments /\ Up(s, k + 1) = Append(Up(s, k), s[k + 1])
      BY <1>1, UpIs, UpStep DEF Segments
    <2>3. QED
      BY <1>1, <2>1, <2>2
  <1>3. p \in ParserState /\ ~p.half /\ Flush(p).segments = g
    BY <1>2 DEF Between
  <1>4. e.data \in Text /\ e.type \in {"exact", "placeholder"}
    BY DEF Segment
  <1>5. CASE IsPlaceholder(e)
    <2>1. k > 0 => ~IsPlaceholder(s[k])
      BY <1>1, <1>2, <1>5 DEF SegmentsOK, WellFormed
    <2>2. p.mode = "exact"
      BY <2>1 DEF Between, ExactAt
    <2>3. e = Placeholder(e.data) /\ Written(e) = <<"{">> \o e.data \o <<"}">>
      BY <1>5 DEF IsPlaceholder, Placeholder, Segment, Written
    <2>4. NameOK(e.data)
      BY <1>1, <1>2, <1>5 DEF SegmentsOK
    <2>5. e \notin Range(g)
      <3>1. SUFFICES ASSUME e \in Range(g) PROVE FALSE
        OBVIOUS
      <3>2. PICK i \in DOMAIN g : g[i] = e
        BY <3>1 DEF Range
      <3>3. i \in 1..k /\ g[i] = s[i]
        BY <1>1, <1>2, <3>2, UpIs DEF Segments
      <3>4. i \in 1..Len(s) /\ i # k + 1
        BY <1>1, <3>3
      <3>5. QED
        BY <1>1, <1>2, <1>5, <3>2, <3>3, <3>4 DEF SegmentsOK, Distinct
    <2>6. PICK q : q = After(p, Written(e)) /\ ClosedAt(q, Up(s, j))
      BY <1>2, <1>3, <1>4, <2>2, <2>3, <2>4, <2>5, ReadPlaceholderText
    <2>7. q \in ParserState /\ ~q.half /\ q.segments = Up(s, j) /\ q.text = << >>
      BY <2>6 DEF ClosedAt
    <2>8. Flush(q).segments = Up(s, j)
      BY <2>7, FlushSegments
    <2>9. Between(q, s, j)
      BY <1>2, <1>5, <2>6, <2>7, <2>8 DEF Between
    <2>10. QED
      BY <1>2, <2>6, <2>9
  <1>6. CASE ~IsPlaceholder(e)
    <2>1. e.data # << >>
      BY <1>1, <1>2, <1>6 DEF SegmentsOK, WellFormed
    <2>2. k > 0 => IsPlaceholder(s[k]) /\ e.data[1] = "/"
      BY <1>1, <1>2, <1>6 DEF SegmentsOK, WellFormed
    <2>3. e = Exact(e.data) /\ Written(e) = Escape(e.data)
      BY <1>4, <1>6 DEF IsPlaceholder, Exact, Segment, Written
    <2>4. ExactAt(p, g, << >>) \/ (ClosedAt(p, g) /\ e.data[1] = "/")
      <3>1. Up(s, 0) = << >>
        BY <1>1, UpEnds DEF Segments
      <3>2. CASE k = 0
        BY <1>2, <3>1, <3>2 DEF Between
      <3>3. CASE k # 0
        <4>1. k > 0
          BY <3>3
        <4>2. QED
          BY <1>2, <2>2, <3>3, <4>1 DEF Between
      <3>4. QED
        BY <3>2, <3>3
    <2>5. PICK q : q = After(p, Written(e)) /\ ExactAt(q, g, e.data)
      BY <1>4, <2>1, <2>3, <2>4, ReadExactText
    <2>6. q \in ParserState /\ ~q.half /\ q.segments = g /\ q.text = e.data /\ q.mode = "exact"
      BY <2>5 DEF ExactAt
    <2>7. Flush(q).segments = Append(g, Exact(e.data))
      BY <2>1, <2>6, FlushSegments
    <2>8. Flush(q).segments = Up(s, j)
      BY <1>2, <2>3, <2>7
    <2>9. Between(q, s, j)
      BY <1>2, <1>6, <2>6, <2>8 DEF Between
    <2>10. QED
      BY <1>2, <2>5, <2>9
  <1>7. QED
    BY <1>5, <1>6

\* What is written parses to the same segments.
LEMMA WrittenParses ==
  ASSUME NEW s, SegmentsOK(s)
  PROVE  Parse(Write(s)).segments = s
  <1> DEFINE Is(k) == Between(After(Start, Write(Up(s, k))), s, k)
             S == {k \in Nat : k <= Len(s) => Is(k)}
  <1>0. PICK l \in Nat : l = Len(s) /\ s \in Segments /\ Up(s, 0) = << >> /\ Up(s, l) = s
    BY UpEnds DEF SegmentsOK, Segments
  <1>1. 0 \in S
    <2>1. << >> \in Segments /\ Exact(<< >>) \in Segment
      BY DEF Segments, Exact, Segment, Text
    <2>2. Write(<< >>) = << >>
      BY <2>1, WriteStep
    <2>3. Between(Start, s, 0)
      BY <1>0, BetweenStart
    <2>4. Is(0)
      BY <1>0, <2>2, <2>3, AfterNone
    <2>5. QED
      BY <2>4
  <1>2. ASSUME NEW k \in Nat, k \in S PROVE k + 1 \in S
    <2> SUFFICES ASSUME k + 1 <= Len(s) PROVE Is(k + 1)
      OBVIOUS
    <2>1. k <= Len(s) /\ k \in 0..Len(s) /\ k + 1 \in 1..Len(s)
      BY <1>0
    <2>2. Is(k)
      BY <1>2, <2>1
    <2>3. PICK g \in Segments, e \in Segment : g = Up(s, k) /\ e = s[k + 1] /\ Up(s, k + 1) = Append(g, e)
      <3>1. s[k + 1] \in Segment
        BY <1>0, <2>1, SegmentAt
      <3>2. Up(s, k) \in Segments /\ Up(s, k + 1) = Append(Up(s, k), s[k + 1])
        BY <1>0, <2>1, UpIs, UpStep DEF Segments
      <3>3. QED
        BY <3>1, <3>2
    <2>4. Between(After(After(Start, Write(g)), Written(e)), s, k + 1)
      BY <2>2, <2>3, BetweenStep
    <2>5. Write(Append(g, e)) = Write(g) \o Written(e) /\ Write(g) \in Text /\ Written(e) \in Text
      BY WriteStep, WrittenType
    <2>6. After(Start, Write(Append(g, e))) = After(After(Start, Write(g)), Written(e))
      BY <2>5, AfterCat
    <2>7. QED
      BY <2>3, <2>4, <2>6
  <1> HIDE DEF Is, S
  <1>3. \A k \in Nat : k \in S
    BY <1>1, <1>2, Reading!SetInduction
  <1>4. Is(l)
    BY <1>0, <1>3 DEF S
  <1>5. Flush(After(Start, Write(s))).segments = s
    BY <1>0, <1>4 DEF Is, Between
  <1>6. QED
    BY <1>5, ParseFold DEF Parse, After

-----------------------------------------------------------------------------
(* An entry and the request it matches *)

RouteOK(route) ==
  /\ SegmentsOK(route.segments) /\ Words(route.methods)
  /\ \A i \in 1..Len(route.methods) : route.methods[i] # << >>

\* What an entry is made of
LEMMA CompileIs ==
  ASSUME NEW route
  PROVE  /\ Compile(route).segments = route.segments
         /\ Compile(route).methods = FlattenSeq(WithSpaces(route.methods))
         /\ Compile(route).placeholder_cnt = PlaceholderCount(route.segments)
  BY DEF Compile, WithSpaces

\* The pattern with values is a text.
LEMMA FilledType ==
  ASSUME NEW s \in Segments, NEW n \in 0..Len(s), NEW values,
         ValuesFor(values, PlaceholderCount(Up(s, n)))
  PROVE  Filled(Up(s, n), values) \in Text
  <1>1. n \in Nat /\ n <= Len(s)
    BY DEF Segments
  <1>2. Parts(s, values, n) \in Seq(Text)
    BY <1>1, PartsStep
  <1>3. FlattenSeq(Parts(s, values, n)) \in Text
    BY <1>2, FlattenType DEF Text
  <1>4. QED
    BY <1>3, FilledIs

\* The text that FoundCoversPath speaks of
Covers(segments, path, dict) ==
  /\ Keys(dict) = Names(segments)
  /\ \A i \in DOMAIN Values(dict) : ValueOK(Values(dict)[i])
  /\ \E n \in 0..Len(segments) :
       /\ \A i \in n+1..Len(segments) : ~IsPlaceholder(segments[i])
       /\ Filled(Up(segments, n), Values(dict)) = path

\* A matching entry covers the path.
LEMMA MatchCovers ==
  ASSUME NEW route, RouteOK(route), NEW path \in Text, NEW method,
         EntryMatches(Compile(route), path, method)
  PROVE  Covers(route.segments, path, MatchSegments(route.segments, path).dict)
  <1>1. PICK s \in Segments : s = route.segments
    BY DEF RouteOK, SegmentsOK
  <1>2. PICK m \in MatchState, n \in 0..Len(s) :
          m = MatchSegments(s, path) /\ Reads(s, path, Len(s), m, n)
    BY LoopCovers DEF Covered
  <1>3. m.rest = << >> /\ Len(m.dict) = PlaceholderCount(s)
    BY <1>1, <1>2, CompileIs DEF EntryMatches
  <1>4. PICK d \in Seq(Text \X Text), V \in Seq(Text) :
          d = m.dict /\ V = Values(d) /\ Len(V) = Len(d) /\ Len(Keys(d)) = Len(d) /\ DOMAIN V = 1..Len(d)
    <2>1. m.dict \in Seq(Text \X Text) /\ << >> \in Text
      BY TextCat DEF MatchState, Text
    <2>2. /\ Values(m.dict) \in Seq(Text)
          /\ Len(Keys(m.dict)) = Len(m.dict) /\ Len(Values(m.dict)) = Len(m.dict)
      BY <2>1, DictAppend
    <2>3. QED
      BY <2>1, <2>2
  <1>5. /\ Keys(d) = Names(Up(s, n)) /\ \A i \in 1..Len(d) : ValueOK(V[i])
        /\ Filled(Up(s, n), V) \o << >> = path
    BY <1>2, <1>3, <1>4 DEF Reads
  <1>6. Up(s, n) \in Segments
    BY UpIs DEF Segments
  <1>7. Len(d) = PlaceholderCount(Up(s, n))
    BY <1>4, <1>5, <1>6, NamesAre
  <1>8. \A i \in n+1..Len(s) : ~IsPlaceholder(s[i])
    BY <1>3, <1>4, <1>7, CountUp
  <1>9. Keys(d) = Names(s)
    BY <1>5, <1>8, NamesStay
  <1>10. ValuesFor(V, PlaceholderCount(Up(s, n)))
    BY <1>4, <1>7 DEF ValuesFor
  <1>11. Filled(Up(s, n), V) \in Text
    BY <1>10, FilledType
  <1>12. Filled(Up(s, n), V) = path
    BY <1>5, <1>11, TextCat
  <1>13. Covers(s, path, d)
    BY <1>4, <1>5, <1>8, <1>9, <1>12 DEF Covers
  <1>14. QED
    BY <1>1, <1>2, <1>4, <1>13

\* The joined methods are empty only when there are no methods: this is where a
\* declared method must not be empty.
LEMMA NoWords ==
  ASSUME NEW words, Words(words), \A i \in 1..Len(words) : words[i] # << >>
  PROVE  FlattenSeq(WithSpaces(words)) = << >> <=> words = << >>
  <1>1. words \in Seq(Text) /\ Len(words) \in Nat
    BY DEF Words
  <1>2. ASSUME words # << >>, FlattenSeq(WithSpaces(words)) = << >> PROVE FALSE
    <2>1. 1 \in 1..Len(words)
      BY <1>1, <1>2
    <2>2. PICK w \in Text : w = words[1] /\ w # << >>
      BY <1>1, <2>1
    <2>3. w \in SubSeqs(<< >>)
      BY <1>2, <2>1, <2>2, WordIsJoined
    <2>4. PICK i \in 0..Len(<< >>), j \in 0..Len(<< >>) : w = SubSeq(<< >>, i + 1, j)
      BY <2>3 DEF SubSeqs
    <2>5. i = 0 /\ j = 0
      OBVIOUS
    <2>6. SubSeq(<< >>, 0 + 1, 0) = << >>
      OBVIOUS
    <2>7. QED
      BY <2>2, <2>4, <2>5, <2>6
  <1>3. ASSUME words = << >> PROVE FlattenSeq(WithSpaces(words)) = << >>
    BY <1>3 DEF FlattenSeq, WithSpaces
  <1>4. QED
    BY <1>2, <1>3

\* The request's method ends one of the words.
LEMMA MethodEnds ==
  ASSUME NEW words, Words(words), words # << >>, NEW method, IsToken(method),
         MethodFound(FlattenSeq(WithSpaces(words)), method)
  PROVE  \E b \in 1..Len(words) : IsSuffix(method, words[b])
  <1>1. words \in Seq(Text) /\ Len(words) \in Nat /\ 1 \in 1..Len(words) /\ method \in Text /\ Len(method) \in Nat
    BY TokenIs DEF Words
  <1>2. CASE method = << >>
    <2>1. PICK w \in Text, l \in Nat : w = words[1] /\ l = Len(w)
      BY <1>1 DEF Text
    <2>2. Len(<< >>) = 0 /\ l + 0 = l /\ l <= l /\ 1..0 = {}
      BY <2>1
    <2>3. Occurs(method, w, l)
      BY <1>2, <2>1, <2>2 DEF Occurs
    <2>4. IsSuffix(method, w)
      BY <1>1, <1>2, <2>1, <2>2, <2>3, EndIsSuffix
    <2>5. QED
      BY <1>1, <2>1, <2>4
  <1>3. CASE method # << >>
    <2>1. PICK t \in Text : t = FlattenSeq(WithSpaces(words))
      BY JoinedWords
    <2>2. method \in SubSeqs(t) /\ t[IndexFirstSubSeq(method, t) + Len(method)] = Space
      BY <2>1 DEF MethodFound, Space
    <2>3. PICK o \in Nat : Occurs(method, t, o) /\ IndexFirstSubSeq(method, t) = o + 1
      BY <1>1, <1>3, <2>2, FirstOccurs
    <2>4. t[o + 1 + Len(method)] = Space
      BY <2>2, <2>3
    <2>5. PICK b \in 1..Len(words) : \E p \in Nat :
            /\ Occurs(method, words[b], p)
            /\ p + Len(method) = Len(words[b]) <=> t[o + 1 + Len(method)] = Space
      BY <1>3, <2>1, <2>3, InsideOneWord
    <2>6. PICK p \in Nat : Occurs(method, words[b], p) /\ p + Len(method) = Len(words[b])
      BY <2>4, <2>5
    <2>7. words[b] \in Text
      BY <1>1
    <2>8. QED
      BY <1>1, <2>6, <2>7, EndIsSuffix
  <1>4. QED
    BY <1>2, <1>3

\* A method that is one of the words and inside no other is found.
LEMMA MethodIsFound ==
  ASSUME NEW words, Words(words), NEW method, method # << >>, method \in Range(words),
         \A other \in Range(words) \ {method} : method \notin SubSeqs(other)
  PROVE  MethodFound(FlattenSeq(WithSpaces(words)), method)
  <1>1. words \in Seq(Text) /\ Len(words) \in Nat /\ DOMAIN words = 1..Len(words)
    BY DEF Words
  <1>2. PICK a \in 1..Len(words) : words[a] = method
    BY <1>1 DEF Range
  <1>3. IsToken(method) /\ method \in Text /\ Len(method) \in Nat
    BY <1>2, TokenIs DEF Words
  <1>4. PICK t \in Text : t = FlattenSeq(WithSpaces(words))
    BY JoinedWords
  <1>5. method \in SubSeqs(t)
    BY <1>2, <1>4, WordIsJoined
  <1>6. PICK o \in Nat : Occurs(method, t, o) /\ IndexFirstSubSeq(method, t) = o + 1
    BY <1>3, <1>5, FirstOccurs
  <1>7. PICK b \in 1..Len(words) : \E p \in Nat :
          /\ Occurs(method, words[b], p)
          /\ p + Len(method) = Len(words[b]) <=> t[o + 1 + Len(method)] = Space
    BY <1>3, <1>4, <1>6, InsideOneWord
  <1>8. PICK w \in Text, p \in Nat :
          /\ w = words[b] /\ Occurs(method, w, p)
          /\ p + Len(method) = Len(w) <=> t[o + 1 + Len(method)] = Space
    BY <1>1, <1>7
  <1>9. w = method
    <2>1. method \in SubSeqs(w)
      BY <1>3, <1>8, OccursIsSubSeq
    <2>2. w \in Range(words)
      BY <1>1, <1>8 DEF Range
    <2>3. QED
      BY <2>1, <2>2
  <1>10. p + Len(method) = Len(w)
    BY <1>3, <1>8, <1>9 DEF Occurs
  <1>11. t[o + 1 + Len(method)] = Space
    BY <1>8, <1>10
  <1>12. t[IndexFirstSubSeq(method, t) + Len(method)] = Space
    BY <1>6, <1>11
  <1>13. QED
    BY <1>4, <1>5, <1>12 DEF MethodFound, Space

\* A part of the path is a text.
LEMMA SubSeqsAreTexts ==
  ASSUME NEW t \in Text, NEW v \in SubSeqs(t)
  PROVE  v \in Text
  <1>1. PICK i \in 0..Len(t), j \in 0..Len(t) : v = SubSeq(t, i + 1, j)
    BY DEF SubSeqs
  <1>2. PICK l \in Nat : l = Len(t) /\ i \in Nat /\ j \in Nat /\ j <= l
    BY DEF Text
  <1>3. \A k \in i + 1..j : k \in 1..l
    BY <1>2
  <1>4. \A k \in i + 1..j : t[k] \in Char
    BY <1>2, <1>3 DEF Text
  <1>5. QED
    BY <1>1, <1>2, <1>4 DEF Text

\* A route declared for a request matches it.
LEMMA DeclaredMatches ==
  ASSUME NEW route, RouteOK(route), NEW path \in Text, NEW method, Declared(route, path, method)
  PROVE  EntryMatches(Compile(route), path, method)
  <1>1. PICK s \in Segments : s = route.segments /\ SegmentsOK(s) /\ WellFormed(s)
    BY DEF RouteOK, SegmentsOK
  <1>2. PICK values \in [1..PlaceholderCount(s) -> {v \in SubSeqs(path) : ValueOK(v)}] :
          Filled(s, values) = path
    BY <1>1 DEF Declared
  <1>3. ASSUME NEW j \in 1..PlaceholderCount(s) PROVE values[j] \in Text /\ ValueOK(values[j])
    <2>1. values[j] \in SubSeqs(path) /\ ValueOK(values[j])
      BY <1>2
    <2>2. QED
      BY <2>1, SubSeqsAreTexts
  <1>4. MadeOf(s, values, path)
    BY <1>1, <1>2, <1>3 DEF MadeOf
  <1>5. PICK m : m = MatchSegments(s, path) /\ m.rest = << >> /\ ~m.empty /\ Len(m.dict) = PlaceholderCount(s)
    BY <1>4, LoopKeeps
  <1>6. Compile(route).methods = << >> \/ MethodFound(Compile(route).methods, method)
    <2>1. Words(route.methods) /\ \A i \in 1..Len(route.methods) : route.methods[i] # << >>
      BY DEF RouteOK
    <2>2. CASE route.methods = << >>
      BY <2>1, <2>2, NoWords, CompileIs
    <2>3. CASE /\ method \in Range(route.methods)
               /\ \A other \in Range(route.methods) \ {method} : method \notin SubSeqs(other)
      <3>1. method # << >>
        BY <2>1, <2>3 DEF Range, Words
      <3>2. QED
        BY <2>1, <2>3, <3>1, MethodIsFound, CompileIs
    <2>4. QED
      BY <2>2, <2>3 DEF Declared
  <1>7. QED
    BY <1>1, <1>5, <1>6, CompileIs DEF EntryMatches

-----------------------------------------------------------------------------
(* What a call of match_request gives *)

\* A set of positions has a first one.
LEMMA MinIs ==
  ASSUME NEW T, T \subseteq Nat, T # {}
  PROVE  Min(T) \in T /\ \A y \in T : Min(T) <= y
  <1>1. \E x \in T : \A y \in T : x <= y
    BY Reading!LeastElement
  <1>2. QED
    BY <1>1 DEF Min

\* Match gives the first entry that matches.
LEMMA MatchIs ==
  ASSUME NEW entries, NEW n \in Nat, DOMAIN entries = 1..n, NEW path, NEW method
  PROVE  LET found == Match(entries, path, method) IN
         /\ found \in 0..n
         /\ found # 0 => EntryMatches(entries[found], path, method)
         /\ \A i \in 1..n : EntryMatches(entries[i], path, method) => found # 0 /\ found <= i
  <1> DEFINE fits == {i \in DOMAIN entries : EntryMatches(entries[i], path, method)}
  <1>1. Match(entries, path, method) = IF fits = {} THEN 0 ELSE Min(fits)
    BY DEF Match
  <1>2. CASE fits = {}
    BY <1>1, <1>2
  <1>3. CASE fits # {}
    <2>1. fits \subseteq Nat
      OBVIOUS
    <2>2. PICK f : f = Min(fits)
      OBVIOUS
    <2>3. f \in fits /\ \A y \in fits : f <= y
      BY <1>3, <2>1, <2>2, MinIs
    <2>4. Match(entries, path, method) = f /\ f \in 1..n /\ f # 0
      BY <1>1, <1>3, <2>2, <2>3
    <2>5. QED
      BY <2>3, <2>4
  <1>4. QED
    BY <1>2, <1>3

\* A decoded path is a text.
LEMMA DecodeType ==
  ASSUME NEW target \in Seq(STRING)
  PROVE  Decode(target) \in Text
  <1>1. PICK t \in Text, l \in Nat : t = target /\ l = Len(t) /\ t \in Seq(Char)
    BY StringsAreTexts DEF Text
  <1> DEFINE cut == {i \in DOMAIN t : t[i] = "?"}
             path == IF cut = {} THEN t ELSE SubSeq(t, 1, Min(cut) - 1)
             decoded == [i \in DOMAIN path |-> IF path[i] = "%2F" THEN "/" ELSE path[i]]
  <1>3. Decode(target) = decoded
    BY <1>1 DEF Decode
  <1>2. path \in Text
    <2>1. CASE cut = {}
      BY <2>1
    <2>2. CASE cut # {}
      <3>1. cut \subseteq Nat
        BY <1>1
      <3>2. Min(cut) \in cut
        BY <2>2, <3>1, MinIs
      <3>20. cut \subseteq 1..l
        BY <1>1
      <3> HIDE DEF cut
      <3>3. PICK k \in 1..l : k = Min(cut)
        BY <3>2, <3>20
      <3>4. PICK j \in 0..l : j = k - 1
        BY <3>3
      <3>5. SubSeq(t, 1, j) \in Text
        BY <1>1, <3>4, PrefixText
      <3>6. QED
        BY <2>2, <3>3, <3>4, <3>5
    <2>3. QED
      BY <2>1, <2>2
  <1> HIDE DEF path
  <1>4. PICK p \in Seq(Char) : p = path
    BY <1>2 DEF Text
  <1>5. [i \in DOMAIN p |-> IF p[i] = "%2F" THEN "/" ELSE p[i]] \in Seq(Char)
    <2> DEFINE e(i) == IF p[i] = "%2F" THEN "/" ELSE p[i]
    <2>1. ASSUME NEW i \in DOMAIN p PROVE e(i) \in Char
      <3>1. p[i] \in Char
        OBVIOUS
      <3>2. QED
        BY <3>1, CharsAre, Zenon
    <2> HIDE DEF e
    <2>2. [i \in DOMAIN p |-> e(i)] \in Seq(Char)
      BY <2>1
    <2>3. QED
      BY <2>2 DEF e
  <1>6. QED
    BY <1>3, <1>4, <1>5 DEF Text

\* What match_request gives for these entries
Result(entries, path, method) ==
  LET found == Match(entries, path, method)
  IN [path |-> path, method |-> method, found |-> found,
      dict |-> IF found = 0 THEN <<>> ELSE MatchSegments(entries[found].segments, path).dict]

-----------------------------------------------------------------------------
(* The invariant *)

Route == [segments : Segments, methods : Seq(Text)]

\* What was added are routes in order.
RoutesOK ==
  /\ routes \in Seq(Route) /\ Len(routes) <= MaxRoutes
  /\ \A i \in 1..Len(routes) : RouteOK(routes[i])

\* The entries are the first routes, compiled.
MatcherOK ==
  \E n \in 0..Len(routes) :
    /\ Len(matcher) = n /\ DOMAIN matcher = 1..n
    /\ \A i \in 1..n : matcher[i] = Compile(routes[i])

\* The outcome is that of a call with these entries.
OutcomeOK ==
  outcome = NoOutcome \/ \E path, method \in Text :
                           IsToken(method) /\ outcome = Result(matcher, path, method)

Inv == RoutesOK /\ MatcherOK /\ OutcomeOK

\* There are no routes at first.
LEMMA InvInit == Init => Inv
  <1> SUFFICES ASSUME Init PROVE Inv
    OBVIOUS
  <1>1. routes = << >> /\ matcher = << >> /\ outcome = NoOutcome
    BY DEF Init
  <1>2. << >> \in Seq(Route) /\ Len(<< >>) = 0 /\ 1..0 = {} /\ DOMAIN << >> = 1..0 /\ 0 \in 0..0
    OBVIOUS
  <1>3. RoutesOK
    BY <1>1, <1>2, RouterAssumption DEF RoutesOK
  <1>4. MatcherOK
    BY <1>1, <1>2 DEF MatcherOK
  <1>5. QED
    BY <1>1, <1>3, <1>4 DEF Inv, OutcomeOK

\* A declared route, once parsed, is one.
LEMMA NewRouteOK ==
  ASSUME NEW declaration \in Declarations, Parses(declaration[1]),
         NEW order \in SetToSeqs(declaration[2])
  PROVE  LET route == [segments |-> Parse(declaration[1]).segments, methods |-> order]
         IN route \in Route /\ RouteOK(route)
  <1>1. PICK pattern \in Text, methods \in {declaration[2]} :
          /\ pattern = declaration[1] /\ IsFiniteSet(methods)
          /\ \A method \in methods : IsToken(method) /\ method # <<>>
    BY RouterAssumption, StringsAreTexts
  <1>2. PICK s \in Segments : s = Parse(pattern).segments /\ SegmentsOK(s)
    BY <1>1, ParsedOK DEF SegmentsOK
  <1>3. PICK n \in Nat : n = Cardinality(methods)
    BY <1>1, FS_CardinalityType
  <1>4. order \in [1..n -> methods]
    BY <1>1, <1>3 DEF SetToSeqs
  <1>5. \A i \in 1..n : order[i] \in Text /\ IsToken(order[i]) /\ order[i] # << >>
    BY <1>1, <1>4, TokenIs
  <1>6. order \in Seq(Text) /\ Len(order) = n
    BY <1>4, <1>5
  <1>7. Words(order) /\ \A i \in 1..Len(order) : order[i] # << >>
    BY <1>5, <1>6 DEF Words
  <1>8. PICK route \in Route : route = [segments |-> s, methods |-> order]
    BY <1>6 DEF Route
  <1>9. RouteOK(route)
    BY <1>2, <1>7, <1>8 DEF RouteOK
  <1>10. QED
    BY <1>1, <1>2, <1>8, <1>9

\* One route more
LEMMA RoutesAppend ==
  ASSUME RoutesOK, NEW route \in Route, RouteOK(route), Len(routes) < MaxRoutes,
         routes' = Append(routes, route)
  PROVE  /\ RoutesOK' /\ Len(routes') \in Nat /\ Len(routes) \in Nat /\ Len(routes) <= Len(routes')
         /\ \A i \in 1..Len(routes) : routes'[i] = routes[i]
  <1>1. PICK n \in Nat : n = Len(routes) /\ routes \in Seq(Route)
    BY DEF RoutesOK
  <1>2. /\ routes' \in Seq(Route) /\ Len(routes') = n + 1 /\ routes'[n + 1] = route
        /\ \A i \in 1..n : routes'[i] = routes[i]
    BY <1>1
  <1>3. n + 1 <= MaxRoutes
    BY <1>1, RouterAssumption
  <1>4. ASSUME NEW i \in 1..(n + 1) PROVE RouteOK(routes'[i])
    <2>1. CASE i = n + 1
      BY <1>2, <2>1
    <2>2. CASE i # n + 1
      <3>1. i \in 1..n
        BY <2>2
      <3>2. QED
        BY <1>1, <1>2, <3>1 DEF RoutesOK
    <2>3. QED
      BY <2>1, <2>2
  <1>5. RoutesOK'
    BY <1>2, <1>3, <1>4 DEF RoutesOK
  <1>6. QED
    BY <1>1, <1>2, <1>5

\* Each action keeps the invariant.
LEMMA InvNext == Inv /\ [Next]_vars => Inv'
  <1> SUFFICES ASSUME Inv, [Next]_vars PROVE Inv'
    OBVIOUS
  <1>1. ASSUME NEW declaration \in Declarations, AddRoute(declaration[1], declaration[2])
        PROVE  Inv'
    <2>1. PICK order \in SetToSeqs(declaration[2]) :
            routes' = Append(routes, [segments |-> Parse(declaration[1]).segments,
                                      methods |-> order])
      BY <1>1 DEF AddRoute
    <2>2. matcher' = matcher /\ outcome' = outcome /\ Len(routes) < MaxRoutes /\ Parses(declaration[1])
      BY <1>1 DEF AddRoute
    <2>3. PICK route \in Route : RouteOK(route) /\ routes' = Append(routes, route)
      BY <2>1, <2>2, NewRouteOK
    <2>4. /\ RoutesOK' /\ Len(routes') \in Nat /\ Len(routes) \in Nat /\ Len(routes) <= Len(routes')
          /\ \A i \in 1..Len(routes) : routes'[i] = routes[i]
      BY <2>2, <2>3, RoutesAppend DEF Inv
    <2>5. MatcherOK'
      <3>1. PICK n \in 0..Len(routes) :
              /\ Len(matcher) = n /\ DOMAIN matcher = 1..n
              /\ \A i \in 1..n : matcher[i] = Compile(routes[i])
        BY DEF Inv, MatcherOK
      <3>2. n \in 0..Len(routes') /\ \A i \in 1..n : i \in 1..Len(routes)
        BY <2>4
      <3>3. \A i \in 1..n : matcher[i] = Compile(routes'[i])
        BY <2>4, <3>1, <3>2
      <3>4. QED
        BY <2>2, <3>1, <3>2, <3>3 DEF MatcherOK
    <2>6. OutcomeOK'
      BY <2>2 DEF Inv, OutcomeOK
    <2>7. QED
      BY <2>4, <2>5, <2>6 DEF Inv
  <1>2. CASE GetMatcher
    <2>1. /\ routes' = routes /\ outcome' = NoOutcome
          /\ matcher' = [i \in DOMAIN routes |-> Compile(routes[i])]
      BY <1>2 DEF GetMatcher
    <2>2. PICK n \in Nat : n = Len(routes) /\ DOMAIN routes = 1..n
      BY DEF Inv, RoutesOK
    <2>3. /\ Len(matcher') = n /\ DOMAIN matcher' = 1..n
          /\ \A i \in 1..n : matcher'[i] = Compile(routes'[i])
      BY <2>1, <2>2
    <2>4. MatcherOK'
      BY <2>1, <2>2, <2>3 DEF MatcherOK
    <2>5. RoutesOK'
      BY <2>1 DEF Inv, RoutesOK
    <2>6. QED
      BY <2>1, <2>4, <2>5 DEF Inv, OutcomeOK
  <1>3. ASSUME NEW target \in Targets, NEW method \in Methods, MatchRequest(target, method)
        PROVE  Inv'
    <2>1. routes' = routes /\ matcher' = matcher /\ outcome' = Result(matcher, Decode(target), method)
      BY <1>3 DEF MatchRequest, Result
    <2>2. Decode(target) \in Text /\ method \in Text /\ IsToken(method)
      BY RouterAssumption, DecodeType, TokenIs
    <2>3. OutcomeOK'
      BY <2>1, <2>2 DEF OutcomeOK
    <2>4. RoutesOK' /\ MatcherOK'
      BY <2>1 DEF Inv, RoutesOK, MatcherOK
    <2>5. QED
      BY <2>3, <2>4 DEF Inv
  <1>4. CASE UNCHANGED vars
    BY <1>4 DEF vars, Inv, RoutesOK, MatcherOK, OutcomeOK
  <1>5. QED
    BY <1>1, <1>2, <1>3, <1>4 DEF Next

\* The invariant holds throughout.
LEMMA Invariance == Spec => []Inv
  BY InvInit, InvNext, PTL DEF Spec

-----------------------------------------------------------------------------
(* What the invariant says of a match *)

\* The entry found matches, and none before it does.
LEMMA OutcomeIs ==
  ASSUME Inv, outcome # NoOutcome
  PROVE  \E n \in 0..Len(routes), path \in Text, method \in Text :
           /\ IsToken(method) /\ Len(matcher) = n /\ DOMAIN matcher = 1..n /\ n \in Nat
           /\ outcome.path = path /\ outcome.method = method /\ outcome.found \in 0..n
           /\ outcome.found # 0 =>
                /\ RouteOK(routes[outcome.found])
                /\ EntryMatches(Compile(routes[outcome.found]), path, method)
                /\ matcher[outcome.found] = Compile(routes[outcome.found])
                /\ outcome.dict = MatchSegments(routes[outcome.found].segments, path).dict
           /\ \A i \in 1..n : /\ RouteOK(routes[i])
                              /\ EntryMatches(Compile(routes[i]), path, method) =>
                                   outcome.found # 0 /\ outcome.found <= i
  <1>1. PICK n \in 0..Len(routes) :
          /\ Len(matcher) = n /\ DOMAIN matcher = 1..n
          /\ \A i \in 1..n : matcher[i] = Compile(routes[i])
    BY DEF Inv, MatcherOK
  <1>2. Len(routes) \in Nat /\ n \in Nat /\ \A i \in 1..n : i \in 1..Len(routes)
    BY DEF Inv, RoutesOK
  <1>3. PICK path \in Text, method \in Text : IsToken(method) /\ outcome = Result(matcher, path, method)
    BY DEF Inv, OutcomeOK
  <1>4. PICK f \in 0..n : /\ f = Match(matcher, path, method)
                          /\ f # 0 => EntryMatches(matcher[f], path, method)
                          /\ \A i \in 1..n : EntryMatches(matcher[i], path, method) => f # 0 /\ f <= i
    BY <1>1, <1>2, MatchIs
  <1>5. /\ outcome.path = path /\ outcome.method = method /\ outcome.found = f
        /\ f # 0 => outcome.dict = MatchSegments(matcher[f].segments, path).dict
    BY <1>3, <1>4 DEF Result
  <1>6. \A i \in 1..n : RouteOK(routes[i])
    BY <1>2 DEF Inv, RoutesOK
  <1>7. f # 0 => f \in 1..n
    BY <1>2
  <1>8. f # 0 => matcher[f] = Compile(routes[f]) /\ matcher[f].segments = routes[f].segments
    BY <1>1, <1>7, CompileIs
  <1>9. f # 0 => /\ RouteOK(routes[f])
                 /\ EntryMatches(Compile(routes[f]), path, method)
                 /\ matcher[f] = Compile(routes[f])
                 /\ outcome.dict = MatchSegments(routes[f].segments, path).dict
    BY <1>4, <1>5, <1>6, <1>7, <1>8
  <1>10. \A i \in 1..n : EntryMatches(Compile(routes[i]), path, method) => f # 0 /\ f <= i
    BY <1>1, <1>4
  <1>11. QED
    BY <1>1, <1>2, <1>3, <1>5, <1>6, <1>9, <1>10

\* Before a call nothing is found.
LEMMA NoOutcomeIs ==
  NoOutcome.found = 0
  BY DEF NoOutcome

\* The routes are what parsing and matching rely on (TypeOK, Router.add_route).
THEOREM TypeCorrect == Spec => []TypeOK
  <1>1. Inv => TypeOK
    <2> SUFFICES ASSUME Inv PROVE TypeOK
      OBVIOUS
    <2>1. /\ Len(routes) <= MaxRoutes /\ Len(routes) \in Nat
          /\ \A i \in DOMAIN routes : RouteOK(routes[i])
      BY DEF Inv, RoutesOK
    <2>2. Len(matcher) \in 0..Len(routes)
      BY DEF Inv, MatcherOK
    <2>3. Len(matcher) <= Len(routes) /\ 0 \in 0..Len(matcher)
      BY <2>1, <2>2
    <2>4. outcome.found \in 0..Len(matcher)
      <3>1. CASE outcome = NoOutcome
        BY <2>3, <3>1, NoOutcomeIs
      <3>2. CASE outcome # NoOutcome
        BY <3>2, OutcomeIs
      <3>3. QED
        BY <3>1, <3>2
    <2>5. QED
      BY <2>1, <2>3, <2>4 DEF TypeOK, RouteOK, SegmentsOK
  <1>2. QED
    BY <1>1, Invariance, PTL

\* Whatever pattern was declared, its segments written again parse to the same
\* segments (ParseKeepsMeaning, parse in route.py).
THEOREM ParsingKeepsMeaning == Spec => []ParseKeepsMeaning
  <1>1. Inv => ParseKeepsMeaning
    <2> SUFFICES ASSUME Inv, NEW i \in DOMAIN routes
                 PROVE  Parse(Write(routes[i].segments)).segments = routes[i].segments
      BY DEF ParseKeepsMeaning
    <2>1. SegmentsOK(routes[i].segments)
      BY DEF Inv, RoutesOK, RouteOK
    <2>2. QED
      BY <2>1, WrittenParses
  <1>2. QED
    BY <1>1, Invariance, PTL

\* Whatever routes were added, the one that a request reaches is one for its path
\* and method, with its values in the dictionary (FoundFits, Matcher_match_request).
THEOREM FoundIsFitting == Spec => []FoundFits
  <1>1. Inv => FoundFits
    <2> SUFFICES ASSUME Inv, outcome.found # 0 PROVE FoundCoversPath /\ FoundAcceptsMethod
      BY DEF FoundFits, FoundCoversPath, FoundAcceptsMethod
    <2>1. outcome # NoOutcome
      BY NoOutcomeIs
    <2>2. PICK path \in Text, method \in Text, route \in {routes[outcome.found]} :
            /\ IsToken(method) /\ outcome.path = path /\ outcome.method = method
            /\ RouteOK(route)
            /\ EntryMatches(Compile(route), path, method) /\ Found = Compile(route)
            /\ outcome.dict = MatchSegments(route.segments, path).dict
      BY <2>1, OutcomeIs DEF Found
    <2>3. Covers(route.segments, path, outcome.dict)
      BY <2>2, MatchCovers
    <2>4. FoundCoversPath
      BY <2>2, <2>3, CompileIs DEF FoundCoversPath, Covers, Keys, Values, Up
    <2>5. FoundAcceptsMethod
      <3>1. Words(route.methods) /\ \A i \in 1..Len(route.methods) : route.methods[i] # << >>
        BY <2>2 DEF RouteOK
      <3>2. CASE route.methods = << >>
        <4>1. Range(route.methods) = {}
          BY <3>2 DEF Range
        <4>2. QED
          BY <2>2, <4>1 DEF FoundAcceptsMethod
      <3>3. CASE route.methods # << >>
        <4>1. FlattenSeq(WithSpaces(route.methods)) # << >>
          BY <3>1, <3>3, NoWords
        <4>2. MethodFound(FlattenSeq(WithSpaces(route.methods)), method)
          BY <2>2, <4>1, CompileIs DEF EntryMatches
        <4>3. PICK b \in 1..Len(route.methods) : IsSuffix(method, route.methods[b])
          BY <2>2, <3>1, <3>3, <4>2, MethodEnds
        <4>4. route.methods[b] \in Range(route.methods)
          BY <3>1 DEF Words, Range
        <4>5. QED
          BY <2>2, <4>3, <4>4 DEF FoundAcceptsMethod
      <3>4. QED
        BY <3>2, <3>3
    <2>6. QED
      BY <2>4, <2>5
  <1>2. QED
    BY <1>1, Invariance, PTL

\* Whatever routes were added, a request that one was declared for reaches it or
\* one before it (NoneSkipped, Matcher_match_request).
THEOREM NoneIsSkipped == Spec => []NoneSkipped
  <1>1. Inv => NoneSkipped
    <2> SUFFICES ASSUME Inv, outcome # NoOutcome, NEW i \in DOMAIN matcher,
                        Declared(routes[i], outcome.path, outcome.method)
                 PROVE  outcome.found # 0 /\ outcome.found <= i
      BY DEF NoneSkipped
    <2>1. PICK path \in Text, method \in Text :
            /\ outcome.path = path /\ outcome.method = method /\ RouteOK(routes[i])
            /\ EntryMatches(Compile(routes[i]), path, method) =>
                 outcome.found # 0 /\ outcome.found <= i
      BY OutcomeIs
    <2>2. EntryMatches(Compile(routes[i]), path, method)
      BY <2>1, DeclaredMatches
    <2>3. QED
      BY <2>1, <2>2
  <1>2. QED
    BY <1>1, Invariance, PTL
=============================================================================
