------------------------------ MODULE FoldLaws ------------------------------
(***************************************************************************)
(* Induction over the natural numbers without an operator as a parameter,  *)
(* and what FoldLeft computes.  The operator folded is a constant of this  *)
(* module: INSTANCE FoldLaws WITH Op <- ... gives the laws for one.        *)
(***************************************************************************)
EXTENDS Integers, Sequences, SequencesExt, WellFoundedInduction, TLAPS

CONSTANT Op(_, _)

-----------------------------------------------------------------------------
(* Induction *)

\* A set of natural numbers that is not empty has a least element.
LEMMA LeastElement ==
  ASSUME NEW T, T \subseteq Nat, T # {}
  PROVE  \E x \in T : \A y \in T : x <= y
  <1> DEFINE R == OpToRel(<, Nat)
  <1>1. IsWellFoundedOn(R, Nat)
    BY NatLessThanWellFounded
  <1>2. ASSUME NEW a \in Nat, NEW b \in Nat, a < b PROVE <<a, b>> \in R
    <2>1. <<a, b>>[1] < <<a, b>>[2] /\ <<a, b>> \in Nat \X Nat
      BY <1>2
    <2>2. QED
      BY <2>1, Zenon DEF OpToRel
  <1> HIDE DEF R
  <1>3. PICK x \in T : \A y \in T : ~(<<y, x>> \in R)
    BY <1>1, WFMin
  <1>4. ASSUME NEW y \in T PROVE x <= y
    <2>1. x \in Nat /\ y \in Nat
      OBVIOUS
    <2>2. ~(y < x)
      BY <1>2, <1>3, <2>1, Zenon
    <2>3. QED
      BY <2>1, <2>2
  <1>5. QED
    BY <1>4

\* A set that holds 0 and the successor of each number it holds has them all.
LEMMA SetInduction ==
  ASSUME NEW S, 0 \in S, \A n \in Nat : n \in S => n + 1 \in S
  PROVE  \A n \in Nat : n \in S
  <1> DEFINE T == {n \in Nat : n \notin S}
  <1>1. SUFFICES ASSUME T # {} PROVE FALSE
    OBVIOUS
  <1>2. PICK x \in T : \A y \in T : x <= y
    BY <1>1, LeastElement
  <1>3. x - 1 \in Nat /\ x - 1 \in S
    BY <1>2
  <1>4. QED
    BY <1>2, <1>3

\* A set of numbers up to n that is not empty has a greatest element.
LEMMA GreatestElement ==
  ASSUME NEW n \in Nat, NEW T, T \subseteq 0..n, T # {}
  PROVE  Max(T) \in T /\ \A y \in T : Max(T) >= y
  <1> DEFINE U == {n - x : x \in T}
  <1>1. U \subseteq Nat /\ U # {}
    <2>1. ASSUME NEW x \in T PROVE n - x \in Nat
      <3>1. x \in 0..n
        OBVIOUS
      <3>2. QED
        BY <3>1
    <2>2. QED
      BY <2>1
  <1>2. PICK u \in U : \A v \in U : u <= v
    <2> HIDE DEF U
    <2>1. QED
      BY <1>1, LeastElement
  <1>3. PICK x \in T : u = n - x
    OBVIOUS
  <1>4. ASSUME NEW y \in T PROVE x >= y
    <2>1. n - y \in U
      OBVIOUS
    <2>2. n - x <= n - y /\ x \in 0..n /\ y \in 0..n
      BY <1>2, <1>3, <2>1
    <2>3. QED
      BY <2>2
  <1>5. QED
    BY <1>4 DEF Max

-----------------------------------------------------------------------------
(* FoldLeft *)

\* The recursive function inside MapThenFoldSet for the first n elements of s
IsIter(g, n, b, s) ==
  g = [t \in SUBSET (1..n) |->
         IF t = {} THEN b ELSE Op(g[t \ {Max(t)}], s[Max(t)])]

\* The last number is the largest of a part of 1..(n + 1) that holds it.
LEMMA MaxOfPrefix ==
  ASSUME NEW n \in Nat, NEW t \in SUBSET (1..(n + 1)), n + 1 \in t
  PROVE  Max(t) = n + 1
  <1>1. \A y \in t : n + 1 >= y
    OBVIOUS
  <1>2. \A x \in t : (\A y \in t : x >= y) => x = n + 1
    <2>1. ASSUME NEW x \in t, \A y \in t : x >= y PROVE x = n + 1
      <3>1. x >= n + 1 /\ x \in 1..(n + 1)
        BY <2>1
      <3>2. QED
        BY <3>1
    <2>2. QED
      BY <2>1
  <1>3. QED
    BY <1>1, <1>2 DEF Max

\* The recursion inside MapThenFoldSet has a solution.
LEMMA IterExists ==
  ASSUME NEW b, NEW s, NEW n \in Nat
  PROVE  \E g : IsIter(g, n, b, s)
  <1> DEFINE S == {m \in Nat : \E g : IsIter(g, m, b, s)}
  <1>1. 0 \in S
    <2> DEFINE g == [t \in SUBSET (1..0) |-> b]
    <2>1. \A t \in SUBSET (1..0) : t = {}
      OBVIOUS
    <2>2. g = [t \in SUBSET (1..0) |->
                IF t = {} THEN b ELSE Op(g[t \ {Max(t)}], s[Max(t)])]
      BY <2>1
    <2>3. IsIter(g, 0, b, s)
      BY <2>2 DEF IsIter
    <2>4. QED
      BY <2>3
  <1>2. ASSUME NEW m \in Nat, m \in S PROVE m + 1 \in S
    <2>1. PICK g : IsIter(g, m, b, s)
      BY <1>2
    <2> DEFINE h == [t \in SUBSET (1..(m + 1)) |->
                       IF m + 1 \in t THEN Op(g[t \ {m + 1}], s[m + 1]) ELSE g[t]]
               k == [t \in SUBSET (1..(m + 1)) |->
                       IF t = {} THEN b ELSE Op(h[t \ {Max(t)}], s[Max(t)])]
    <2>2. ASSUME NEW t \in SUBSET (1..(m + 1)) PROVE h[t] = k[t]
      <3>1. CASE m + 1 \in t
        <4>1. Max(t) = m + 1
          BY <3>1, MaxOfPrefix
        <4>2. t \ {m + 1} \in SUBSET (1..(m + 1)) /\ m + 1 \notin t \ {m + 1}
          OBVIOUS
        <4>3. h[t \ {m + 1}] = g[t \ {m + 1}]
          BY <4>2
        <4>4. QED
          BY <3>1, <4>1, <4>3
      <3>2. CASE m + 1 \notin t
        <4>1. t \in SUBSET (1..m)
          BY <3>2
        <4>2. g[t] = IF t = {} THEN b ELSE Op(g[t \ {Max(t)}], s[Max(t)])
          BY <2>1, <4>1 DEF IsIter
        <4>3. t \ {Max(t)} \in SUBSET (1..(m + 1)) /\ m + 1 \notin t \ {Max(t)}
          BY <3>2
        <4>4. h[t \ {Max(t)}] = g[t \ {Max(t)}]
          BY <4>3
        <4>5. QED
          BY <3>2, <4>2, <4>4
      <3>3. QED
        BY <3>1, <3>2
    <2>3. h = k
      BY <2>2
    <2> HIDE DEF h
    <2>4. IsIter(h, m + 1, b, s)
      BY <2>3 DEF IsIter
    <2>5. QED
      BY <2>4
  <1> HIDE DEF S
  <1>3. n \in S
    BY <1>1, <1>2, SetInduction
  <1>4. QED
    BY <1>3 DEF S

\* One more element is folded into what the elements before it give.
LEMMA IterStep ==
  ASSUME NEW b, NEW s, NEW n \in Nat, NEW g, IsIter(g, n, b, s)
  PROVE  /\ g[1..0] = b
         /\ \A k \in 1..n : g[1..k] = Op(g[1..(k - 1)], s[k])
  <1>1. g[1..0] = b
    <2>1. 1..0 = {} /\ 1..0 \in SUBSET (1..n)
      OBVIOUS
    <2>2. QED
      BY <2>1 DEF IsIter
  <1>2. ASSUME NEW k \in 1..n PROVE g[1..k] = Op(g[1..(k - 1)], s[k])
    <2>1. 1..k \in SUBSET (1..n) /\ 1..k # {} /\ k - 1 \in Nat
      OBVIOUS
    <2>2. Max(1..k) = k
      <3>1. k - 1 + 1 = k
        OBVIOUS
      <3>2. 1..k \in SUBSET (1..(k - 1 + 1)) /\ k - 1 + 1 \in 1..k
        BY <3>1
      <3>3. QED
        BY <2>1, <3>1, <3>2, MaxOfPrefix
    <2>3. (1..k) \ {k} = 1..(k - 1)
      OBVIOUS
    <2>4. g[1..k] = Op(g[(1..k) \ {Max(1..k)}], s[Max(1..k)])
      BY <2>1 DEF IsIter
    <2>5. QED
      BY <2>2, <2>3, <2>4
  <1>3. QED
    BY <1>1, <1>2

\* FoldLeft of the operator, under a name without an operator as an argument.
Fold(b, s) == FoldLeft(Op, b, s)

\* Its intermediate results, one per prefix of s.
Results(r, b, s) ==
  /\ r[0] = b
  /\ \A k \in 1..Len(s) : r[k] = Op(r[k - 1], s[k])

\* What FoldLeft is: there are intermediate results, one per prefix.
LEMMA FoldSteps ==
  ASSUME NEW E, NEW b, NEW s \in Seq(E)
  PROVE  \E r : Results(r, b, s) /\ Fold(b, s) = r[Len(s)]
  <1> DEFINE g == CHOOSE f : f = [t \in SUBSET DOMAIN s |->
                     IF t = {} THEN b ELSE Op(f[t \ {Max(t)}], s[Max(t)])]
             r == [k \in 0..Len(s) |-> g[1..k]]
  <1>1. DOMAIN s = 1..Len(s) /\ Len(s) \in Nat
    OBVIOUS
  <1>2. IsIter(g, Len(s), b, s)
    <2>1. PICK h : IsIter(h, Len(s), b, s)
      BY <1>1, IterExists
    <2>2. h = [t \in SUBSET DOMAIN s |->
                 IF t = {} THEN b ELSE Op(h[t \ {Max(t)}], s[Max(t)])]
      BY <1>1, <2>1 DEF IsIter
    <2>3. g = [t \in SUBSET DOMAIN s |->
                 IF t = {} THEN b ELSE Op(g[t \ {Max(t)}], s[Max(t)])]
      BY <2>2, Zenon
    <2> HIDE DEF g
    <2>4. QED
      BY <1>1, <2>3 DEF IsIter
  <1>3. Fold(b, s) = g[DOMAIN s]
    BY DEF Fold, FoldLeft, MapThenFoldSet
  <1> HIDE DEF g
  <1>4. Results(r, b, s)
    <2>1. g[1..0] = b /\ \A k \in 1..Len(s) : g[1..k] = Op(g[1..(k - 1)], s[k])
      BY <1>1, <1>2, IterStep
    <2>2. r[0] = b
      BY <1>1, <2>1
    <2>3. ASSUME NEW k \in 1..Len(s) PROVE r[k] = Op(r[k - 1], s[k])
      <3>1. k \in 0..Len(s) /\ k - 1 \in 0..Len(s)
        BY <1>1
      <3>2. r[k] = g[1..k] /\ r[k - 1] = g[1..(k - 1)]
        BY <3>1
      <3>3. QED
        BY <2>1, <3>2
    <2> HIDE DEF r
    <2>4. QED
      BY <2>2, <2>3 DEF Results
  <1>5. Fold(b, s) = r[Len(s)]
    BY <1>1, <1>3
  <1>6. QED
    BY <1>4, <1>5

\* Nothing is folded into the base.
LEMMA FoldEmpty ==
  ASSUME NEW b
  PROVE  Fold(b, << >>) = b
  <1>1. << >> \in Seq({}) /\ Len(<< >>) = 0
    OBVIOUS
  <1>2. PICK r : Results(r, b, << >>) /\ Fold(b, << >>) = r[Len(<< >>)]
    BY <1>1, FoldSteps
  <1>3. QED
    BY <1>1, <1>2 DEF Results

\* Folding one more element.
LEMMA FoldAppend ==
  ASSUME NEW E, NEW b, NEW s \in Seq(E), NEW e \in E
  PROVE  Fold(b, Append(s, e)) = Op(Fold(b, s), e)
  <1> DEFINE z == Append(s, e)
  <1>1. /\ z \in Seq(E) /\ Len(z) = Len(s) + 1 /\ Len(s) \in Nat
        /\ \A k \in 1..Len(s) : z[k] = s[k]
        /\ z[Len(s) + 1] = e
    OBVIOUS
  <1> HIDE DEF z
  <1>2. PICK r : Results(r, b, s) /\ Fold(b, s) = r[Len(s)]
    BY FoldSteps
  <1>3. PICK q : Results(q, b, z) /\ Fold(b, z) = q[Len(z)]
    BY <1>1, FoldSteps
  <1> DEFINE S == {k \in Nat : k <= Len(s) => r[k] = q[k]}
  <1>4. 0 \in S
    BY <1>2, <1>3 DEF Results
  <1>5. ASSUME NEW k \in Nat, k \in S PROVE k + 1 \in S
    <2> SUFFICES ASSUME k + 1 <= Len(s) PROVE r[k + 1] = q[k + 1]
      OBVIOUS
    <2>1. k + 1 \in 1..Len(s) /\ k + 1 \in 1..Len(z) /\ k + 1 - 1 = k /\ r[k] = q[k]
      BY <1>1, <1>5
    <2>2. r[k + 1] = Op(r[k], s[k + 1]) /\ q[k + 1] = Op(q[k], z[k + 1])
      BY <1>2, <1>3, <2>1 DEF Results
    <2>3. QED
      BY <1>1, <2>1, <2>2
  <1> HIDE DEF S
  <1>6. Len(s) \in S
    BY <1>1, <1>4, <1>5, SetInduction
  <1>7. r[Len(s)] = q[Len(s)]
    BY <1>1, <1>6 DEF S
  <1>8. q[Len(z)] = Op(q[Len(s)], e)
    <2>1. Len(s) + 1 \in 1..Len(z) /\ Len(s) + 1 - 1 = Len(s)
      BY <1>1
    <2>2. QED
      BY <1>1, <1>3, <2>1 DEF Results
  <1>9. QED
    BY <1>2, <1>3, <1>7, <1>8 DEF z

\* What every step of a fold carries from one index to the next, the fold has at
\* the last: I[k] is what is known after k elements.
LEMMA FoldInvariant ==
  ASSUME NEW E, NEW b, NEW s \in Seq(E),
         NEW I, b \in I[0],
         \A k \in 1..Len(s) : \A x \in I[k - 1] : Op(x, s[k]) \in I[k]
  PROVE  Fold(b, s) \in I[Len(s)]
  <1>1. PICK r : Results(r, b, s) /\ Fold(b, s) = r[Len(s)]
    BY FoldSteps
  <1> DEFINE S == {k \in Nat : k <= Len(s) => r[k] \in I[k]}
  <1>2. 0 \in S
    BY <1>1 DEF Results
  <1>3. ASSUME NEW k \in Nat, k \in S PROVE k + 1 \in S
    <2> SUFFICES ASSUME k + 1 <= Len(s) PROVE r[k + 1] \in I[k + 1]
      OBVIOUS
    <2>1. k + 1 \in 1..Len(s) /\ k + 1 - 1 = k /\ r[k] \in I[k]
      BY <1>3
    <2>2. r[k + 1] = Op(r[k], s[k + 1])
      BY <1>1, <2>1 DEF Results
    <2>3. QED
      BY <2>1, <2>2
  <1> HIDE DEF S
  <1>4. Len(s) \in S
    BY <1>2, <1>3, SetInduction
  <1>5. QED
    BY <1>1, <1>4 DEF S

\* The recursion by which FlattenSeq is defined, here for Op, is FoldLeft too.
LEMMA ChainIsFold ==
  ASSUME NEW E, NEW s \in Seq(E), NEW n \in Nat, n = Len(s), n # 0,
         NEW b, Op(b, s[1]) = s[1]
  PROVE  (CHOOSE f : f = [i \in 1..n |-> IF i = 1 THEN s[i] ELSE Op(f[i - 1], s[i])])[n]
           = Fold(b, s)
  <1> DEFINE IsChain(f, m) == f = [i \in 1..m |-> IF i = 1 THEN s[i] ELSE Op(f[i - 1], s[i])]
             S == {m \in Nat : \E f : IsChain(f, m)}
             c == CHOOSE f : IsChain(f, n)
  <1>1. 0 \in S
    <2> DEFINE f == [i \in 1..0 |-> s[i]]
    <2>1. IsChain(f, 0)
      OBVIOUS
    <2> HIDE DEF f, IsChain
    <2>2. QED
      BY <2>1
  <1>2. ASSUME NEW m \in Nat, m \in S PROVE m + 1 \in S
    <2>1. PICK f : IsChain(f, m)
      BY <1>2
    <2> DEFINE g == [i \in 1..(m + 1) |-> IF i = 1 THEN s[i] ELSE Op(f[i - 1], s[i])]
               h == [i \in 1..(m + 1) |-> IF i = 1 THEN s[i] ELSE Op(g[i - 1], s[i])]
    <2>2. ASSUME NEW i \in 1..(m + 1) PROVE g[i] = h[i]
      <3>1. CASE i = 1
        BY <3>1
      <3>2. CASE i # 1
        <4>1. i - 1 \in 1..m /\ i - 1 \in 1..(m + 1)
          BY <3>2
        <4>2. f[i - 1] = IF i - 1 = 1 THEN s[i - 1] ELSE Op(f[i - 1 - 1], s[i - 1])
          BY <2>1, <4>1
        <4>3. g[i - 1] = f[i - 1]
          BY <4>1, <4>2
        <4>4. QED
          BY <3>2, <4>3
      <3>3. QED
        BY <3>1, <3>2
    <2>3. g = h
      BY <2>2
    <2> HIDE DEF g
    <2>4. IsChain(g, m + 1)
      BY <2>3
    <2> HIDE DEF IsChain
    <2>5. QED
      BY <2>4
  <1>3. n \in S
    <2> HIDE DEF S
    <2>1. QED
      BY <1>1, <1>2, SetInduction
  <1>4. IsChain(c, n)
    <2>1. \E f : IsChain(f, n)
      BY <1>3
    <2> HIDE DEF IsChain
    <2>2. QED
      BY <2>1
  <1> HIDE DEF c
  <1>5. PICK r : Results(r, b, s) /\ Fold(b, s) = r[n]
    BY FoldSteps
  <1> DEFINE T == {k \in Nat : k + 1 <= n => c[k + 1] = r[k + 1]}
  <1>6. 0 \in T
    <2>1. 1 \in 1..n /\ 1 - 1 = 0
      OBVIOUS
    <2>2. r[1] = Op(r[0], s[1]) /\ r[0] = b
      BY <1>5, <2>1 DEF Results
    <2>3. c[1] = s[1]
      BY <1>4, <2>1
    <2>4. QED
      BY <2>2, <2>3
  <1>7. ASSUME NEW k \in Nat, k \in T PROVE k + 1 \in T
    <2> SUFFICES ASSUME k + 1 + 1 <= n PROVE c[k + 1 + 1] = r[k + 1 + 1]
      OBVIOUS
    <2>1. k + 1 + 1 \in 1..n /\ k + 1 + 1 # 1 /\ k + 1 + 1 - 1 = k + 1 /\ c[k + 1] = r[k + 1]
      BY <1>7
    <2>2. r[k + 1 + 1] = Op(r[k + 1], s[k + 1 + 1])
      BY <1>5, <2>1 DEF Results
    <2>3. c[k + 1 + 1] = Op(c[k + 1], s[k + 1 + 1])
      BY <1>4, <2>1
    <2>4. QED
      BY <2>1, <2>2, <2>3
  <1> HIDE DEF T
  <1>8. n - 1 \in T
    <2>1. n - 1 \in Nat
      OBVIOUS
    <2>2. QED
      BY <1>6, <1>7, <2>1, SetInduction
  <1>9. c[n] = r[n]
    BY <1>8 DEF T
  <1>10. QED
    BY <1>5, <1>9 DEF c

\* Op is associative on T and b its unit.
Monoid(T, b) ==
  /\ b \in T
  /\ \A x, y \in T : Op(x, y) \in T
  /\ \A x \in T : Op(b, x) = x /\ Op(x, b) = x
  /\ \A x, y, z \in T : Op(Op(x, y), z) = Op(x, Op(y, z))

\* Folding from the unit stays in the monoid, and the first element can be
\* taken out at the front.
LEMMA FoldFront ==
  ASSUME NEW T, NEW b, Monoid(T, b), NEW s \in Seq(T)
  PROVE  /\ Fold(b, s) \in T
         /\ s # << >> => Fold(b, s) = Op(s[1], Fold(b, Tail(s)))
  <1>1. PICK r : Results(r, b, s) /\ Fold(b, s) = r[Len(s)]
    BY FoldSteps
  <1> DEFINE S == {k \in Nat : k <= Len(s) => r[k] \in T}
  <1>2. 0 \in S
    BY <1>1 DEF Results, Monoid
  <1>3. ASSUME NEW k \in Nat, k \in S PROVE k + 1 \in S
    <2> SUFFICES ASSUME k + 1 <= Len(s) PROVE r[k + 1] \in T
      OBVIOUS
    <2>1. k + 1 \in 1..Len(s) /\ k + 1 - 1 = k /\ r[k] \in T /\ s[k + 1] \in T
      BY <1>3
    <2>2. r[k + 1] = Op(r[k], s[k + 1])
      BY <1>1, <2>1 DEF Results
    <2>3. QED
      BY <2>1, <2>2 DEF Monoid
  <1> HIDE DEF S
  <1>4. Len(s) \in S
    BY <1>2, <1>3, SetInduction
  <1>5. Fold(b, s) \in T
    BY <1>1, <1>4 DEF S
  <1>6. ASSUME s # << >> PROVE Fold(b, s) = Op(s[1], Fold(b, Tail(s)))
    <2>0. Tail(s) \in Seq(T)
      BY <1>6
    <2>1. PICK t \in Seq(T) : t = Tail(s)
      BY <2>0
    <2>2. PICK n \in Nat : n = Len(t)
      OBVIOUS
    <2>3. Len(s) = n + 1 /\ s[1] \in T /\ \A k \in 1..n : t[k] = s[k + 1] /\ t[k] \in T
      BY <1>6, <2>1, <2>2
    <2>4. PICK q : Results(q, b, t) /\ Fold(b, t) = q[Len(t)]
      BY FoldSteps
    <2> DEFINE U == {k \in Nat : k <= n => q[k] \in T /\ r[k + 1] = Op(s[1], q[k])}
    <2>5. 0 \in U
      <3>1. 1 \in 1..Len(s) /\ 1 - 1 = 0
        BY <2>3
      <3>2. r[1] = Op(r[0], s[1]) /\ r[0] = b /\ q[0] = b
        BY <1>1, <2>4, <3>1 DEF Results
      <3>3. r[0 + 1] = Op(s[1], q[0]) /\ q[0] \in T
        BY <2>3, <3>2 DEF Monoid
      <3>4. QED
        BY <3>3
    <2>6. ASSUME NEW k \in Nat, k \in U PROVE k + 1 \in U
      <3> SUFFICES ASSUME k + 1 <= n
                   PROVE  q[k + 1] \in T /\ r[k + 1 + 1] = Op(s[1], q[k + 1])
        BY DEF U
      <3>1. q[k] \in T /\ r[k + 1] = Op(s[1], q[k])
        BY <2>6
      <3> HIDE DEF U
      <3>2. k + 1 \in 1..Len(t) /\ k + 1 - 1 = k
        BY <2>2
      <3>3. k + 1 + 1 \in 1..Len(s) /\ k + 1 + 1 - 1 = k + 1
        BY <2>3
      <3>4. q[k + 1] = Op(q[k], t[k + 1])
        BY <2>4, <3>2 DEF Results
      <3>5. r[k + 1 + 1] = Op(r[k + 1], s[k + 1 + 1])
        BY <1>1, <3>3 DEF Results
      <3>6. t[k + 1] = s[k + 1 + 1] /\ t[k + 1] \in T
        BY <2>2, <2>3, <3>2
      <3>7. q[k + 1] \in T
        BY <3>1, <3>4, <3>6 DEF Monoid
      <3>8. Op(Op(s[1], q[k]), t[k + 1]) = Op(s[1], Op(q[k], t[k + 1]))
        <4>1. PICK x \in T, y \in T, z \in T : x = s[1] /\ y = q[k] /\ z = t[k + 1]
          BY <2>3, <3>1, <3>6
        <4>2. Op(Op(x, y), z) = Op(x, Op(y, z))
          BY DEF Monoid
        <4>3. QED
          BY <4>1, <4>2
      <3>9. QED
        BY <3>1, <3>4, <3>5, <3>6, <3>7, <3>8
    <2> HIDE DEF U
    <2>7. n \in U
      BY <2>5, <2>6, SetInduction
    <2>8. r[n + 1] = Op(s[1], q[n])
      BY <2>7 DEF U
    <2>9. QED
      BY <1>1, <2>1, <2>2, <2>3, <2>4, <2>8
  <1>7. QED
    BY <1>5, <1>6
=============================================================================
