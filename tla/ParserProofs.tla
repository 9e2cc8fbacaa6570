---------------------------- MODULE ParserProofs ----------------------------
(***************************************************************************)
(* Proofs about ParserBuffer and Parser: for every initial buffer size,    *)
(* all messages and however their bytes are cut, no index leaves the       *)
(* buffer, and the protocol is called as for the bytes in one piece.       *)
(*                                                                         *)
(* The stream is shown to be one message behind the other (Piece), each    *)
(* body in chunks decoded to its data; the reference is put in terms of    *)
(* these pieces; the buffer is shown to hold the bytes not looked at yet   *)
(* behind those decoded.  The inductive invariant Inv joins the three.     *)
(***************************************************************************)
EXTENDS Parser, TLAPS

-----------------------------------------------------------------------------
(* Sequences of sequences *)

Cat(s, t) == s \o t
Joined == INSTANCE FoldLaws WITH Op <- Cat

\* A sequence of length 0.
LEMMA EmptyIs ==
  ASSUME NEW T, NEW s \in Seq(T), Len(s) = 0
  PROVE  s = << >>
  OBVIOUS

\* FlattenSeq is a fold.
LEMMA FlattenIsFold ==
  ASSUME NEW E, NEW s \in Seq(Seq(E))
  PROVE  FlattenSeq(s) = Joined!Fold(<< >>, s)
  <1>1. PICK n \in Nat : n = Len(s)
    OBVIOUS
  <1>2. CASE n = 0
    <2>1. FlattenSeq(s) = s
      BY <1>1, <1>2 DEF FlattenSeq
    <2>2. s = << >>
      BY <1>1, <1>2, EmptyIs
    <2>3. QED
      BY <2>1, <2>2, Joined!FoldEmpty
  <1>3. CASE n # 0
    <2>1. FlattenSeq(s) =
            (CHOOSE f : f = [i \in 1..n |-> IF i = 1 THEN s[i] ELSE Cat(f[i - 1], s[i])])[n]
      BY <1>1, <1>3 DEF FlattenSeq, Cat
    <2>2. Cat(<< >>, s[1]) = s[1]
      <3>1. s[1] \in Seq(E)
        BY <1>1, <1>3
      <3>2. QED
        BY <3>1 DEF Cat
    <2>3. QED
      BY <1>1, <1>3, <2>1, <2>2, Joined!ChainIsFold
  <1>4. QED
    BY <1>2, <1>3

\* One more sequence goes behind what the others are together.
LEMMA FlattenAppend ==
  ASSUME NEW E, NEW s \in Seq(Seq(E)), NEW e \in Seq(E)
  PROVE  FlattenSeq(Append(s, e)) = FlattenSeq(s) \o e
  <1>1. Append(s, e) \in Seq(Seq(E))
    OBVIOUS
  <1>2. Joined!Fold(<< >>, Append(s, e)) = Cat(Joined!Fold(<< >>, s), e)
    BY Joined!FoldAppend
  <1>3. QED
    BY <1>1, <1>2, FlattenIsFold DEF Cat

\* Sequences with \o are what the laws of folds ask for.
LEMMA CatMonoid ==
  ASSUME NEW E
  PROVE  Joined!Monoid(Seq(E), << >>)
  <1>1. \A x, y \in Seq(E) : Cat(x, y) \in Seq(E)
    BY DEF Cat
  <1>2. \A x \in Seq(E) : Cat(<< >>, x) = x /\ Cat(x, << >>) = x
    BY DEF Cat
  <1>3. \A x, y, z \in Seq(E) : Cat(Cat(x, y), z) = Cat(x, Cat(y, z))
    BY DEF Cat
  <1>4. << >> \in Seq(E)
    OBVIOUS
  <1>5. QED
    BY <1>1, <1>2, <1>3, <1>4 DEF Joined!Monoid

\* The sequences of a sequence, joined, have their elements.
LEMMA FlattenType ==
  ASSUME NEW E, NEW s \in Seq(Seq(E))
  PROVE  FlattenSeq(s) \in Seq(E)
  BY CatMonoid, FlattenIsFold, Joined!FoldFront

\* FlattenSeq of the values of a function up to an index.
LEMMA FlattenUpTo ==
  ASSUME NEW E, NEW f, \A p \in Nat \ {0} : f[p] \in Seq(E)
  PROVE  /\ FlattenSeq([p \in 1..0 |-> f[p]]) = << >>
         /\ \A n \in Nat :
              /\ FlattenSeq([p \in 1..n |-> f[p]]) \in Seq(E)
              /\ FlattenSeq([p \in 1..(n + 1) |-> f[p]])
                   = FlattenSeq([p \in 1..n |-> f[p]]) \o f[n + 1]
  <1>1. [p \in 1..0 |-> f[p]] = << >>
    OBVIOUS
  <1>2. FlattenSeq(<< >>) = << >>
    BY DEF FlattenSeq
  <1>3. ASSUME NEW n \in Nat
        PROVE  /\ FlattenSeq([p \in 1..n |-> f[p]]) \in Seq(E)
               /\ FlattenSeq([p \in 1..(n + 1) |-> f[p]])
                    = FlattenSeq([p \in 1..n |-> f[p]]) \o f[n + 1]
    <2>1. [p \in 1..n |-> f[p]] \in Seq(Seq(E)) /\ f[n + 1] \in Seq(E)
      OBVIOUS
    <2>2. [p \in 1..(n + 1) |-> f[p]] = Append([p \in 1..n |-> f[p]], f[n + 1])
      OBVIOUS
    <2>3. QED
      BY <2>1, <2>2, FlattenAppend, FlattenType
  <1>4. QED
    BY <1>1, <1>2, <1>3

\* Where each sequence ends up in what all are together.
Layout(ends, s, t) ==
  /\ ends \in [0..Len(s) -> Nat]
  /\ ends[0] = 0 /\ Len(t) = ends[Len(s)]
  /\ \A k \in 1..Len(s) : /\ ends[k] = ends[k - 1] + Len(s[k])
                          /\ \A i \in 1..Len(s[k]) : t[ends[k - 1] + i] = s[k][i]

\* Where the elements of two joined sequences are.
LEMMA CatIs ==
  ASSUME NEW E, NEW x \in Seq(E), NEW y \in Seq(E)
  PROVE  /\ Len(Cat(x, y)) = Len(x) + Len(y)
         /\ \A i \in 1..Len(x) : Cat(x, y)[i] = x[i]
         /\ \A i \in 1..Len(y) : Cat(x, y)[Len(x) + i] = y[i]
  BY DEF Cat

\* What FlattenSeq joins lies one behind the other.
LEMMA FlattenLayout ==
  ASSUME NEW E, NEW s \in Seq(Seq(E))
  PROVE  \E ends : Layout(ends, s, FlattenSeq(s))
  <1>1. PICK n \in Nat : n = Len(s)
    OBVIOUS
  <1>2. \A k \in 1..n : s[k] \in Seq(E)
    BY <1>1
  <1>3. PICK r : Joined!Results(r, << >>, s) /\ FlattenSeq(s) = r[n]
    BY <1>1, FlattenIsFold, Joined!FoldSteps
  <1>4. r[0] = << >> /\ \A k \in 1..n : r[k] = Cat(r[k - 1], s[k])
    BY <1>1, <1>3 DEF Joined!Results
  <1> DEFINE In(k) == /\ r[k] \in Seq(E)
                      /\ \A j \in 1..k : /\ Len(r[j]) <= Len(r[k])
                                         /\ Len(r[j]) = Len(r[j - 1]) + Len(s[j])
                                         /\ \A i \in 1..Len(s[j]) : r[k][Len(r[j - 1]) + i] = s[j][i]
             S == {k \in Nat : k <= n => \A m \in 0..k : In(m)}
  <1>5. 0 \in S
    <2>1. r[0] \in Seq(E)
      BY <1>4
    <2>2. In(0)
      BY <2>1
    <2>3. \A m \in 0..0 : m = 0
      OBVIOUS
    <2> HIDE DEF In
    <2>4. QED
      BY <2>2, <2>3
  <1>6. ASSUME NEW k \in Nat, k \in S PROVE k + 1 \in S
    <2> SUFFICES ASSUME k + 1 <= n PROVE In(k + 1)
      <3>1. \A m \in 0..(k + 1) : m \in 0..k \/ m = k + 1
        OBVIOUS
      <3>2. k + 1 <= n => k <= n
        OBVIOUS
      <3> HIDE DEF In
      <3>3. QED
        BY <1>6, <3>1, <3>2
    <2>1. k + 1 \in 1..n /\ k + 1 - 1 = k /\ k \in 0..k /\ k <= n
      OBVIOUS
    <2>2. \A m \in 0..k : In(m)
      <3> HIDE DEF In
      <3>1. QED
        BY <1>6, <2>1
    <2>20. In(k)
      <3> HIDE DEF In
      <3>1. QED
        BY <2>1, <2>2
    <2>3. s[k + 1] \in Seq(E) /\ r[k + 1] = Cat(r[k], s[k + 1])
      BY <1>2, <1>4, <2>1
    <2>4. PICK x \in Seq(E), y \in Seq(E), z \in Seq(E) : x = r[k] /\ y = s[k + 1] /\ z = r[k + 1]
      <3>1. Cat(r[k], s[k + 1]) \in Seq(E)
        BY <2>20, <2>3 DEF Cat
      <3>2. QED
        BY <2>20, <2>3, <3>1
    <2>5. /\ Len(z) = Len(x) + Len(y)
          /\ \A i \in 1..Len(x) : z[i] = x[i]
          /\ \A i \in 1..Len(y) : z[Len(x) + i] = y[i]
      <3>1. z = Cat(x, y)
        BY <2>3, <2>4
      <3> HIDE DEF In, S
      <3>2. /\ Len(Cat(x, y)) = Len(x) + Len(y)
            /\ \A i \in 1..Len(x) : Cat(x, y)[i] = x[i]
            /\ \A i \in 1..Len(y) : Cat(x, y)[Len(x) + i] = y[i]
        BY DEF Cat
      <3>3. QED
        BY <3>1, <3>2
    <2>6. ASSUME NEW j \in 1..(k + 1)
          PROVE  /\ Len(r[j]) <= Len(z)
                 /\ Len(r[j]) = Len(r[j - 1]) + Len(s[j])
                 /\ \A i \in 1..Len(s[j]) : z[Len(r[j - 1]) + i] = s[j][i]
      <3>1. CASE j = k + 1
        <4>1. j - 1 = k
          BY <3>1
        <4>2. r[j] = z /\ r[j - 1] = x /\ s[j] = y
          BY <2>4, <3>1, <4>1
        <4>3. QED
          BY <2>5, <4>2
      <3>2. CASE j # k + 1
        <4>1. j \in 1..k /\ j - 1 \in 0..k /\ j \in 0..k /\ j \in 1..n
          BY <2>1, <3>2
        <4>2. In(j) /\ In(j - 1)
          <5> HIDE DEF In
          <5>1. QED
            BY <2>2, <4>1
        <4>3. PICK a \in Seq(E), b \in Seq(E), c \in Seq(E) : a = r[j] /\ b = r[j - 1] /\ c = s[j]
          BY <1>2, <4>1, <4>2
        <4>4. /\ Len(a) <= Len(x) /\ Len(a) = Len(b) + Len(c)
              /\ \A i \in 1..Len(c) : x[Len(b) + i] = c[i]
          BY <2>20, <2>4, <4>1, <4>3
        <4>5. \A i \in 1..Len(c) : z[Len(b) + i] = c[i]
          <5>1. \A i \in 1..Len(c) : Len(b) + i \in 1..Len(x)
            BY <4>4
          <5>2. QED
            BY <2>5, <4>4, <5>1
        <4>6. Len(a) <= Len(z)
          BY <2>5, <4>4
        <4>7. QED
          BY <4>3, <4>4, <4>5, <4>6
      <3>3. QED
        BY <3>1, <3>2
    <2>7. QED
      BY <2>4, <2>6
  <1> HIDE DEF S
  <1>7. n \in S
    BY <1>5, <1>6, Joined!SetInduction
  <1>8. \A m \in 0..n : In(m)
    <2> HIDE DEF In
    <2>1. QED
      BY <1>7 DEF S
  <1> DEFINE ends == [k \in 0..n |-> Len(r[k])]
  <1>9. ends \in [0..n -> Nat] /\ ends[0] = 0 /\ Len(FlattenSeq(s)) = ends[n]
    <2>1. \A m \in 0..n : Len(r[m]) \in Nat
      BY <1>8
    <2>2. QED
      BY <1>3, <1>4, <2>1
  <1>10. ASSUME NEW k \in 1..n
         PROVE  /\ ends[k] = ends[k - 1] + Len(s[k])
                /\ \A i \in 1..Len(s[k]) : FlattenSeq(s)[ends[k - 1] + i] = s[k][i]
    <2>1. k \in 0..n /\ k - 1 \in 0..n /\ n \in 0..n
      OBVIOUS
    <2>2. ends[k] = Len(r[k]) /\ ends[k - 1] = Len(r[k - 1])
      BY <2>1
    <2>3. In(n)
      BY <1>8, <2>1
    <2> HIDE DEF ends
    <2>4. QED
      BY <1>3, <2>2, <2>3
  <1> HIDE DEF ends, In
  <1>11. PICK t : t = FlattenSeq(s)
    OBVIOUS
  <1>12. Layout(ends, s, t)
    BY <1>1, <1>9, <1>10, <1>11 DEF Layout
  <1>13. QED
    BY <1>11, <1>12

-----------------------------------------------------------------------------
(* The reference, byte by byte *)

Stop(p) == WrongAt(p) \/ EndlessAt(p)

\* The parser does not stop within the first n bytes.
Quiet(n) == \A p \in 1..n : ~Stop(p)

\* What EventsAt puts together.
Events ==
  {[is |-> "error", at |-> << >>]}
    \cup {[is |-> "headers", at |-> <<p>>] : p \in Nat}
    \cup {[is |-> "body", at |-> BodyOf(stream[p].message)] : p \in Nat}

\* EventsAt says one or two of the calls.
LEMMA EventsType ==
  ASSUME NEW p \in Nat
  PROVE  EventsAt(p) \in Seq(Events)
  <1>1. PICK a : a = [is |-> "error", at |-> << >>]
    OBVIOUS
  <1>2. PICK b : b = [is |-> "headers", at |-> <<p>>]
    OBVIOUS
  <1>3. PICK c : c = [is |-> "body", at |-> BodyOf(stream[p].message)]
    OBVIOUS
  <1>4. a \in Events /\ b \in Events /\ c \in Events
    BY <1>1, <1>2, <1>3, Zenon DEF Events
  <1>5. EventsAt(p) \in {<<a>>, <<b>> \o <<c>>, <<b>> \o << >>, << >> \o <<c>>, << >> \o << >>}
    BY <1>1, <1>2, <1>3 DEF EventsAt
  <1>6. PICK t : t = EventsAt(p)
    OBVIOUS
  <1>7. PICK T : T = Events
    OBVIOUS
  <1>8. \A x, y \in Seq(T) : x \o y \in Seq(T)
    OBVIOUS
  <1>9. << >> \in Seq(T) /\ <<a>> \in Seq(T) /\ <<b>> \in Seq(T) /\ <<c>> \in Seq(T)
    BY <1>4, <1>7
  <1>10. t \in Seq(T)
    BY <1>5, <1>6, <1>8, <1>9
  <1>11. QED
    BY <1>6, <1>7, <1>10

\* StopsAt is the first byte that stops the parser.
LEMMA StopsIs ==
  ASSUME NEW n \in Nat
  PROVE  \/ StopsAt(n) = 0 /\ Quiet(n)
         \/ StopsAt(n) \in 1..n /\ Stop(StopsAt(n)) /\ Quiet(StopsAt(n) - 1)
  <1>1. PICK I : I = {i \in 1..n : Stop(i)}
    OBVIOUS
  <1>2. StopsAt(n) = IF I # {} THEN Min(I) ELSE 0
    <2>1. {i \in 1..Len([p \in 1..n |-> p]) :
              WrongAt([p \in 1..n |-> p][i]) \/ EndlessAt([p \in 1..n |-> p][i])} = I
      <3>1. Len([p \in 1..n |-> p]) = n /\ \A i \in 1..n : [p \in 1..n |-> p][i] = i
        OBVIOUS
      <3>2. QED
        BY <1>1, <3>1, Zenon DEF Stop
    <2>2. QED
      BY <2>1, Zenon DEF StopsAt, SelectInSeq
  <1>3. CASE I = {}
    BY <1>1, <1>2, <1>3 DEF Quiet
  <1>4. CASE I # {}
    <2>1. PICK x \in I : \A y \in I : x <= y
      BY <1>1, <1>4, Joined!LeastElement
    <2>2. Min(I) \in I /\ \A y \in I : Min(I) <= y
      BY <2>1 DEF Min
    <2>3. PICK s \in 1..n : s = StopsAt(n) /\ Stop(s) /\ \A y \in I : s <= y
      BY <1>1, <1>2, <1>4, <2>2
    <2>4. Quiet(s - 1)
      BY <1>1, <2>3 DEF Quiet
    <2>5. QED
      BY <2>3, <2>4
  <1>5. QED
    BY <1>3, <1>4

\* The events of the first n bytes, however many of them are looked at.
Upto(n) == FlattenSeq([p \in 1..n |-> EventsAt(p)])

\* One byte more adds what EventsAt says of it.
LEMMA UptoStep ==
  ASSUME NEW n \in Nat
  PROVE  /\ Upto(0) = << >>
         /\ Upto(n) \in Seq(Events)
         /\ Upto(n + 1) = Upto(n) \o EventsAt(n + 1)
  <1>1. PICK f : f = [p \in Nat |-> EventsAt(p)]
    OBVIOUS
  <1>2. PICK T : T = Events
    OBVIOUS
  <1>3. \A p \in Nat \ {0} : f[p] \in Seq(T)
    BY <1>1, <1>2, EventsType
  <1>4. \A m \in Nat : [p \in 1..m |-> EventsAt(p)] = [p \in 1..m |-> f[p]]
    BY <1>1
  <1>5. \A m \in Nat : Upto(m) = FlattenSeq([p \in 1..m |-> f[p]])
    BY <1>4, Zenon DEF Upto
  <1>6. f[n + 1] = EventsAt(n + 1)
    BY <1>1
  <1>7. n + 1 \in Nat /\ 0 \in Nat
    OBVIOUS
  <1>8. /\ FlattenSeq([p \in 1..0 |-> f[p]]) = << >>
        /\ FlattenSeq([p \in 1..n |-> f[p]]) \in Seq(T)
        /\ FlattenSeq([p \in 1..(n + 1) |-> f[p]])
             = FlattenSeq([p \in 1..n |-> f[p]]) \o f[n + 1]
    BY <1>3, FlattenUpTo
  <1>9. QED
    BY <1>2, <1>5, <1>6, <1>7, <1>8

\* Reference looks at the bytes up to the one that stops the parser.
LEMMA ReferenceIs ==
  ASSUME NEW n \in Nat
  PROVE  Reference(n) = Upto(IF StopsAt(n) = 0 THEN n ELSE StopsAt(n))
  BY DEF Reference, Upto

\* As long as nothing stops the parser it looks at all of them.
LEMMA QuietReference ==
  ASSUME NEW n \in Nat, Quiet(n)
  PROVE  StopsAt(n) = 0 /\ Reference(n) = Upto(n)
  <1>1. StopsAt(n) = 0
    BY StopsIs DEF Quiet
  <1>2. QED
    BY <1>1, ReferenceIs

\* One byte more, if the parser still looks at it.
LEMMA ReferenceStep ==
  ASSUME NEW n \in Nat, Quiet(n)
  PROVE  /\ Reference(n) \in Seq(Events)
         /\ Reference(n + 1) = Reference(n) \o EventsAt(n + 1)
  <1>1. n + 1 \in Nat
    OBVIOUS
  <1>2. StopsAt(n + 1) \in {0, n + 1}
    <2>1. PICK s : s = StopsAt(n + 1)
      OBVIOUS
    <2>2. s = 0 \/ (s \in 1..(n + 1) /\ Stop(s))
      BY <1>1, <2>1, StopsIs
    <2>3. QED
      BY <2>1, <2>2 DEF Quiet
  <1>3. Reference(n + 1) = Upto(n + 1)
    BY <1>1, <1>2, ReferenceIs
  <1>4. QED
    BY <1>3, QuietReference, UptoStep

\* Bytes that say nothing.
LEMMA ReferenceQuiet ==
  ASSUME NEW n \in Nat, NEW m \in Nat, n <= m, Quiet(n),
         \A p \in (n + 1)..m : ~Stop(p) /\ EventsAt(p) = << >>
  PROVE  Quiet(m) /\ Reference(m) = Reference(n)
  <1> DEFINE S == {i \in Nat : n + i <= m => Quiet(n + i) /\ Reference(n + i) = Reference(n)}
  <1>1. 0 \in S
    OBVIOUS
  <1>2. ASSUME NEW i \in Nat, i \in S PROVE i + 1 \in S
    <2> SUFFICES ASSUME n + (i + 1) <= m
                 PROVE  Quiet(n + (i + 1)) /\ Reference(n + (i + 1)) = Reference(n)
      OBVIOUS
    <2>1. PICK q \in Nat : q = n + i /\ n + (i + 1) = q + 1 /\ q + 1 \in (n + 1)..m
      OBVIOUS
    <2>2. Quiet(q) /\ Reference(q) = Reference(n)
      BY <1>2, <2>1
    <2>3. Quiet(q + 1)
      <3>1. \A p \in 1..(q + 1) : p \in 1..q \/ p = q + 1
        OBVIOUS
      <3>2. QED
        BY <2>1, <2>2, <3>1 DEF Quiet
    <2>4. Reference(q + 1) = Reference(q)
      <3>1. Reference(q) \in Seq(Events) /\ Reference(q + 1) = Reference(q) \o EventsAt(q + 1)
        BY <2>2, ReferenceStep
      <3>2. EventsAt(q + 1) = << >>
        BY <2>1
      <3>3. QED
        BY <3>1, <3>2
    <2>5. QED
      BY <2>1, <2>2, <2>3, <2>4
  <1> HIDE DEF S
  <1>3. m - n \in Nat /\ n + (m - n) = m
    OBVIOUS
  <1>4. m - n \in S
    BY <1>1, <1>2, <1>3, Joined!SetInduction
  <1>5. QED
    BY <1>3, <1>4 DEF S

\* Nothing is looked at behind the byte that stops the parser.
LEMMA ReferenceStopped ==
  ASSUME NEW n \in Nat \ {0}, NEW m \in Nat, n <= m, Quiet(n - 1), Stop(n)
  PROVE  StopsAt(m) = n /\ Reference(m) = Reference(n)
  <1>1. ASSUME NEW j \in Nat, n <= j PROVE StopsAt(j) = n
    <2>1. PICK s : s = StopsAt(j)
      OBVIOUS
    <2>2. \/ s = 0 /\ Quiet(j)
          \/ s \in 1..j /\ Stop(s) /\ Quiet(s - 1)
      BY <2>1, StopsIs
    <2>3. ~Quiet(j)
      BY <1>1 DEF Quiet
    <2>4. ~(s < n)
      BY <2>2, <2>3 DEF Quiet
    <2>5. ~(n < s)
      BY <2>2, <2>3 DEF Quiet
    <2>6. QED
      BY <2>1, <2>2, <2>3, <2>4, <2>5
  <1>2. QED
    BY <1>1, ReferenceIs

-----------------------------------------------------------------------------
(* The chunk decoder *)

Decoding == INSTANCE FoldLaws WITH Op <- DecodeByte

Bytes == [message : Nat,
          is : {"head", "head_end", "data", "digit", "cr", "lf", "trailer", "bad"}, n : Nat]

Going == {"size", "ext", "data", "crlf", "trailer", "line"}
Stopped == {"complete", "malformed"}

Decoders ==
  {d \in [state : Going \cup Stopped, digits : BOOLEAN, left : Nat,
          out : Seq(Nat), rest : Seq(Nat)] : d.state = "data" => d.left # 0}

Start == [state |-> "size", digits |-> FALSE, left |-> 0, out |-> << >>, rest |-> << >>]

\* The decoder d after the bytes behind q up to p.
Run(d, q, p) == FoldLeft(DecodeByte, d, [i \in 1..(p - q) |-> q + i])

\* All bytes of a body, up to p, in one piece.
Whole(h, p) == Run(Start, h, p)

\* The bytes behind q for a decoder that kept what it decoded before.
Rest(d) == [d EXCEPT !.out = << >>, !.rest = << >>]
Part(d, q, p) == Run(Rest(d), q, p)

\* What is decoded goes behind what was decoded before.
Behind(o, d) == [d EXCEPT !.out = o \o @]

\* A decoder that forgot what it decoded is one.
LEMMA RestType ==
  ASSUME NEW d \in Decoders
  PROVE  Rest(d) \in Decoders
  <1>1. << >> \in Seq(Nat)
    OBVIOUS
  <1>2. QED
    BY <1>1 DEF Rest, Decoders

\* A byte makes a decoder of a decoder.
LEMMA DecodeByteType ==
  ASSUME stream \in Seq(Bytes), NEW d \in Decoders, NEW p \in 1..Len(stream)
  PROVE  DecodeByte(d, p) \in Decoders
  <1>1. PICK b \in Bytes : b = stream[p]
    OBVIOUS
  <1>2. p \in Nat /\ Append(d.out, p) \in Seq(Nat) /\ Append(d.rest, p) \in Seq(Nat)
    BY DEF Decoders
  <1>3. d.digits \in BOOLEAN /\ d.left \in Nat /\ d.state \in Going \cup Stopped
    BY DEF Decoders
  <1>4. b.n \in Nat /\ 16 * d.left + b.n \in Nat
    BY <1>1, <1>3 DEF Bytes
  <1>5. AfterDigits(d, p) \in Decoders
    BY DEF AfterDigits, Decoders, Going
  <1>6. CASE d.state = "size"
    BY <1>1, <1>3, <1>4, <1>5, <1>6 DEF DecodeByte, Decoders, Going, Stopped
  <1>7. CASE d.state = "ext"
    BY <1>5, <1>7 DEF DecodeByte
  <1>8. CASE d.state = "data"
    <2>1. d.left # 0 /\ d.left - 1 \in Nat /\ (d.left # 1 => d.left - 1 # 0)
      BY <1>3, <1>8 DEF Decoders
    <2>2. QED
      BY <1>2, <1>8, <2>1 DEF DecodeByte, Decoders, Going
  <1>9. CASE d.state = "crlf"
    BY <1>9 DEF DecodeByte, Decoders, Going, Stopped
  <1>10. CASE d.state = "trailer"
    BY <1>10 DEF DecodeByte, Decoders, Going, Stopped
  <1>11. CASE d.state = "line"
    BY <1>11 DEF DecodeByte, Decoders, Going
  <1>12. CASE d.state \in Stopped
    BY <1>2, <1>12 DEF DecodeByte, Decoders, Stopped
  <1>13. QED
    BY <1>3, <1>6, <1>7, <1>8, <1>9, <1>10, <1>11, <1>12 DEF Going

\* One byte is decoded the same whatever was decoded before.
LEMMA DecodeByteBehind ==
  ASSUME NEW d \in Decoders, NEW o \in Seq(Nat), NEW p \in Nat
  PROVE  DecodeByte(Behind(o, d), p) = Behind(o, DecodeByte(d, p))
  <1>1. o \o Append(d.out, p) = Append(o \o d.out, p)
    BY DEF Decoders
  <1>2. d.digits \in BOOLEAN /\ d.left \in Nat /\ d.state \in Going \cup Stopped
        /\ d.out \in Seq(Nat)
    BY DEF Decoders
  <1>3. AfterDigits(Behind(o, d), p) = Behind(o, AfterDigits(d, p))
    <2>1. \A s : [Behind(o, d) EXCEPT !.digits = FALSE, !.state = s]
                   = Behind(o, [d EXCEPT !.digits = FALSE, !.state = s])
      BY DEF Decoders, Behind
    <2>2. Behind(o, d).left = d.left
      BY DEF Decoders, Behind
    <2>3. PICK s : s = IF stream[p].is # "lf" THEN "ext"
                       ELSE IF d.left = 0 THEN "trailer" ELSE "data"
      OBVIOUS
    <2>4. AfterDigits(Behind(o, d), p) = [Behind(o, d) EXCEPT !.digits = FALSE, !.state = s]
          /\ AfterDigits(d, p) = [d EXCEPT !.digits = FALSE, !.state = s]
      BY <2>2, <2>3, Zenon DEF AfterDigits
    <2>5. QED
      BY <2>1, <2>4
  <1>4. CASE d.state = "size"
    <2>1. PICK b : b = Behind(o, d)
      OBVIOUS
    <2>2. b.state = "size" /\ b.digits = d.digits
      BY <1>4, <2>1 DEF Decoders, Behind
    <2>3. CASE stream[p].is = "digit"
      <3>1. DecodeByte(d, p) = [d EXCEPT !.left = 16 * @ + stream[p].n, !.digits = TRUE]
        BY <1>4, <2>3 DEF DecodeByte
      <3>2. DecodeByte(b, p) = [b EXCEPT !.left = 16 * @ + stream[p].n, !.digits = TRUE]
        BY <2>2, <2>3 DEF DecodeByte
      <3>3. QED
        BY <2>1, <3>1, <3>2 DEF Decoders, Behind
    <2>4. CASE stream[p].is # "digit"
      <3>1. DecodeByte(d, p) = IF d.digits THEN AfterDigits(d, p) ELSE [d EXCEPT !.state = "malformed"]
        BY <1>4, <2>4 DEF DecodeByte
      <3>2. DecodeByte(b, p) = IF b.digits THEN AfterDigits(b, p) ELSE [b EXCEPT !.state = "malformed"]
        BY <2>2, <2>4 DEF DecodeByte
      <3>3. CASE d.digits
        BY <1>3, <2>1, <2>2, <3>1, <3>2, <3>3
      <3>4. CASE ~d.digits
        BY <2>1, <2>2, <3>1, <3>2, <3>4 DEF Decoders, Behind
      <3>5. QED
        BY <3>3, <3>4
    <2>5. QED
      BY <2>3, <2>4
  <1>5. CASE d.state = "ext"
    BY <1>3, <1>5 DEF DecodeByte, Decoders, Behind
  <1>6. CASE d.state = "data"
    BY <1>1, <1>6 DEF DecodeByte, Decoders, Behind
  <1>7. CASE d.state = "crlf"
    BY <1>7 DEF DecodeByte, Decoders, Behind
  <1>8. CASE d.state = "trailer"
    BY <1>8 DEF DecodeByte, Decoders, Behind
  <1>9. CASE d.state = "line"
    BY <1>9 DEF DecodeByte, Decoders, Behind
  <1>10. CASE d.state \in Stopped
    BY <1>10 DEF DecodeByte, Decoders, Behind, Stopped
  <1>11. QED
    BY <1>2, <1>4, <1>5, <1>6, <1>7, <1>8, <1>9, <1>10 DEF Going

\* A decoder that stopped keeps what follows.
LEMMA DecodeStopped ==
  ASSUME NEW d \in Decoders, d.state \in Stopped, NEW p
  PROVE  DecodeByte(d, p) = [d EXCEPT !.rest = Append(@, p)]
  BY DEF DecodeByte, Decoders, Stopped

\* FoldLeft of the decoder is the fold of FoldLaws.
LEMMA DecodingIsFold ==
  ASSUME NEW d, NEW s
  PROVE  FoldLeft(DecodeByte, d, s) = Decoding!Fold(d, s)
  BY DEF Decoding!Fold, Decoding!FoldLeft, Decoding!MapThenFoldSet, Decoding!Max,
         FoldLeft, MapThenFoldSet, Max

\* So is what it makes of the bytes behind q up to p,
LEMMA RunIsFold ==
  ASSUME NEW d, NEW q \in Nat, NEW p \in Nat
  PROVE  Run(d, q, p) = Decoding!Fold(d, [i \in 1..(p - q) |-> q + i])
  <1>1. PICK s : s = [i \in 1..(p - q) |-> q + i]
    OBVIOUS
  <1>2. FoldLeft(DecodeByte, d, s) = Decoding!Fold(d, s)
    BY DecodingIsFold
  <1>3. QED
    BY <1>1, <1>2, Zenon DEF Run

\* One byte more.
LEMMA RunStep ==
  ASSUME NEW d, NEW q \in Nat, NEW p \in Nat, q <= p
  PROVE  Run(d, q, q) = d /\ Run(d, q, p + 1) = DecodeByte(Run(d, q, p), p + 1)
  <1>1. [i \in 1..(q - q) |-> q + i] = << >>
    OBVIOUS
  <1>2. [i \in 1..(p - q) |-> q + i] \in Seq(Nat) /\ p + 1 \in Nat
    OBVIOUS
  <1>3. [i \in 1..(p + 1 - q) |-> q + i] = Append([i \in 1..(p - q) |-> q + i], p + 1)
    OBVIOUS
  <1>4. PICK s \in Seq(Nat) : s = [i \in 1..(p - q) |-> q + i]
    BY <1>2
  <1>5. Decoding!Fold(d, Append(s, p + 1)) = DecodeByte(Decoding!Fold(d, s), p + 1)
    BY <1>2, Decoding!FoldAppend
  <1>6. Decoding!Fold(d, << >>) = d
    BY Decoding!FoldEmpty
  <1>7. Run(d, q, q) = d
    <2>1. Run(d, q, q) = Decoding!Fold(d, [i \in 1..(q - q) |-> q + i])
      BY RunIsFold
    <2>2. QED
      BY <1>1, <1>6, <2>1
  <1>8. Run(d, q, p) = Decoding!Fold(d, s) /\ Run(d, q, p + 1) = Decoding!Fold(d, Append(s, p + 1))
    <2>1. Run(d, q, p) = Decoding!Fold(d, [i \in 1..(p - q) |-> q + i])
      BY RunIsFold
    <2>2. Run(d, q, p + 1) = Decoding!Fold(d, [i \in 1..(p + 1 - q) |-> q + i])
      BY <1>2, RunIsFold
    <2>3. [i \in 1..(p + 1 - q) |-> q + i] = Append(s, p + 1)
      BY <1>3, <1>4, Zenon
    <2>4. QED
      BY <1>4, <2>1, <2>2, <2>3, Zenon
  <1>9. QED
    BY <1>5, <1>7, <1>8

\* of a whole body,
LEMMA WholeStep ==
  ASSUME NEW h \in Nat, NEW p \in Nat, h <= p
  PROVE  Whole(h, h) = Start /\ Whole(h, p + 1) = DecodeByte(Whole(h, p), p + 1)
  BY RunStep DEF Whole

\* and of a part of it, one byte after the other.
LEMMA PartStep ==
  ASSUME NEW d, NEW q \in Nat, NEW p \in Nat, q <= p
  PROVE  Part(d, q, q) = Rest(d) /\ Part(d, q, p + 1) = DecodeByte(Part(d, q, p), p + 1)
  BY RunStep DEF Part

\* The decoder stays one in the middle of a body.
LEMMA WholeType ==
  ASSUME stream \in Seq(Bytes), NEW h \in Nat, NEW p \in h..Len(stream)
  PROVE  Whole(h, p) \in Decoders
  <1> DEFINE S == {i \in Nat : h + i <= Len(stream) => Whole(h, h + i) \in Decoders}
  <1>1. 0 \in S
    <2>1. Start \in Decoders
      BY DEF Start, Decoders, Going
    <2>2. h + 0 = h
      OBVIOUS
    <2>3. QED
      BY <2>1, <2>2, WholeStep
  <1>2. ASSUME NEW i \in Nat, i \in S PROVE i + 1 \in S
    <2> SUFFICES ASSUME h + (i + 1) <= Len(stream) PROVE Whole(h, h + (i + 1)) \in Decoders
      OBVIOUS
    <2>1. PICK q \in Nat : q = h + i /\ h + (i + 1) = q + 1 /\ q + 1 \in 1..Len(stream) /\ h <= q
      OBVIOUS
    <2>2. Whole(h, q) \in Decoders
      BY <1>2, <2>1
    <2>3. QED
      BY <2>1, <2>2, WholeStep, DecodeByteType
  <1> HIDE DEF S
  <1>3. p - h \in Nat /\ h + (p - h) = p /\ p <= Len(stream)
    OBVIOUS
  <1>4. p - h \in S
    BY <1>1, <1>2, <1>3, Decoding!SetInduction
  <1>5. QED
    BY <1>3, <1>4 DEF S

\* A byte is decoded to at most one.
LEMMA DecodesOne ==
  ASSUME NEW d \in Decoders, NEW p \in Nat
  PROVE  Len(DecodeByte(d, p).out) <= Len(d.out) + 1
  <1>1. d.out \in Seq(Nat) /\ d.state \in Going \cup Stopped
    BY DEF Decoders
  <1>2. AfterDigits(d, p).out = d.out
    BY DEF AfterDigits, Decoders
  <1>3. SUFFICES \/ DecodeByte(d, p).out = d.out
                 \/ DecodeByte(d, p).out = Append(d.out, p)
    <2>1. Len(d.out) \in Nat /\ Len(Append(d.out, p)) = Len(d.out) + 1
      BY <1>1
    <2>2. QED
      BY <2>1
  <1>4. CASE d.state = "size"
    <2>1. CASE stream[p].is = "digit"
      BY <1>4, <2>1 DEF DecodeByte, Decoders
    <2>2. CASE stream[p].is # "digit"
      <3>1. DecodeByte(d, p) = IF d.digits THEN AfterDigits(d, p) ELSE [d EXCEPT !.state = "malformed"]
        BY <1>4, <2>2 DEF DecodeByte
      <3>2. [d EXCEPT !.state = "malformed"].out = d.out
        BY DEF Decoders
      <3>3. QED
        BY <1>2, <3>1, <3>2
    <2>3. QED
      BY <2>1, <2>2
  <1>5. CASE d.state = "ext"
    <2>1. DecodeByte(d, p) = AfterDigits(d, p)
      BY <1>5 DEF DecodeByte
    <2>2. QED
      BY <1>2, <2>1
  <1>6. CASE d.state = "data"
    BY <1>6 DEF DecodeByte, Decoders
  <1>7. CASE d.state = "crlf"
    BY <1>7 DEF DecodeByte, Decoders
  <1>8. CASE d.state = "trailer"
    BY <1>8 DEF DecodeByte, Decoders
  <1>9. CASE d.state = "line"
    BY <1>9 DEF DecodeByte, Decoders
  <1>10. CASE d.state \in Stopped
    <2>1. DecodeByte(d, p) = [d EXCEPT !.rest = Append(@, p)]
      BY <1>10, DecodeStopped
    <2>2. QED
      BY <2>1 DEF Decoders
  <1>11. QED
    BY <1>1, <1>4, <1>5, <1>6, <1>7, <1>8, <1>9, <1>10 DEF Going

\* So no more bytes are decoded than were looked at.
NoMore(h, w, i) ==
  w + i <= Len(stream) => Len(Whole(h, w + i).out) <= Len(Whole(h, w).out) + i

LEMMA DecodesNoMore ==
  ASSUME stream \in Seq(Bytes), NEW h \in Nat, NEW w \in Nat, NEW n \in Nat,
         h <= w, w + n <= Len(stream)
  PROVE  Len(Whole(h, w + n).out) <= Len(Whole(h, w).out) + n
  <1> DEFINE S == {i \in Nat : NoMore(h, w, i)}
  <1>1. 0 \in S
    <2>1. w \in h..Len(stream) /\ w + 0 = w
      OBVIOUS
    <2>2. Whole(h, w).out \in Seq(Nat)
      BY <2>1, WholeType DEF Decoders
    <2>3. Len(Whole(h, w).out) <= Len(Whole(h, w).out) + 0
      BY <2>2
    <2>4. QED
      BY <2>1, <2>3 DEF NoMore
  <1>2. ASSUME NEW i \in Nat, i \in S PROVE i + 1 \in S
    <2> SUFFICES NoMore(h, w, i + 1)
      OBVIOUS
    <2> SUFFICES ASSUME w + (i + 1) <= Len(stream)
                 PROVE  Len(Whole(h, w + (i + 1)).out) <= Len(Whole(h, w).out) + (i + 1)
      BY DEF NoMore
    <2>1. PICK l \in Nat : l = Len(stream)
      OBVIOUS
    <2>2. PICK q \in Nat : q = w + i /\ w + (i + 1) = q + 1
      OBVIOUS
    <2>3. q \in h..Len(stream) /\ w \in h..Len(stream) /\ h <= q /\ q + 1 \in Nat /\ q <= l
      BY <2>1, <2>2
    <2>4. PICK d \in Decoders : d = Whole(h, q)
      BY <2>3, WholeType
    <2>5. Whole(h, q + 1) = DecodeByte(d, q + 1)
      BY <2>3, <2>4, WholeStep
    <2>6. PICK x \in Nat, y \in Nat : x = Len(d.out) /\ y = Len(Whole(h, w).out)
      <3>1. d.out \in Seq(Nat) /\ Whole(h, w).out \in Seq(Nat)
        BY <2>3, WholeType DEF Decoders
      <3>2. QED
        BY <3>1
    <2>7. x <= y + i
      <3>1. NoMore(h, w, i) /\ w + i <= Len(stream)
        BY <1>2, <2>1, <2>2, <2>3
      <3>2. Len(Whole(h, q).out) <= Len(Whole(h, w).out) + i
        BY <2>2, <3>1 DEF NoMore
      <3>3. QED
        BY <2>4, <2>6, <3>2
    <2>8. Len(Whole(h, q + 1).out) <= x + 1
      BY <2>3, <2>5, <2>6, DecodesOne
    <2>9. PICK z \in Nat : z = Len(Whole(h, q + 1).out)
      <3>1. DecodeByte(d, q + 1) \in Decoders
        BY <2>1, <2>2, <2>3, DecodeByteType
      <3>2. DecodeByte(d, q + 1).out \in Seq(Nat)
        BY <3>1 DEF Decoders
      <3>3. QED
        BY <2>5, <3>2
    <2>10. z <= y + (i + 1)
      <3>1. z <= x + 1
        BY <2>8, <2>9
      <3>2. QED
        BY <2>7, <3>1
    <2>11. Len(Whole(h, w + (i + 1)).out) = z
      BY <2>2, <2>9
    <2>12. QED
      BY <2>6, <2>10, <2>11, Zenon
  <1> HIDE DEF S
  <1>3. n \in S
    BY <1>1, <1>2, Decoding!SetInduction
  <1>4. QED
    BY <1>3 DEF S, NoMore

\* Decoding in pieces is decoding in one piece.
LEMMA DecodeOn ==
  ASSUME stream \in Seq(Bytes), NEW h \in Nat, NEW q \in h..Len(stream), NEW p \in q..Len(stream),
         Whole(h, q).rest = << >>
  PROVE  /\ Part(Whole(h, q), q, p) \in Decoders
         /\ Whole(h, p) = Behind(Whole(h, q).out, Part(Whole(h, q), q, p))
  <1>1. PICK d \in Decoders : d = Whole(h, q)
    BY WholeType
  <1>2. PICK o \in Seq(Nat) : o = d.out
    BY DEF Decoders
  <1>0. q \in Nat /\ h <= q /\ Len(stream) \in Nat
    OBVIOUS
  <1> DEFINE S == {i \in Nat : q + i <= Len(stream) =>
                     Part(d, q, q + i) \in Decoders /\ Whole(h, q + i) = Behind(o, Part(d, q, q + i))}
  <1>3. 0 \in S
    <2>1. q + 0 = q /\ q \in Nat
      OBVIOUS
    <2>2. Part(d, q, q) = Rest(d)
      BY <2>1, PartStep
    <2>3. Rest(d) \in Decoders
      BY RestType
    <2>4. d = Behind(o, Rest(d))
      <3>1. o \o << >> = o
        OBVIOUS
      <3>2. QED
        BY <1>1, <1>2, <3>1 DEF Behind, Rest, Decoders
    <2>5. QED
      BY <1>1, <2>1, <2>2, <2>3, <2>4
  <1>4. ASSUME NEW i \in Nat, i \in S PROVE i + 1 \in S
    <2> SUFFICES ASSUME q + (i + 1) <= Len(stream)
                 PROVE  Part(d, q, q + (i + 1)) \in Decoders
                        /\ Whole(h, q + (i + 1)) = Behind(o, Part(d, q, q + (i + 1)))
      OBVIOUS
    <2>1. PICK m \in Nat : m = q + i /\ q + (i + 1) = m + 1 /\ m + 1 \in 1..Len(stream)
                           /\ h <= m /\ q <= m /\ q \in Nat
      <3>1. q + i \in Nat /\ q + (i + 1) = (q + i) + 1 /\ (q + i) + 1 <= Len(stream)
        BY <1>0
      <3>2. (q + i) + 1 \in 1..Len(stream) /\ h <= q + i /\ q <= q + i
        BY <1>0, <3>1
      <3>3. QED
        BY <1>0, <3>1, <3>2
    <2>2. PICK x \in Decoders : x = Part(d, q, m) /\ Whole(h, m) = Behind(o, x)
      BY <1>4, <2>1
    <2>3. Part(d, q, m + 1) = DecodeByte(x, m + 1)
      BY <2>1, <2>2, PartStep
    <2>4. Whole(h, m + 1) = DecodeByte(Behind(o, x), m + 1)
      BY <2>1, <2>2, WholeStep
    <2>5. DecodeByte(x, m + 1) \in Decoders
      BY <2>1, DecodeByteType
    <2>6. DecodeByte(Behind(o, x), m + 1) = Behind(o, DecodeByte(x, m + 1))
      BY <2>1, DecodeByteBehind
    <2>7. QED
      BY <2>1, <2>3, <2>4, <2>5, <2>6
  <1> HIDE DEF S
  <1>5. p - q \in Nat /\ q + (p - q) = p /\ p <= Len(stream)
    OBVIOUS
  <1>6. p - q \in S
    BY <1>3, <1>4, <1>5, Decoding!SetInduction
  <1>7. QED
    BY <1>1, <1>2, <1>5, <1>6 DEF S

\* Bytes behind the end are kept as they are.
LEMMA DecodeBeyond ==
  ASSUME stream \in Seq(Bytes), NEW h \in Nat, NEW e \in h..Len(stream), NEW p \in e..Len(stream),
         Whole(h, e).state \in Stopped, Whole(h, e).rest = << >>
  PROVE  /\ Whole(h, p).state = Whole(h, e).state
         /\ Whole(h, p).out = Whole(h, e).out
         /\ Whole(h, p).rest = [i \in 1..(p - e) |-> e + i]
  <1>1. PICK d \in Decoders : d = Whole(h, e)
    BY WholeType
  <1> DEFINE S == {i \in Nat : e + i <= Len(stream) =>
                     Whole(h, e + i) = [d EXCEPT !.rest = [j \in 1..i |-> e + j]]}
  <1>2. 0 \in S
    <2>1. e + 0 = e /\ [j \in 1..0 |-> e + j] = << >>
      OBVIOUS
    <2>2. d = [d EXCEPT !.rest = << >>]
      BY <1>1 DEF Decoders
    <2>3. QED
      BY <1>1, <2>1, <2>2
  <1>3. ASSUME NEW i \in Nat, i \in S PROVE i + 1 \in S
    <2> SUFFICES ASSUME e + (i + 1) <= Len(stream)
                 PROVE  Whole(h, e + (i + 1)) = [d EXCEPT !.rest = [j \in 1..(i + 1) |-> e + j]]
      OBVIOUS
    <2>1. PICK m \in Nat : m = e + i /\ e + (i + 1) = m + 1 /\ m \in h..Len(stream) /\ h <= m
      OBVIOUS
    <2>2. PICK r : r = [j \in 1..i |-> e + j]
      OBVIOUS
    <2>3. Whole(h, m) = [d EXCEPT !.rest = r]
      BY <1>3, <2>1, <2>2
    <2>4. Whole(h, m) \in Decoders /\ Whole(h, m).state \in Stopped
      BY <1>1, <2>1, <2>3, WholeType DEF Decoders
    <2>5. Whole(h, m + 1) = [Whole(h, m) EXCEPT !.rest = Append(@, m + 1)]
      <3>1. PICK x \in Decoders : x = Whole(h, m) /\ x.state \in Stopped
        BY <2>4
      <3>2. Whole(h, m + 1) = DecodeByte(x, m + 1)
        BY <2>1, <3>1, WholeStep
      <3>3. DecodeByte(x, m + 1) = [x EXCEPT !.rest = Append(@, m + 1)]
        BY <3>1, DecodeStopped
      <3>4. QED
        BY <3>1, <3>2, <3>3
    <2>6. Append(r, m + 1) = [j \in 1..(i + 1) |-> e + j]
      BY <2>1, <2>2
    <2>7. Whole(h, m + 1) = [d EXCEPT !.rest = Append(r, m + 1)]
      BY <2>3, <2>5 DEF Decoders
    <2>8. QED
      BY <2>1, <2>6, <2>7
  <1> HIDE DEF S
  <1>4. p - e \in Nat /\ e + (p - e) = p /\ p <= Len(stream)
    OBVIOUS
  <1>5. p - e \in S
    BY <1>2, <1>3, <1>4, Decoding!SetInduction
  <1>6. Whole(h, p) = [d EXCEPT !.rest = [j \in 1..(p - e) |-> e + j]]
    BY <1>4, <1>5 DEF S
  <1>7. QED
    BY <1>1, <1>6 DEF Decoders

-----------------------------------------------------------------------------
(* The bytes of a message *)

\* The bytes of message k, and those behind its head that are in place there.
Of(k) == {b \in Bytes : b.message = k}
Body(k) == {b \in Of(k) : b.is \in {"data", "digit", "cr", "lf", "trailer"}}

\* What Byte makes is a byte of the message.
LEMMA ByteType ==
  ASSUME NEW k \in Nat, NEW n \in Nat,
         NEW is \in {"head", "head_end", "data", "digit", "cr", "lf", "trailer", "bad"}
  PROVE  /\ Byte(k, is, n) \in Of(k)
         /\ Byte(k, is, n).is = is /\ Byte(k, is, n).n = n
         /\ is \in {"data", "digit", "cr", "lf", "trailer"} => Byte(k, is, n) \in Body(k)
  BY DEF Byte, Bytes, Of, Body

\* Equal bytes.
LEMMA RepeatIs ==
  ASSUME NEW k \in Nat, NEW is \in {"head", "data"}, NEW n \in Nat
  PROVE  /\ Repeat(k, is, n) \in Seq(Of(k)) /\ Len(Repeat(k, is, n)) = n
         /\ is = "data" => Repeat(k, is, n) \in Seq(Body(k))
         /\ \A i \in 1..n : Repeat(k, is, n)[i] = Byte(k, is, i)
  <1>1. \A i \in 1..n : Byte(k, is, i) \in Of(k) /\ (is = "data" => Byte(k, is, i) \in Body(k))
    BY ByteType
  <1>2. QED
    BY <1>1 DEF Repeat

\* A line end.
LEMMA EndOfLineIs ==
  ASSUME NEW k \in Nat
  PROVE  /\ EndOfLine(k) \in Seq(Body(k)) /\ Len(EndOfLine(k)) = 2
         /\ EndOfLine(k)[1] = Byte(k, "cr", 0) /\ EndOfLine(k)[2] = Byte(k, "lf", 0)
  BY ByteType DEF EndOfLine

\* A sequence of two.
LEMMA PairIs ==
  ASSUME NEW E, NEW x \in E, NEW y \in E
  PROVE  <<x, y>> \in Seq(E) /\ Len(<<x, y>>) = 2 /\ <<x, y>>[1] = x /\ <<x, y>>[2] = y
  OBVIOUS

\* z is x and then y.
Joins(z, x, y) ==
  /\ Len(z) = Len(x) + Len(y)
  /\ \A i \in 1..Len(x) : z[i] = x[i]
  /\ \A i \in 1..Len(y) : z[Len(x) + i] = y[i]

\* Cat joins.
LEMMA CatJoins ==
  ASSUME NEW E, NEW x \in Seq(E), NEW y \in Seq(E)
  PROVE  Cat(x, y) \in Seq(E) /\ Joins(Cat(x, y), x, y)
  <1>1. Cat(x, y) \in Seq(E)
    BY DEF Cat
  <1>2. QED
    BY <1>1, CatIs DEF Joins

\* s is a, the line end l, z bytes of d and a line end again.
Lined(s, a, l, d, z) ==
  /\ Len(s) = z + 6
  /\ s[1] = a[1] /\ s[2] = a[2] /\ s[3] = l[1] /\ s[4] = l[2]
  /\ \A i \in 1..z : s[4 + i] = d[i]
  /\ s[z + 5] = l[1] /\ s[z + 6] = l[2]

\* The frame of a chunk around its data.
LEMMA LineAround ==
  ASSUME NEW E, NEW a \in Seq(E), NEW l \in Seq(E), NEW d \in Seq(E), Len(a) = 2, Len(l) = 2,
         NEW z \in Nat, Len(d) = z
  PROVE  LET s == Cat(Cat(Cat(a, l), d), l) IN s \in Seq(E) /\ Lined(s, a, l, d, z)
  <1>1. PICK u \in Seq(E) : u = Cat(a, l) /\ Joins(u, a, l)
    BY CatJoins
  <1>2. Len(u) = 4 /\ u[1] = a[1] /\ u[2] = a[2] /\ u[3] = l[1] /\ u[4] = l[2]
    <2>1. Len(u) = 4 /\ (\A i \in 1..2 : u[i] = a[i]) /\ (\A i \in 1..2 : u[2 + i] = l[i])
      BY <1>1 DEF Joins
    <2>2. u[1] = a[1] /\ u[2] = a[2] /\ u[2 + 1] = l[1] /\ u[2 + 2] = l[2]
      BY <2>1
    <2>3. QED
      BY <2>1, <2>2
  <1>3. PICK v \in Seq(E) : v = Cat(u, d) /\ Joins(v, u, d)
    BY CatJoins
  <1>4. /\ Len(v) = z + 4 /\ \A i \in 1..4 : v[i] = u[i]
        /\ \A i \in 1..z : v[4 + i] = d[i]
    BY <1>2, <1>3 DEF Joins
  <1>5. PICK w \in Seq(E) : w = Cat(v, l) /\ Joins(w, v, l)
    BY CatJoins
  <1>6. /\ Len(w) = z + 6 /\ \A i \in 1..(z + 4) : w[i] = v[i]
        /\ w[z + 5] = l[1] /\ w[z + 6] = l[2]
    <2>1. z + 5 = z + 4 + 1 /\ z + 6 = z + 4 + 2
      OBVIOUS
    <2>2. QED
      BY <1>4, <1>5, <2>1 DEF Joins
  <1>7. w = Cat(Cat(Cat(a, l), d), l)
    BY <1>1, <1>3, <1>5, Zenon
  <1>8. \A i \in 1..z : w[4 + i] = d[i]
    <2>1. \A i \in 1..z : 4 + i \in 1..(z + 4)
      OBVIOUS
    <2>2. QED
      BY <1>4, <1>6, <2>1
  <1>9. w[1] = a[1] /\ w[2] = a[2] /\ w[3] = l[1] /\ w[4] = l[2]
    <2>1. \A i \in 1..4 : i \in 1..(z + 4)
      OBVIOUS
    <2>2. \A i \in 1..4 : w[i] = u[i]
      BY <1>4, <1>6, <2>1
    <2>3. w[1] = u[1] /\ w[2] = u[2] /\ w[3] = u[3] /\ w[4] = u[4]
      BY <2>2
    <2>4. QED
      BY <1>2, <2>3
  <1>10. QED
    BY <1>6, <1>7, <1>8, <1>9 DEF Lined

\* A chunk: its size, its data, the line ends behind both.
Chunk(s, k, z) ==
  /\ Len(s) = z + 6
  /\ s[1] = Byte(k, "digit", 0) /\ s[2] = Byte(k, "digit", z)
  /\ s[3] = Byte(k, "cr", 0) /\ s[4] = Byte(k, "lf", 0)
  /\ \A i \in 1..z : s[4 + i] = Byte(k, "data", i)
  /\ s[z + 5] = Byte(k, "cr", 0) /\ s[z + 6] = Byte(k, "lf", 0)

\* ChunkBytes is a chunk.
LEMMA ChunkBytesAre ==
  ASSUME NEW k \in Nat, NEW z \in Nat, NEW s, s = ChunkBytes(k, z)
  PROVE  s \in Seq(Body(k)) /\ Chunk(s, k, z)
  <1>1. PICK E : E = Body(k)
    OBVIOUS
  <1>2. PICK x \in E, y \in E : x = Byte(k, "digit", 0) /\ y = Byte(k, "digit", z)
    BY <1>1, ByteType
  <1>3. PICK l \in Seq(E) : l = EndOfLine(k)
    BY <1>1, EndOfLineIs
  <1>4. Len(l) = 2 /\ l[1] = Byte(k, "cr", 0) /\ l[2] = Byte(k, "lf", 0)
    BY <1>3, EndOfLineIs
  <1>5. PICK d \in Seq(E) : d = Repeat(k, "data", z)
    BY <1>1, RepeatIs
  <1>6. Len(d) = z /\ \A i \in 1..z : d[i] = Byte(k, "data", i)
    BY <1>5, RepeatIs
  <1>7. PICK a \in Seq(E) : a = <<x, y>> /\ Len(a) = 2 /\ a[1] = x /\ a[2] = y
    <2>1. <<x, y>> \in Seq(E) /\ Len(<<x, y>>) = 2 /\ <<x, y>>[1] = x /\ <<x, y>>[2] = y
      BY PairIs
    <2>2. QED
      BY <2>1, Zenon
  <1>8. s = Cat(Cat(Cat(a, l), d), l)
    BY <1>2, <1>3, <1>5, <1>7, Zenon DEF ChunkBytes, Cat
  <1>9. s \in Seq(E) /\ Lined(s, a, l, d, z)
    <2>1. Len(a) = 2 /\ Len(l) = 2 /\ Len(d) = z
      BY <1>4, <1>6, <1>7
    <2>2. \A t : t = Cat(Cat(Cat(a, l), d), l) => t \in Seq(E) /\ Lined(t, a, l, d, z)
      BY <2>1, LineAround
    <2>3. QED
      BY <1>8, <2>2
  <1>10. QED
    BY <1>1, <1>2, <1>4, <1>6, <1>7, <1>9 DEF Lined, Chunk

-----------------------------------------------------------------------------
(* The data of a message *)

\* The positions of the data bytes of message k among the first p bytes.
Data(k, p) ==
  FlattenSeq([x \in 1..p |->
      IF stream[x].message = k /\ stream[x].is = "data" THEN <<x>> ELSE << >>])

\* One byte more is data of the message or it is not.
LEMMA DataStep ==
  ASSUME NEW k, NEW p \in Nat
  PROVE  /\ Data(k, 0) = << >> /\ Data(k, p) \in Seq(Nat)
         /\ Data(k, p + 1) =
              IF stream[p + 1].message = k /\ stream[p + 1].is = "data"
              THEN Append(Data(k, p), p + 1) ELSE Data(k, p)
  <1>1. PICK f : f = [x \in Nat |-> IF stream[x].message = k /\ stream[x].is = "data"
                                    THEN <<x>> ELSE << >>]
    OBVIOUS
  <1>2. \A x \in Nat \ {0} : f[x] \in Seq(Nat)
    BY <1>1
  <1>3. \A m \in Nat : [x \in 1..m |-> f[x]] =
          [x \in 1..m |-> IF stream[x].message = k /\ stream[x].is = "data"
                          THEN <<x>> ELSE << >>]
    BY <1>1
  <1>4. \A m \in Nat : Data(k, m) = FlattenSeq([x \in 1..m |-> f[x]])
    BY <1>3, Zenon DEF Data
  <1>5. /\ FlattenSeq([x \in 1..0 |-> f[x]]) = << >>
        /\ FlattenSeq([x \in 1..p |-> f[x]]) \in Seq(Nat)
        /\ FlattenSeq([x \in 1..(p + 1) |-> f[x]])
             = FlattenSeq([x \in 1..p |-> f[x]]) \o f[p + 1]
    BY <1>2, FlattenUpTo
  <1>6. p + 1 \in Nat /\ 0 \in Nat
    OBVIOUS
  <1>7. Data(k, 0) = << >> /\ Data(k, p) \in Seq(Nat) /\ Data(k, p + 1) = Data(k, p) \o f[p + 1]
    BY <1>4, <1>5, <1>6
  <1>8. CASE stream[p + 1].message = k /\ stream[p + 1].is = "data"
    <2>1. f[p + 1] = <<p + 1>>
      BY <1>1, <1>6, <1>8
    <2>2. QED
      BY <1>7, <1>8, <2>1
  <1>9. CASE ~(stream[p + 1].message = k /\ stream[p + 1].is = "data")
    <2>1. f[p + 1] = << >>
      BY <1>1, <1>6, <1>9
    <2>2. QED
      BY <1>7, <1>9, <2>1
  <1>10. QED
    BY <1>8, <1>9

\* Bytes that are no data of the message.
LEMMA DataSame ==
  ASSUME NEW k, NEW n \in Nat, NEW m \in Nat, n <= m,
         \A x \in (n + 1)..m : ~(stream[x].message = k /\ stream[x].is = "data")
  PROVE  Data(k, m) = Data(k, n)
  <1> DEFINE S == {i \in Nat : n + i <= m => Data(k, n + i) = Data(k, n)}
  <1>1. 0 \in S
    OBVIOUS
  <1>2. ASSUME NEW i \in Nat, i \in S PROVE i + 1 \in S
    <2> SUFFICES ASSUME n + (i + 1) <= m PROVE Data(k, n + (i + 1)) = Data(k, n)
      OBVIOUS
    <2>1. PICK p \in Nat : p = n + i /\ n + (i + 1) = p + 1 /\ p + 1 \in (n + 1)..m
      OBVIOUS
    <2>2. Data(k, p) = Data(k, n)
      BY <1>2, <2>1
    <2>3. QED
      BY <2>1, <2>2, DataStep
  <1> HIDE DEF S
  <1>3. m - n \in Nat /\ n + (m - n) = m
    OBVIOUS
  <1>4. m - n \in S
    BY <1>1, <1>2, <1>3, Joined!SetInduction
  <1>5. QED
    BY <1>3, <1>4 DEF S

\* Bytes that are all data of the message.
AllData(k, n, z) ==
  \A x \in (n + 1)..(n + z) : stream[x].message = k /\ stream[x].is = "data"

\* A run of data bytes, when there were none before.
LEMMA DataRun ==
  ASSUME NEW k, NEW n \in Nat, NEW z \in Nat, Data(k, n) = << >>, AllData(k, n, z)
  PROVE  Data(k, n + z) = [i \in 1..z |-> n + i]
  <1> DEFINE S == {j \in Nat : j <= z => Data(k, n + j) = [i \in 1..j |-> n + i]}
  <1>1. 0 \in S
    <2>1. n + 0 = n /\ [i \in 1..0 |-> n + i] = << >>
      OBVIOUS
    <2>2. QED
      BY <2>1
  <1>2. ASSUME NEW j \in Nat, j \in S PROVE j + 1 \in S
    <2> SUFFICES ASSUME j + 1 <= z
                 PROVE  Data(k, n + (j + 1)) = [i \in 1..(j + 1) |-> n + i]
      OBVIOUS
    <2>1. PICK p \in Nat : p = n + j /\ n + (j + 1) = p + 1 /\ p + 1 \in (n + 1)..(n + z)
      <3> HIDE DEF S
      <3>1. n + j + 1 <= n + z
        OBVIOUS
      <3>2. QED
        BY <3>1
    <2>2. Data(k, p) = [i \in 1..j |-> n + i]
      BY <1>2, <2>1
    <2>3. Data(k, p + 1) = Append(Data(k, p), p + 1)
      BY <2>1, DataStep DEF AllData
    <2>4. Append([i \in 1..j |-> n + i], p + 1) = [i \in 1..(j + 1) |-> n + i]
      BY <2>1
    <2>5. QED
      BY <2>1, <2>2, <2>3, <2>4
  <1> HIDE DEF S
  <1>3. z \in S
    BY <1>1, <1>2, Joined!SetInduction
  <1>4. QED
    BY <1>3 DEF S

-----------------------------------------------------------------------------
(* Decoding the chunks of a message *)

Literal(s, digits, left, o, r) ==
  [state |-> s, digits |-> digits, left |-> left, out |-> o, rest |-> r]
Fields(d, s, digits, left, o, r) ==
  /\ d.state = s /\ d.digits = digits /\ d.left = left /\ d.out = o
  /\ \A t : [d EXCEPT !.digits = FALSE, !.state = t] = Literal(t, FALSE, left, o, r)
  /\ \A t : [d EXCEPT !.state = t] = Literal(t, digits, left, o, r)
  /\ \A l : [d EXCEPT !.left = l, !.digits = TRUE] = Literal(s, TRUE, l, o, r)
  /\ \A l, x, t : [d EXCEPT !.left = l, !.out = x, !.state = t] = Literal(t, digits, l, x, r)

\* A literal decoder has its fields.
LEMMA DecoderFields ==
  ASSUME NEW s, NEW digits, NEW left, NEW o, NEW r, NEW d, d = Literal(s, digits, left, o, r)
  PROVE  Fields(d, s, digits, left, o, r)
  <1> USE DEF Literal
  <1>1. d.state = s /\ d.digits = digits /\ d.left = left /\ d.out = o
    OBVIOUS
  <1>2. ASSUME NEW t
        PROVE  [d EXCEPT !.digits = FALSE, !.state = t] = [state |-> t, digits |-> FALSE, left |-> left, out |-> o, rest |-> r]
    <2>1. PICK e : e = [d EXCEPT !.digits = FALSE, !.state = t]
      OBVIOUS
    <2>2. e.state = t /\ e.digits = FALSE /\ e.left = left /\ e.out = o /\ e.rest = r
      BY <2>1
    <2>3. e = [state |-> e.state, digits |-> e.digits, left |-> e.left, out |-> e.out, rest |-> e.rest]
      BY <2>1
    <2>4. QED
      BY <2>1, <2>2, <2>3
  <1>3. \A t : [d EXCEPT !.state = t]
              = [state |-> t, digits |-> digits, left |-> left, out |-> o, rest |-> r]
    OBVIOUS
  <1>4. ASSUME NEW l
        PROVE  [d EXCEPT !.left = l, !.digits = TRUE] = [state |-> s, digits |-> TRUE, left |-> l, out |-> o, rest |-> r]
    <2>1. PICK e : e = [d EXCEPT !.left = l, !.digits = TRUE]
      OBVIOUS
    <2>2. e.state = s /\ e.digits = TRUE /\ e.left = l /\ e.out = o /\ e.rest = r
      BY <2>1
    <2>3. e = [state |-> e.state, digits |-> e.digits, left |-> e.left, out |-> e.out, rest |-> e.rest]
      BY <2>1
    <2>4. QED
      BY <2>1, <2>2, <2>3
  <1>5. ASSUME NEW l, NEW x, NEW t
        PROVE  [d EXCEPT !.left = l, !.out = x, !.state = t] = [state |-> t, digits |-> digits, left |-> l, out |-> x, rest |-> r]
    <2>1. PICK e : e = [d EXCEPT !.left = l, !.out = x, !.state = t]
      OBVIOUS
    <2>2. e.state = t /\ e.digits = digits /\ e.left = l /\ e.out = x /\ e.rest = r
      BY <2>1
    <2>3. e = [state |-> e.state, digits |-> e.digits, left |-> e.left, out |-> e.out, rest |-> e.rest]
      BY <2>1
    <2>4. QED
      BY <2>1, <2>2, <2>3
  <1>6. QED
    BY <1>1, <1>2, <1>3, <1>4, <1>5, Zenon DEF Fields

Filled(d, left, out, state_after) ==
  [d EXCEPT !.left = left, !.out = out, !.state = state_after]

\* What a byte of data changes in it.
LEMMA DataFields ==
  ASSUME NEW d, NEW s, NEW digits, NEW left, NEW o, NEW r, Fields(d, s, digits, left, o, r),
         NEW a, NEW b, NEW w
  PROVE  Filled(d, a, b, w) = Literal(w, digits, a, b, r)
  <1>1. \A x, y, z : [d EXCEPT !.left = x, !.out = y, !.state = z] = Literal(z, digits, x, y, r)
    BY Zenon DEF Fields
  <1>2. QED
    BY <1>1, Zenon DEF Filled

\* The decoder is in that state with the data of message k behind it, after the
\* bytes behind h up to p; in "digits" it has seen the first digit of a size.
At(k, h, p, s, left) ==
  /\ Whole(h, p).state = IF s = "digits" THEN "size" ELSE s
  /\ Whole(h, p).digits = (s = "digits")
  /\ Whole(h, p).left = left
  /\ Whole(h, p) = Literal(Whole(h, p).state, Whole(h, p).digits, left, Data(k, p), << >>)

\* A decoder given field by field is at its place.
LEMMA AtLiteral ==
  ASSUME NEW k, NEW h, NEW p, NEW left, NEW t, NEW g \in BOOLEAN, NEW s,
         t = IF s = "digits" THEN "size" ELSE s, g <=> s = "digits",
         Whole(h, p) = Literal(t, g, left, Data(k, p), << >>)
  PROVE  At(k, h, p, s, left)
  <1>1. PICK w : w = Whole(h, p)
    OBVIOUS
  <1>2. w.state = t /\ w.digits = g /\ w.left = left
    BY <1>1 DEF Literal
  <1>3. QED
    BY <1>1, <1>2 DEF At

\* One byte more, by what it is.
LEMMA DecodeStep ==
  ASSUME NEW k \in Nat, NEW h \in Nat, NEW p \in Nat, h <= p, NEW s,
         NEW left \in Nat, At(k, h, p, s, left), NEW q, q = p + 1,
         NEW is, NEW n \in Nat, stream[q] = Byte(k, is, n)
  PROVE  /\ s \in {"size", "digits"} /\ is = "digit" /\ left = 0 => At(k, h, q, "digits", n)
         /\ s = "size" /\ is \in {"cr", "bad"} => At(k, h, q, "malformed", left)
         /\ s = "digits" /\ is = "cr" => At(k, h, q, "ext", left)
         /\ s = "ext" /\ is = "lf" /\ left = 0 => At(k, h, q, "trailer", left)
         /\ s = "ext" /\ is = "lf" /\ left # 0 => At(k, h, q, "data", left)
         /\ s = "data" /\ is = "data" /\ left = 1 => At(k, h, q, "crlf", 0)
         /\ s = "data" /\ is = "data" /\ left # 1 => At(k, h, q, "data", left - 1)
         /\ s \in {"crlf", "trailer"} /\ is = "cr" => At(k, h, q, s, left)
         /\ s = "crlf" /\ is = "lf" => At(k, h, q, "size", left)
         /\ s = "trailer" /\ is = "trailer" => At(k, h, q, "line", left)
         /\ s = "line" /\ is = "cr" => At(k, h, q, "line", left)
         /\ s = "line" /\ is = "lf" => At(k, h, q, "trailer", left)
         /\ s = "trailer" /\ is = "lf" => At(k, h, q, "complete", left)
  <1>1. PICK v : v = Data(k, p)
    OBVIOUS
  <1>2. PICK r : r = << >>
    OBVIOUS
  <1>3. PICK t : t = IF s = "digits" THEN "size" ELSE s
    OBVIOUS
  <1>30. PICK g \in BOOLEAN : g <=> s = "digits"
    <2>1. CASE s = "digits"
      BY <2>1
    <2>2. CASE s # "digits"
      BY <2>2
    <2>3. QED
      BY <2>1, <2>2
  <1>4. PICK d : d = Literal(t, g, left, v, r) /\ d = Whole(h, p)
    BY <1>1, <1>2, <1>3, <1>30 DEF At
  <1>5. Whole(h, q) = DecodeByte(d, q)
    BY <1>4, WholeStep
  <1>6. stream[q].message = k /\ stream[q].is = is /\ stream[q].n = n
    BY DEF Byte
  <1>7. Data(k, q) = IF is = "data" THEN Append(v, q) ELSE v
    BY <1>1, <1>6, DataStep
  <1>8. Fields(d, t, g, left, v, r)
    BY <1>4, DecoderFields
  <1>9. d.state = t /\ d.digits = g /\ d.left = left /\ d.out = v
    BY <1>8 DEF Fields
  <1>10. ASSUME NEW u, NEW b \in BOOLEAN, NEW x, NEW l,
                u = (IF x = "digits" THEN "size" ELSE x), b <=> x = "digits",
                DecodeByte(d, q) = Literal(u, b, l, Data(k, q), r)
         PROVE  At(k, h, q, x, l)
    BY <1>2, <1>5, <1>10, AtLiteral
  <1>11. s \in {"size", "digits"} /\ is = "digit" /\ left = 0 => At(k, h, q, "digits", n)
    <2> SUFFICES ASSUME s \in {"size", "digits"} /\ is = "digit" /\ left = 0 PROVE At(k, h, q, "digits", n)
      OBVIOUS
    <2>0. 16 * d.left + stream[q].n = n
      BY <1>6, <1>9
    <2>1. DecodeByte(d, q) = [d EXCEPT !.left = n, !.digits = TRUE]
      BY <2>0, <1>3, <1>30, <1>6, <1>9 DEF DecodeByte, AfterDigits
    <2>2. DecodeByte(d, q) = Literal(t, TRUE, n, v, r)
      BY <1>8, <2>1 DEF Fields
    <2>3. Data(k, q) = v
      BY <1>7
    <2>4. QED
      BY <1>3, <1>30, <1>10, <2>2, <2>3
  <1>12. s = "size" /\ is \in {"cr", "bad"} => At(k, h, q, "malformed", left)
    <2> SUFFICES ASSUME s = "size" /\ is \in {"cr", "bad"} PROVE At(k, h, q, "malformed", left)
      OBVIOUS
    <2>1. DecodeByte(d, q) = [d EXCEPT !.state = "malformed"]
      BY <1>3, <1>30, <1>6, <1>9 DEF DecodeByte, AfterDigits
    <2>2. DecodeByte(d, q) = Literal("malformed", g, left, v, r)
      BY <1>8, <2>1 DEF Fields
    <2>3. Data(k, q) = v
      BY <1>7
    <2>4. QED
      BY <1>3, <1>30, <1>10, <2>2, <2>3
  <1>13. s = "digits" /\ is = "cr" => At(k, h, q, "ext", left)
    <2> SUFFICES ASSUME s = "digits" /\ is = "cr" PROVE At(k, h, q, "ext", left)
      OBVIOUS
    <2>1. DecodeByte(d, q) = [d EXCEPT !.digits = FALSE, !.state = "ext"]
      BY <1>3, <1>30, <1>6, <1>9 DEF DecodeByte, AfterDigits
    <2>2. DecodeByte(d, q) = Literal("ext", FALSE, left, v, r)
      BY <1>8, <2>1 DEF Fields
    <2>3. Data(k, q) = v
      BY <1>7
    <2>4. QED
      BY <1>3, <1>30, <1>10, <2>2, <2>3
  <1>14. s = "ext" /\ is = "lf" /\ left = 0 => At(k, h, q, "trailer", left)
    <2> SUFFICES ASSUME s = "ext" /\ is = "lf" /\ left = 0 PROVE At(k, h, q, "trailer", left)
      OBVIOUS
    <2>1. DecodeByte(d, q) = [d EXCEPT !.digits = FALSE, !.state = "trailer"]
      BY <1>3, <1>30, <1>6, <1>9 DEF DecodeByte, AfterDigits
    <2>2. DecodeByte(d, q) = Literal("trailer", FALSE, left, v, r)
      BY <1>8, <2>1 DEF Fields
    <2>3. Data(k, q) = v
      BY <1>7
    <2>4. QED
      BY <1>3, <1>30, <1>10, <2>2, <2>3
  <1>15. s = "ext" /\ is = "lf" /\ left # 0 => At(k, h, q, "data", left)
    <2> SUFFICES ASSUME s = "ext" /\ is = "lf" /\ left # 0 PROVE At(k, h, q, "data", left)
      OBVIOUS
    <2>1. DecodeByte(d, q) = [d EXCEPT !.digits = FALSE, !.state = "data"]
      BY <1>3, <1>30, <1>6, <1>9 DEF DecodeByte, AfterDigits
    <2>2. DecodeByte(d, q) = Literal("data", FALSE, left, v, r)
      BY <1>8, <2>1 DEF Fields
    <2>3. Data(k, q) = v
      BY <1>7
    <2>4. QED
      BY <1>3, <1>30, <1>10, <2>2, <2>3
  <1>16. s = "data" /\ is = "data" /\ left = 1 => At(k, h, q, "crlf", 0)
    <2> SUFFICES ASSUME s = "data" /\ is = "data" /\ left = 1 PROVE At(k, h, q, "crlf", 0)
      OBVIOUS
    <2>1. PICK a, b : a = left - 1 /\ b = Append(v, q)
      OBVIOUS
    <2>2. PICK w : w = "crlf"
      OBVIOUS
    <2>3. DecodeByte(d, q) = Filled(d, a, b, w)
      BY <1>3, <1>30, <1>9, <2>1, <2>2 DEF DecodeByte, Filled
    <2>4. DecodeByte(d, q) = Literal(w, g, a, b, r)
      BY <1>8, <2>3, DataFields
    <2>5. Data(k, q) = b /\ a = 0
      BY <1>7, <2>1
    <2>6. QED
      BY <1>3, <1>30, <1>10, <2>2, <2>4, <2>5
  <1>17. s = "data" /\ is = "data" /\ left # 1 => At(k, h, q, "data", left - 1)
    <2> SUFFICES ASSUME s = "data" /\ is = "data" /\ left # 1 PROVE At(k, h, q, "data", left - 1)
      OBVIOUS
    <2>1. PICK a, b : a = left - 1 /\ b = Append(v, q)
      OBVIOUS
    <2>2. PICK w : w = "data"
      OBVIOUS
    <2>3. DecodeByte(d, q) = Filled(d, a, b, w)
      BY <1>3, <1>30, <1>9, <2>1, <2>2 DEF DecodeByte, Filled
    <2>4. DecodeByte(d, q) = Literal(w, g, a, b, r)
      BY <1>8, <2>3, DataFields
    <2>5. Data(k, q) = b /\ a = left - 1
      BY <1>7, <2>1
    <2>6. QED
      BY <1>3, <1>30, <1>10, <2>2, <2>4, <2>5
  <1>18. s \in {"crlf", "trailer"} /\ is = "cr" => At(k, h, q, s, left)
    <2> SUFFICES ASSUME s \in {"crlf", "trailer"} /\ is = "cr" PROVE At(k, h, q, s, left)
      OBVIOUS
    <2>1. DecodeByte(d, q) = d
      BY <1>3, <1>30, <1>6, <1>9 DEF DecodeByte, AfterDigits
    <2>2. DecodeByte(d, q) = Literal(t, g, left, v, r)
      BY <1>4, <2>1 DEF Fields
    <2>3. Data(k, q) = v
      BY <1>7
    <2>4. QED
      BY <1>3, <1>30, <1>10, <2>2, <2>3
  <1>19. s = "crlf" /\ is = "lf" => At(k, h, q, "size", left)
    <2> SUFFICES ASSUME s = "crlf" /\ is = "lf" PROVE At(k, h, q, "size", left)
      OBVIOUS
    <2>1. DecodeByte(d, q) = [d EXCEPT !.state = "size"]
      BY <1>3, <1>30, <1>6, <1>9 DEF DecodeByte, AfterDigits
    <2>2. DecodeByte(d, q) = Literal("size", g, left, v, r)
      BY <1>8, <2>1 DEF Fields
    <2>3. Data(k, q) = v
      BY <1>7
    <2>4. QED
      BY <1>3, <1>30, <1>10, <2>2, <2>3
  <1>20. s = "trailer" /\ is = "trailer" => At(k, h, q, "line", left)
    <2> SUFFICES ASSUME s = "trailer" /\ is = "trailer" PROVE At(k, h, q, "line", left)
      OBVIOUS
    <2>1. DecodeByte(d, q) = [d EXCEPT !.state = "line"]
      BY <1>3, <1>30, <1>6, <1>9 DEF DecodeByte, AfterDigits
    <2>2. DecodeByte(d, q) = Literal("line", g, left, v, r)
      BY <1>8, <2>1 DEF Fields
    <2>3. Data(k, q) = v
      BY <1>7
    <2>4. QED
      BY <1>3, <1>30, <1>10, <2>2, <2>3
  <1>21. s = "line" /\ is = "cr" => At(k, h, q, "line", left)
    <2> SUFFICES ASSUME s = "line" /\ is = "cr" PROVE At(k, h, q, "line", left)
      OBVIOUS
    <2>1. DecodeByte(d, q) = [d EXCEPT !.state = "line"]
      BY <1>3, <1>30, <1>6, <1>9 DEF DecodeByte, AfterDigits
    <2>2. DecodeByte(d, q) = Literal("line", g, left, v, r)
      BY <1>8, <2>1 DEF Fields
    <2>3. Data(k, q) = v
      BY <1>7
    <2>4. QED
      BY <1>3, <1>30, <1>10, <2>2, <2>3
  <1>22. s = "line" /\ is = "lf" => At(k, h, q, "trailer", left)
    <2> SUFFICES ASSUME s = "line" /\ is = "lf" PROVE At(k, h, q, "trailer", left)
      OBVIOUS
    <2>1. DecodeByte(d, q) = [d EXCEPT !.state = "trailer"]
      BY <1>3, <1>30, <1>6, <1>9 DEF DecodeByte, AfterDigits
    <2>2. DecodeByte(d, q) = Literal("trailer", g, left, v, r)
      BY <1>8, <2>1 DEF Fields
    <2>3. Data(k, q) = v
      BY <1>7
    <2>4. QED
      BY <1>3, <1>30, <1>10, <2>2, <2>3
  <1>23. s = "trailer" /\ is = "lf" => At(k, h, q, "complete", left)
    <2> SUFFICES ASSUME s = "trailer" /\ is = "lf" PROVE At(k, h, q, "complete", left)
      OBVIOUS
    <2>1. DecodeByte(d, q) = [d EXCEPT !.state = "complete"]
      BY <1>3, <1>30, <1>6, <1>9 DEF DecodeByte, AfterDigits
    <2>2. DecodeByte(d, q) = Literal("complete", g, left, v, r)
      BY <1>8, <2>1 DEF Fields
    <2>3. Data(k, q) = v
      BY <1>7
    <2>4. QED
      BY <1>3, <1>30, <1>10, <2>2, <2>3
  <1>24. QED
    BY <1>11, <1>12, <1>13, <1>14, <1>15, <1>16, <1>17, <1>18, <1>19, <1>20, <1>21, <1>22, <1>23

-----------------------------------------------------------------------------
(* The chunks of a message are decoded to its data *)

\* The decoder is in the middle of the body wherever the bytes behind p up to q end.
Within(h, p, q) == \A x \in p..q : Whole(h, x).state \in Going /\ Whole(h, x).rest = << >>

\* The fields of a decoder that is at its place.
LEMMA AtIs ==
  ASSUME NEW k, NEW h, NEW p, NEW s, NEW left, At(k, h, p, s, left)
  PROVE  /\ Whole(h, p).state = IF s = "digits" THEN "size" ELSE s
         /\ Whole(h, p).out = Data(k, p) /\ Whole(h, p).rest = << >>
         /\ s \in Going \cup {"digits"} => Whole(h, p).state \in Going
  <1>1. PICK w : w = Whole(h, p)
    OBVIOUS
  <1>2. PICK r, v, t, g : r = << >> /\ v = Data(k, p) /\ t = w.state /\ g = w.digits
    OBVIOUS
  <1>3. w = Literal(t, g, left, v, r)
    BY <1>1, <1>2 DEF At
  <1>4. w.out = v /\ w.rest = r
    BY <1>3 DEF Literal
  <1>5. Whole(h, p).state = IF s = "digits" THEN "size" ELSE s
    BY DEF At
  <1>6. QED
    BY <1>1, <1>2, <1>4, <1>5 DEF Going

\* Two parts of a body, one behind the other.
LEMMA WithinJoined ==
  ASSUME NEW h, NEW p \in Nat, NEW q \in Nat, NEW r \in Nat, Within(h, p, q), Within(h, q, r)
  PROVE  Within(h, p, r)
  BY DEF Within

\* One place in the middle of a body.
LEMMA WithinOne ==
  ASSUME NEW k, NEW h, NEW p \in Nat, NEW s \in Going, NEW left, At(k, h, p, s, left)
  PROVE  Within(h, p, p)
  BY AtIs DEF Within

\* One byte more in the middle of it.
LEMMA WithinOneMore ==
  ASSUME NEW k, NEW h, NEW p \in Nat, NEW q \in Nat, p <= q, Within(h, p, q),
         NEW r, r = q + 1, NEW s \in Going \cup {"digits"}, NEW left, At(k, h, r, s, left)
  PROVE  Within(h, p, r)
  <1>1. \A x \in p..r : x \in p..q \/ x = r
    OBVIOUS
  <1>2. QED
    BY <1>1, AtIs DEF Within

\* The data of a chunk.
DataBehind(k, p, z) == \A i \in 1..z : stream[p + i] = Byte(k, "data", i)

\* The data of a chunk is decoded, all of it and no more.
LEMMA DataDone ==
  ASSUME NEW k \in Nat, NEW h \in Nat, NEW p \in Nat, h <= p, NEW z \in Nat \ {0},
         At(k, h, p, "data", z), DataBehind(k, p, z), NEW pz, pz = p + z
  PROVE  At(k, h, pz, "crlf", 0) /\ Within(h, p, pz)
  <1> DEFINE In(i) == /\ Within(h, p, p + i)
                      /\ i # z => At(k, h, p + i, "data", z - i)
                      /\ i = z => At(k, h, p + i, "crlf", 0)
             S == {i \in Nat : i <= z => In(i)}
  <1>1. 0 \in S
    <2>1. p + 0 = p /\ z - 0 = z /\ z # 0
      OBVIOUS
    <2>2. Within(h, p, p)
      BY WithinOne DEF Going
    <2>3. QED
      BY <2>1, <2>2
  <1>2. ASSUME NEW i \in Nat, i \in S PROVE i + 1 \in S
    <2> SUFFICES ASSUME i + 1 <= z PROVE In(i + 1)
      <3> HIDE DEF In
      <3>1. QED
        OBVIOUS
    <2>1. PICK q \in Nat, r \in Nat, l \in Nat \ {0} :
            /\ q = p + i /\ r = p + (i + 1) /\ r = q + 1 /\ l = z - i
            /\ z - (i + 1) = l - 1 /\ h <= q /\ p <= q
            /\ (l = 1 <=> i + 1 = z) /\ i # z /\ i <= z /\ i + 1 \in 1..z
      OBVIOUS
    <2>2. In(i)
      <3> HIDE DEF In
      <3>1. QED
        BY <1>2, <2>1
    <2>3. At(k, h, q, "data", l) /\ Within(h, p, q)
      BY <2>1, <2>2
    <2>4. stream[r] = Byte(k, "data", i + 1)
      BY <2>1 DEF DataBehind
    <2>5. PICK n \in Nat : n = i + 1
      OBVIOUS
    <2>6. (l = 1 => At(k, h, r, "crlf", 0)) /\ (l # 1 => At(k, h, r, "data", l - 1))
      <3> HIDE DEF In, S
      <3>1. QED
        BY <2>1, <2>3, <2>4, <2>5, DecodeStep
    <2>7. Within(h, p, r)
      <3> HIDE DEF In, S
      <3>1. QED
        BY <2>1, <2>3, <2>6, WithinOneMore DEF Going
    <2>8. QED
      BY <2>1, <2>6, <2>7
  <1> HIDE DEF S
  <1>3. z \in S
    BY <1>1, <1>2, Joined!SetInduction
  <1>4. QED
    BY <1>3 DEF S

\* The decoder is in the same state before and after a chunk.
LEMMA ChunkDone ==
  ASSUME NEW k \in Nat, NEW h \in Nat, NEW p \in Nat, h <= p, NEW z \in Nat \ {0},
         At(k, h, p, "size", 0),
         \A i \in 1..(z + 6) : stream[p + i] = ChunkBytes(k, z)[i]
  PROVE  At(k, h, p + (z + 6), "size", 0) /\ Within(h, p, p + (z + 6))
  <1>1. PICK c : c = ChunkBytes(k, z)
    OBVIOUS
  <1>2. /\ c[1] = Byte(k, "digit", 0) /\ c[2] = Byte(k, "digit", z)
        /\ c[3] = Byte(k, "cr", 0) /\ c[4] = Byte(k, "lf", 0)
        /\ \A i \in 1..z : c[4 + i] = Byte(k, "data", i)
        /\ c[z + 5] = Byte(k, "cr", 0) /\ c[z + 6] = Byte(k, "lf", 0)
    <2>1. z \in Nat
      OBVIOUS
    <2>2. Chunk(c, k, z)
      BY <1>1, <2>1, ChunkBytesAre
    <2>3. QED
      BY <2>2, Zenon DEF Chunk
  <1>3. \A i \in 1..(z + 6) : stream[p + i] = c[i]
    BY <1>1
  <1>4. PICK p1 \in Nat, p2 \in Nat, p3 \in Nat, p4 \in Nat, p5 \in Nat, p6 \in Nat, p7 \in Nat :
        /\ p1 = p + 1 /\ p2 = p1 + 1 /\ p3 = p2 + 1 /\ p4 = p3 + 1
        /\ p5 = p4 + z /\ p6 = p5 + 1 /\ p7 = p6 + 1
    OBVIOUS
  <1>5. /\ stream[p1] = Byte(k, "digit", 0) /\ stream[p2] = Byte(k, "digit", z)
        /\ stream[p3] = Byte(k, "cr", 0) /\ stream[p4] = Byte(k, "lf", 0)
        /\ stream[p6] = Byte(k, "cr", 0) /\ stream[p7] = Byte(k, "lf", 0)
    <2>1. p2 = p + 2 /\ p3 = p + 3 /\ p4 = p + 4 /\ p6 = p + (z + 5) /\ p7 = p + (z + 6)
      BY <1>4
    <2>2. {1, 2, 3, 4, z + 5, z + 6} \subseteq 1..(z + 6)
      OBVIOUS
    <2>3. QED
      BY <1>2, <1>3, <1>4, <2>1, <2>2
  <1>6. DataBehind(k, p4, z)
    <2>1. \A i \in 1..z : 4 + i \in 1..(z + 6) /\ p4 + i = p + (4 + i)
      BY <1>4
    <2>2. QED
      BY <1>2, <1>3, <2>1 DEF DataBehind
  <1>7. h <= p1 /\ h <= p2 /\ h <= p3 /\ h <= p4 /\ h <= p5 /\ h <= p6
        /\ p <= p1 /\ p <= p2 /\ p <= p3 /\ p <= p5 /\ p <= p6 /\ p7 = p + (z + 6)
    BY <1>4
  <1>8. z \in Nat /\ 0 \in Nat
    OBVIOUS
  <1>9. At(k, h, p1, "digits", 0)
    BY <1>4, <1>5, <1>8, DecodeStep
  <1>10. At(k, h, p2, "digits", z)
    BY <1>4, <1>5, <1>7, <1>8, <1>9, DecodeStep
  <1>11. At(k, h, p3, "ext", z)
    BY <1>4, <1>5, <1>7, <1>8, <1>10, DecodeStep
  <1>12. At(k, h, p4, "data", z)
    BY <1>4, <1>5, <1>7, <1>8, <1>11, DecodeStep
  <1>13. At(k, h, p5, "crlf", 0) /\ Within(h, p4, p5)
    BY <1>4, <1>6, <1>7, <1>12, DataDone
  <1>14. At(k, h, p6, "crlf", 0)
    BY <1>4, <1>5, <1>7, <1>8, <1>13, DecodeStep
  <1>15. At(k, h, p7, "size", 0)
    BY <1>4, <1>5, <1>7, <1>8, <1>14, DecodeStep
  <1>16. Within(h, p, p)
    BY WithinOne DEF Going
  <1>17. Within(h, p, p1)
    BY <1>4, <1>9, <1>16, WithinOneMore
  <1>18. Within(h, p, p2)
    BY <1>4, <1>7, <1>10, <1>17, WithinOneMore
  <1>19. Within(h, p, p3)
    BY <1>4, <1>7, <1>11, <1>18, WithinOneMore DEF Going
  <1>20. Within(h, p, p4)
    BY <1>4, <1>7, <1>12, <1>19, WithinOneMore DEF Going
  <1>21. Within(h, p, p5)
    BY <1>4, <1>13, <1>20, WithinJoined
  <1>22. Within(h, p, p6)
    BY <1>4, <1>7, <1>14, <1>21, WithinOneMore DEF Going
  <1>23. Within(h, p, p7)
    BY <1>4, <1>7, <1>15, <1>22, WithinOneMore DEF Going
  <1>24. QED
    BY <1>7, <1>15, <1>23

\* The bytes b are in the stream behind q.
Lies(b, q) == \A i \in 1..Len(b) : stream[q + i] = b[i]

\* What lies behind ends later.
LEMMA LayoutMonotone ==
  ASSUME NEW E, NEW s \in Seq(Seq(E)), NEW t, NEW ends, Layout(ends, s, t),
         NEW j \in 0..Len(s), NEW i \in 0..j
  PROVE  ends[i] <= ends[j]
  <1> DEFINE S == {x \in Nat : i + x <= Len(s) => ends[i] <= ends[i + x]}
  <1>1. \A x \in 0..Len(s) : ends[x] \in Nat
    BY DEF Layout
  <1>2. 0 \in S
    <2>1. i + 0 = i /\ i \in 0..Len(s)
      OBVIOUS
    <2>2. QED
      BY <1>1, <2>1
  <1>3. ASSUME NEW x \in Nat, x \in S PROVE x + 1 \in S
    <2> SUFFICES ASSUME i + (x + 1) <= Len(s) PROVE ends[i] <= ends[i + (x + 1)]
      OBVIOUS
    <2>1. PICK y \in 0..Len(s) : y = i + x /\ i + (x + 1) = y + 1 /\ y + 1 \in 1..Len(s)
      OBVIOUS
    <2>2. ends[i] <= ends[y]
      BY <1>3, <2>1
    <2>3. ends[y + 1] = ends[y] + Len(s[y + 1])
      BY <2>1 DEF Layout
    <2>4. PICK a \in Nat, b \in Nat, l \in Nat : a = ends[i] /\ b = ends[y] /\ l = Len(s[y + 1])
      <3>1. Len(s[y + 1]) \in Nat /\ ends[i] \in Nat /\ ends[y] \in Nat
        BY <1>1, <2>1
      <3>2. QED
        BY <3>1, Zenon
    <2>5. a <= b /\ ends[i + (x + 1)] = b + l
      BY <2>1, <2>2, <2>3, <2>4
    <2>6. a <= b + l
      BY <2>5
    <2>7. QED
      BY <2>4, <2>5, <2>6
  <1> HIDE DEF S
  <1>4. j - i \in Nat /\ i + (j - i) = j /\ j <= Len(s)
    OBVIOUS
  <1>5. j - i \in S
    BY <1>2, <1>3, <1>4, Joined!SetInduction
  <1>6. QED
    BY <1>4, <1>5 DEF S

\* A sequence that is part of another one lies where it begins there.
LEMMA LayoutLies ==
  ASSUME NEW E, NEW s \in Seq(Seq(E)), NEW t, NEW ends, Layout(ends, s, t),
         NEW q \in Nat, Lies(t, q), NEW j \in 1..Len(s)
  PROVE  Lies(s[j], q + ends[j - 1])
  <1>1. PICK b \in Seq(E) : b = s[j]
    OBVIOUS
  <1>2. j - 1 \in 0..Len(s) /\ Len(s) \in 0..Len(s) /\ j \in 0..Len(s)
    OBVIOUS
  <1>3. PICK x \in Nat, y \in Nat : x = ends[j - 1] /\ y = ends[j] /\ y = x + Len(b)
    BY <1>1, <1>2 DEF Layout
  <1>4. y <= Len(t) /\ Len(t) \in Nat
    <2>1. Len(t) = ends[Len(s)] /\ ends[Len(s)] \in Nat
      BY <1>2 DEF Layout
    <2>2. ends[j] <= ends[Len(s)]
      <3>1. PICK n \in 0..Len(s) : n = Len(s) /\ j \in 0..n
        OBVIOUS
      <3>2. ends[j] <= ends[n]
        BY <3>1, LayoutMonotone
      <3>3. QED
        BY <3>1, <3>2
    <2>3. QED
      BY <1>3, <2>1, <2>2
  <1>5. \A i \in 1..Len(b) : t[x + i] = b[i]
    BY <1>1, <1>3 DEF Layout
  <1>6. ASSUME NEW i \in 1..Len(b) PROVE stream[q + x + i] = b[i]
    <2>1. PICK l \in Nat, m \in Nat : l = Len(b) /\ m = Len(t) /\ x + l <= m
      BY <1>3, <1>4
    <2>2. x + i \in 1..m /\ q + x + i = q + (x + i)
      BY <2>1
    <2>3. QED
      BY <1>5, <2>1, <2>2 DEF Lies
  <1>7. QED
    BY <1>1, <1>3, <1>6 DEF Lies

\* All chunks but the last one are decoded.
LEMMA ChunksDone ==
  ASSUME NEW k \in Nat, NEW h \in Nat, NEW c \in Seq(Nat \ {0}), At(k, h, h, "size", 0),
         NEW t, t = FlattenSeq([i \in DOMAIN c |-> ChunkBytes(k, c[i])]), Lies(t, h)
  PROVE  /\ t \in Seq(Body(k))
         /\ At(k, h, h + Len(t), "size", 0) /\ Within(h, h, h + Len(t))
  <1>1. PICK E : E = Body(k)
    OBVIOUS
  <1>2. PICK n \in Nat : n = Len(c) /\ DOMAIN c = 1..n
    OBVIOUS
  <1>3. \A i \in 1..n : c[i] \in Nat \ {0}
    BY <1>2
  <1>4. \A i \in 1..n : ChunkBytes(k, c[i]) \in Seq(E) /\ Chunk(ChunkBytes(k, c[i]), k, c[i])
    BY <1>1, <1>3, ChunkBytesAre
  <1>5. PICK s : s = [i \in 1..n |-> ChunkBytes(k, c[i])]
    OBVIOUS
  <1>6. s \in Seq(Seq(E)) /\ Len(s) = n /\ t = FlattenSeq(s)
    BY <1>2, <1>4, <1>5
  <1>7. \A i \in 1..n : s[i] = ChunkBytes(k, c[i]) /\ Len(s[i]) = c[i] + 6
    <2>1. \A i \in 1..n : s[i] = ChunkBytes(k, c[i])
      BY <1>5
    <2>2. QED
      BY <1>4, <2>1 DEF Chunk
  <1>8. t \in Seq(E)
    BY <1>6, FlattenType
  <1>9. PICK ends : Layout(ends, s, t)
    BY <1>6, FlattenLayout
  <1>10. /\ ends[0] = 0 /\ Len(t) = ends[n] /\ \A i \in 0..n : ends[i] \in Nat
         /\ \A i \in 1..n : ends[i] = ends[i - 1] + Len(s[i])
    BY <1>6, <1>9 DEF Layout
  <1> DEFINE In(i) == At(k, h, h + ends[i], "size", 0) /\ Within(h, h, h + ends[i])
             S == {i \in Nat : i <= n => In(i)}
  <1>11. 0 \in S
    <2>1. h + ends[0] = h
      BY <1>10
    <2>2. Within(h, h, h)
      BY WithinOne DEF Going
    <2>3. QED
      BY <2>1, <2>2
  <1>12. ASSUME NEW i \in Nat, i \in S PROVE i + 1 \in S
    <2> SUFFICES ASSUME i + 1 <= n PROVE In(i + 1)
      <3> HIDE DEF In
      <3>1. QED
        OBVIOUS
    <2>1. i + 1 \in 1..n /\ i + 1 - 1 = i /\ i \in 0..n /\ i <= n
      OBVIOUS
    <2>2. In(i)
      <3> HIDE DEF In
      <3>1. QED
        BY <1>12, <2>1
    <2>3. PICK j \in 1..n, z \in Nat \ {0} : j = i + 1 /\ j - 1 = i /\ z = c[j]
      <3> HIDE DEF In, S
      <3>1. PICK j \in 1..n : j = i + 1 /\ j - 1 = i
        BY <2>1
      <3>2. c[j] \in Nat \ {0}
        BY <1>3
      <3>3. QED
        BY <3>1, <3>2
    <2>4. PICK x \in Nat, p \in Nat : x = ends[i] /\ p = h + x /\ h <= p
                                   /\ ends[i + 1] = x + (z + 6) /\ h + ends[i + 1] = p + (z + 6)
      <3> HIDE DEF In, S
      <3>1. PICK x \in Nat : x = ends[i]
        BY <1>10, <2>1
      <3>2. ends[i + 1] = x + (z + 6)
        BY <1>7, <1>10, <2>3, <3>1
      <3>3. QED
        BY <3>1, <3>2
    <2>5. Lies(s[j], p)
      <3> HIDE DEF In, S
      <3>1. j \in 1..Len(s)
        BY <1>6
      <3>2. Lies(s[j], h + ends[j - 1])
        BY <1>6, <1>9, <3>1, LayoutLies
      <3>3. QED
        BY <2>3, <2>4, <3>2
    <2>6. \A y \in 1..(z + 6) : stream[p + y] = ChunkBytes(k, z)[y]
      <3> HIDE DEF In, S
      <3>1. s[j] = ChunkBytes(k, z) /\ Len(s[j]) = z + 6
        BY <1>7, <2>3
      <3>2. QED
        BY <2>5, <3>1 DEF Lies
    <2>7. At(k, h, p, "size", 0) /\ Within(h, h, p)
      BY <2>2, <2>4
    <2>8. At(k, h, p + (z + 6), "size", 0) /\ Within(h, p, p + (z + 6))
      <3> HIDE DEF In, S
      <3>1. QED
        BY <2>4, <2>6, <2>7, ChunkDone
    <2>9. Within(h, h, p + (z + 6))
      <3> HIDE DEF In, S
      <3>1. p + (z + 6) \in Nat
        OBVIOUS
      <3>2. QED
        BY <2>7, <2>8, <3>1, WithinJoined
    <2>10. QED
      BY <2>4, <2>8, <2>9
  <1> HIDE DEF S
  <1>13. n \in S
    BY <1>11, <1>12, Joined!SetInduction
  <1>14. QED
    BY <1>1, <1>8, <1>10, <1>13 DEF S

-----------------------------------------------------------------------------
(* What follows the chunks *)

Closing(k) == <<Byte(k, "digit", 0)>> \o EndOfLine(k)
             \o <<Byte(k, "trailer", 0)>> \o EndOfLine(k) \o EndOfLine(k)

LastChunk(s, k) ==
  /\ Len(s) = 8
  /\ s[1] = Byte(k, "digit", 0) /\ s[2] = Byte(k, "cr", 0) /\ s[3] = Byte(k, "lf", 0)
  /\ s[4] = Byte(k, "trailer", 0) /\ s[5] = Byte(k, "cr", 0) /\ s[6] = Byte(k, "lf", 0)
  /\ s[7] = Byte(k, "cr", 0) /\ s[8] = Byte(k, "lf", 0)

\* A sequence of one.
LEMMA OneIs ==
  ASSUME NEW E, NEW x \in E
  PROVE  <<x>> \in Seq(E) /\ Len(<<x>>) = 1 /\ <<x>>[1] = x
  OBVIOUS

\* The last chunk, a line of trailers and the empty line.
LEMMA ClosingIs ==
  ASSUME NEW k \in Nat
  PROVE  Closing(k) \in Seq(Body(k)) /\ LastChunk(Closing(k), k)
  <1>1. PICK E : E = Body(k)
    OBVIOUS
  <1>2. PICK x \in E : x = Byte(k, "digit", 0)
    BY <1>1, ByteType
  <1>3. PICK y \in E : y = Byte(k, "trailer", 0)
    BY <1>1, ByteType
  <1>4. PICK l \in Seq(E) : l = EndOfLine(k)
    BY <1>1, EndOfLineIs
  <1>5. Len(l) = 2 /\ l[1] = Byte(k, "cr", 0) /\ l[2] = Byte(k, "lf", 0)
    BY <1>4, EndOfLineIs
  <1>6. PICK a \in Seq(E) : a = <<x>> /\ Len(a) = 1 /\ a[1] = x
    <2>1. <<x>> \in Seq(E) /\ Len(<<x>>) = 1 /\ <<x>>[1] = x
      BY OneIs
    <2>2. QED
      BY <2>1, Zenon
  <1>7. PICK d \in Seq(E) : d = <<y>> /\ Len(d) = 1 /\ d[1] = y
    <2>1. <<y>> \in Seq(E) /\ Len(<<y>>) = 1 /\ <<y>>[1] = y
      BY OneIs
    <2>2. QED
      BY <2>1, Zenon
  <1>8. PICK u \in Seq(E) : u = Cat(a, l) /\ Joins(u, a, l)
    BY CatJoins
  <1>9. Len(u) = 3 /\ u[1] = a[1] /\ u[2] = l[1] /\ u[3] = l[2]
    <2>1. Len(u) = 3 /\ (\A i \in 1..1 : u[i] = a[i]) /\ (\A i \in 1..2 : u[1 + i] = l[i])
      BY <1>5, <1>6, <1>8 DEF Joins
    <2>2. u[1] = a[1] /\ u[1 + 1] = l[1] /\ u[1 + 2] = l[2]
      BY <2>1
    <2>3. QED
      BY <2>1, <2>2
  <1>10. PICK v \in Seq(E) : v = Cat(u, d) /\ Joins(v, u, d)
    BY CatJoins
  <1>11. Len(v) = 4 /\ v[1] = u[1] /\ v[2] = u[2] /\ v[3] = u[3] /\ v[4] = d[1]
    <2>1. Len(v) = 4 /\ (\A i \in 1..3 : v[i] = u[i]) /\ (\A i \in 1..1 : v[3 + i] = d[i])
      BY <1>7, <1>9, <1>10 DEF Joins
    <2>2. v[1] = u[1] /\ v[2] = u[2] /\ v[3] = u[3] /\ v[3 + 1] = d[1]
      BY <2>1
    <2>3. QED
      BY <2>1, <2>2
  <1>12. PICK w \in Seq(E) : w = Cat(v, l) /\ Joins(w, v, l)
    BY CatJoins
  <1>13. Len(w) = 6 /\ w[1] = v[1] /\ w[2] = v[2] /\ w[3] = v[3] /\ w[4] = v[4]
         /\ w[5] = l[1] /\ w[6] = l[2]
    <2>1. Len(w) = 6 /\ (\A i \in 1..4 : w[i] = v[i]) /\ (\A i \in 1..2 : w[4 + i] = l[i])
      BY <1>5, <1>11, <1>12 DEF Joins
    <2>2. w[1] = v[1] /\ w[2] = v[2] /\ w[3] = v[3] /\ w[4] = v[4]
          /\ w[4 + 1] = l[1] /\ w[4 + 2] = l[2]
      BY <2>1
    <2>3. QED
      BY <2>1, <2>2
  <1>14. PICK s \in Seq(E) : s = Cat(w, l) /\ Joins(s, w, l)
    BY CatJoins
  <1>15. Len(s) = 8 /\ s[1] = w[1] /\ s[2] = w[2] /\ s[3] = w[3] /\ s[4] = w[4]
         /\ s[5] = w[5] /\ s[6] = w[6] /\ s[7] = l[1] /\ s[8] = l[2]
    <2>1. Len(s) = 8 /\ (\A i \in 1..6 : s[i] = w[i]) /\ (\A i \in 1..2 : s[6 + i] = l[i])
      BY <1>5, <1>13, <1>14 DEF Joins
    <2>2. s[1] = w[1] /\ s[2] = w[2] /\ s[3] = w[3] /\ s[4] = w[4] /\ s[5] = w[5] /\ s[6] = w[6]
          /\ s[6 + 1] = l[1] /\ s[6 + 2] = l[2]
      BY <2>1
    <2>3. QED
      BY <2>1, <2>2
  <1>16. Closing(k) = s
    BY <1>2, <1>3, <1>4, <1>6, <1>7, <1>8, <1>10, <1>12, <1>14, Zenon DEF Closing, Cat
  <1>17. LastChunk(s, k)
    BY <1>2, <1>3, <1>5, <1>6, <1>7, <1>9, <1>11, <1>13, <1>15 DEF LastChunk
  <1>18. QED
    BY <1>1, <1>16, <1>17

\* The decoder is complete with the last of these bytes and not before.
LEMMA ClosingDone ==
  ASSUME NEW k \in Nat, NEW h \in Nat, NEW p \in Nat, h <= p, At(k, h, p, "size", 0),
         NEW s, LastChunk(s, k), Lies(s, p)
  PROVE  At(k, h, p + 8, "complete", 0) /\ Within(h, p, p + 7)
  <1>1. \A i \in 1..8 : stream[p + i] = s[i]
    BY DEF Lies, LastChunk
  <1>2. PICK p1 \in Nat, p2 \in Nat, p3 \in Nat, p4 \in Nat, p5 \in Nat, p6 \in Nat, p7 \in Nat, p8 \in Nat :
        /\ p1 = p + 1 /\ p2 = p1 + 1 /\ p3 = p2 + 1 /\ p4 = p3 + 1
        /\ p5 = p4 + 1 /\ p6 = p5 + 1 /\ p7 = p6 + 1 /\ p8 = p7 + 1
    OBVIOUS
  <1>3. /\ stream[p1] = s[1] /\ stream[p2] = s[2] /\ stream[p3] = s[3] /\ stream[p4] = s[4]
        /\ stream[p5] = s[5] /\ stream[p6] = s[6] /\ stream[p7] = s[7] /\ stream[p8] = s[8]
    <2>1. p2 = p + 2 /\ p3 = p + 3 /\ p4 = p + 4 /\ p5 = p + 5 /\ p6 = p + 6 /\ p7 = p + 7 /\ p8 = p + 8
      BY <1>2
    <2>2. QED
      BY <1>1, <1>2, <2>1
  <1>4. /\ stream[p1] = Byte(k, "digit", 0) /\ stream[p2] = Byte(k, "cr", 0)
        /\ stream[p3] = Byte(k, "lf", 0) /\ stream[p4] = Byte(k, "trailer", 0)
        /\ stream[p5] = Byte(k, "cr", 0) /\ stream[p6] = Byte(k, "lf", 0)
        /\ stream[p7] = Byte(k, "cr", 0) /\ stream[p8] = Byte(k, "lf", 0)
    BY <1>3, Zenon DEF LastChunk
  <1>5. h <= p1 /\ h <= p2 /\ h <= p3 /\ h <= p4 /\ h <= p5 /\ h <= p6 /\ h <= p7
        /\ p <= p1 /\ p <= p2 /\ p <= p3 /\ p <= p4 /\ p <= p5 /\ p <= p6
        /\ p7 = p + 7 /\ p8 = p + 8 /\ 0 \in Nat
    BY <1>2
  <1>6. At(k, h, p1, "digits", 0)
    BY <1>2, <1>4, <1>5, DecodeStep
  <1>7. At(k, h, p2, "ext", 0)
    BY <1>2, <1>4, <1>5, <1>6, DecodeStep
  <1>8. At(k, h, p3, "trailer", 0)
    BY <1>2, <1>4, <1>5, <1>7, DecodeStep
  <1>9. At(k, h, p4, "line", 0)
    BY <1>2, <1>4, <1>5, <1>8, DecodeStep
  <1>10. At(k, h, p5, "line", 0)
    BY <1>2, <1>4, <1>5, <1>9, DecodeStep
  <1>11. At(k, h, p6, "trailer", 0)
    BY <1>2, <1>4, <1>5, <1>10, DecodeStep
  <1>12. At(k, h, p7, "trailer", 0)
    BY <1>2, <1>4, <1>5, <1>11, DecodeStep
  <1>13. At(k, h, p8, "complete", 0)
    BY <1>2, <1>4, <1>5, <1>12, DecodeStep
  <1>14. Within(h, p, p)
    BY WithinOne DEF Going
  <1>15. Within(h, p, p1)
    BY <1>2, <1>6, <1>14, WithinOneMore
  <1>16. Within(h, p, p2)
    BY <1>2, <1>5, <1>7, <1>15, WithinOneMore DEF Going
  <1>17. Within(h, p, p3)
    BY <1>2, <1>5, <1>8, <1>16, WithinOneMore DEF Going
  <1>18. Within(h, p, p4)
    BY <1>2, <1>5, <1>9, <1>17, WithinOneMore DEF Going
  <1>19. Within(h, p, p5)
    BY <1>2, <1>5, <1>10, <1>18, WithinOneMore DEF Going
  <1>20. Within(h, p, p6)
    BY <1>2, <1>5, <1>11, <1>19, WithinOneMore DEF Going
  <1>21. Within(h, p, p7)
    BY <1>2, <1>5, <1>12, <1>20, WithinOneMore DEF Going
  <1>22. QED
    BY <1>5, <1>13, <1>21

-----------------------------------------------------------------------------
(* The body of a message *)

\* What may follow the head of message k.
Inner(k) == {b \in Of(k) : b.is \notin {"head", "head_end"}}

\* What is in place in a body is no head.
LEMMA BodyInner ==
  ASSUME NEW k, NEW s \in Seq(Body(k))
  PROVE  s \in Seq(Inner(k))
  <1>1. Body(k) \subseteq Inner(k)
    BY DEF Body, Inner
  <1>2. PICK E, F : E = Body(k) /\ F = Inner(k) /\ E \subseteq F
    BY <1>1
  <1>3. s \in Seq(F)
    BY <1>2
  <1>4. QED
    BY <1>2, <1>3

BadByte(k) == <<Byte(k, "bad", 0)>>
Flat(k, m) == FlattenSeq([i \in DOMAIN m.chunks |-> ChunkBytes(k, m.chunks[i])])
Ending(k, m) == IF m.invalid = "body" THEN BadByte(k) ELSE Closing(k)

\* All chunks together are bytes of a body.
LEMMA FlatType ==
  ASSUME NEW k \in Nat, NEW c \in Seq(Nat \ {0})
  PROVE  FlattenSeq([i \in DOMAIN c |-> ChunkBytes(k, c[i])]) \in Seq(Body(k))
  <1>1. PICK E : E = Body(k)
    OBVIOUS
  <1>2. PICK n \in Nat : n = Len(c) /\ DOMAIN c = 1..n
    OBVIOUS
  <1>3. \A i \in 1..n : c[i] \in Nat
    BY <1>2
  <1>4. \A i \in 1..n : ChunkBytes(k, c[i]) \in Seq(E)
    BY <1>1, <1>3, ChunkBytesAre
  <1>5. PICK s : s = [i \in DOMAIN c |-> ChunkBytes(k, c[i])]
    OBVIOUS
  <1>6. s \in Seq(Seq(E))
    BY <1>2, <1>4, <1>5
  <1>7. QED
    BY <1>1, <1>5, <1>6, FlattenType

\* The byte that does not parse.
LEMMA BadByteIs ==
  ASSUME NEW k \in Nat
  PROVE  /\ BadByte(k) \in Seq(Inner(k)) /\ Len(BadByte(k)) = 1
         /\ BadByte(k)[1] = Byte(k, "bad", 0)
  <1>1. PICK E : E = Inner(k)
    OBVIOUS
  <1>2. Byte(k, "bad", 0) \in Of(k) /\ Byte(k, "bad", 0).is = "bad"
    BY ByteType
  <1>3. PICK x \in E : x = Byte(k, "bad", 0)
    BY <1>1, <1>2 DEF Inner
  <1>4. <<x>> \in Seq(E) /\ Len(<<x>>) = 1 /\ <<x>>[1] = x
    BY OneIs
  <1>5. QED
    BY <1>1, <1>3, <1>4, Zenon DEF BadByte

\* What follows the chunks may follow a head.
LEMMA EndingType ==
  ASSUME NEW k \in Nat, NEW m
  PROVE  Ending(k, m) \in Seq(Inner(k)) /\ Len(Ending(k, m)) \in Nat \ {0}
  <1>1. CASE m.invalid = "body"
    BY <1>1, BadByteIs DEF Ending
  <1>2. CASE m.invalid # "body"
    BY <1>2, ClosingIs, BodyInner DEF Ending, LastChunk
  <1>3. QED
    BY <1>1, <1>2

\* A body in chunks is its chunks and its ending.
LEMMA ChunkedBytesAre ==
  ASSUME NEW k \in Nat, NEW m \in Message
  PROVE  /\ Flat(k, m) \in Seq(Body(k))
         /\ ChunkedBytes(k, m) \in Seq(Inner(k))
         /\ Joins(ChunkedBytes(k, m), Flat(k, m), Ending(k, m))
  <1>1. PICK c \in Seq(Nat \ {0}) : c = m.chunks
    BY DEF Message
  <1>2. Flat(k, m) \in Seq(Body(k))
    BY <1>1, FlatType DEF Flat
  <1>3. PICK E : E = Inner(k)
    OBVIOUS
  <1>4. PICK x \in Seq(E), y \in Seq(E) : x = Flat(k, m) /\ y = Ending(k, m)
    <2>1. Flat(k, m) \in Seq(E)
      BY <1>2, <1>3, BodyInner
    <2>2. Ending(k, m) \in Seq(E)
      BY <1>3, EndingType
    <2>3. QED
      BY <2>1, <2>2
  <1>5. ChunkedBytes(k, m) = Cat(x, y)
    <2>1. ChunkedBytes(k, m) = Flat(k, m) \o Ending(k, m)
      BY DEF ChunkedBytes, Flat, Ending, BadByte, Closing
    <2>2. QED
      BY <1>4, <2>1 DEF Cat
  <1>6. Cat(x, y) \in Seq(E) /\ Joins(Cat(x, y), x, y)
    BY CatJoins
  <1>7. QED
    BY <1>2, <1>3, <1>4, <1>5, <1>6

\* Where parts of a sequence lie.
LEMMA LiesJoined ==
  ASSUME NEW E, NEW x \in Seq(E), NEW y \in Seq(E), NEW z, Joins(z, x, y), NEW q \in Nat, Lies(z, q)
  PROVE  Lies(x, q) /\ Lies(y, q + Len(x))
  <1>1. PICK m \in Nat, n \in Nat : m = Len(x) /\ n = Len(y)
    OBVIOUS
  <1>2. /\ Len(z) = m + n /\ (\A i \in 1..m : z[i] = x[i]) /\ \A i \in 1..n : z[m + i] = y[i]
    BY <1>1 DEF Joins
  <1>3. \A i \in 1..(m + n) : stream[q + i] = z[i]
    BY <1>2 DEF Lies
  <1>4. \A i \in 1..m : i \in 1..(m + n)
    OBVIOUS
  <1>5. \A i \in 1..n : m + i \in 1..(m + n) /\ q + m + i = q + (m + i)
    OBVIOUS
  <1>6. \A i \in 1..m : stream[q + i] = x[i]
    BY <1>2, <1>3, <1>4
  <1>7. \A i \in 1..n : stream[q + m + i] = y[i]
    BY <1>2, <1>3, <1>5
  <1>8. QED
    BY <1>1, <1>6, <1>7 DEF Lies

\* What lies in the stream is found there.
LEMMA LiesIn ==
  ASSUME NEW E, NEW b \in Seq(E), NEW q \in Nat, Lies(b, q), NEW p \in (q + 1)..(q + Len(b))
  PROVE  stream[p] = b[p - q] /\ p - q \in 1..Len(b) /\ stream[p] \in E
  <1>1. PICK n \in Nat : n = Len(b)
    OBVIOUS
  <1>2. PICK i \in 1..n : i = p - q /\ q + i = p
    BY <1>1
  <1>3. b[i] \in E
    BY <1>1
  <1>4. QED
    BY <1>1, <1>2, <1>3 DEF Lies

\* A body in chunks: the decoder stops exactly at its end.
ChunkedAt(k, m, h, e) ==
  /\ h < e /\ Within(h, h, e - 1) /\ Whole(h, e).rest = << >>
  /\ \A p \in (h + 1)..(e - 1) : stream[p].is # "bad"
  /\ IF m.invalid = "body" THEN stream[e].is = "bad" /\ Whole(h, e).state = "malformed"
     ELSE stream[e].is # "bad" /\ Whole(h, e).state = "complete" /\ Whole(h, e).out = Data(k, e)

\* A body in chunks that lies in the stream is decoded to its data.
LEMMA ChunkedDone ==
  ASSUME NEW k \in Nat, NEW m \in Message, NEW h \in Nat, Data(k, h) = << >>,
         NEW b, b = ChunkedBytes(k, m), Lies(b, h)
  PROVE  ChunkedAt(k, m, h, h + Len(b))
  <1>1. PICK c \in Seq(Nat \ {0}) : c = m.chunks
    BY DEF Message
  <1>2. PICK E, F : E = Inner(k) /\ F = Body(k) /\ F \subseteq E
    BY DEF Inner, Body
  <1>3. PICK x \in Seq(F) : x = Flat(k, m)
    BY <1>2, ChunkedBytesAre
  <1>4. PICK y \in Seq(E) : y = Ending(k, m)
    BY <1>2, EndingType
  <1>5. Joins(b, x, y) /\ x \in Seq(E)
    BY <1>2, <1>3, <1>4, ChunkedBytesAre, BodyInner
  <1>6. Lies(x, h) /\ Lies(y, h + Len(x))
    BY <1>5, LiesJoined
  <1>7. At(k, h, h, "size", 0)
    <2>1. Whole(h, h) = Start
      BY WholeStep
    <2>2. PICK v : v = Data(k, h) /\ v = << >>
      OBVIOUS
    <2>3. PICK t, s : t = "size" /\ s = "size"
      OBVIOUS
    <2>4. PICK g \in BOOLEAN : ~g
      OBVIOUS
    <2>5. Whole(h, h) = Literal(t, g, 0, Data(k, h), << >>)
      BY <2>1, <2>2, <2>3, <2>4 DEF Start, Literal
    <2>6. At(k, h, h, s, 0)
      BY <2>3, <2>4, <2>5, AtLiteral
    <2>7. QED
      BY <2>3, <2>6
  <1>8. PICK p \in Nat : p = h + Len(x) /\ h <= p
    OBVIOUS
  <1>9. At(k, h, p, "size", 0) /\ Within(h, h, p)
    BY <1>1, <1>3, <1>6, <1>7, <1>8, ChunksDone DEF Flat
  <1>10. \A i \in (h + 1)..p : stream[i].is # "bad"
    <2>1. \A i \in (h + 1)..p : stream[i] \in F
      BY <1>6, <1>8, LiesIn
    <2>2. QED
      BY <1>2, <2>1 DEF Body
  <1>11. CASE m.invalid = "body"
    <2>1. Len(y) = 1 /\ y[1] = Byte(k, "bad", 0)
      BY <1>4, <1>11, BadByteIs DEF Ending
    <2>2. PICK e \in Nat : e = p + 1 /\ e = h + Len(b) /\ e - 1 = p /\ h < e
      BY <1>5, <1>8, <2>1 DEF Joins
    <2>3. stream[e] = Byte(k, "bad", 0)
      BY <1>6, <1>8, <2>1, <2>2 DEF Lies
    <2>4. At(k, h, e, "malformed", 0)
      BY <1>8, <1>9, <2>2, <2>3, DecodeStep
    <2>5. Whole(h, e).state = "malformed" /\ Whole(h, e).rest = << >>
      BY <2>4, AtIs
    <2>6. stream[e].is = "bad"
      BY <2>3 DEF Byte
    <2>7. QED
      BY <1>9, <1>10, <1>11, <2>2, <2>5, <2>6 DEF ChunkedAt
  <1>12. CASE m.invalid # "body"
    <2>1. y = Closing(k) /\ LastChunk(y, k) /\ y \in Seq(F)
      BY <1>2, <1>4, <1>12, ClosingIs DEF Ending
    <2>2. At(k, h, p + 8, "complete", 0) /\ Within(h, p, p + 7)
      BY <1>6, <1>8, <1>9, <2>1, ClosingDone
    <2>3. PICK e \in Nat : e = p + 8 /\ e = h + Len(b) /\ e - 1 = p + 7 /\ h < e
      <3>1. Len(y) = 8
        BY <2>1 DEF LastChunk
      <3>2. Len(b) = Len(x) + 8
        BY <1>5, <3>1 DEF Joins
      <3>3. QED
        BY <1>8, <3>2
    <2>4. Within(h, h, e - 1)
      BY <1>9, <2>2, <2>3, WithinJoined
    <2>5. Whole(h, e).state = "complete" /\ Whole(h, e).rest = << >> /\ Whole(h, e).out = Data(k, e)
      BY <2>2, <2>3, AtIs
    <2>6. \A i \in (p + 1)..e : stream[i].is # "bad"
      <3>1. Len(y) = 8
        BY <2>1 DEF LastChunk
      <3>2. Lies(y, p)
        BY <1>6, <1>8
      <3>3. \A i \in (p + 1)..(p + Len(y)) : stream[i] \in F
        BY <2>1, <3>2, LiesIn
      <3>4. QED
        BY <1>2, <2>3, <3>1, <3>3 DEF Body
    <2>7. \A i \in (h + 1)..e : stream[i].is # "bad"
      BY <1>10, <2>6
    <2>8. QED
      BY <1>12, <2>3, <2>4, <2>5, <2>7 DEF ChunkedAt
  <1>13. QED
    BY <1>11, <1>12

-----------------------------------------------------------------------------
(* A message in the stream *)

BodyBytes(k, m) ==
  IF m.length # CONTENT_LENGTH_UNSET THEN Repeat(k, "data", m.length)
  ELSE IF m.transfer = "chunked" THEN ChunkedBytes(k, m) ELSE << >>

\* The bytes of a message: b is its head and then its body.
Headed(b, m, body) ==
  /\ Len(b) = m.head + Len(body)
  /\ \A i \in 1..(m.head - 1) : b[i].is = "head"
  /\ b[m.head].is = "head_end"

\* The fields of a message.
LEMMA MessageFields ==
  ASSUME NEW m \in Message
  PROVE  /\ m.head \in Nat \ {0} /\ m.transfer \in Transfers /\ m.length \in ContentLengths
         /\ m.chunks \in Seq(Nat \ {0}) /\ m.close \in BOOLEAN
         /\ (m.length # CONTENT_LENGTH_UNSET => m.length \in Nat)
  BY DEF Message, ContentLengths

\* What may follow a head belongs to its message.
LEMMA InnerOf ==
  ASSUME NEW k, NEW s \in Seq(Inner(k))
  PROVE  s \in Seq(Of(k))
  <1>1. Inner(k) \subseteq Of(k)
    BY DEF Inner
  <1>2. PICK E, F : E = Inner(k) /\ F = Of(k) /\ E \subseteq F
    BY <1>1
  <1>3. s \in Seq(F)
    BY <1>2
  <1>4. QED
    BY <1>2, <1>3

\* The bytes of a body may follow a head.
LEMMA BodyBytesType ==
  ASSUME NEW k \in Nat, NEW m \in Message
  PROVE  BodyBytes(k, m) \in Seq(Inner(k))
  <1>1. CASE m.length # CONTENT_LENGTH_UNSET
    <2>1. m.length \in Nat
      BY <1>1, MessageFields
    <2>2. Repeat(k, "data", m.length) \in Seq(Body(k))
      BY <2>1, RepeatIs
    <2>3. QED
      BY <1>1, <2>2, BodyInner DEF BodyBytes
  <1>2. CASE m.length = CONTENT_LENGTH_UNSET /\ m.transfer = "chunked"
    BY <1>2, ChunkedBytesAre DEF BodyBytes
  <1>3. CASE m.length = CONTENT_LENGTH_UNSET /\ m.transfer # "chunked"
    <2>1. << >> \in Seq(Inner(k))
      OBVIOUS
    <2>2. QED
      BY <1>3, <2>1 DEF BodyBytes
  <1>4. QED
    BY <1>1, <1>2, <1>3

\* A message is its head and its body.
LEMMA MessageBytesAre ==
  ASSUME NEW k \in Nat, NEW m \in Message
  PROVE  \E a \in Seq(Of(k)) :
           /\ MessageBytes(k, m) \in Seq(Of(k))
           /\ Len(a) = m.head /\ Joins(MessageBytes(k, m), a, BodyBytes(k, m))
           /\ Headed(MessageBytes(k, m), m, BodyBytes(k, m))
  <1>1. PICK E : E = Of(k)
    OBVIOUS
  <1>2. PICK n \in Nat : n = m.head - 1 /\ m.head = n + 1
    BY MessageFields
  <1>3. PICK u \in Seq(E) : u = Repeat(k, "head", n)
    BY <1>1, RepeatIs
  <1>4. Len(u) = n /\ \A i \in 1..n : u[i].is = "head"
    <2>1. Len(u) = n /\ \A i \in 1..n : u[i] = Byte(k, "head", i)
      BY <1>3, RepeatIs
    <2>2. \A i \in 1..n : Byte(k, "head", i).is = "head"
      BY DEF Byte
    <2>3. QED
      BY <2>1, <2>2
  <1>5. PICK x \in E : x = Byte(k, "head_end", 0) /\ x.is = "head_end"
    BY <1>1, ByteType
  <1>6. PICK v \in Seq(E) : v = <<x>> /\ Len(v) = 1 /\ v[1] = x
    <2>1. <<x>> \in Seq(E) /\ Len(<<x>>) = 1 /\ <<x>>[1] = x
      BY OneIs
    <2>2. QED
      BY <2>1, Zenon
  <1>7. PICK d \in Seq(E) : d = BodyBytes(k, m)
    <2>1. BodyBytes(k, m) \in Seq(E)
      BY <1>1, BodyBytesType, InnerOf
    <2>2. QED
      BY <2>1
  <1>8. PICK a \in Seq(E) : a = Cat(u, v) /\ Joins(a, u, v)
    BY CatJoins
  <1>9. PICK b \in Seq(E) : b = Cat(a, d) /\ Joins(b, a, d)
    BY CatJoins
  <1>10. MessageBytes(k, m) = b
    <2>1. MessageBytes(k, m)
            = Repeat(k, "head", m.head - 1) \o <<Byte(k, "head_end", 0)>> \o BodyBytes(k, m)
      BY Zenon DEF MessageBytes, BodyBytes
    <2>2. QED
      BY <1>2, <1>3, <1>5, <1>6, <1>7, <1>8, <1>9, <2>1, Zenon DEF Cat
  <1>11. Len(a) = n + 1 /\ (\A i \in 1..n : a[i].is = "head") /\ a[n + 1].is = "head_end"
    <2>1. Len(a) = n + 1 /\ (\A i \in 1..n : a[i] = u[i]) /\ \A i \in 1..1 : a[n + i] = v[i]
      BY <1>4, <1>6, <1>8 DEF Joins
    <2>2. a[n + 1] = v[1]
      BY <2>1
    <2>3. QED
      BY <1>4, <1>5, <1>6, <2>1, <2>2
  <1>12. Len(b) = n + 1 + Len(d) /\ \A i \in 1..(n + 1) : b[i] = a[i]
    BY <1>9, <1>11 DEF Joins
  <1>13. Headed(b, m, d)
    <2>1. \A i \in 1..n : i \in 1..(n + 1)
      OBVIOUS
    <2>2. n + 1 \in 1..(n + 1) /\ m.head - 1 = n
      BY <1>2
    <2>3. QED
      BY <1>2, <1>11, <1>12, <2>1, <2>2 DEF Headed
  <1>14. QED
    BY <1>1, <1>2, <1>7, <1>9, <1>10, <1>11, <1>13

\* How a body is framed: h is the last byte of the head, e of the message.
Framed(h, e, k) ==
  /\ messages[k].length # CONTENT_LENGTH_UNSET =>
       /\ e = h + messages[k].length
       /\ \A p \in (h + 1)..e : stream[p].is # "bad"
       /\ BodyOf(k) = [i \in 1..messages[k].length |-> h + i]
  /\ messages[k].length = CONTENT_LENGTH_UNSET /\ messages[k].transfer = "chunked" =>
       /\ ChunkedAt(k, messages[k], h, e)
       /\ messages[k].invalid # "body" => BodyOf(k) = Whole(h, e).out
  /\ messages[k].length = CONTENT_LENGTH_UNSET /\ messages[k].transfer # "chunked" =>
       e = h /\ BodyOf(k) = << >>

\* The message behind q: its head ends at h and the message at e.
Piece(q, h, e) ==
  /\ q \in Nat /\ h \in Nat /\ e \in Nat /\ q < h /\ h <= e /\ e <= Len(stream) /\ LastOf(e)
  /\ stream[h].message \in DOMAIN messages
  /\ \A p \in (q + 1)..e : stream[p].message = stream[h].message
  /\ \A p \in (q + 1)..(h - 1) : stream[p].is = "head"
  /\ stream[h].is = "head_end"
  /\ \A p \in (h + 1)..e : stream[p].is \notin {"head", "head_end"}
  /\ Framed(h, e, stream[h].message)

\* BodyOf is the data of the message in the whole stream.
LEMMA BodyOfIs ==
  ASSUME stream \in Seq(Bytes), NEW k
  PROVE  BodyOf(k) = Data(k, Len(stream))
  <1>1. DOMAIN stream = 1..Len(stream)
    OBVIOUS
  <1>2. QED
    BY <1>1, Zenon DEF BodyOf, Data

\* A head of n bytes behind q and a body of z bytes behind it.
Placing(q, n, z) ==
  \E h \in Nat, f \in Nat :
     /\ f = q + (n + z) /\ h = q + n
     /\ f = h + z /\ q < h /\ h <= f /\ f # 0 /\ h \in (q + 1)..f /\ h - q = n

\* Numbers for a head and a body behind it.
LEMMA PieceEnds ==
  ASSUME NEW q \in Nat, NEW n \in Nat, n # 0, NEW z \in Nat
  PROVE  Placing(q, n, z)
  <1>1. PICK h \in Nat, f \in Nat : f = q + (n + z) /\ h = q + n
    OBVIOUS
  <1>2. f = h + z /\ q < h /\ h <= f /\ f # 0 /\ h \in (q + 1)..f /\ h - q = n
    BY <1>1
  <1>3. QED
    BY <1>1, <1>2 DEF Placing

\* The bytes of a message, where they lie in the stream, are a piece.
LEMMA PieceIs ==
  ASSUME stream \in Seq(Bytes), NEW k \in Nat, k \in DOMAIN messages, NEW m \in Message,
         m = messages[k], NEW q \in Nat, NEW b, b = MessageBytes(k, m), Lies(b, q),
         NEW e, e = q + Len(b), e <= Len(stream),
         \A p \in 1..Len(stream) : p \in (q + 1)..e \/ stream[p].message # k
  PROVE  Piece(q, q + m.head, e)
  <1>1. PICK d \in Seq(Inner(k)) : d = BodyBytes(k, m)
    BY BodyBytesType
  <1>2. PICK a \in Seq(Of(k)) :
           b \in Seq(Of(k)) /\ Len(a) = m.head /\ Joins(b, a, d) /\ Headed(b, m, d)
    BY <1>1, MessageBytesAre
  <1>3. PICK n \in Nat, z \in Nat : n = m.head /\ n # 0 /\ z = Len(d) /\ Len(b) = n + z
    BY <1>1, <1>2, MessageFields DEF Headed
  <1>4. PICK h \in Nat : h = q + n /\ q < h /\ h <= e /\ e \in Nat /\ e = h + z /\ e \in 1..Len(stream)
                      /\ h \in (q + 1)..e /\ h - q = n
    <2>. Placing(q, n, z)
      BY <1>3, PieceEnds
    <2>1. PICK h \in Nat, f \in Nat :
             /\ f = q + (n + z) /\ h = q + n
             /\ f = h + z /\ q < h /\ h <= f /\ f # 0 /\ h \in (q + 1)..f /\ h - q = n
      BY Zenon DEF Placing
    <2>2. f = e
      BY <1>3, <2>1
    <2>3. f \in Nat /\ f # 0
      BY <2>1
    <2>4. PICK l \in Nat : l = Len(stream) /\ f <= l
      BY <2>2
    <2>5. f \in 1..l
      BY <2>3, <2>4
    <2>6. e \in Nat /\ e \in 1..Len(stream)
      BY <2>2, <2>4, <2>5, Zenon
    <2>7. q < h /\ h <= e /\ e = h + z /\ h \in (q + 1)..e
      BY <2>1, <2>2, Zenon
    <2>8. QED
      BY <2>1, <2>6, <2>7, Zenon
  <1>5. Lies(d, h)
    <2>1. PICK E : E = Of(k)
      OBVIOUS
    <2>2. a \in Seq(E) /\ d \in Seq(E)
      BY <1>1, <2>1, InnerOf
    <2>3. Lies(d, q + Len(a))
      BY <1>2, <2>2, LiesJoined
    <2>4. QED
      BY <1>2, <1>3, <1>4, <2>3
  <1>6. \A p \in (q + 1)..e : stream[p].message = k /\ stream[p] = b[p - q]
    <2>1. \A p \in (q + 1)..(q + Len(b)) : stream[p] \in Of(k) /\ stream[p] = b[p - q]
      BY <1>2, LiesIn
    <2>2. QED
      BY <2>1 DEF Of
  <1>7. stream[h].message = k /\ stream[h].is = "head_end"
    <2>1. b[n].is = "head_end"
      BY <1>2, <1>3 DEF Headed
    <2>2. stream[h].message = k /\ stream[h] = b[n]
      BY <1>4, <1>6
    <2>3. QED
      BY <2>1, <2>2
  <1>8. \A p \in (q + 1)..(h - 1) : stream[p].is = "head"
    <2>1. \A p \in (q + 1)..(h - 1) : p \in (q + 1)..e /\ p - q \in 1..(n - 1)
      BY <1>4
    <2>2. \A i \in 1..(n - 1) : b[i].is = "head"
      BY <1>2, <1>3 DEF Headed
    <2>3. QED
      BY <1>6, <2>1, <2>2
  <1>9. \A p \in (h + 1)..e : stream[p].is \notin {"head", "head_end"}
    <2>1. \A p \in (h + 1)..(h + Len(d)) : stream[p] \in Inner(k)
      BY <1>1, <1>5, LiesIn
    <2>2. QED
      BY <1>3, <1>4, <2>1 DEF Inner
  <1>10. LastOf(e)
    <2>1. CASE e = Len(stream)
      BY <2>1 DEF LastOf
    <2>2. CASE e # Len(stream)
      <3>1. e + 1 \in 1..Len(stream) /\ e + 1 \notin (q + 1)..e /\ e \in (q + 1)..e
        BY <1>4, <2>2
      <3>2. stream[e + 1].message # k /\ stream[e].message = k
        BY <1>6, <3>1
      <3>3. QED
        BY <3>2 DEF LastOf
    <2>3. QED
      BY <2>1, <2>2
  <1>11. Data(k, h) = << >>
    <2>1. \A p \in (0 + 1)..h : ~(stream[p].message = k /\ stream[p].is = "data")
      <3>1. ASSUME NEW p \in (0 + 1)..h PROVE ~(stream[p].message = k /\ stream[p].is = "data")
        <4>1. p \in 1..Len(stream)
          BY <1>4
        <4>2. CASE p \in (q + 1)..e
          <5>1. p = h \/ p \in (q + 1)..(h - 1)
            BY <4>2, <1>4
          <5>2. QED
            BY <1>7, <1>8, <5>1
        <4>3. CASE p \notin (q + 1)..e
          BY <4>1, <4>3
        <4>4. QED
          BY <4>2, <4>3
      <3>2. QED
        BY <3>1
    <2>2. Data(k, h) = Data(k, 0)
      BY <2>1, DataSame
    <2>3. QED
      BY <2>2, DataStep
  <1>12. BodyOf(k) = Data(k, e)
    <2>1. Len(stream) \in Nat /\ e <= Len(stream)
      OBVIOUS
    <2>2. \A p \in (e + 1)..Len(stream) : ~(stream[p].message = k /\ stream[p].is = "data")
      <3>1. \A p \in (e + 1)..Len(stream) : p \in 1..Len(stream) /\ p \notin (q + 1)..e
        BY <1>4
      <3>2. QED
        BY <3>1
    <2>3. Data(k, Len(stream)) = Data(k, e)
      BY <1>4, <2>1, <2>2, DataSame
    <2>4. QED
      BY <2>3, BodyOfIs
  <1>13. CASE m.length # CONTENT_LENGTH_UNSET
    <2>1. m.length \in Nat
      BY <1>13, MessageFields
    <2>2. d = Repeat(k, "data", m.length)
      BY <1>1, <1>13 DEF BodyBytes
    <2>3. Len(d) = m.length /\ \A i \in 1..m.length : d[i] = Byte(k, "data", i)
      <3>1. PICK l \in Nat : l = m.length
        BY <2>1
      <3>2. /\ Len(Repeat(k, "data", l)) = l
            /\ \A i \in 1..l : Repeat(k, "data", l)[i] = Byte(k, "data", i)
        BY RepeatIs
      <3>3. QED
        BY <2>2, <3>1, <3>2
    <2>4. z = m.length
      BY <1>3, <2>3
    <2>5. \A p \in (h + 1)..(h + z) : stream[p].message = k /\ stream[p].is = "data"
      <3>1. \A p \in (h + 1)..(h + z) : stream[p] = d[p - h] /\ p - h \in 1..z
        <4>1. h \in Nat
          BY <1>4
        <4>2. ASSUME NEW p \in (h + 1)..(h + Len(d))
              PROVE  stream[p] = d[p - h] /\ p - h \in 1..Len(d)
          BY <1>1, <1>5, <4>1, <4>2, LiesIn
        <4>3. QED
          BY <1>3, <4>2
      <3>2. \A i \in 1..z : d[i].message = k /\ d[i].is = "data"
        <4>1. \A i \in 1..z : d[i] = Byte(k, "data", i)
          BY <2>3, <2>4
        <4>2. \A i : Byte(k, "data", i).message = k /\ Byte(k, "data", i).is = "data"
          BY DEF Byte
        <4>3. QED
          BY <4>1, <4>2
      <3>3. QED
        BY <3>1, <3>2
    <2>6. Data(k, h + z) = [i \in 1..z |-> h + i]
      <3>1. AllData(k, h, z)
        BY <2>5 DEF AllData
      <3>2. QED
        BY <1>11, <3>1, DataRun
    <2>7. Framed(h, e, k)
      BY <1>4, <1>12, <1>13, <2>4, <2>5, <2>6 DEF Framed
    <2>8. QED
      BY <1>3, <1>4, <1>6, <1>7, <1>8, <1>9, <1>10, <2>7 DEF Piece
  <1>14. CASE m.length = CONTENT_LENGTH_UNSET /\ m.transfer = "chunked"
    <2>1. d = ChunkedBytes(k, m)
      BY <1>1, <1>14 DEF BodyBytes
    <2>2. ChunkedAt(k, m, h, h + Len(d))
      BY <1>5, <1>11, <2>1, ChunkedDone
    <2>3. ChunkedAt(k, m, h, e)
      BY <1>3, <1>4, <2>2
    <2>4. m.invalid # "body" => BodyOf(k) = Whole(h, e).out
      BY <1>12, <2>3 DEF ChunkedAt
    <2>5. Framed(h, e, k)
      BY <1>14, <2>3, <2>4 DEF Framed
    <2>6. QED
      BY <1>3, <1>4, <1>6, <1>7, <1>8, <1>9, <1>10, <2>5 DEF Piece
  <1>15. CASE m.length = CONTENT_LENGTH_UNSET /\ m.transfer # "chunked"
    <2>1. d = << >>
      BY <1>1, <1>15 DEF BodyBytes
    <2>2. z = 0 /\ e = h
      BY <1>3, <1>4, <2>1
    <2>3. Framed(h, e, k)
      BY <1>11, <1>12, <1>15, <2>2 DEF Framed
    <2>4. QED
      BY <1>3, <1>4, <1>6, <1>7, <1>8, <1>9, <1>10, <2>3 DEF Piece
  <1>16. QED
    BY <1>13, <1>14, <1>15

-----------------------------------------------------------------------------
(* The stream is one message behind the other *)

Boundary(q) == q = 0 \/ (q \in 1..Len(stream) /\ LastOf(q))

\* Behind every end of a message is a whole message.
StreamOK ==
  /\ stream \in Seq(Bytes)
  /\ \A k \in DOMAIN messages : messages[k] \in Message
  /\ \A q \in 0..(Len(stream) - 1) : Boundary(q) => \E h, e \in 1..Len(stream) : Piece(q, h, e)

\* The bytes of message j, in the stream from one end to the next.
Located(ends, n) ==
  /\ \A j \in 1..n : \A p \in (ends[j - 1] + 1)..ends[j] : stream[p].message = j
  /\ \A p \in 1..Len(stream) : \E j \in 1..n : p \in (ends[j - 1] + 1)..ends[j]

\* A message has at least one byte, and all are its own.
LEMMA MessageBytesType ==
  ASSUME NEW k \in Nat, NEW m \in Message, NEW b, b = MessageBytes(k, m)
  PROVE  b \in Seq(Of(k)) /\ b \in Seq(Bytes) /\ Len(b) \in Nat \ {0}
  <1>1. PICK E, F : E = Of(k) /\ F = Bytes /\ E \subseteq F
    BY DEF Of
  <1>2. b \in Seq(E) /\ Headed(b, m, BodyBytes(k, m))
    BY <1>1, MessageBytesAre
  <1>3. b \in Seq(F) /\ Len(b) \in Nat
    BY <1>1, <1>2
  <1>4. PICK d \in Seq(Inner(k)) : d = BodyBytes(k, m)
    BY BodyBytesType
  <1>5. Len(b) # 0
    <2>1. PICK x, y \in Nat : x = m.head /\ x \in Nat \ {0} /\ y = Len(d)
      BY MessageFields
    <2>2. Len(b) = x + y
      BY <1>2, <1>4, <2>1 DEF Headed
    <2>3. QED
      BY <2>1, <2>2
  <1>6. QED
    BY <1>1, <1>2, <1>3, <1>5

\* Messages that lie one behind the other have the bytes between their ends.
LEMMA LayoutLocated ==
  ASSUME NEW n \in Nat, NEW s \in Seq(Seq(Bytes)), n = Len(s), NEW ends, Layout(ends, s, stream),
         stream \in Seq(Bytes), \A j \in 1..n : s[j] \in Seq(Of(j))
  PROVE  /\ Located(ends, n)
         /\ \A j \in 1..n : Lies(s[j], ends[j - 1])
  <1>1. ends \in [0..n -> Nat] /\ ends[0] = 0 /\ Len(stream) = ends[n]
        /\ \A j \in 1..n : ends[j] = ends[j - 1] + Len(s[j])
    BY DEF Layout
  <1>2. ASSUME NEW j \in 1..n
        PROVE  Lies(s[j], ends[j - 1])
    <2>1. Lies(stream, 0)
      <3>1. \A i \in 1..Len(stream) : 0 + i = i
        OBVIOUS
      <3>2. QED
        BY <3>1 DEF Lies
    <2>2. PICK E : E = Bytes
      OBVIOUS
    <2>3. s \in Seq(Seq(E))
      BY <2>2
    <2>4. Lies(s[j], 0 + ends[j - 1])
      BY <2>1, <2>3, LayoutLies
    <2>5. ends[j - 1] \in Nat /\ 0 + ends[j - 1] = ends[j - 1]
      <3>1. j - 1 \in 0..n
        OBVIOUS
      <3>2. ends[j - 1] \in Nat
        BY <1>1, <3>1
      <3>3. QED
        BY <3>2
    <2>6. QED
      BY <2>4, <2>5
  <1>3. ASSUME NEW j \in 1..n, NEW p \in (ends[j - 1] + 1)..ends[j]
        PROVE  stream[p].message = j
    <2>1. PICK E : E = Of(j)
      OBVIOUS
    <2>2. PICK b \in Seq(E), q \in Nat : b = s[j] /\ q = ends[j - 1] /\ ends[j] = q + Len(b)
      <3>1. j - 1 \in 0..n
        OBVIOUS
      <3>2. ends[j - 1] \in Nat
        BY <1>1, <3>1
      <3>3. QED
        BY <1>1, <2>1, <3>2
    <2>3. Lies(b, q) /\ p \in (q + 1)..(q + Len(b))
      BY <1>2, <2>2
    <2>4. stream[p] \in E
      BY <2>3, LiesIn
    <2>5. QED
      BY <2>1, <2>4 DEF Of
  <1>4. ASSUME NEW p \in 1..Len(stream)
        PROVE  \E j \in 1..n : p \in (ends[j - 1] + 1)..ends[j]
    <2> DEFINE T == {j \in Nat : j <= n /\ p <= ends[j]}
    <2>1. n \in T
      BY <1>1
    <2>2. T \subseteq Nat /\ T # {}
      BY <2>1
    <2>3. PICK j \in T : \A i \in T : j <= i
      <3> HIDE DEF T
      <3>1. QED
        BY <2>2, Joined!LeastElement
    <2>4. j \in Nat /\ j <= n /\ p <= ends[j]
      OBVIOUS
    <2>5. j # 0
      BY <1>1, <2>4
    <2>6. j - 1 \in Nat /\ j - 1 <= n /\ j - 1 \notin T /\ j - 1 \in 0..n /\ j \in 1..n
      <3>1. j - 1 \in Nat /\ j - 1 <= n /\ ~(j <= j - 1) /\ j - 1 \in 0..n /\ j \in 1..n
        BY <2>4, <2>5
      <3> HIDE DEF T
      <3>2. QED
        BY <2>3, <3>1
    <2>7. ~(p <= ends[j - 1])
      BY <2>6
    <2>8. ends[j - 1] \in Nat /\ ends[j] \in Nat
      <3>1. j \in 0..n
        BY <2>6
      <3>2. QED
        BY <1>1, <2>6, <3>1
    <2>9. p \in (ends[j - 1] + 1)..ends[j]
      BY <2>4, <2>7, <2>8
    <2>10. QED
      BY <2>6, <2>9
  <1>5. QED
    BY <1>2, <1>3, <1>4 DEF Located

\* So each of them is a piece of the stream.
LEMMA LocatedPiece ==
  ASSUME NEW n \in Nat, NEW s \in Seq(Seq(Bytes)), n = Len(s), NEW ends, Layout(ends, s, stream),
         stream \in Seq(Bytes), DOMAIN messages = 1..n, Located(ends, n),
         \A j \in 1..n : /\ s[j] = MessageBytes(j, messages[j]) /\ messages[j] \in Message
                         /\ Lies(s[j], ends[j - 1]),
         NEW j \in 1..n, NEW q, q = ends[j - 1]
  PROVE  \E h, e : Piece(q, h, e)
  <1>1. ends \in [0..n -> Nat] /\ Len(stream) = ends[n] /\ ends[j] = ends[j - 1] + Len(s[j])
    BY DEF Layout
  <1>2. j - 1 \in 0..n /\ j \in 0..n /\ n \in 0..n /\ j \in 0..Len(s) /\ Len(s) = n /\ j \in Nat
    OBVIOUS
  <1>3. q \in Nat
    BY <1>1, <1>2
  <1>4. PICK m \in Message, b \in {s[j]} : m = messages[j] /\ b = MessageBytes(j, m) /\ Lies(b, q) /\ b = s[j]
    OBVIOUS
  <1>5. PICK e \in Nat : e = q + Len(b) /\ e = ends[j]
    <2>1. ends[j] \in Nat
      BY <1>1, <1>2
    <2>2. QED
      BY <1>1, <1>4, <2>1
  <1>6. e <= Len(stream)
    <2>1. PICK E : E = Bytes
      OBVIOUS
    <2>2. s \in Seq(Seq(E)) /\ n \in 0..Len(s) /\ j \in 0..n
      BY <1>2, <2>1
    <2>3. ends[j] <= ends[n]
      BY <2>2, LayoutMonotone
    <2>4. QED
      BY <1>1, <1>5, <2>3
  <1>7. \A p \in 1..Len(stream) : p \in (q + 1)..e \/ stream[p].message # j
    <2>1. ASSUME NEW p \in 1..Len(stream), p \notin (q + 1)..e
          PROVE  stream[p].message # j
      <3>1. PICK i \in 1..n : p \in (ends[i - 1] + 1)..ends[i]
        BY DEF Located
      <3>2. i # j
        BY <1>5, <2>1, <3>1
      <3>3. stream[p].message = i
        BY <3>1 DEF Located
      <3>4. QED
        BY <3>2, <3>3
    <2>2. QED
      BY <2>1
  <1>8. Piece(q, q + m.head, e)
    <2>1. j \in DOMAIN messages
      OBVIOUS
    <2>2. QED
      BY <1>2, <1>3, <1>4, <1>5, <1>6, <1>7, <2>1, PieceIs
  <1>9. QED
    BY <1>8

\* The stream a run begins with.
LEMMA StreamBegins ==
  ASSUME Parser_init
  PROVE  StreamOK
  <1>1. PICK n \in Nat : messages \in [1..n -> Message] /\ DOMAIN messages = 1..n
    <2>1. PICK n \in 1..MaxMessages : messages \in [1..n -> Messages]
      BY DEF Parser_init
    <2>2. Messages \subseteq Message /\ n \in Nat
      BY MessagesAssumption
    <2>3. PICK M : M = Message /\ Messages \subseteq M
      BY <2>2
    <2>4. messages \in [1..n -> M] /\ DOMAIN messages = 1..n
      BY <2>1, <2>3
    <2>5. QED
      BY <2>2, <2>3, <2>4
  <1>2. \A j \in 1..n : messages[j] \in Message
    BY <1>1
  <1>3. PICK s : s = [k \in DOMAIN messages |-> MessageBytes(k, messages[k])]
    OBVIOUS
  <1>4. \A j \in 1..n : /\ s[j] = MessageBytes(j, messages[j])
                        /\ s[j] \in Seq(Of(j)) /\ s[j] \in Seq(Bytes) /\ Len(s[j]) \in Nat \ {0}
    <2>1. ASSUME NEW j \in 1..n
          PROVE  /\ s[j] = MessageBytes(j, messages[j])
                 /\ s[j] \in Seq(Of(j)) /\ s[j] \in Seq(Bytes) /\ Len(s[j]) \in Nat \ {0}
      <3>1. s[j] = MessageBytes(j, messages[j])
        BY <1>1, <1>3
      <3>2. PICK m \in Message, b \in {s[j]} : m = messages[j] /\ b = s[j] /\ b = MessageBytes(j, m) /\ j \in Nat
        BY <1>2, <3>1
      <3>3. b \in Seq(Of(j)) /\ b \in Seq(Bytes) /\ Len(b) \in Nat \ {0}
        BY <3>2, MessageBytesType
      <3>4. QED
        BY <3>1, <3>2, <3>3
    <2>2. QED
      BY <2>1
  <1>5. s \in Seq(Seq(Bytes)) /\ Len(s) = n
    <2>1. PICK T : T = Seq(Bytes)
      OBVIOUS
    <2>2. s \in [1..n -> T]
      <3>1. DOMAIN s = 1..n /\ s = [k \in 1..n |-> s[k]]
        BY <1>1, <1>3
      <3>2. \A j \in 1..n : s[j] \in T
        BY <1>4, <2>1
      <3>3. QED
        BY <3>1, <3>2
    <2>3. s \in Seq(T) /\ Len(s) = n
      BY <2>2
    <2>4. QED
      BY <2>1, <2>3
  <1>6. stream = FlattenSeq(s)
    BY <1>3, Zenon DEF Parser_init
  <1>7. PICK ends : Layout(ends, s, stream) /\ stream \in Seq(Bytes)
    <2>1. PICK E : E = Bytes
      OBVIOUS
    <2>2. s \in Seq(Seq(E))
      BY <1>5, <2>1
    <2>3. (\E ends : Layout(ends, s, FlattenSeq(s))) /\ FlattenSeq(s) \in Seq(E)
      BY <2>2, FlattenLayout, FlattenType
    <2>4. QED
      BY <1>6, <2>1, <2>3
  <1>8. Located(ends, n) /\ \A j \in 1..n : Lies(s[j], ends[j - 1])
    BY <1>4, <1>5, <1>7, LayoutLocated
  <1>9. ASSUME NEW q \in 0..(Len(stream) - 1), Boundary(q)
        PROVE  \E h, e \in 1..Len(stream) : Piece(q, h, e)
    <2>1. q \in Nat /\ q + 1 \in 1..Len(stream)
      BY <1>7
    <2>2. PICK j \in 1..n : q + 1 \in (ends[j - 1] + 1)..ends[j]
      BY <1>8, <2>1 DEF Located
    <2>3. PICK a \in Nat, b \in Nat : a = ends[j - 1] /\ b = ends[j]
      <3>1. j - 1 \in 0..n /\ j \in 0..n
        OBVIOUS
      <3>2. ends \in [0..n -> Nat]
        BY <1>5, <1>7 DEF Layout
      <3>3. QED
        BY <3>1, <3>2
    <2>4. a <= q /\ q + 1 <= b
      BY <2>1, <2>2, <2>3
    <2>5. CASE q # a
      <3>1. q \in (a + 1)..b /\ q # 0 /\ q + 1 \in (a + 1)..b
        BY <2>1, <2>3, <2>4, <2>5
      <3>2. stream[q].message = j /\ stream[q + 1].message = j
        BY <1>8, <2>3, <3>1 DEF Located
      <3>3. q # Len(stream)
        BY <1>7, <2>1
      <3>4. QED
        BY <1>9, <3>1, <3>2, <3>3 DEF Boundary, LastOf
    <2>6. CASE q = a
      <3>1. PICK h, e : Piece(q, h, e)
        BY <1>1, <1>2, <1>4, <1>5, <1>7, <1>8, <2>3, <2>6, LocatedPiece
      <3>2. h \in 1..Len(stream) /\ e \in 1..Len(stream)
        BY <1>7, <3>1 DEF Piece
      <3>3. QED
        BY <3>1, <3>2
    <2>7. QED
      BY <2>5, <2>6
  <1>10. QED
    BY <1>1, <1>2, <1>7, <1>9 DEF StreamOK

-----------------------------------------------------------------------------
(* What the client sends stays the same, and so does what is said of it *)

SameStream == stream' = stream /\ messages' = messages

\* Where messages end and the parser stops,
LEMMA SameStops ==
  ASSUME SameStream, NEW p
  PROVE  /\ LastOf(p)' <=> LastOf(p)
         /\ WrongAt(p)' <=> WrongAt(p)
         /\ EndlessAt(p)' <=> EndlessAt(p)
         /\ Quiet(p)' <=> Quiet(p)
         /\ Boundary(p)' <=> Boundary(p)
         /\ StopsAt(p)' = StopsAt(p)
  <1>1. LastOf(p)' <=> LastOf(p)
    BY DEF SameStream, LastOf
  <1>2. WrongAt(p)' <=> WrongAt(p)
    BY DEF SameStream, WrongAt, LastOf
  <1>3. EndlessAt(p)' <=> EndlessAt(p)
    BY DEF SameStream, EndlessAt, LastOf
  <1>4. Quiet(p)' <=> Quiet(p)
    BY DEF SameStream, Quiet, Stop, WrongAt, EndlessAt, LastOf
  <1>5. Boundary(p)' <=> Boundary(p)
    BY DEF SameStream, Boundary, LastOf
  <1>6. StopsAt(p)' = StopsAt(p)
    BY DEF SameStream, StopsAt, WrongAt, EndlessAt, LastOf, SelectInSeq
  <1>7. QED
    BY <1>1, <1>2, <1>3, <1>4, <1>5, <1>6

\* what the reference says,
LEMMA SameReference ==
  ASSUME SameStream, NEW n
  PROVE  Reference(n)' = Reference(n)
  <1>1. \A p : EventsAt(p)' = EventsAt(p)
    BY DEF SameStream, EventsAt, BodyOf, WrongAt, EndlessAt, LastOf
  <1>2. PICK m : m = (IF StopsAt(n) = 0 THEN n ELSE StopsAt(n))
    OBVIOUS
  <1>3. m = (IF StopsAt(n)' = 0 THEN n ELSE StopsAt(n)')
    BY <1>2, SameStops
  <1>4. [p \in 1..m |-> EventsAt(p)'] = [p \in 1..m |-> EventsAt(p)]
    BY <1>1
  <1>5. Reference(n) = FlattenSeq([p \in 1..m |-> EventsAt(p)])
    BY <1>2, Zenon DEF Reference
  <1>6. Reference(n)' = FlattenSeq([p \in 1..m |-> EventsAt(p)'])
    BY <1>3, Zenon DEF Reference
  <1>7. QED
    BY <1>4, <1>5, <1>6, Zenon

\* what is decoded of a body,
LEMMA SameWhole ==
  ASSUME SameStream, NEW h, NEW p
  PROVE  Whole(h, p)' = Whole(h, p)
  <1>1. Run(Start, h, p)' = Run(Start, h, p)
    BY DEF SameStream, Run, Start, DecodeByte, AfterDigits, FoldLeft, MapThenFoldSet
  <1>2. QED
    BY <1>1 DEF Whole

\* the pieces,
LEMMA SamePiece ==
  ASSUME SameStream, NEW q, NEW h, NEW e
  PROVE  Piece(q, h, e)' <=> Piece(q, h, e)
  <1>1. \A k : BodyOf(k)' = BodyOf(k)
    BY DEF SameStream, BodyOf
  <1>2. \A k, p : Data(k, p)' = Data(k, p)
    BY DEF SameStream, Data
  <1>3. \A p : Whole(h, p)' = Whole(h, p)
    BY SameWhole
  <1>4. \A x, y : Within(h, x, y)' <=> Within(h, x, y)
    BY <1>3 DEF Within
  <1>5. \A k, m : ChunkedAt(k, m, h, e)' <=> ChunkedAt(k, m, h, e)
    BY <1>2, <1>3, <1>4 DEF SameStream, ChunkedAt
  <1>6. \A k : Framed(h, e, k)' <=> Framed(h, e, k)
    BY <1>1, <1>3, <1>5 DEF SameStream, Framed
  <1>7. LastOf(e)' <=> LastOf(e)
    BY SameStops
  <1>8. QED
    BY <1>6, <1>7 DEF SameStream, Piece

\* and that one lies behind the other.
LEMMA SameStreamOK ==
  ASSUME SameStream, StreamOK
  PROVE  StreamOK'
  <1>1. \A q, h, e : Piece(q, h, e)' <=> Piece(q, h, e)
    BY SamePiece
  <1>2. \A q : Boundary(q)' <=> Boundary(q)
    BY SameStops
  <1>3. QED
    BY <1>1, <1>2 DEF SameStream, StreamOK

-----------------------------------------------------------------------------
(* What the reference says of one message *)

\* The message that ends at q was the last one of its connection.
PriorClose(q) == q # 0 /\ messages[stream[q].message].close

\* A byte of which nothing is said.
Silent(p) == ~Stop(p) /\ EventsAt(p) = << >>

HeadersCall(h) == [is |-> "headers", at |-> <<h>>]
BodyCall(k) == [is |-> "body", at |-> BodyOf(k)]
ErrorCall == [is |-> "error", at |-> << >>]

\* Inside a message no other one ends.
LEMMA InsidePiece ==
  ASSUME StreamOK, NEW q, NEW h, NEW e, Piece(q, h, e)
  PROVE  \A p \in (q + 1)..(e - 1) : ~LastOf(p) /\ ~EndlessAt(p)
  <1>1. q \in Nat /\ e \in Nat /\ e <= Len(stream) /\ Len(stream) \in Nat
    BY DEF Piece, StreamOK
  <1>2. ASSUME NEW p \in (q + 1)..(e - 1)
        PROVE  ~LastOf(p)
    <2>1. p # Len(stream) /\ p \in (q + 1)..e /\ p + 1 \in (q + 1)..e
      BY <1>1
    <2>2. stream[p].message = stream[h].message /\ stream[p + 1].message = stream[h].message
      BY <2>1 DEF Piece
    <2>3. QED
      BY <2>1, <2>2 DEF LastOf
  <1>3. QED
    BY <1>2 DEF EndlessAt

\* Why a byte of a message is wrong.
LEMMA WrongInPiece ==
  ASSUME StreamOK, NEW q, NEW h, NEW e, Boundary(q), Piece(q, h, e), NEW p \in (q + 1)..e
  PROVE  WrongAt(p) <=>
           \/ stream[p].is = "bad"
           \/ stream[p].is = "head_end" /\ messages[stream[h].message].invalid = "head"
           \/ p = q + 1 /\ PriorClose(q)
  <1>1. q \in Nat /\ e \in Nat /\ e <= Len(stream) /\ p \in Nat
    BY DEF Piece
  <1>2. stream[p].message = stream[h].message
    BY DEF Piece
  <1>3. CASE p = q + 1
    <2>1. p - 1 = q /\ (p > 1 <=> q # 0)
      BY <1>1, <1>3
    <2>2. q # 0 => LastOf(q)
      BY DEF Boundary
    <2>3. QED
      BY <1>2, <1>3, <2>1, <2>2 DEF WrongAt, PriorClose
  <1>4. CASE p # q + 1
    <2>1. p - 1 \in (q + 1)..(e - 1)
      BY <1>1, <1>4
    <2>2. ~LastOf(p - 1)
      BY <2>1, InsidePiece
    <2>3. QED
      BY <1>2, <1>4, <2>2 DEF WrongAt
  <1>5. QED
    BY <1>3, <1>4

\* Nothing is said while a head goes on.
LEMMA HeadSilent ==
  ASSUME StreamOK, NEW q, NEW h, NEW e, Boundary(q), Piece(q, h, e), ~PriorClose(q),
         NEW p \in (q + 1)..(h - 1)
  PROVE  Silent(p)
  <1>1. p \in (q + 1)..(e - 1) /\ p \in (q + 1)..e
    BY DEF Piece
  <1>2. stream[p].is = "head" /\ ~LastOf(p) /\ ~EndlessAt(p)
    BY <1>1, InsidePiece DEF Piece
  <1>3. ~WrongAt(p)
    BY <1>1, <1>2, WrongInPiece
  <1>4. EventsAt(p) = << >> \o << >>
    BY <1>2, <1>3, Zenon DEF EventsAt
  <1>5. QED
    BY <1>2, <1>3, <1>4 DEF Silent, Stop

\* Nothing is said while a body goes on.
LEMMA BodySilent ==
  ASSUME StreamOK, NEW q, NEW h, NEW e, Boundary(q), Piece(q, h, e), NEW p \in (h + 1)..(e - 1)
  PROVE  Silent(p)
  <1>1. q \in Nat /\ h \in Nat /\ e \in Nat /\ q < h
    BY DEF Piece
  <1>2. p \in (q + 1)..(e - 1) /\ p \in (q + 1)..e /\ p \in (h + 1)..e /\ p # q + 1
    BY <1>1
  <1>3. stream[p].is \notin {"head", "head_end"} /\ ~LastOf(p) /\ ~EndlessAt(p)
    BY <1>2, InsidePiece DEF Piece
  <1>4. stream[p].is # "bad"
    <2>1. PICK m : m = messages[stream[h].message]
      OBVIOUS
    <2>2. Framed(h, e, stream[h].message)
      BY DEF Piece
    <2>3. CASE m.length # CONTENT_LENGTH_UNSET
      BY <1>2, <2>1, <2>2, <2>3 DEF Framed
    <2>4. CASE m.length = CONTENT_LENGTH_UNSET /\ m.transfer = "chunked"
      <3>1. ChunkedAt(stream[h].message, m, h, e)
        BY <2>1, <2>2, <2>4 DEF Framed
      <3>2. QED
        BY <3>1 DEF ChunkedAt
    <2>5. CASE m.length = CONTENT_LENGTH_UNSET /\ m.transfer # "chunked"
      <3>1. e = h
        BY <2>1, <2>2, <2>5 DEF Framed
      <3>2. QED
        BY <1>1, <3>1
    <2>6. QED
      BY <2>3, <2>4, <2>5
  <1>5. ~WrongAt(p)
    BY <1>2, <1>3, <1>4, WrongInPiece
  <1>6. EventsAt(p) = << >> \o << >>
    BY <1>3, <1>5, Zenon DEF EventsAt
  <1>7. QED
    BY <1>3, <1>5, <1>6 DEF Silent, Stop

\* A message ends where its head does exactly when it has no body.
LEMMA HeadLast ==
  ASSUME StreamOK, NEW q, NEW h, NEW e, Piece(q, h, e)
  PROVE  /\ LastOf(h) <=> h = e
         /\ h < e => ~EndlessAt(h) /\ ~EndlessAt(e)
  <1>1. q \in Nat /\ h \in Nat /\ e \in Nat /\ q < h /\ h <= e /\ LastOf(e)
    BY DEF Piece
  <1>2. ASSUME h < e
        PROVE  ~LastOf(h)
    <2>1. h \in (q + 1)..(e - 1)
      BY <1>1, <1>2
    <2>2. QED
      BY <2>1, InsidePiece
  <1>3. ASSUME h < e
        PROVE  ~EndlessAt(e)
    <2>1. e \in (q + 1)..e
      BY <1>1
    <2>2. stream[e].message = stream[h].message
      BY <2>1 DEF Piece
    <2>3. Framed(h, e, stream[h].message) /\ h # e
      BY <1>1, <1>3 DEF Piece
    <2>4. QED
      BY <2>2, <2>3 DEF Framed, EndlessAt
  <1>4. QED
    BY <1>1, <1>2, <1>3 DEF EndlessAt

\* Two sequences of one make a pair.
LEMMA PairCat ==
  ASSUME NEW x, NEW y
  PROVE  <<x>> \o <<y>> = <<x, y>>
  <1>1. PICK E : E = {x, y}
    OBVIOUS
  <1>2. PICK a \in Seq(E), b \in Seq(E) :
           /\ a = <<x>> /\ Len(a) = 1 /\ a[1] = x
           /\ b = <<y>> /\ Len(b) = 1 /\ b[1] = y
    <2>1. <<x>> \in Seq(E) /\ Len(<<x>>) = 1 /\ <<x>>[1] = x
      BY <1>1, OneIs
    <2>2. <<y>> \in Seq(E) /\ Len(<<y>>) = 1 /\ <<y>>[1] = y
      BY <1>1, OneIs
    <2>3. QED
      BY <2>1, <2>2, Zenon
  <1>3. PICK c \in Seq(E) : c = <<x, y>> /\ Len(c) = 2 /\ c[1] = x /\ c[2] = y
    <2>1. <<x, y>> \in Seq(E) /\ Len(<<x, y>>) = 2 /\ <<x, y>>[1] = x /\ <<x, y>>[2] = y
      BY <1>1, PairIs
    <2>2. QED
      BY <2>1, Zenon
  <1>4. a \o b = c
    <2>1. PICK d \in Seq(E) : d = a \o b /\ Joins(d, a, b)
      BY CatJoins DEF Cat
    <2>2. Len(d) = 2 /\ d[1] = x /\ d[2] = y
      <3>1. 1 \in 1..1 /\ 1 + 1 = 2
        OBVIOUS
      <3>2. QED
        BY <1>2, <2>1, <3>1 DEF Joins
    <2>3. \A i \in 1..2 : d[i] = c[i]
      BY <1>3, <2>2
    <2>4. DOMAIN d = 1..2 /\ DOMAIN c = 1..2
      BY <1>3, <2>2
    <2>5. d = c
      BY <2>3, <2>4
    <2>6. QED
      BY <2>1, <2>5, Zenon
  <1>5. QED
    BY <1>2, <1>3, <1>4, Zenon

\* What is said at the end of a head.
LEMMA HeadSaid ==
  ASSUME StreamOK, NEW q, NEW h, NEW e, Piece(q, h, e), ~WrongAt(h)
  PROVE  EventsAt(h) = IF h = e /\ ~EndlessAt(h)
                       THEN <<HeadersCall(h), BodyCall(stream[h].message)>> ELSE <<HeadersCall(h)>>
  <1>1. stream[h].is = "head_end" /\ (LastOf(h) <=> h = e)
    BY HeadLast DEF Piece
  <1>2. CASE h = e /\ ~EndlessAt(h)
    <2>1. EventsAt(h) = <<HeadersCall(h)>> \o <<BodyCall(stream[h].message)>>
      BY <1>1, <1>2, Zenon DEF EventsAt, HeadersCall, BodyCall
    <2>2. EventsAt(h) = <<HeadersCall(h), BodyCall(stream[h].message)>>
      BY <2>1, PairCat
    <2>3. QED
      BY <1>2, <2>2, Zenon
  <1>3. CASE ~(h = e /\ ~EndlessAt(h))
    <2>1. EventsAt(h) = <<HeadersCall(h)>> \o << >>
      BY <1>1, <1>3, Zenon DEF EventsAt, HeadersCall
    <2>2. QED
      BY <1>3, <2>1
  <1>4. QED
    BY <1>2, <1>3

\* What is said at the end of a body.
LEMMA EndSaid ==
  ASSUME StreamOK, NEW q, NEW h, NEW e, Boundary(q), Piece(q, h, e), h < e
  PROVE  /\ WrongAt(e) <=> stream[e].is = "bad"
         /\ ~EndlessAt(e)
         /\ EventsAt(e) = IF stream[e].is = "bad" THEN <<ErrorCall>>
                          ELSE <<BodyCall(stream[h].message)>>
  <1>1. q \in Nat /\ h \in Nat /\ e \in Nat /\ q < h /\ LastOf(e)
    BY DEF Piece
  <1>2. e \in (q + 1)..e /\ e \in (h + 1)..e /\ e # q + 1
    BY <1>1
  <1>3. stream[e].is \notin {"head", "head_end"} /\ stream[e].message = stream[h].message
    BY <1>2 DEF Piece
  <1>4. ~EndlessAt(e)
    BY HeadLast
  <1>5. WrongAt(e) <=> stream[e].is = "bad"
    BY <1>2, <1>3, WrongInPiece
  <1>6. CASE stream[e].is = "bad"
    BY <1>4, <1>5, <1>6 DEF EventsAt, ErrorCall
  <1>7. CASE stream[e].is # "bad"
    <2>1. EventsAt(e) = << >> \o <<BodyCall(stream[h].message)>>
      BY <1>1, <1>3, <1>4, <1>5, <1>7, Zenon DEF EventsAt, BodyCall
    <2>2. QED
      BY <1>4, <1>5, <1>7, <2>1
  <1>8. QED
    BY <1>6, <1>7

-----------------------------------------------------------------------------
(* What the reference says up to a byte of a message *)

\* The calls up to the one for the head that ends at h.
Opened(h) == Append(Reference(h - 1), HeadersCall(h))

\* The parser looked at all of a head and found nothing wrong with it.
HeadDone(q, h, e) ==
  StreamOK /\ Boundary(q) /\ Piece(q, h, e) /\ Quiet(h - 1) /\ ~WrongAt(h)

\* The numbers in a piece.
LEMMA PieceNumbers ==
  ASSUME NEW q, NEW h, NEW e, Piece(q, h, e)
  PROVE  /\ q \in Nat /\ h \in Nat /\ e \in Nat /\ h - 1 \in Nat /\ e - 1 \in Nat
         /\ q < h /\ h <= e /\ e <= Len(stream) /\ q <= h - 1
         /\ (h - 1) + 1 = h /\ (e - 1) + 1 = e
  BY DEF Piece

\* In the middle of a head.
LEMMA HeadOpen ==
  ASSUME StreamOK, NEW q, NEW h, NEW e, Boundary(q), Piece(q, h, e), Quiet(q),
         NEW f \in Nat, q <= f, f < h, f # q => ~PriorClose(q)
  PROVE  /\ Quiet(f) /\ Reference(f) = Reference(q)
         /\ f # q => f # 0 /\ ~LastOf(f)
  <1>1. q \in Nat /\ h \in Nat /\ e \in Nat /\ h <= e
    BY PieceNumbers
  <1>2. \A p \in (q + 1)..f : Silent(p)
    <2>1. ASSUME NEW p \in (q + 1)..f
          PROVE  Silent(p)
      <3>1. p \in (q + 1)..(h - 1) /\ f # q
        BY <1>1
      <3>2. QED
        BY <3>1, HeadSilent
    <2>2. QED
      BY <2>1
  <1>3. Quiet(f) /\ Reference(f) = Reference(q)
    BY <1>1, <1>2, ReferenceQuiet DEF Silent
  <1>4. ASSUME f # q
        PROVE  f # 0 /\ ~LastOf(f)
    <2>1. f # 0 /\ f \in (q + 1)..(e - 1)
      BY <1>1, <1>4
    <2>2. QED
      BY <2>1, InsidePiece
  <1>5. QED
    BY <1>3, <1>4

\* A head that is wrong.
LEMMA HeadBroken ==
  ASSUME NEW p \in Nat, NEW f \in Nat, p < f, Quiet(p), NEW n, n = p + 1, WrongAt(n)
  PROVE  /\ StopsAt(f) = n /\ n # 0 /\ WrongAt(StopsAt(f))
         /\ Reference(f) = Append(Reference(p), ErrorCall)
  <1>1. n \in Nat \ {0} /\ n - 1 = p /\ n <= f
    OBVIOUS
  <1>2. Stop(n)
    BY DEF Stop
  <1>3. StopsAt(f) = n /\ Reference(f) = Reference(n)
    BY <1>1, <1>2, ReferenceStopped
  <1>4. PICK r : r = Reference(p) /\ r \in Seq(Events) /\ Reference(n) = r \o EventsAt(n)
    BY ReferenceStep
  <1>5. EventsAt(n) = <<ErrorCall>>
    BY DEF EventsAt, ErrorCall
  <1>6. PICK E : E = Events \cup {ErrorCall}
    OBVIOUS
  <1>7. r \in Seq(E) /\ ErrorCall \in E
    BY <1>4, <1>6
  <1>8. r \o <<ErrorCall>> = Append(r, ErrorCall)
    BY <1>7
  <1>9. QED
    BY <1>1, <1>3, <1>4, <1>5, <1>8

\* What a byte adds when it is the last one looked at.
LEMMA OneCall ==
  ASSUME NEW p \in Nat, Quiet(p), NEW n, n = p + 1, NEW c, EventsAt(n) = <<c>>
  PROVE  Reference(n) = Append(Reference(p), c)
  <1>1. PICK r : r = Reference(p) /\ r \in Seq(Events) /\ Reference(n) = r \o EventsAt(n)
    BY ReferenceStep
  <1>2. PICK E : E = Events \cup {c}
    OBVIOUS
  <1>3. r \in Seq(E) /\ c \in E
    BY <1>1, <1>2
  <1>4. r \o <<c>> = Append(r, c)
    BY <1>3
  <1>5. QED
    BY <1>1, <1>4

\* A head and the body that ends with it.
LEMMA TwoCalls ==
  ASSUME NEW p \in Nat, Quiet(p), NEW n, n = p + 1, NEW c, NEW d, EventsAt(n) = <<c, d>>
  PROVE  Reference(n) = Append(Append(Reference(p), c), d)
  <1>1. PICK r : r = Reference(p) /\ r \in Seq(Events) /\ Reference(n) = r \o EventsAt(n)
    BY ReferenceStep
  <1>2. PICK E : E = Events \cup {c, d}
    OBVIOUS
  <1>3. r \in Seq(E) /\ c \in E /\ d \in E
    BY <1>1, <1>2
  <1>4. r \o <<c, d>> = Append(Append(r, c), d)
    BY <1>3
  <1>5. QED
    BY <1>1, <1>4

\* A byte that does not stop the parser.
LEMMA QuietOneMore ==
  ASSUME NEW p \in Nat, Quiet(p), NEW n, n = p + 1, ~Stop(n)
  PROVE  Quiet(n)
  BY DEF Quiet

\* In the middle of a body.
LEMMA PieceOpen ==
  ASSUME NEW q, NEW h, NEW e, HeadDone(q, h, e), NEW f \in Nat, h <= f, f < e
  PROVE  Quiet(f) /\ Reference(f) = Opened(h) /\ f # 0 /\ ~LastOf(f)
  <1>1. StreamOK /\ Boundary(q) /\ Piece(q, h, e) /\ Quiet(h - 1) /\ ~WrongAt(h)
    BY DEF HeadDone
  <1>2. q \in Nat /\ h \in Nat /\ e \in Nat /\ h - 1 \in Nat /\ h = (h - 1) + 1 /\ q < h
    BY <1>1, PieceNumbers
  <1>3. h < e /\ h # e
    BY <1>2
  <1>4. ~EndlessAt(h) /\ EventsAt(h) = <<HeadersCall(h)>>
    BY <1>1, <1>3, HeadLast, HeadSaid
  <1>5. Reference(h) = Opened(h)
    BY <1>1, <1>2, <1>4, OneCall DEF Opened
  <1>6. Quiet(h)
    BY <1>1, <1>2, <1>4, QuietOneMore DEF Stop
  <1>7. \A p \in (h + 1)..f : Silent(p)
    <2>1. \A p \in (h + 1)..f : p \in (h + 1)..(e - 1)
      BY <1>2
    <2>2. QED
      BY <1>1, <2>1, BodySilent
  <1>8. Quiet(f) /\ Reference(f) = Reference(h)
    BY <1>2, <1>6, <1>7, ReferenceQuiet DEF Silent
  <1>9. f \in (q + 1)..(e - 1) /\ f # 0
    BY <1>2
  <1>10. QED
    BY <1>1, <1>5, <1>8, <1>9, InsidePiece

\* A body that has no end.
LEMMA PieceEndless ==
  ASSUME NEW q, NEW h, NEW e, HeadDone(q, h, e), NEW f \in Nat, h <= f, EndlessAt(h)
  PROVE  StopsAt(f) = h /\ h # 0 /\ ~WrongAt(h) /\ Reference(f) = Opened(h)
  <1>1. StreamOK /\ Boundary(q) /\ Piece(q, h, e) /\ Quiet(h - 1) /\ ~WrongAt(h)
    BY DEF HeadDone
  <1>2. h \in Nat \ {0} /\ h - 1 \in Nat /\ h = (h - 1) + 1
    BY <1>1, PieceNumbers
  <1>3. EventsAt(h) = <<HeadersCall(h)>>
    BY <1>1, HeadSaid
  <1>4. Reference(h) = Opened(h)
    BY <1>1, <1>2, <1>3, OneCall DEF Opened
  <1>5. StopsAt(f) = h /\ Reference(f) = Reference(h)
    BY <1>1, <1>2, ReferenceStopped DEF Stop
  <1>6. QED
    BY <1>1, <1>2, <1>4, <1>5

\* A body that is whole.
LEMMA PieceDone ==
  ASSUME NEW q, NEW h, NEW e, HeadDone(q, h, e), ~EndlessAt(h), h < e => stream[e].is # "bad"
  PROVE  /\ Boundary(e) /\ Quiet(e)
         /\ Reference(e) = Append(Opened(h), BodyCall(stream[h].message))
         /\ PriorClose(e) <=> messages[stream[h].message].close
  <1>1. StreamOK /\ Boundary(q) /\ Piece(q, h, e) /\ Quiet(h - 1) /\ ~WrongAt(h)
    BY DEF HeadDone
  <1>2. q \in Nat /\ h \in Nat /\ e \in Nat /\ h - 1 \in Nat /\ h = (h - 1) + 1 /\ q < h /\ h <= e
        /\ e - 1 \in Nat /\ e = (e - 1) + 1 /\ e <= Len(stream)
    BY <1>1, PieceNumbers
  <1>3. Boundary(e) /\ (PriorClose(e) <=> messages[stream[h].message].close)
    <2>1. e \in 1..Len(stream) /\ e # 0 /\ e \in (q + 1)..e
      BY <1>1, <1>2 DEF StreamOK
    <2>2. LastOf(e) /\ stream[e].message = stream[h].message
      BY <1>1, <2>1 DEF Piece
    <2>3. QED
      BY <2>1, <2>2 DEF Boundary, PriorClose
  <1>4. CASE h = e
    <2>1. EventsAt(h) = <<HeadersCall(h), BodyCall(stream[h].message)>>
      BY <1>1, <1>4, HeadSaid
    <2>2. Reference(h) = Append(Opened(h), BodyCall(stream[h].message))
      BY <1>1, <1>2, <2>1, TwoCalls DEF Opened
    <2>3. Quiet(h)
      BY <1>1, <1>2, QuietOneMore DEF Stop
    <2>4. QED
      BY <1>3, <1>4, <2>2, <2>3
  <1>5. CASE h # e
    <2>1. h < e /\ h <= e - 1 /\ e - 1 < e
      BY <1>2, <1>5
    <2>2. Quiet(e - 1) /\ Reference(e - 1) = Opened(h)
      BY <1>2, <2>1, PieceOpen
    <2>3. ~WrongAt(e) /\ ~EndlessAt(e) /\ EventsAt(e) = <<BodyCall(stream[h].message)>>
      BY <1>1, <2>1, EndSaid
    <2>4. Quiet(e)
      BY <1>2, <2>2, <2>3, QuietOneMore DEF Stop
    <2>5. Reference(e) = Append(Reference(e - 1), BodyCall(stream[h].message))
      BY <1>2, <2>2, <2>3, OneCall
    <2>6. QED
      BY <1>3, <2>2, <2>4, <2>5
  <1>6. QED
    BY <1>4, <1>5

\* A body that is wrong.
LEMMA PieceBroken ==
  ASSUME NEW q, NEW h, NEW e, HeadDone(q, h, e), h < e, stream[e].is = "bad",
         NEW f \in Nat, e <= f
  PROVE  /\ StopsAt(f) # 0 /\ WrongAt(StopsAt(f))
         /\ Reference(f) = Append(Opened(h), ErrorCall)
  <1>1. StreamOK /\ Boundary(q) /\ Piece(q, h, e)
    BY DEF HeadDone
  <1>2. h \in Nat /\ e - 1 \in Nat /\ e = (e - 1) + 1 /\ e \in Nat
    BY <1>1, PieceNumbers
  <1>3. h <= e - 1 /\ e - 1 < e /\ e - 1 < f
    BY <1>2
  <1>4. Quiet(e - 1) /\ Reference(e - 1) = Opened(h)
    BY <1>2, <1>3, PieceOpen
  <1>5. WrongAt(e)
    BY <1>1, EndSaid
  <1>6. QED
    BY <1>2, <1>3, <1>4, <1>5, HeadBroken

-----------------------------------------------------------------------------
(* The bytes in the buffer *)

\* The positions behind q up to f.
From(q, f) == [i \in 1..(f - q) |-> q + i]

\* b holds the bytes behind q up to f from index x on.
Holds(b, x, q, f) == \A i \in 1..(f - q) : b[x + i - 1] = q + i

\* The window from x to y of b has the positions behind q up to f.
Spans(b, x, y, q, f) == Window(b, x, y) = From(q, f)

\* A window on them shows them.
LEMMA WindowHolds ==
  ASSUME NEW b, NEW x \in Nat, NEW y \in Nat, NEW q \in Nat, NEW f \in Nat,
         y - x = f - q, Holds(b, x, q, f)
  PROVE  Spans(b, x, y, q, f)
  <1>1. PICK n : n = f - q /\ n = y - x
    OBVIOUS
  <1>2. Window(b, x, y) = [i \in 1..n |-> b[x + i - 1]]
    BY <1>1 DEF Window
  <1>3. From(q, f) = [i \in 1..n |-> q + i]
    BY <1>1 DEF From
  <1>4. \A i \in 1..n : b[x + i - 1] = q + i
    BY <1>1 DEF Holds
  <1>5. QED
    BY <1>2, <1>3, <1>4 DEF Spans

\* Behind the first n of them are the others.
LEMMA HoldsBehind ==
  ASSUME NEW b, NEW x \in Nat, NEW q \in Nat, NEW f \in Nat, Holds(b, x, q, f),
         NEW n \in Nat, n <= f - q
  PROVE  Holds(b, x + n, q + n, f) /\ Holds(b, x, q, q + n)
  <1>1. ASSUME NEW i \in 1..(f - (q + n))
        PROVE  b[(x + n) + i - 1] = (q + n) + i
    <2>1. PICK j : j = n + i /\ j \in 1..(f - q) /\ (x + n) + i - 1 = x + j - 1 /\ (q + n) + i = q + j
      OBVIOUS
    <2>2. b[x + j - 1] = q + j
      BY <2>1 DEF Holds
    <2>3. QED
      BY <2>1, <2>2
  <1>2. ASSUME NEW i \in 1..((q + n) - q)
        PROVE  b[x + i - 1] = q + i
    <2>1. i \in 1..(f - q)
      OBVIOUS
    <2>2. QED
      BY <2>1 DEF Holds
  <1>3. QED
    BY <1>1, <1>2 DEF Holds

\* No bytes are anywhere,
LEMMA HoldsNone ==
  ASSUME NEW b, NEW x, NEW f \in Nat
  PROVE  Holds(b, x, f, f)
  BY DEF Holds

\* and an empty window is empty.
LEMMA WindowNone ==
  ASSUME NEW b, NEW x \in Nat
  PROVE  Window(b, x, x) = << >>
  BY DEF Window

\* Two windows of the same length with the same contents.
Matches(b, x, c, y, n) == \A i \in 1..n : b[x + i - 1] = c[y + i - 1]

\* Windows that match are equal.
LEMMA SameWindow ==
  ASSUME NEW b, NEW c, NEW x \in Nat, NEW y \in Nat, NEW n \in Nat,
         Matches(b, x, c, y, n)
  PROVE  Window(b, x, x + n) = Window(c, y, y + n)
  <1>1. (x + n) - x = n /\ (y + n) - y = n
    OBVIOUS
  <1>2. Window(b, x, x + n) = [i \in 1..n |-> b[x + i - 1]]
    BY <1>1, Zenon DEF Window
  <1>3. Window(c, y, y + n) = [i \in 1..n |-> c[y + i - 1]]
    BY <1>1, Zenon DEF Window
  <1>4. QED
    BY <1>2, <1>3 DEF Matches

-----------------------------------------------------------------------------
(* phr_parse_request finds the end of the head *)

\* The head is not whole within the bytes behind q up to f, or it ends at h.
LEMMA HeadSizeIs ==
  ASSUME NEW q \in Nat, NEW f \in Nat, q <= f, Received = From(q, f)
  PROVE  \/ HeadSize = 0 /\ \A p \in (q + 1)..f : stream[p].is = "head"
         \/ /\ HeadSize \in 1..(f - q) /\ Received[HeadSize] = q + HeadSize
            /\ stream[q + HeadSize].is # "head"
            /\ \A p \in (q + 1)..(q + HeadSize - 1) : stream[p].is = "head"
  <1>1. PICK n \in Nat : n = f - q
    OBVIOUS
  <1>2. PICK r : r = Received /\ Len(r) = n /\ \A i \in 1..n : r[i] = q + i
    <2>1. Len(From(q, f)) = n /\ \A i \in 1..n : From(q, f)[i] = q + i
      BY <1>1 DEF From
    <2>2. QED
      BY <2>1
  <1>3. PICK I : I = {i \in 1..n : stream[q + i].is # "head"}
    OBVIOUS
  <1>4. HeadSize = IF I # {} THEN Min(I) ELSE 0
    <2>1. {i \in 1..Len(r) : stream[r[i]].is # "head"} = I
      BY <1>2, <1>3
    <2>2. HeadSize = SelectInSeq(r, LAMBDA p : stream[p].is # "head")
      BY <1>2, Zenon DEF HeadSize
    <2>3. QED
      BY <2>1, <2>2, Zenon DEF SelectInSeq
  <1>5. CASE I = {}
    <2>1. ASSUME NEW p \in (q + 1)..f
          PROVE  stream[p].is = "head"
      <3>1. PICK i \in 1..n : p = q + i
        <4>1. p - q \in 1..n /\ p = q + (p - q)
          BY <1>1
        <4>2. QED
          BY <4>1
      <3>2. QED
        BY <1>3, <1>5, <3>1
    <2>2. QED
      BY <1>4, <1>5, <2>1
  <1>6. CASE I # {}
    <2>1. I \subseteq Nat
      BY <1>3
    <2>2. PICK x \in I : \A y \in I : x <= y
      BY <1>6, <2>1, Joined!LeastElement
    <2>3. Min(I) \in I /\ \A y \in I : Min(I) <= y
      BY <2>1, <2>2 DEF Min
    <2>4. PICK s \in 1..n : s = HeadSize /\ stream[q + s].is # "head" /\ \A y \in I : s <= y
      BY <1>3, <1>4, <1>6, <2>3
    <2>5. ASSUME NEW p \in (q + 1)..(q + s - 1)
          PROVE  stream[p].is = "head"
      <3>1. PICK i \in 1..n : p = q + i /\ i < s
        <4>1. p - q \in 1..n /\ p = q + (p - q) /\ p - q < s
          BY <1>1
        <4>2. QED
          BY <4>1
      <3>2. i \notin I
        BY <2>4, <3>1
      <3>3. QED
        BY <1>3, <3>1, <3>2
    <2>6. Received[s] = q + s
      BY <1>2
    <2>7. QED
      BY <1>1, <2>4, <2>5, <2>6
  <1>7. QED
    BY <1>5, <1>6

\* The head of a message ends where its last byte says so.
LEMMA HeadFound ==
  ASSUME NEW q \in Nat, NEW f \in Nat, q <= f, Received = From(q, f),
         NEW h, NEW e, Piece(q, h, e)
  PROVE  /\ HeadSize = 0 => f < h /\ \A p \in (q + 1)..f : stream[p].is = "head"
         /\ HeadSize # 0 => /\ HeadSize \in 1..(f - q) /\ h = q + HeadSize
                            /\ Received[HeadSize] = h
                            /\ HeadEnd = stream[h] /\ HeadEnd.is = "head_end"
  <1>1. h \in Nat /\ q < h /\ stream[h].is = "head_end"
        /\ \A p \in (q + 1)..(h - 1) : stream[p].is = "head"
    BY DEF Piece
  <1>2. CASE HeadSize = 0
    <2>1. \A p \in (q + 1)..f : stream[p].is = "head"
      BY <1>2, HeadSizeIs
    <2>2. ~(h \in (q + 1)..f)
      BY <1>1, <2>1
    <2>3. f < h
      BY <1>1, <2>2
    <2>4. QED
      BY <1>2, <2>1, <2>3
  <1>3. CASE HeadSize # 0
    <2>1. PICK s \in 1..(f - q) : s = HeadSize /\ Received[s] = q + s /\ stream[q + s].is # "head"
             /\ \A p \in (q + 1)..(q + s - 1) : stream[p].is = "head"
      BY <1>3, HeadSizeIs
    <2>2. ~(q + s \in (q + 1)..(h - 1))
      BY <1>1, <2>1
    <2>3. ~(h \in (q + 1)..(q + s - 1))
      BY <1>1, <2>1
    <2>4. h = q + s
      BY <1>1, <2>2, <2>3
    <2>5. HeadEnd = stream[h]
      BY <2>1, <2>4 DEF HeadEnd
    <2>6. QED
      BY <1>1, <1>3, <2>1, <2>4, <2>5
  <1>4. QED
    BY <1>2, <1>3

-----------------------------------------------------------------------------
(* What is decoded comes from the bytes that were looked at *)

\* The positions in s are those of the first p bytes.
UpTo(s, p) == \A i \in 1..Len(s) : s[i] \in 1..p

\* One position more.
LEMMA UpToMore ==
  ASSUME NEW s \in Seq(Nat), NEW p \in Nat, NEW q \in Nat, p < q, UpTo(s, p)
  PROVE  UpTo(s, q) /\ UpTo(Append(s, q), q)
  <1>1. \A i \in 1..Len(s) : s[i] \in 1..q
    BY DEF UpTo
  <1>2. PICK t \in Seq(Nat) : t = Append(s, q)
    <2>1. Append(s, q) \in Seq(Nat)
      OBVIOUS
    <2>2. QED
      BY <2>1
  <1>3. \A i \in 1..Len(t) : t[i] \in 1..q
    <2>1. Len(t) = Len(s) + 1 /\ t[Len(s) + 1] = q /\ \A i \in 1..Len(s) : t[i] = s[i]
      BY <1>2
    <2>2. \A i \in 1..Len(t) : i \in 1..Len(s) \/ i = Len(s) + 1
      BY <2>1
    <2>3. q \in 1..q
      OBVIOUS
    <2>4. QED
      BY <1>1, <2>1, <2>2, <2>3
  <1>4. QED
    BY <1>1, <1>2, <1>3 DEF UpTo

\* A byte is decoded, kept behind the end or belongs to the framing.
LEMMA DecodeByteKeeps ==
  ASSUME NEW d \in Decoders, NEW p
  PROVE  /\ DecodeByte(d, p).out \in {d.out, Append(d.out, p)}
         /\ DecodeByte(d, p).rest \in {d.rest, Append(d.rest, p)}
  <1>1. d.digits \in BOOLEAN /\ d.left \in Nat /\ d.state \in Going \cup Stopped
    BY DEF Decoders
  <1>2. AfterDigits(d, p).out = d.out /\ AfterDigits(d, p).rest = d.rest
    BY DEF AfterDigits, Decoders
  <1>3. CASE d.state = "size"
    BY <1>2, <1>3 DEF DecodeByte, Decoders
  <1>4. CASE d.state = "ext"
    BY <1>2, <1>4 DEF DecodeByte, Decoders
  <1>5. CASE d.state = "data"
    BY <1>5 DEF DecodeByte, Decoders
  <1>6. CASE d.state = "crlf"
    BY <1>6 DEF DecodeByte, Decoders
  <1>7. CASE d.state = "trailer"
    BY <1>7 DEF DecodeByte, Decoders
  <1>8. CASE d.state = "line"
    BY <1>8 DEF DecodeByte, Decoders
  <1>9. CASE d.state \in Stopped
    BY <1>9 DEF DecodeByte, Decoders, Stopped
  <1>10. QED
    BY <1>1, <1>3, <1>4, <1>5, <1>6, <1>7, <1>8, <1>9 DEF Going

\* The decoder has only positions it looked at.
LEMMA WholeUpTo ==
  ASSUME stream \in Seq(Bytes), NEW h \in Nat, NEW p \in h..Len(stream)
  PROVE  UpTo(Whole(h, p).out, p) /\ UpTo(Whole(h, p).rest, p)
  <1> DEFINE In(q) == UpTo(Whole(h, q).out, q) /\ UpTo(Whole(h, q).rest, q)
             S == {i \in Nat : h + i <= Len(stream) => In(h + i)}
  <1>1. 0 \in S
    <2>1. h + 0 = h
      OBVIOUS
    <2>2. Whole(h, h).out = << >> /\ Whole(h, h).rest = << >>
      BY WholeStep DEF Start
    <2>3. In(h)
      BY <2>2 DEF UpTo
    <2> HIDE DEF In
    <2>4. QED
      BY <2>1, <2>3
  <1>2. ASSUME NEW i \in Nat, i \in S PROVE i + 1 \in S
    <2> SUFFICES ASSUME h + (i + 1) <= Len(stream) PROVE In(h + (i + 1))
      OBVIOUS
    <2>1. PICK q \in Nat, r \in Nat :
             /\ q = h + i /\ r = q + 1 /\ h + (i + 1) = r /\ q < r
             /\ r \in 1..Len(stream) /\ q \in h..Len(stream) /\ h <= q
      OBVIOUS
    <2>2. In(q)
      <3> HIDE DEF In
      <3>1. QED
        BY <1>2, <2>1
    <2>3. PICK d \in Decoders : d = Whole(h, q) /\ Whole(h, r) = DecodeByte(d, r)
      <3>1. Whole(h, q) \in Decoders
        BY <2>1, WholeType
      <3>2. Whole(h, r) = DecodeByte(Whole(h, q), r)
        BY <2>1, WholeStep
      <3>3. QED
        BY <3>1, <3>2
    <2>4. PICK a \in Seq(Nat), b \in Seq(Nat) : a = d.out /\ b = d.rest
      BY DEF Decoders
    <2>5. UpTo(a, r) /\ UpTo(Append(a, r), r) /\ UpTo(b, r) /\ UpTo(Append(b, r), r)
      BY <2>1, <2>2, <2>3, <2>4, UpToMore
    <2>6. Whole(h, r).out \in {a, Append(a, r)} /\ Whole(h, r).rest \in {b, Append(b, r)}
      BY <2>3, <2>4, DecodeByteKeeps
    <2>7. In(r)
      BY <2>5, <2>6
    <2> HIDE DEF In
    <2>8. QED
      BY <2>1, <2>7
  <1> HIDE DEF S
  <1>3. p - h \in Nat /\ h + (p - h) = p /\ p <= Len(stream)
    OBVIOUS
  <1>4. p - h \in S
    BY <1>1, <1>2, <1>3, Decoding!SetInduction
  <1>5. QED
    BY <1>3, <1>4 DEF S

\* What one call of phr_decode_chunked decodes, all in terms of the whole body.
Continues(d, h, q, p) ==
  /\ d.state = Whole(h, p).state /\ d.digits = Whole(h, p).digits /\ d.left = Whole(h, p).left
  /\ d.state \in Going \cup Stopped /\ d.digits \in BOOLEAN /\ d.left \in Nat
  /\ d.out \in Seq(Nat) /\ d.rest \in Seq(Nat)
  /\ Whole(h, p).out = Whole(h, q).out \o d.out
  /\ Whole(h, p).rest = d.rest
  /\ UpTo(d.out, p) /\ UpTo(d.rest, p)

\* What is decoded of the next part continues what was decoded before.
LEMMA PartContinues ==
  ASSUME stream \in Seq(Bytes), NEW h \in Nat, NEW q \in h..Len(stream), NEW p \in q..Len(stream),
         Whole(h, q).rest = << >>
  PROVE  Continues(Part(Whole(h, q), q, p), h, q, p)
  <1>1. PICK d \in Decoders : d = Part(Whole(h, q), q, p)
    BY DecodeOn
  <1>2. PICK o \in Seq(Nat) : o = Whole(h, q).out
    BY WholeType DEF Decoders
  <1>3. PICK w : w = Whole(h, p) /\ w = Behind(o, d)
    BY <1>1, <1>2, DecodeOn
  <1>4. PICK a \in Seq(Nat), b \in Seq(Nat) : a = d.out /\ b = d.rest
    BY DEF Decoders
  <1>5. w.state = d.state /\ w.digits = d.digits /\ w.left = d.left /\ w.out = o \o a /\ w.rest = b
    BY <1>3, <1>4 DEF Behind, Decoders
  <1>6. p \in h..Len(stream) /\ p \in Nat
    OBVIOUS
  <1>7. UpTo(o \o a, p) /\ UpTo(b, p)
    BY <1>3, <1>5, <1>6, WholeUpTo
  <1>8. UpTo(a, p)
    <2>1. PICK z \in Seq(Nat) : z = o \o a /\ Joins(z, o, a)
      BY CatJoins DEF Cat
    <2>2. ASSUME NEW i \in 1..Len(a)
          PROVE  a[i] \in 1..p
      <3>1. Len(o) + i \in 1..Len(z) /\ z[Len(o) + i] = a[i]
        BY <2>1 DEF Joins
      <3>2. QED
        BY <1>7, <2>1, <3>1 DEF UpTo
    <2>3. QED
      BY <2>2 DEF UpTo
  <1>9. d.state \in Going \cup Stopped /\ d.digits \in BOOLEAN /\ d.left \in Nat
    BY DEF Decoders
  <1>10. QED
    BY <1>1, <1>2, <1>3, <1>4, <1>5, <1>7, <1>8, <1>9 DEF Continues

\* The struct phr_chunked_decoder kept between two calls.
Kept(w) == [state |-> w.state, digits |-> w.digits, left |-> w.left]

\* That is what Decoded does with the bytes in the buffer.
LEMMA DecodedIs ==
  ASSUME stream \in Seq(Bytes), NEW h \in Nat, NEW q \in h..Len(stream), NEW p \in q..Len(stream),
         Whole(h, q).rest = << >>, decoder = Kept(Whole(h, q)),
         Window(buffer, buffer_start + chunked_offset, buffer_end) = From(q, p)
  PROVE  Continues(Decoded, h, q, p)
  <1>1. PICK w \in Decoders : w = Whole(h, q)
    BY WholeType
  <1>2. PICK r : r = [state |-> decoder.state, digits |-> decoder.digits, left |-> decoder.left,
                      out |-> << >>, rest |-> << >>]
    OBVIOUS
  <1>3. r = Rest(w)
    <2>1. decoder.state = w.state /\ decoder.digits = w.digits /\ decoder.left = w.left
      BY <1>1 DEF Kept
    <2>2. PICK v \in Decoders : v = Rest(w)
      BY RestType
    <2>3. v.state = w.state /\ v.digits = w.digits /\ v.left = w.left /\ v.out = << >> /\ v.rest = << >>
      BY <2>2 DEF Rest, Decoders
    <2>4. v = [state |-> v.state, digits |-> v.digits, left |-> v.left, out |-> v.out, rest |-> v.rest]
      BY DEF Decoders
    <2>5. QED
      BY <1>2, <2>1, <2>2, <2>3, <2>4
  <1>4. Decoded = FoldLeft(DecodeByte, r, From(q, p))
    BY <1>2, Zenon DEF Decoded
  <1>5. Decoded = Decoding!Fold(r, From(q, p))
    BY <1>4, DecodingIsFold
  <1>6. Run(r, q, p) = Decoding!Fold(r, From(q, p))
    <2>1. Run(r, q, p) = Decoding!Fold(r, [i \in 1..(p - q) |-> q + i])
      BY RunIsFold
    <2>2. QED
      BY <2>1, Zenon DEF From
  <1>7. Decoded = Part(w, q, p)
    BY <1>3, <1>5, <1>6 DEF Part
  <1>8. QED
    BY <1>1, <1>7, PartContinues

-----------------------------------------------------------------------------
(* How the bytes move in the buffer *)

\* b shows the n values of m at index a.
Shows(b, a, n, m) == \A j \in 1..n : b[a + j - 1] = m[j]
Values(m, n, f) == \A j \in 1..n : m[j] \in 0..f
SameBelow(b, a, g) == \A i \in 0..(a - 1) : b[i] = g[i]

\* Room for what is decoded.
Fits(a, d, c) == a + (Len(d.out) + Len(d.rest)) <= c

\* The buffer b has the decoded bytes and those behind the end at index a.
InPlace(b, a, d) ==
  /\ SameBelow(b, a, buffer)
  /\ Shows(b, a, Len(d.out), d.out)
  /\ Shows(b, a + Len(d.out), Len(d.rest), d.rest)

\* The n values of m are written into the buffer g at index a.
Written(g, a, n, m) ==
  [i \in DOMAIN g |-> IF i \in a..(a + n - 1) THEN m[i - a + 1] ELSE g[i]]

\* The buffer after it, when there is room.
LEMMA WrittenIs ==
  ASSUME NEW c \in Nat, NEW f \in Nat, NEW g \in [0..(c - 1) -> 0..f],
         NEW a \in Nat, NEW n \in Nat, a + n <= c, NEW m, Values(m, n, f)
  PROVE  /\ Written(g, a, n, m) \in [0..(c - 1) -> 0..f]
         /\ SameBelow(Written(g, a, n, m), a, g)
         /\ Shows(Written(g, a, n, m), a, n, m)
  <1>1. PICK b : b = Written(g, a, n, m) /\ b = [i \in 0..(c - 1) |->
                        IF i \in a..(a + n - 1) THEN m[i - a + 1] ELSE g[i]]
    <2>1. DOMAIN g = 0..(c - 1)
      OBVIOUS
    <2>2. QED
      BY <2>1, Zenon DEF Written
  <1>2. b \in [0..(c - 1) -> 0..f]
    <2>1. ASSUME NEW i \in 0..(c - 1)
          PROVE  b[i] \in 0..f
      <3>1. CASE i \in a..(a + n - 1)
        <4>1. i - a + 1 \in 1..n
          BY <3>1
        <4>2. b[i] = m[i - a + 1]
          BY <1>1, <3>1
        <4>3. QED
          BY <4>1, <4>2 DEF Values
      <3>2. CASE i \notin a..(a + n - 1)
        BY <1>1, <3>2
      <3>3. QED
        BY <3>1, <3>2
    <2>2. QED
      BY <1>1, <2>1
  <1>3. \A i \in 0..(a - 1) : b[i] = g[i]
    <2>1. \A i \in 0..(a - 1) : i \in 0..(c - 1) /\ i \notin a..(a + n - 1)
      OBVIOUS
    <2>2. QED
      BY <1>1, <2>1
  <1>4. \A j \in 1..n : b[a + j - 1] = m[j]
    <2>1. ASSUME NEW j \in 1..n
          PROVE  b[a + j - 1] = m[j]
      <3>1. PICK i \in 0..(c - 1) : i = a + j - 1 /\ i \in a..(a + n - 1) /\ i - a + 1 = j
        <4>1. a + j - 1 \in 0..(c - 1) /\ a + j - 1 \in a..(a + n - 1) /\ (a + j - 1) - a + 1 = j
          OBVIOUS
        <4>2. QED
          BY <4>1
      <3>2. b[i] = m[i - a + 1]
        BY <1>1, <3>1
      <3>3. QED
        BY <3>1, <3>2
    <2>2. QED
      BY <2>1
  <1>5. QED
    BY <1>1, <1>2, <1>3, <1>4 DEF SameBelow, Shows

\* x and then y is written at index a.
LEMMA WrittenTwo ==
  ASSUME NEW u \in Nat, NEW v \in Nat, NEW a \in Nat, NEW f \in Nat, NEW b, NEW m, NEW x, NEW y,
         Len(x) = u, Len(y) = v, Joins(m, x, y)
  PROVE  /\ Values(x, u, f) /\ Values(y, v, f) => Values(m, u + v, f)
         /\ Shows(b, a, u + v, m) => Shows(b, a, u, x) /\ Shows(b, a + u, v, y)
  <1>0. (\A i \in 1..u : m[i] = x[i]) /\ \A i \in 1..v : m[u + i] = y[i]
    BY DEF Joins
  <1>1. ASSUME Values(x, u, f), Values(y, v, f), NEW j \in 1..(u + v)
        PROVE  m[j] \in 0..f
    <2>1. CASE j <= u
      BY <1>0, <1>1, <2>1 DEF Values
    <2>2. CASE j > u
      <3>1. PICK i \in 1..v : j = u + i
        <4>1. j - u \in 1..v /\ j = u + (j - u)
          BY <2>2
        <4>2. QED
          BY <4>1
      <3>2. QED
        BY <1>0, <1>1, <3>1 DEF Values
    <2>3. QED
      BY <2>1, <2>2
  <1>2. ASSUME Shows(b, a, u + v, m), NEW i \in 1..u
        PROVE  b[a + i - 1] = x[i]
    BY <1>0, <1>2 DEF Shows
  <1>3. ASSUME Shows(b, a, u + v, m), NEW i \in 1..v
        PROVE  b[(a + u) + i - 1] = y[i]
    <2>1. PICK j \in 1..(u + v) : j = u + i /\ a + j - 1 = (a + u) + i - 1
      OBVIOUS
    <2>2. b[a + j - 1] = m[u + i]
      BY <1>3, <2>1 DEF Shows
    <2>3. QED
      BY <1>0, <2>1, <2>2
  <1>4. QED
    BY <1>1, <1>2, <1>3 DEF Values, Shows

\* DecodedInPlace writes what is decoded and what is behind the end, and no more.
LEMMA MovedIs ==
  ASSUME NEW c \in Nat, NEW f \in Nat, buffer \in [0..(c - 1) -> 0..f],
         NEW a \in Nat, a = buffer_start + chunked_offset,
         NEW d, d.out \in Seq(Nat), d.rest \in Seq(Nat), UpTo(d.out, f), UpTo(d.rest, f),
         Fits(a, d, c)
  PROVE  /\ DecodedInPlace(d) \in [0..(c - 1) -> 0..f]
         /\ InPlace(DecodedInPlace(d), a, d)
  <1>1. PICK x \in Seq(Nat), y \in Seq(Nat) : x = d.out /\ y = d.rest
    OBVIOUS
  <1>2. PICK u \in Nat, v \in Nat : u = Len(x) /\ v = Len(y)
    OBVIOUS
  <1>3. PICK n \in Nat : n = u + v /\ a + n <= c
    <2>1. PICK n \in Nat : n = u + v
      BY <1>2
    <2>2. a + (u + v) <= c
      BY <1>1, <1>2, Zenon DEF Fits
    <2>3. QED
      BY <2>1, <2>2, Zenon
  <1>4. PICK m \in Seq(Nat) : m = x \o y /\ Joins(m, x, y)
    BY CatJoins DEF Cat
  <1>5. Len(m) = n
    BY <1>2, <1>3, <1>4 DEF Joins
  <1>6. PICK b : b = DecodedInPlace(d) /\ b = Written(buffer, a, n, m)
    <2>1. DecodedInPlace(d) = Written(buffer, a, Len(m), m)
      BY <1>1, <1>4, Zenon DEF DecodedInPlace, Written
    <2>2. QED
      BY <1>5, <2>1
  <1>7. Values(x, u, f) /\ Values(y, v, f)
    <2>1. \A i \in 1..f : i \in 0..f
      OBVIOUS
    <2>2. QED
      BY <1>1, <1>2, <2>1 DEF UpTo, Values
  <1>8. Values(m, n, f)
    BY <1>2, <1>3, <1>4, <1>7, WrittenTwo
  <1>9. b \in [0..(c - 1) -> 0..f] /\ SameBelow(b, a, buffer) /\ Shows(b, a, n, m)
    <2>1. PICK g \in [0..(c - 1) -> 0..f] : g = buffer
      OBVIOUS
    <2>2. PICK w : w = Written(g, a, n, m)
      OBVIOUS
    <2>3. w \in [0..(c - 1) -> 0..f]
      BY <1>3, <1>8, <2>2, WrittenIs
    <2>4. SameBelow(w, a, g)
      BY <1>3, <1>8, <2>2, WrittenIs
    <2>5. Shows(w, a, n, m)
      BY <1>3, <1>8, <2>2, WrittenIs
    <2>6. b = w
      BY <1>6, <2>1, <2>2
    <2>7. QED
      BY <2>1, <2>3, <2>4, <2>5, <2>6
  <1>10. Shows(b, a, u, x) /\ Shows(b, a + u, v, y)
    BY <1>2, <1>3, <1>4, <1>9, WrittenTwo
  <1>11. InPlace(b, a, d)
    BY <1>1, <1>2, <1>9, <1>10 DEF InPlace
  <1>12. QED
    BY <1>6, <1>9, <1>11

\* All that is decoded so far, and what is behind it.
InOrder(b, s, a, d, o) ==
  /\ Window(b, s, a + Len(d.out)) = o \o d.out
  /\ \A e, f \in Nat : d.rest = From(e, f) => Holds(b, a + Len(d.out), e, f)

\* Then both are where the parser looks for them.
LEMMA MovedHolds ==
  ASSUME NEW b, NEW s \in Nat, NEW a \in Nat, s <= a, NEW d, InPlace(b, a, d),
         d.out \in Seq(Nat), d.rest \in Seq(Nat), Window(buffer, s, a) \in Seq(Nat)
  PROVE  InOrder(b, s, a, d, Window(buffer, s, a))
  <1>0. PICK o \in Seq(Nat), k \in Nat : o = Window(buffer, s, a) /\ a = s + k
    <2>1. a - s \in Nat /\ a = s + (a - s)
      OBVIOUS
    <2>2. QED
      BY <2>1
  <1>1. PICK x \in Seq(Nat), u \in Nat : x = d.out /\ u = Len(x)
    OBVIOUS
  <1>2. a - s = k /\ (a + u) - s = k + u
    BY <1>0
  <1>3. o = [i \in 1..k |-> buffer[s + i - 1]]
    BY <1>0, <1>2, Zenon DEF Window
  <1>4. Len(o) = k /\ \A i \in 1..k : o[i] = buffer[s + i - 1]
    BY <1>3
  <1>5. PICK w : w = Window(b, s, a + u) /\ w = [i \in 1..(k + u) |-> b[s + i - 1]]
    BY <1>2, Zenon DEF Window
  <1>6. PICK z \in Seq(Nat) : z = o \o x /\ Joins(z, o, x)
    BY CatJoins DEF Cat
  <1>7. Len(z) = k + u /\ (\A i \in 1..k : z[i] = o[i]) /\ \A i \in 1..u : z[k + i] = x[i]
    BY <1>1, <1>4, <1>6 DEF Joins
  <1>8. \A j \in 1..(k + u) : w[j] = z[j]
    <2>1. ASSUME NEW j \in 1..(k + u)
          PROVE  w[j] = z[j]
      <3>1. CASE j <= k
        <4>1. PICK i \in 0..(a - 1) : i = s + j - 1
          BY <1>0, <3>1
        <4>2. b[i] = buffer[i]
          BY DEF InPlace, SameBelow
        <4>3. j \in 1..k
          BY <3>1
        <4>4. w[j] = b[i] /\ z[j] = buffer[i]
          BY <1>4, <1>5, <1>7, <4>1, <4>3
        <4>5. QED
          BY <4>2, <4>4
      <3>2. CASE j > k
        <4>1. PICK i \in 1..u : j = k + i /\ s + j - 1 = a + i - 1
          <5>1. j - k \in 1..u /\ j = k + (j - k) /\ s + j - 1 = a + (j - k) - 1
            BY <1>0, <3>2
          <5>2. QED
            BY <5>1
        <4>2. b[a + i - 1] = x[i]
          BY <1>1 DEF InPlace, Shows
        <4>3. z[j] = x[i] /\ w[j] = b[s + j - 1]
          BY <1>5, <1>7, <4>1
        <4>4. QED
          BY <4>1, <4>2, <4>3
      <3>3. QED
        BY <3>1, <3>2
    <2>2. QED
      BY <2>1
  <1>9. w = z
    <2>1. DOMAIN z = 1..(k + u) /\ z = [j \in 1..(k + u) |-> z[j]]
      BY <1>7
    <2>2. w = [j \in 1..(k + u) |-> w[j]]
      BY <1>5
    <2>3. QED
      BY <1>8, <2>1, <2>2
  <1>10. ASSUME NEW e \in Nat, NEW f \in Nat, d.rest = From(e, f)
         PROVE  Holds(b, a + u, e, f)
    <2>1. ASSUME NEW i \in 1..(f - e)
          PROVE  b[(a + u) + i - 1] = e + i
      <3>1. PICK y \in Seq(Nat) : y = d.rest /\ y = [j \in 1..(f - e) |-> e + j]
        BY <1>10 DEF From
      <3>2. i \in 1..Len(y) /\ y[i] = e + i
        <4>1. y[i] = e + i /\ DOMAIN y = 1..(f - e)
          BY <3>1
        <4>2. QED
          BY <4>1
      <3>3. b[(a + u) + i - 1] = y[i]
        BY <1>1, <3>1, <3>2 DEF InPlace, Shows
      <3>4. QED
        BY <3>2, <3>3
    <2>2. QED
      BY <2>1 DEF Holds
  <1>11. QED
    BY <1>0, <1>1, <1>5, <1>6, <1>9, <1>10 DEF InOrder

-----------------------------------------------------------------------------
(* Data that arrives *)

\* l bytes of g from index s on go to index t, and n positions behind f follow them.
Put(g, s, l, t, n, c, f) ==
  [i \in 0..(c - 1) |->
      IF i < t THEN 0
      ELSE IF i < t + l THEN g[s + i - t]
      ELSE IF i < t + l + n THEN f + 1 + i - (t + l) ELSE 0]

\* The l bytes of g at index s are those of b at index t.
Copied(b, t, g, s, l) == \A i \in 0..(l - 1) : b[t + i] = g[s + i]

\* The buffer after it.
LEMMA PutIs ==
  ASSUME NEW k \in Nat, NEW f \in Nat, NEW g \in [0..(k - 1) -> 0..f],
         NEW s \in Nat, NEW l \in Nat, s + l <= k,
         NEW t \in Nat, NEW n \in Nat, NEW c \in Nat, t + l + n <= c
  PROVE  /\ Put(g, s, l, t, n, c, f) \in [0..(c - 1) -> 0..(f + n)]
         /\ Copied(Put(g, s, l, t, n, c, f), t, g, s, l)
         /\ Holds(Put(g, s, l, t, n, c, f), t + l, f, f + n)
  <1>1. PICK b : b = Put(g, s, l, t, n, c, f)
    OBVIOUS
  <1>2. /\ DOMAIN b = 0..(c - 1) /\ b = [i \in 0..(c - 1) |-> b[i]]
        /\ \A i \in 0..(c - 1) :
             b[i] = IF i < t THEN 0
                    ELSE IF i < t + l THEN g[s + i - t]
                    ELSE IF i < t + l + n THEN f + 1 + i - (t + l) ELSE 0
    BY <1>1 DEF Put
  <1>3. \A i \in 0..f : i \in 0..(f + n)
    OBVIOUS
  <1>4. \A i \in 0..(c - 1) : b[i] \in 0..(f + n)
    <2>1. ASSUME NEW i \in 0..(c - 1)
          PROVE  b[i] \in 0..(f + n)
      <3>1. 0 \in 0..(f + n)
        OBVIOUS
      <3>2. CASE i < t
        BY <1>2, <3>1, <3>2
      <3>3. CASE ~(i < t) /\ i < t + l
        <4>1. s + i - t \in 0..(k - 1)
          BY <3>3
        <4>2. g[s + i - t] \in 0..f
          BY <4>1
        <4>3. b[i] = g[s + i - t]
          BY <1>2, <3>3
        <4>4. QED
          BY <1>3, <4>2, <4>3
      <3>4. CASE ~(i < t) /\ ~(i < t + l) /\ i < t + l + n
        <4>1. f + 1 + i - (t + l) \in 0..(f + n)
          BY <3>4
        <4>2. QED
          BY <1>2, <3>4, <4>1
      <3>5. CASE ~(i < t) /\ ~(i < t + l) /\ ~(i < t + l + n)
        BY <1>2, <3>1, <3>5
      <3>6. QED
        BY <3>2, <3>3, <3>4, <3>5
    <2>2. QED
      BY <2>1
  <1>5. ASSUME NEW j \in 0..(l - 1)
        PROVE  b[t + j] = g[s + j]
    <2>1. PICK i \in 0..(c - 1) : i = t + j /\ ~(i < t) /\ i < t + l /\ s + i - t = s + j
      <3>1. t + j \in 0..(c - 1) /\ ~(t + j < t) /\ t + j < t + l /\ s + (t + j) - t = s + j
        OBVIOUS
      <3>2. QED
        BY <3>1
    <2>2. b[i] = g[s + i - t]
      BY <1>2, <2>1
    <2>3. QED
      BY <2>1, <2>2
  <1>6. ASSUME NEW j \in 1..((f + n) - f)
        PROVE  b[(t + l) + j - 1] = f + j
    <2>1. PICK i \in 0..(c - 1) : i = (t + l) + j - 1 /\ ~(i < t) /\ ~(i < t + l) /\ i < t + l + n
                                  /\ f + 1 + i - (t + l) = f + j
      <3>1. PICK i \in Nat : i = (t + l) + j - 1
        OBVIOUS
      <3>2. i \in 0..(c - 1) /\ ~(i < t) /\ ~(i < t + l) /\ i < t + l + n
            /\ f + 1 + i - (t + l) = f + j
        BY <3>1
      <3>3. QED
        BY <3>1, <3>2
    <2>2. QED
      BY <1>2, <2>1
  <1>7. b \in [0..(c - 1) -> 0..(f + n)]
    BY <1>2, <1>4
  <1>8. Copied(b, t, g, s, l) /\ Holds(b, t + l, f, f + n)
    BY <1>5, <1>6 DEF Copied, Holds
  <1>9. QED
    BY <1>1, <1>7, <1>8

\* What was received stays together with what arrives.
LEMMA PutHolds ==
  ASSUME NEW b, NEW g, NEW s \in Nat, NEW t \in Nat, NEW l \in Nat, NEW n \in Nat,
         NEW f \in Nat, NEW o \in Nat, o <= l, NEW q \in Nat, q <= f, f - q = l - o,
         Copied(b, t, g, s, l), Holds(b, t + l, f, f + n), Holds(g, s + o, q, f)
  PROVE  Holds(b, t + o, q, f + n)
  <1>1. ASSUME NEW i \in 1..((f + n) - q)
        PROVE  b[(t + o) + i - 1] = q + i
    <2>1. CASE i <= f - q
      <3>1. PICK j \in 0..(l - 1) : j = o + i - 1
        <4>1. o + i - 1 \in 0..(l - 1)
          BY <2>1
        <4>2. QED
          BY <4>1
      <3>2. (t + o) + i - 1 = t + j /\ (s + o) + i - 1 = s + j /\ i \in 1..(f - q)
        BY <2>1, <3>1
      <3>3. b[t + j] = g[s + j]
        BY DEF Copied
      <3>4. g[(s + o) + i - 1] = q + i
        BY <3>2 DEF Holds
      <3>5. QED
        BY <3>2, <3>3, <3>4
    <2>2. CASE i > f - q
      <3>1. PICK j \in 1..((f + n) - f) : j = i - (f - q)
        <4>1. i - (f - q) \in 1..((f + n) - f)
          BY <2>2
        <4>2. QED
          BY <4>1
      <3>2. (t + o) + i - 1 = (t + l) + j - 1 /\ q + i = f + j
        BY <3>1
      <3>3. b[(t + l) + j - 1] = f + j
        BY DEF Holds
      <3>4. QED
        BY <3>2, <3>3
    <2>3. QED
      BY <2>1, <2>2
  <1>2. QED
    BY <1>1 DEF Holds

\* What was decoded stays in front of it.
LEMMA PutMatches ==
  ASSUME NEW b, NEW g, NEW s \in Nat, NEW t \in Nat, NEW l \in Nat,
         NEW o \in Nat, o <= l, Copied(b, t, g, s, l)
  PROVE  Matches(b, t, g, s, o)
  <1>1. ASSUME NEW i \in 1..o
        PROVE  b[t + i - 1] = g[s + i - 1]
    <2>1. i - 1 \in 0..(l - 1)
      OBVIOUS
    <2>2. b[t + (i - 1)] = g[s + (i - 1)]
      BY <2>1 DEF Copied
    <2>3. t + (i - 1) = t + i - 1 /\ s + (i - 1) = s + i - 1
      OBVIOUS
    <2>4. QED
      BY <2>2, <2>3
  <1>2. QED
    BY <1>1 DEF Matches

\* Parser_feed puts the bytes where Placed says.
LEMMA PlacedIs ==
  ASSUME NEW n \in Nat, Place(n), buffer_start' \in Nat
  PROVE  Placed(n) = Put(buffer, buffer_start, Length, buffer_start', n, buffer_capacity', fed)
  <1>1. buffer_end' = buffer_start' + Length + n
    BY DEF Place
  <1>2. PICK z, s, l, t, c, f, g :
           /\ z = buffer_end' /\ s = buffer_start /\ l = Length /\ t = buffer_start'
           /\ c = buffer_capacity' /\ f = fed /\ g = buffer
    OBVIOUS
  <1>3. Placed(n) = [i \in 0..(c - 1) |->
                        IF i < t THEN 0
                        ELSE IF i < t + l THEN g[s + i - t]
                        ELSE IF i < z THEN f + 1 + i - (t + l) ELSE 0]
    BY <1>2, Zenon DEF Placed
  <1>4. z = t + l + n
    BY <1>1, <1>2
  <1>5. QED
    BY <1>2, <1>3, <1>4, Zenon DEF Put

-----------------------------------------------------------------------------
(* The indexes of the buffer *)

\* WithinBuffer alone is not inductive: a head is read with nothing decoded yet.
IInv ==
    /\ BufferTypeOK
    /\ WithinBuffer
    /\ state = "headers" => chunked_offset = 0

\* Room leaves enough space for what is kept and what arrives.
LEMMA RoomSuffices ==
    ASSUME IInv, NEW n \in Nat
    PROVE  /\ Room(n) \in Nat \ {0}
           /\ buffer_capacity <= Room(n)
           /\ Length + n <= Room(n)
  BY DEF IInv, BufferTypeOK, WithinBuffer, Room, Larger, Length

\* Data that arrives is placed inside the buffer.
LEMMA PlaceInductive ==
    ASSUME IInv, NEW n \in Nat, Place(n)
    PROVE  IInv'
  <1>1. Room(n) \in Nat \ {0} /\ buffer_capacity <= Room(n) /\ Length + n <= Room(n)
    BY RoomSuffices
  <1>2. Length \in Nat /\ chunked_offset \in Nat /\ chunked_offset <= Length
    BY DEF IInv, BufferTypeOK, WithinBuffer, Length, Place
  <1>3. buffer_start' \in Nat /\ buffer_end' \in Nat
        /\ buffer_end' = buffer_start' + Length + n
    BY <1>2 DEF IInv, BufferTypeOK, Place
  <1>4. buffer_end' <= buffer_capacity'
    <2>1. CASE Moves(n)
      BY <2>1, <1>1, <1>2, <1>3 DEF Place
    <2>2. CASE ~Moves(n)
      BY <2>2, <1>1 DEF IInv, BufferTypeOK, WithinBuffer, Moves, Length, Place
    <2> QED
      BY <2>1, <2>2
  <1>5. buffer_start' <= buffer_end' /\ chunked_offset' <= Length'
    <2>1. Length + n \in Nat /\ chunked_offset <= Length + n
      BY <1>2
    <2>2. Length' = Length + n
      BY <1>2, <1>3, <2>1 DEF Length
    <2>3. chunked_offset' = chunked_offset
      BY DEF Place, framing
    <2>4. \A x, y \in Nat : y = x + Length + n => x <= y
      BY <1>2
    <2> QED
      BY <1>3, <2>1, <2>2, <2>3, <2>4
  <1>6. BufferTypeOK'
    BY <1>1, <1>2, <1>3 DEF IInv, BufferTypeOK, Place, framing
  <1> QED
    BY <1>4, <1>5, <1>6 DEF IInv, WithinBuffer, Place, framing

\* Emptying the buffer and resetting the message keeps the indexes in range.
LEMMA ResetAllInductive ==
    ASSUME IInv, ResetAll, phase' \in {"loop", "feed", "closed", "gone"}
    PROVE  IInv'
  BY DEF IInv, BufferTypeOK, WithinBuffer, ResetAll, ResetMessage, Length,
         Transfers, ContentLengths

\* A body handed over from the received bytes keeps the indexes in range.
LEMMA HandOverInductive ==
    ASSUME IInv, NEW size \in Nat, NEW left \in Nat, size + left <= Length,
           HandOver(size, left)
    PROVE  IInv'
  <1>1. /\ buffer_start' \in Nat /\ buffer_end' \in Nat
        /\ buffer_start' <= buffer_end' /\ buffer_end' <= buffer_capacity'
        /\ buffer_capacity' \in Nat \ {0}
    BY DEF IInv, BufferTypeOK, WithinBuffer, HandOver, Length
  <1>2. CASE ResetMessage /\ UNCHANGED phase
    <2>1. BufferTypeOK'
      BY <1>1, <1>2 DEF IInv, BufferTypeOK, ResetMessage, Transfers, ContentLengths
    <2>2. chunked_offset' <= Length'
      <3>1. \A x, y \in Nat : x <= y => 0 <= y - x
        OBVIOUS
      <3> QED
        BY <1>1, <1>2, <3>1 DEF ResetMessage, Length
    <2> QED
      BY <1>1, <1>2, <2>1, <2>2 DEF IInv, WithinBuffer, ResetMessage
  <1>3. CASE phase' = "closed" /\ UNCHANGED <<state, framing>>
    BY <1>1, <1>3 DEF IInv, BufferTypeOK, WithinBuffer, framing
  <1> QED
    BY <1>2, <1>3 DEF HandOver

\* The invariant holds in every behaviour of the buffer.
LEMMA BufferStep == IInv /\ [BufferNext]_buffer_vars => IInv'
  <1> SUFFICES ASSUME IInv, [BufferNext]_buffer_vars
               PROVE  IInv'
    OBVIOUS
  <1>1. ASSUME NEW n \in 1..MaxData, Place(n)
        PROVE  IInv'
    BY <1>1, PlaceInductive, BufferAssumption
  <1>2. ASSUME NEW size \in 1..Length, NEW announced \in Transfers,
               NEW length \in ContentLengths, TakeHead(size, announced, length)
        PROVE  IInv'
    BY <1>2 DEF IInv, BufferTypeOK, WithinBuffer, TakeHead, TriesHeaders, Length
  <1>3. CASE Wait
    BY <1>3 DEF IInv, BufferTypeOK, WithinBuffer, Wait, TriesHeaders, TriesBody,
                Length, framing, indexes
  <1>4. CASE Fail
    BY <1>4, ResetAllInductive DEF Fail
  <1>5. CASE FeedReturns
    BY <1>5 DEF IInv, BufferTypeOK, WithinBuffer, FeedReturns, Length, framing, indexes
  <1>6. CASE TakeNoBody
    <2>1. Length \in Nat
      BY DEF IInv, BufferTypeOK, WithinBuffer, Length
    <2> QED
      BY <1>6, <2>1, HandOverInductive DEF TakeNoBody
  <1>7. CASE TakeLength
    <2>1. Length \in Nat /\ content_length \in Nat /\ Length - content_length \in Nat
      BY <1>7 DEF IInv, BufferTypeOK, WithinBuffer, Length, TakeLength
    <2> QED
      BY <1>7, <2>1, HandOverInductive DEF TakeLength
  <1>8. ASSUME NEW dst \in Nat, NEW ret \in Nat, TakeChunks(dst, ret)
        PROVE  IInv'
    <2>1. chunked_offset + dst \in Nat /\ chunked_offset + dst + ret <= Length
      BY <1>8 DEF IInv, BufferTypeOK, WithinBuffer, Length, TakeChunks, Decodes
    <2> QED
      BY <1>8, <2>1, HandOverInductive DEF TakeChunks
  <1>9. ASSUME NEW dst \in Nat, WaitForChunks(dst)
        PROVE  IInv'
    BY <1>9 DEF IInv, BufferTypeOK, WithinBuffer, WaitForChunks, Decodes, TriesBody, Length
  <1>10. CASE Disconnect
    BY <1>10, ResetAllInductive DEF Disconnect
  <1>11. CASE UNCHANGED buffer_vars
    BY <1>11 DEF IInv, BufferTypeOK, WithinBuffer, Length, buffer_vars, framing, indexes
  <1>12. 0..(Length - chunked_offset) \subseteq Nat
    OBVIOUS
  <1> QED
    BY <1>1, <1>2, <1>3, <1>4, <1>5, <1>6, <1>7, <1>8, <1>9, <1>10, <1>11, <1>12
       DEF BufferNext

\* Parser moves the indexes in no other way than ParserBuffer does.
LEMMA ParserMovesBuffer ==
    ASSUME IInv, [Next]_vars
    PROVE  [BufferNext]_buffer_vars
  <1>1. CASE Parser_feed
    BY <1>1 DEF Parser_feed, BufferNext
  <1>2. CASE ParseHeaders
    BY <1>2 DEF ParseHeaders, TakeHead, BufferNext
  <1>3. CASE HeadersIncomplete \/ HeadersFail \/ BodyIncomplete \/ BodyFails
             \/ ReturnFromFeed \/ Parser_feed_disconnect
    BY <1>3 DEF HeadersIncomplete, HeadersFail, BodyIncomplete, BodyFails,
                ReturnFromFeed, Parser_feed_disconnect, BufferNext
  <1>4. CASE BodyWithoutChunks
    BY <1>4 DEF BodyWithoutChunks, BufferNext
  <1>5. CASE BodyChunks
    <2>1. PICK dst, ret : TakeChunks(dst, ret)
      BY <1>5 DEF BodyChunks
    <2>2. dst \in 0..(Length - chunked_offset) /\ ret \in 0..(Length - chunked_offset)
      BY <2>1 DEF IInv, BufferTypeOK, Length, TakeChunks, Decodes
    <2> QED
      BY <2>1, <2>2 DEF BufferNext
  <1>6. CASE ChunksIncomplete
    <2>1. PICK dst : WaitForChunks(dst)
      BY <1>6 DEF ChunksIncomplete
    <2>2. dst \in 0..(Length - chunked_offset)
      BY <2>1 DEF IInv, BufferTypeOK, Length, WaitForChunks, Decodes
    <2> QED
      BY <2>1, <2>2 DEF BufferNext
  <1>7. CASE Gone \/ UNCHANGED vars
    BY <1>7 DEF Gone, vars
  <1> QED
    BY <1>1, <1>2, <1>3, <1>4, <1>5, <1>6, <1>7 DEF Next


-----------------------------------------------------------------------------
(* The inductive invariant *)

\* The bytes behind Seen are still in the buffer as they came.
Seen == fed - (Length - chunked_offset)
Ahead == Seen \in 0..fed /\ Holds(buffer, buffer_start + chunked_offset, Seen, fed)

\* Between two messages; in the event loop what is there is a head that goes on.
HeadersAt(q) ==
  /\ Seen = q /\ chunked_offset = 0 /\ decoder = NewDecoder
  /\ Boundary(q) /\ Quiet(q) /\ events = Reference(q)
  /\ connection = "close" <=> PriorClose(q)
  /\ phase = "loop" => /\ \A p \in (q + 1)..fed : stream[p].is = "head"
                       /\ q # fed => connection # "close"

\* The parser knows what the head that ends at h announces.
Announced(h) ==
  /\ transfer = messages[stream[h].message].transfer
  /\ content_length = messages[stream[h].message].length
  /\ connection = IF messages[stream[h].message].close THEN "close" ELSE "keep_alive"

\* The part of a body that was looked at is decoded, in front of the other bytes.
DecodedSoFar(h, e) ==
  IF Chunked
  THEN /\ h <= Seen /\ Seen < e /\ decoder = Kept(Whole(h, Seen))
       /\ Window(buffer, buffer_start, buffer_start + chunked_offset) = Whole(h, Seen).out
  ELSE Seen = h /\ chunked_offset = 0 /\ decoder = NewDecoder

\* Inside the body of the message behind q; in the event loop its end is missing.
BodyAt(q, h, e) ==
  /\ HeadDone(q, h, e) /\ Announced(h) /\ DecodedSoFar(h, e)
  /\ events = Opened(h)
  /\ phase = "loop" => fed < e \/ EndlessAt(h)

\* After an error nothing is left.
Refused ==
  Length = 0 /\ events = Reference(fed) /\ StopsAt(fed) # 0 /\ WrongAt(StopsAt(fed))

ContentInv ==
  /\ phase \in {"loop", "feed"} =>
       /\ Ahead
       /\ state = "headers" => \E q \in 0..Len(stream) : HeadersAt(q)
       /\ state = "body" => \E q, h, e \in 0..Len(stream) : BodyAt(q, h, e)
  /\ phase = "closed" /\ state = "headers" => Refused

ContentType ==
  /\ fed \in 0..Len(stream)
  /\ buffer \in [0..(buffer_capacity - 1) -> 0..fed]
  /\ connection \in {"unset", "close", "keep_alive"}
  /\ decoder.left \in Nat /\ decoder.digits \in BOOLEAN /\ decoder.state \in Going

Inv == IInv /\ StreamOK /\ ContentType /\ ContentInv

-----------------------------------------------------------------------------
(* Each step keeps the invariant *)

\* The numbers the invariant speaks of.
LEMMA Numbers ==
  ASSUME Inv
  PROVE  /\ buffer_start \in Nat /\ buffer_end \in Nat /\ chunked_offset \in Nat
         /\ buffer_capacity \in Nat /\ Length \in Nat /\ fed \in Nat /\ Len(stream) \in Nat
         /\ Length = buffer_end - buffer_start /\ buffer_end <= buffer_capacity
         /\ fed <= Len(stream)
         /\ phase # "closed" => chunked_offset <= Length
  <1>1. /\ buffer_start \in Nat /\ buffer_end \in Nat /\ chunked_offset \in Nat
        /\ buffer_capacity \in Nat
        /\ buffer_start <= buffer_end /\ buffer_end <= buffer_capacity
        /\ phase # "closed" => chunked_offset <= Length
    BY DEF Inv, IInv, BufferTypeOK, WithinBuffer
  <1>2. Length \in Nat /\ Length = buffer_end - buffer_start
    BY <1>1 DEF Length
  <1>3. Len(stream) \in Nat
    BY DEF Inv, StreamOK
  <1>4. fed \in Nat /\ fed <= Len(stream)
    BY <1>3 DEF Inv, ContentType
  <1>5. QED
    BY <1>1, <1>2, <1>3, <1>4

\* What was seen is the same when the bytes that arrive are added on both sides.
LEMMA SeenStays ==
  ASSUME NEW f \in Nat, NEW l \in Nat, NEW o \in Nat, NEW n \in Nat
  PROVE  (f + n) - ((l + n) - o) = f - (l - o)
  OBVIOUS

\* Parser_feed
LEMMA FeedKeeps ==
  ASSUME Inv, Parser_feed, IInv'
  PROVE  ContentType' /\ ContentInv' /\ SameStream
  <1>1. PICK n \in Nat : /\ n <= Len(stream) - fed /\ Place(n)
                         /\ buffer' = Placed(n) /\ fed' = fed + n
                         /\ UNCHANGED <<messages, stream, connection, decoder, events>>
    <2>1. PICK n \in 1..MaxData : /\ n <= Len(stream) - fed /\ Place(n)
                                  /\ buffer' = Placed(n) /\ fed' = fed + n
                                  /\ UNCHANGED <<messages, stream, connection, decoder, events>>
      BY DEF Parser_feed
    <2>2. n \in Nat
      BY BufferAssumption
    <2>3. QED
      BY <2>1, <2>2
  <1>2. SameStream
    BY <1>1 DEF SameStream
  <1>3. /\ phase = "loop" /\ phase' = "feed" /\ state' = state /\ transfer' = transfer
        /\ content_length' = content_length /\ chunked_offset' = chunked_offset
        /\ buffer_end' = buffer_start' + Length + n
    BY <1>1 DEF Place, framing
  <1>4. PICK f \in Nat, l \in Nat, o \in Nat, s \in Nat, k \in Nat :
           /\ f = fed /\ l = Length /\ o = chunked_offset /\ s = buffer_start /\ k = buffer_capacity
           /\ o <= l /\ s + l <= k /\ f + n \in 0..Len(stream)
    <2>1. /\ buffer_start \in Nat /\ buffer_end \in Nat /\ chunked_offset \in Nat
          /\ buffer_capacity \in Nat /\ Length \in Nat /\ fed \in Nat /\ Len(stream) \in Nat
          /\ Length = buffer_end - buffer_start /\ buffer_end <= buffer_capacity
          /\ chunked_offset <= Length
      BY <1>3, Numbers
    <2>2. buffer_start + Length <= buffer_capacity
      BY <2>1
    <2>3. fed + n \in 0..Len(stream)
      BY <1>1, <2>1
    <2>4. QED
      BY <2>1, <2>2, <2>3
  <1>5. PICK t \in Nat, c \in Nat : t = buffer_start' /\ c = buffer_capacity' /\ t + l + n <= c
    <2>1. buffer_start' \in Nat /\ buffer_capacity' \in Nat /\ buffer_end' <= buffer_capacity'
      BY DEF IInv, BufferTypeOK, WithinBuffer
    <2>2. QED
      BY <1>3, <1>4, <2>1
  <1>6. PICK b : b = buffer' /\ b = Put(buffer, s, l, t, n, c, f)
    BY <1>1, <1>4, <1>5, PlacedIs
  <1>7. /\ b \in [0..(c - 1) -> 0..(f + n)]
        /\ Copied(b, t, buffer, s, l) /\ Holds(b, t + l, f, f + n)
    <2>1. PICK g \in [0..(k - 1) -> 0..f] : g = buffer
      BY <1>4 DEF Inv, ContentType
    <2>2. s + l <= k
      BY <1>4
    <2>3. t + l + n <= c
      BY <1>5
    <2>4. /\ Put(g, s, l, t, n, c, f) \in [0..(c - 1) -> 0..(f + n)]
          /\ Copied(Put(g, s, l, t, n, c, f), t, g, s, l)
          /\ Holds(Put(g, s, l, t, n, c, f), t + l, f, f + n)
      BY <2>2, <2>3, PutIs
    <2>5. b = Put(g, s, l, t, n, c, f)
      BY <1>6, <2>1
    <2>6. QED
      BY <2>1, <2>4, <2>5
  <1>8. ContentType'
    <2>1. fed' \in 0..Len(stream') /\ buffer' \in [0..(buffer_capacity' - 1) -> 0..fed']
      BY <1>1, <1>4, <1>5, <1>6, <1>7
    <2>2. QED
      BY <1>1, <2>1 DEF Inv, ContentType
  <1>9. PICK q \in Nat : q = Seen /\ q <= f /\ f - q = l - o /\ Holds(buffer, s + o, q, f)
    <2>1. Ahead
      BY <1>3 DEF Inv, ContentInv
    <2>2. Seen = f - (l - o) /\ Seen \in 0..f /\ Holds(buffer, s + o, Seen, f)
      BY <1>4, <2>1 DEF Ahead, Seen
    <2>3. QED
      BY <2>2
  <1>10. Holds(b, t + o, q, f + n) /\ Window(b, t, t + o) = Window(buffer, s, s + o)
    <2>1. PICK g : g = buffer
      OBVIOUS
    <2>2. Copied(b, t, g, s, l) /\ Holds(b, t + l, f, f + n) /\ Holds(g, s + o, q, f)
      BY <1>7, <1>9, <2>1
    <2>3. o <= l /\ q <= f /\ f - q = l - o
      BY <1>4, <1>9
    <2>4. Holds(b, t + o, q, f + n)
      BY <2>2, <2>3, PutHolds
    <2>5. Window(b, t, t + o) = Window(g, s, s + o)
      <3>1. Matches(b, t, g, s, o)
        BY <2>2, <2>3, PutMatches
      <3>2. QED
        BY <3>1, SameWindow
    <2>6. QED
      BY <2>1, <2>4, <2>5
  <1>11. Seen' = q
    <2>1. Length' = l + n
      <3>1. Length' = buffer_end' - buffer_start'
        BY DEF Length
      <3>2. buffer_end' = t + l + n
        BY <1>3, <1>4, <1>5
      <3>3. (t + l + n) - t = l + n
        OBVIOUS
      <3>4. QED
        BY <1>5, <3>1, <3>2, <3>3
    <2>2. Seen' = (f + n) - ((l + n) - o)
      BY <1>1, <1>3, <1>4, <2>1 DEF Seen
    <2>3. q = f - (l - o)
      BY <1>4, <1>9 DEF Seen
    <2>4. QED
      BY <2>2, <2>3, SeenStays
  <1>12. Ahead'
    <2>1. q \in 0..(f + n)
      BY <1>9
    <2>2. Seen' \in 0..fed' /\ Holds(b, t + o, Seen', f + n)
      BY <1>1, <1>4, <1>10, <1>11, <2>1
    <2>3. QED
      BY <1>1, <1>3, <1>4, <1>5, <1>6, <2>2 DEF Ahead, Holds
  <1>13. ASSUME state = "headers"
         PROVE  \E p \in 0..Len(stream') : HeadersAt(p)'
    <2>1. PICK p \in 0..Len(stream) : HeadersAt(p)
      BY <1>3, <1>13 DEF Inv, ContentInv
    <2>2. HeadersAt(p)'
      BY <1>1, <1>2, <1>3, <1>9, <1>11, <2>1, SameStops, SameReference
         DEF HeadersAt, SameStream, PriorClose, NewDecoder
    <2>3. QED
      BY <1>1, <2>2
  <1>14. ASSUME state = "body"
         PROVE  \E p, h, e \in 0..Len(stream') : BodyAt(p, h, e)'
    <2>1. PICK p, h, e \in 0..Len(stream) : BodyAt(p, h, e)
      BY <1>3, <1>14 DEF Inv, ContentInv
    <2>2. HeadDone(p, h, e)'
      BY <1>2, <2>1, SameStops, SamePiece, SameStreamOK DEF BodyAt, HeadDone
    <2>3. Announced(h)'
      BY <1>1, <1>3, <2>1 DEF BodyAt, Announced
    <2>4. DecodedSoFar(h, e)'
      <3>1. DecodedSoFar(h, e)
        BY <2>1 DEF BodyAt
      <3>2. Chunked' <=> Chunked
        BY <1>3 DEF Chunked
      <3>3. \A w : Whole(h, w)' = Whole(h, w)
        BY <1>2, SameWhole
      <3>4. Window(buffer', buffer_start', buffer_start' + chunked_offset')
              = Window(buffer, buffer_start, buffer_start + chunked_offset)
        BY <1>3, <1>4, <1>5, <1>6, <1>10
      <3>5. Window(buffer, buffer_start, buffer_start + chunked_offset)'
              = Window(buffer', buffer_start', buffer_start' + chunked_offset')
        BY DEF Window
      <3>6. QED
        BY <1>1, <1>3, <1>9, <1>11, <3>1, <3>2, <3>3, <3>4, <3>5 DEF DecodedSoFar, Kept, NewDecoder
    <2>5. Opened(h)' = Opened(h)
      BY <1>2, SameReference DEF Opened, HeadersCall
    <2>6. BodyAt(p, h, e)'
      BY <1>1, <1>3, <2>1, <2>2, <2>3, <2>4, <2>5 DEF BodyAt
    <2>7. QED
      BY <1>1, <2>6
  <1>15. ContentInv'
    BY <1>3, <1>12, <1>13, <1>14 DEF ContentInv
  <1>16. QED
    BY <1>2, <1>8, <1>15

-----------------------------------------------------------------------------
(* Heads *)

\* Between two messages the buffer holds the bytes that follow, and nothing else.
LEMMA BetweenMessages ==
  ASSUME Inv, phase \in {"loop", "feed"}, state = "headers"
  PROVE  \E q \in Nat : /\ HeadersAt(q) /\ q = Seen /\ q <= fed /\ q <= Len(stream)
                        /\ fed - q = Length
                        /\ Holds(buffer, buffer_start, q, fed) /\ Received = From(q, fed)
  <1>1. PICK q \in 0..Len(stream) : HeadersAt(q)
    BY DEF Inv, ContentInv
  <1>2. PICK f \in Nat, s \in Nat, z \in Nat, l \in Nat :
           /\ f = fed /\ s = buffer_start /\ z = buffer_end /\ l = Length /\ l = z - s
           /\ f <= Len(stream)
    BY Numbers
  <1>3. chunked_offset = 0 /\ Seen = q
    BY <1>1 DEF HeadersAt
  <1>4. Len(stream) \in Nat
    BY Numbers
  <1>5. q \in Nat /\ q <= Len(stream)
    BY <1>4
  <1>6. q \in 0..f /\ q = f - l
    <2>1. q = f - (l - 0)
      BY <1>2, <1>3 DEF Seen
    <2>2. Ahead
      BY DEF Inv, ContentInv
    <2>3. Seen \in 0..fed
      BY <2>2 DEF Ahead
    <2>4. QED
      BY <1>2, <1>3, <2>1, <2>3
  <1>7. Holds(buffer, s, q, f)
    <2>1. Holds(buffer, buffer_start + chunked_offset, Seen, fed)
      BY DEF Inv, ContentInv, Ahead
    <2>2. buffer_start + chunked_offset = s
      BY <1>2, <1>3
    <2>3. QED
      BY <1>2, <1>3, <2>1, <2>2
  <1>8. z - s = f - q
    BY <1>2, <1>5, <1>6
  <1>9. Received = From(q, f)
    <2>1. PICK p \in Nat : p = q
      BY <1>5
    <2>2. z - s = f - p /\ Holds(buffer, s, p, f)
      BY <1>7, <1>8, <2>1
    <2>3. Spans(buffer, s, z, p, f)
      BY <2>2, WindowHolds
    <2>4. Window(buffer, s, z) = From(q, f)
      BY <2>1, <2>3 DEF Spans
    <2>5. QED
      BY <1>2, <2>4 DEF Received
  <1>10. f - q = l /\ q <= f
    BY <1>2, <1>5, <1>6
  <1>11. QED
    BY <1>1, <1>2, <1>3, <1>5, <1>7, <1>9, <1>10

\* When bytes are left they begin a message.
LEMMA MessageBehind ==
  ASSUME Inv, NEW q \in Nat, HeadersAt(q), q < fed
  PROVE  \E h, e : Piece(q, h, e)
  <1>1. fed \in Nat /\ Len(stream) \in Nat /\ fed <= Len(stream)
    BY Numbers
  <1>2. q \in 0..(Len(stream) - 1)
    BY <1>1
  <1>3. Boundary(q)
    BY DEF HeadersAt
  <1>4. QED
    BY <1>2, <1>3 DEF Inv, StreamOK

\* The head of the next message, as far as it was received.
LEMMA HeadSeen ==
  ASSUME Inv, phase \in {"loop", "feed"}, state = "headers", Length # 0
  PROVE  \E q, h, e \in Nat :
           /\ HeadersAt(q) /\ Piece(q, h, e) /\ q = Seen /\ q < fed /\ fed - q = Length
           /\ Holds(buffer, buffer_start, q, fed)
           /\ HeadSize = 0 => fed < h /\ \A p \in (q + 1)..fed : stream[p].is = "head"
           /\ HeadSize # 0 => /\ HeadSize \in 1..(fed - q) /\ h = q + HeadSize
                              /\ Received[HeadSize] = h
                              /\ HeadEnd = stream[h] /\ HeadEnd.is = "head_end"
  <1>1. PICK q \in Nat : /\ HeadersAt(q) /\ q = Seen /\ q <= fed /\ q <= Len(stream)
                         /\ fed - q = Length
                         /\ Holds(buffer, buffer_start, q, fed) /\ Received = From(q, fed)
    BY BetweenMessages
  <1>2. fed \in Nat
    BY Numbers
  <1>3. q < fed
    BY <1>1, <1>2
  <1>4. PICK h, e : Piece(q, h, e)
    BY <1>1, <1>3, MessageBehind
  <1>5. h \in Nat /\ e \in Nat
    BY <1>4 DEF Piece
  <1>6. /\ HeadSize = 0 => fed < h /\ \A p \in (q + 1)..fed : stream[p].is = "head"
        /\ HeadSize # 0 => /\ HeadSize \in 1..(fed - q) /\ h = q + HeadSize
                           /\ Received[HeadSize] = h
                           /\ HeadEnd = stream[h] /\ HeadEnd.is = "head_end"
    BY <1>1, <1>2, <1>4, HeadFound
  <1>7. QED
    BY <1>1, <1>3, <1>4, <1>5, <1>6

\* A head that is well-formed and follows no last message is right.
LEMMA HeadRight ==
  ASSUME StreamOK, NEW q, NEW h, NEW e, Piece(q, h, e), Boundary(q), Quiet(q), ~PriorClose(q),
         messages[stream[h].message].invalid # "head"
  PROVE  HeadDone(q, h, e) /\ Reference(h - 1) = Reference(q)
  <1>1. /\ q \in Nat /\ h \in Nat /\ e \in Nat /\ h - 1 \in Nat
        /\ q < h /\ h <= e /\ q <= h - 1 /\ (h - 1) + 1 = h
    BY PieceNumbers
  <1>2. PICK p \in Nat : p = h - 1 /\ q <= p /\ p < h
    BY <1>1
  <1>3. Quiet(p) /\ Reference(p) = Reference(q)
    BY <1>2, HeadOpen
  <1>4. h \in (q + 1)..e
    BY <1>1
  <1>5. stream[h].is = "head_end"
    BY DEF Piece
  <1>6. ~WrongAt(h)
    BY <1>4, <1>5, WrongInPiece
  <1>7. QED
    BY <1>2, <1>3, <1>6 DEF HeadDone

\* What is decoded of a body nobody looked at yet.
LEMMA NothingDecoded ==
  ASSUME stream \in Seq(Bytes), NEW h \in Nat, NEW s \in Nat
  PROVE  /\ Kept(Whole(h, h)) = NewDecoder
         /\ Window(buffer, s, s + 0) = Whole(h, h).out
  <1>1. Whole(h, h) = Start
    BY WholeStep
  <1>2. s + 0 = s
    OBVIOUS
  <1>3. Window(buffer, s, s) = << >>
    BY WindowNone
  <1>4. QED
    BY <1>1, <1>2, <1>3 DEF Start, Kept, NewDecoder

\* The index of the bytes behind the ones taken from the front.
LEMMA TakenOff ==
  ASSUME NEW f \in Nat, NEW s \in Nat, NEW z \in Nat, NEW q \in Nat, NEW n \in Nat,
         f - q = z - s, n <= z - s
  PROVE  f - ((z - (s + n)) - 0) = q + n /\ q + n \in 0..f /\ n <= f - q
  OBVIOUS

\* _parse_headers
LEMMA ParseHeadersKeeps ==
  ASSUME Inv, ParseHeaders, IInv'
  PROVE  ContentType' /\ ContentInv' /\ SameStream
  <1>1. /\ connection # "close" /\ HeadSize # 0 /\ WellFormed
        /\ UNCHANGED <<messages, stream, fed, buffer, decoder>>
        /\ Call("headers", <<Received[HeadSize]>>)
    BY DEF ParseHeaders
  <1>2. PICK m : /\ m = messages[HeadEnd.message]
                 /\ TakeHead(HeadSize, m.transfer, m.length)
                 /\ connection' = (IF m.close THEN "close" ELSE "keep_alive")
    BY DEF ParseHeaders
  <1>3. /\ phase = "feed" /\ state = "headers" /\ Length # 0
        /\ HeadSize \in 1..Length
        /\ transfer' = m.transfer /\ content_length' = m.length
        /\ buffer_start' = buffer_start + HeadSize /\ state' = "body" /\ phase' = "feed"
        /\ chunked_offset' = chunked_offset /\ buffer_end' = buffer_end
        /\ buffer_capacity' = buffer_capacity
    BY <1>2 DEF TakeHead, TriesHeaders
  <1>4. PICK q \in Nat, h \in Nat, e \in Nat :
           /\ HeadersAt(q) /\ Piece(q, h, e) /\ q = Seen /\ q < fed /\ fed - q = Length
           /\ Holds(buffer, buffer_start, q, fed)
           /\ HeadSize \in 1..(fed - q) /\ h = q + HeadSize
           /\ Received[HeadSize] = h /\ HeadEnd = stream[h]
    BY <1>1, <1>3, HeadSeen
  <1>5. SameStream
    BY <1>1 DEF SameStream
  <1>6. m = messages[stream[h].message] /\ m.invalid # "head"
    BY <1>1, <1>2, <1>4 DEF WellFormed
  <1>7. StreamOK /\ Boundary(q) /\ Quiet(q) /\ ~PriorClose(q) /\ events = Reference(q)
        /\ chunked_offset = 0 /\ decoder = NewDecoder
    BY <1>1, <1>4 DEF Inv, HeadersAt
  <1>8. HeadDone(q, h, e) /\ Reference(h - 1) = Reference(q)
    BY <1>4, <1>6, <1>7, HeadRight
  <1>9. PICK f \in Nat, s \in Nat, z \in Nat, n \in Nat :
           /\ f = fed /\ s = buffer_start /\ z = buffer_end /\ n = HeadSize
           /\ f - q = z - s /\ n <= z - s /\ h = q + n
    <2>1. HeadSize \in Nat /\ HeadSize <= Length
      BY <1>3, Numbers
    <2>2. QED
      BY <1>4, <2>1, Numbers
  <1>10. f - ((z - (s + n)) - 0) = q + n /\ q + n \in 0..f /\ n <= f - q
    BY <1>9, TakenOff
  <1>11. Seen' = h /\ h \in 0..f
    <2>1. Length' = z - (s + n)
      BY <1>3, <1>9 DEF Length
    <2>2. Seen' = f - ((z - (s + n)) - 0)
      BY <1>1, <1>3, <1>7, <1>9, <2>1 DEF Seen
    <2>3. QED
      BY <1>9, <1>10, <2>2
  <1>12. Ahead'
    <2>1. Holds(buffer, s + n, q + n, f)
      BY <1>4, <1>9, <1>10, HoldsBehind
    <2>2. Holds(buffer, s + n, h, f)
      BY <1>9, <2>1
    <2>3. buffer_start' + chunked_offset' = s + n
      BY <1>3, <1>7, <1>9
    <2>4. Seen' \in 0..fed' /\ Holds(buffer', buffer_start' + chunked_offset', Seen', fed')
      BY <1>1, <1>9, <1>11, <2>2, <2>3
    <2>5. QED
      BY <2>4 DEF Ahead, Holds
  <1>13. DecodedSoFar(h, e)'
    <2>1. stream \in Seq(Bytes)
      BY <1>7 DEF StreamOK
    <2>2. Whole(h, h)' = Whole(h, h)
      BY <1>5, SameWhole
    <2>3. CASE Chunked'
      <3>1. m.transfer = "chunked" /\ m.length = CONTENT_LENGTH_UNSET
        BY <1>3, <2>3 DEF Chunked
      <3>2. h < e
        BY <1>4, <1>6, <3>1 DEF Piece, Framed, ChunkedAt
      <3>3. PICK t \in Nat : t = buffer_start'
        BY <1>3, <1>9
      <3>4. Kept(Whole(h, h)) = NewDecoder /\ Window(buffer, t, t + 0) = Whole(h, h).out
        BY <2>1, NothingDecoded
      <3>5. /\ h <= Seen' /\ Seen' < e /\ decoder' = Kept(Whole(h, Seen'))
            /\ Window(buffer', buffer_start', buffer_start' + chunked_offset')
                 = Whole(h, Seen').out
        BY <1>1, <1>3, <1>7, <1>11, <3>2, <3>3, <3>4
      <3>6. Window(buffer, buffer_start, buffer_start + chunked_offset)'
              = Window(buffer', buffer_start', buffer_start' + chunked_offset')
        BY DEF Window
      <3>7. Kept(Whole(h, h))' = Kept(Whole(h, h))
        BY <2>2 DEF Kept
      <3>8. QED
        BY <1>11, <2>2, <2>3, <3>5, <3>6, <3>7, SameWhole, <1>5 DEF DecodedSoFar, Kept
    <2>4. CASE ~Chunked'
      BY <1>1, <1>3, <1>7, <1>11, <2>4 DEF DecodedSoFar, NewDecoder
    <2>5. QED
      BY <2>3, <2>4
  <1>14. BodyAt(q, h, e)'
    <2>1. HeadDone(q, h, e)'
      BY <1>5, <1>8, SameStops, SamePiece, SameStreamOK DEF HeadDone
    <2>2. Announced(h)'
      BY <1>1, <1>2, <1>3, <1>6 DEF Announced
    <2>3. events' = Opened(h)'
      <3>1. events' = Append(Reference(h - 1), HeadersCall(h))
        BY <1>1, <1>4, <1>7, <1>8 DEF Call, HeadersCall
      <3>2. Opened(h)' = Opened(h)
        BY <1>5, SameReference DEF Opened, HeadersCall
      <3>3. QED
        BY <3>1, <3>2 DEF Opened
    <2>4. QED
      BY <1>3, <1>13, <2>1, <2>2, <2>3 DEF BodyAt
  <1>15. q \in 0..Len(stream') /\ h \in 0..Len(stream') /\ e \in 0..Len(stream')
    <2>1. /\ q \in Nat /\ h \in Nat /\ e \in Nat
          /\ q < h /\ h <= e /\ e <= Len(stream)
      BY <1>4, PieceNumbers
    <2>2. Len(stream) \in Nat
      BY Numbers
    <2>3. q \in 0..Len(stream) /\ h \in 0..Len(stream) /\ e \in 0..Len(stream)
      BY <2>1, <2>2
    <2>4. QED
      BY <1>1, <2>3
  <1>16. ContentInv'
    BY <1>3, <1>12, <1>14, <1>15 DEF ContentInv
  <1>17. ContentType'
    BY <1>1, <1>2, <1>3 DEF Inv, ContentType
  <1>18. QED
    BY <1>5, <1>16, <1>17

-----------------------------------------------------------------------------
(* Steps that only give the control back *)

\* Only the phase changes.
OnlyPhase == UNCHANGED <<content_vars, state, framing, indexes>>

\* Then what is in the buffer stays where it is.
LEMMA PhaseFrame ==
  ASSUME OnlyPhase
  PROVE  /\ SameStream /\ Length' = Length /\ Seen' = Seen
         /\ UNCHANGED <<fed, buffer, connection, decoder, events, state,
                        transfer, content_length, chunked_offset,
                        buffer_start, buffer_end, buffer_capacity>>
         /\ ContentType => ContentType'
         /\ Ahead => Ahead'
  <1>1. /\ SameStream
        /\ UNCHANGED <<fed, buffer, connection, decoder, events, state,
                       transfer, content_length, chunked_offset,
                       buffer_start, buffer_end, buffer_capacity>>
    BY DEF OnlyPhase, content_vars, framing, indexes, SameStream
  <1>2. Length' = Length /\ Seen' = Seen
    BY <1>1 DEF Length, Seen
  <1>3. ContentType => ContentType'
    BY <1>1 DEF ContentType, SameStream
  <1>4. Ahead => Ahead'
    BY <1>1, <1>2 DEF Ahead, Holds
  <1>5. QED
    BY <1>1, <1>2, <1>3, <1>4

\* A body stays where it is, if its end is missing.
LEMMA BodyFrame ==
  ASSUME OnlyPhase, NEW q, NEW h, NEW e, BodyAt(q, h, e), phase' = "loop",
         fed < e \/ EndlessAt(h)
  PROVE  BodyAt(q, h, e)'
  <1>1. /\ SameStream /\ Seen' = Seen
        /\ UNCHANGED <<fed, buffer, connection, decoder, events, state,
                       transfer, content_length, chunked_offset,
                       buffer_start, buffer_end, buffer_capacity>>
    BY PhaseFrame
  <1>2. HeadDone(q, h, e)'
    BY <1>1, SameStops, SamePiece, SameStreamOK DEF BodyAt, HeadDone
  <1>3. Announced(h)'
    BY <1>1 DEF BodyAt, Announced, SameStream
  <1>4. DecodedSoFar(h, e)'
    BY <1>1, SameWhole DEF BodyAt, DecodedSoFar, Chunked, Kept, NewDecoder, Window
  <1>5. Opened(h)' = Opened(h)
    BY <1>1, SameReference DEF Opened, HeadersCall
  <1>6. EndlessAt(h)' <=> EndlessAt(h)
    BY <1>1, SameStops
  <1>7. QED
    BY <1>1, <1>2, <1>3, <1>4, <1>5, <1>6 DEF BodyAt

\* So does a place between two messages, if the head behind it goes on.
LEMMA HeadersFrame ==
  ASSUME OnlyPhase, NEW q, HeadersAt(q), phase' = "loop",
         \A p \in (q + 1)..fed : stream[p].is = "head", q # fed => connection # "close"
  PROVE  HeadersAt(q)'
  <1>1. /\ SameStream /\ Seen' = Seen
        /\ UNCHANGED <<fed, buffer, connection, decoder, events, state,
                       transfer, content_length, chunked_offset,
                       buffer_start, buffer_end, buffer_capacity>>
    BY PhaseFrame
  <1>2. PriorClose(q)' <=> PriorClose(q)
    BY <1>1 DEF PriorClose, SameStream
  <1>3. QED
    BY <1>1, <1>2, SameStops, SameReference DEF HeadersAt, SameStream, NewDecoder

\* The head is not whole: -2
LEMMA HeadersIncompleteKeeps ==
  ASSUME Inv, HeadersIncomplete
  PROVE  ContentType' /\ ContentInv' /\ SameStream
  <1>1. OnlyPhase /\ phase = "feed" /\ state = "headers" /\ Length # 0
        /\ connection # "close" /\ HeadSize = 0 /\ phase' = "loop"
    BY DEF HeadersIncomplete, TriesHeaders, Wait, OnlyPhase
  <1>2. PICK q \in Nat, h \in Nat, e \in Nat :
           /\ HeadersAt(q) /\ q < fed /\ \A p \in (q + 1)..fed : stream[p].is = "head"
    BY <1>1, HeadSeen
  <1>3. HeadersAt(q)'
    BY <1>1, <1>2, HeadersFrame
  <1>4. q \in 0..Len(stream')
    BY <1>1, <1>2, Numbers, PhaseFrame DEF SameStream
  <1>5. ContentType' /\ Ahead' /\ SameStream /\ state' = state
    BY <1>1, PhaseFrame DEF Inv, ContentInv
  <1>6. QED
    BY <1>1, <1>3, <1>4, <1>5 DEF ContentInv

\* Nothing is left: Parser_feed returns.
LEMMA ReturnKeeps ==
  ASSUME Inv, ReturnFromFeed
  PROVE  ContentType' /\ ContentInv' /\ SameStream
  <1>1. OnlyPhase /\ phase = "feed" /\ state = "headers" /\ Length = 0 /\ phase' = "loop"
    BY DEF ReturnFromFeed, FeedReturns, OnlyPhase
  <1>2. PICK q \in Nat : HeadersAt(q) /\ q <= Len(stream) /\ q <= fed /\ fed - q = Length
    BY <1>1, BetweenMessages
  <1>3. q = fed
    BY <1>1, <1>2, Numbers
  <1>4. \A p \in (q + 1)..fed : stream[p].is = "head"
    BY <1>2, <1>3
  <1>5. HeadersAt(q)'
    BY <1>1, <1>2, <1>3, <1>4, HeadersFrame
  <1>6. q \in 0..Len(stream')
    BY <1>1, <1>2, Numbers, PhaseFrame DEF SameStream
  <1>7. ContentType' /\ Ahead' /\ SameStream /\ state' = state
    BY <1>1, PhaseFrame DEF Inv, ContentInv
  <1>8. QED
    BY <1>1, <1>5, <1>6, <1>7 DEF ContentInv

-----------------------------------------------------------------------------
(* Errors *)

\* The parser stops at a byte at which the reference does.
LEMMA FailKeeps ==
  ASSUME Inv, Fail, Call("error", << >>), connection' = "unset", decoder' = NewDecoder,
         UNCHANGED <<messages, stream, fed, buffer>>,
         StopsAt(fed) # 0, WrongAt(StopsAt(fed)), Reference(fed) = Append(events, ErrorCall)
  PROVE  ContentType' /\ ContentInv' /\ SameStream
  <1>1. /\ phase' = "closed" /\ buffer_start' = 0 /\ buffer_end' = 0
        /\ buffer_capacity' = buffer_capacity
    BY DEF Fail, ResetAll
  <1>2. SameStream
    BY DEF SameStream
  <1>3. Length' = 0
    BY <1>1 DEF Length
  <1>4. events' = Reference(fed)
    BY DEF Call, ErrorCall
  <1>5. /\ Reference(fed)' = Reference(fed) /\ StopsAt(fed)' = StopsAt(fed)
        /\ WrongAt(StopsAt(fed))' <=> WrongAt(StopsAt(fed))
    BY <1>2, SameReference, SameStops
  <1>6. Refused'
    BY <1>3, <1>4, <1>5 DEF Refused
  <1>7. ContentType'
    BY <1>1 DEF Inv, ContentType, NewDecoder, Going
  <1>8. QED
    BY <1>1, <1>2, <1>6, <1>7 DEF ContentInv

\* excessive_data, malformed_headers and invalid_headers
LEMMA HeadersFailKeeps ==
  ASSUME Inv, HeadersFail
  PROVE  ContentType' /\ ContentInv' /\ SameStream
  <1>1. /\ phase = "feed" /\ state = "headers" /\ Length # 0
        /\ connection = "close" \/ (HeadSize # 0 /\ ~WellFormed)
        /\ Fail /\ Call("error", << >>) /\ connection' = "unset" /\ decoder' = NewDecoder
        /\ UNCHANGED <<messages, stream, fed, buffer>>
    BY DEF HeadersFail, TriesHeaders
  <1>2. PICK q \in Nat, h \in Nat, e \in Nat :
           /\ HeadersAt(q) /\ Piece(q, h, e) /\ q < fed
           /\ HeadSize # 0 => /\ HeadSize \in 1..(fed - q) /\ h = q + HeadSize
                              /\ HeadEnd = stream[h] /\ HeadEnd.is = "head_end"
    BY <1>1, HeadSeen
  <1>3. /\ StreamOK /\ Boundary(q) /\ Quiet(q) /\ events = Reference(q)
        /\ connection = "close" <=> PriorClose(q)
    BY <1>2 DEF Inv, HeadersAt
  <1>4. q < h /\ h <= e
    BY <1>2, PieceNumbers
  <1>5. PICK f \in Nat : f = fed
    BY Numbers
  <1>6. StopsAt(f) # 0 /\ WrongAt(StopsAt(f)) /\ Reference(f) = Append(events, ErrorCall)
    <2>1. CASE PriorClose(q)
      <3>1. PICK n \in Nat : n = q + 1 /\ n \in (q + 1)..e
        BY <1>4
      <3>2. WrongAt(n)
        BY <1>2, <1>3, <2>1, <3>1, WrongInPiece
      <3>3. q < f
        BY <1>2, <1>5
      <3>4. QED
        BY <1>3, <3>1, <3>2, <3>3, HeadBroken
    <2>2. CASE ~PriorClose(q)
      <3>1. HeadSize # 0 /\ ~WellFormed
        BY <1>1, <1>3, <2>2
      <3>2. h <= f
        BY <1>2, <1>5, <3>1
      <3>3. messages[stream[h].message].invalid = "head" /\ stream[h].is = "head_end"
        BY <1>2, <3>1 DEF WellFormed
      <3>4. h \in (q + 1)..e
        BY <1>4
      <3>5. WrongAt(h)
        BY <1>2, <1>3, <3>3, <3>4, WrongInPiece
      <3>6. PICK p \in Nat : p = h - 1 /\ q <= p /\ p < h /\ p < f /\ h = p + 1
        BY <1>4, <3>2
      <3>7. Quiet(p) /\ Reference(p) = Reference(q)
        BY <1>2, <1>3, <2>2, <3>6, HeadOpen
      <3>8. QED
        BY <1>3, <3>5, <3>6, <3>7, HeadBroken
    <2>3. QED
      BY <2>1, <2>2
  <1>7. QED
    BY <1>1, <1>5, <1>6, FailKeeps

-----------------------------------------------------------------------------
(* Bodies *)

\* What is known inside a body.
LEMMA BodyNumbers ==
  ASSUME Inv, NEW q, NEW h, NEW e, BodyAt(q, h, e)
  PROVE  /\ StreamOK /\ stream \in Seq(Bytes) /\ Boundary(q) /\ Piece(q, h, e)
         /\ HeadDone(q, h, e) /\ Framed(h, e, stream[h].message)
         /\ q \in Nat /\ h \in Nat /\ e \in Nat /\ q < h /\ h <= e /\ e <= Len(stream)
  BY PieceNumbers DEF BodyAt, HeadDone, StreamOK, Piece

\* Nothing decoded is in front.
LEMMA PlusZero ==
  ASSUME NEW n \in Nat
  PROVE  n + 0 = n
  OBVIOUS

\* on_body was called with the bytes of the message, and what is left follows it.
LEMMA BodyDone ==
  ASSUME Inv, NEW q, NEW h, NEW e, BodyAt(q, h, e), phase = "feed",
         ~EndlessAt(h), h < e => stream[e].is # "bad",
         NEW size, NEW left, HandOver(size, left), Call("body", BodyOf(stream[h].message)),
         decoder' = NewDecoder, UNCHANGED <<messages, stream, fed, connection>>,
         NEW t \in Nat, t = buffer_start', e <= fed, left = fed - e, Holds(buffer', t, e, fed)
  PROVE  ContentInv' /\ SameStream
  <1>1. SameStream
    BY DEF SameStream
  <1>2. /\ buffer_start' = buffer_start + size /\ buffer_end' = buffer_start' + left
        /\ \/ /\ phase' = "feed" /\ state' = "headers" /\ chunked_offset' = 0
           \/ phase' = "closed" /\ state' = "body"
    BY DEF HandOver, ResetMessage, TriesBody
  <1>3. ASSUME phase' = "feed", state' = "headers", chunked_offset' = 0
        PROVE  ContentInv'
    <2>1. PICK f \in Nat, x \in Nat : f = fed /\ x = e /\ x <= f /\ x \in 0..f
      BY BodyNumbers, Numbers
    <2>2. Length' = f - x
      BY <1>2, <2>1 DEF Length
    <2>3. Seen' = x
      <3>1. Seen' = f - ((f - x) - 0)
        BY <1>3, <2>1, <2>2 DEF Seen
      <3>2. QED
        BY <2>1, <3>1
    <2>4. Ahead'
      <3>1. t + 0 = t
        BY PlusZero
      <3>2. Seen' \in 0..fed' /\ Holds(buffer', buffer_start' + chunked_offset', Seen', fed')
        BY <1>3, <2>1, <2>3, <3>1
      <3>3. QED
        BY <3>2 DEF Ahead, Holds
    <2>5. /\ Boundary(e) /\ Quiet(e)
          /\ Reference(e) = Append(Opened(h), BodyCall(stream[h].message))
          /\ PriorClose(e) <=> messages[stream[h].message].close
      BY BodyNumbers, PieceDone
    <2>6. events' = Reference(e)
      BY <2>5 DEF Call, BodyCall, BodyAt
    <2>7. connection' = "close" <=> PriorClose(e)
      BY <2>5 DEF BodyAt, Announced
    <2>8. HeadersAt(e)'
      BY <1>1, <1>3, <2>1, <2>3, <2>5, <2>6, <2>7, SameStops, SameReference
         DEF HeadersAt, SameStream, PriorClose, NewDecoder
    <2>9. e \in 0..Len(stream')
      <3>1. e \in Nat /\ e <= Len(stream) /\ Len(stream) \in Nat
        BY BodyNumbers, Numbers
      <3>2. QED
        BY <3>1
    <2>10. QED
      BY <1>3, <2>4, <2>8, <2>9 DEF ContentInv
  <1>4. ASSUME phase' = "closed", state' = "body"
        PROVE  ContentInv'
    BY <1>4 DEF ContentInv
  <1>5. QED
    BY <1>1, <1>2, <1>3, <1>4

\* A body that is not in chunks ends n bytes behind its head.
Measured(h, e, n) ==
  /\ e = h + n /\ ~EndlessAt(h) /\ ~Chunked
  /\ h < e => stream[e].is # "bad"
  /\ BodyOf(stream[h].message) = [i \in 1..n |-> h + i]

\* So does a body without Content-Length and chunks, and one with it.
LEMMA MeasuredIs ==
  ASSUME Inv, NEW q, NEW h, NEW e, BodyAt(q, h, e)
  PROVE  /\ Unframed \/ content_length = 0 => Measured(h, e, 0)
         /\ content_length \in Nat => Measured(h, e, content_length)
  <1>1. /\ Framed(h, e, stream[h].message) /\ h \in Nat /\ e \in Nat /\ h <= e
        /\ transfer = messages[stream[h].message].transfer
        /\ content_length = messages[stream[h].message].length
    BY BodyNumbers DEF BodyAt, Announced
  <1>2. CONTENT_LENGTH_UNSET \notin Nat
    BY DEF CONTENT_LENGTH_UNSET
  <1>3. ASSUME content_length \in Nat
        PROVE  Measured(h, e, content_length)
    <2>1. content_length # CONTENT_LENGTH_UNSET
      BY <1>2, <1>3
    <2>2. /\ e = h + content_length
          /\ \A p \in (h + 1)..e : stream[p].is # "bad"
          /\ BodyOf(stream[h].message) = [i \in 1..content_length |-> h + i]
      BY <1>1, <2>1 DEF Framed
    <2>3. h < e => stream[e].is # "bad"
      BY <1>1, <2>2
    <2>4. ~EndlessAt(h) /\ ~Chunked
      BY <1>1, <2>1 DEF EndlessAt, Chunked
    <2>5. QED
      BY <2>2, <2>3, <2>4 DEF Measured
  <1>4. ASSUME Unframed
        PROVE  Measured(h, e, 0)
    <2>1. content_length = CONTENT_LENGTH_UNSET /\ transfer = "unset"
      BY <1>4 DEF Unframed
    <2>2. e = h /\ BodyOf(stream[h].message) = << >>
      BY <1>1, <2>1 DEF Framed
    <2>3. ~EndlessAt(h) /\ ~Chunked
      BY <1>1, <2>1 DEF EndlessAt, Chunked
    <2>4. e = h + 0 /\ ~(h < e)
      BY <1>1, <2>2
    <2>5. << >> = [i \in 1..0 |-> h + i]
      OBVIOUS
    <2>6. QED
      BY <2>2, <2>3, <2>4, <2>5 DEF Measured
  <1>5. QED
    BY <1>3, <1>4

\* The first n bytes in the buffer, when they are the ones behind h.
FrontIs(b, s, n, h) == Window(b, s, s + n) = [i \in 1..n |-> h + i]

\* They are what on_body gets, and the others follow.
LEMMA FrontWindow ==
  ASSUME NEW b, NEW s \in Nat, NEW n \in Nat, NEW h \in Nat, NEW f \in Nat, n <= f - h,
         Holds(b, s, h, f)
  PROVE  FrontIs(b, s, n, h) /\ Holds(b, s + n, h + n, f)
  <1>1. Holds(b, s + n, h + n, f)
    BY HoldsBehind
  <1>2. Window(b, s, s + n) = [i \in 1..n |-> b[s + i - 1]]
    <2>1. (s + n) - s = n
      OBVIOUS
    <2>2. QED
      BY <2>1, Zenon DEF Window
  <1>3. ASSUME NEW i \in 1..n
        PROVE  b[s + i - 1] = h + i
    <2>1. i \in 1..(f - h)
      OBVIOUS
    <2>2. QED
      BY <2>1 DEF Holds
  <1>4. QED
    BY <1>1, <1>2, <1>3 DEF FrontIs

\* Where the bytes behind a body without chunks are.
LEMMA BodyAhead ==
  ASSUME Inv, phase \in {"loop", "feed"}, NEW q, NEW h, NEW e, BodyAt(q, h, e), ~Chunked
  PROVE  /\ Seen = h /\ chunked_offset = 0 /\ decoder = NewDecoder
         /\ h <= fed /\ Length = fed - h /\ Holds(buffer, buffer_start, h, fed)
  <1>1. Seen = h /\ chunked_offset = 0 /\ decoder = NewDecoder
    BY DEF BodyAt, DecodedSoFar
  <1>2. Ahead
    BY DEF BodyAt, Inv, ContentInv
  <1>3. PICK f \in Nat, s \in Nat, l \in Nat, x \in Nat : f = fed /\ s = buffer_start /\ l = Length /\ x = h
    BY Numbers, BodyNumbers
  <1>4. x \in 0..f /\ x = f - (l - 0)
    BY <1>1, <1>2, <1>3 DEF Ahead, Seen
  <1>5. s + 0 = s /\ l = f - x /\ x <= f
    BY <1>4
  <1>6. Holds(buffer, s, x, f)
    BY <1>1, <1>2, <1>3, <1>5 DEF Ahead
  <1>7. QED
    BY <1>1, <1>3, <1>5, <1>6

\* A body is being read.
LEMMA InBody ==
  ASSUME Inv, phase \in {"loop", "feed"}, state = "body"
  PROVE  Ahead /\ \E q, h, e \in Nat : BodyAt(q, h, e)
  <1>1. PICK q, h, e \in 0..Len(stream) : BodyAt(q, h, e)
    BY DEF Inv, ContentInv
  <1>2. QED
    BY <1>1, BodyNumbers DEF Inv, ContentInv

\* _parse_body without chunks
LEMMA BodyWithoutChunksKeeps ==
  ASSUME Inv, BodyWithoutChunks, IInv'
  PROVE  ContentType' /\ ContentInv' /\ SameStream
  <1>1. /\ UNCHANGED <<messages, stream, fed, buffer, connection, decoder>>
        /\ \/ /\ Unframed \/ content_length = 0
              /\ HandOver(0, Length) /\ Call("body", << >>)
           \/ /\ content_length \in 1..Length
              /\ HandOver(content_length, Length - content_length)
              /\ Call("body", Window(buffer, buffer_start, buffer_start'))
    BY DEF BodyWithoutChunks, TakeNoBody, TakeLength
  <1>2. phase = "feed" /\ state = "body" /\ buffer_capacity' = buffer_capacity
    BY <1>1 DEF HandOver, TriesBody
  <1>3. PICK q \in Nat, h \in Nat, e \in Nat : BodyAt(q, h, e)
    BY <1>2, InBody
  <1>4. PICK n \in Nat : /\ Measured(h, e, n) /\ n <= Length
                         /\ HandOver(n, Length - n)
                         /\ n = 0 \/ Call("body", Window(buffer, buffer_start, buffer_start'))
                         /\ n # 0 \/ Call("body", << >>)
    <2>1. CASE (Unframed \/ content_length = 0) /\ HandOver(0, Length) /\ Call("body", << >>)
      <3>1. Length \in Nat /\ Length - 0 = Length /\ 0 <= Length
        BY Numbers
      <3>2. Measured(h, e, 0)
        BY <1>3, <2>1, MeasuredIs
      <3>3. QED
        BY <2>1, <3>1, <3>2
    <2>2. CASE /\ content_length \in 1..Length
               /\ HandOver(content_length, Length - content_length)
               /\ Call("body", Window(buffer, buffer_start, buffer_start'))
      <3>1. content_length \in Nat /\ content_length # 0 /\ content_length <= Length
        BY <2>2, Numbers
      <3>2. Measured(h, e, content_length)
        BY <1>3, <3>1, MeasuredIs
      <3>3. QED
        BY <2>2, <3>1, <3>2
    <2>3. QED
      BY <1>1, <2>1, <2>2
  <1>5. /\ decoder = NewDecoder /\ h <= fed /\ Length = fed - h
        /\ Holds(buffer, buffer_start, h, fed)
    BY <1>2, <1>3, <1>4, BodyAhead DEF Measured
  <1>6. PICK f \in Nat, s \in Nat, t \in Nat :
           /\ f = fed /\ s = buffer_start /\ t = s + n /\ t = buffer_start'
           /\ e = h + n /\ n <= f - h /\ h <= f
    <2>1. buffer_start' = buffer_start + n
      BY <1>4 DEF HandOver
    <2>2. e = h + n
      BY <1>4 DEF Measured
    <2>3. PICK f \in Nat, s \in Nat, l \in Nat : f = fed /\ s = buffer_start /\ l = Length
      BY Numbers
    <2>4. n <= f - h /\ h <= f
      BY <1>4, <1>5, <2>3
    <2>5. s + n \in Nat /\ s + n = buffer_start'
      BY <2>1, <2>3
    <2>6. QED
      BY <2>2, <2>3, <2>4, <2>5
  <1>7. /\ Window(buffer, s, s + n) = [i \in 1..n |-> h + i]
        /\ Holds(buffer, s + n, h + n, f)
    <2>1. n <= f - h /\ Holds(buffer, s, h, f)
      BY <1>5, <1>6
    <2>2. FrontIs(buffer, s, n, h) /\ Holds(buffer, s + n, h + n, f)
      BY <2>1, FrontWindow
    <2>3. QED
      BY <2>2 DEF FrontIs
  <1>8. Call("body", BodyOf(stream[h].message))
    <2>1. BodyOf(stream[h].message) = [i \in 1..n |-> h + i]
      BY <1>4 DEF Measured
    <2>2. CASE n = 0
      <3>1. [i \in 1..n |-> h + i] = << >>
        BY <2>2
      <3>2. QED
        BY <1>4, <2>1, <2>2, <3>1
    <2>3. CASE n # 0
      BY <1>4, <1>6, <1>7, <2>1, <2>3
    <2>4. QED
      BY <2>2, <2>3
  <1>9. e <= fed /\ Length - n = fed - e /\ Holds(buffer', t, e, fed)
    BY <1>1, <1>5, <1>6, <1>7
  <1>10. ~EndlessAt(h) /\ (h < e => stream[e].is # "bad") /\ decoder' = NewDecoder
    BY <1>1, <1>4, <1>5 DEF Measured, NewDecoder
  <1>11. ContentInv' /\ SameStream
    BY <1>1, <1>2, <1>3, <1>4, <1>6, <1>8, <1>9, <1>10, BodyDone
  <1>12. ContentType'
    BY <1>1, <1>2 DEF Inv, ContentType
  <1>13. QED
    BY <1>11, <1>12

-----------------------------------------------------------------------------
(* A body of which not enough arrived *)

\* _parse_body: -2, without chunks
LEMMA BodyIncompleteKeeps ==
  ASSUME Inv, BodyIncomplete
  PROVE  ContentType' /\ ContentInv' /\ SameStream
  <1>1. OnlyPhase /\ phase = "feed" /\ state = "body" /\ phase' = "loop"
        /\ IF content_length = CONTENT_LENGTH_UNSET THEN transfer = "identity"
           ELSE content_length > Length
    BY DEF BodyIncomplete, TriesBody, Wait, OnlyPhase
  <1>2. PICK q \in Nat, h \in Nat, e \in Nat : BodyAt(q, h, e)
    BY <1>1, InBody
  <1>3. fed < e \/ EndlessAt(h)
    <2>1. CASE content_length = CONTENT_LENGTH_UNSET
      <3>1. /\ messages[stream[h].message].transfer = "identity"
            /\ messages[stream[h].message].length = CONTENT_LENGTH_UNSET
        BY <1>1, <1>2, <2>1 DEF BodyAt, Announced
      <3>2. e = h
        <4>1. Framed(h, e, stream[h].message)
          BY <1>2, BodyNumbers
        <4>2. QED
          BY <3>1, <4>1 DEF Framed
      <3>3. LastOf(e)
        BY <1>2, BodyNumbers DEF Piece
      <3>4. QED
        BY <3>1, <3>2, <3>3 DEF EndlessAt
    <2>2. CASE content_length # CONTENT_LENGTH_UNSET
      <3>1. content_length \in Nat
        BY <2>2, BufferAssumption DEF Inv, IInv, BufferTypeOK, ContentLengths
      <3>2. Measured(h, e, content_length)
        BY <1>2, <3>1, MeasuredIs
      <3>3. Length = fed - h /\ e = h + content_length
        BY <1>1, <1>2, <3>2, BodyAhead DEF Measured
      <3>4. PICK f \in Nat, l \in Nat : f = fed /\ l = Length
        BY Numbers
      <3>5. QED
        BY <1>1, <2>2, <3>1, <3>3, <3>4
    <2>3. QED
      BY <2>1, <2>2
  <1>4. BodyAt(q, h, e)'
    BY <1>1, <1>2, <1>3, BodyFrame
  <1>5. q \in 0..Len(stream') /\ h \in 0..Len(stream') /\ e \in 0..Len(stream')
    <2>1. q < h /\ h <= e /\ e <= Len(stream)
      BY <1>2, BodyNumbers
    <2>2. Len(stream) \in Nat
      BY Numbers
    <2>3. q \in 0..Len(stream) /\ h \in 0..Len(stream) /\ e \in 0..Len(stream)
      BY <2>1, <2>2
    <2>4. QED
      BY <1>1, <2>3, PhaseFrame DEF SameStream
  <1>6. ContentType' /\ Ahead' /\ SameStream /\ state' = state
    BY <1>1, PhaseFrame DEF Inv, ContentInv
  <1>7. QED
    BY <1>1, <1>4, <1>5, <1>6 DEF ContentInv

-----------------------------------------------------------------------------
(* Bodies in chunks *)

\* w is the last byte of the body looked at so far, and d what the decoder makes
\* of the bytes in the buffer.
ChunksAt(q, h, e, w, d) ==
  /\ BodyAt(q, h, e)
  /\ ChunkedAt(stream[h].message, messages[stream[h].message], h, e)
  /\ messages[stream[h].message].invalid # "body" =>
       BodyOf(stream[h].message) = Whole(h, e).out
  /\ w = Seen /\ h <= w /\ w < e /\ w <= fed
  /\ Window(buffer, buffer_start, buffer_start + chunked_offset) = Whole(h, w).out
  /\ Whole(h, w).out \in Seq(Nat)
  /\ Continues(d, h, w, fed)
  /\ fed < e => d.state \in Going /\ d.rest = << >>
  /\ e <= fed => /\ d.state = Whole(h, e).state /\ d.state \in Stopped
                 /\ d.rest = From(e, fed) /\ Whole(h, fed).out = Whole(h, e).out

\* phr_decode_chunked goes on where it stopped.
LEMMA ChunksDecoded ==
  ASSUME Inv, phase = "feed", state = "body", Chunked
  PROVE  \E q, h, e, w \in Nat : ChunksAt(q, h, e, w, Decoded)
  <1>1. PICK q \in Nat, h \in Nat, e \in Nat : BodyAt(q, h, e)
    BY InBody
  <1>2. Ahead /\ stream \in Seq(Bytes) /\ e <= Len(stream) /\ h <= e
    BY <1>1, InBody, BodyNumbers
  <1>3. PICK k, m : k = stream[h].message /\ m = messages[k]
    OBVIOUS
  <1>4. /\ m.length = CONTENT_LENGTH_UNSET /\ m.transfer = "chunked"
    BY <1>1, <1>3 DEF BodyAt, Announced, Chunked
  <1>5. /\ ChunkedAt(k, m, h, e)
        /\ m.invalid # "body" => BodyOf(k) = Whole(h, e).out
    <2>1. Framed(h, e, k)
      BY <1>1, <1>3, BodyNumbers
    <2>2. QED
      BY <1>3, <1>4, <2>1 DEF Framed
  <1>6. PICK w \in Nat : /\ w = Seen /\ h <= w /\ w < e /\ decoder = Kept(Whole(h, w))
                         /\ Window(buffer, buffer_start, buffer_start + chunked_offset)
                              = Whole(h, w).out
    <2>1. /\ h <= Seen /\ Seen < e /\ decoder = Kept(Whole(h, Seen))
          /\ Window(buffer, buffer_start, buffer_start + chunked_offset) = Whole(h, Seen).out
      BY <1>1 DEF BodyAt, DecodedSoFar
    <2>2. Seen \in Nat
      BY <1>2, Numbers DEF Ahead
    <2>3. QED
      BY <2>1, <2>2
  <1>7. PICK f \in Nat, x \in Nat, z \in Nat :
           /\ f = fed /\ x = buffer_start + chunked_offset /\ z = buffer_end
           /\ f <= Len(stream) /\ w <= f /\ z - x = f - w
    <2>1. PICK f \in Nat, s \in Nat, o \in Nat, z \in Nat, l \in Nat :
             /\ f = fed /\ s = buffer_start /\ o = chunked_offset /\ z = buffer_end
             /\ l = Length /\ l = z - s /\ f <= Len(stream)
      BY Numbers
    <2>2. w = f - (l - o) /\ w \in 0..f
      BY <1>2, <1>6, <2>1 DEF Ahead, Seen
    <2>3. w <= f /\ z - (s + o) = f - w
      BY <2>1, <2>2
    <2>4. QED
      BY <2>1, <2>3
  <1>8. Holds(buffer, x, w, f)
    BY <1>2, <1>6, <1>7 DEF Ahead
  <1>9. Spans(buffer, x, z, w, f)
    BY <1>7, <1>8, WindowHolds
  <1>10. w \in h..Len(stream) /\ f \in w..Len(stream) /\ e \in h..Len(stream)
    <2>1. Len(stream) \in Nat
      BY Numbers
    <2>2. QED
      BY <1>2, <1>6, <1>7, <2>1
  <1>11. Whole(h, w).rest = << >>
    <2>1. w \in h..(e - 1)
      BY <1>6
    <2>2. QED
      BY <1>5, <2>1 DEF ChunkedAt, Within
  <1>12. Window(buffer, buffer_start + chunked_offset, buffer_end) = From(w, f)
    BY <1>7, <1>9 DEF Spans
  <1>13. Continues(Decoded, h, w, f)
    BY <1>2, <1>6, <1>10, <1>11, <1>12, DecodedIs
  <1>14. Whole(h, w).out \in Seq(Nat)
    <2>1. Whole(h, w) \in Decoders
      BY <1>2, <1>10, WholeType
    <2>2. QED
      BY <2>1 DEF Decoders
  <1>15. ASSUME f < e
         PROVE  Decoded.state \in Going /\ Decoded.rest = << >>
    <2>1. f \in h..(e - 1)
      BY <1>6, <1>7, <1>15
    <2>2. Whole(h, f).state \in Going /\ Whole(h, f).rest = << >>
      BY <1>5, <2>1 DEF ChunkedAt, Within
    <2>3. QED
      BY <1>13, <2>2 DEF Continues
  <1>16. ASSUME e <= f
         PROVE  /\ Decoded.state = Whole(h, e).state /\ Decoded.state \in Stopped
                /\ Decoded.rest = From(e, f) /\ Whole(h, f).out = Whole(h, e).out
    <2>1. Whole(h, e).state \in Stopped /\ Whole(h, e).rest = << >>
      BY <1>5 DEF ChunkedAt, Stopped
    <2>2. f \in e..Len(stream)
      BY <1>10, <1>16
    <2>3. /\ Whole(h, f).state = Whole(h, e).state
          /\ Whole(h, f).out = Whole(h, e).out
          /\ Whole(h, f).rest = From(e, f)
      BY <1>2, <1>10, <2>1, <2>2, DecodeBeyond DEF From
    <2>4. QED
      BY <1>13, <2>1, <2>3 DEF Continues
  <1>17. ChunksAt(q, h, e, w, Decoded)
    BY <1>1, <1>3, <1>5, <1>6, <1>7, <1>13, <1>14, <1>15, <1>16 DEF ChunksAt
  <1>18. QED
    BY <1>17

\* How a body in chunks goes on.
LEMMA ChunksEnd ==
  ASSUME Inv, NEW q, NEW h, NEW e, NEW w, NEW d, ChunksAt(q, h, e, w, d)
  PROVE  /\ h < e /\ ~EndlessAt(h)
         /\ d.state \in Going \/ d.state \in Stopped
         /\ d.state \notin Stopped => fed < e /\ d.rest = << >>
         /\ d.state \in Stopped => e <= fed
         /\ d.state = "complete" => /\ stream[e].is # "bad"
                                   /\ BodyOf(stream[h].message) = Whole(h, fed).out
                                   /\ d.rest = From(e, fed)
         /\ d.state = "malformed" => stream[e].is = "bad"
  <1>1. e \in Nat /\ fed \in Nat /\ Piece(q, h, e) /\ StreamOK
    BY BodyNumbers, Numbers DEF ChunksAt
  <1>2. fed < e \/ e <= fed
    BY <1>1
  <1>3. Going \cap Stopped = {}
    BY DEF Going, Stopped
  <1>4. d.state \in Going \/ d.state \in Stopped
    BY DEF ChunksAt, Continues
  <1>5. h < e /\ ~EndlessAt(h)
    BY <1>1, HeadLast DEF ChunksAt, ChunkedAt
  <1>6. ASSUME e <= fed
        PROVE  /\ d.state = "complete" => /\ stream[e].is # "bad"
                                         /\ BodyOf(stream[h].message) = Whole(h, fed).out
                                         /\ d.rest = From(e, fed)
               /\ d.state = "malformed" => stream[e].is = "bad"
    BY <1>6 DEF ChunksAt, ChunkedAt
  <1>7. d.state \in Stopped => e <= fed
    BY <1>2, <1>3 DEF ChunksAt
  <1>8. d.state \notin Stopped => fed < e /\ d.rest = << >>
    BY <1>2 DEF ChunksAt
  <1>9. "complete" \in Stopped /\ "malformed" \in Stopped
    BY DEF Stopped
  <1>10. QED
    BY <1>4, <1>5, <1>6, <1>7, <1>8, <1>9

\* What it decodes and what follows the body take no more room than there was.
DecoderKeepsWithin ==
  TriesBody /\ Chunked => Decodes(Len(Decoded.out), Len(Decoded.rest))

LEMMA DecodedFits ==
  ASSUME Inv
  PROVE  DecoderKeepsWithin
  <1> SUFFICES ASSUME phase = "feed", state = "body", Chunked
               PROVE  Decodes(Len(Decoded.out), Len(Decoded.rest))
    BY DEF DecoderKeepsWithin, TriesBody
  <1>1. PICK d : d = Decoded
    OBVIOUS
  <1>2. PICK q \in Nat, h \in Nat, e \in Nat, w \in Nat : ChunksAt(q, h, e, w, d)
    BY <1>1, ChunksDecoded
  <1>3. PICK f \in Nat, o \in Nat, l \in Nat, n \in Nat :
           f = fed /\ o = chunked_offset /\ l = Length /\ n = Len(stream) /\ f <= n
    BY Numbers
  <1>4. w = f - (l - o) /\ h <= w /\ w < e /\ w <= f
    BY <1>2, <1>3 DEF ChunksAt, Seen
  <1>5. e <= n /\ stream \in Seq(Bytes)
    BY <1>2, <1>3, InBody, BodyNumbers DEF ChunksAt
  <1>6. /\ d.out \in Seq(Nat) /\ d.rest \in Seq(Nat) /\ Whole(h, w).out \in Seq(Nat)
        /\ Whole(h, f).out = Whole(h, w).out \o d.out
    BY <1>2, <1>3 DEF ChunksAt, Continues
  <1>7. PICK u \in Nat, v \in Nat, x \in Nat :
           u = Len(d.out) /\ v = Len(d.rest) /\ x = Len(Whole(h, w).out)
    BY <1>6
  <1>8. Len(Whole(h, f).out) = x + u
    BY <1>6, <1>7
  <1>9. CASE f < e
    <2>1. v = 0
      BY <1>2, <1>3, <1>7, <1>9 DEF ChunksAt
    <2>2. PICK k \in Nat : k = f - w /\ w + k = f /\ w + k <= Len(stream)
      BY <1>3, <1>4
    <2>3. Len(Whole(h, w + k).out) <= Len(Whole(h, w).out) + k
      BY <1>4, <1>5, <2>2, DecodesNoMore
    <2>4. x + u <= x + k
      BY <1>7, <1>8, <2>2, <2>3
    <2>5. u + v <= l - o
      BY <1>4, <2>1, <2>2, <2>4
    <2>6. QED
      BY <1>1, <1>3, <1>7, <2>5 DEF Decodes
  <1>10. CASE e <= f
    <2>1. d.rest = From(e, f) /\ Whole(h, f).out = Whole(h, e).out
      BY <1>2, <1>3, <1>10 DEF ChunksAt
    <2>2. v = f - e
      BY <1>7, <1>10, <2>1 DEF From
    <2>3. PICK k \in Nat : k = e - w /\ w + k = e /\ w + k <= Len(stream)
      BY <1>3, <1>4, <1>5
    <2>4. Len(Whole(h, w + k).out) <= Len(Whole(h, w).out) + k
      BY <1>4, <1>5, <2>3, DecodesNoMore
    <2>5. x + u <= x + k
      BY <1>7, <1>8, <2>1, <2>3, <2>4
    <2>6. u + v <= l - o
      BY <1>4, <2>2, <2>3, <2>5
    <2>7. QED
      BY <1>1, <1>3, <1>7, <2>6 DEF Decodes
  <1>11. QED
    BY <1>3, <1>9, <1>10

\* The decoded bytes and those behind them, where phr_decode_chunked leaves them.
Moved(b, h, e, d) ==
  /\ b \in [0..(buffer_capacity - 1) -> 0..fed]
  /\ Window(b, buffer_start, buffer_start + (chunked_offset + Len(d.out))) = Whole(h, fed).out
  /\ d.rest = From(e, fed) => Holds(b, buffer_start + (chunked_offset + Len(d.out)), e, fed)

\* There is room for what it leaves.
LEMMA RoomBehind ==
  ASSUME NEW c \in Nat, NEW s \in Nat, NEW o \in Nat, NEW z \in Nat, NEW l \in Nat,
         NEW u \in Nat, NEW v \in Nat, l = z - s, z <= c, u + v <= l - o
  PROVE  \E a \in Nat : a = s + o /\ a + (u + v) <= c /\ a + u = s + (o + u)
  <1>1. s + o \in Nat /\ (s + o) + (u + v) <= c /\ (s + o) + u = s + (o + u)
    OBVIOUS
  <1>2. WITNESS s + o \in Nat
  <1>3. QED
    BY <1>1

\* It leaves them in order.
LEMMA ChunksMoved ==
  ASSUME Inv, NEW q \in Nat, NEW h \in Nat, NEW e \in Nat, NEW w \in Nat, NEW d,
         ChunksAt(q, h, e, w, d), Decodes(Len(d.out), Len(d.rest)), phase = "feed"
  PROVE  Moved(DecodedInPlace(d), h, e, d)
  <1>1. PICK c \in Nat, f \in Nat, s \in Nat, o \in Nat, z \in Nat, l \in Nat :
           /\ c = buffer_capacity /\ f = fed /\ s = buffer_start /\ o = chunked_offset
           /\ z = buffer_end /\ l = Length /\ l = z - s /\ z <= c
    BY Numbers
  <1>2. d.out \in Seq(Nat) /\ d.rest \in Seq(Nat) /\ UpTo(d.out, f) /\ UpTo(d.rest, f)
        /\ Whole(h, f).out = Whole(h, w).out \o d.out
    BY <1>1 DEF ChunksAt, Continues
  <1>3. PICK u \in Nat, v \in Nat : u = Len(d.out) /\ v = Len(d.rest)
    <2>1. d.out \in Seq(Nat) /\ d.rest \in Seq(Nat)
      BY <1>2
    <2>2. Len(d.out) \in Nat /\ Len(d.rest) \in Nat
      BY <2>1
    <2>3. QED
      BY <2>2
  <1>4. u + v <= l - o
    BY <1>1, <1>3 DEF Decodes
  <1>5. PICK a \in Nat : a = s + o /\ a + (u + v) <= c /\ a + u = s + (o + u)
    BY <1>1, <1>4, RoomBehind
  <1>6. Fits(a, d, c)
    BY <1>3, <1>5 DEF Fits
  <1>7. buffer \in [0..(c - 1) -> 0..f]
    BY <1>1 DEF Inv, ContentType
  <1>8. PICK b : b = DecodedInPlace(d)
    OBVIOUS
  <1>9. b \in [0..(c - 1) -> 0..f] /\ InPlace(b, a, d)
    <2>1. a = buffer_start + chunked_offset
      BY <1>1, <1>5
    <2>2. QED
      BY <1>2, <1>6, <1>7, <1>8, <2>1, MovedIs
  <1>10. Window(buffer, s, a) = Whole(h, w).out /\ Window(buffer, s, a) \in Seq(Nat)
    BY <1>1, <1>5 DEF ChunksAt
  <1>11. s <= a
    BY <1>5
  <1>12. InOrder(b, s, a, d, Window(buffer, s, a))
    BY <1>2, <1>9, <1>10, <1>11, MovedHolds
  <1>13. buffer_start + (chunked_offset + Len(d.out)) = a + u
    BY <1>1, <1>3, <1>5
  <1>14. /\ Window(b, s, a + u) = Whole(h, f).out
         /\ d.rest = From(e, f) => Holds(b, a + u, e, f)
    BY <1>2, <1>3, <1>10, <1>12, <1>1 DEF InOrder
  <1>15. QED
    BY <1>1, <1>8, <1>9, <1>13, <1>14 DEF Moved

\* _parse_body: -2, in chunks
LEMMA ChunksIncompleteKeeps ==
  ASSUME Inv, ChunksIncomplete, IInv'
  PROVE  ContentType' /\ ContentInv' /\ SameStream
  <1>1. PICK d : /\ d = Decoded /\ d.state \notin {"complete", "malformed"}
                 /\ WaitForChunks(Len(d.out)) /\ buffer' = DecodedInPlace(d)
                 /\ decoder' = [state |-> d.state, digits |-> d.digits, left |-> d.left]
                 /\ UNCHANGED <<messages, stream, fed, connection, events>>
    BY DEF ChunksIncomplete
  <1>2. /\ phase = "feed" /\ state = "body" /\ Chunked /\ Decodes(Len(d.out), 0)
        /\ chunked_offset' = chunked_offset + Len(d.out)
        /\ buffer_end' = buffer_start + chunked_offset' /\ phase' = "loop"
        /\ UNCHANGED <<state, transfer, content_length, buffer_start, buffer_capacity>>
    BY <1>1 DEF WaitForChunks, TriesBody
  <1>3. PICK q \in Nat, h \in Nat, e \in Nat, w \in Nat : ChunksAt(q, h, e, w, d)
    BY <1>1, <1>2, ChunksDecoded
  <1>4. SameStream
    BY <1>1 DEF SameStream
  <1>5. d.state \in Going /\ fed < e /\ d.rest = << >>
    BY <1>1, <1>3, ChunksEnd DEF Stopped
  <1>6. PICK f \in Nat, s \in Nat, o \in Nat, u \in Nat, y \in Nat :
           /\ f = fed /\ s = buffer_start /\ o = chunked_offset /\ u = Len(d.out)
           /\ y = s + (o + u)
    <2>1. d.out \in Seq(Nat)
      BY <1>3 DEF ChunksAt, Continues
    <2>2. QED
      BY <2>1, Numbers
  <1>7. Decodes(Len(d.out), Len(d.rest))
    BY <1>2, <1>5
  <1>8. /\ buffer' \in [0..(buffer_capacity - 1) -> 0..fed]
        /\ Window(buffer', s, y) = Whole(h, f).out
    <2>1. Moved(DecodedInPlace(d), h, e, d)
      BY <1>2, <1>3, <1>7, ChunksMoved
    <2>2. QED
      BY <1>1, <1>6, <2>1 DEF Moved
  <1>9. buffer_start' = s /\ chunked_offset' = o + u /\ buffer_end' = y
    BY <1>2, <1>6
  <1>10. Seen' = f
    <2>1. Length' = y - s
      BY <1>9 DEF Length
    <2>2. Seen' = f - ((y - s) - (o + u))
      BY <1>1, <1>6, <1>9, <2>1 DEF Seen
    <2>3. QED
      BY <1>6, <2>2
  <1>11. Ahead'
    <2>1. f \in 0..f /\ Holds(buffer', buffer_start' + chunked_offset', f, f)
      BY HoldsNone
    <2>2. Seen' \in 0..fed' /\ Holds(buffer', buffer_start' + chunked_offset', Seen', fed')
      BY <1>1, <1>6, <1>10, <2>1
    <2>3. QED
      BY <2>2 DEF Ahead, Holds
  <1>12. /\ BodyAt(q, h, e) /\ h <= fed
         /\ d.state = Whole(h, fed).state /\ d.digits = Whole(h, fed).digits
         /\ d.left = Whole(h, fed).left
         /\ d.digits \in BOOLEAN /\ d.left \in Nat
    BY <1>3, Numbers DEF ChunksAt, Continues
  <1>13. ContentType'
    <2>1. decoder'.left \in Nat /\ decoder'.digits \in BOOLEAN /\ decoder'.state \in Going
      BY <1>1, <1>5, <1>12
    <2>2. QED
      BY <1>1, <1>2, <1>8, <2>1 DEF Inv, ContentType
  <1>14. DecodedSoFar(h, e)'
    <2>1. Chunked'
      BY <1>2 DEF Chunked
    <2>2. decoder' = Kept(Whole(h, f))
      BY <1>1, <1>6, <1>12 DEF Kept
    <2>3. Window(buffer', buffer_start', buffer_start' + chunked_offset') = Whole(h, f).out
      BY <1>6, <1>8, <1>9
    <2>4. Window(buffer, buffer_start, buffer_start + chunked_offset)'
            = Window(buffer', buffer_start', buffer_start' + chunked_offset')
      BY DEF Window
    <2>5. Whole(h, f)' = Whole(h, f) /\ Whole(h, Seen)' = Whole(h, f)
      BY <1>4, <1>10, SameWhole
    <2>6. h <= Seen' /\ Seen' < e
      BY <1>5, <1>6, <1>10, <1>12
    <2>7. QED
      BY <2>1, <2>2, <2>3, <2>4, <2>5, <2>6 DEF DecodedSoFar, Kept
  <1>15. BodyAt(q, h, e)'
    <2>1. HeadDone(q, h, e)'
      BY <1>4, <1>12, SameStops, SamePiece, SameStreamOK DEF BodyAt, HeadDone
    <2>2. Announced(h)'
      BY <1>1, <1>2, <1>12 DEF BodyAt, Announced
    <2>3. Opened(h)' = Opened(h)
      BY <1>4, SameReference DEF Opened, HeadersCall
    <2>4. QED
      BY <1>1, <1>2, <1>5, <1>12, <1>14, <2>1, <2>2, <2>3 DEF BodyAt
  <1>16. q \in 0..Len(stream') /\ h \in 0..Len(stream') /\ e \in 0..Len(stream')
    <2>1. q < h /\ h <= e /\ e <= Len(stream)
      BY <1>12, BodyNumbers
    <2>2. Len(stream) \in Nat
      BY Numbers
    <2>3. q \in 0..Len(stream) /\ h \in 0..Len(stream) /\ e \in 0..Len(stream)
      BY <2>1, <2>2
    <2>4. QED
      BY <1>1, <2>3
  <1>17. ContentInv'
    BY <1>2, <1>11, <1>15, <1>16 DEF ContentInv
  <1>18. QED
    BY <1>4, <1>13, <1>17

\* _parse_body: on_body gets what the chunks held
LEMMA BodyChunksKeeps ==
  ASSUME Inv, BodyChunks, IInv'
  PROVE  ContentType' /\ ContentInv' /\ SameStream
  <1>1. PICK d : /\ d = Decoded /\ d.state = "complete"
                 /\ TakeChunks(Len(d.out), Len(d.rest)) /\ buffer' = DecodedInPlace(d)
                 /\ decoder' = NewDecoder
                 /\ Call("body", Window(buffer', buffer_start, buffer_start'))
                 /\ UNCHANGED <<messages, stream, fed, connection>>
    BY DEF BodyChunks
  <1>2. /\ Chunked /\ Decodes(Len(d.out), Len(d.rest))
        /\ HandOver(chunked_offset + Len(d.out), Len(d.rest))
        /\ phase = "feed" /\ state = "body"
        /\ buffer_start' = buffer_start + (chunked_offset + Len(d.out))
        /\ buffer_capacity' = buffer_capacity
    BY <1>1 DEF TakeChunks, HandOver, TriesBody
  <1>3. PICK q \in Nat, h \in Nat, e \in Nat, w \in Nat : ChunksAt(q, h, e, w, d)
    BY <1>1, <1>2, ChunksDecoded
  <1>4. /\ BodyAt(q, h, e) /\ h < e /\ ~EndlessAt(h) /\ e <= fed
        /\ stream[e].is # "bad" /\ BodyOf(stream[h].message) = Whole(h, fed).out
        /\ d.rest = From(e, fed)
    <2>1. d.state \in Stopped
      BY <1>1 DEF Stopped
    <2>2. BodyAt(q, h, e)
      BY <1>3 DEF ChunksAt
    <2>3. QED
      BY <1>1, <1>3, <2>1, <2>2, ChunksEnd
  <1>5. PICK f \in Nat, u \in Nat, y \in Nat :
           /\ f = fed /\ u = Len(d.out) /\ y = buffer_start + (chunked_offset + u)
    <2>1. d.out \in Seq(Nat)
      BY <1>3 DEF ChunksAt, Continues
    <2>2. QED
      BY <2>1, Numbers
  <1>6. y = buffer_start'
    BY <1>2, <1>5
  <1>7. /\ buffer' \in [0..(buffer_capacity - 1) -> 0..fed]
        /\ Window(buffer', buffer_start, y) = Whole(h, fed).out
        /\ Holds(buffer', y, e, fed)
    <2>1. Moved(DecodedInPlace(d), h, e, d)
      BY <1>2, <1>3, ChunksMoved
    <2>2. QED
      BY <1>1, <1>4, <1>5, <2>1 DEF Moved
  <1>8. Call("body", BodyOf(stream[h].message))
    BY <1>1, <1>4, <1>6, <1>7
  <1>9. Len(d.rest) = fed - e
    <2>1. Len(From(e, f)) = f - e
      BY <1>4, <1>5 DEF From
    <2>2. QED
      BY <1>4, <1>5, <2>1
  <1>10. ContentInv' /\ SameStream
    BY <1>1, <1>2, <1>4, <1>6, <1>7, <1>8, <1>9, BodyDone
  <1>11. ContentType'
    BY <1>1, <1>2, <1>7 DEF Inv, ContentType, NewDecoder, Going
  <1>12. QED
    BY <1>10, <1>11

\* malformed_body
LEMMA BodyFailsKeeps ==
  ASSUME Inv, BodyFails
  PROVE  ContentType' /\ ContentInv' /\ SameStream
  <1>1. /\ phase = "feed" /\ state = "body" /\ Chunked /\ Decoded.state = "malformed"
        /\ Fail /\ Call("error", << >>) /\ connection' = "unset" /\ decoder' = NewDecoder
        /\ UNCHANGED <<messages, stream, fed, buffer>>
    BY DEF BodyFails, TriesBody
  <1>2. PICK d : d = Decoded
    OBVIOUS
  <1>3. PICK q \in Nat, h \in Nat, e \in Nat, w \in Nat : ChunksAt(q, h, e, w, d)
    BY <1>1, <1>2, ChunksDecoded
  <1>4. h < e /\ e <= fed /\ stream[e].is = "bad"
    BY <1>1, <1>2, <1>3, ChunksEnd DEF Stopped
  <1>5. HeadDone(q, h, e) /\ events = Opened(h)
    BY <1>3 DEF ChunksAt, BodyAt
  <1>6. PICK f \in Nat : f = fed
    BY Numbers
  <1>7. StopsAt(f) # 0 /\ WrongAt(StopsAt(f)) /\ Reference(f) = Append(Opened(h), ErrorCall)
    BY <1>4, <1>5, <1>6, PieceBroken
  <1>8. QED
    BY <1>1, <1>5, <1>6, <1>7, FailKeeps

-----------------------------------------------------------------------------
(* The invariant holds *)

\* Nothing arrived yet.
LEMMA InitInv ==
  ASSUME Parser_init, IInv
  PROVE  Inv
  <1>1. StreamOK
    BY StreamBegins
  <1>2. /\ phase = "loop" /\ state = "headers" /\ chunked_offset = 0
        /\ buffer_start = 0 /\ buffer_end = 0 /\ buffer_capacity = PARSER_INITIAL_BUFFER_SIZE
        /\ fed = 0 /\ events = << >> /\ connection = "unset" /\ decoder = NewDecoder
        /\ buffer = [i \in 0..(PARSER_INITIAL_BUFFER_SIZE - 1) |-> 0]
    BY DEF Parser_init, BufferInit
  <1>3. Len(stream) \in Nat
    BY <1>1 DEF StreamOK
  <1>4. ContentType
    <2>1. buffer \in [0..(buffer_capacity - 1) -> 0..fed]
      BY <1>2
    <2>2. fed \in 0..Len(stream)
      BY <1>2, <1>3
    <2>3. QED
      BY <1>2, <2>1, <2>2 DEF ContentType, NewDecoder, Going
  <1>5. Seen = 0
    BY <1>2 DEF Seen, Length
  <1>6. Ahead
    BY <1>2, <1>5, HoldsNone DEF Ahead
  <1>7. Quiet(0) /\ Reference(0) = << >>
    <2>1. Quiet(0)
      BY DEF Quiet
    <2>2. Upto(0) = << >>
      BY UptoStep
    <2>3. QED
      BY <2>1, <2>2, QuietReference
  <1>8. HeadersAt(0)
    <2>1. Boundary(0) /\ ~PriorClose(0)
      BY DEF Boundary, PriorClose
    <2>2. \A p \in (0 + 1)..fed : stream[p].is = "head"
      BY <1>2
    <2>3. QED
      BY <1>2, <1>5, <1>7, <2>1, <2>2 DEF HeadersAt
  <1>9. ContentInv
    BY <1>2, <1>3, <1>6, <1>8 DEF ContentInv
  <1>10. QED
    BY <1>1, <1>4, <1>9 DEF Inv

\* Parser_feed_disconnect
LEMMA DisconnectKeeps ==
  ASSUME Inv, Parser_feed_disconnect
  PROVE  ContentType' /\ ContentInv' /\ SameStream
  <1>1. /\ phase' = "gone" /\ buffer_capacity' = buffer_capacity
        /\ connection' = "unset" /\ decoder' = NewDecoder
        /\ UNCHANGED <<messages, stream, fed, buffer>>
    BY DEF Parser_feed_disconnect, Disconnect, ResetAll
  <1>2. QED
    BY <1>1 DEF Inv, ContentType, ContentInv, SameStream, NewDecoder, Going

\* Nothing happens.
LEMMA StutterKeeps ==
  ASSUME Inv, UNCHANGED vars
  PROVE  ContentType' /\ ContentInv' /\ SameStream
  <1>1. OnlyPhase /\ phase' = phase
    BY DEF vars, buffer_vars, OnlyPhase
  <1>2. /\ SameStream /\ Length' = Length /\ Seen' = Seen /\ ContentType'
        /\ UNCHANGED <<fed, buffer, connection, decoder, events, state,
                       transfer, content_length, chunked_offset,
                       buffer_start, buffer_end, buffer_capacity>>
        /\ Ahead => Ahead'
    BY <1>1, PhaseFrame DEF Inv
  <1>3. ASSUME NEW q, HeadersAt(q)
        PROVE  HeadersAt(q)'
    <2>1. PriorClose(q)' <=> PriorClose(q)
      BY <1>2 DEF PriorClose, SameStream
    <2>2. QED
      BY <1>1, <1>2, <1>3, <2>1, SameStops, SameReference DEF HeadersAt, SameStream, NewDecoder
  <1>4. ASSUME NEW q, NEW h, NEW e, BodyAt(q, h, e)
        PROVE  BodyAt(q, h, e)'
    <2>1. HeadDone(q, h, e)'
      BY <1>2, <1>4, SameStops, SamePiece, SameStreamOK DEF BodyAt, HeadDone
    <2>2. Announced(h)'
      BY <1>2, <1>4 DEF BodyAt, Announced, SameStream
    <2>3. DecodedSoFar(h, e)'
      BY <1>2, <1>4, SameWhole DEF BodyAt, DecodedSoFar, Chunked, Kept, NewDecoder, Window
    <2>4. Opened(h)' = Opened(h)
      BY <1>2, SameReference DEF Opened, HeadersCall
    <2>5. EndlessAt(h)' <=> EndlessAt(h)
      BY <1>2, SameStops
    <2>6. QED
      BY <1>1, <1>2, <1>4, <2>1, <2>2, <2>3, <2>4, <2>5 DEF BodyAt
  <1>5. Refused => Refused'
    BY <1>2, SameStops, SameReference DEF Refused
  <1>6. ContentInv'
    BY <1>1, <1>2, <1>3, <1>4, <1>5 DEF Inv, ContentInv, SameStream
  <1>7. QED
    BY <1>2, <1>6

\* Every step keeps the invariant.
LEMMA InvStep == Inv /\ [Next]_vars /\ IInv' => Inv'
  <1> SUFFICES ASSUME Inv, [Next]_vars, IInv'
               PROVE  Inv'
    OBVIOUS
  <1>1. ContentType' /\ ContentInv' /\ SameStream
    <2>1. CASE Parser_feed
      BY <2>1, FeedKeeps
    <2>2. CASE ParseHeaders
      BY <2>2, ParseHeadersKeeps
    <2>3. CASE HeadersIncomplete
      BY <2>3, HeadersIncompleteKeeps
    <2>4. CASE HeadersFail
      BY <2>4, HeadersFailKeeps
    <2>5. CASE BodyWithoutChunks
      BY <2>5, BodyWithoutChunksKeeps
    <2>6. CASE BodyChunks
      BY <2>6, BodyChunksKeeps
    <2>7. CASE BodyIncomplete
      BY <2>7, BodyIncompleteKeeps
    <2>8. CASE ChunksIncomplete
      BY <2>8, ChunksIncompleteKeeps
    <2>9. CASE BodyFails
      BY <2>9, BodyFailsKeeps
    <2>10. CASE ReturnFromFeed
      BY <2>10, ReturnKeeps
    <2>11. CASE Parser_feed_disconnect
      BY <2>11, DisconnectKeeps
    <2>12. CASE Gone \/ UNCHANGED vars
      BY <2>12, StutterKeeps DEF Gone
    <2>13. QED
      BY <2>1, <2>2, <2>3, <2>4, <2>5, <2>6, <2>7, <2>8, <2>9, <2>10, <2>11, <2>12 DEF Next
  <1>2. StreamOK'
    BY <1>1, SameStreamOK DEF Inv
  <1>3. QED
    BY <1>1, <1>2 DEF Inv

-----------------------------------------------------------------------------
(* What the protocol was told when the event loop has control *)

\* The calls of the bytes so far in one piece; a message is cut exactly when the
\* parser waits for the rest of it.
Told == /\ events = Reference(fed)
        /\ CutShort(fed) <=> state = "body" \/ Length # 0

\* The parser waits between two messages or for the rest of a head.
LEMMA ToldInHead ==
  ASSUME Inv, phase = "loop", state = "headers"
  PROVE  Told
  <1>1. PICK q \in Nat : HeadersAt(q) /\ q <= fed /\ fed - q = Length
    BY BetweenMessages
  <1>2. PICK f \in Nat : f = fed
    BY Numbers
  <1>3. Boundary(q) /\ Quiet(q) /\ events = Reference(q) /\ StreamOK
    BY <1>1 DEF HeadersAt, Inv
  <1>4. CASE q = f
    <2>1. Length = 0
      BY <1>1, <1>2, <1>4
    <2>2. StopsAt(f) = 0
      BY <1>3, <1>4, QuietReference
    <2>3. f = 0 \/ LastOf(f)
      BY <1>3, <1>4 DEF Boundary
    <2>4. ~CutShort(f)
      BY <2>2, <2>3 DEF CutShort
    <2>5. QED
      BY <1>2, <1>3, <1>4, <2>1, <2>4 DEF Told
  <1>5. CASE q # f
    <2>1. q < f /\ Length # 0
      BY <1>1, <1>2, <1>5
    <2>2. PICK h, e : Piece(q, h, e)
      BY <1>1, <1>2, <2>1, MessageBehind
    <2>3. (\A p \in (q + 1)..f : stream[p].is = "head") /\ ~PriorClose(q)
      BY <1>1, <1>2, <1>5 DEF HeadersAt
    <2>4. f < h
      <3>1. q < h /\ h \in Nat /\ stream[h].is = "head_end"
        BY <2>2 DEF Piece
      <3>2. h \notin (q + 1)..f
        BY <2>3, <3>1
      <3>3. QED
        BY <3>1, <3>2
    <2>5. Quiet(f) /\ Reference(f) = Reference(q) /\ f # 0 /\ ~LastOf(f)
      BY <1>3, <1>5, <2>1, <2>2, <2>3, <2>4, HeadOpen
    <2>6. StopsAt(f) = 0
      BY <2>5, QuietReference
    <2>7. CutShort(f)
      BY <2>5, <2>6 DEF CutShort
    <2>8. QED
      BY <1>2, <1>3, <2>1, <2>5, <2>7 DEF Told
  <1>6. QED
    BY <1>4, <1>5

\* The parser waits for the rest of a body.
LEMMA ToldInBody ==
  ASSUME Inv, phase = "loop", state = "body"
  PROVE  Told
  <1>1. PICK q \in Nat, h \in Nat, e \in Nat : BodyAt(q, h, e)
    BY InBody
  <1>2. PICK f \in Nat : f = fed
    BY Numbers
  <1>3. HeadDone(q, h, e) /\ events = Opened(h) /\ (f < e \/ EndlessAt(h))
    BY <1>1, <1>2 DEF BodyAt
  <1>4. h <= f
    <2>1. h <= Seen /\ Seen \in 0..f
      BY <1>1, <1>2, InBody DEF BodyAt, DecodedSoFar, Ahead
    <2>2. QED
      BY <2>1
  <1>5. Reference(f) = Opened(h) /\ CutShort(f)
    <2>1. CASE EndlessAt(h)
      <3>1. StopsAt(f) = h /\ h # 0 /\ ~WrongAt(h) /\ Reference(f) = Opened(h)
        BY <1>3, <1>4, <2>1, PieceEndless
      <3>2. QED
        BY <3>1 DEF CutShort
    <2>2. CASE f < e
      <3>1. Quiet(f) /\ Reference(f) = Opened(h) /\ f # 0 /\ ~LastOf(f)
        BY <1>3, <1>4, <2>2, PieceOpen
      <3>2. StopsAt(f) = 0
        BY <3>1, QuietReference
      <3>3. QED
        BY <3>1, <3>2 DEF CutShort
    <2>3. QED
      BY <1>3, <2>1, <2>2
  <1>6. QED
    BY <1>2, <1>3, <1>5 DEF Told

\* In the event loop, and after an error of the parser.
LEMMA ToldAlways ==
  ASSUME Inv, phase \in {"loop", "closed"}, ~OnBodyFailed
  PROVE  Told
  <1>1. state \in {"headers", "body"}
    BY DEF Inv, IInv, BufferTypeOK
  <1>2. CASE phase = "loop"
    BY <1>1, <1>2, ToldInHead, ToldInBody
  <1>3. CASE phase = "closed"
    <2>1. Refused /\ state = "headers"
      BY <1>1, <1>3 DEF OnBodyFailed, Inv, ContentInv
    <2>2. QED
      BY <2>1 DEF Refused, Told, CutShort
  <1>4. QED
    BY <1>2, <1>3

\* The reference is a sequence of calls.
LEMMA ReferenceType ==
  ASSUME NEW n \in Nat
  PROVE  Reference(n) \in Seq(Events)
  <1>1. PICK m \in Nat : m = (IF StopsAt(n) = 0 THEN n ELSE StopsAt(n))
    BY StopsIs
  <1>2. Upto(m) \in Seq(Events)
    BY UptoStep
  <1>3. QED
    BY <1>1, <1>2, ReferenceIs

\* The last call, when the connection is lost.
LEMMA CutStep ==
  ASSUME Inv, [Next]_vars, phase' = "gone", phase # "gone", ~OnBodyFailed
  PROVE  events' = Reference(fed) \o (IF CutShort(fed) THEN <<ErrorCall>> ELSE << >>)
  <1>1. Parser_feed_disconnect
    BY DEF Next, vars, buffer_vars, Parser_feed, Place, ParseHeaders, TakeHead, TriesHeaders,
           HeadersIncomplete, Wait, TriesBody, HeadersFail, Fail, BodyWithoutChunks, TakeNoBody,
           TakeLength, HandOver, BodyChunks, TakeChunks, BodyIncomplete, ChunksIncomplete,
           WaitForChunks, BodyFails, ReturnFromFeed, FeedReturns, Gone
  <1>2. Told
    BY <1>1, ToldAlways DEF Parser_feed_disconnect, Disconnect
  <1>3. IF state = "body" \/ Length # 0 THEN events' = Append(events, ErrorCall)
        ELSE events' = events
    BY <1>1 DEF Parser_feed_disconnect, Call, ErrorCall
  <1>4. PICK s \in Seq(Events) : s = Reference(fed)
    BY Numbers, ReferenceType
  <1>5. s \o << >> = s /\ Append(s, ErrorCall) = s \o <<ErrorCall>>
    OBVIOUS
  <1>6. QED
    BY <1>2, <1>3, <1>4, <1>5 DEF Told

-----------------------------------------------------------------------------
(* The theorems *)

\* The inductive invariant holds.
LEMMA Invariance == Spec => []Inv
  <1>1. Parser_init => IInv
    BY BufferAssumption
       DEF Parser_init, BufferInit, IInv, BufferTypeOK, WithinBuffer, Length,
           Transfers, ContentLengths
  <1>2. IInv /\ [Next]_vars => IInv'
    BY ParserMovesBuffer, BufferStep
  <1>3. Parser_init => Inv
    BY <1>1, InitInv
  <1>4. Inv /\ [Next]_vars => Inv'
    BY <1>2, InvStep DEF Inv
  <1> QED
    BY <1>3, <1>4, PTL DEF Spec

\* Parser_feed and _parse_body never index outside the buffer or below the
\* decoded bytes, whatever the client sends and in whatever pieces.
THEOREM BytesStayInBuffer == Spec => []WithinBuffer
  <1>1. Inv => WithinBuffer
    BY DEF Inv, IInv
  <1> QED
    BY <1>1, Invariance, PTL

\* The variables keep their types; the decoder never waits with a state that ends it.
THEOREM TypeCorrect == Spec => []TypeOK
  <1>1. Inv => TypeOK
    BY DEF Inv, IInv, ContentType, TypeOK, Going
  <1> QED
    BY <1>1, Invariance, PTL

\* phr_decode_chunked leaves no more bytes than it was given, decoded ones and those
\* of the next message together: the guard Decodes never holds a step back.
THEOREM DecodingStaysInside == Spec => []DecoderKeepsWithin
  <1>1. Inv => DecoderKeepsWithin
    BY DecodedFits
  <1> QED
    BY <1>1, Invariance, PTL

\* For all messages, however their bytes are cut: on_headers, on_body and on_error were
\* called as for the bytes in one piece.
THEOREM FramingIsExact == Spec => []FramingExact
  <1>1. Inv => FramingExact
    BY ToldAlways DEF FramingExact, Told
  <1> QED
    BY <1>1, Invariance, PTL

\* When the connection is lost, on_error is called exactly if a message was cut.
THEOREM CutIsReported == Spec => CutReported
  <1>1. Inv /\ [Next]_vars =>
          [phase' = "gone" /\ phase # "gone" /\ ~OnBodyFailed =>
             events' = Reference(fed)
                       \o (IF CutShort(fed) THEN <<[is |-> "error", at |-> << >>]>>
                           ELSE << >>)]_vars
    BY CutStep DEF ErrorCall
  <1> QED
    BY <1>1, Invariance, PTL DEF Spec, CutReported
=============================================================================
