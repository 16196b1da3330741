---------------------------- MODULE FlattenProofs ----------------------------
(***************************************************************************)
(* Lemmas about sequences that are joined, and about least elements, for   *)
(* the proofs about the packed tables and about the search for loops, the  *)
(* lookup and the spell checker.                                           *)
(***************************************************************************)
EXTENDS Integers, Sequences, SequencesExt, WellFoundedInduction, TLAPS

\* What membership in Seq(S) says of a sequence's length and elements.
LEMMA SeqElements ==
    ASSUME NEW S, NEW q \in Seq(S)
    PROVE  Len(q) \in Nat /\ DOMAIN q = 1 .. Len(q) /\ \A i \in 1 .. Len(q) : q[i] \in S
OBVIOUS

\* A set of natural numbers has a least element.
LEMMA LeastElement ==
    ASSUME NEW T \in SUBSET Nat, T # {}
    PROVE  \E m \in T : \A i \in T : m <= i
<1> DEFINE R == {p \in Nat \X Nat : p[1] < p[2]}
<1>1. R = OpToRel(<, Nat)
  BY DEF OpToRel
<1>2. IsWellFoundedOn(R, Nat)
  BY <1>1, NatLessThanWellFounded
<1> HIDE DEF R
<1>3. PICK m \in T : \A i \in T : ~(<<i, m>> \in R)
  BY <1>2, WFMin
<1>4. \A i \in T : ~(i < m)
  BY <1>3 DEF R
<1> QED
  BY <1>4

\* f joins the first m of the sequences in q.
Joins(q, m, f) == f = [i \in 1 .. m |-> IF i = 1 THEN q[i] ELSE f[i - 1] \o q[i]]

\* There is a function that joins the sequences of q one by one.
LEMMA JoinsExist ==
    ASSUME NEW S, NEW q \in Seq(Seq(S)), NEW n \in 0 .. Len(q)
    PROVE  \E f \in [1 .. n -> Seq(S)] : Joins(q, n, f)
<1> DEFINE bad == {m \in Nat : m <= n /\ ~\E f \in [1 .. m -> Seq(S)] : Joins(q, m, f)}
<1>0. n \in Nat /\ \A i \in 1 .. n : q[i] \in Seq(S)
  BY SeqElements
<1>1. bad = {}
  <2> SUFFICES ASSUME bad # {} PROVE FALSE
    OBVIOUS
  <2>1. PICK m \in bad : \A i \in bad : m <= i
    <3>1. bad \in SUBSET Nat
      OBVIOUS
    <3> HIDE DEF bad
    <3> QED
      BY <3>1, LeastElement
  <2>2. m \in Nat /\ m <= n /\ ~\E f \in [1 .. m -> Seq(S)] : Joins(q, m, f)
    BY <2>1
  <2>3. CASE m = 0
    <3> DEFINE f == [i \in 1 .. m |-> q[i]]
    <3>1. f \in [1 .. m -> Seq(S)] /\ Joins(q, m, f)
      BY <2>3 DEF Joins
    <3> QED
      BY <2>2, <3>1
  <2>4. CASE m # 0
    <3>1. m - 1 \in Nat /\ m - 1 \notin bad /\ m - 1 <= n
      <4>1. m - 1 \in Nat /\ ~(m <= m - 1) /\ m - 1 <= n
        BY <1>0, <2>2, <2>4
      <4> HIDE DEF bad
      <4> QED
        BY <2>1, <4>1
    <3>2. PICK p \in [1 .. m - 1 -> Seq(S)] : Joins(q, m - 1, p)
      BY <3>1
    <3> DEFINE f == [i \in 1 .. m |-> IF i <= m - 1 THEN p[i]
                                      ELSE IF m = 1 THEN q[m] ELSE p[m - 1] \o q[m]]
    <3>3. \A i \in 1 .. m - 1 : p[i] = IF i = 1 THEN q[i] ELSE p[i - 1] \o q[i]
      BY <3>2 DEF Joins
    <3>4. \A i \in 1 .. m : f[i] = IF i = 1 THEN q[i] ELSE f[i - 1] \o q[i]
      <4> SUFFICES ASSUME NEW i \in 1 .. m
                   PROVE  f[i] = IF i = 1 THEN q[i] ELSE f[i - 1] \o q[i]
        OBVIOUS
      <4>1. CASE i = m
        <5>1. f[i] = (IF m = 1 THEN q[m] ELSE p[m - 1] \o q[m]) /\ (m # 1 => f[i - 1] = p[m - 1])
          BY <2>2, <2>4, <4>1
        <5> QED
          BY <4>1, <5>1
      <4>2. CASE i # m
        <5>1. i \in 1 .. m - 1 /\ f[i] = p[i] /\ (i # 1 => f[i - 1] = p[i - 1])
          BY <2>2, <2>4, <4>2
        <5> QED
          BY <3>3, <5>1
      <4> QED
        BY <4>1, <4>2
    <3>5. f = [i \in 1 .. m |-> f[i]]
      OBVIOUS
    <3>6. f \in [1 .. m -> Seq(S)]
      <4> SUFFICES ASSUME NEW i \in 1 .. m PROVE f[i] \in Seq(S)
        OBVIOUS
      <4>1. i <= m - 1 => p[i] \in Seq(S)
        BY <2>2
      <4>2. q[m] \in Seq(S) /\ (m # 1 => p[m - 1] \in Seq(S))
        BY <1>0, <2>2, <2>4
      <4>3. m # 1 => p[m - 1] \o q[m] \in Seq(S)
        BY <4>2
      <4> QED
        BY <4>1, <4>2, <4>3
    <3> HIDE DEF f
    <3>7. f = [i \in 1 .. m |-> IF i = 1 THEN q[i] ELSE f[i - 1] \o q[i]]
      BY <3>4, <3>5
    <3> QED
      BY <2>2, <3>6, <3>7 DEF Joins
  <2> QED
    BY <2>3, <2>4
<1> QED
  BY <1>0, <1>1

JoinsMeet(q, r, n, m, f, h, c) == f[c] = h[c]

\* It is told by the sequences joined: two that join the same agree.
LEMMA JoinsAgree ==
    ASSUME NEW q, NEW r, NEW n \in Nat, NEW m \in Nat, NEW f, NEW h,
           Joins(q, n, f), Joins(r, m, h), NEW c \in 1 .. n, c <= m,
           \A i \in 1 .. c : q[i] = r[i]
    PROVE  JoinsMeet(q, r, n, m, f, h, c)
<1> DEFINE bad == {i \in Nat : i \in 1 .. c /\ f[i] # h[i]}
<1>1. \A i \in 1 .. n : f[i] = IF i = 1 THEN q[i] ELSE f[i - 1] \o q[i]
  BY DEF Joins
<1>2. \A i \in 1 .. m : h[i] = IF i = 1 THEN r[i] ELSE h[i - 1] \o r[i]
  BY DEF Joins
<1>3. bad = {}
  <2> SUFFICES ASSUME bad # {} PROVE FALSE
    OBVIOUS
  <2>1. PICK i \in bad : \A j \in bad : i <= j
    <3>1. bad \in SUBSET Nat
      OBVIOUS
    <3> HIDE DEF bad
    <3> QED
      BY <3>1, LeastElement
  <2>2. i \in 1 .. c /\ i \in 1 .. n /\ i \in 1 .. m /\ f[i] # h[i]
    BY <2>1
  <2>3. i # 1
    BY <1>1, <1>2, <2>2
  <2>4. i - 1 \in Nat /\ i - 1 \in 1 .. c /\ ~(i <= i - 1)
    BY <2>2, <2>3
  <2>5. f[i - 1] = h[i - 1]
    BY <2>1, <2>4
  <2> QED
    BY <1>1, <1>2, <2>2, <2>3, <2>5
<1> QED
  BY <1>3 DEF JoinsMeet

\* FlattenSeq gives the last value of that function.
LEMMA FlattenIs ==
    ASSUME NEW S, NEW q \in Seq(Seq(S)), Len(q) # 0
    PROVE  \E f \in [1 .. Len(q) -> Seq(S)] :
             Joins(q, Len(q), f) /\ FlattenSeq(q) = f[Len(q)]
<1> DEFINE w == CHOOSE f : f = [i \in 1 .. Len(q) |-> IF i = 1 THEN q[i] ELSE f[i - 1] \o q[i]]
<1>1. FlattenSeq(q) = w[Len(q)]
  BY DEF FlattenSeq
<1>2. PICK f \in [1 .. Len(q) -> Seq(S)] : Joins(q, Len(q), f)
  BY JoinsExist
<1>3. w = [i \in 1 .. Len(q) |-> IF i = 1 THEN q[i] ELSE w[i - 1] \o q[i]]
  BY <1>2 DEF Joins
<1> HIDE DEF w
<1>4. Joins(q, Len(q), w)
  BY <1>3 DEF Joins
<1>5. Len(q) \in Nat /\ Len(q) \in 1 .. Len(q)
  OBVIOUS
<1>6. w[Len(q)] = f[Len(q)]
  <2>1. JoinsMeet(q, q, Len(q), Len(q), w, f, Len(q))
    BY <1>2, <1>4, <1>5, JoinsAgree
  <2> QED
    BY <2>1 DEF JoinsMeet
<1> QED
  BY <1>1, <1>2, <1>6

\* All but the last.
ButLast(q) == [i \in 1 .. Len(q) - 1 |-> q[i]]

\* What FlattenSeq gives is what it gives without the last sequence, and that sequence.
LEMMA FlattenLast ==
    ASSUME NEW S, NEW q \in Seq(Seq(S)), Len(q) # 0
    PROVE  /\ ButLast(q) \in Seq(Seq(S)) /\ Len(ButLast(q)) = Len(q) - 1
           /\ FlattenSeq(ButLast(q)) \in Seq(S)
           /\ FlattenSeq(q) = FlattenSeq(ButLast(q)) \o q[Len(q)]
<1> DEFINE p == ButLast(q)
<1>0. Len(q) \in Nat \ {0} /\ \A i \in 1 .. Len(q) : q[i] \in Seq(S)
  BY SeqElements
<1>1. p \in Seq(Seq(S)) /\ Len(p) = Len(q) - 1 /\ \A i \in 1 .. Len(q) - 1 : p[i] = q[i]
  BY <1>0 DEF ButLast
<1>2. PICK f \in [1 .. Len(q) -> Seq(S)] : Joins(q, Len(q), f) /\ FlattenSeq(q) = f[Len(q)]
  BY FlattenIs
<1>3. f[Len(q)] = IF Len(q) = 1 THEN q[Len(q)] ELSE f[Len(q) - 1] \o q[Len(q)]
  <2>1. \A i \in 1 .. Len(q) : f[i] = IF i = 1 THEN q[i] ELSE f[i - 1] \o q[i]
    BY <1>2 DEF Joins
  <2>2. Len(q) \in 1 .. Len(q)
    BY <1>0
  <2> QED
    BY <2>1, <2>2
<1> HIDE DEF p
<1>4. CASE Len(q) = 1
  <2>1. p = << >> /\ Len(p) = 0
    BY <1>1, <1>4
  <2>2. FlattenSeq(p) = << >>
    BY <2>1 DEF FlattenSeq
  <2>3. q[1] \in Seq(S)
    BY <1>0, <1>4
  <2>4. << >> \o q[1] = q[1] /\ << >> \in Seq(S)
    BY <2>3
  <2> QED
    BY <1>1, <1>2, <1>3, <1>4, <2>2, <2>4 DEF p
<1>5. CASE Len(q) # 1
  <2>1. PICK h \in [1 .. Len(p) -> Seq(S)] : Joins(p, Len(p), h) /\ FlattenSeq(p) = h[Len(p)]
    <3>1. p \in Seq(Seq(S)) /\ Len(p) # 0
      BY <1>0, <1>1, <1>5
    <3> QED
      BY <3>1, FlattenIs
  <2>2. /\ Len(p) \in Nat /\ Len(q) \in Nat /\ Len(p) \in 1 .. Len(p) /\ Len(p) <= Len(q)
        /\ \A i \in 1 .. Len(p) : p[i] = q[i]
    BY <1>0, <1>1, <1>5
  <2>3. h[Len(p)] = f[Len(p)]
    <3> DEFINE n == Len(p)
               m == Len(q)
    <3>1. /\ n \in Nat /\ m \in Nat /\ n \in 1 .. n /\ n <= m /\ Joins(p, n, h)
          /\ Joins(q, m, f) /\ \A i \in 1 .. n : p[i] = q[i]
      BY <1>2, <2>1, <2>2
    <3> HIDE DEF n, m
    <3>2. JoinsMeet(p, q, n, m, h, f, n)
      BY <3>1, JoinsAgree
    <3> QED
      BY <3>2 DEF n, JoinsMeet
  <2>4. h[Len(p)] \in Seq(S)
    BY <2>1, <2>2
  <2> QED
    BY <1>1, <1>2, <1>3, <1>5, <2>1, <2>3, <2>4 DEF p
<1> QED
  BY <1>4, <1>5

\* Nothing joined is nothing.
LEMMA FlattenEmpty == ASSUME NEW q, Len(q) = 0 PROVE FlattenSeq(q) = q
BY DEF FlattenSeq

\* Concatenation is associative.
Associates(a, b, c) == (a \o b) \o c = a \o (b \o c)

LEMMA Associative ==
    ASSUME NEW S, NEW a \in Seq(S), NEW b \in Seq(S), NEW c \in Seq(S)
    PROVE  Associates(a, b, c)
BY DEF Associates

\* The elements of the second of two sequences come after those of the first.
TailAt(a, b, j) == (a \o b)[Len(a) + j] = b[j]

LEMMA TailOfConcat ==
    ASSUME NEW S, NEW a \in Seq(S), NEW b \in Seq(S), NEW j \in 1 .. Len(b)
    PROVE  TailAt(a, b, j)
<1>1. Len(a) + j \in 1 .. Len(a) + Len(b) /\ Len(a) + j > Len(a) /\ Len(a) + j - Len(a) = j
  OBVIOUS
<1> QED
  BY <1>1 DEF TailAt

\* A sequence with an element more is not empty.
LEMMA ExtendedNotEmpty ==
    ASSUME NEW S, NEW a \in Seq(S), NEW x \in S
    PROVE  a \o <<x>> # << >>
<1>1. Len(a \o <<x>>) = Len(a) + 1 /\ Len(a) \in Nat
  OBVIOUS
<1>2. Len(<< >>) = 0
  OBVIOUS
<1> QED
  BY <1>1, <1>2

\* The weight of two arcs and two searches, in the order either way of counting adds them.
Regroups(a, b, c, d, e) == a + (b + c) + d + e = a + (c + d) + (b + e)

LEMMA SumsRegroup ==
    ASSUME NEW a \in Nat, NEW b \in Nat, NEW c \in Nat, NEW d \in Nat, NEW e \in Nat
    PROVE  Regroups(a, b, c, d, e)
BY DEF Regroups

==============================================================================
