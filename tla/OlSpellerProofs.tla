--------------------------- MODULE OlSpellerProofs ---------------------------
(***************************************************************************)
(* Theorems about the spell checker, for every lexicon and error model     *)
(* without loops that read nothing, and for every word: check answers      *)
(* whether the lexicon has the word, and correct loses no correction and   *)
(* notes each with its best weight.                                        *)
(***************************************************************************)
EXTENDS OlSpeller, OlGraphProofs

-----------------------------------------------------------------------------
(* Sequences that are joined, and their elements *)

LEMMA ElementsOfSeq ==
    ASSUME NEW S, NEW q \in Seq(S)
    PROVE  /\ DOMAIN q = 1 .. Len(q) /\ Len(q) \in Nat
           /\ Range(q) \subseteq S
           /\ \A i \in 1 .. Len(q) : q[i] \in Range(q)
           /\ \A x : x \in Range(q) => \E i \in 1 .. Len(q) : q[i] = x
<1>1. Len(q) \in Nat /\ DOMAIN q = 1 .. Len(q) /\ \A i \in 1 .. Len(q) : q[i] \in S
  BY SeqElements
<1> QED
  BY <1>1 DEF Range

LEMMA EqualSequences ==
    ASSUME NEW S, NEW q \in Seq(S), NEW r \in Seq(S), Len(q) = Len(r),
           \A i \in 1 .. Len(r) : q[i] = r[i]
    PROVE  q = r
OBVIOUS

LEMMA WiderSequence ==
    ASSUME NEW S, NEW T, S \subseteq T, NEW q \in Seq(S)
    PROVE  q \in Seq(T)
OBVIOUS

LEMMA JoinedInTurn ==
    ASSUME NEW S, NEW a \in Seq(S), NEW b \in Seq(S), NEW c \in Seq(S)
    PROVE  (a \o b) \o c = a \o (b \o c)
OBVIOUS

LEMMA ElementsOfJoined ==
    ASSUME NEW S, NEW q \in Seq(S), NEW r \in Seq(S)
    PROVE  q \o r \in Seq(S) /\ Range(q \o r) = Range(q) \cup Range(r)
<1>1. q \o r \in Seq(S) /\ Len(q \o r) = Len(q) + Len(r)
      /\ (\A i \in 1 .. Len(q) : (q \o r)[i] = q[i])
      /\ (\A i \in 1 .. Len(r) : (q \o r)[Len(q) + i] = r[i])
  OBVIOUS
<1> DEFINE t == q \o r
<1>2. \A i \in 1 .. Len(t) : \/ i \in 1 .. Len(q) /\ t[i] = q[i]
                             \/ \E j \in 1 .. Len(r) : t[i] = r[j]
  <2> SUFFICES ASSUME NEW i \in 1 .. Len(t), i \notin 1 .. Len(q)
               PROVE  \E j \in 1 .. Len(r) : t[i] = r[j]
    BY <1>1
  <2>1. i - Len(q) \in 1 .. Len(r) /\ Len(q) + (i - Len(q)) = i
    BY <1>1, ElementsOfSeq
  <2>2. t[Len(q) + (i - Len(q))] = r[i - Len(q)]
    BY <1>1, <2>1
  <2> QED
    BY <2>1, <2>2
<1>3. /\ \A i \in 1 .. Len(q) : i \in 1 .. Len(t) /\ t[i] = q[i]
      /\ \A i \in 1 .. Len(r) : Len(q) + i \in 1 .. Len(t) /\ t[Len(q) + i] = r[i]
  BY <1>1, ElementsOfSeq
<1>4. t \in Seq(S)
  BY <1>1
<1> HIDE DEF t
<1>5. /\ \A i \in 1 .. Len(t) : t[i] \in Range(t)
      /\ \A x : x \in Range(t) => \E i \in 1 .. Len(t) : t[i] = x
  BY <1>4, ElementsOfSeq
<1>6. /\ \A i \in 1 .. Len(q) : q[i] \in Range(q)
      /\ \A x : x \in Range(q) => \E i \in 1 .. Len(q) : q[i] = x
      /\ \A i \in 1 .. Len(r) : r[i] \in Range(r)
      /\ \A x : x \in Range(r) => \E i \in 1 .. Len(r) : r[i] = x
  BY ElementsOfSeq
<1>7. ASSUME NEW x \in Range(t) PROVE x \in Range(q) \cup Range(r)
  BY <1>2, <1>5, <1>6
<1>8. ASSUME NEW x \in Range(q) \cup Range(r) PROVE x \in Range(t)
  <2>1. CASE x \in Range(q)
    BY <1>3, <1>5, <1>6, <2>1
  <2>2. CASE x \in Range(r)
    BY <1>3, <1>5, <1>6, <2>2
  <2> QED
    BY <2>1, <2>2
<1>9. Range(t) = Range(q) \cup Range(r)
  BY <1>7, <1>8
<1> QED
  BY <1>4, <1>9 DEF t

\* Joined sequences hold what each of them holds.
LEMMA FlattenRange ==
    ASSUME NEW S, NEW q \in Seq(Seq(S))
    PROVE  /\ FlattenSeq(q) \in Seq(S)
           /\ Range(FlattenSeq(q)) = UNION {Range(q[i]) : i \in 1 .. Len(q)}
<1> DEFINE Good(r) == /\ FlattenSeq(r) \in Seq(S)
                      /\ Range(FlattenSeq(r)) = UNION {Range(r[i]) : i \in 1 .. Len(r)}
           bad == {m \in Nat : \E r \in Seq(Seq(S)) : Len(r) = m /\ ~Good(r)}
<1>1. bad = {}
  <2> SUFFICES ASSUME bad # {} PROVE FALSE
    BY Zenon
  <2>1. PICK m \in bad : \A i \in bad : m <= i
    <3>1. bad \in SUBSET Nat
      OBVIOUS
    <3> HIDE DEF bad
    <3> QED
      BY <3>1, LeastElement
  <2>2. PICK r \in Seq(Seq(S)) : Len(r) = m /\ ~Good(r)
    BY <2>1
  <2>3. CASE Len(r) = 0
    <3>1. FlattenSeq(r) = << >> /\ r = << >>
      BY <2>3, FlattenEmpty
    <3>2. << >> \in Seq(S) /\ Range(<< >>) = {} /\ 1 .. Len(r) = {}
      BY <2>3 DEF Range
    <3> QED
      BY <2>2, <3>1, <3>2
  <2>4. CASE Len(r) # 0
    <3> DEFINE p == ButLast(r)
    <3>1. /\ p \in Seq(Seq(S)) /\ Len(p) = Len(r) - 1 /\ FlattenSeq(p) \in Seq(S)
          /\ FlattenSeq(r) = FlattenSeq(p) \o r[Len(r)]
      BY <2>4, FlattenLast
    <3>2. Len(r) \in Nat \ {0} /\ r[Len(r)] \in Seq(S)
      BY <2>4, SeqElements
    <3>3. \A i \in 1 .. Len(r) - 1 : p[i] = r[i]
      BY <3>2 DEF ButLast
    <3> HIDE DEF p
    <3>4. Good(p)
      <4>1. Len(p) \in Nat /\ ~(m <= Len(p))
        BY <2>2, <3>1, <3>2
      <4>2. Len(p) \notin bad
        <5> HIDE DEF bad
        <5> QED
          BY <2>1, <4>1
      <4> HIDE DEF Good
      <4> QED
        BY <3>1, <4>1, <4>2
    <3>5. /\ FlattenSeq(r) \in Seq(S)
          /\ Range(FlattenSeq(r)) = Range(FlattenSeq(p)) \cup Range(r[Len(r)])
      BY <3>1, <3>2, ElementsOfJoined
    <3>6. UNION {Range(r[i]) : i \in 1 .. Len(r)}
            = (UNION {Range(p[i]) : i \in 1 .. Len(p)}) \cup Range(r[Len(r)])
      <4>1. \A i \in 1 .. Len(r) : i \in 1 .. Len(p) \/ i = Len(r)
        BY <3>1, <3>2
      <4>2. \A i \in 1 .. Len(p) : i \in 1 .. Len(r) /\ p[i] = r[i]
        BY <3>1, <3>2, <3>3
      <4>3. Len(r) \in 1 .. Len(r)
        BY <3>2
      <4> QED
        BY <4>1, <4>2, <4>3
    <3> QED
      BY <2>2, <3>4, <3>5, <3>6
  <2> QED
    BY <2>3, <2>4
<1>2. Len(q) \in Nat
  OBVIOUS
<1>3. Good(q)
  <2> HIDE DEF Good
  <2> QED
    BY <1>1, <1>2
<1> QED
  BY <1>3
-----------------------------------------------------------------------------
(* What the paths of a graph write: Readings one arc at a time *)

\* f begins with b and goes on with onward, up to m.
Iterates(b, onward, m, f) ==
    f[0] = b /\ \A i \in 1 .. m : f[i] = onward[f[i - 1]]

LEMMA IterationsExist ==
    ASSUME NEW S, NEW b \in S, NEW onward \in [S -> S], NEW n \in Nat
    PROVE  \E f \in [0 .. n -> S] : Iterates(b, onward, n, f)
<1> DEFINE bad == {m \in Nat : ~\E f \in [0 .. m -> S] : Iterates(b, onward, m, f)}
<1>1. bad = {}
  <2> SUFFICES ASSUME bad # {} PROVE FALSE
    BY Zenon
  <2>1. PICK m \in bad : \A i \in bad : m <= i
    <3>1. bad \in SUBSET Nat
      OBVIOUS
    <3> HIDE DEF bad
    <3> QED
      BY <3>1, LeastElement
  <2>2. m \in Nat /\ ~\E f \in [0 .. m -> S] : Iterates(b, onward, m, f)
    BY <2>1
  <2>3. CASE m = 0
    <3>1. [i \in 0 .. m |-> b] \in [0 .. m -> S] /\ Iterates(b, onward, m, [i \in 0 .. m |-> b])
      BY <2>3 DEF Iterates
    <3> QED
      BY <2>2, <3>1
  <2>4. CASE m # 0
    <3>1. m - 1 \in Nat /\ m - 1 \notin bad
      <4>1. m - 1 \in Nat /\ ~(m <= m - 1)
        BY <2>2, <2>4
      <4> HIDE DEF bad
      <4> QED
        BY <2>1, <4>1
    <3>2. PICK p \in [0 .. m - 1 -> S] : Iterates(b, onward, m - 1, p)
      BY <3>1
    <3> DEFINE f == [i \in 0 .. m |-> IF i = m THEN onward[p[m - 1]] ELSE p[i]]
    <3>3. p[m - 1] \in S /\ \A i \in 0 .. m : i # m => i \in 0 .. m - 1
      BY <2>2, <3>1
    <3>4. f \in [0 .. m -> S]
      BY <3>2, <3>3
    <3>5. f[0] = b
      BY <2>2, <2>4, <3>2 DEF Iterates
    <3>6. \A i \in 1 .. m : f[i] = onward[f[i - 1]]
      <4> SUFFICES ASSUME NEW i \in 1 .. m PROVE f[i] = onward[f[i - 1]]
        OBVIOUS
      <4>1. CASE i = m
        <5>1. f[i] = onward[p[m - 1]] /\ f[i - 1] = p[m - 1]
          BY <2>2, <4>1
        <5> QED
          BY <4>1, <5>1
      <4>2. CASE i # m
        <5>1. i \in 1 .. m - 1 /\ f[i] = p[i] /\ f[i - 1] = p[i - 1]
          BY <2>2, <4>2
        <5> QED
          BY <3>2, <5>1 DEF Iterates
      <4> QED
        BY <4>1, <4>2
    <3> HIDE DEF f
    <3> QED
      BY <2>2, <3>4, <3>5, <3>6 DEF Iterates
  <2> QED
    BY <2>3, <2>4
<1> QED
  BY <1>1

LEMMA IterationsAgree ==
    ASSUME NEW b, NEW onward, NEW n \in Nat, NEW m \in Nat, n <= m, NEW f, NEW h,
           Iterates(b, onward, n, f), Iterates(b, onward, m, h)
    PROVE  f[n] = h[n]
<1> DEFINE bad == {i \in Nat : i <= n /\ f[i] # h[i]}
<1>1. bad = {}
  <2> SUFFICES ASSUME bad # {} PROVE FALSE
    BY Zenon
  <2>1. PICK i \in bad : \A j \in bad : i <= j
    <3>1. bad \in SUBSET Nat
      OBVIOUS
    <3> HIDE DEF bad
    <3> QED
      BY <3>1, LeastElement
  <2>2. i \in Nat /\ i <= n /\ f[i] # h[i]
    BY <2>1
  <2>3. i # 0
    BY <2>2 DEF Iterates
  <2>4. i - 1 \in Nat /\ i - 1 <= n /\ ~(i <= i - 1) /\ i \in 1 .. n /\ i \in 1 .. m
    BY <2>2, <2>3
  <2>5. f[i - 1] = h[i - 1]
    BY <2>1, <2>4
  <2> QED
    BY <2>2, <2>4, <2>5 DEF Iterates
<1> QED
  BY <1>1

\* There is a function on all numbers that begins with b and goes on with onward.
LEMMA RecursionExists ==
    ASSUME NEW S, NEW b \in S, NEW onward \in [S -> S]
    PROVE  \E f \in [Nat -> S] :
             f[0] = b /\ \A k \in Nat \ {0} : f[k] = onward[f[k - 1]]
<1> DEFINE upTo(k) == CHOOSE p \in [0 .. k -> S] : Iterates(b, onward, k, p)
           f == [k \in Nat |-> upTo(k)[k]]
<1>1. ASSUME NEW k \in Nat PROVE upTo(k) \in [0 .. k -> S] /\ Iterates(b, onward, k, upTo(k))
  <2>1. \E p \in [0 .. k -> S] : Iterates(b, onward, k, p)
    BY IterationsExist
  <2> QED
    BY <2>1, Zenon
<1> HIDE DEF upTo
<1>2. f \in [Nat -> S]
  <2>1. ASSUME NEW k \in Nat PROVE upTo(k)[k] \in S
    BY <1>1
  <2> QED
    BY <2>1
<1>3. f[0] = b
  BY <1>1 DEF Iterates
<1>4. ASSUME NEW k \in Nat \ {0} PROVE f[k] = onward[f[k - 1]]
  <2>1. k - 1 \in Nat /\ k - 1 <= k /\ k \in 1 .. k
    BY <1>4
  <2>2. upTo(k)[k] = onward[upTo(k)[k - 1]]
    BY <1>1, <2>1 DEF Iterates
  <2>3. upTo(k - 1)[k - 1] = upTo(k)[k - 1]
    BY <1>1, <2>1, IterationsAgree
  <2>4. f[k] = upTo(k)[k] /\ f[k - 1] = upTo(k - 1)[k - 1]
    BY <2>1
  <2> QED
    BY <2>2, <2>3, <2>4
<1> HIDE DEF f
<1> QED
  BY <1>2, <1>3, <1>4
\* A graph whose arcs lead to its states and write symbols of L.
Readable(gr, ops, letters, L) ==
    /\ gr.n \in Nat \ {0}
    /\ \A x \in DOMAIN ops : ops[x] \in Operations
    /\ \A s \in 0 .. gr.n - 1 : \A a \in Range(gr.arcs[s]) :
         a.to \in 0 .. gr.n - 1 /\ a.w \in Nat /\ letters[a.out] \in Seq(L)
    /\ \A s \in DOMAIN gr.final : gr.final[s] \in Nat

LEMMA BehindTyped ==
    ASSUME NEW gr, NEW ops, NEW letters, NEW L, Readable(gr, ops, letters, L),
           NEW c \in Readers(gr), NEW a \in Open(gr, ops, c)
    PROVE  /\ a \in Range(gr.arcs[c.s]) /\ Behind(ops, c, a) \in Readers(gr)
           /\ a.w \in Nat /\ letters[a.out] \in Seq(L)
<1>1. /\ c.s \in 0 .. gr.n - 1 /\ c.values \in [Features -> Int] /\ c.rest \in Seq(Nat)
  BY DEF Readers
<1>2. /\ a \in Range(gr.arcs[c.s])
      /\ a.in = 0 \/ a.in \in DOMAIN ops \/ c.rest # << >>
  BY DEF Open
<1>3. a.to \in 0 .. gr.n - 1 /\ a.w \in Nat /\ letters[a.out] \in Seq(L)
  BY <1>1, <1>2 DEF Readable
<1>4. (IF a.in \in DOMAIN ops THEN Applied(ops[a.in], c.values) ELSE c.values)
        \in [Features -> Int]
  BY <1>1, AppliedTyped DEF Readable
<1>5. (IF a.in = 0 \/ a.in \in DOMAIN ops THEN c.rest ELSE Tail(c.rest)) \in Seq(Nat)
  BY <1>1, <1>2
<1> QED
  BY <1>2, <1>3, <1>4, <1>5 DEF Behind, Readers

\* What one arc writes, and then one of what g gives behind it.
Onward(gr, ops, letters, g, d) ==
    UNION {After(letters[a.out], a.w, g[Behind(ops, d, a)]) : a \in Open(gr, ops, d)}

Writings(L) == SUBSET (Seq(L) \X Nat)

LEMMA AfterTyped ==
    ASSUME NEW L, NEW out \in Seq(L), NEW w \in Nat, NEW S \in Writings(L)
    PROVE  After(out, w, S) \in Writings(L)
<1> SUFFICES ASSUME NEW e \in S PROVE <<out \o e[1], w + e[2]>> \in Seq(L) \X Nat
  BY DEF After, Writings
<1>1. e[1] \in Seq(L) /\ e[2] \in Nat
  BY DEF Writings
<1>2. out \o e[1] \in Seq(L) /\ w + e[2] \in Nat
  BY <1>1
<1> QED
  BY <1>2, Zenon

LEMMA EndedTyped ==
    ASSUME NEW gr, NEW ops, NEW letters, NEW L, Readable(gr, ops, letters, L), NEW c
    PROVE  Ended(gr, c) \in Writings(L)
<1>1. << >> \in Seq(L)
  OBVIOUS
<1>2. CASE c.rest = << >> /\ c.s \in DOMAIN gr.final
  <2>1. gr.final[c.s] \in Nat
    BY <1>2 DEF Readable
  <2>2. << << >>, gr.final[c.s]>> \in Seq(L) \X Nat
    BY <1>1, <2>1, Zenon
  <2> QED
    BY <1>2, <2>2 DEF Ended, Writings
<1>3. CASE ~(c.rest = << >> /\ c.s \in DOMAIN gr.final)
  BY <1>3 DEF Ended, Writings
<1> QED
  BY <1>2, <1>3

LEMMA OnwardTyped ==
    ASSUME NEW gr, NEW ops, NEW letters, NEW L, Readable(gr, ops, letters, L),
           NEW g \in [Readers(gr) -> Writings(L)], NEW d \in Readers(gr)
    PROVE  Onward(gr, ops, letters, g, d) \in Writings(L)
<1> SUFFICES ASSUME NEW a \in Open(gr, ops, d)
             PROVE  After(letters[a.out], a.w, g[Behind(ops, d, a)]) \in Writings(L)
  BY DEF Onward, Writings
<1>1. /\ Behind(ops, d, a) \in Readers(gr) /\ a.w \in Nat /\ letters[a.out] \in Seq(L)
  BY BehindTyped
<1> QED
  BY <1>1, AfterTyped

\* w[k] gives what paths of up to k arcs write.
WritesUpTo(gr, ops, letters, L, w) ==
    /\ w \in [Nat -> [Readers(gr) -> Writings(L)]]
    /\ \A d \in Readers(gr) : w[0][d] = Ended(gr, d)
    /\ \A k \in Nat \ {0} : \A d \in Readers(gr) :
         w[k][d] = Ended(gr, d) \cup Onward(gr, ops, letters, w[k - 1], d)

\* The recursion of Readings, as an equation.
IsReadings(gr, ops, letters, w) ==
    w = [k \in Nat |->
           [d \in Readers(gr) |->
              Ended(gr, d) \cup
                IF k = 0 THEN {}
                ELSE UNION {After(letters[a.out], a.w, w[k - 1][Behind(ops, d, a)]) :
                              a \in Open(gr, ops, d)}]]

LEMMA ReadingsExist ==
    ASSUME NEW gr, NEW ops, NEW letters, NEW L, Readable(gr, ops, letters, L)
    PROVE  \E w : IsReadings(gr, ops, letters, w)
<1> DEFINE S == [Readers(gr) -> Writings(L)]
           b == [d \in Readers(gr) |-> Ended(gr, d)]
           onward == [g \in S |->
                      [d \in Readers(gr) |-> Ended(gr, d) \cup Onward(gr, ops, letters, g, d)]]
<1>1. b \in S
  BY EndedTyped
<1>2. onward \in [S -> S]
  <2> SUFFICES ASSUME NEW g \in S, NEW d \in Readers(gr)
               PROVE  Ended(gr, d) \cup Onward(gr, ops, letters, g, d) \in Writings(L)
    OBVIOUS
  <2>1. Ended(gr, d) \in Writings(L) /\ Onward(gr, ops, letters, g, d) \in Writings(L)
    BY EndedTyped, OnwardTyped
  <2> QED
    BY <2>1 DEF Writings
<1> HIDE DEF b, onward, S
<1>3. PICK w \in [Nat -> S] : w[0] = b /\ \A k \in Nat \ {0} : w[k] = onward[w[k - 1]]
  BY <1>1, <1>2, RecursionExists
<1>4. ASSUME NEW k \in Nat
      PROVE  w[k] = [d \in Readers(gr) |->
                Ended(gr, d) \cup IF k = 0 THEN {} ELSE Onward(gr, ops, letters, w[k - 1], d)]
  <2>1. CASE k = 0
    BY <1>3, <2>1 DEF b
  <2>2. CASE k # 0
    <3>1. w[k - 1] \in S
      BY <1>3, <2>2
    <3>2. w[k] = onward[w[k - 1]]
      BY <1>3, <2>2
    <3> QED
      BY <2>2, <3>1, <3>2 DEF onward
  <2> QED
    BY <2>1, <2>2
<1>5. w = [k \in Nat |->
             [d \in Readers(gr) |->
                Ended(gr, d) \cup IF k = 0 THEN {} ELSE Onward(gr, ops, letters, w[k - 1], d)]]
  BY <1>3, <1>4, Zenon
<1>6. IsReadings(gr, ops, letters, w)
  BY <1>5, Zenon DEF IsReadings, Onward
<1> QED
  BY <1>6

LEMMA ReadingsAre ==
    ASSUME NEW gr, NEW ops, NEW letters, NEW L, Readable(gr, ops, letters, L)
    PROVE  \E w : /\ WritesUpTo(gr, ops, letters, L, w)
                  /\ \A c : Readings(gr, ops, letters, c) = w[Longest(gr, c.rest)][c]
<1> DEFINE w == CHOOSE f : f =
             [k \in Nat |->
                [d \in Readers(gr) |->
                   Ended(gr, d) \cup
                     IF k = 0 THEN {}
                     ELSE UNION {After(letters[a.out], a.w, f[k - 1][Behind(ops, d, a)]) :
                                   a \in Open(gr, ops, d)}]]
<1>1. \A c : Readings(gr, ops, letters, c) = w[Longest(gr, c.rest)][c]
  BY Zenon DEF Readings
<1>2. IsReadings(gr, ops, letters, w)
  <2>1. \E f : IsReadings(gr, ops, letters, f)
    BY ReadingsExist
  <2>2. \E f : f =
             [k \in Nat |->
                [d \in Readers(gr) |->
                   Ended(gr, d) \cup
                     IF k = 0 THEN {}
                     ELSE UNION {After(letters[a.out], a.w, f[k - 1][Behind(ops, d, a)]) :
                                   a \in Open(gr, ops, d)}]]
    BY <2>1, Zenon DEF IsReadings
  <2>3. w = [k \in Nat |->
                [d \in Readers(gr) |->
                   Ended(gr, d) \cup
                     IF k = 0 THEN {}
                     ELSE UNION {After(letters[a.out], a.w, w[k - 1][Behind(ops, d, a)]) :
                                   a \in Open(gr, ops, d)}]]
    BY <2>2, Zenon
  <2> HIDE DEF w
  <2> QED
    BY <2>3, Zenon DEF IsReadings
<1> HIDE DEF w
<1>3. w = [k \in Nat |->
             [d \in Readers(gr) |->
                Ended(gr, d) \cup IF k = 0 THEN {} ELSE Onward(gr, ops, letters, w[k - 1], d)]]
  BY <1>2, Zenon DEF IsReadings, Onward
<1>4. \A k \in Nat : w[k] = [d \in Readers(gr) |->
            Ended(gr, d) \cup IF k = 0 THEN {} ELSE Onward(gr, ops, letters, w[k - 1], d)]
  BY <1>3, Zenon
<1>5. ASSUME NEW d \in Readers(gr) PROVE w[0][d] = Ended(gr, d)
  <2>1. w[0] = [e \in Readers(gr) |->
            Ended(gr, e) \cup IF 0 = 0 THEN {} ELSE Onward(gr, ops, letters, w[0 - 1], e)]
    BY <1>4, Zenon
  <2>2. w[0][d] = Ended(gr, d) \cup {}
    BY <2>1, Zenon
  <2> QED
    BY <2>2
<1>6. \A k \in Nat \ {0} : \A d \in Readers(gr) :
         w[k][d] = Ended(gr, d) \cup Onward(gr, ops, letters, w[k - 1], d)
  BY <1>4
<1> DEFINE bad == {k \in Nat : w[k] \notin [Readers(gr) -> Writings(L)]}
<1>7. bad = {}
  <2> SUFFICES ASSUME bad # {} PROVE FALSE
    BY Zenon
  <2>1. PICK k \in bad : \A j \in bad : k <= j
    <3>1. bad \in SUBSET Nat
      OBVIOUS
    <3> HIDE DEF bad
    <3> QED
      BY <3>1, LeastElement
  <2>2. k \in Nat /\ w[k] \notin [Readers(gr) -> Writings(L)]
    BY <2>1
  <2>3. w[k] \in [Readers(gr) -> Writings(L)] \/ \E d \in Readers(gr) : w[k][d] \notin Writings(L)
    BY <1>4, <2>2
  <2>4. PICK d \in Readers(gr) : w[k][d] \notin Writings(L)
    BY <2>2, <2>3
  <2>5. k # 0
    BY <1>5, <2>4, EndedTyped
  <2>6. w[k - 1] \in [Readers(gr) -> Writings(L)]
    <3>1. k - 1 \in Nat /\ ~(k <= k - 1)
      BY <2>2, <2>5
    <3> QED
      BY <2>1, <3>1
  <2>7. Onward(gr, ops, letters, w[k - 1], d) \in Writings(L) /\ Ended(gr, d) \in Writings(L)
    BY <2>6, OnwardTyped, EndedTyped
  <2>8. w[k][d] = Ended(gr, d) \cup Onward(gr, ops, letters, w[k - 1], d)
    BY <1>6, <2>2, <2>5
  <2> QED
    BY <2>4, <2>7, <2>8 DEF Writings
<1>8. w \in [Nat -> [Readers(gr) -> Writings(L)]]
  BY <1>3, <1>7
<1>9. WritesUpTo(gr, ops, letters, L, w)
  BY <1>5, <1>6, <1>8 DEF WritesUpTo
<1> QED
  BY <1>1, <1>9
\* Arcs with an input in zero lead down in h.
RanksDown(gr, zero, h) ==
    /\ h \in [0 .. gr.n - 1 -> 0 .. gr.n - 1]
    /\ \A s \in 0 .. gr.n - 1 : \A a \in Range(gr.arcs[s]) : a.in \in zero => h[a.to] < h[s]

\* No reader can take more arcs than this.
RankOf(gr, h, c) == Len(c.rest) * gr.n + h[c.s]

LEMMA RankArithmetic ==
    \A n \in Nat \ {0} : \A l \in Nat :
      /\ l * n \in Nat
      /\ l # 0 => (l - 1) * n \in Nat /\ (l - 1) * n + n = l * n
      /\ l + (l + 1) * (n - 1) = (l * n) + (n - 1)
<1> SUFFICES ASSUME NEW n \in Nat \ {0}, NEW l \in Nat
             PROVE  /\ l * n \in Nat
                    /\ l # 0 => (l - 1) * n \in Nat /\ (l - 1) * n + n = l * n
                    /\ l + (l + 1) * (n - 1) = (l * n) + (n - 1)
  OBVIOUS
<1>1. l * n \in Nat
  OBVIOUS
<1>2. l # 0 => (l - 1) * n \in Nat
  OBVIOUS
<1>3. (l - 1) * n + n = l * n
  OBVIOUS
<1>4. l + (l + 1) * (n - 1) = (l * n) + (n - 1)
  OBVIOUS
<1> QED
  BY <1>1, <1>2, <1>3, <1>4

LEMMA RankFalls ==
    ASSUME NEW gr, NEW ops, NEW letters, NEW L, Readable(gr, ops, letters, L), NEW h,
           RanksDown(gr, {0} \cup DOMAIN ops, h), NEW c \in Readers(gr)
    PROVE  /\ RankOf(gr, h, c) \in Nat /\ RankOf(gr, h, c) <= Longest(gr, c.rest)
           /\ \A a \in Open(gr, ops, c) :
                RankOf(gr, h, Behind(ops, c, a)) < RankOf(gr, h, c)
<1>1. gr.n \in Nat \ {0} /\ c.s \in 0 .. gr.n - 1 /\ c.rest \in Seq(Nat)
  BY DEF Readable, Readers
<1>2. Len(c.rest) \in Nat
  BY <1>1
<1>3. \A s \in 0 .. gr.n - 1 : h[s] \in 0 .. gr.n - 1
  BY DEF RanksDown
<1> DEFINE n == gr.n
           l == Len(c.rest)
           z == h[c.s]
<1>4. /\ l * n \in Nat /\ z \in 0 .. n - 1
      /\ l # 0 => (l - 1) * n \in Nat /\ (l - 1) * n + n = l * n
      /\ l + (l + 1) * (n - 1) = (l * n) + (n - 1)
  BY <1>1, <1>2, <1>3, RankArithmetic
<1>5. RankOf(gr, h, c) = (l * n) + z /\ Longest(gr, c.rest) = (l * n) + (n - 1)
  BY <1>4 DEF RankOf, Longest
<1>6. RankOf(gr, h, c) \in Nat /\ RankOf(gr, h, c) <= Longest(gr, c.rest)
  <2> DEFINE m == l * n
  <2>1. m \in Nat /\ z \in 0 .. n - 1 /\ n \in Nat \ {0}
        /\ RankOf(gr, h, c) = m + z /\ Longest(gr, c.rest) = m + (n - 1)
    BY <1>1, <1>4, <1>5
  <2> HIDE DEF m, n, z
  <2> QED
    BY <2>1
<1>7. ASSUME NEW a \in Open(gr, ops, c)
      PROVE  RankOf(gr, h, Behind(ops, c, a)) < RankOf(gr, h, c)
  <2> DEFINE d == Behind(ops, c, a)
  <2>1. d \in Readers(gr) /\ a \in Range(gr.arcs[c.s])
    BY BehindTyped
  <2>2. d.s = a.to /\ d.s \in 0 .. gr.n - 1 /\ h[d.s] \in 0 .. gr.n - 1
    BY <1>3, <2>1 DEF Readers, Behind
  <2>3. CASE a.in = 0 \/ a.in \in DOMAIN ops
    <3>1. d.rest = c.rest
      BY <2>3 DEF Behind
    <3>2. h[d.s] < z
      BY <1>1, <2>1, <2>2, <2>3 DEF RanksDown
    <3>3. RankOf(gr, h, d) = (l * n) + h[d.s]
      BY <3>1 DEF RankOf
    <3> DEFINE m == l * n
               y == h[d.s]
    <3>4. m \in Nat /\ z \in 0 .. n - 1 /\ y \in 0 .. n - 1 /\ y < z /\ n \in Nat
          /\ RankOf(gr, h, c) = m + z /\ RankOf(gr, h, d) = m + y
      BY <1>1, <1>4, <1>5, <2>2, <3>2, <3>3
    <3> HIDE DEF m, n, z, y, d
    <3>5. RankOf(gr, h, d) < RankOf(gr, h, c)
      BY <3>4
    <3> QED
      BY <3>5 DEF d
  <2>4. CASE ~(a.in = 0 \/ a.in \in DOMAIN ops)
    <3>1. d.rest = Tail(c.rest) /\ c.rest # << >>
      BY <2>4 DEF Behind, Open
    <3>2. Len(d.rest) = l - 1 /\ l # 0
      BY <1>1, <3>1
    <3>3. RankOf(gr, h, d) = ((l - 1) * n) + h[d.s]
      BY <3>2 DEF RankOf
    <3> DEFINE m == l * n
               k == (l - 1) * n
               y == h[d.s]
    <3>4. /\ m \in Nat /\ k \in Nat /\ k + n = m /\ n \in Nat
          /\ z \in 0 .. n - 1 /\ y \in 0 .. n - 1
          /\ RankOf(gr, h, c) = m + z /\ RankOf(gr, h, d) = k + y
      BY <1>1, <1>4, <1>5, <2>2, <3>2, <3>3
    <3> HIDE DEF m, n, k, z, y, d
    <3>5. RankOf(gr, h, d) < RankOf(gr, h, c)
      BY <3>4
    <3> QED
      BY <3>5 DEF d
  <2> QED
    BY <2>3, <2>4
<1> QED
  BY <1>6, <1>7

\* Longer paths than a reader can take write nothing more.
LEMMA Settled ==
    ASSUME NEW gr, NEW ops, NEW letters, NEW L, Readable(gr, ops, letters, L), NEW h,
           RanksDown(gr, {0} \cup DOMAIN ops, h), NEW w, WritesUpTo(gr, ops, letters, L, w),
           NEW n \in Nat, NEW e \in Readers(gr), RankOf(gr, h, e) <= n
    PROVE  w[n][e] = w[RankOf(gr, h, e)][e]
<1> DEFINE Good(k) == \A c \in Readers(gr) :
             RankOf(gr, h, c) <= k => w[k][c] = w[RankOf(gr, h, c)][c]
           bad == {k \in Nat : ~Good(k)}
<1>1. bad = {}
  <2> SUFFICES ASSUME bad # {} PROVE FALSE
    BY Zenon
  <2>1. PICK k \in bad : \A j \in bad : k <= j
    <3>1. bad \in SUBSET Nat
      OBVIOUS
    <3> HIDE DEF bad
    <3> QED
      BY <3>1, LeastElement
  <2>2. k \in Nat /\ \A j \in Nat : j < k => Good(j)
    <3>1. k \in Nat
      BY <2>1
    <3>2. ASSUME NEW j \in Nat, j < k PROVE Good(j)
      <4>1. ~(k <= j)
        BY <3>1, <3>2
      <4>2. j \notin bad
        <5> HIDE DEF bad
        <5> QED
          BY <2>1, <4>1
      <4> HIDE DEF Good
      <4> QED
        BY <4>2
    <3> HIDE DEF Good
    <3> QED
      BY <3>1, <3>2
  <2>3. PICK c \in Readers(gr) :
          RankOf(gr, h, c) <= k /\ w[k][c] # w[RankOf(gr, h, c)][c]
    BY <2>1
  <2> DEFINE r == RankOf(gr, h, c)
  <2>4. r \in Nat /\ r < k
    <3>1. r \in Nat
      BY RankFalls
    <3>2. r # k
      BY <2>3
    <3> HIDE DEF r
    <3>3. r <= k /\ k \in Nat
      BY <2>2, <2>3 DEF r
    <3> QED
      BY <3>1, <3>2, <3>3
  <2>5. \A a \in Open(gr, ops, c) :
          /\ Behind(ops, c, a) \in Readers(gr)
          /\ RankOf(gr, h, Behind(ops, c, a)) \in Nat
          /\ RankOf(gr, h, Behind(ops, c, a)) < r
    BY BehindTyped, RankFalls
  <2>6. w[k][c] = Ended(gr, c) \cup Onward(gr, ops, letters, w[k - 1], c)
    BY <2>2, <2>4 DEF WritesUpTo
  <2>7. CASE r = 0
    <3>1. Open(gr, ops, c) = {}
      BY <2>5, <2>7
    <3>2. Onward(gr, ops, letters, w[k - 1], c) = {}
      BY <3>1 DEF Onward
    <3>3. w[r][c] = Ended(gr, c)
      BY <2>7 DEF WritesUpTo
    <3> QED
      BY <2>3, <2>6, <3>2, <3>3
  <2>8. CASE r # 0
    <3>1. w[r][c] = Ended(gr, c) \cup Onward(gr, ops, letters, w[r - 1], c)
      BY <2>4, <2>8 DEF WritesUpTo
    <3>2. ASSUME NEW a \in Open(gr, ops, c)
          PROVE  w[k - 1][Behind(ops, c, a)] = w[r - 1][Behind(ops, c, a)]
      <4> DEFINE d == Behind(ops, c, a)
      <4>1. d \in Readers(gr) /\ RankOf(gr, h, d) \in Nat /\ RankOf(gr, h, d) < r
        BY <2>5
      <4> HIDE DEF d, r
      <4>2. /\ k - 1 \in Nat /\ k - 1 < k /\ RankOf(gr, h, d) <= k - 1
            /\ r - 1 \in Nat /\ r - 1 < k /\ RankOf(gr, h, d) <= r - 1
        BY <2>2, <2>4, <2>8, <4>1
      <4>3. Good(k - 1) /\ Good(r - 1)
        <5> HIDE DEF Good
        <5> QED
          BY <2>2, <4>2
      <4>4. w[k - 1][d] = w[RankOf(gr, h, d)][d] /\ w[r - 1][d] = w[RankOf(gr, h, d)][d]
        BY <4>1, <4>2, <4>3
      <4> QED
        BY <4>4 DEF d
    <3>3. Onward(gr, ops, letters, w[k - 1], c) = Onward(gr, ops, letters, w[r - 1], c)
      BY <3>2, Zenon DEF Onward
    <3> QED
      BY <2>3, <2>6, <3>1, <3>3
  <2> QED
    BY <2>7, <2>8
<1>2. Good(n)
  <2> HIDE DEF Good
  <2> QED
    BY <1>1
<1> QED
  BY <1>2

\* What a reader writes begins with what it writes at its next arc.
LEMMA ReadingsByArcs ==
    ASSUME NEW gr, NEW ops, NEW letters, NEW L, Readable(gr, ops, letters, L),
           NoEmptyLoop(gr, {0} \cup DOMAIN ops), NEW c \in Readers(gr)
    PROVE  /\ Readings(gr, ops, letters, c) \in Writings(L)
           /\ Readings(gr, ops, letters, c) =
                Ended(gr, c) \cup
                  UNION {After(letters[a.out], a.w,
                               Readings(gr, ops, letters, Behind(ops, c, a))) :
                           a \in Open(gr, ops, c)}
<1>1. PICK w : /\ WritesUpTo(gr, ops, letters, L, w)
               /\ \A d : Readings(gr, ops, letters, d) = w[Longest(gr, d.rest)][d]
  BY ReadingsAre
<1>2. PICK h : RanksDown(gr, {0} \cup DOMAIN ops, h)
  BY Zenon DEF NoEmptyLoop, RanksDown
<1>3. ASSUME NEW d \in Readers(gr)
      PROVE  /\ RankOf(gr, h, d) \in Nat
             /\ Readings(gr, ops, letters, d) = w[RankOf(gr, h, d)][d]
             /\ \A k \in Nat : RankOf(gr, h, d) <= k =>
                  w[k][d] = Readings(gr, ops, letters, d)
  <2>1. RankOf(gr, h, d) \in Nat /\ RankOf(gr, h, d) <= Longest(gr, d.rest)
    BY <1>2, RankFalls
  <2>2. Longest(gr, d.rest) \in Nat
    <3>1. gr.n \in Nat \ {0} /\ Len(d.rest) \in Nat
      BY DEF Readable, Readers
    <3> DEFINE n == gr.n
               l == Len(d.rest)
    <3>2. l * n \in Nat /\ l + (l + 1) * (n - 1) = (l * n) + (n - 1)
      BY <3>1, RankArithmetic
    <3>3. (l * n) + (n - 1) \in Nat
      BY <3>1, <3>2
    <3> QED
      BY <3>2, <3>3, Zenon DEF Longest
  <2>3. \A k \in Nat : RankOf(gr, h, d) <= k => w[k][d] = w[RankOf(gr, h, d)][d]
    BY <1>1, <1>2, Settled
  <2> QED
    BY <1>1, <2>1, <2>2, <2>3
<1> DEFINE r == RankOf(gr, h, c)
<1>4. r \in Nat /\ Readings(gr, ops, letters, c) = w[r + 1][c]
  BY <1>3
<1>5. w[r + 1][c] = Ended(gr, c) \cup Onward(gr, ops, letters, w[r], c)
  <2>1. r + 1 \in Nat \ {0} /\ (r + 1) - 1 = r
    BY <1>4
  <2> HIDE DEF r
  <2> QED
    BY <1>1, <2>1 DEF WritesUpTo
<1>6. ASSUME NEW a \in Open(gr, ops, c)
      PROVE  w[r][Behind(ops, c, a)] = Readings(gr, ops, letters, Behind(ops, c, a))
  <2> DEFINE d == Behind(ops, c, a)
  <2>1. d \in Readers(gr) /\ RankOf(gr, h, d) < r
    BY <1>2, BehindTyped, RankFalls
  <2> HIDE DEF d, r
  <2>2. RankOf(gr, h, d) \in Nat /\ RankOf(gr, h, d) <= r
    BY <1>3, <1>4, <2>1
  <2>3. w[r][d] = Readings(gr, ops, letters, d)
    BY <1>3, <1>4, <2>1, <2>2
  <2> QED
    BY <2>3 DEF d
<1>7. Onward(gr, ops, letters, w[r], c) =
        UNION {After(letters[a.out], a.w, Readings(gr, ops, letters, Behind(ops, c, a))) :
                 a \in Open(gr, ops, c)}
  BY <1>6, Zenon DEF Onward
<1>8. w[r + 1][c] \in Writings(L)
  BY <1>1, <1>4 DEF WritesUpTo
<1> QED
  BY <1>4, <1>5, <1>7, <1>8
-----------------------------------------------------------------------------
(* The lexicon and the error model *)

\* The operators of OlSpeller with the graphs as parameters, so that a step that
\* leaves the graphs alone leaves them alone.
EntriesIn(lex, l, v, x) ==
    Readings(lex, FlagOp, Written, [s |-> l, values |-> v, rest |-> x])
RewritingsIn(mut, m, x) ==
    Readings(mut, << >>, Rewritten, [s |-> m, values |-> Neutral, rest |-> x])

IsLexicon(lex) == lex \in Graphs /\ NoEmptyLoop(lex, Zero)
IsMutator(mut) == mut \in Mutators /\ NoEmptyLoop(mut, {0})

LEMMA NeutralTyped == Neutral \in [Features -> Int]
BY DEF Neutral

LEMMA LexiconReadable ==
    ASSUME NEW lex \in Graphs
    PROVE  Readable(lex, FlagOp, Written, Nat)
<1>1. IsGraph(lex)
  BY GraphsAssumption
<1>2. \A x \in DOMAIN FlagOp : FlagOp[x] \in Operations
  BY SymbolsAssumption
<1>3. ASSUME NEW s \in 0 .. lex.n - 1, NEW a \in Range(lex.arcs[s])
      PROVE  a.to \in 0 .. lex.n - 1 /\ a.w \in Nat /\ Written[a.out] \in Seq(Nat)
  <2>1. a.to \in 0 .. lex.n - 1 /\ a.w \in Nat /\ a.out \in 0 .. ORIG_SYMBOL_COUNT - 1
    BY <1>1, <1>3, ArcsAreArcs DEF AnArc
  <2>2. Written[a.out] = IF a.out \in Zero THEN << >> ELSE <<a.out>>
    BY <2>1 DEF Written
  <2>3. a.out \in Nat
    BY <2>1, SymbolsAssumption
  <2>4. << >> \in Seq(Nat) /\ <<a.out>> \in Seq(Nat)
    BY <2>3
  <2> QED
    BY <2>1, <2>2, <2>4
<1> QED
  BY <1>1, <1>2, <1>3 DEF Readable, IsGraph

\* An arc of an error model writes nothing or a letter of the lexicon.
MutatorArc(mut, a) ==
    /\ a.in \in Nat /\ a.to \in 0 .. mut.n - 1 /\ a.w \in Nat
    /\ a.out \in 0 .. MUTATOR_SYMBOL_COUNT - 1
    /\ a.out # 0 => alphabet_translator[a.out] \in Nat \ Zero
                    /\ alphabet_translator[a.out] \in 0 .. ORIG_SYMBOL_COUNT - 1

LEMMA MutatorsHave ==
    ASSUME NEW mut \in Mutators
    PROVE  /\ mut.n \in Nat \ {0}
           /\ \A s \in DOMAIN mut.final : mut.final[s] \in Nat
           /\ \A m \in 0 .. mut.n - 1 :
                /\ mut.arcs[m] \in Seq(Range(mut.arcs[m]))
                /\ \A a \in Range(mut.arcs[m]) : MutatorArc(mut, a)
                /\ \A x : Together(mut, m, {x})
<1>1. Mutator!IsGraph(mut)
  BY SpellerAssumption
<1> DEFINE A == [in : 0 .. MUTATOR_SYMBOL_COUNT - 1, out : 0 .. MUTATOR_SYMBOL_COUNT - 1,
                 to : 0 .. mut.n - 1, w : Nat]
<1>2. /\ mut.n \in Nat \ {0} /\ mut.arcs \in [0 .. mut.n - 1 -> Seq(A)]
      /\ \A s \in DOMAIN mut.final : mut.final[s] \in Nat
      /\ \A s \in 0 .. mut.n - 1 : \A i, j \in DOMAIN mut.arcs[s] :
           LET x == mut.arcs[s][i].in
               y == mut.arcs[s][j].in
           IN  i < j => \/ x \in Mutator!Zero /\ y \notin Mutator!Zero
                        \/ (x \in Mutator!Zero <=> y \in Mutator!Zero) /\ x <= y
  BY <1>1 DEF Mutator!IsGraph
<1>3. \A x : x \in Mutator!Zero <=> x = 0
  BY DEF Mutator!Zero, Mutator!Flags
<1>4. MUTATOR_SYMBOL_COUNT \in Nat \ {0}
  BY SpellerAssumption
<1>5. ASSUME NEW m \in 0 .. mut.n - 1
      PROVE  /\ mut.arcs[m] \in Seq(Range(mut.arcs[m]))
             /\ \A a \in Range(mut.arcs[m]) : MutatorArc(mut, a)
             /\ \A x : Together(mut, m, {x})
  <2> DEFINE arcs == mut.arcs[m]
  <2>1. arcs \in Seq(A) /\ DOMAIN mut.arcs = 0 .. mut.n - 1
    BY <1>2
  <2>2. arcs \in Seq(Range(arcs)) /\ Range(arcs) \subseteq A
    <3> HIDE DEF A, arcs
    <3>1. /\ Len(arcs) \in Nat /\ Range(arcs) \subseteq A /\ DOMAIN arcs = 1 .. Len(arcs)
          /\ \A i \in 1 .. Len(arcs) : arcs[i] \in Range(arcs)
      BY <2>1, ElementsOfSeq
    <3>2. arcs = [i \in 1 .. Len(arcs) |-> arcs[i]]
      BY <2>1
    <3> QED
      BY <3>1, <3>2
  <2>3. ASSUME NEW a \in Range(arcs) PROVE MutatorArc(mut, a)
    <3>1. /\ a.in \in 0 .. MUTATOR_SYMBOL_COUNT - 1 /\ a.out \in 0 .. MUTATOR_SYMBOL_COUNT - 1
          /\ a.to \in 0 .. mut.n - 1 /\ a.w \in Nat
      BY <2>2, <2>3
    <3>2. alphabet_translator[a.out] # NO_SYMBOL
      BY <2>1, <2>3, SpellerAssumption
    <3>3. alphabet_translator[a.out] \in 0 .. ORIG_SYMBOL_COUNT - 1
          /\ (alphabet_translator[a.out] \in Zero <=> a.out = 0)
      BY <3>1, <3>2, SpellerAssumption
    <3>4. 0 .. ORIG_SYMBOL_COUNT - 1 \subseteq Nat
      BY SymbolsAssumption
    <3>5. a.in \in Nat
      BY <1>4, <3>1
    <3> QED
      BY <3>1, <3>3, <3>4, <3>5 DEF MutatorArc
  <2>4. ASSUME NEW x PROVE Together(mut, m, {x})
    <3> SUFFICES ASSUME NEW i \in DOMAIN arcs, NEW j \in DOMAIN arcs, NEW k \in DOMAIN arcs,
                        i < j, j < k, arcs[i].in = x, arcs[k].in = x
                 PROVE  arcs[j].in = x
      BY DEF Together
    <3> DEFINE z == arcs[j].in
    <3>1. /\ (x = 0 /\ z # 0) \/ ((x = 0 <=> z = 0) /\ x <= z)
          /\ (z = 0 /\ x # 0) \/ ((z = 0 <=> x = 0) /\ z <= x)
      BY <1>2, <1>3
    <3>2. x \in Nat /\ z \in Nat
      <4>1. \A q \in DOMAIN arcs : arcs[q] \in Range(arcs)
        BY DEF Range
      <4> QED
        BY <2>3, <4>1 DEF MutatorArc
    <3> HIDE DEF z
    <3>3. z = x
      BY <3>1, <3>2
    <3> QED
      BY <3>3 DEF z
  <2> QED
    BY <2>2, <2>3, <2>4
<1> QED
  BY <1>2, <1>5

LEMMA MutatorReadable ==
    ASSUME NEW mut \in Mutators
    PROVE  Readable(mut, << >>, Rewritten, Nat \ Zero)
<1>1. ASSUME NEW s \in 0 .. mut.n - 1, NEW a \in Range(mut.arcs[s])
      PROVE  /\ a.to \in 0 .. mut.n - 1 /\ a.w \in Nat
             /\ Rewritten[a.out] \in Seq(Nat \ Zero)
  <2>1. MutatorArc(mut, a)
    BY <1>1, MutatorsHave
  <2>2. Rewritten[a.out] = IF a.out = 0 THEN << >> ELSE <<alphabet_translator[a.out]>>
    <3>1. DOMAIN alphabet_translator = 0 .. MUTATOR_SYMBOL_COUNT - 1
      BY SpellerAssumption
    <3> QED
      BY <2>1, <3>1 DEF Rewritten, MutatorArc
  <2>3. << >> \in Seq(Nat \ Zero)
    OBVIOUS
  <2>4. a.out # 0 => <<alphabet_translator[a.out]>> \in Seq(Nat \ Zero)
    <3> SUFFICES ASSUME a.out # 0 PROVE <<alphabet_translator[a.out]>> \in Seq(Nat \ Zero)
      OBVIOUS
    <3> DEFINE S == Nat \ Zero
    <3>1. alphabet_translator[a.out] \in S
      BY <2>1 DEF MutatorArc
    <3> HIDE DEF S
    <3>2. <<alphabet_translator[a.out]>> \in Seq(S)
      BY <3>1
    <3> QED
      BY <3>2 DEF S
  <2> QED
    BY <2>1, <2>2, <2>3, <2>4 DEF MutatorArc
<1> QED
  BY <1>1, MutatorsHave DEF Readable
\* The flag values behind an arc of the lexicon.
PastFlag(a, v) == IF a.in \in Flags THEN Applied(FlagOp[a.in], v) ELSE v

\* The entry e is written by an epsilon or flag arc a and what follows it, or by
\* an arc that reads.
EntersFree(lex, a, v, x, e) ==
    /\ a.in \in Zero /\ (a.in \in Flags => Allows(FlagOp[a.in], v))
    /\ e \in After(Written[a.out], a.w, EntriesIn(lex, a.to, PastFlag(a, v), x))
EntersReading(lex, a, v, x, e) ==
    /\ x # << >> /\ a.in = Head(x)
    /\ e \in After(Written[a.out], a.w, EntriesIn(lex, a.to, v, Tail(x)))

Letters == Nat \ Zero

LEMMA EntriesBy ==
    ASSUME NEW lex, IsLexicon(lex), NEW l \in 0 .. lex.n - 1,
           NEW v \in [Features -> Int], NEW x \in Seq(Letters)
    PROVE  /\ EntriesIn(lex, l, v, x) \in Writings(Nat)
           /\ \A e : e \in EntriesIn(lex, l, v, x) <=>
                \/ x = << >> /\ l \in DOMAIN lex.final /\ e = << << >>, lex.final[l]>>
                \/ \E a \in Range(lex.arcs[l]) :
                     EntersFree(lex, a, v, x, e) \/ EntersReading(lex, a, v, x, e)
<1> DEFINE c == [s |-> l, values |-> v, rest |-> x]
<1>1. x \in Seq(Nat)
  BY DEF Letters
<1>2. c \in Readers(lex) /\ c.s = l /\ c.values = v /\ c.rest = x
  BY <1>1 DEF Readers
<1>3. Zero = {0} \cup DOMAIN FlagOp
  BY DEF Zero, Flags
<1>4. /\ EntriesIn(lex, l, v, x) \in Writings(Nat)
      /\ EntriesIn(lex, l, v, x) =
           Ended(lex, c) \cup
             UNION {After(Written[a.out], a.w,
                          Readings(lex, FlagOp, Written, Behind(FlagOp, c, a))) :
                      a \in Open(lex, FlagOp, c)}
  <2>1. Readable(lex, FlagOp, Written, Nat) /\ NoEmptyLoop(lex, {0} \cup DOMAIN FlagOp)
    BY <1>3, LexiconReadable DEF IsLexicon
  <2>2. EntriesIn(lex, l, v, x) = Readings(lex, FlagOp, Written, c)
    BY DEF EntriesIn
  <2> HIDE DEF c
  <2> QED
    BY <1>2, <2>1, <2>2, ReadingsByArcs
<1>5. x # << >> => Head(x) \notin Zero
  BY DEF Letters
<1>6. ASSUME NEW a \in Range(lex.arcs[l])
      PROVE  /\ a \in Open(lex, FlagOp, c) <=>
                  \/ a.in \in Zero /\ (a.in \in Flags => Allows(FlagOp[a.in], v))
                  \/ x # << >> /\ a.in = Head(x)
             /\ a.in \in Zero =>
                  Behind(FlagOp, c, a) = [s |-> a.to, values |-> PastFlag(a, v), rest |-> x]
             /\ a.in \notin Zero =>
                  Behind(FlagOp, c, a) = [s |-> a.to, values |-> v, rest |-> Tail(x)]
  <2>1. 0 \notin Flags
    BY SymbolsAssumption
  <2>2. a \in Open(lex, FlagOp, c) <=>
          \/ a.in = 0
          \/ a.in \in DOMAIN FlagOp /\ Allows(FlagOp[a.in], v)
          \/ x # << >> /\ a.in = Head(x)
    BY <1>2, Zenon DEF Open
  <2>3. Behind(FlagOp, c, a) =
          [s |-> a.to,
           values |-> IF a.in \in DOMAIN FlagOp THEN Applied(FlagOp[a.in], v) ELSE v,
           rest |-> IF a.in = 0 \/ a.in \in DOMAIN FlagOp THEN x ELSE Tail(x)]
    BY <1>2, Zenon DEF Behind
  <2>4. CASE a.in \in Zero
    <3>1. a.in = 0 \/ a.in \in DOMAIN FlagOp
      BY <1>3, <2>4
    <3>2. Behind(FlagOp, c, a) = [s |-> a.to, values |-> PastFlag(a, v), rest |-> x]
      BY <2>3, <3>1, Zenon DEF PastFlag, Flags
    <3>3. a.in = 0 => a.in \notin Flags
      BY <2>1
    <3> QED
      BY <2>2, <2>4, <3>1, <3>2, <3>3 DEF Flags
  <2>5. CASE a.in \notin Zero
    <3>1. a.in # 0 /\ a.in \notin DOMAIN FlagOp
      BY <1>3, <2>5
    <3>2. Behind(FlagOp, c, a) = [s |-> a.to, values |-> v, rest |-> Tail(x)]
      BY <2>3, <3>1, Zenon
    <3> QED
      BY <2>2, <2>5, <3>1, <3>2
  <2> QED
    BY <2>4, <2>5
<1>7. \A a \in Open(lex, FlagOp, c) : a \in Range(lex.arcs[l])
  BY <1>2 DEF Open
<1>8. ASSUME NEW e, NEW a \in Range(lex.arcs[l])
      PROVE  (/\ a \in Open(lex, FlagOp, c)
              /\ e \in After(Written[a.out], a.w,
                             Readings(lex, FlagOp, Written, Behind(FlagOp, c, a))))
               <=> EntersFree(lex, a, v, x, e) \/ EntersReading(lex, a, v, x, e)
  <2>1. CASE a.in \in Zero
    <3>1. ~EntersReading(lex, a, v, x, e)
      BY <1>5, <2>1 DEF EntersReading
    <3>2. Readings(lex, FlagOp, Written, Behind(FlagOp, c, a))
            = EntriesIn(lex, a.to, PastFlag(a, v), x)
      BY <1>6, <2>1, Zenon DEF EntriesIn
    <3> HIDE DEF c
    <3> QED
      BY <1>5, <1>6, <2>1, <3>1, <3>2, Zenon DEF EntersFree
  <2>2. CASE a.in \notin Zero
    <3>1. ~EntersFree(lex, a, v, x, e)
      BY <2>2 DEF EntersFree
    <3>2. Readings(lex, FlagOp, Written, Behind(FlagOp, c, a))
            = EntriesIn(lex, a.to, v, Tail(x))
      BY <1>6, <2>2, Zenon DEF EntriesIn
    <3> HIDE DEF c
    <3> QED
      BY <1>6, <2>2, <3>1, <3>2, Zenon DEF EntersReading
  <2> QED
    BY <2>1, <2>2
<1>9. \A e : e \in Ended(lex, c) <=>
               x = << >> /\ l \in DOMAIN lex.final /\ e = << << >>, lex.final[l]>>
  BY <1>2 DEF Ended
<1> HIDE DEF c
<1>10. ASSUME NEW e
       PROVE  e \in EntriesIn(lex, l, v, x) <=>
                \/ e \in Ended(lex, c)
                \/ \E a \in Open(lex, FlagOp, c) :
                     e \in After(Written[a.out], a.w,
                                 Readings(lex, FlagOp, Written, Behind(FlagOp, c, a)))
  BY <1>4
<1> QED
  BY <1>4, <1>7, <1>8, <1>9, <1>10, Zenon

RewritesFree(mut, a, x, r) ==
    a.in = 0 /\ r \in After(Rewritten[a.out], a.w, RewritingsIn(mut, a.to, x))
RewritesReading(mut, a, x, r) ==
    /\ x # << >> /\ a.in = Head(x)
    /\ r \in After(Rewritten[a.out], a.w, RewritingsIn(mut, a.to, Tail(x)))

LEMMA RewritingsBy ==
    ASSUME NEW mut, IsMutator(mut), NEW m \in 0 .. mut.n - 1, NEW x \in Seq(Nat \ {0})
    PROVE  /\ RewritingsIn(mut, m, x) \in Writings(Letters)
           /\ \A r : r \in RewritingsIn(mut, m, x) <=>
                \/ x = << >> /\ m \in DOMAIN mut.final /\ r = << << >>, mut.final[m]>>
                \/ \E a \in Range(mut.arcs[m]) :
                     RewritesFree(mut, a, x, r) \/ RewritesReading(mut, a, x, r)
<1> DEFINE c == [s |-> m, values |-> Neutral, rest |-> x]
<1>1. x \in Seq(Nat)
  OBVIOUS
<1>2. c \in Readers(mut) /\ c.s = m /\ c.values = Neutral /\ c.rest = x
  BY <1>1, NeutralTyped DEF Readers
<1>3. DOMAIN << >> = {}
  OBVIOUS
<1>4. /\ RewritingsIn(mut, m, x) \in Writings(Letters)
      /\ RewritingsIn(mut, m, x) =
           Ended(mut, c) \cup
             UNION {After(Rewritten[a.out], a.w,
                          Readings(mut, << >>, Rewritten, Behind(<< >>, c, a))) :
                      a \in Open(mut, << >>, c)}
  <2>1. Readable(mut, << >>, Rewritten, Letters) /\ NoEmptyLoop(mut, {0} \cup DOMAIN << >>)
    <3>1. {0} \cup DOMAIN << >> = {0}
      BY <1>3
    <3> QED
      BY <3>1, MutatorReadable, Zenon DEF IsMutator, Letters
  <2>2. RewritingsIn(mut, m, x) = Readings(mut, << >>, Rewritten, c)
    BY DEF RewritingsIn
  <2> HIDE DEF c
  <2> QED
    BY <1>2, <2>1, <2>2, ReadingsByArcs
<1>5. x # << >> => Head(x) # 0
  OBVIOUS
<1>6. ASSUME NEW a \in Range(mut.arcs[m])
      PROVE  /\ a \in Open(mut, << >>, c) <=> a.in = 0 \/ (x # << >> /\ a.in = Head(x))
             /\ a.in = 0 =>
                  Behind(<< >>, c, a) = [s |-> a.to, values |-> Neutral, rest |-> x]
             /\ a.in # 0 =>
                  Behind(<< >>, c, a) = [s |-> a.to, values |-> Neutral, rest |-> Tail(x)]
  <2>2. a \in Open(mut, << >>, c) <=>
          \/ a.in = 0
          \/ a.in \in DOMAIN << >> /\ Allows(<< >>[a.in], Neutral)
          \/ x # << >> /\ a.in = Head(x)
    BY <1>2, Zenon DEF Open
  <2>3. Behind(<< >>, c, a) =
          [s |-> a.to,
           values |-> IF a.in \in DOMAIN << >> THEN Applied(<< >>[a.in], Neutral) ELSE Neutral,
           rest |-> IF a.in = 0 \/ a.in \in DOMAIN << >> THEN x ELSE Tail(x)]
    BY <1>2, Zenon DEF Behind
  <2>4. a.in \notin DOMAIN << >>
    BY <1>3
  <2> HIDE DEF c
  <2>5. a \in Open(mut, << >>, c) <=> a.in = 0 \/ (x # << >> /\ a.in = Head(x))
    BY <2>2, <2>4, Zenon
  <2>6. Behind(<< >>, c, a) =
          [s |-> a.to, values |-> Neutral, rest |-> IF a.in = 0 THEN x ELSE Tail(x)]
    BY <2>3, <2>4, Zenon
  <2> QED
    BY <2>5, <2>6, Zenon
<1>7. \A a \in Open(mut, << >>, c) : a \in Range(mut.arcs[m])
  BY <1>2 DEF Open
<1>8. ASSUME NEW r, NEW a \in Range(mut.arcs[m])
      PROVE  (/\ a \in Open(mut, << >>, c)
              /\ r \in After(Rewritten[a.out], a.w,
                             Readings(mut, << >>, Rewritten, Behind(<< >>, c, a))))
               <=> RewritesFree(mut, a, x, r) \/ RewritesReading(mut, a, x, r)
  <2>1. CASE a.in = 0
    <3>1. ~RewritesReading(mut, a, x, r)
      BY <1>5, <2>1 DEF RewritesReading
    <3>2. Readings(mut, << >>, Rewritten, Behind(<< >>, c, a)) = RewritingsIn(mut, a.to, x)
      BY <1>6, <2>1, Zenon DEF RewritingsIn
    <3> HIDE DEF c
    <3> QED
      BY <1>5, <1>6, <2>1, <3>1, <3>2, Zenon DEF RewritesFree
  <2>2. CASE a.in # 0
    <3>1. ~RewritesFree(mut, a, x, r)
      BY <2>2 DEF RewritesFree
    <3>2. Readings(mut, << >>, Rewritten, Behind(<< >>, c, a)) = RewritingsIn(mut, a.to, Tail(x))
      BY <1>6, <2>2, Zenon DEF RewritingsIn
    <3> HIDE DEF c
    <3> QED
      BY <1>6, <2>2, <3>1, <3>2, Zenon DEF RewritesReading
  <2> QED
    BY <2>1, <2>2
<1>9. \A r : r \in Ended(mut, c) <=>
               x = << >> /\ m \in DOMAIN mut.final /\ r = << << >>, mut.final[m]>>
  BY <1>2 DEF Ended
<1> HIDE DEF c
<1>10. ASSUME NEW r
       PROVE  r \in RewritingsIn(mut, m, x) <=>
                \/ r \in Ended(mut, c)
                \/ \E a \in Open(mut, << >>, c) :
                     r \in After(Rewritten[a.out], a.w,
                                 Readings(mut, << >>, Rewritten, Behind(<< >>, c, a)))
  BY <1>4
<1> QED
  BY <1>4, <1>7, <1>8, <1>9, <1>10, Zenon
-----------------------------------------------------------------------------
(* Strings without epsilons, flags or what has no name *)

Kept(x, X) == IF x \in X THEN << >> ELSE <<x>>

LEMMA WithoutNothing == ASSUME NEW X PROVE Without(<< >>, X) = << >>
<1> DEFINE q == [i \in DOMAIN << >> |-> IF << >>[i] \in X THEN << >> ELSE <<(<< >>)[i]>>]
<1>1. Without(<< >>, X) = FlattenSeq(q)
  BY DEF Without
<1>2. q = << >> /\ Len(q) = 0
  OBVIOUS
<1> QED
  BY <1>1, <1>2, FlattenEmpty

GrowsByKept(s, x, X, S) ==
    /\ Without(s, X) \in Seq(S)
    /\ Without(Append(s, x), X) = Without(s, X) \o Kept(x, X)

LEMMA WithoutAppend ==
    ASSUME NEW S, NEW s \in Seq(S), NEW x \in S, NEW X
    PROVE  GrowsByKept(s, x, X, S)
<1> DEFINE t == Append(s, x)
           q == [i \in DOMAIN t |-> Kept(t[i], X)]
           p == [i \in DOMAIN s |-> Kept(s[i], X)]
<1>1. /\ t \in Seq(S) /\ DOMAIN t = 1 .. Len(s) + 1 /\ t[Len(s) + 1] = x
      /\ \A i \in 1 .. Len(s) : t[i] = s[i]
      /\ DOMAIN s = 1 .. Len(s) /\ Len(s) \in Nat
  OBVIOUS
<1>2. Without(t, X) = FlattenSeq(q) /\ Without(s, X) = FlattenSeq(p)
  BY Zenon DEF Without, Kept
<1>3. \A y \in S : Kept(y, X) \in Seq(S)
  <2> SUFFICES ASSUME NEW y \in S PROVE Kept(y, X) \in Seq(S)
    OBVIOUS
  <2>1. << >> \in Seq(S) /\ <<y>> \in Seq(S)
    OBVIOUS
  <2> QED
    BY <2>1 DEF Kept
<1> HIDE DEF t
<1>4. q \in Seq(Seq(S)) /\ Len(q) = Len(s) + 1 /\ q[Len(q)] = Kept(x, X)
  <2>1. \A i \in 1 .. Len(s) + 1 : Kept(t[i], X) \in Seq(S)
    BY <1>1, <1>3
  <2>2. q \in [1 .. Len(s) + 1 -> Seq(S)]
    BY <1>1, <2>1
  <2> HIDE DEF q
  <2>3. q \in Seq(Seq(S)) /\ Len(q) = Len(s) + 1
    <3> DEFINE T == Seq(S)
               n == Len(s) + 1
    <3>1. q \in [1 .. n -> T] /\ n \in Nat
      BY <1>1, <2>2
    <3> HIDE DEF T, n
    <3>2. q \in Seq(T) /\ Len(q) = n
      BY <3>1
    <3> QED
      BY <3>2 DEF T, n
  <2>4. Len(s) + 1 \in DOMAIN t
    BY <1>1
  <2>5. q[Len(s) + 1] = Kept(x, X)
    BY <1>1, <2>4 DEF q
  <2> QED
    BY <2>3, <2>5
<1>5. ButLast(q) = p
  <2>1. ButLast(q) = [i \in 1 .. Len(q) - 1 |-> q[i]] /\ Len(q) - 1 = Len(s)
    BY <1>1, <1>4 DEF ButLast
  <2>2. \A i \in 1 .. Len(s) : q[i] = Kept(s[i], X)
    BY <1>1
  <2> HIDE DEF q
  <2> QED
    BY <1>1, <2>1, <2>2
<1>6. Len(q) # 0
  BY <1>1, <1>4
<1> HIDE DEF q, p
<1>7. FlattenSeq(p) \in Seq(S) /\ FlattenSeq(q) = FlattenSeq(p) \o q[Len(q)]
  BY <1>4, <1>5, <1>6, FlattenLast
<1> QED
  BY <1>2, <1>4, <1>7 DEF GrowsByKept, t

\* A sequence is all but its last element, and that.
LEMMA LastOfSeq ==
    ASSUME NEW S, NEW u \in Seq(S), u # << >>
    PROVE  /\ ButLast(u) \in Seq(S) /\ u[Len(u)] \in S /\ u = Append(ButLast(u), u[Len(u)])
           /\ Len(ButLast(u)) = Len(u) - 1 /\ Len(u) \in Nat \ {0}
<1> DEFINE p == ButLast(u)
           x == u[Len(u)]
<1>1. Len(u) \in Nat \ {0} /\ \A i \in 1 .. Len(u) : u[i] \in S
  OBVIOUS
<1>2. /\ p \in Seq(S) /\ Len(p) = Len(u) - 1
      /\ \A i \in 1 .. Len(u) - 1 : p[i] = u[i]
  BY <1>1 DEF ButLast
<1>3. x \in S
  BY <1>1
<1> HIDE DEF p, x
<1>4. /\ Append(p, x) \in Seq(S) /\ Len(Append(p, x)) = Len(u)
      /\ \A i \in 1 .. Len(u) - 1 : Append(p, x)[i] = u[i]
      /\ Append(p, x)[Len(u)] = x
  BY <1>1, <1>2, <1>3
<1>5. \A i \in 1 .. Len(u) : Append(p, x)[i] = u[i]
  BY <1>1, <1>4 DEF x
<1>6. u = Append(p, x)
  BY <1>4, <1>5
<1> QED
  BY <1>1, <1>2, <1>3, <1>6 DEF p, x

WithoutLast(u, Z, S) ==
    /\ Without(u, Z) = Without(ButLast(u), Z) \o Kept(u[Len(u)], Z)
    /\ Without(ButLast(u), Z) \in Seq(S)

LEMMA WithoutByLast ==
    ASSUME NEW S, NEW u \in Seq(S), u # << >>, NEW Z
    PROVE  WithoutLast(u, Z, S)
<1>1. ButLast(u) \in Seq(S) /\ u[Len(u)] \in S /\ u = Append(ButLast(u), u[Len(u)])
  BY LastOfSeq
<1> DEFINE p == ButLast(u)
           x == u[Len(u)]
<1>2. p \in Seq(S) /\ x \in S
  BY <1>1
<1> HIDE DEF p, x
<1>3. Without(p, Z) \in Seq(S) /\ Without(Append(p, x), Z) = Without(p, Z) \o Kept(x, Z)
  <2>1. GrowsByKept(p, x, Z, S)
    BY <1>2, WithoutAppend, Zenon
  <2> QED
    BY <2>1, Zenon DEF GrowsByKept
<1> QED
  BY <1>1, <1>3, Zenon DEF WithoutLast, p, x

\* What was left out before is left out.
LEMMA WithoutTwice ==
    ASSUME NEW S, NEW s \in Seq(S), NEW X, NEW Y, X \subseteq Y
    PROVE  /\ Without(s, X) \in Seq(S)
           /\ Without(Without(s, X), Y) = Without(s, Y)
<1> DEFINE Good(u) == /\ Without(u, X) \in Seq(S)
                      /\ Without(Without(u, X), Y) = Without(u, Y)
           bad == {m \in Nat : \E u \in Seq(S) : Len(u) = m /\ ~Good(u)}
<1>1. bad = {}
  <2> SUFFICES ASSUME bad # {} PROVE FALSE
    BY Zenon
  <2>1. PICK m \in bad : \A i \in bad : m <= i
    <3>1. bad \in SUBSET Nat
      OBVIOUS
    <3> HIDE DEF bad
    <3> QED
      BY <3>1, LeastElement
  <2>2. PICK u \in Seq(S) : Len(u) = m /\ ~Good(u)
    BY <2>1
  <2>3. CASE u = << >>
    <3>1. << >> \in Seq(S)
      OBVIOUS
    <3> QED
      BY <2>2, <2>3, <3>1, WithoutNothing
  <2>4. CASE u # << >>
    <3> DEFINE p == ButLast(u)
               x == u[Len(u)]
    <3>1. p \in Seq(S) /\ x \in S /\ u = Append(p, x) /\ Len(p) = Len(u) - 1
          /\ Len(u) \in Nat \ {0}
      BY <2>4, LastOfSeq
    <3> HIDE DEF p, x
    <3>2. Good(p)
      <4>1. Len(p) \in Nat /\ ~(m <= Len(p))
        BY <2>2, <3>1
      <4>2. Len(p) \notin bad
        <5> HIDE DEF bad
        <5> QED
          BY <2>1, <4>1
      <4> HIDE DEF Good
      <4> QED
        BY <3>1, <4>1, <4>2
    <3>3. /\ Without(u, X) = Without(p, X) \o Kept(x, X)
          /\ Without(u, Y) = Without(p, Y) \o Kept(x, Y)
          /\ Without(p, Y) \in Seq(S)
      <4>1. \A Z : WithoutLast(u, Z, S)
        BY <2>4, WithoutByLast
      <4> QED
        BY <4>1, Zenon DEF WithoutLast, p, x
    <3> DEFINE r == Without(p, X)
    <3>4. r \in Seq(S) /\ Without(r, Y) = Without(p, Y)
      BY <3>2
    <3> HIDE DEF r
    <3>5. CASE x \in X
      <4>1. Kept(x, X) = << >> /\ Kept(x, Y) = << >>
        BY <3>5 DEF Kept
      <4>2. Without(u, X) = r /\ Without(u, Y) = Without(p, Y)
        <5>1. r \o << >> = r
          BY <3>4
        <5>2. Without(p, Y) \o << >> = Without(p, Y)
          BY <3>3
        <5> QED
          BY <3>3, <4>1, <5>1, <5>2, Zenon DEF r
      <4> QED
        BY <2>2, <3>4, <4>2
    <3>6. CASE x \notin X
      <4>1. Kept(x, X) = <<x>>
        BY <3>6 DEF Kept
      <4>2. Without(u, X) = Append(r, x)
        <5>1. r \o <<x>> = Append(r, x)
          BY <3>1, <3>4
        <5> QED
          BY <3>3, <4>1, <5>1, Zenon DEF r
      <4>3. Without(Append(r, x), Y) = Without(r, Y) \o Kept(x, Y) /\ Append(r, x) \in Seq(S)
        <5>1. Append(r, x) \in Seq(S)
          BY <3>1, <3>4
        <5>2. r \in Seq(S) /\ x \in S
          BY <3>1, <3>4
        <5>3. Without(Append(r, x), Y) = Without(r, Y) \o Kept(x, Y)
          <6>1. GrowsByKept(r, x, Y, S)
            BY <5>2, WithoutAppend, Zenon
          <6> QED
            BY <6>1, Zenon DEF GrowsByKept
        <5> QED
          BY <5>1, <5>3
      <4>4. Good(u)
        BY <3>3, <3>4, <4>2, <4>3, Zenon
      <4> QED
        BY <2>2, <4>4
    <3> QED
      BY <3>5, <3>6
  <2> QED
    BY <2>3, <2>4
<1>2. Len(s) \in Nat
  OBVIOUS
<1>3. Good(s)
  <2> HIDE DEF Good
  <2> QED
    BY <1>1, <1>2
<1> QED
  BY <1>3

Symbols == 0 .. ORIG_SYMBOL_COUNT - 1

\* A symbol is seen if Written has it, and names do not change what is seen.
LEMMA SurfaceGrows ==
    ASSUME NEW s \in Seq(Symbols), NEW x \in Symbols
    PROVE  /\ Surface(s) \in Seq(Symbols)
           /\ Surface(Append(s, x)) = Surface(s) \o Written[x]
<1>1. Kept(x, Zero) = Written[x]
  BY DEF Kept, Written, Symbols
<1>2. GrowsByKept(s, x, Zero, Symbols)
  BY WithoutAppend, Zenon
<1> QED
  BY <1>1, <1>2, Zenon DEF Surface, GrowsByKept

LEMMA SurfaceOfName ==
    ASSUME NEW s \in Seq(Symbols)
    PROVE  Stringify(s) \in Seq(Symbols) /\ Surface(Stringify(s)) = Surface(s)
<1>1. Silent \subseteq Zero
  BY SpellerAssumption
<1>2. Without(s, Silent) \in Seq(Symbols) /\ Without(Without(s, Silent), Zero) = Without(s, Zero)
  BY <1>1, WithoutTwice
<1> QED
  BY <1>2, Zenon DEF Surface, Stringify
-----------------------------------------------------------------------------
(* Nodes, and the nodes they lead to *)

Nodes(lex, mut) ==
    [string : Seq(Symbols), pos : Nat, m : 0 .. mut.n - 1, l : 0 .. lex.n - 1,
     values : [Features -> Int], weight : Nat]

Child(n, out, pos, m, l, w, values) ==
    [string |-> Append(n.string, out), pos |-> pos, m |-> m, l |-> l, values |-> values,
     weight |-> n.weight + w]

LEMMA UpdateIs ==
    ASSUME NEW lex, NEW mut, NEW n \in Nodes(lex, mut), NEW x, NEW pos, NEW m, NEW l, NEW w
    PROVE  Update(n, x, pos, m, l, w) = Child(n, x, pos, m, l, w, n.values)
BY Zenon DEF Update, Child

LEMMA PassedIs ==
    ASSUME NEW lex, NEW mut, NEW n \in Nodes(lex, mut), NEW a
    PROVE  \A p : p \in Range(Passed(n, a)) <=>
                    /\ a.in \in Flags => Allows(FlagOp[a.in], n.values)
                    /\ p = Child(n, a.out, n.pos, n.m, a.to, a.w, PastFlag(a, n.values))
<1> DEFINE u == Update(n, a.out, n.pos, n.m, a.to, a.w)
<1>1. u = Child(n, a.out, n.pos, n.m, a.to, a.w, n.values)
  BY UpdateIs
<1>2. [u EXCEPT !.values = Applied(FlagOp[a.in], n.values)]
        = Child(n, a.out, n.pos, n.m, a.to, a.w, Applied(FlagOp[a.in], n.values))
  <2> DEFINE s == Append(n.string, a.out)
             v == Applied(FlagOp[a.in], n.values)
             w == n.weight + a.w
             i == n.pos
             j == n.m
             k == a.to
             old == n.values
  <2>1. u = [string |-> s, pos |-> i, m |-> j, l |-> k, values |-> old, weight |-> w]
    BY Zenon DEF Update
  <2> HIDE DEF s, v, w, i, j, k, old
  <2>2. [[string |-> s, pos |-> i, m |-> j, l |-> k, values |-> old, weight |-> w]
           EXCEPT !.values = v]
          = [string |-> s, pos |-> i, m |-> j, l |-> k, values |-> v, weight |-> w]
    OBVIOUS
  <2>3. [u EXCEPT !.values = v]
          = [string |-> s, pos |-> i, m |-> j, l |-> k, values |-> v, weight |-> w]
    BY <2>1, <2>2, Zenon
  <2> QED
    BY <2>3, Zenon DEF Child, s, v, w, i, j, k
<1>3. \A p, q : p \in Range(<<q>>) <=> p = q
  BY DEF Range
<1>4. \A p : p \notin Range(<< >>)
  BY DEF Range
<1>5. Passed(n, a) =
        IF a.in \notin Flags THEN <<u>>
        ELSE IF Allows(FlagOp[a.in], n.values)
        THEN <<[u EXCEPT !.values = Applied(FlagOp[a.in], n.values)]>>
        ELSE << >>
  BY Zenon DEF Passed
<1> HIDE DEF u
<1>6. CASE a.in \notin Flags
  BY <1>1, <1>3, <1>5, <1>6 DEF PastFlag
<1>7. CASE a.in \in Flags
  BY <1>2, <1>3, <1>4, <1>5, <1>7 DEF PastFlag
<1> QED
  BY <1>6, <1>7
\* A run holds the arcs with an input in X and no others.
RunIs(gr, s, X) ==
    /\ Run(gr, s, X) \in Seq(Range(gr.arcs[s]))
    /\ \A a : a \in Range(Run(gr, s, X)) <=> a \in Range(gr.arcs[s]) /\ a.in \in X

LEMMA LexiconRuns ==
    ASSUME NEW lex \in Graphs, NEW s \in 0 .. lex.n - 1, NEW X, X = Zero \/ \E x : X = {x}
    PROVE  RunIs(lex, s, X)
<1> DEFINE run == Run(lex, s, X)
           R == Range(lex.arcs[s])
<1>1. /\ run \in Seq(R)
      /\ \A i \in 1 .. Len(run) : run[i] \in R /\ run[i].in \in X
      /\ \A a \in R : a.in \in X => \E i \in 1 .. Len(run) : run[i] = a
  BY GraphsAssumption, RunHolds
<1> HIDE DEF run, R
<1>2. /\ \A i \in 1 .. Len(run) : run[i] \in Range(run)
      /\ \A x : x \in Range(run) => \E i \in 1 .. Len(run) : run[i] = x
  BY <1>1, ElementsOfSeq
<1>3. \A a : a \in Range(run) <=> a \in R /\ a.in \in X
  BY <1>1, <1>2, Zenon
<1> QED
  BY <1>1, <1>3 DEF RunIs, run, R

LEMMA MutatorRuns ==
    ASSUME NEW mut \in Mutators, NEW s \in 0 .. mut.n - 1, NEW x
    PROVE  RunIs(mut, s, {x})
<1> DEFINE X == {x}
           run == Run(mut, s, X)
           R == Range(mut.arcs[s])
<1>1. mut.arcs[s] \in Seq(R) /\ Together(mut, s, X)
  BY MutatorsHave
<1> HIDE DEF X
<1>2. /\ run \in Seq(R)
      /\ \A i \in 1 .. Len(run) : run[i] \in R /\ run[i].in \in X
      /\ \A a \in R : a.in \in X => \E i \in 1 .. Len(run) : run[i] = a
  BY <1>1, RunOf
<1> HIDE DEF run, R
<1>3. /\ \A i \in 1 .. Len(run) : run[i] \in Range(run)
      /\ \A y : y \in Range(run) => \E i \in 1 .. Len(run) : run[i] = y
  BY <1>2, ElementsOfSeq
<1>4. \A a : a \in Range(run) <=> a \in R /\ a.in \in X
  BY <1>2, <1>3, Zenon
<1> QED
  BY <1>2, <1>4 DEF RunIs, run, R, X

\* The nodes an arc of the error model leads to, with the lexicon as a parameter.
ThroughIn(lex, n, a, pos) ==
    IF a.out = 0 THEN <<Update(n, 0, pos, a.to, n.l, a.w)>>
    ELSE LET bs == ArcsFor(lex, n.l, alphabet_translator[a.out])
         IN  [j \in DOMAIN bs |-> Update(n, bs[j].out, pos, a.to, bs[j].to, bs[j].w + a.w)]

Erased(n, a, pos) == Child(n, 0, pos, a.to, n.l, a.w, n.values)
Replaced(n, a, b, pos) == Child(n, b.out, pos, a.to, b.to, b.w + a.w, n.values)

LEMMA ThroughIs ==
    ASSUME NEW lex \in Graphs, NEW mut, NEW n \in Nodes(lex, mut), NEW a, NEW pos
    PROVE  \A p : p \in Range(ThroughIn(lex, n, a, pos)) <=>
             \/ a.out = 0 /\ p = Erased(n, a, pos)
             \/ /\ a.out # 0
                /\ \E b \in Range(lex.arcs[n.l]) :
                     b.in = alphabet_translator[a.out] /\ p = Replaced(n, a, b, pos)
<1> DEFINE y == alphabet_translator[a.out]
           bs == ArcsFor(lex, n.l, y)
           t == [j \in DOMAIN bs |-> Update(n, bs[j].out, pos, a.to, bs[j].to, bs[j].w + a.w)]
<1>0. n.l \in 0 .. lex.n - 1
  BY DEF Nodes
<1>1. \A x, m, l, w : Update(n, x, pos, m, l, w) = Child(n, x, pos, m, l, w, n.values)
  BY Zenon DEF Update, Child
<1>2. CASE a.out = 0
  <2>1. ThroughIn(lex, n, a, pos) = <<Erased(n, a, pos)>>
    BY <1>1, <1>2, Zenon DEF ThroughIn, Erased
  <2>2. \A p, q : p \in Range(<<q>>) <=> p = q
    BY DEF Range
  <2> QED
    BY <1>2, <2>1, <2>2, Zenon
<1>3. CASE a.out # 0
  <2>1. ThroughIn(lex, n, a, pos) = t
    BY <1>3, Zenon DEF ThroughIn
  <2>2. \A b : b \in Range(bs) <=> b \in Range(lex.arcs[n.l]) /\ b.in = y
    <3>1. RunIs(lex, n.l, {y})
      BY <1>0, LexiconRuns
    <3>2. \A b : b.in \in {y} <=> b.in = y
      OBVIOUS
    <3> QED
      BY <3>1, <3>2, Zenon DEF RunIs, ArcsFor
  <2> HIDE DEF bs, y
  <2>3. DOMAIN t = DOMAIN bs /\ \A j \in DOMAIN bs : t[j] = Replaced(n, a, bs[j], pos)
    BY <1>1 DEF Replaced
  <2> HIDE DEF t
  <2>4. \A p : p \in Range(t) <=> \E j \in DOMAIN bs : p = Replaced(n, a, bs[j], pos)
    BY <2>3 DEF Range
  <2>5. \A p : p \in Range(t) <=> \E b \in Range(bs) : p = Replaced(n, a, b, pos)
    BY <2>4 DEF Range
  <2> QED
    BY <1>3, <2>1, <2>2, <2>5, Zenon DEF y
<1> QED
  BY <1>2, <1>3

LEMMA ChildTyped ==
    ASSUME NEW lex, NEW mut, NEW n \in Nodes(lex, mut), NEW out \in Symbols, NEW pos \in Nat,
           NEW m \in 0 .. mut.n - 1, NEW l \in 0 .. lex.n - 1, NEW w \in Nat,
           NEW v \in [Features -> Int]
    PROVE  Child(n, out, pos, m, l, w, v) \in Nodes(lex, mut)
<1>1. n.string \in Seq(Symbols) /\ n.weight \in Nat
  BY DEF Nodes
<1>2. Append(n.string, out) \in Seq(Symbols) /\ n.weight + w \in Nat
  BY <1>1
<1> DEFINE s == Append(n.string, out)
           u == n.weight + w
<1>3. s \in Seq(Symbols) /\ u \in Nat
  BY <1>2
<1> HIDE DEF s, u
<1>4. [string |-> s, pos |-> pos, m |-> m, l |-> l, values |-> v, weight |-> u]
        \in Nodes(lex, mut)
  BY <1>3 DEF Nodes
<1> QED
  BY <1>4, Zenon DEF Child, s, u

LEMMA LexiconArc ==
    ASSUME NEW lex \in Graphs, NEW l \in 0 .. lex.n - 1, NEW a \in Range(lex.arcs[l]),
           NEW v \in [Features -> Int]
    PROVE  /\ a.in \in Symbols /\ a.out \in Symbols /\ a.to \in 0 .. lex.n - 1 /\ a.w \in Nat
           /\ PastFlag(a, v) \in [Features -> Int]
<1>1. AnArc(lex, a)
  BY GraphsAssumption, ArcsAreArcs
<1>2. a.in \in Flags => FlagOp[a.in] \in Operations
  BY SymbolsAssumption
<1>3. PastFlag(a, v) \in [Features -> Int]
  BY <1>2, AppliedTyped DEF PastFlag
<1> QED
  BY <1>1, <1>3 DEF AnArc, Symbols
-----------------------------------------------------------------------------
(* The corrections ahead of a node are its own and those ahead of the nodes *)
(* it leads to                                                              *)

Rest(inp, i) == SubSeq(inp, i + 1, Len(inp))

\* The correction that n gives with what the error model writes on the way to
\* the end and what the lexicon makes of that.
Adds(n, r, e) == <<Surface(n.string) \o e[1], n.weight + r[2] + e[2]>>

AheadIn(lex, mut, inp, n) ==
    UNION {{Adds(n, r, e) : e \in EntriesIn(lex, n.l, n.values, r[1])} :
             r \in RewritingsIn(mut, n.m, Rest(inp, n.pos))}

LEMMA AheadIs == \A n : Ahead(n) = AheadIn(lexicon, mutator, input, n)
BY Zenon DEF Ahead, AheadIn, Entries, EntriesIn, Rewritings, RewritingsIn, Rest, Adds

LEMMA RestMoves ==
    ASSUME NEW S, NEW inp \in Seq(S), NEW i \in 0 .. Len(inp)
    PROVE  /\ Rest(inp, i) \in Seq(S)
           /\ i = Len(inp) <=> Rest(inp, i) = << >>
           /\ i # Len(inp) => /\ i + 1 \in 0 .. Len(inp) /\ inp[i + 1] \in S
                              /\ Head(Rest(inp, i)) = inp[i + 1]
                              /\ Tail(Rest(inp, i)) = Rest(inp, i + 1)
<1>0. Len(inp) \in Nat /\ i \in Nat /\ \A k \in 1 .. Len(inp) : inp[k] \in S
  BY SeqElements
<1>1. ASSUME NEW k \in 0 .. Len(inp)
      PROVE  /\ Rest(inp, k) \in Seq(S) /\ Len(Rest(inp, k)) = Len(inp) - k
             /\ \A j \in 1 .. Len(inp) - k : Rest(inp, k)[j] = inp[k + j]
  <2>1. k + 1 \in 1 .. Len(inp) + 1 /\ k \in Nat
    BY <1>0
  <2> DEFINE q == [j \in 1 .. Len(inp) - k |-> inp[k + j]]
  <2>2. Rest(inp, k) = q
    <3>1. Rest(inp, k) = [j \in 1 .. (Len(inp) - (k + 1)) + 1 |-> inp[(k + 1) + j - 1]]
      BY <1>0, <2>1 DEF Rest
    <3>2. (Len(inp) - (k + 1)) + 1 = Len(inp) - k
      BY <1>0, <2>1
    <3>3. \A j \in 1 .. Len(inp) - k : (k + 1) + j - 1 = k + j
      BY <1>0, <2>1
    <3> QED
      BY <3>1, <3>2, <3>3
  <2>3. \A j \in 1 .. Len(inp) - k : inp[k + j] \in S
    BY <1>0, <2>1
  <2>4. q \in Seq(S) /\ Len(q) = Len(inp) - k
    <3> DEFINE n == Len(inp) - k
    <3>1. n \in Nat /\ q \in [1 .. n -> S]
      BY <1>0, <2>1, <2>3
    <3> HIDE DEF n, q
    <3>2. q \in Seq(S) /\ Len(q) = n
      BY <3>1
    <3> QED
      BY <3>2 DEF n
  <2> QED
    BY <2>2, <2>4
<1>2. i = Len(inp) <=> Rest(inp, i) = << >>
  <2>1. Rest(inp, i) \in Seq(S) /\ Len(Rest(inp, i)) = Len(inp) - i
    BY <1>1
  <2> DEFINE t == Rest(inp, i)
  <2>2. t \in Seq(S) /\ (Len(t) = 0 <=> i = Len(inp))
    BY <1>0, <2>1
  <2> HIDE DEF t
  <2>3. i = Len(inp) <=> t = << >>
    BY <2>2
  <2> QED
    BY <2>3 DEF t
<1>3. ASSUME i # Len(inp)
      PROVE  /\ i + 1 \in 0 .. Len(inp) /\ inp[i + 1] \in S
             /\ Head(Rest(inp, i)) = inp[i + 1]
             /\ Tail(Rest(inp, i)) = Rest(inp, i + 1)
  <2>1. i + 1 \in 0 .. Len(inp) /\ i + 1 \in 1 .. Len(inp)
    BY <1>0, <1>3
  <2> DEFINE t == Rest(inp, i)
             u == Rest(inp, i + 1)
  <2>2. /\ t \in Seq(S) /\ Len(t) = Len(inp) - i
        /\ \A j \in 1 .. Len(inp) - i : t[j] = inp[i + j]
    BY <1>1
  <2>3. /\ u \in Seq(S) /\ Len(u) = Len(inp) - (i + 1)
        /\ \A j \in 1 .. Len(inp) - (i + 1) : u[j] = inp[(i + 1) + j]
    BY <1>1, <2>1
  <2> HIDE DEF t, u
  <2>4. t # << >> /\ 1 \in 1 .. Len(inp) - i
    BY <1>0, <1>3, <2>2
  <2>5. Head(t) = inp[i + 1]
    BY <2>2, <2>4
  <2>6. Tail(t) \in Seq(S) /\ Len(Tail(t)) = Len(u)
        /\ \A j \in 1 .. Len(u) : Tail(t)[j] = u[j]
    <3>1. Tail(t) \in Seq(S) /\ Len(Tail(t)) = Len(t) - 1
          /\ \A j \in 1 .. Len(t) - 1 : Tail(t)[j] = t[j + 1]
      BY <2>2, <2>4
    <3>2. Len(t) - 1 = Len(u)
      BY <1>0, <2>2, <2>3
    <3>3. \A j \in 1 .. Len(u) : j + 1 \in 1 .. Len(inp) - i /\ i + (j + 1) = (i + 1) + j
      BY <1>0, <2>3
    <3>4. \A j \in 1 .. Len(u) : Tail(t)[j] = t[j + 1]
      BY <3>1, <3>2
    <3>5. \A j \in 1 .. Len(u) : t[j + 1] = inp[(i + 1) + j] /\ u[j] = inp[(i + 1) + j]
      BY <2>2, <2>3, <3>3
    <3> QED
      BY <3>1, <3>2, <3>4, <3>5
  <2>7. Tail(t) = u
    BY <2>3, <2>6, EqualSequences
  <2> QED
    BY <1>0, <2>1, <2>5, <2>7 DEF t, u
<1> QED
  BY <1>0, <1>1, <1>2, <1>3

\* What is written on the way is part of the correction.
AddsOn(n, out, w, pos, m, l, v, r, f) ==
    Adds(Child(n, out, pos, m, l, w, v), r, f)
      = <<Surface(n.string) \o (Written[out] \o f[1]), n.weight + w + r[2] + f[2]>>

LEMMA SumMoves ==
    ASSUME NEW n, n.string \in Seq(Symbols), n.weight \in Nat, NEW out \in Symbols,
           NEW w \in Nat, NEW pos, NEW m, NEW l, NEW v, NEW r, r[2] \in Nat,
           NEW f, f[1] \in Seq(Nat), f[2] \in Nat
    PROVE  AddsOn(n, out, w, pos, m, l, v, r, f)
<1> DEFINE c == Child(n, out, pos, m, l, w, v)
           s == Surface(n.string)
<1>1. c.string = Append(n.string, out) /\ c.weight = n.weight + w
  BY DEF Child
<1> HIDE DEF c
<1>2. Surface(c.string) = s \o Written[out] /\ s \in Seq(Symbols)
  BY <1>1, SurfaceGrows
<1>3. s \in Seq(Nat) /\ Written[out] \in Seq(Nat)
  <2>1. Symbols \subseteq Nat
    BY SymbolsAssumption DEF Symbols
  <2>2. Written[out] = IF out \in Zero THEN << >> ELSE <<out>>
    BY DEF Written, Symbols
  <2>3. out \in Nat
    BY <2>1
  <2>4. << >> \in Seq(Nat) /\ <<out>> \in Seq(Nat)
    BY <2>3
  <2> HIDE DEF s
  <2>5. s \in Seq(Nat)
    BY <1>2, <2>1, WiderSequence
  <2> QED
    BY <1>2, <2>2, <2>4, <2>5
<1>4. (s \o Written[out]) \o f[1] = s \o (Written[out] \o f[1])
  <2>1. Associates(s, Written[out], f[1])
    BY <1>3, Associative, Zenon
  <2> QED
    BY <2>1, Zenon DEF Associates
<1> HIDE DEF s
<1>5. Adds(c, r, f) = <<Surface(c.string) \o f[1], c.weight + r[2] + f[2]>>
  BY Zenon DEF Adds
<1> QED
  BY <1>1, <1>2, <1>4, <1>5, Zenon DEF AddsOn, c, s

Fits(lex, mut, inp, n) == n \in Nodes(lex, mut) /\ n.pos \in 0 .. Len(inp)

\* The error model can take its arc a at n, and is then at position i.
Takes(mut, inp, n, a, i) ==
    /\ a \in Range(mut.arcs[n.m])
    /\ \/ a.in = 0 /\ i = n.pos
       \/ n.pos # Len(inp) /\ a.in = inp[n.pos + 1] /\ i = n.pos + 1

LEMMA AheadHas ==
    \A lex, mut, inp, n, p :
      p \in AheadIn(lex, mut, inp, n) <=>
        \E r \in RewritingsIn(mut, n.m, Rest(inp, n.pos)) :
          \E e \in EntriesIn(lex, n.l, n.values, r[1]) : p = Adds(n, r, e)
BY DEF AheadIn

LEMMA EntryTyped ==
    ASSUME NEW lex, IsLexicon(lex), NEW l \in 0 .. lex.n - 1, NEW v \in [Features -> Int],
           NEW x \in Seq(Letters), NEW e \in EntriesIn(lex, l, v, x)
    PROVE  e[1] \in Seq(Nat) /\ e[2] \in Nat /\ e = <<e[1], e[2]>>
<1>1. EntriesIn(lex, l, v, x) \in SUBSET (Seq(Nat) \X Nat)
  BY EntriesBy DEF Writings
<1>2. e \in Seq(Nat) \X Nat
  BY <1>1
<1> QED
  BY <1>2

LEMMA RewritingTyped ==
    ASSUME NEW mut, IsMutator(mut), NEW m \in 0 .. mut.n - 1, NEW x \in Seq(Nat \ {0}),
           NEW r \in RewritingsIn(mut, m, x)
    PROVE  r[1] \in Seq(Letters) /\ r[2] \in Nat /\ r = <<r[1], r[2]>>
<1>1. RewritingsIn(mut, m, x) \in SUBSET (Seq(Letters) \X Nat)
  BY RewritingsBy DEF Writings
<1>2. r \in Seq(Letters) \X Nat
  BY <1>1
<1> QED
  BY <1>2

\* The rewritings at n begin with an arc the error model takes, or end there.
LEMMA RewritingsAt ==
    ASSUME NEW lex, NEW mut, IsMutator(mut), NEW inp \in Seq(Nat \ {0}),
           NEW n, Fits(lex, mut, inp, n)
    PROVE  \A r : r \in RewritingsIn(mut, n.m, Rest(inp, n.pos)) <=>
             \/ /\ n.pos = Len(inp) /\ n.m \in DOMAIN mut.final
                /\ r = << << >>, mut.final[n.m]>>
             \/ \E a, i : /\ Takes(mut, inp, n, a, i)
                          /\ r \in After(Rewritten[a.out], a.w,
                                         RewritingsIn(mut, a.to, Rest(inp, i)))
<1> DEFINE x == Rest(inp, n.pos)
<1>1. n.pos \in 0 .. Len(inp) /\ n.m \in 0 .. mut.n - 1
  BY DEF Fits, Nodes
<1>2. /\ x \in Seq(Nat \ {0}) /\ (n.pos = Len(inp) <=> x = << >>)
      /\ n.pos # Len(inp) => Head(x) = inp[n.pos + 1] /\ Tail(x) = Rest(inp, n.pos + 1)
  <2> DEFINE S == Nat \ {0}
  <2>1. inp \in Seq(S)
    OBVIOUS
  <2> HIDE DEF S
  <2>2. /\ Rest(inp, n.pos) \in Seq(S)
        /\ n.pos = Len(inp) <=> Rest(inp, n.pos) = << >>
        /\ n.pos # Len(inp) => /\ Head(Rest(inp, n.pos)) = inp[n.pos + 1]
                               /\ Tail(Rest(inp, n.pos)) = Rest(inp, n.pos + 1)
    BY <1>1, <2>1, RestMoves
  <2> QED
    BY <2>2, Zenon DEF S
<1> HIDE DEF x
<1>3. \A r : r \in RewritingsIn(mut, n.m, x) <=>
        \/ x = << >> /\ n.m \in DOMAIN mut.final /\ r = << << >>, mut.final[n.m]>>
        \/ \E a \in Range(mut.arcs[n.m]) :
             RewritesFree(mut, a, x, r) \/ RewritesReading(mut, a, x, r)
  BY <1>1, <1>2, RewritingsBy
<1>4. ASSUME NEW a \in Range(mut.arcs[n.m]), NEW r
      PROVE  RewritesFree(mut, a, x, r) \/ RewritesReading(mut, a, x, r) <=>
               \E i : /\ Takes(mut, inp, n, a, i)
                      /\ r \in After(Rewritten[a.out], a.w,
                                     RewritingsIn(mut, a.to, Rest(inp, i)))
  <2>1. RewritesFree(mut, a, x, r) <=>
          /\ a.in = 0
          /\ r \in After(Rewritten[a.out], a.w, RewritingsIn(mut, a.to, Rest(inp, n.pos)))
    BY Zenon DEF RewritesFree, x
  <2>2. RewritesReading(mut, a, x, r) <=>
          /\ n.pos # Len(inp) /\ a.in = inp[n.pos + 1]
          /\ r \in After(Rewritten[a.out], a.w, RewritingsIn(mut, a.to, Rest(inp, n.pos + 1)))
    BY <1>2, Zenon DEF RewritesReading
  <2> QED
    BY <2>1, <2>2, Zenon DEF Takes
<1>5. \A a, i : Takes(mut, inp, n, a, i) => a \in Range(mut.arcs[n.m])
  BY DEF Takes
<1> QED
  BY <1>2, <1>3, <1>4, <1>5, Zenon DEF x

LEMMA TakesTo ==
    ASSUME NEW lex, NEW mut \in Mutators, NEW inp \in Seq(Nat \ {0}),
           NEW n, Fits(lex, mut, inp, n), NEW a, NEW i, Takes(mut, inp, n, a, i)
    PROVE  /\ MutatorArc(mut, a) /\ i \in 0 .. Len(inp)
           /\ Rest(inp, i) \in Seq(Nat \ {0})
<1>1. n.pos \in 0 .. Len(inp) /\ n.m \in 0 .. mut.n - 1
  BY DEF Fits, Nodes
<1>2. MutatorArc(mut, a)
  BY <1>1, MutatorsHave DEF Takes
<1>3. Len(inp) \in Nat
  OBVIOUS
<1>4. i \in 0 .. Len(inp)
  BY <1>1, <1>3 DEF Takes
<1>5. Rest(inp, i) \in Seq(Nat \ {0})
  <2> DEFINE S == Nat \ {0}
  <2>1. inp \in Seq(S)
    OBVIOUS
  <2> HIDE DEF S
  <2>2. Rest(inp, i) \in Seq(S)
    BY <1>4, <2>1, RestMoves
  <2> QED
    BY <2>2, Zenon DEF S
<1> QED
  BY <1>2, <1>4, <1>5
Loaded(lex, mut, inp) == lex \in Graphs /\ mut \in Mutators /\ inp \in Seq(Nat \ {0})
Setting(lex, mut, inp) == IsLexicon(lex) /\ IsMutator(mut) /\ inp \in Seq(Nat \ {0})

\* What an arc of the error model writes is read by the lexicon.
LEMMA RewrittenIs ==
    ASSUME NEW mut, NEW a, MutatorArc(mut, a)
    PROVE  /\ a.out = 0 => Rewritten[a.out] = << >>
           /\ a.out # 0 => /\ Rewritten[a.out] = <<alphabet_translator[a.out]>>
                           /\ alphabet_translator[a.out] \in Letters
<1>1. DOMAIN alphabet_translator = 0 .. MUTATOR_SYMBOL_COUNT - 1
  BY SpellerAssumption
<1>2. Rewritten[a.out] = IF a.out = 0 THEN << >> ELSE <<alphabet_translator[a.out]>>
  BY <1>1 DEF Rewritten, MutatorArc
<1> QED
  BY <1>2 DEF MutatorArc, Letters

LEMMA FirstLetter ==
    ASSUME NEW S, NEW y \in S, NEW t \in Seq(S)
    PROVE  /\ <<y>> \o t \in Seq(S) /\ <<y>> \o t # << >>
           /\ Head(<<y>> \o t) = y /\ Tail(<<y>> \o t) = t
<1>1. /\ <<y>> \o t \in Seq(S) /\ Len(<<y>> \o t) = Len(t) + 1
      /\ (<<y>> \o t)[1] = y /\ \A i \in 1 .. Len(t) : (<<y>> \o t)[i + 1] = t[i]
  OBVIOUS
<1> DEFINE u == <<y>> \o t
<1> HIDE DEF u
<1>2. /\ u \in Seq(S) /\ Len(u) = Len(t) + 1 /\ Len(t) \in Nat
      /\ u[1] = y /\ \A i \in 1 .. Len(t) : u[i + 1] = t[i]
  BY <1>1 DEF u
<1>3. u # << >> /\ Head(u) = y
  BY <1>2
<1>4. /\ Tail(u) \in Seq(S) /\ Len(Tail(u)) = Len(t)
      /\ \A i \in 1 .. Len(t) : Tail(u)[i] = t[i]
  BY <1>2, <1>3
<1>5. Tail(u) = t
  BY <1>4, EqualSequences
<1> QED
  BY <1>2, <1>3, <1>5 DEF u

LEMMA EmptyBefore == ASSUME NEW S, NEW t \in Seq(S) PROVE << >> \o t = t
OBVIOUS

LEMMA SymbolZero == 0 \in Symbols /\ Written[0] = << >> /\ 0 \in Zero
<1>1. 0 \in Symbols /\ 0 \in Zero
  BY SymbolsAssumption DEF Symbols, Zero
<1> QED
  BY <1>1 DEF Written, Symbols

\* What follows an erased symbol: the same entries, ...
LEMMA ErasedSum ==
    ASSUME NEW lex, NEW mut, NEW n \in Nodes(lex, mut), NEW a, MutatorArc(mut, a), NEW i,
           NEW r, r[2] \in Nat, NEW f, f[1] \in Seq(Nat), f[2] \in Nat
    PROVE  Adds(Erased(n, a, i), r, f) = Adds(n, <<r[1], a.w + r[2]>>, f)
<1>1. n.string \in Seq(Symbols) /\ n.weight \in Nat /\ a.w \in Nat
  BY DEF Nodes, MutatorArc
<1>2. Adds(Erased(n, a, i), r, f)
        = <<Surface(n.string) \o (Written[0] \o f[1]), n.weight + a.w + r[2] + f[2]>>
  <2>1. AddsOn(n, 0, a.w, i, a.to, n.l, n.values, r, f)
    BY <1>1, SymbolZero, SumMoves
  <2> QED
    BY <2>1, Zenon DEF AddsOn, Erased
<1>3. Written[0] \o f[1] = f[1]
  <2>1. << >> \o f[1] = f[1]
    OBVIOUS
  <2> QED
    BY <2>1, SymbolZero, Zenon
<1>4. n.weight + a.w + r[2] + f[2] = n.weight + (a.w + r[2]) + f[2]
  BY <1>1
<1>5. Adds(n, <<r[1], a.w + r[2]>>, f)
        = <<Surface(n.string) \o f[1], n.weight + (a.w + r[2]) + f[2]>>
  BY DEF Adds
<1> QED
  BY <1>2, <1>3, <1>4, <1>5, Zenon

\* ... and a replaced one: the entries by the arc of the lexicon that reads it.
ReplacesAs(n, a, b, i, x, r, f) ==
    Adds(Replaced(n, a, b, i), r, f)
      = Adds(n, <<x, a.w + r[2]>>, <<Written[b.out] \o f[1], b.w + f[2]>>)

LEMMA ReplacedSum ==
    ASSUME NEW lex, NEW mut, NEW n \in Nodes(lex, mut), NEW a, MutatorArc(mut, a), NEW i,
           NEW b, b.out \in Symbols, b.w \in Nat,
           NEW x, NEW r, r[2] \in Nat, NEW f, f[1] \in Seq(Nat), f[2] \in Nat
    PROVE  ReplacesAs(n, a, b, i, x, r, f)
<1>1. n.string \in Seq(Symbols) /\ n.weight \in Nat /\ a.w \in Nat
  BY DEF Nodes, MutatorArc
<1>2. b.w + a.w \in Nat
  BY <1>1
<1>3. Adds(Replaced(n, a, b, i), r, f)
        = <<Surface(n.string) \o (Written[b.out] \o f[1]), n.weight + (b.w + a.w) + r[2] + f[2]>>
  <2>1. AddsOn(n, b.out, b.w + a.w, i, a.to, b.to, n.values, r, f)
    BY <1>1, <1>2, SumMoves
  <2> QED
    BY <2>1, Zenon DEF AddsOn, Replaced
<1>4. n.weight + (b.w + a.w) + r[2] + f[2] = n.weight + (a.w + r[2]) + (b.w + f[2])
  <2>1. Regroups(n.weight, b.w, a.w, r[2], f[2])
    BY <1>1, SumsRegroup, Zenon
  <2> QED
    BY <2>1, Zenon DEF Regroups
<1>5. Adds(n, <<x, a.w + r[2]>>, <<Written[b.out] \o f[1], b.w + f[2]>>)
        = <<Surface(n.string) \o (Written[b.out] \o f[1]),
            n.weight + (a.w + r[2]) + (b.w + f[2])>>
  BY DEF Adds
<1> QED
  BY <1>3, <1>4, <1>5, Zenon DEF ReplacesAs

\* ... and an epsilon or flag arc of the lexicon.
PassesAs(n, a, v, r, f) ==
    Adds(Child(n, a.out, n.pos, n.m, a.to, a.w, v), r, f)
      = Adds(n, r, <<Written[a.out] \o f[1], a.w + f[2]>>)

LEMMA PassedSum ==
    ASSUME NEW lex, NEW mut, NEW n \in Nodes(lex, mut), NEW a, a.out \in Symbols, a.w \in Nat,
           NEW v, NEW r, r[2] \in Nat, NEW f, f[1] \in Seq(Nat), f[2] \in Nat
    PROVE  PassesAs(n, a, v, r, f)
<1>1. n.string \in Seq(Symbols) /\ n.weight \in Nat
  BY DEF Nodes
<1>2. Adds(Child(n, a.out, n.pos, n.m, a.to, a.w, v), r, f)
        = <<Surface(n.string) \o (Written[a.out] \o f[1]), n.weight + a.w + r[2] + f[2]>>
  <2>1. AddsOn(n, a.out, a.w, n.pos, n.m, a.to, v, r, f)
    BY <1>1, SumMoves
  <2> QED
    BY <2>1, Zenon DEF AddsOn
<1>3. n.weight + a.w + r[2] + f[2] = n.weight + r[2] + (a.w + f[2])
  BY <1>1
<1>4. Adds(n, r, <<Written[a.out] \o f[1], a.w + f[2]>>)
        = <<Surface(n.string) \o (Written[a.out] \o f[1]), n.weight + r[2] + (a.w + f[2])>>
  BY DEF Adds
<1> QED
  BY <1>2, <1>3, <1>4, Zenon DEF PassesAs
\* The nodes that epsilon and flag arcs of the lexicon lead to, those that arcs of
\* the error model lead to, and what is noted at a node.
PassesTo(lex, n, c) ==
    \E a \in Range(lex.arcs[n.l]) : a.in \in Zero /\ c \in Range(Passed(n, a))
GoesTo(lex, mut, inp, n, i, c) ==
    \E a : Takes(mut, inp, n, a, i) /\ c \in Range(ThroughIn(lex, n, a, i))
EndsIn(lex, mut, inp, n, p) ==
    /\ n.pos = Len(inp) /\ n.m \in DOMAIN mut.final /\ n.l \in DOMAIN lex.final
    /\ p = <<Surface(n.string), n.weight + mut.final[n.m] + lex.final[n.l]>>

\* c is behind the epsilon or flag arc a of the lexicon, or behind the arc a of
\* the error model.
PassedBy(n, a, c) ==
    /\ a.in \in Zero /\ (a.in \in Flags => Allows(FlagOp[a.in], n.values))
    /\ c = Child(n, a.out, n.pos, n.m, a.to, a.w, PastFlag(a, n.values))
ThroughBy(lex, n, a, i, c) ==
    \/ a.out = 0 /\ c = Erased(n, a, i)
    \/ /\ a.out # 0
       /\ \E b \in Range(lex.arcs[n.l]) :
            b.in = alphabet_translator[a.out] /\ c = Replaced(n, a, b, i)

LEMMA AfterHas ==
    \A out, w, S, e : e \in After(out, w, S) <=> \E f \in S : e = <<out \o f[1], w + f[2]>>
BY DEF After

LEMMA PassedFit ==
    ASSUME NEW lex, NEW mut, NEW inp, lex \in Graphs,
           NEW n, Fits(lex, mut, inp, n), NEW c, PassesTo(lex, n, c)
    PROVE  /\ Fits(lex, mut, inp, c) /\ c.pos = n.pos
           /\ \E a \in Range(lex.arcs[n.l]) : PassedBy(n, a, c)
<1>1. n \in Nodes(lex, mut) /\ n.pos \in 0 .. Len(inp)
  BY DEF Fits
<1>2. n.pos \in Nat /\ n.m \in 0 .. mut.n - 1 /\ n.l \in 0 .. lex.n - 1
      /\ n.values \in [Features -> Int]
  BY <1>1 DEF Nodes
<1>3. PICK a \in Range(lex.arcs[n.l]) : a.in \in Zero /\ c \in Range(Passed(n, a))
  BY Zenon DEF PassesTo
<1> DEFINE v == PastFlag(a, n.values)
<1>4. /\ a.in \in Flags => Allows(FlagOp[a.in], n.values)
      /\ c = Child(n, a.out, n.pos, n.m, a.to, a.w, v)
  BY <1>1, <1>3, PassedIs
<1>5. a.out \in Symbols /\ a.to \in 0 .. lex.n - 1 /\ a.w \in Nat /\ v \in [Features -> Int]
  BY <1>2, LexiconArc
<1> HIDE DEF v
<1>6. c \in Nodes(lex, mut)
  BY <1>1, <1>2, <1>4, <1>5, ChildTyped
<1>7. c.pos = n.pos
  BY <1>4 DEF Child
<1> QED
  BY <1>1, <1>3, <1>4, <1>6, <1>7 DEF Fits, PassedBy, v

LEMMA ThroughFit ==
    ASSUME NEW lex, NEW mut, NEW inp, Loaded(lex, mut, inp),
           NEW n, Fits(lex, mut, inp, n), NEW a, NEW i, Takes(mut, inp, n, a, i),
           NEW c, c \in Range(ThroughIn(lex, n, a, i))
    PROVE  /\ Fits(lex, mut, inp, c)
           /\ ThroughBy(lex, n, a, i, c)
<1>1. n \in Nodes(lex, mut) /\ n.pos \in 0 .. Len(inp)
  BY DEF Fits
<1>2. n.pos \in Nat /\ n.m \in 0 .. mut.n - 1 /\ n.l \in 0 .. lex.n - 1
      /\ n.values \in [Features -> Int]
  BY <1>1 DEF Nodes
<1>3. lex \in Graphs /\ mut \in Mutators /\ inp \in Seq(Nat \ {0})
  BY DEF Loaded
<1>4. MutatorArc(mut, a) /\ i \in 0 .. Len(inp)
  BY <1>3, TakesTo
<1>5. a.to \in 0 .. mut.n - 1 /\ a.w \in Nat /\ i \in Nat
  BY <1>3, <1>4 DEF MutatorArc
<1>6. \/ a.out = 0 /\ c = Erased(n, a, i)
      \/ /\ a.out # 0
         /\ \E b \in Range(lex.arcs[n.l]) :
              b.in = alphabet_translator[a.out] /\ c = Replaced(n, a, b, i)
  BY <1>1, <1>3, ThroughIs
<1>7. CASE a.out = 0
  <2>1. Erased(n, a, i) \in Nodes(lex, mut)
    BY <1>1, <1>2, <1>5, SymbolZero, ChildTyped DEF Erased
  <2>2. Erased(n, a, i).pos = i
    BY DEF Erased, Child
  <2>3. c = Erased(n, a, i)
    BY <1>6, <1>7
  <2> QED
    BY <1>4, <1>7, <2>1, <2>2, <2>3 DEF Fits, ThroughBy
<1>8. CASE a.out # 0
  <2>1. PICK b \in Range(lex.arcs[n.l]) :
               b.in = alphabet_translator[a.out] /\ c = Replaced(n, a, b, i)
    BY <1>6, <1>8
  <2>2. b.out \in Symbols /\ b.to \in 0 .. lex.n - 1 /\ b.w \in Nat
    BY <1>2, <1>3, LexiconArc
  <2>3. b.w + a.w \in Nat
    BY <1>5, <2>2
  <2>4. Replaced(n, a, b, i) \in Nodes(lex, mut)
    BY <1>1, <1>2, <1>5, <2>2, <2>3, ChildTyped DEF Replaced
  <2>5. Replaced(n, a, b, i).pos = i
    BY DEF Replaced, Child
  <2> QED
    BY <1>4, <1>8, <2>1, <2>4, <2>5 DEF Fits, ThroughBy
<1> QED
  BY <1>7, <1>8
\* What the readings of a node's rest are made of.
LEMMA NodeHas ==
    ASSUME NEW lex, NEW mut, NEW inp, Loaded(lex, mut, inp), NEW n, Fits(lex, mut, inp, n)
    PROVE  /\ lex \in Graphs /\ mut \in Mutators /\ inp \in Seq(Nat \ {0})
           /\ n \in Nodes(lex, mut) /\ n.pos \in 0 .. Len(inp)
           /\ n.m \in 0 .. mut.n - 1 /\ n.l \in 0 .. lex.n - 1
           /\ n.values \in [Features -> Int]
           /\ Rest(inp, n.pos) \in Seq(Nat \ {0})
<1>1. lex \in Graphs /\ mut \in Mutators /\ inp \in Seq(Nat \ {0})
  BY DEF Loaded
<1>2. n \in Nodes(lex, mut) /\ n.pos \in 0 .. Len(inp)
  BY DEF Fits
<1>3. /\ n.m \in 0 .. mut.n - 1 /\ n.l \in 0 .. lex.n - 1
      /\ n.values \in [Features -> Int]
  BY <1>2 DEF Nodes
<1>4. Rest(inp, n.pos) \in Seq(Nat \ {0})
  <2> DEFINE S == Nat \ {0}
  <2>1. inp \in Seq(S)
    BY <1>1
  <2> HIDE DEF S
  <2>2. Rest(inp, n.pos) \in Seq(S)
    BY <1>2, <2>1, RestMoves
  <2> QED
    BY <2>2 DEF S
<1> QED
  BY <1>1, <1>2, <1>3, <1>4

LEMMA NodeReads ==
    ASSUME NEW lex, NEW mut, NEW inp, Setting(lex, mut, inp), NEW n, Fits(lex, mut, inp, n)
    PROVE  /\ Loaded(lex, mut, inp)
           /\ lex \in Graphs /\ mut \in Mutators /\ inp \in Seq(Nat \ {0})
           /\ IsLexicon(lex) /\ IsMutator(mut)
           /\ n \in Nodes(lex, mut) /\ n.pos \in 0 .. Len(inp)
           /\ n.m \in 0 .. mut.n - 1 /\ n.l \in 0 .. lex.n - 1
           /\ n.values \in [Features -> Int]
           /\ Rest(inp, n.pos) \in Seq(Nat \ {0})
<1>1. Loaded(lex, mut, inp) /\ IsLexicon(lex) /\ IsMutator(mut)
  BY Zenon DEF Setting, Loaded, IsLexicon, IsMutator
<1> QED
  BY <1>1, NodeHas, Zenon

\* What is ahead of a node behind an epsilon or flag arc is ahead of the node.
LEMMA PassedAhead ==
    ASSUME NEW lex, NEW mut, NEW inp, Setting(lex, mut, inp), NEW n, Fits(lex, mut, inp, n),
           NEW c, PassesTo(lex, n, c), NEW p \in AheadIn(lex, mut, inp, c)
    PROVE  p \in AheadIn(lex, mut, inp, n)
<1> DEFINE x == Rest(inp, n.pos)
<1>1. /\ lex \in Graphs /\ IsLexicon(lex) /\ IsMutator(mut) /\ n \in Nodes(lex, mut)
      /\ n.m \in 0 .. mut.n - 1 /\ n.l \in 0 .. lex.n - 1
      /\ n.values \in [Features -> Int] /\ x \in Seq(Nat \ {0})
  BY NodeReads, Zenon
<1>2. PICK a \in Range(lex.arcs[n.l]) : PassedBy(n, a, c)
  BY <1>1, PassedFit
<1> DEFINE v == PastFlag(a, n.values)
<1>3. a.out \in Symbols /\ a.to \in 0 .. lex.n - 1 /\ a.w \in Nat /\ v \in [Features -> Int]
  BY <1>1, LexiconArc
<1>4. c.m = n.m /\ c.pos = n.pos /\ c.l = a.to /\ c.values = v
  BY <1>2 DEF Child, PassedBy
<1>0. \E r \in RewritingsIn(mut, c.m, Rest(inp, c.pos)) :
        \E f \in EntriesIn(lex, c.l, c.values, r[1]) : p = Adds(c, r, f)
  BY AheadHas
<1>5. PICK r \in RewritingsIn(mut, n.m, x) : \E f \in EntriesIn(lex, a.to, v, r[1]) :
             p = Adds(c, r, f)
  BY <1>0, <1>4, Zenon
<1>6. PICK f \in EntriesIn(lex, a.to, v, r[1]) : p = Adds(c, r, f)
  BY <1>5
<1> HIDE DEF v, x
<1>7. r[1] \in Seq(Letters) /\ r[2] \in Nat
  BY <1>1, <1>5, RewritingTyped
<1>8. f[1] \in Seq(Nat) /\ f[2] \in Nat
  BY <1>1, <1>3, <1>6, <1>7, EntryTyped
<1> DEFINE e == <<Written[a.out] \o f[1], a.w + f[2]>>
<1>9. EntersFree(lex, a, n.values, r[1], e)
  <2>1. e \in After(Written[a.out], a.w, EntriesIn(lex, a.to, v, r[1]))
    BY <1>6, AfterHas, Zenon
  <2> HIDE DEF e
  <2> QED
    BY <1>2, <2>1, Zenon DEF EntersFree, PassedBy, v
<1>10. p = Adds(n, r, e)
  <2>1. PassesAs(n, a, v, r, f)
    BY <1>1, <1>3, <1>7, <1>8, PassedSum
  <2>2. c = Child(n, a.out, n.pos, n.m, a.to, a.w, v)
    BY <1>2, Zenon DEF PassedBy, v
  <2> QED
    BY <1>6, <2>1, <2>2, Zenon DEF PassesAs
<1> HIDE DEF e
<1>11. e \in EntriesIn(lex, n.l, n.values, r[1])
  BY <1>1, <1>2, <1>7, <1>9, EntriesBy
<1> QED
  BY <1>5, <1>10, <1>11, AheadHas, Zenon DEF x

\* What is ahead of a node behind an arc of the error model, and of the arc of the
\* lexicon that reads what that one writes, is ahead of the node.
LEMMA ThroughAhead ==
    ASSUME NEW lex, NEW mut, NEW inp, Setting(lex, mut, inp), NEW n, Fits(lex, mut, inp, n),
           NEW i, NEW c, GoesTo(lex, mut, inp, n, i, c), NEW p \in AheadIn(lex, mut, inp, c)
    PROVE  p \in AheadIn(lex, mut, inp, n)
<1> DEFINE x == Rest(inp, n.pos)
           y == Rest(inp, i)
<1>1. /\ lex \in Graphs /\ mut \in Mutators /\ IsLexicon(lex) /\ IsMutator(mut)
      /\ Loaded(lex, mut, inp) /\ n \in Nodes(lex, mut) /\ inp \in Seq(Nat \ {0})
      /\ n.m \in 0 .. mut.n - 1 /\ n.l \in 0 .. lex.n - 1
      /\ n.values \in [Features -> Int] /\ x \in Seq(Nat \ {0})
  BY NodeReads, Zenon
<1>2. PICK a : Takes(mut, inp, n, a, i) /\ c \in Range(ThroughIn(lex, n, a, i))
  BY Zenon DEF GoesTo
<1>3. ThroughBy(lex, n, a, i, c)
  BY <1>1, <1>2, ThroughFit
<1>4. MutatorArc(mut, a) /\ y \in Seq(Nat \ {0})
  BY <1>1, <1>2, TakesTo
<1>5. a.to \in 0 .. mut.n - 1 /\ a.w \in Nat
  BY <1>4 DEF MutatorArc
<1>6. c.m = a.to /\ c.pos = i /\ c.values = n.values
  BY <1>3 DEF Erased, Replaced, Child, ThroughBy
<1>0. \E r \in RewritingsIn(mut, c.m, Rest(inp, c.pos)) :
        \E f \in EntriesIn(lex, c.l, c.values, r[1]) : p = Adds(c, r, f)
  BY AheadHas
<1>7. PICK r \in RewritingsIn(mut, a.to, y) : \E f \in EntriesIn(lex, c.l, n.values, r[1]) :
             p = Adds(c, r, f)
  BY <1>0, <1>6, Zenon
<1>8. PICK f \in EntriesIn(lex, c.l, n.values, r[1]) : p = Adds(c, r, f)
  BY <1>7
<1> HIDE DEF x, y
<1>9. r[1] \in Seq(Letters) /\ r[2] \in Nat
  BY <1>1, <1>4, <1>5, <1>7, RewritingTyped
<1> DEFINE s == <<Rewritten[a.out] \o r[1], a.w + r[2]>>
<1>10. s \in RewritingsIn(mut, n.m, x)
  <2>1. s \in After(Rewritten[a.out], a.w, RewritingsIn(mut, a.to, y))
    BY <1>7, AfterHas, Zenon
  <2> HIDE DEF s
  <2> QED
    BY <1>1, <1>2, <2>1, RewritingsAt DEF x, y
<1>11. CASE a.out = 0
  <2>1. c = Erased(n, a, i)
    BY <1>3, <1>11 DEF ThroughBy
  <2>2. c.l = n.l
    BY <2>1 DEF Erased, Child
  <2>3. f \in EntriesIn(lex, n.l, n.values, r[1])
    BY <1>8, <2>2
  <2>4. f[1] \in Seq(Nat) /\ f[2] \in Nat
    BY <1>1, <1>9, <2>3, EntryTyped
  <2>5. p = Adds(n, <<r[1], a.w + r[2]>>, f)
    BY <1>1, <1>4, <1>8, <1>9, <2>1, <2>4, ErasedSum
  <2>6. s = <<r[1], a.w + r[2]>>
    <3>1. Rewritten[a.out] = << >>
      BY <1>4, <1>11, RewrittenIs
    <3>2. << >> \o r[1] = r[1]
      BY <1>9, EmptyBefore
    <3> QED
      BY <3>1, <3>2, Zenon
  <2>7. f \in EntriesIn(lex, n.l, n.values, s[1]) /\ p = Adds(n, s, f)
    BY <2>3, <2>5, <2>6
  <2> HIDE DEF s
  <2> QED
    BY <1>10, <2>7, AheadHas, Zenon DEF x
<1>12. CASE a.out # 0
  <2> DEFINE z == alphabet_translator[a.out]
             t == <<z>> \o r[1]
  <2>1. PICK b \in Range(lex.arcs[n.l]) : b.in = z /\ c = Replaced(n, a, b, i)
    BY <1>3, <1>12 DEF ThroughBy
  <2>2. Rewritten[a.out] = <<z>> /\ z \in Letters
    BY <1>4, <1>12, RewrittenIs
  <2>3. t \in Seq(Letters) /\ t # << >> /\ Head(t) = z /\ Tail(t) = r[1]
    BY <1>9, <2>2, FirstLetter
  <2>4. b.out \in Symbols /\ b.to \in 0 .. lex.n - 1 /\ b.w \in Nat
    BY <1>1, LexiconArc
  <2>5. c.l = b.to
    BY <2>1 DEF Replaced, Child
  <2>6. f \in EntriesIn(lex, b.to, n.values, r[1])
    BY <1>8, <2>5
  <2>7. f[1] \in Seq(Nat) /\ f[2] \in Nat
    BY <1>1, <1>9, <2>4, <2>6, EntryTyped
  <2> DEFINE e == <<Written[b.out] \o f[1], b.w + f[2]>>
  <2>8. s = <<t, a.w + r[2]>>
    BY <2>2
  <2> HIDE DEF t, z
  <2>9. p = Adds(n, s, e)
    <3>1. ReplacesAs(n, a, b, i, t, r, f)
      BY <1>1, <1>4, <1>9, <2>4, <2>7, ReplacedSum
    <3> QED
      BY <1>8, <2>1, <2>8, <3>1, Zenon DEF ReplacesAs
  <2>10. EntersReading(lex, b, n.values, t, e)
    <3>1. e \in After(Written[b.out], b.w, EntriesIn(lex, b.to, n.values, r[1]))
      BY <2>6, AfterHas, Zenon
    <3> HIDE DEF e
    <3> QED
      BY <2>1, <2>3, <3>1, Zenon DEF EntersReading
  <2> HIDE DEF e
  <2>11. e \in EntriesIn(lex, n.l, n.values, t)
    BY <1>1, <2>1, <2>3, <2>10, EntriesBy
  <2>12. s[1] = t
    BY <2>8
  <2> HIDE DEF s
  <2> QED
    BY <1>10, <2>9, <2>11, <2>12, AheadHas, Zenon DEF x
<1> QED
  BY <1>11, <1>12
\* What is noted at a node is ahead of it: nothing more read, nothing more written.
LEMMA EndsAdd ==
    ASSUME NEW lex, NEW mut, NEW inp, Setting(lex, mut, inp), NEW n, Fits(lex, mut, inp, n),
           n.m \in DOMAIN mut.final, n.l \in DOMAIN lex.final
    PROVE  Adds(n, << << >>, mut.final[n.m]>>, << << >>, lex.final[n.l]>>)
             = <<Surface(n.string), n.weight + mut.final[n.m] + lex.final[n.l]>>
<1> DEFINE u == mut.final[n.m]
           w == lex.final[n.l]
<1>1. n \in Nodes(lex, mut)
  BY NodeReads, Zenon
<1>2. n.string \in Seq(Symbols)
  BY <1>1 DEF Nodes
<1>3. Surface(n.string) \in Seq(Symbols)
  BY <1>2, SymbolZero, SurfaceGrows
<1> DEFINE s == Surface(n.string)
<1>4. Adds(n, << << >>, u>>, << << >>, w>>) = <<s \o << >>, n.weight + u + w>>
  BY DEF Adds
<1> HIDE DEF s, u, w
<1>5. s \o << >> = s
  <2> SUFFICES ASSUME NEW t \in Seq(Symbols) PROVE t \o << >> = t
    BY <1>3 DEF s
  <2> QED
    OBVIOUS
<1> QED
  BY <1>4, <1>5, Zenon DEF s, u, w

LEMMA OwnAhead ==
    ASSUME NEW lex, NEW mut, NEW inp, Setting(lex, mut, inp), NEW n, Fits(lex, mut, inp, n),
           NEW p, EndsIn(lex, mut, inp, n, p)
    PROVE  p \in AheadIn(lex, mut, inp, n)
<1> DEFINE x == Rest(inp, n.pos)
           r == << << >>, mut.final[n.m]>>
           e == << << >>, lex.final[n.l]>>
<1>1. /\ IsLexicon(lex) /\ IsMutator(mut) /\ inp \in Seq(Nat \ {0}) /\ n.pos \in 0 .. Len(inp)
      /\ n.m \in 0 .. mut.n - 1 /\ n.l \in 0 .. lex.n - 1
      /\ n.values \in [Features -> Int] /\ x \in Seq(Nat \ {0})
  BY NodeReads, Zenon
<1>2. /\ n.pos = Len(inp) /\ n.m \in DOMAIN mut.final /\ n.l \in DOMAIN lex.final
      /\ p = <<Surface(n.string), n.weight + mut.final[n.m] + lex.final[n.l]>>
  BY Zenon DEF EndsIn
<1>3. p = Adds(n, r, e)
  BY <1>2, EndsAdd
<1>4. r \in RewritingsIn(mut, n.m, x)
  BY <1>1, <1>2, RewritingsAt
<1>5. << >> \in Seq(Letters)
  OBVIOUS
<1>6. e \in EntriesIn(lex, n.l, n.values, << >>)
  BY <1>1, <1>2, <1>5, EntriesBy
<1>7. r[1] = << >>
  OBVIOUS
<1> HIDE DEF x, r, e
<1> QED
  BY <1>3, <1>4, <1>6, <1>7, AheadHas, Zenon DEF x

\* ... and all that is ahead of a node is noted at it, or ahead of a node it leads to.
Follows(lex, mut, inp, n, p) ==
    \/ EndsIn(lex, mut, inp, n, p)
    \/ \E c : PassesTo(lex, n, c) /\ p \in AheadIn(lex, mut, inp, c)
    \/ \E i, c : GoesTo(lex, mut, inp, n, i, c) /\ p \in AheadIn(lex, mut, inp, c)

LEMMA FollowsPassed ==
    ASSUME NEW lex, NEW mut, NEW inp, Setting(lex, mut, inp), NEW n, Fits(lex, mut, inp, n),
           NEW r \in RewritingsIn(mut, n.m, Rest(inp, n.pos)),
           NEW a \in Range(lex.arcs[n.l]), NEW e, EntersFree(lex, a, n.values, r[1], e)
    PROVE  Follows(lex, mut, inp, n, Adds(n, r, e))
<1>1. /\ lex \in Graphs /\ IsLexicon(lex) /\ IsMutator(mut) /\ n \in Nodes(lex, mut)
      /\ n.m \in 0 .. mut.n - 1 /\ n.l \in 0 .. lex.n - 1
      /\ n.values \in [Features -> Int] /\ Rest(inp, n.pos) \in Seq(Nat \ {0})
  BY NodeReads, Zenon
<1> DEFINE v == PastFlag(a, n.values)
           c == Child(n, a.out, n.pos, n.m, a.to, a.w, v)
<1>2. /\ a.in \in Zero /\ (a.in \in Flags => Allows(FlagOp[a.in], n.values))
      /\ e \in After(Written[a.out], a.w, EntriesIn(lex, a.to, v, r[1]))
  BY Zenon DEF EntersFree
<1>3. PICK f \in EntriesIn(lex, a.to, v, r[1]) : e = <<Written[a.out] \o f[1], a.w + f[2]>>
  BY <1>2 DEF After
<1>4. a.out \in Symbols /\ a.to \in 0 .. lex.n - 1 /\ a.w \in Nat /\ v \in [Features -> Int]
  BY <1>1, LexiconArc
<1>5. c.m = n.m /\ c.pos = n.pos /\ c.l = a.to /\ c.values = v
  BY DEF Child
<1>6. c \in Range(Passed(n, a))
  BY <1>1, <1>2, PassedIs
<1> HIDE DEF v, c
<1>7. r[1] \in Seq(Letters) /\ r[2] \in Nat
  BY <1>1, RewritingTyped
<1>8. f[1] \in Seq(Nat) /\ f[2] \in Nat
  BY <1>1, <1>3, <1>4, <1>7, EntryTyped
<1>9. Adds(c, r, f) = Adds(n, r, e)
  <2>1. PassesAs(n, a, v, r, f)
    BY <1>1, <1>4, <1>7, <1>8, PassedSum
  <2> QED
    BY <1>3, <2>1, Zenon DEF PassesAs, c
<1>10. \E s \in RewritingsIn(mut, c.m, Rest(inp, c.pos)) :
         \E g \in EntriesIn(lex, c.l, c.values, s[1]) : Adds(n, r, e) = Adds(c, s, g)
  BY <1>3, <1>5, <1>9, Zenon
<1>11. Adds(n, r, e) \in AheadIn(lex, mut, inp, c)
  BY <1>10, AheadHas
<1>12. PassesTo(lex, n, c)
  BY <1>2, <1>6, Zenon DEF PassesTo
<1> QED
  BY <1>11, <1>12, Zenon DEF Follows

LEMMA FollowsErased ==
    ASSUME NEW lex, NEW mut, NEW inp, Setting(lex, mut, inp), NEW n, Fits(lex, mut, inp, n),
           NEW a, NEW i, Takes(mut, inp, n, a, i), a.out = 0,
           NEW q \in RewritingsIn(mut, a.to, Rest(inp, i)),
           NEW e \in EntriesIn(lex, n.l, n.values, q[1])
    PROVE  Follows(lex, mut, inp, n, Adds(n, <<q[1], a.w + q[2]>>, e))
<1>1. /\ lex \in Graphs /\ mut \in Mutators /\ inp \in Seq(Nat \ {0})
      /\ IsLexicon(lex) /\ IsMutator(mut) /\ n \in Nodes(lex, mut)
      /\ n.l \in 0 .. lex.n - 1 /\ n.values \in [Features -> Int]
  BY NodeReads, Zenon
<1>2. MutatorArc(mut, a) /\ Rest(inp, i) \in Seq(Nat \ {0})
  BY <1>1, TakesTo
<1>3. a.to \in 0 .. mut.n - 1
  BY <1>2 DEF MutatorArc
<1>4. q[1] \in Seq(Letters) /\ q[2] \in Nat
  BY <1>1, <1>2, <1>3, RewritingTyped
<1>5. e[1] \in Seq(Nat) /\ e[2] \in Nat
  BY <1>1, <1>4, EntryTyped
<1> DEFINE c == Erased(n, a, i)
           p == Adds(n, <<q[1], a.w + q[2]>>, e)
<1>6. c.m = a.to /\ c.pos = i /\ c.l = n.l /\ c.values = n.values
  BY DEF Erased, Child
<1>7. p = Adds(c, q, e)
  BY <1>1, <1>2, <1>4, <1>5, ErasedSum
<1>8. c \in Range(ThroughIn(lex, n, a, i))
  BY <1>1, ThroughIs
<1> HIDE DEF c, p
<1>9. \E s \in RewritingsIn(mut, c.m, Rest(inp, c.pos)) :
        \E g \in EntriesIn(lex, c.l, c.values, s[1]) : p = Adds(c, s, g)
  BY <1>6, <1>7, Zenon
<1>10. p \in AheadIn(lex, mut, inp, c)
  BY <1>9, AheadHas
<1>11. GoesTo(lex, mut, inp, n, i, c)
  BY <1>8, Zenon DEF GoesTo
<1> QED
  BY <1>10, <1>11, Zenon DEF Follows, p

LEMMA FollowsReplaced ==
    ASSUME NEW lex, NEW mut, NEW inp, Setting(lex, mut, inp), NEW n, Fits(lex, mut, inp, n),
           NEW a, NEW i, Takes(mut, inp, n, a, i), a.out # 0,
           NEW q \in RewritingsIn(mut, a.to, Rest(inp, i)), NEW x,
           NEW b \in Range(lex.arcs[n.l]), b.in = alphabet_translator[a.out],
           NEW f \in EntriesIn(lex, b.to, n.values, q[1])
    PROVE  Follows(lex, mut, inp, n, Adds(n, <<x, a.w + q[2]>>,
                                          <<Written[b.out] \o f[1], b.w + f[2]>>))
<1>1. /\ lex \in Graphs /\ mut \in Mutators /\ inp \in Seq(Nat \ {0})
      /\ IsLexicon(lex) /\ IsMutator(mut) /\ n \in Nodes(lex, mut)
      /\ n.l \in 0 .. lex.n - 1 /\ n.values \in [Features -> Int]
  BY NodeReads, Zenon
<1>2. MutatorArc(mut, a) /\ Rest(inp, i) \in Seq(Nat \ {0})
  BY <1>1, TakesTo
<1>3. a.to \in 0 .. mut.n - 1
  BY <1>2 DEF MutatorArc
<1>4. b.out \in Symbols /\ b.to \in 0 .. lex.n - 1 /\ b.w \in Nat
  BY <1>1, LexiconArc
<1>5. q[1] \in Seq(Letters) /\ q[2] \in Nat
  BY <1>1, <1>2, <1>3, RewritingTyped
<1>6. f[1] \in Seq(Nat) /\ f[2] \in Nat
  BY <1>1, <1>4, <1>5, EntryTyped
<1> DEFINE c == Replaced(n, a, b, i)
           p == Adds(n, <<x, a.w + q[2]>>, <<Written[b.out] \o f[1], b.w + f[2]>>)
<1>7. c.m = a.to /\ c.pos = i /\ c.l = b.to /\ c.values = n.values
  BY DEF Replaced, Child
<1>8. p = Adds(c, q, f)
  <2>1. ReplacesAs(n, a, b, i, x, q, f)
    BY <1>1, <1>2, <1>4, <1>5, <1>6, ReplacedSum
  <2> QED
    BY <2>1, Zenon DEF ReplacesAs
<1>9. c \in Range(ThroughIn(lex, n, a, i))
  BY <1>1, ThroughIs
<1> HIDE DEF c, p
<1>10. \E s \in RewritingsIn(mut, c.m, Rest(inp, c.pos)) :
         \E g \in EntriesIn(lex, c.l, c.values, s[1]) : p = Adds(c, s, g)
  BY <1>7, <1>8, Zenon
<1>11. p \in AheadIn(lex, mut, inp, c)
  BY <1>10, AheadHas
<1>12. GoesTo(lex, mut, inp, n, i, c)
  BY <1>9, Zenon DEF GoesTo
<1> QED
  BY <1>11, <1>12, Zenon DEF Follows, p
LEMMA AheadFollows ==
    ASSUME NEW lex, NEW mut, NEW inp, Setting(lex, mut, inp), NEW n, Fits(lex, mut, inp, n),
           NEW p \in AheadIn(lex, mut, inp, n)
    PROVE  Follows(lex, mut, inp, n, p)
<1> DEFINE x == Rest(inp, n.pos)
<1>1. /\ lex \in Graphs /\ IsLexicon(lex) /\ IsMutator(mut) /\ inp \in Seq(Nat \ {0})
      /\ n.m \in 0 .. mut.n - 1 /\ n.l \in 0 .. lex.n - 1
      /\ n.values \in [Features -> Int] /\ x \in Seq(Nat \ {0}) /\ mut \in Mutators
  BY NodeReads, Zenon
<1>2. \E r \in RewritingsIn(mut, n.m, x) :
        \E e \in EntriesIn(lex, n.l, n.values, r[1]) : p = Adds(n, r, e)
  BY AheadHas
<1>3. PICK r \in RewritingsIn(mut, n.m, x) :
             \E e \in EntriesIn(lex, n.l, n.values, r[1]) : p = Adds(n, r, e)
  BY <1>2
<1>4. PICK e \in EntriesIn(lex, n.l, n.values, r[1]) : p = Adds(n, r, e)
  BY <1>3
<1> HIDE DEF x
<1>5. r[1] \in Seq(Letters)
  BY <1>1, RewritingTyped
<1>6. \/ /\ r[1] = << >> /\ n.l \in DOMAIN lex.final /\ e = << << >>, lex.final[n.l]>>
      \/ \E a \in Range(lex.arcs[n.l]) :
           EntersFree(lex, a, n.values, r[1], e) \/ EntersReading(lex, a, n.values, r[1], e)
  BY <1>1, <1>4, <1>5, EntriesBy
<1>7. \/ /\ n.pos = Len(inp) /\ n.m \in DOMAIN mut.final
         /\ r = << << >>, mut.final[n.m]>>
      \/ \E a, i : /\ Takes(mut, inp, n, a, i)
                   /\ r \in After(Rewritten[a.out], a.w, RewritingsIn(mut, a.to, Rest(inp, i)))
  BY <1>1, RewritingsAt DEF x
<1>8. CASE \E a \in Range(lex.arcs[n.l]) : EntersFree(lex, a, n.values, r[1], e)
  BY <1>3, <1>4, <1>8, FollowsPassed DEF x
<1>9. CASE /\ n.pos = Len(inp) /\ n.m \in DOMAIN mut.final
           /\ r = << << >>, mut.final[n.m]>>
  <2>1. r[1] = << >>
    BY <1>9
  <2>2. CASE /\ r[1] = << >> /\ n.l \in DOMAIN lex.final /\ e = << << >>, lex.final[n.l]>>
    <3>1. p = <<Surface(n.string), n.weight + mut.final[n.m] + lex.final[n.l]>>
      BY <1>4, <1>9, <2>2, EndsAdd
    <3> QED
      BY <1>9, <2>2, <3>1, Zenon DEF Follows, EndsIn
  <2>3. CASE \E a \in Range(lex.arcs[n.l]) : EntersReading(lex, a, n.values, r[1], e)
    BY <2>1, <2>3, Zenon DEF EntersReading
  <2> QED
    BY <1>6, <1>8, <2>2, <2>3
<1>10. CASE \E a, i : /\ Takes(mut, inp, n, a, i)
                      /\ r \in After(Rewritten[a.out], a.w,
                                     RewritingsIn(mut, a.to, Rest(inp, i)))
  <2>1. PICK a, i : /\ Takes(mut, inp, n, a, i)
                    /\ r \in After(Rewritten[a.out], a.w,
                                   RewritingsIn(mut, a.to, Rest(inp, i)))
    BY <1>10
  <2>2. PICK q \in RewritingsIn(mut, a.to, Rest(inp, i)) :
               r = <<Rewritten[a.out] \o q[1], a.w + q[2]>>
    BY <2>1 DEF After
  <2>3. MutatorArc(mut, a) /\ Rest(inp, i) \in Seq(Nat \ {0})
    BY <1>1, <2>1, TakesTo
  <2>4. a.to \in 0 .. mut.n - 1
    BY <2>3 DEF MutatorArc
  <2>5. q[1] \in Seq(Letters)
    BY <1>1, <2>3, <2>4, RewritingTyped
  <2>6. CASE a.out = 0
    <3>1. Rewritten[a.out] = << >>
      BY <2>3, <2>6, RewrittenIs
    <3>2. << >> \o q[1] = q[1]
      BY <2>5, EmptyBefore
    <3>3. r = <<q[1], a.w + q[2]>>
      BY <2>2, <3>1, <3>2, Zenon
    <3>4. e \in EntriesIn(lex, n.l, n.values, q[1])
      BY <1>4, <3>3
    <3>5. Follows(lex, mut, inp, n, Adds(n, <<q[1], a.w + q[2]>>, e))
      BY <2>1, <2>6, <3>4, FollowsErased
    <3> QED
      BY <1>4, <3>3, <3>5, Zenon
  <2>7. CASE a.out # 0
    <3> DEFINE z == alphabet_translator[a.out]
               t == <<z>> \o q[1]
    <3>1. Rewritten[a.out] = <<z>> /\ z \in Letters
      BY <2>3, <2>7, RewrittenIs
    <3>2. t \in Seq(Letters) /\ t # << >> /\ Head(t) = z /\ Tail(t) = q[1]
      BY <2>5, <3>1, FirstLetter
    <3>3. r = <<t, a.w + q[2]>>
      BY <2>2, <3>1
    <3> HIDE DEF t, z
    <3>4. r[1] = t
      BY <3>3
    <3>5. CASE \E b \in Range(lex.arcs[n.l]) : EntersReading(lex, b, n.values, t, e)
      <4>1. PICK b \in Range(lex.arcs[n.l]) : EntersReading(lex, b, n.values, t, e)
        BY <3>5
      <4>2. /\ b.in = z
            /\ e \in After(Written[b.out], b.w, EntriesIn(lex, b.to, n.values, q[1]))
        BY <3>2, <4>1, Zenon DEF EntersReading
      <4>3. PICK f \in EntriesIn(lex, b.to, n.values, q[1]) :
                   e = <<Written[b.out] \o f[1], b.w + f[2]>>
        BY <4>2 DEF After
      <4>4. Follows(lex, mut, inp, n, Adds(n, <<t, a.w + q[2]>>,
                                           <<Written[b.out] \o f[1], b.w + f[2]>>))
        BY <2>1, <2>7, <4>2, FollowsReplaced DEF z
      <4> QED
        BY <1>4, <3>3, <4>3, <4>4, Zenon
    <3> QED
      BY <1>6, <1>8, <3>2, <3>4, <3>5
  <2> QED
    BY <2>6, <2>7
<1> QED
  BY <1>7, <1>9, <1>10
\* The same for check: the lexicon alone reads the rest of the input.
CanEnter(lex, inp, n) == EntriesIn(lex, n.l, n.values, Rest(inp, n.pos)) # {}
Consumed(n, b) == Child(n, b.out, n.pos + 1, n.m, b.to, b.w, n.values)
ReadsTo(lex, inp, n, c) ==
    /\ n.pos # Len(inp)
    /\ \E b \in Range(lex.arcs[n.l]) : b.in = inp[n.pos + 1] /\ c = Consumed(n, b)
Enters(lex, inp, n) ==
    \/ n.pos = Len(inp) /\ n.l \in DOMAIN lex.final
    \/ \E c : PassesTo(lex, n, c) /\ CanEnter(lex, inp, c)
    \/ \E c : ReadsTo(lex, inp, n, c) /\ CanEnter(lex, inp, c)

LEMMA ReadsFit ==
    ASSUME NEW lex \in Graphs, NEW mut, NEW inp, NEW S, inp \in Seq(S), NEW n,
           Fits(lex, mut, inp, n), NEW c, ReadsTo(lex, inp, n, c)
    PROVE  Fits(lex, mut, inp, c)
<1>1. n \in Nodes(lex, mut) /\ n.pos \in 0 .. Len(inp)
  BY DEF Fits
<1>2. n.pos \in Nat /\ n.m \in 0 .. mut.n - 1 /\ n.l \in 0 .. lex.n - 1
      /\ n.values \in [Features -> Int]
  BY <1>1 DEF Nodes
<1>3. PICK b \in Range(lex.arcs[n.l]) : n.pos # Len(inp) /\ c = Consumed(n, b)
  BY Zenon DEF ReadsTo
<1>4. b.out \in Symbols /\ b.to \in 0 .. lex.n - 1 /\ b.w \in Nat
  BY <1>2, LexiconArc
<1>5. Len(inp) \in Nat
  OBVIOUS
<1>6. n.pos + 1 \in Nat /\ n.pos + 1 \in 0 .. Len(inp)
  BY <1>1, <1>2, <1>3, <1>5
<1>7. Consumed(n, b) \in Nodes(lex, mut)
  BY <1>1, <1>2, <1>4, <1>6, ChildTyped DEF Consumed
<1>8. Consumed(n, b).pos = n.pos + 1
  BY DEF Consumed, Child
<1> QED
  BY <1>3, <1>6, <1>7, <1>8 DEF Fits

LEMMA EntersBy ==
    ASSUME NEW lex, IsLexicon(lex), NEW mut, NEW inp \in Seq(Letters), NEW n,
           Fits(lex, mut, inp, n)
    PROVE  CanEnter(lex, inp, n) <=> Enters(lex, inp, n)
<1> DEFINE x == Rest(inp, n.pos)
           here == n.pos = Len(inp) /\ n.l \in DOMAIN lex.final
<1>1. n \in Nodes(lex, mut) /\ n.pos \in 0 .. Len(inp) /\ lex \in Graphs
  BY DEF Fits, IsLexicon
<1>2. n.m \in 0 .. mut.n - 1 /\ n.l \in 0 .. lex.n - 1 /\ n.values \in [Features -> Int]
  BY <1>1 DEF Nodes
<1>3. /\ x \in Seq(Letters) /\ (n.pos = Len(inp) <=> x = << >>)
      /\ n.pos # Len(inp) => Head(x) = inp[n.pos + 1] /\ Tail(x) = Rest(inp, n.pos + 1)
  <2> DEFINE S == Letters
  <2>1. inp \in Seq(S)
    OBVIOUS
  <2> HIDE DEF S
  <2>2. /\ x \in Seq(S) /\ (n.pos = Len(inp) <=> x = << >>)
        /\ n.pos # Len(inp) => Head(x) = inp[n.pos + 1] /\ Tail(x) = Rest(inp, n.pos + 1)
    BY <1>1, <2>1, RestMoves
  <2> QED
    BY <2>2, Zenon DEF S
<1> HIDE DEF x
<1>4. \A e : e \in EntriesIn(lex, n.l, n.values, x) <=>
               \/ here /\ e = << << >>, lex.final[n.l]>>
               \/ \E a \in Range(lex.arcs[n.l]) :
                    EntersFree(lex, a, n.values, x, e) \/ EntersReading(lex, a, n.values, x, e)
  BY <1>2, <1>3, EntriesBy
<1>5. ASSUME NEW e \in EntriesIn(lex, n.l, n.values, x)
      PROVE  Enters(lex, inp, n)
  <2>1. CASE here
    BY <2>1, Zenon DEF Enters
  <2>2. CASE \E a \in Range(lex.arcs[n.l]) : EntersFree(lex, a, n.values, x, e)
    <3>1. PICK a \in Range(lex.arcs[n.l]) : EntersFree(lex, a, n.values, x, e)
      BY <2>2
    <3>2. /\ a.in \in Zero /\ (a.in \in Flags => Allows(FlagOp[a.in], n.values))
          /\ e \in After(Written[a.out], a.w, EntriesIn(lex, a.to, PastFlag(a, n.values), x))
      BY <3>1, Zenon DEF EntersFree
    <3>3. EntriesIn(lex, a.to, PastFlag(a, n.values), x) # {}
      BY <3>2 DEF After
    <3> DEFINE c == Child(n, a.out, n.pos, n.m, a.to, a.w, PastFlag(a, n.values))
    <3>4. c \in Range(Passed(n, a))
      BY <1>1, <3>2, PassedIs
    <3>5. c.l = a.to /\ c.values = PastFlag(a, n.values) /\ c.pos = n.pos
      BY DEF Child
    <3> HIDE DEF c
    <3>6. PassesTo(lex, n, c)
      BY <3>2, <3>4, Zenon DEF PassesTo
    <3>7. CanEnter(lex, inp, c)
      BY <3>3, <3>5, Zenon DEF CanEnter, x
    <3> QED
      BY <3>6, <3>7, Zenon DEF Enters
  <2>3. CASE \E a \in Range(lex.arcs[n.l]) : EntersReading(lex, a, n.values, x, e)
    <3>1. PICK a \in Range(lex.arcs[n.l]) : EntersReading(lex, a, n.values, x, e)
      BY <2>3
    <3>2. /\ x # << >> /\ a.in = Head(x)
          /\ e \in After(Written[a.out], a.w, EntriesIn(lex, a.to, n.values, Tail(x)))
      BY <3>1, Zenon DEF EntersReading
    <3>3. EntriesIn(lex, a.to, n.values, Tail(x)) # {}
      BY <3>2 DEF After
    <3> DEFINE c == Consumed(n, a)
    <3>4. c.l = a.to /\ c.values = n.values /\ c.pos = n.pos + 1
      BY DEF Consumed, Child
    <3>5. ReadsTo(lex, inp, n, c)
      BY <1>3, <3>2, Zenon DEF ReadsTo
    <3> HIDE DEF c
    <3>6. CanEnter(lex, inp, c)
      BY <1>3, <3>2, <3>3, <3>4, Zenon DEF CanEnter
    <3> QED
      BY <3>5, <3>6, Zenon DEF Enters
  <2> QED
    BY <1>4, <2>1, <2>2, <2>3
<1>6. ASSUME here
      PROVE  EntriesIn(lex, n.l, n.values, x) # {}
  BY <1>4, <1>6
<1>7. ASSUME NEW c, PassesTo(lex, n, c), CanEnter(lex, inp, c)
      PROVE  EntriesIn(lex, n.l, n.values, x) # {}
  <2>1. PICK a \in Range(lex.arcs[n.l]) : PassedBy(n, a, c)
    BY <1>1, <1>7, PassedFit
  <2>2. c.l = a.to /\ c.values = PastFlag(a, n.values) /\ c.pos = n.pos
    BY <2>1 DEF PassedBy, Child
  <2>3. EntriesIn(lex, a.to, PastFlag(a, n.values), x) # {}
    BY <1>7, <2>2, Zenon DEF CanEnter, x
  <2>4. PICK f : f \in EntriesIn(lex, a.to, PastFlag(a, n.values), x)
    BY <2>3
  <2> DEFINE e == <<Written[a.out] \o f[1], a.w + f[2]>>
  <2>5. e \in After(Written[a.out], a.w, EntriesIn(lex, a.to, PastFlag(a, n.values), x))
    BY <2>4, AfterHas, Zenon
  <2> HIDE DEF e
  <2>6. EntersFree(lex, a, n.values, x, e)
    BY <2>1, <2>5, Zenon DEF EntersFree, PassedBy
  <2> QED
    BY <1>4, <2>6
<1>8. ASSUME NEW c, ReadsTo(lex, inp, n, c), CanEnter(lex, inp, c)
      PROVE  EntriesIn(lex, n.l, n.values, x) # {}
  <2>1. n.pos # Len(inp)
    BY <1>8, Zenon DEF ReadsTo
  <2>2. PICK a \in Range(lex.arcs[n.l]) : a.in = inp[n.pos + 1] /\ c = Consumed(n, a)
    BY <1>8, Zenon DEF ReadsTo
  <2>3. c.l = a.to /\ c.values = n.values /\ c.pos = n.pos + 1
    BY <2>2 DEF Consumed, Child
  <2>4. EntriesIn(lex, a.to, n.values, Tail(x)) # {}
    BY <1>3, <1>8, <2>1, <2>3, Zenon DEF CanEnter
  <2>5. PICK f : f \in EntriesIn(lex, a.to, n.values, Tail(x))
    BY <2>4
  <2> DEFINE e == <<Written[a.out] \o f[1], a.w + f[2]>>
  <2>6. e \in After(Written[a.out], a.w, EntriesIn(lex, a.to, n.values, Tail(x)))
    BY <2>5, AfterHas, Zenon
  <2> HIDE DEF e
  <2>7. EntersReading(lex, a, n.values, x, e)
    BY <1>3, <2>1, <2>2, <2>6, Zenon DEF EntersReading
  <2> QED
    BY <1>4, <2>7
<1>9. CanEnter(lex, inp, n) <=> EntriesIn(lex, n.l, n.values, x) # {}
  BY Zenon DEF CanEnter, x
<1> HIDE DEF here
<1>10. ASSUME EntriesIn(lex, n.l, n.values, x) # {}
       PROVE  Enters(lex, inp, n)
  BY <1>5, <1>10
<1> QED
  BY <1>6, <1>7, <1>8, <1>9, <1>10, Zenon DEF Enters, here
-----------------------------------------------------------------------------
(* The queue: what a step puts in and what stays. *)

LEMMA NarrowerSequence ==
    ASSUME NEW T, NEW q \in Seq(T), NEW S, Range(q) \subseteq S
    PROVE  q \in Seq(S)
<1>1. q = [i \in 1 .. Len(q) |-> q[i]] /\ Len(q) \in Nat
  OBVIOUS
<1>2. \A i \in 1 .. Len(q) : q[i] \in S
  BY ElementsOfSeq
<1> QED
  BY <1>1, <1>2

LEMMA QueueParts ==
    ASSUME NEW S, NEW q \in Seq(S), q # << >>
    PROVE  /\ Head(q) \in S /\ Head(q) \in Range(q) /\ Tail(q) \in Seq(S)
           /\ Range(q) = {Head(q)} \cup Range(Tail(q))
<1>1. /\ Len(q) \in Nat \ {0} /\ Tail(q) \in Seq(S) /\ Len(Tail(q)) = Len(q) - 1
      /\ \A i \in 1 .. Len(q) - 1 : Tail(q)[i] = q[i + 1]
      /\ Head(q) = q[1] /\ q[1] \in S
  OBVIOUS
<1>2. /\ \A i \in 1 .. Len(q) : q[i] \in Range(q)
      /\ \A x : x \in Range(q) => \E i \in 1 .. Len(q) : q[i] = x
  BY ElementsOfSeq
<1>3. /\ \A i \in 1 .. Len(q) - 1 : Tail(q)[i] \in Range(Tail(q))
      /\ \A x : x \in Range(Tail(q)) => \E i \in 1 .. Len(q) - 1 : Tail(q)[i] = x
  <2> DEFINE u == Tail(q)
  <2>1. u \in Seq(S) /\ Len(u) = Len(q) - 1
    BY <1>1
  <2> HIDE DEF u
  <2>2. /\ \A i \in 1 .. Len(u) : u[i] \in Range(u)
        /\ \A x : x \in Range(u) => \E i \in 1 .. Len(u) : u[i] = x
    BY <2>1, ElementsOfSeq
  <2> QED
    BY <2>1, <2>2, Zenon DEF u
<1> DEFINE t == Tail(q)
<1>4. Head(q) \in Range(q)
  BY <1>1, <1>2
<1>5. ASSUME NEW x \in Range(q) PROVE x = Head(q) \/ x \in Range(t)
  <2>1. PICK i \in 1 .. Len(q) : q[i] = x
    BY <1>2
  <2>2. CASE i = 1
    BY <1>1, <2>1, <2>2
  <2>3. CASE i # 1
    <3>1. i - 1 \in 1 .. Len(q) - 1 /\ (i - 1) + 1 = i
      BY <1>1, <2>3
    <3>2. t[i - 1] = x
      BY <1>1, <2>1, <3>1
    <3> QED
      BY <1>3, <3>1, <3>2
  <2> QED
    BY <2>2, <2>3
<1>6. ASSUME NEW x \in Range(t) PROVE x \in Range(q)
  <2>1. PICK i \in 1 .. Len(q) - 1 : t[i] = x
    BY <1>3
  <2>2. i + 1 \in 1 .. Len(q) /\ q[i + 1] = x
    BY <1>1, <2>1
  <2> QED
    BY <1>2, <2>2
<1> QED
  BY <1>1, <1>4, <1>5, <1>6

LEMMA QueueGrows ==
    ASSUME NEW S, NEW q \in Seq(S), q # << >>, NEW r \in Seq(S)
    PROVE  /\ q \o r \in Seq(S) /\ q \o r # << >>
           /\ Head(q \o r) = Head(q) /\ Tail(q \o r) = Tail(q) \o r
<1>1. q \o r \in Seq(S) /\ q \o r # << >> /\ Head(q \o r) = Head(q)
  OBVIOUS
<1>2. Tail(q \o r) = Tail(q) \o r
  <2> DEFINE a == Tail(q \o r)
             b == Tail(q) \o r
  <2>1. a \in Seq(S) /\ b \in Seq(S) /\ Len(a) = Len(b)
    OBVIOUS
  <2>2. \A i \in 1 .. Len(b) : a[i] = b[i]
    OBVIOUS
  <2> HIDE DEF a, b
  <2> QED
    BY <2>1, <2>2, EqualSequences
<1> QED
  BY <1>1, <1>2

\* A node behind each of some arcs.
LEMMA OneSequence ==
    ASSUME NEW S, NEW x \in S
    PROVE  <<x>> \in Seq(S) /\ << >> \in Seq(S)
OBVIOUS

LEMMA PassedSeq ==
    ASSUME NEW lex \in Graphs, NEW mut, NEW n \in Nodes(lex, mut), NEW a \in Range(lex.arcs[n.l])
    PROVE  Passed(n, a) \in Seq(Nodes(lex, mut))
<1>1. n.pos \in Nat /\ n.m \in 0 .. mut.n - 1 /\ n.l \in 0 .. lex.n - 1
      /\ n.values \in [Features -> Int]
  BY DEF Nodes
<1> DEFINE c == Child(n, a.out, n.pos, n.m, a.to, a.w, PastFlag(a, n.values))
<1>2. a.out \in Symbols /\ a.to \in 0 .. lex.n - 1 /\ a.w \in Nat
      /\ PastFlag(a, n.values) \in [Features -> Int]
  BY <1>1, LexiconArc
<1>3. c \in Nodes(lex, mut)
  BY <1>1, <1>2, ChildTyped
<1>4. Range(Passed(n, a)) \subseteq {c}
  BY PassedIs
<1> HIDE DEF c
<1>5. Passed(n, a) = << >> \/ \E x : Passed(n, a) = <<x>>
  BY Zenon DEF Passed
<1>6. Passed(n, a) \in Seq(Range(Passed(n, a)))
  <2>1. ASSUME NEW x PROVE <<x>> \in Seq(Range(<<x>>))
    BY OneSequence DEF Range
  <2>2. << >> \in Seq(Range(<< >>))
    OBVIOUS
  <2> QED
    BY <1>5, <2>1, <2>2, Zenon
<1> QED
  BY <1>3, <1>4, <1>6, NarrowerSequence

LEMMA PassedTogether ==
    ASSUME NEW lex \in Graphs, NEW mut, NEW n \in Nodes(lex, mut)
    PROVE  LET arcs == ZeroArcs(lex, n.l)
               all == FlattenSeq([i \in DOMAIN arcs |-> Passed(n, arcs[i])])
           IN  all \in Seq(Nodes(lex, mut)) /\ \A c : c \in Range(all) <=> PassesTo(lex, n, c)
<1> DEFINE arcs == ZeroArcs(lex, n.l)
           q == [i \in DOMAIN arcs |-> Passed(n, arcs[i])]
           N == Nodes(lex, mut)
           R == Range(lex.arcs[n.l])
<1>1. n.l \in 0 .. lex.n - 1
  BY DEF Nodes
<1>2. arcs \in Seq(R) /\ \A a : a \in Range(arcs) <=> a \in R /\ a.in \in Zero
  <2>1. RunIs(lex, n.l, Zero)
    BY <1>1, LexiconRuns
  <2> QED
    BY <2>1, Zenon DEF RunIs, ZeroArcs
<1>3. \A a \in R : Passed(n, a) \in Seq(N)
  BY PassedSeq
<1> HIDE DEF arcs, N, R
<1>4. DOMAIN arcs = 1 .. Len(arcs) /\ Len(arcs) \in Nat /\ \A i \in 1 .. Len(arcs) : arcs[i] \in R
  BY <1>2, ElementsOfSeq
<1>5. /\ q \in Seq(Seq(N)) /\ Len(q) = Len(arcs)
      /\ \A i \in 1 .. Len(arcs) : q[i] = Passed(n, arcs[i])
  BY <1>3, <1>4
<1> HIDE DEF q
<1>6. /\ FlattenSeq(q) \in Seq(N)
      /\ Range(FlattenSeq(q)) = UNION {Range(q[i]) : i \in 1 .. Len(q)}
  BY <1>5, FlattenRange
<1>7. ASSUME NEW c PROVE c \in Range(FlattenSeq(q)) <=> PassesTo(lex, n, c)
  <2>1. ASSUME c \in Range(FlattenSeq(q)) PROVE PassesTo(lex, n, c)
    <3>1. PICK i \in 1 .. Len(arcs) : c \in Range(q[i])
      BY <1>5, <1>6, <2>1
    <3>2. c \in Range(Passed(n, arcs[i])) /\ arcs[i] \in Range(arcs)
      BY <1>2, <1>5, <3>1, ElementsOfSeq
    <3>3. arcs[i] \in Range(lex.arcs[n.l]) /\ arcs[i].in \in Zero
      BY <1>2, <3>2 DEF R
    <3> QED
      BY <3>2, <3>3, Zenon DEF PassesTo
  <2>2. ASSUME PassesTo(lex, n, c) PROVE c \in Range(FlattenSeq(q))
    <3>1. PICK a \in R : a.in \in Zero /\ c \in Range(Passed(n, a))
      BY <2>2, Zenon DEF PassesTo, R
    <3>2. a \in Range(arcs)
      BY <1>2, <3>1
    <3>3. PICK i \in 1 .. Len(arcs) : arcs[i] = a
      BY <1>2, <3>2, ElementsOfSeq
    <3>4. c \in Range(q[i])
      BY <1>5, <3>1, <3>3
    <3> QED
      BY <1>5, <1>6, <3>4
  <2> QED
    BY <2>1, <2>2
<1> QED
  BY <1>6, <1>7, Zenon DEF q, arcs, N
LEMMA ThroughSeq ==
    ASSUME NEW lex, NEW mut, NEW inp, Loaded(lex, mut, inp), NEW n, Fits(lex, mut, inp, n),
           NEW a, NEW i, Takes(mut, inp, n, a, i)
    PROVE  ThroughIn(lex, n, a, i) \in Seq(Nodes(lex, mut))
<1> DEFINE t == ThroughIn(lex, n, a, i)
           bs == ArcsFor(lex, n.l, alphabet_translator[a.out])
           u == [j \in DOMAIN bs |-> Update(n, bs[j].out, i, a.to, bs[j].to, bs[j].w + a.w)]
<1>1. lex \in Graphs /\ n.l \in 0 .. lex.n - 1
  BY NodeHas, Zenon
<1>2. Range(t) \subseteq Nodes(lex, mut)
  BY ThroughFit DEF Fits
<1>3. DOMAIN bs = 1 .. Len(bs) /\ Len(bs) \in Nat
  <2>1. RunIs(lex, n.l, {alphabet_translator[a.out]})
    BY <1>1, LexiconRuns
  <2> DEFINE R == Range(lex.arcs[n.l])
  <2>2. bs \in Seq(R)
    BY <2>1, Zenon DEF RunIs, ArcsFor
  <2> HIDE DEF bs, R
  <2> QED
    BY <2>2
<1> HIDE DEF bs
<1>4. u \in Seq(Range(u))
  <2>1. DOMAIN u = 1 .. Len(bs) /\ \A j \in 1 .. Len(bs) : u[j] \in Range(u)
    BY <1>3 DEF Range
  <2>2. u = [j \in 1 .. Len(bs) |-> u[j]]
    BY <1>3
  <2> HIDE DEF u
  <2> QED
    BY <1>3, <2>1, <2>2
<1>5. t = u \/ \E x : t = <<x>>
  BY Zenon DEF ThroughIn, bs
<1> HIDE DEF t, u
<1>6. t \in Seq(Range(t))
  <2>1. ASSUME NEW x PROVE <<x>> \in Seq(Range(<<x>>))
    BY OneSequence DEF Range
  <2> QED
    BY <1>4, <1>5, <2>1, Zenon
<1> QED
  BY <1>2, <1>6, NarrowerSequence DEF t

\* One reading of a symbol by the error model: all its arcs that have it.
LEMMA ThroughTogether ==
    ASSUME NEW lex, NEW mut, NEW inp, Loaded(lex, mut, inp), NEW n, Fits(lex, mut, inp, n),
           NEW x, NEW i, \/ x = 0 /\ i = n.pos
                         \/ n.pos # Len(inp) /\ x = inp[n.pos + 1] /\ i = n.pos + 1
    PROVE  LET arcs == ArcsFor(mut, n.m, x)
               all == FlattenSeq([j \in DOMAIN arcs |-> ThroughIn(lex, n, arcs[j], i)])
           IN  /\ all \in Seq(Nodes(lex, mut))
               /\ \A c : c \in Range(all) <=> GoesTo(lex, mut, inp, n, i, c)
<1> DEFINE arcs == ArcsFor(mut, n.m, x)
           q == [j \in DOMAIN arcs |-> ThroughIn(lex, n, arcs[j], i)]
           N == Nodes(lex, mut)
           R == Range(mut.arcs[n.m])
<1>1. mut \in Mutators /\ n.m \in 0 .. mut.n - 1 /\ inp \in Seq(Nat \ {0})
      /\ n.pos \in 0 .. Len(inp)
  BY NodeHas, Zenon
<1>2. arcs \in Seq(R) /\ \A a : a \in Range(arcs) <=> a \in R /\ a.in = x
  <2>1. RunIs(mut, n.m, {x})
    BY <1>1, MutatorRuns
  <2>2. \A a : a.in \in {x} <=> a.in = x
    OBVIOUS
  <2> QED
    BY <2>1, <2>2, Zenon DEF RunIs, ArcsFor
<1>3. \A a : Takes(mut, inp, n, a, i) <=> a \in R /\ a.in = x
  <2>1. n.pos # Len(inp) => inp[n.pos + 1] # 0
    <3> DEFINE S == Nat \ {0}
    <3>1. inp \in Seq(S)
      BY <1>1
    <3> HIDE DEF S
    <3>2. n.pos # Len(inp) => inp[n.pos + 1] \in S
      BY <1>1, <3>1, RestMoves
    <3> QED
      BY <3>2 DEF S
  <2>2. n.pos # n.pos + 1
    BY <1>1
  <2> QED
    BY <2>1, <2>2 DEF Takes
<1> HIDE DEF arcs, N, R
<1>4. DOMAIN arcs = 1 .. Len(arcs) /\ Len(arcs) \in Nat
      /\ \A j \in 1 .. Len(arcs) : arcs[j] \in Range(arcs)
  BY <1>2, ElementsOfSeq
<1>5. \A j \in 1 .. Len(arcs) : Takes(mut, inp, n, arcs[j], i)
  BY <1>2, <1>3, <1>4
<1>6. \A j \in 1 .. Len(arcs) : ThroughIn(lex, n, arcs[j], i) \in Seq(N)
  BY <1>5, ThroughSeq DEF N
<1>7. /\ q \in Seq(Seq(N)) /\ Len(q) = Len(arcs)
      /\ \A j \in 1 .. Len(arcs) : q[j] = ThroughIn(lex, n, arcs[j], i)
  BY <1>4, <1>6
<1> HIDE DEF q
<1>8. /\ FlattenSeq(q) \in Seq(N)
      /\ Range(FlattenSeq(q)) = UNION {Range(q[j]) : j \in 1 .. Len(q)}
  BY <1>7, FlattenRange
<1>9. ASSUME NEW c PROVE c \in Range(FlattenSeq(q)) <=> GoesTo(lex, mut, inp, n, i, c)
  <2>1. ASSUME c \in Range(FlattenSeq(q)) PROVE GoesTo(lex, mut, inp, n, i, c)
    <3>1. PICK j \in 1 .. Len(arcs) : c \in Range(q[j])
      BY <1>7, <1>8, <2>1
    <3>2. c \in Range(ThroughIn(lex, n, arcs[j], i))
      BY <1>7, <3>1
    <3> QED
      BY <1>5, <3>2, Zenon DEF GoesTo
  <2>2. ASSUME GoesTo(lex, mut, inp, n, i, c) PROVE c \in Range(FlattenSeq(q))
    <3>1. PICK a : Takes(mut, inp, n, a, i) /\ c \in Range(ThroughIn(lex, n, a, i))
      BY <2>2, Zenon DEF GoesTo
    <3>2. a \in Range(arcs)
      BY <1>2, <1>3, <3>1
    <3>3. PICK j \in 1 .. Len(arcs) : arcs[j] = a
      BY <1>2, <3>2, ElementsOfSeq
    <3>4. c \in Range(q[j])
      BY <1>7, <3>1, <3>3
    <3> QED
      BY <1>7, <1>8, <3>4
  <2> QED
    BY <2>1, <2>2
<1> QED
  BY <1>8, <1>9, Zenon DEF q, arcs, N

\* lexicon_consume: the nodes behind the arcs of the lexicon that read a symbol.
LEMMA ConsumedTogether ==
    ASSUME NEW lex \in Graphs, NEW mut, NEW inp, NEW S, inp \in Seq(S),
           NEW n, Fits(lex, mut, inp, n), n.pos # Len(inp)
    PROVE  LET bs == ArcsFor(lex, n.l, inp[n.pos + 1])
               all == [j \in DOMAIN bs |->
                         Update(n, bs[j].out, n.pos + 1, n.m, bs[j].to, bs[j].w)]
           IN  /\ all \in Seq(Nodes(lex, mut))
               /\ \A c : c \in Range(all) <=> ReadsTo(lex, inp, n, c)
<1> DEFINE bs == ArcsFor(lex, n.l, inp[n.pos + 1])
           all == [j \in DOMAIN bs |->
                     Update(n, bs[j].out, n.pos + 1, n.m, bs[j].to, bs[j].w)]
           R == Range(lex.arcs[n.l])
           y == inp[n.pos + 1]
<1>1. n.l \in 0 .. lex.n - 1
  BY DEF Fits, Nodes
<1>2. bs \in Seq(R) /\ \A b : b \in Range(bs) <=> b \in R /\ b.in = y
  <2>1. RunIs(lex, n.l, {y})
    BY <1>1, LexiconRuns
  <2>2. \A b : b.in \in {y} <=> b.in = y
    OBVIOUS
  <2> QED
    BY <2>1, <2>2, Zenon DEF RunIs, ArcsFor
<1> HIDE DEF bs, R, y
<1>3. /\ DOMAIN bs = 1 .. Len(bs) /\ Len(bs) \in Nat
      /\ \A j \in 1 .. Len(bs) : bs[j] \in Range(bs)
      /\ \A b : b \in Range(bs) => \E j \in 1 .. Len(bs) : bs[j] = b
  BY <1>2, ElementsOfSeq
<1>4. /\ DOMAIN all = 1 .. Len(bs)
      /\ \A j \in 1 .. Len(bs) : all[j] = Consumed(n, bs[j])
  BY <1>3 DEF Consumed, Update, Child
<1> HIDE DEF all
<1>5. \A c : c \in Range(all) <=> \E j \in 1 .. Len(bs) : c = Consumed(n, bs[j])
  BY <1>4 DEF Range
<1>6. \A c : c \in Range(all) <=> \E b \in R : b.in = y /\ c = Consumed(n, b)
  BY <1>2, <1>3, <1>5
<1>7. \A c : c \in Range(all) <=> ReadsTo(lex, inp, n, c)
  BY <1>6, Zenon DEF ReadsTo, R, y
<1>8. Range(all) \subseteq Nodes(lex, mut)
  BY <1>7, ReadsFit DEF Fits
<1>9. all = [j \in 1 .. Len(bs) |-> all[j]] /\ \A j \in 1 .. Len(bs) : all[j] \in Range(all)
  BY <1>4 DEF all, Range
<1>10. all \in Seq(Nodes(lex, mut))
  BY <1>3, <1>8, <1>9
<1> QED
  BY <1>7, <1>10, Zenon DEF all, bs
-----------------------------------------------------------------------------
(* Types.                                                                     *)

\* The numbers of a word's letters, up to the first that has none.
LEMMA TokensTyped ==
    ASSUME NEW w \in Words, NEW key, NEW other, NEW L, Range(key) \subseteq L,
           other \in L \cup {NO_SYMBOL}
    PROVE  Tokens(w, key, other) \in Seq(L)
<1> DEFINE bad == Unreadable(w, key, other)
           T == {Len(w) + 1} \cup bad
           m == Min(T) - 1
<1>1. w \in Seq(Range(w))
  BY SpellerAssumption
<1>2. Len(w) \in Nat /\ DOMAIN w = 1 .. Len(w)
  BY <1>1
<1>3. T \in SUBSET (1 .. Len(w) + 1) /\ T # {}
  BY <1>2 DEF Unreadable
<1> HIDE DEF T
<1>4. Min(T) \in T /\ \A k \in T : Min(T) <= k
  <2> DEFINE top == Len(w) + 1
  <2>1. top \in Nat /\ T \in SUBSET (1 .. top)
    BY <1>2, <1>3
  <2> HIDE DEF top
  <2> QED
    BY <1>3, <2>1, Extremes
<1>5. m \in Nat /\ \A i \in 1 .. m : i \in DOMAIN w /\ i \notin bad
  <2> DEFINE M == Min(T)
             top == Len(w) + 1
  <2>1. top \in Nat /\ M \in 1 .. top /\ M <= top
    <3>1. M \in T /\ top \in T
      BY <1>4 DEF T
    <3>2. top \in Nat /\ T \subseteq 1 .. top
      BY <1>2, <1>3
    <3> HIDE DEF M, top
    <3>3. M \in 1 .. top
      BY <3>1, <3>2
    <3> QED
      BY <3>2, <3>3
  <2>2. \A i \in bad : M <= i
    BY <1>4 DEF T
  <2>3. bad \subseteq Nat /\ DOMAIN w = 1 .. top - 1
    BY <1>2 DEF Unreadable
  <2> HIDE DEF M, top, bad
  <2>4. M - 1 \in Nat /\ \A i \in 1 .. M - 1 : i \in 1 .. top - 1 /\ ~(M <= i)
    BY <2>1
  <2> QED
    BY <2>2, <2>3, <2>4 DEF M
<1> HIDE DEF m, bad
<1>6. ASSUME NEW i \in 1 .. m PROVE Numbered(w[i], key, other) \in L
  <2>1. Numbered(w[i], key, other) # NO_SYMBOL
    BY <1>5 DEF bad, Unreadable
  <2>2. w[i] \in DOMAIN key => key[w[i]] \in L
    BY DEF Range
  <2> QED
    BY <2>1, <2>2 DEF Numbered
<1>7. Tokens(w, key, other) = [i \in 1 .. m |-> Numbered(w[i], key, other)]
  BY DEF Tokens, m, T, bad
<1>8. [i \in 1 .. m |-> Numbered(w[i], key, other)] \in [1 .. m -> L]
  BY <1>6
<1> QED
  BY <1>5, <1>7, <1>8

Found(f) == DOMAIN f \subseteq Seq(Symbols) /\ \A s \in DOMAIN f : f[s] \in Nat

LEMMA RecordedTyped ==
    ASSUME NEW f, Found(f), NEW s \in Seq(Symbols), NEW w \in Nat
    PROVE  Found(Recorded(f, s, w))
<1>1. CASE Recorded(f, s, w) = f
  BY <1>1
<1>2. CASE Recorded(f, s, w) = Put(f, s, w)
  <2>1. /\ DOMAIN Put(f, s, w) = DOMAIN f \cup {s}
        /\ \A t \in DOMAIN f \cup {s} : Put(f, s, w)[t] = IF t = s THEN w ELSE f[t]
    BY DEF Put
  <2>2. \A t \in DOMAIN f \cup {s} : Put(f, s, w)[t] \in Nat
    BY <2>1 DEF Found
  <2>3. Found(Put(f, s, w))
    BY <2>1, <2>2 DEF Found
  <2> QED
    BY <1>2, <2>3
<1>3. Recorded(f, s, w) = f \/ Recorded(f, s, w) = Put(f, s, w)
  BY Zenon DEF Recorded
<1> QED
  BY <1>1, <1>2, <1>3

Running == {"lexicon_consume", "mutator_epsilons", "last"}

\* Types, and that the nodes of a running call are positions in its input.
TypeInv ==
    /\ Loaded(lexicon, mutator, input)
    /\ queue \in Seq(Nodes(lexicon, mutator))
    /\ answer \in BOOLEAN /\ Found(corrections)
    /\ step \in {"idle", "front"} \cup Running /\ (step \in Running => queue # << >>)
    /\ step # "idle" => \A n \in Range(queue) : Fits(lexicon, mutator, input, n)

LEMMA TypeInvIsType == TypeInv => TypeOK
<1> SUFFICES ASSUME TypeInv PROVE TypeOK
  OBVIOUS
<1>1. Range(input) \subseteq Nat
  <2>1. input \in Seq(Nat \ {0})
    BY DEF TypeInv, Loaded
  <2>2. \A i \in DOMAIN input : input[i] \in Nat
    BY <2>1
  <2> QED
    BY <2>2 DEF Range
<1>2. Range(queue) \subseteq Nodes(lexicon, mutator)
  BY ElementsOfSeq DEF TypeInv
<1>3. ASSUME NEW n \in Range(queue)
      PROVE  /\ step # "idle" => n.pos \in 0 .. Len(input)
             /\ n.weight \in Nat
             /\ n.m \in 0 .. mutator.n - 1 /\ n.l \in 0 .. lexicon.n - 1
             /\ Range(n.string) \subseteq 0 .. ORIG_SYMBOL_COUNT - 1
             /\ n.values \in [Features -> Int]
  <2>1. /\ n.weight \in Nat /\ n.m \in 0 .. mutator.n - 1 /\ n.l \in 0 .. lexicon.n - 1
        /\ n.string \in Seq(Symbols) /\ n.values \in [Features -> Int]
    BY <1>2 DEF Nodes
  <2>2. Range(n.string) \subseteq Symbols
    BY <2>1, ElementsOfSeq
  <2>3. step # "idle" => n.pos \in 0 .. Len(input)
    BY DEF TypeInv, Fits
  <2> QED
    BY <2>1, <2>2, <2>3 DEF Symbols
<1> QED
  BY <1>1, <1>3 DEF TypeInv, TypeOK, Found, Running

LEMMA InitTyped == Init => TypeInv
<1> SUFFICES ASSUME Init PROVE TypeInv
  OBVIOUS
<1>1. Loaded(lexicon, mutator, input)
  BY DEF Init, Loaded
<1>2. queue \in Seq(Nodes(lexicon, mutator)) /\ Found(corrections)
  BY DEF Init, Found
<1> QED
  BY <1>1, <1>2 DEF Init, TypeInv, Running

LEMMA StartFits ==
    ASSUME NEW lex, NEW mut, NEW inp, Loaded(lex, mut, inp)
    PROVE  Fits(lex, mut, inp, StartNode)
<1>1. lex.n \in Nat \ {0} /\ mut.n \in Nat \ {0} /\ Len(inp) \in Nat
  <2>1. lex \in Graphs /\ mut \in Mutators /\ inp \in Seq(Nat \ {0})
    BY DEF Loaded
  <2>2. lex.n \in Nat \ {0}
    BY <2>1, GraphsAssumption DEF IsGraph
  <2>3. mut.n \in Nat \ {0}
    BY <2>1, MutatorsHave
  <2> QED
    BY <2>1, <2>2, <2>3
<1>2. 0 \in 0 .. lex.n - 1 /\ 0 \in 0 .. mut.n - 1 /\ 0 \in 0 .. Len(inp)
  BY <1>1
<1>3. << >> \in Seq(Symbols) /\ Neutral \in [Features -> Int]
  BY NeutralTyped
<1>4. StartNode \in Nodes(lex, mut) /\ StartNode.pos = 0
  BY <1>2, <1>3 DEF StartNode, Nodes
<1> QED
  BY <1>2, <1>4 DEF Fits
\* A call that starts, with either key.
Asked(key, other) ==
    /\ step = "idle" /\ word' \in Words
    /\ input' = Tokens(word', key, other)
    /\ corrections' = << >> /\ answer' = FALSE
    /\ IF Unreadable(word', key, other) # {}
       THEN step' = "idle" /\ UNCHANGED queue
       ELSE queue' = <<StartNode>> /\ step' = "front"
    /\ UNCHANGED graphs

LEMMA KeysTyped ==
    /\ Range(LexiconKey) \subseteq Nat \ {0} /\ Range(MutatorKey) \subseteq Nat \ {0}
    /\ MUTATOR_UNKNOWN \in (Nat \ {0}) \cup {NO_SYMBOL}
BY SpellerAssumption, SymbolsAssumption

LEMMA AskedOne ==
    /\ Check => Asked(LexiconKey, NO_SYMBOL) /\ task' = "check"
    /\ Correct => Asked(MutatorKey, MUTATOR_UNKNOWN) /\ task' = "correct"
BY Zenon DEF Check, Correct, Ask, Asked

LEMMA AskedTyped ==
    ASSUME TypeInv, NEW key, NEW other, Asked(key, other),
           Range(key) \subseteq Nat \ {0}, other \in (Nat \ {0}) \cup {NO_SYMBOL}
    PROVE  TypeInv'
<1>1. lexicon' = lexicon /\ mutator' = mutator
  BY DEF Asked, graphs
<1>2. input' \in Seq(Nat \ {0})
  <2> DEFINE L == Nat \ {0}
  <2>1. Range(key) \subseteq L /\ other \in L \cup {NO_SYMBOL}
    OBVIOUS
  <2> HIDE DEF L
  <2>2. input' \in Seq(L)
    BY <2>1, TokensTyped DEF Asked
  <2> QED
    BY <2>2 DEF L
<1>3. Loaded(lexicon, mutator, input)' /\ Found(corrections)' /\ answer' \in BOOLEAN
  <2>1. lexicon \in Graphs /\ mutator \in Mutators
    BY DEF TypeInv, Loaded
  <2>2. Loaded(lexicon', mutator', input')
    BY <1>1, <1>2, <2>1 DEF Loaded
  <2>3. corrections' = << >> /\ answer' = FALSE
    BY Zenon DEF Asked
  <2>4. Found(<< >>)
    BY DEF Found
  <2> QED
    BY <2>2, <2>3, <2>4 DEF Found, Loaded
<1>4. CASE step' = "idle" /\ UNCHANGED queue
  BY <1>1, <1>3, <1>4 DEF TypeInv, Running
<1>5. CASE queue' = <<StartNode>> /\ step' = "front"
  <2>1. Fits(lexicon', mutator', input', StartNode)
    BY <1>3, StartFits
  <2>2. StartNode \in Nodes(lexicon', mutator')
    BY <2>1 DEF Fits
  <2>3. queue' \in Seq(Nodes(lexicon', mutator'))
    BY <1>5, <2>2, OneSequence
  <2>4. \A n \in Range(queue') : n = StartNode
    BY <1>5 DEF Range
  <2> QED
    BY <1>3, <1>5, <2>1, <2>3, <2>4 DEF TypeInv, Running
<1> QED
  BY <1>4, <1>5 DEF Asked

\* The node at the front, and the queue without it.
LEMMA FrontFits ==
    ASSUME TypeInv, step # "idle", queue # << >>
    PROVE  /\ Loaded(lexicon, mutator, input) /\ lexicon \in Graphs /\ mutator \in Mutators
           /\ input \in Seq(Nat \ {0})
           /\ Fits(lexicon, mutator, input, front) /\ front \in Nodes(lexicon, mutator)
           /\ Tail(queue) \in Seq(Nodes(lexicon, mutator))
           /\ Range(queue) = {front} \cup Range(Tail(queue))
<1> DEFINE N == Nodes(lexicon, mutator)
<1>1. queue \in Seq(N)
  BY DEF TypeInv
<1> HIDE DEF N
<1>2. /\ front \in N /\ front \in Range(queue) /\ Tail(queue) \in Seq(N)
      /\ Range(queue) = {front} \cup Range(Tail(queue))
  BY <1>1, QueueParts DEF front
<1> QED
  BY <1>2 DEF TypeInv, Loaded, N

\* A step of a running call that puts nodes in the queue and may drop the front.
LEMMA GrownTyped ==
    ASSUME TypeInv, step # "idle", queue # << >>, UNCHANGED <<graphs, input>>,
           NEW more \in Seq(Nodes(lexicon, mutator)),
           \A c \in Range(more) : Fits(lexicon, mutator, input, c),
           \/ queue' = queue \o more /\ step' \in {"front"} \cup Running
           \/ queue' = Tail(queue) \o more /\ step' = "front",
           Found(corrections'), answer' \in BOOLEAN
    PROVE  TypeInv'
<1> DEFINE N == Nodes(lexicon, mutator)
<1>1. /\ queue \in Seq(N) /\ Tail(queue) \in Seq(N)
      /\ Range(queue) = {front} \cup Range(Tail(queue))
      /\ \A n \in Range(queue) : Fits(lexicon, mutator, input, n)
  BY FrontFits DEF TypeInv
<1>2. lexicon' = lexicon /\ mutator' = mutator /\ input' = input
  BY DEF graphs
<1> HIDE DEF N
<1>3. more \in Seq(N)
  BY DEF N
<1>4. CASE queue' = queue \o more /\ step' \in {"front"} \cup Running
  <2>1. queue' \in Seq(N) /\ Range(queue') = Range(queue) \cup Range(more)
    BY <1>1, <1>3, <1>4, ElementsOfJoined
  <2>2. queue' # << >>
    BY <1>1, <1>3, <1>4, QueueGrows
  <2> QED
    BY <1>1, <1>2, <1>4, <2>1, <2>2 DEF TypeInv, Running, N, Loaded
<1>5. CASE queue' = Tail(queue) \o more /\ step' = "front"
  <2>1. queue' \in Seq(N) /\ Range(queue') = Range(Tail(queue)) \cup Range(more)
    <3> DEFINE r == Tail(queue)
    <3>1. r \in Seq(N)
      BY <1>1
    <3> HIDE DEF r
    <3>2. r \o more \in Seq(N) /\ Range(r \o more) = Range(r) \cup Range(more)
      BY <1>3, <3>1, ElementsOfJoined
    <3> QED
      BY <1>5, <3>2, Zenon DEF r
  <2> QED
    BY <1>1, <1>2, <1>5, <2>1 DEF TypeInv, Running, N, Loaded
<1> QED
  BY <1>4, <1>5
\* What each step of a running call puts into the queue.
PutsPassed(more) ==
    /\ more \in Seq(Nodes(lexicon, mutator)) /\ queue' = queue \o more
    /\ \A c : c \in Range(more) <=> PassesTo(lexicon, front, c)
PutsRead(more) ==
    /\ more \in Seq(Nodes(lexicon, mutator)) /\ queue' = Tail(queue) \o more
    /\ \A c : c \in Range(more) <=> ReadsTo(lexicon, input, front, c)
PutsThrough(more, i) ==
    /\ more \in Seq(Nodes(lexicon, mutator))
    /\ queue' = (IF i = front.pos THEN queue ELSE Tail(queue)) \o more
    /\ \A c : c \in Range(more) <=> GoesTo(lexicon, mutator, input, front, i, c)

LEMMA EpsilonsPut ==
    ASSUME TypeInv, LexiconEpsilons
    PROVE  /\ step # "idle" /\ queue # << >> /\ \E more : PutsPassed(more)
<1>1. step = "front" /\ queue # << >>
  BY Zenon DEF LexiconEpsilons
<1>2. lexicon \in Graphs /\ front \in Nodes(lexicon, mutator)
  BY <1>1, FrontFits
<1> DEFINE arcs == ZeroArcs(lexicon, front.l)
           all == FlattenSeq([i \in DOMAIN arcs |-> Passed(front, arcs[i])])
<1>3. all \in Seq(Nodes(lexicon, mutator))
      /\ \A c : c \in Range(all) <=> PassesTo(lexicon, front, c)
  BY <1>2, PassedTogether
<1>4. queue' = queue \o all
  BY Zenon DEF LexiconEpsilons
<1> HIDE DEF all
<1> QED
  BY <1>1, <1>3, <1>4 DEF PutsPassed

LEMMA ConsumePuts ==
    ASSUME TypeInv, LexiconConsume
    PROVE  /\ step # "idle" /\ queue # << >> /\ \E more : PutsRead(more)
<1>1. step = "lexicon_consume" /\ queue # << >>
  BY DEF LexiconConsume, TypeInv, Running
<1>2. /\ lexicon \in Graphs /\ front \in Nodes(lexicon, mutator) /\ input \in Seq(Nat \ {0})
      /\ Fits(lexicon, mutator, input, front) /\ Tail(queue) \in Seq(Nodes(lexicon, mutator))
  BY <1>1, FrontFits
<1>3. CASE AtEnd(front)
  <2>1. queue' = Tail(queue)
    BY <1>3, Zenon DEF LexiconConsume, Popped
  <2>2. Tail(queue) \o << >> = Tail(queue)
    <3> SUFFICES ASSUME NEW q \in Seq(Nodes(lexicon, mutator)) PROVE q \o << >> = q
      BY <1>2
    <3> QED
      OBVIOUS
  <2>3. \A c : c \in Range(<< >>) <=> ReadsTo(lexicon, input, front, c)
    <3>1. \A c : ~ReadsTo(lexicon, input, front, c)
      BY <1>3, Zenon DEF ReadsTo, AtEnd
    <3>2. \A c : c \notin Range(<< >>)
      BY DEF Range
    <3> QED
      BY <3>1, <3>2, Zenon
  <2>4. << >> \in Seq(Nodes(lexicon, mutator))
    OBVIOUS
  <2>5. PutsRead(<< >>)
    BY <2>1, <2>2, <2>3, <2>4, Zenon DEF PutsRead
  <2> QED
    BY <1>1, <2>5
<1>4. CASE ~AtEnd(front)
  <2> DEFINE bs == ArcsFor(lexicon, front.l, input[front.pos + 1])
             all == [j \in DOMAIN bs |->
                       Update(front, bs[j].out, front.pos + 1, front.m, bs[j].to, bs[j].w)]
  <2>1. front.pos # Len(input)
    BY <1>4 DEF AtEnd
  <2>2. /\ all \in Seq(Nodes(lexicon, mutator))
        /\ \A c : c \in Range(all) <=> ReadsTo(lexicon, input, front, c)
    <3> DEFINE S == Nat \ {0}
    <3>1. input \in Seq(S)
      BY <1>2
    <3> HIDE DEF S
    <3> QED
      BY <1>2, <2>1, <3>1, ConsumedTogether
  <2>3. queue' = Tail(queue) \o all
    BY <1>4, Zenon DEF LexiconConsume, Popped, LexiconArcs
  <2> HIDE DEF all
  <2> QED
    BY <1>1, <2>2, <2>3 DEF PutsRead
<1> QED
  BY <1>3, <1>4

LEMMA ThroughHere ==
    /\ \A n, a, i : Through(n, a, i) = ThroughIn(lexicon, n, a, i)
    /\ \A n, x : MutatorArcs(n, x) = ArcsFor(mutator, n.m, x)
BY Zenon DEF Through, ThroughIn, LexiconArcs, MutatorArcs

LEMMA MutatorEpsilonsPut ==
    ASSUME TypeInv, MutatorEpsilons
    PROVE  /\ step # "idle" /\ queue # << >> /\ \E more : PutsThrough(more, front.pos)
<1>1. step = "mutator_epsilons" /\ queue # << >>
  BY DEF MutatorEpsilons, TypeInv, Running
<1>2. Loaded(lexicon, mutator, input) /\ Fits(lexicon, mutator, input, front)
  BY <1>1, FrontFits
<1> DEFINE arcs == ArcsFor(mutator, front.m, 0)
           all == FlattenSeq([j \in DOMAIN arcs |->
                                ThroughIn(lexicon, front, arcs[j], front.pos)])
<1>3. /\ all \in Seq(Nodes(lexicon, mutator))
      /\ \A c : c \in Range(all) <=> GoesTo(lexicon, mutator, input, front, front.pos, c)
  BY <1>2, ThroughTogether
<1>4. queue' = queue \o all
  BY ThroughHere, Zenon DEF MutatorEpsilons
<1> HIDE DEF all
<1>5. PutsThrough(all, front.pos)
  BY <1>3, <1>4 DEF PutsThrough
<1> QED
  BY <1>1, <1>5

LEMMA ConsumeInputPuts ==
    ASSUME TypeInv, ConsumeInput
    PROVE  /\ step # "idle" /\ queue # << >> /\ front.pos # Len(input)
           /\ \E more : PutsThrough(more, front.pos + 1)
<1>1. step = "last" /\ queue # << >> /\ front.pos # Len(input)
  BY DEF ConsumeInput, TypeInv, Running, AtEnd
<1>2. Loaded(lexicon, mutator, input) /\ Fits(lexicon, mutator, input, front)
  BY <1>1, FrontFits
<1>3. front.pos # front.pos + 1
  BY <1>2 DEF Fits
<1> DEFINE arcs == ArcsFor(mutator, front.m, input[front.pos + 1])
           all == FlattenSeq([j \in DOMAIN arcs |->
                                ThroughIn(lexicon, front, arcs[j], front.pos + 1)])
<1>4. /\ all \in Seq(Nodes(lexicon, mutator))
      /\ \A c : c \in Range(all) <=> GoesTo(lexicon, mutator, input, front, front.pos + 1, c)
  BY <1>1, <1>2, ThroughTogether
<1>5. queue' = Tail(queue) \o all
  BY ThroughHere, Zenon DEF ConsumeInput, Popped
<1> HIDE DEF all
<1>6. PutsThrough(all, front.pos + 1)
  BY <1>3, <1>4, <1>5 DEF PutsThrough
<1> QED
  BY <1>1, <1>6
LEMMA GoesFit ==
    ASSUME NEW lex, NEW mut, NEW inp, Loaded(lex, mut, inp), NEW n, Fits(lex, mut, inp, n),
           NEW i, NEW c, GoesTo(lex, mut, inp, n, i, c)
    PROVE  Fits(lex, mut, inp, c)
<1>1. PICK a : Takes(mut, inp, n, a, i) /\ c \in Range(ThroughIn(lex, n, a, i))
  BY Zenon DEF GoesTo
<1> QED
  BY <1>1, ThroughFit

\* A correction is noted at the end of the input, or nothing is.
LEMMA NotePuts ==
    ASSUME TypeInv, NoteCorrection
    PROVE  /\ step # "idle" /\ queue # << >> /\ front.pos = Len(input)
           /\ queue' = Tail(queue) \o << >> /\ queue' = Tail(queue)
           /\ Found(corrections')
           /\ front.m \in DOMAIN mutator.final /\ front.l \in DOMAIN lexicon.final =>
                /\ corrections' = Recorded(corrections, Stringify(front.string),
                                           TotalWeight(front))
                /\ TotalWeight(front) \in Nat
           /\ ~(front.m \in DOMAIN mutator.final /\ front.l \in DOMAIN lexicon.final) =>
                corrections' = corrections
<1>1. step = "last" /\ queue # << >> /\ front.pos = Len(input)
  BY DEF NoteCorrection, TypeInv, Running, AtEnd
<1>2. /\ front \in Nodes(lexicon, mutator) /\ lexicon \in Graphs /\ mutator \in Mutators
      /\ Tail(queue) \in Seq(Nodes(lexicon, mutator))
  BY <1>1, FrontFits
<1>3. front.string \in Seq(Symbols) /\ front.weight \in Nat
  BY <1>2 DEF Nodes
<1>4. Stringify(front.string) \in Seq(Symbols)
  BY <1>3, SurfaceOfName
<1>5. queue' = Tail(queue) /\ Tail(queue) \o << >> = Tail(queue)
  <2>1. queue' = Tail(queue)
    BY Zenon DEF NoteCorrection, Popped
  <2>2. Tail(queue) \o << >> = Tail(queue)
    <3> SUFFICES ASSUME NEW q \in Seq(Nodes(lexicon, mutator)) PROVE q \o << >> = q
      BY <1>2
    <3> QED
      OBVIOUS
  <2> QED
    BY <2>1, <2>2
<1> DEFINE ends == front.m \in DOMAIN mutator.final /\ front.l \in DOMAIN lexicon.final
<1>6. corrections' = IF ends
                     THEN Recorded(corrections, Stringify(front.string), TotalWeight(front))
                     ELSE corrections
  BY Zenon DEF NoteCorrection
<1>7. ends => TotalWeight(front) \in Nat
  <2>1. \A s \in DOMAIN mutator.final : mutator.final[s] \in Nat
    BY <1>2, MutatorsHave
  <2>2. \A s \in DOMAIN lexicon.final : lexicon.final[s] \in Nat
    BY <1>2, GraphsAssumption DEF IsGraph
  <2> QED
    BY <1>3, <2>1, <2>2 DEF TotalWeight
<1>8. Found(corrections)
  BY DEF TypeInv
<1> HIDE DEF ends
<1>9. Found(corrections')
  <2>1. CASE ends
    <3>1. Found(Recorded(corrections, Stringify(front.string), TotalWeight(front)))
      BY <1>4, <1>7, <1>8, <2>1, RecordedTyped
    <3> QED
      BY <1>6, <2>1, <3>1, Zenon
  <2>2. CASE ~ends
    BY <1>6, <1>8, <2>2, Zenon
  <2> QED
    BY <2>1, <2>2
<1> QED
  BY <1>1, <1>5, <1>6, <1>7, <1>9, Zenon DEF ends

LEMMA NextTyped == TypeInv /\ [Next]_vars => TypeInv'
<1> SUFFICES ASSUME TypeInv, [Next]_vars PROVE TypeInv'
  OBVIOUS
<1> DEFINE N == Nodes(lexicon, mutator)
<1>0. answer \in BOOLEAN /\ Found(corrections) /\ << >> \in Seq(N)
  BY DEF TypeInv
<1>1. ASSUME Check PROVE TypeInv'
  <2>1. Asked(LexiconKey, NO_SYMBOL)
    BY <1>1, AskedOne
  <2> QED
    BY <2>1, AskedTyped, KeysTyped
<1>2. ASSUME Correct PROVE TypeInv'
  <2>1. Asked(MutatorKey, MUTATOR_UNKNOWN)
    BY <1>2, AskedOne
  <2> QED
    BY <2>1, AskedTyped, KeysTyped
<1>3. ASSUME Accept PROVE TypeInv'
  BY <1>3 DEF Accept, TypeInv, request, graphs, Running, Loaded, Found
<1>4. ASSUME LexiconEpsilons PROVE TypeInv'
  <2>1. step # "idle" /\ queue # << >> /\ \E more : PutsPassed(more)
    BY <1>4, EpsilonsPut
  <2>2. PICK more : PutsPassed(more)
    BY <2>1
  <2>3. lexicon \in Graphs /\ Fits(lexicon, mutator, input, front)
    BY <2>1, FrontFits
  <2>4. \A c \in Range(more) : Fits(lexicon, mutator, input, c)
    <3> SUFFICES ASSUME NEW c \in Range(more) PROVE Fits(lexicon, mutator, input, c)
      OBVIOUS
    <3>1. PassesTo(lexicon, front, c)
      BY <2>2, Zenon DEF PutsPassed
    <3> QED
      BY <2>3, <3>1, PassedFit
  <2>5. /\ UNCHANGED <<graphs, input>> /\ corrections' = corrections /\ answer' = answer
        /\ step' \in {"front"} \cup Running
    BY <1>4 DEF LexiconEpsilons, request, Running
  <2>6. more \in Seq(Nodes(lexicon, mutator)) /\ queue' = queue \o more
    BY <2>2, Zenon DEF PutsPassed
  <2> QED
    BY <1>0, <2>1, <2>4, <2>5, <2>6, GrownTyped
<1>5. ASSUME LexiconConsume PROVE TypeInv'
  <2>1. step # "idle" /\ queue # << >> /\ \E more : PutsRead(more)
    BY <1>5, ConsumePuts
  <2>2. PICK more : PutsRead(more)
    BY <2>1
  <2>3. lexicon \in Graphs /\ Fits(lexicon, mutator, input, front) /\ input \in Seq(Nat \ {0})
    BY <2>1, FrontFits
  <2>4. \A c \in Range(more) : Fits(lexicon, mutator, input, c)
    <3> SUFFICES ASSUME NEW c \in Range(more) PROVE Fits(lexicon, mutator, input, c)
      OBVIOUS
    <3>1. ReadsTo(lexicon, input, front, c)
      BY <2>2, Zenon DEF PutsRead
    <3> DEFINE S == Nat \ {0}
    <3>2. input \in Seq(S)
      BY <2>3
    <3> HIDE DEF S
    <3> QED
      BY <2>3, <3>1, <3>2, ReadsFit
  <2>5. /\ UNCHANGED <<graphs, input>> /\ corrections' = corrections /\ answer' = answer
        /\ step' = "front"
    BY <1>5 DEF LexiconConsume, request
  <2>6. more \in Seq(Nodes(lexicon, mutator)) /\ queue' = Tail(queue) \o more
    BY <2>2, Zenon DEF PutsRead
  <2> QED
    BY <1>0, <2>1, <2>4, <2>5, <2>6, GrownTyped
<1>6. ASSUME NEW more, NEW i, PutsThrough(more, i), step # "idle", queue # << >>,
             UNCHANGED <<graphs, input, corrections, answer>>,
             step' \in {"front"} \cup Running, i # front.pos => step' = "front"
      PROVE  TypeInv'
  <2>1. Loaded(lexicon, mutator, input) /\ Fits(lexicon, mutator, input, front)
    BY <1>6, FrontFits
  <2>2. \A c \in Range(more) : Fits(lexicon, mutator, input, c)
    <3> SUFFICES ASSUME NEW c \in Range(more) PROVE Fits(lexicon, mutator, input, c)
      OBVIOUS
    <3>1. GoesTo(lexicon, mutator, input, front, i, c)
      BY <1>6, Zenon DEF PutsThrough
    <3> QED
      BY <2>1, <3>1, GoesFit
  <2>3. /\ more \in Seq(Nodes(lexicon, mutator))
        /\ \/ queue' = queue \o more
           \/ i # front.pos /\ queue' = Tail(queue) \o more
    BY <1>6, Zenon DEF PutsThrough
  <2>4. Found(corrections') /\ answer' \in BOOLEAN /\ UNCHANGED <<graphs, input>>
    BY <1>0, <1>6
  <2> QED
    BY <1>6, <2>2, <2>3, <2>4, GrownTyped
<1>7. ASSUME MutatorEpsilons PROVE TypeInv'
  <2>1. step # "idle" /\ queue # << >> /\ \E more : PutsThrough(more, front.pos)
    BY <1>7, MutatorEpsilonsPut
  <2>2. UNCHANGED <<graphs, input, corrections, answer>> /\ step' \in {"front"} \cup Running
    BY <1>7 DEF MutatorEpsilons, request, Running
  <2> QED
    BY <1>6, <2>1, <2>2
<1>8. ASSUME ConsumeInput PROVE TypeInv'
  <2>1. step # "idle" /\ queue # << >> /\ \E more : PutsThrough(more, front.pos + 1)
    BY <1>8, ConsumeInputPuts
  <2>2. UNCHANGED <<graphs, input, corrections, answer>> /\ step' = "front"
    BY <1>8 DEF ConsumeInput, request
  <2> QED
    BY <1>6, <2>1, <2>2
<1>9. ASSUME NoteCorrection PROVE TypeInv'
  <2>1. /\ step # "idle" /\ queue # << >> /\ queue' = Tail(queue) \o << >>
        /\ Found(corrections')
    BY <1>9, NotePuts
  <2>2. UNCHANGED <<graphs, input, answer>> /\ step' = "front"
    BY <1>9 DEF NoteCorrection, request
  <2>3. \A c \in Range(<< >>) : Fits(lexicon, mutator, input, c)
    BY DEF Range
  <2> QED
    BY <1>0, <2>1, <2>2, <2>3, GrownTyped
<1>10. ASSUME Return PROVE TypeInv'
  BY <1>10 DEF Return, TypeInv, request, graphs, Running, Loaded, Found
<1>11. ASSUME UNCHANGED vars PROVE TypeInv'
  BY <1>11 DEF vars, TypeInv, Running, Loaded, Found
<1> QED
  BY <1>1, <1>2, <1>3, <1>4, <1>5, <1>7, <1>8, <1>9, <1>10, <1>11 DEF Next, Step

\* The strengthened type invariant of Speller holds throughout.
THEOREM TypeInvHolds == Spec => []TypeInv
<1>1. Init => TypeInv
  BY InitTyped
<1>2. TypeInv /\ [Next]_vars => TypeInv'
  BY NextTyped
<1> QED
  BY <1>1, <1>2, PTL DEF Spec

\* Speller's state is of its types, whatever is asked in whatever order: while a
\* call runs its nodes are positions in its own input, and the queue a call of
\* check left behind is never taken for another's.
THEOREM TypeCorrect == Spec => []TypeOK
BY TypeInvHolds, TypeInvIsType, PTL
-----------------------------------------------------------------------------
(* check.                                                                     *)

Reaches(lex, inp, q) == \E n \in Range(q) : CanEnter(lex, inp, n)

\* While check runs it has found nothing, and the lexicon can read the word exactly
\* if it can go on from one of the nodes in the queue.  The front was no end of the
\* word once its epsilon and flag arcs have been taken, and what they lead to is
\* in the queue behind it.
Searching ==
    /\ answer = FALSE /\ Unreadable(word, LexiconKey, NO_SYMBOL) = {}
    /\ step \in {"front", "lexicon_consume"}
    /\ step = "lexicon_consume" =>
         /\ ~Accepts(front)
         /\ \A c : PassesTo(lexicon, front, c) => c \in Range(Tail(queue))
    /\ Reaches(lexicon, input, queue) <=> Entries(0, Neutral, input) # {}

CheckInv ==
    task = "check" =>
      /\ input \in Seq(Letters)
      /\ step # "idle" => Searching
      /\ CheckRight

LEMMA RestAll == ASSUME NEW S, NEW inp \in Seq(S) PROVE Rest(inp, 0) = inp
<1> DEFINE r == Rest(inp, 0)
<1>1. r \in Seq(S) /\ Len(r) = Len(inp) /\ \A i \in 1 .. Len(inp) : r[i] = inp[i]
  BY DEF Rest
<1> HIDE DEF r
<1>2. r = inp
  BY <1>1, EqualSequences
<1> QED
  BY <1>2 DEF r

LEMMA StartCanEnter ==
    ASSUME input \in Seq(Letters)
    PROVE  CanEnter(lexicon, input, StartNode) <=> Entries(0, Neutral, input) # {}
<1> DEFINE S == Letters
<1>1. input \in Seq(S)
  OBVIOUS
<1> HIDE DEF S
<1>2. Rest(input, 0) = input
  BY <1>1, RestAll
<1>3. StartNode.l = 0 /\ StartNode.values = Neutral /\ StartNode.pos = 0
  BY DEF StartNode
<1> QED
  BY <1>2, <1>3, Zenon DEF CanEnter, Entries, EntriesIn

LEMMA OneNode == ASSUME NEW x PROVE \A n : n \in Range(<<x>>) <=> n = x
BY DEF Range

LEMMA NoNode == \A n : n \notin Range(<< >>)
BY DEF Range

\* A step of check that puts the nodes of more in the queue behind the front.
LEMMA JoinedNodes ==
    ASSUME NEW S, NEW q \in Seq(S), NEW more \in Seq(S)
    PROVE  \A n : n \in Range(q \o more) <=> n \in Range(q) \/ n \in Range(more)
BY ElementsOfJoined

LEMMA LettersOnly == Bounded => Range(LexiconKey) \subseteq Letters
BY SpellerAssumption DEF Bounded, Letters, Zero

LEMMA GraphsBounded ==
    ASSUME Bounded, NEW lex, NEW mut, NEW inp, Loaded(lex, mut, inp)
    PROVE  IsLexicon(lex) /\ IsMutator(mut) /\ Setting(lex, mut, inp)
BY DEF Bounded, Loaded, IsLexicon, IsMutator, Setting

LEMMA CheckAsked ==
    ASSUME Bounded, TypeInv, Check
    PROVE  CheckInv'
<1> DEFINE bad == Unreadable(word', LexiconKey, NO_SYMBOL)
<1>1. Asked(LexiconKey, NO_SYMBOL) /\ task' = "check"
  BY AskedOne
<1>2. lexicon' = lexicon /\ mutator' = mutator /\ answer' = FALSE
  BY <1>1 DEF Asked, graphs
<1>3. input' \in Seq(Letters)
  <2> DEFINE L == Letters
  <2>1. Range(LexiconKey) \subseteq L
    BY LettersOnly
  <2> HIDE DEF L
  <2>2. input' \in Seq(L)
    BY <1>1, <2>1, TokensTyped DEF Asked
  <2> QED
    BY <2>2 DEF L
<1>4. CASE bad # {}
  <2>1. step' = "idle"
    BY <1>1, <1>4 DEF Asked
  <2>2. CheckRight'
    BY <1>2, <1>4, <2>1 DEF CheckRight
  <2> QED
    BY <1>1, <1>3, <2>1, <2>2 DEF CheckInv
<1>5. CASE bad = {}
  <2>1. queue' = <<StartNode>> /\ step' = "front"
    BY <1>1, <1>5 DEF Asked
  <2>2. CanEnter(lexicon', input', StartNode) <=> Entries(0, Neutral, input)' # {}
    <3> DEFINE S == Letters
    <3>1. input' \in Seq(S)
      BY <1>3
    <3> HIDE DEF S
    <3>2. Rest(input', 0) = input'
      BY <3>1, RestAll
    <3>3. StartNode.l = 0 /\ StartNode.values = Neutral /\ StartNode.pos = 0
      BY DEF StartNode
    <3> QED
      BY <3>2, <3>3, Zenon DEF CanEnter, Entries, EntriesIn
  <2>3. Reaches(lexicon', input', queue') <=> CanEnter(lexicon', input', StartNode)
    <3>1. \A n : n \in Range(queue') <=> n = StartNode
      BY <2>1, OneNode
    <3> QED
      BY <3>1, Zenon DEF Reaches
  <2>4. Searching'
    BY <1>2, <1>5, <2>1, <2>2, <2>3 DEF Searching
  <2>5. CheckRight'
    BY <2>1 DEF CheckRight
  <2> QED
    BY <1>1, <1>3, <2>4, <2>5 DEF CheckInv
<1> QED
  BY <1>4, <1>5
\* A running check, and what the next lemmas use of it.
LEMMA CheckRuns ==
    ASSUME Bounded, TypeInv, CheckInv, task = "check", step # "idle", queue # << >>
    PROVE  /\ IsLexicon(lexicon) /\ input \in Seq(Letters)
           /\ Fits(lexicon, mutator, input, front)
           /\ CanEnter(lexicon, input, front) <=> Enters(lexicon, input, front)
           /\ Searching
<1>1. Loaded(lexicon, mutator, input) /\ Fits(lexicon, mutator, input, front)
  BY FrontFits
<1>2. IsLexicon(lexicon)
  BY <1>1, GraphsBounded
<1>3. input \in Seq(Letters) /\ Searching
  BY Zenon DEF CheckInv
<1>4. CanEnter(lexicon, input, front) <=> Enters(lexicon, input, front)
  BY <1>1, <1>2, <1>3, EntersBy
<1> QED
  BY <1>1, <1>2, <1>3, <1>4

LEMMA CheckAccepts ==
    ASSUME Bounded, TypeInv, CheckInv, task = "check", Accept
    PROVE  CheckInv'
<1>1. /\ step = "front" /\ queue # << >> /\ Accepts(front)
      /\ answer' = TRUE /\ step' = "idle" /\ task' = "check"
      /\ lexicon' = lexicon /\ input' = input /\ word' = word
  BY DEF Accept, request, graphs
<1>2. /\ input \in Seq(Letters) /\ Searching
      /\ CanEnter(lexicon, input, front) <=> Enters(lexicon, input, front)
  BY <1>1, CheckRuns
<1>3. CanEnter(lexicon, input, front)
  BY <1>1, <1>2 DEF Enters, Accepts, AtEnd
<1>4. front \in Range(queue)
  <2> DEFINE N == Nodes(lexicon, mutator)
  <2>1. queue \in Seq(N)
    BY DEF TypeInv
  <2> HIDE DEF N
  <2> QED
    BY <1>1, <2>1, QueueParts DEF front
<1>5. Entries(0, Neutral, input) # {}
  BY <1>2, <1>3, <1>4, Zenon DEF Searching, Reaches
<1>6. Unreadable(word, LexiconKey, NO_SYMBOL) = {}
  BY <1>2, Zenon DEF Searching
<1>7. Entries(0, Neutral, input)' = Entries(0, Neutral, input)
  BY <1>1, Zenon DEF Entries
<1>8. CheckRight'
  BY <1>1, <1>5, <1>6, <1>7 DEF CheckRight
<1> QED
  BY <1>1, <1>2, <1>8 DEF CheckInv

LEMMA CheckReturns ==
    ASSUME Bounded, TypeInv, CheckInv, task = "check", Return
    PROVE  CheckInv'
<1>1. /\ step = "front" /\ queue = << >> /\ answer' = answer /\ step' = "idle"
      /\ task' = "check" /\ lexicon' = lexicon /\ input' = input /\ word' = word
  BY DEF Return, request, graphs
<1>2. input \in Seq(Letters) /\ Searching
  BY <1>1 DEF CheckInv
<1>3. ~Reaches(lexicon, input, queue)
  BY <1>1, NoNode, Zenon DEF Reaches
<1>4. Entries(0, Neutral, input) = {} /\ answer = FALSE
  BY <1>2, <1>3 DEF Searching
<1>5. Entries(0, Neutral, input)' = Entries(0, Neutral, input)
  BY <1>1, Zenon DEF Entries
<1>6. CheckRight'
  BY <1>1, <1>4, <1>5 DEF CheckRight
<1> QED
  BY <1>1, <1>2, <1>6 DEF CheckInv

LEMMA CheckEpsilons ==
    ASSUME Bounded, TypeInv, CheckInv, task = "check", LexiconEpsilons
    PROVE  CheckInv'
<1>1. /\ step = "front" /\ ~Accepts(front) /\ step' = "lexicon_consume"
      /\ answer' = answer /\ task' = "check" /\ queue # << >>
      /\ lexicon' = lexicon /\ input' = input /\ word' = word
  BY DEF LexiconEpsilons, request, graphs
<1>2. PICK more : PutsPassed(more)
  BY EpsilonsPut
<1>3. /\ input \in Seq(Letters) /\ Searching
      /\ CanEnter(lexicon, input, front) <=> Enters(lexicon, input, front)
  BY <1>1, CheckRuns
<1> DEFINE N == Nodes(lexicon, mutator)
<1>4. queue \in Seq(N) /\ Tail(queue) \in Seq(N) /\ front \in Range(queue)
  <2>1. queue \in Seq(N)
    BY DEF TypeInv
  <2> HIDE DEF N
  <2> QED
    BY <1>1, <2>1, QueueParts DEF front
<1>5. more \in Seq(N) /\ queue' = queue \o more
      /\ \A c : c \in Range(more) <=> PassesTo(lexicon, front, c)
  BY <1>2, Zenon DEF PutsPassed
<1> HIDE DEF N
<1>6. Head(queue') = front /\ Tail(queue') = Tail(queue) \o more
  BY <1>1, <1>4, <1>5, QueueGrows DEF front
<1>7. \A c : PassesTo(lexicon, front, c) => c \in Range(Tail(queue) \o more)
  <2> DEFINE r == Tail(queue)
  <2>1. r \in Seq(N)
    BY <1>4
  <2> HIDE DEF r
  <2>2. \A n : n \in Range(r \o more) <=> n \in Range(r) \/ n \in Range(more)
    BY <1>5, <2>1, JoinedNodes
  <2> QED
    BY <1>5, <2>2, Zenon DEF r
<1>8. \A n : n \in Range(queue') <=> n \in Range(queue) \/ n \in Range(more)
  BY <1>4, <1>5, JoinedNodes
<1>9. Reaches(lexicon, input, queue') <=> Reaches(lexicon, input, queue)
  <2>1. ASSUME NEW c \in Range(more), CanEnter(lexicon, input, c)
        PROVE  CanEnter(lexicon, input, front)
    BY <1>3, <1>5, <2>1, Zenon DEF Enters
  <2> QED
    BY <1>4, <1>8, <2>1, Zenon DEF Reaches
<1>10. /\ \A c : PassesTo(lexicon, front, c) => c \in Range(Tail(queue'))
       /\ ~(Head(queue').pos = Len(input) /\ Head(queue').l \in DOMAIN lexicon.final)
  BY <1>1, <1>6, <1>7, Zenon DEF Accepts, AtEnd
<1>11. Entries(0, Neutral, input)' = Entries(0, Neutral, input)
  BY <1>1, Zenon DEF Entries
<1>12. Accepts(front)' <=>
         Head(queue').pos = Len(input) /\ Head(queue').l \in DOMAIN lexicon.final
  BY <1>1, Zenon DEF Accepts, AtEnd, front
<1>13. front' = front
  BY <1>6, Zenon DEF front
<1>14. \A c : PassesTo(lexicon', front', c) <=> PassesTo(lexicon, front, c)
  BY <1>1, <1>13, Zenon
<1>15. /\ answer = FALSE /\ Unreadable(word, LexiconKey, NO_SYMBOL) = {}
       /\ Reaches(lexicon, input, queue) <=> Entries(0, Neutral, input) # {}
  BY <1>3, Zenon DEF Searching
<1>16. /\ answer' = FALSE /\ Unreadable(word', LexiconKey, NO_SYMBOL) = {}
       /\ Reaches(lexicon', input', queue') <=> Entries(0, Neutral, input)' # {}
  BY <1>1, <1>9, <1>11, <1>15, Zenon
<1>17. Searching'
  BY <1>1, <1>10, <1>12, <1>14, <1>16 DEF Searching
<1>18. CheckRight'
  BY <1>1 DEF CheckRight
<1> QED
  BY <1>1, <1>3, <1>17, <1>18 DEF CheckInv
LEMMA CheckConsumes ==
    ASSUME Bounded, TypeInv, CheckInv, task = "check", LexiconConsume
    PROVE  CheckInv'
<1>1. /\ step = "lexicon_consume" /\ step' = "front" /\ answer' = answer /\ task' = "check"
      /\ lexicon' = lexicon /\ input' = input /\ word' = word
  BY DEF LexiconConsume, request, graphs
<1>2. queue # << >> /\ \E more : PutsRead(more)
  BY ConsumePuts
<1>3. PICK more : PutsRead(more)
  BY <1>2
<1>4. /\ input \in Seq(Letters) /\ Searching
      /\ CanEnter(lexicon, input, front) <=> Enters(lexicon, input, front)
  BY <1>1, <1>2, CheckRuns
<1>5. /\ ~(front.pos = Len(input) /\ front.l \in DOMAIN lexicon.final)
      /\ \A c : PassesTo(lexicon, front, c) => c \in Range(Tail(queue))
  BY <1>1, <1>4, Zenon DEF Searching, Accepts, AtEnd
<1> DEFINE N == Nodes(lexicon, mutator)
           r == Tail(queue)
<1>6. r \in Seq(N) /\ \A n : n \in Range(queue) <=> n = front \/ n \in Range(r)
  <2>1. queue \in Seq(N)
    BY DEF TypeInv
  <2> HIDE DEF N, r
  <2>2. r \in Seq(N) /\ front \in Range(queue) /\ Range(queue) = {front} \cup Range(r)
    BY <1>2, <2>1, QueueParts DEF front, r
  <2> QED
    BY <2>2
<1>7. more \in Seq(N) /\ queue' = r \o more
      /\ \A c : c \in Range(more) <=> ReadsTo(lexicon, input, front, c)
  BY <1>3, Zenon DEF PutsRead
<1> HIDE DEF N, r
<1>8. \A n : n \in Range(queue') <=> n \in Range(r) \/ n \in Range(more)
  BY <1>6, <1>7, JoinedNodes
<1>9. ASSUME Reaches(lexicon, input, queue) PROVE Reaches(lexicon, input, queue')
  <2>1. PICK n \in Range(queue) : CanEnter(lexicon, input, n)
    BY <1>9, Zenon DEF Reaches
  <2>2. CASE n \in Range(r)
    BY <1>8, <2>1, <2>2, Zenon DEF Reaches
  <2>3. CASE n = front
    <3>1. Enters(lexicon, input, front)
      BY <1>4, <2>1, <2>3
    <3>2. \/ \E c : PassesTo(lexicon, front, c) /\ CanEnter(lexicon, input, c)
          \/ \E c : ReadsTo(lexicon, input, front, c) /\ CanEnter(lexicon, input, c)
      BY <1>5, <3>1, Zenon DEF Enters
    <3> QED
      BY <1>5, <1>7, <1>8, <3>2, Zenon DEF Reaches, r
  <2> QED
    BY <1>6, <2>1, <2>2, <2>3
<1>10. ASSUME Reaches(lexicon, input, queue') PROVE Reaches(lexicon, input, queue)
  <2>1. PICK n \in Range(queue') : CanEnter(lexicon, input, n)
    BY <1>10, Zenon DEF Reaches
  <2>2. CASE n \in Range(r)
    BY <1>6, <2>1, <2>2, Zenon DEF Reaches
  <2>3. CASE n \in Range(more)
    <3>1. ReadsTo(lexicon, input, front, n)
      BY <1>7, <2>3
    <3>2. CanEnter(lexicon, input, front)
      BY <1>4, <2>1, <3>1, Zenon DEF Enters
    <3> QED
      BY <1>6, <3>2, Zenon DEF Reaches
  <2> QED
    BY <1>8, <2>1, <2>2, <2>3
<1>11. Entries(0, Neutral, input)' = Entries(0, Neutral, input)
  BY <1>1, Zenon DEF Entries
<1>12. /\ answer = FALSE /\ Unreadable(word, LexiconKey, NO_SYMBOL) = {}
       /\ Reaches(lexicon, input, queue) <=> Entries(0, Neutral, input) # {}
  BY <1>4, Zenon DEF Searching
<1>13. Reaches(lexicon', input', queue') <=> Reaches(lexicon, input, queue)
  BY <1>1, <1>9, <1>10, Zenon
<1>14. /\ answer' = FALSE /\ Unreadable(word', LexiconKey, NO_SYMBOL) = {}
       /\ Reaches(lexicon', input', queue') <=> Entries(0, Neutral, input)' # {}
  BY <1>1, <1>11, <1>12, <1>13, Zenon
<1>15. Searching'
  BY <1>1, <1>14 DEF Searching
<1>16. CheckRight'
  BY <1>1 DEF CheckRight
<1> QED
  BY <1>1, <1>4, <1>15, <1>16 DEF CheckInv

\* No other step than these is one of a running check.
LEMMA CheckSteps ==
    ASSUME Bounded, TypeInv, CheckInv, Next
    PROVE  CheckInv'
<1>1. ASSUME Check PROVE CheckInv'
  BY <1>1, CheckAsked
<1>2. ASSUME Correct PROVE CheckInv'
  <2>1. task' = "correct"
    BY <1>2, AskedOne
  <2> QED
    BY <2>1 DEF CheckInv
<1>3. ASSUME Step, task # "check" PROVE CheckInv'
  <2>1. task' = task
    BY <1>3 DEF Step, Accept, LexiconEpsilons, LexiconConsume, MutatorEpsilons,
                NoteCorrection, ConsumeInput, Return, request
  <2> QED
    BY <1>3, <2>1 DEF CheckInv
<1>4. ASSUME Step, task = "check" PROVE CheckInv'
  <2>1. step # "idle" => step \in {"front", "lexicon_consume"}
    BY <1>4 DEF CheckInv, Searching
  <2>2. ~(MutatorEpsilons \/ NoteCorrection \/ ConsumeInput)
    BY <2>1 DEF MutatorEpsilons, NoteCorrection, ConsumeInput
  <2>3. Accept \/ LexiconEpsilons \/ LexiconConsume \/ Return
    BY <1>4, <2>2, Zenon DEF Step
  <2> QED
    BY <1>4, <2>3, CheckAccepts, CheckEpsilons, CheckConsumes, CheckReturns
<1> QED
  BY <1>1, <1>2, <1>3, <1>4, Zenon DEF Next

LEMMA CheckStutters ==
    ASSUME CheckInv, UNCHANGED vars
    PROVE  CheckInv'
<1>1. /\ lexicon' = lexicon /\ mutator' = mutator /\ input' = input /\ queue' = queue
      /\ step' = step /\ task' = task /\ word' = word /\ answer' = answer
  BY DEF vars
<1>2. front' = front /\ (Entries(0, Neutral, input)' = Entries(0, Neutral, input))
  BY <1>1, Zenon DEF front, Entries
<1>3. (Accepts(front) <=> Accepts(front)') /\ (CheckRight => CheckRight')
  BY <1>1, <1>2, Zenon DEF Accepts, AtEnd, CheckRight
<1>4. Searching => Searching'
  BY <1>1, <1>2, <1>3, Zenon DEF Searching
<1> QED
  BY <1>1, <1>3, <1>4, Zenon DEF CheckInv

\* Speller::check answers whether the lexicon accepts the word, wherever the search
\* found it and whatever was asked before: for lexicons without loops that read
\* nothing (the reference has no bound on their paths, and check need not return)
\* and letters that are not flags.
THEOREM CheckRightHolds == Bounded => (Spec => []CheckRight)
<1> SUFFICES ASSUME Bounded PROVE Spec => []CheckRight
  OBVIOUS
<1>1. Init => CheckInv
  BY DEF Init, CheckInv
<1>2. TypeInv /\ CheckInv /\ [Next]_vars => CheckInv'
  BY CheckSteps, CheckStutters
<1>3. TypeInv /\ CheckInv => CheckRight
  BY DEF CheckInv, CheckRight
<1> QED
  BY <1>1, <1>2, <1>3, TypeInvHolds, PTL DEF Spec
-----------------------------------------------------------------------------
(* correct.                                                                   *)

\* Of strings with weights the best are those of any part that holds one as good
\* for each.
Weighted(p) == p = <<p[1], p[2]>> /\ p[2] \in Nat
Betters(T, s) == \E t \in T : t[1] = s[1] /\ t[2] <= s[2]

LEMMA BestOfPart ==
    ASSUME NEW S, NEW T, T \subseteq S, \A p \in S : Weighted(p), \A s \in S : Betters(T, s)
    PROVE  Best(T) = Best(S)
<1>1. ASSUME NEW p \in Best(S) PROVE p \in Best(T)
  <2>1. p \in S /\ \A q \in S : q[1] = p[1] => p[2] <= q[2]
    BY DEF Best
  <2>2. PICK t \in T : t[1] = p[1] /\ t[2] <= p[2]
    BY <2>1 DEF Betters
  <2>3. p[2] <= t[2] /\ Weighted(p) /\ Weighted(t)
    BY <2>1, <2>2
  <2>4. p[2] = t[2]
    BY <2>2, <2>3 DEF Weighted
  <2>5. p = t
    BY <2>2, <2>3, <2>4, Zenon DEF Weighted
  <2> QED
    BY <2>1, <2>5 DEF Best
<1>2. ASSUME NEW p \in Best(T) PROVE p \in Best(S)
  <2>1. p \in T /\ p \in S /\ \A q \in T : q[1] = p[1] => p[2] <= q[2]
    BY DEF Best
  <2>2. ASSUME NEW q \in S, q[1] = p[1] PROVE p[2] <= q[2]
    <3>1. PICK t \in T : t[1] = q[1] /\ t[2] <= q[2]
      BY DEF Betters
    <3>2. p[2] <= t[2]
      BY <2>1, <2>2, <3>1
    <3>3. p[2] \in Nat /\ q[2] \in Nat /\ t[2] \in Nat
      BY <2>1, <2>2, <3>1 DEF Weighted
    <3> QED
      BY <3>1, <3>2, <3>3
  <2> QED
    BY <2>1, <2>2 DEF Best
<1> QED
  BY <1>1, <1>2

\* What corrections holds, as strings one sees with their weights.
NotedIn(f) == {<<Surface(s), f[s]>> : s \in DOMAIN f}

LEMMA NotedWeighted ==
    ASSUME NEW f, Found(f), NEW p \in NotedIn(f)
    PROVE  Weighted(p)
<1>1. PICK s \in DOMAIN f : p = <<Surface(s), f[s]>>
  BY DEF NotedIn
<1>2. f[s] \in Nat
  BY DEF Found
<1> HIDE DEF NotedIn
<1> QED
  BY <1>1, <1>2 DEF Weighted

\* Entering a string drops nothing but what the new entry betters, or drops the new
\* one because the old is as good.
LEMMA RecordedNotes ==
    ASSUME NEW f, Found(f), NEW s \in Seq(Symbols), NEW w \in Nat
    PROVE  /\ NotedIn(Recorded(f, s, w)) \subseteq NotedIn(f) \cup {<<Surface(s), w>>}
           /\ \A p \in NotedIn(f) \cup {<<Surface(s), w>>} :
                Betters(NotedIn(Recorded(f, s, w)), p)
<1> DEFINE o == <<Surface(s), w>>
<1>1. \A t \in DOMAIN f : f[t] \in Nat
  BY DEF Found
<1>2. CASE s \in DOMAIN f /\ f[s] <= w
  <2>1. Recorded(f, s, w) = f
    BY <1>2, Zenon DEF Recorded
  <2>2. Betters(NotedIn(f), o)
    <3>1. <<Surface(s), f[s]>> \in NotedIn(f)
      BY <1>2 DEF NotedIn
    <3> QED
      BY <1>2, <3>1 DEF Betters
  <2>3. \A p \in NotedIn(f) : Betters(NotedIn(f), p)
    <3> SUFFICES ASSUME NEW p \in NotedIn(f) PROVE Betters(NotedIn(f), p)
      OBVIOUS
    <3>1. p[2] <= p[2]
      BY NotedWeighted DEF Weighted
    <3> QED
      BY <3>1 DEF Betters
  <2> HIDE DEF o
  <2> QED
    BY <2>1, <2>2, <2>3 DEF o
<1>3. CASE ~(s \in DOMAIN f /\ f[s] <= w)
  <2> DEFINE g == Put(f, s, w)
  <2>1. Recorded(f, s, w) = g
    BY <1>3, Zenon DEF Recorded
  <2>2. /\ DOMAIN g = DOMAIN f \cup {s} /\ g[s] = w
        /\ \A t \in DOMAIN f : t # s => g[t] = f[t]
    BY DEF Put
  <2> HIDE DEF g
  <2>3. o \in NotedIn(g)
    BY <2>2 DEF NotedIn
  <2>4. NotedIn(g) \subseteq NotedIn(f) \cup {o}
    BY <2>2 DEF NotedIn
  <2>5. ASSUME NEW p \in NotedIn(f) PROVE Betters(NotedIn(g), p)
    <3>1. PICK t \in DOMAIN f : p = <<Surface(t), f[t]>>
      BY DEF NotedIn
    <3>2. CASE t = s
      <4>1. w <= f[s]
        BY <1>1, <1>3, <3>2
      <4>2. o[1] = p[1] /\ o[2] <= p[2]
        BY <3>1, <3>2, <4>1
      <4> HIDE DEF o
      <4> QED
        BY <2>3, <4>2 DEF Betters
    <3>3. CASE t # s
      <4>1. p \in NotedIn(g)
        BY <2>2, <3>1, <3>3 DEF NotedIn
      <4>2. p[2] <= p[2]
        BY <1>1, <3>1
      <4> QED
        BY <4>1, <4>2 DEF Betters
    <3> QED
      BY <3>2, <3>3
  <2>6. Betters(NotedIn(g), o)
    <3>1. o[2] <= o[2]
      OBVIOUS
    <3> HIDE DEF o
    <3> QED
      BY <2>3, <3>1 DEF Betters
  <2> HIDE DEF o
  <2> QED
    BY <2>1, <2>4, <2>5, <2>6 DEF o
<1> QED
  BY <1>2, <1>3

LEMMA AheadWeighted ==
    ASSUME NEW lex, NEW mut, NEW inp, Setting(lex, mut, inp), NEW n, Fits(lex, mut, inp, n),
           NEW p \in AheadIn(lex, mut, inp, n)
    PROVE  Weighted(p)
<1> DEFINE x == Rest(inp, n.pos)
<1>1. /\ IsLexicon(lex) /\ IsMutator(mut) /\ n \in Nodes(lex, mut)
      /\ n.m \in 0 .. mut.n - 1 /\ n.l \in 0 .. lex.n - 1
      /\ n.values \in [Features -> Int] /\ x \in Seq(Nat \ {0})
  BY NodeReads, Zenon
<1>2. \E r \in RewritingsIn(mut, n.m, x) :
        \E e \in EntriesIn(lex, n.l, n.values, r[1]) : p = Adds(n, r, e)
  BY AheadHas
<1>3. PICK r \in RewritingsIn(mut, n.m, x) :
             \E e \in EntriesIn(lex, n.l, n.values, r[1]) : p = Adds(n, r, e)
  BY <1>2
<1>4. PICK e \in EntriesIn(lex, n.l, n.values, r[1]) : p = Adds(n, r, e)
  BY <1>3
<1> HIDE DEF x
<1>5. r[1] \in Seq(Letters) /\ r[2] \in Nat
  BY <1>1, RewritingTyped
<1>6. e[2] \in Nat
  BY <1>1, <1>5, EntryTyped
<1>7. n.weight \in Nat
  BY <1>1 DEF Nodes
<1> DEFINE s == Surface(n.string) \o e[1]
           w == n.weight + r[2] + e[2]
<1>8. p = <<s, w>> /\ w \in Nat
  BY <1>4, <1>5, <1>6, <1>7 DEF Adds
<1> HIDE DEF s, w
<1> QED
  BY <1>8 DEF Weighted
\* What was noted, and what the nodes of a queue can still lead to.
All(lex, mut, inp, q, f) == NotedIn(f) \cup UNION {AheadIn(lex, mut, inp, n) : n \in Range(q)}
LeadsTo(lex, mut, inp, q, p) == \E n \in Range(q) : p \in AheadIn(lex, mut, inp, n)

LEMMA AllHas ==
    \A lex, mut, inp, q, f, p :
      p \in All(lex, mut, inp, q, f) <=> p \in NotedIn(f) \/ LeadsTo(lex, mut, inp, q, p)
BY DEF All, LeadsTo

LEMMA AllSame ==
    ASSUME NEW lex, NEW mut, NEW inp, NEW f, NEW q, NEW r,
           \A p : LeadsTo(lex, mut, inp, q, p) <=> LeadsTo(lex, mut, inp, r, p)
    PROVE  All(lex, mut, inp, q, f) = All(lex, mut, inp, r, f)
BY AllHas

\* While correct runs, what was noted and what the queue can still lead to are
\* together, with the best weights, the corrections of the word; what the front
\* leads to without reading is in the queue behind it once it has been taken.
CorrectInv ==
    task = "correct" /\ step # "idle" =>
      /\ step \in {"front", "mutator_epsilons", "last"}
      /\ step # "front" => \A c : PassesTo(lexicon, front, c) => c \in Range(Tail(queue))
      /\ step = "last" =>
           \A c : GoesTo(lexicon, mutator, input, front, front.pos, c) => c \in Range(Tail(queue))
      /\ Best(All(lexicon, mutator, input, queue, corrections))
           = Best(AheadIn(lexicon, mutator, input, StartNode))

LEMMA CorrectIsLost == CorrectInv => NothingLost
<1> SUFFICES ASSUME CorrectInv, step = "front", task = "correct"
             PROVE  Best({<<Surface(s), corrections[s]>> : s \in DOMAIN corrections}
                           \cup UNION {Ahead(queue[i]) : i \in DOMAIN queue})
                      = Best(Ahead(StartNode))
  BY Zenon DEF NothingLost
<1>1. UNION {Ahead(queue[i]) : i \in DOMAIN queue}
        = UNION {AheadIn(lexicon, mutator, input, n) : n \in Range(queue)}
  BY AheadIs DEF Range
<1>2. {<<Surface(s), corrections[s]>> : s \in DOMAIN corrections} = NotedIn(corrections)
  BY DEF NotedIn
<1>3. Best(All(lexicon, mutator, input, queue, corrections))
        = Best(AheadIn(lexicon, mutator, input, StartNode))
  BY DEF CorrectInv
<1> QED
  BY <1>1, <1>2, <1>3, AheadIs, Zenon DEF All

\* A running correct, and what the next lemmas use of it.
LEMMA CorrectRuns ==
    ASSUME Bounded, TypeInv, CorrectInv, task = "correct", step # "idle", queue # << >>
    PROVE  /\ Setting(lexicon, mutator, input) /\ Loaded(lexicon, mutator, input)
           /\ lexicon \in Graphs
           /\ Fits(lexicon, mutator, input, front)
           /\ queue \in Seq(Nodes(lexicon, mutator))
           /\ Tail(queue) \in Seq(Nodes(lexicon, mutator))
           /\ \A n : n \in Range(queue) <=> n = front \/ n \in Range(Tail(queue))
           /\ \A n \in Range(queue) : Fits(lexicon, mutator, input, n)
<1>1. /\ Loaded(lexicon, mutator, input) /\ Fits(lexicon, mutator, input, front)
      /\ lexicon \in Graphs
      /\ Tail(queue) \in Seq(Nodes(lexicon, mutator))
      /\ Range(queue) = {front} \cup Range(Tail(queue))
  BY FrontFits
<1>2. \A n : n \in Range(queue) <=> n = front \/ n \in Range(Tail(queue))
  BY <1>1
<1>3. Setting(lexicon, mutator, input)
  BY <1>1, GraphsBounded
<1>4. /\ queue \in Seq(Nodes(lexicon, mutator))
      /\ \A n \in Range(queue) : Fits(lexicon, mutator, input, n)
  BY DEF TypeInv
<1> QED
  BY <1>1, <1>2, <1>3, <1>4, Zenon

\* Nodes behind the front, put in the queue, change nothing of what it can lead to.
LEMMA GrownSame ==
    ASSUME Bounded, TypeInv, CorrectInv, task = "correct", step # "idle", queue # << >>,
           NEW more \in Seq(Nodes(lexicon, mutator)), queue' = queue \o more,
           \A c \in Range(more) : \A p \in AheadIn(lexicon, mutator, input, c) :
             p \in AheadIn(lexicon, mutator, input, front)
    PROVE  /\ Head(queue') = front /\ Tail(queue') = Tail(queue) \o more
           /\ \A c : c \in Range(Tail(queue')) <=> c \in Range(Tail(queue)) \/ c \in Range(more)
           /\ All(lexicon, mutator, input, queue', corrections)
                = All(lexicon, mutator, input, queue, corrections)
<1> DEFINE N == Nodes(lexicon, mutator)
           r == Tail(queue)
<1>1. queue \in Seq(N) /\ r \in Seq(N) /\ \A n : n \in Range(queue) <=> n = front \/ n \in Range(r)
  BY CorrectRuns
<1> HIDE DEF N
<1>2. more \in Seq(N)
  BY DEF N
<1>3. Head(queue') = front /\ Tail(queue') = r \o more
  BY <1>1, <1>2, QueueGrows DEF front
<1> HIDE DEF r
<1>4. \A c : c \in Range(r \o more) <=> c \in Range(r) \/ c \in Range(more)
  BY <1>1, <1>2, JoinedNodes
<1>5. \A n : n \in Range(queue') <=> n \in Range(queue) \/ n \in Range(more)
  BY <1>1, <1>2, JoinedNodes
<1>6. \A p : LeadsTo(lexicon, mutator, input, queue', p)
               <=> LeadsTo(lexicon, mutator, input, queue, p)
  BY <1>1, <1>5, Zenon DEF LeadsTo
<1>7. All(lexicon, mutator, input, queue', corrections)
        = All(lexicon, mutator, input, queue, corrections)
  BY <1>6, AllSame
<1>8. \A c : c \in Range(Tail(queue')) <=> c \in Range(r) \/ c \in Range(more)
  BY <1>3, <1>4, Zenon
<1> QED
  BY <1>3, <1>7, <1>8, Zenon DEF r

LEMMA CorrectEpsilons ==
    ASSUME Bounded, TypeInv, CorrectInv, task = "correct", LexiconEpsilons
    PROVE  CorrectInv'
<1>1. /\ step = "front" /\ step' = "mutator_epsilons" /\ task' = "correct" /\ queue # << >>
      /\ lexicon' = lexicon /\ mutator' = mutator /\ input' = input
      /\ corrections' = corrections
  BY DEF LexiconEpsilons, request, graphs
<1>2. PICK more : PutsPassed(more)
  BY EpsilonsPut
<1>3. /\ Setting(lexicon, mutator, input) /\ Fits(lexicon, mutator, input, front)
      /\ Best(All(lexicon, mutator, input, queue, corrections))
           = Best(AheadIn(lexicon, mutator, input, StartNode))
  BY <1>1, CorrectRuns DEF CorrectInv
<1>4. /\ more \in Seq(Nodes(lexicon, mutator)) /\ queue' = queue \o more
      /\ \A c : c \in Range(more) <=> PassesTo(lexicon, front, c)
  BY <1>2, Zenon DEF PutsPassed
<1>5. ASSUME NEW c \in Range(more), NEW p \in AheadIn(lexicon, mutator, input, c)
      PROVE  p \in AheadIn(lexicon, mutator, input, front)
  <2>1. PassesTo(lexicon, front, c)
    BY <1>4
  <2> QED
    BY <1>3, <2>1, PassedAhead
<1>6. /\ Head(queue') = front
      /\ \A c : c \in Range(Tail(queue')) <=> c \in Range(Tail(queue)) \/ c \in Range(more)
      /\ All(lexicon, mutator, input, queue', corrections)
           = All(lexicon, mutator, input, queue, corrections)
  BY <1>1, <1>4, <1>5, GrownSame
<1>7. front' = front
  BY <1>6, Zenon DEF front
<1>8. \A c : PassesTo(lexicon', front', c) => c \in Range(Tail(queue'))
  BY <1>1, <1>4, <1>6, <1>7, Zenon
<1>9. Best(All(lexicon', mutator', input', queue', corrections'))
        = Best(AheadIn(lexicon', mutator', input', StartNode))
  BY <1>1, <1>3, <1>6, Zenon
<1> QED
  BY <1>1, <1>8, <1>9 DEF CorrectInv
LEMMA CorrectMutatorEpsilons ==
    ASSUME Bounded, TypeInv, CorrectInv, task = "correct", MutatorEpsilons
    PROVE  CorrectInv'
<1>1. /\ step = "mutator_epsilons" /\ step' = "last" /\ task' = "correct"
      /\ lexicon' = lexicon /\ mutator' = mutator /\ input' = input
      /\ corrections' = corrections
  BY DEF MutatorEpsilons, request, graphs
<1>2. queue # << >> /\ \E more : PutsThrough(more, front.pos)
  BY MutatorEpsilonsPut
<1>3. PICK more : PutsThrough(more, front.pos)
  BY <1>2
<1>4. /\ Setting(lexicon, mutator, input) /\ Fits(lexicon, mutator, input, front)
      /\ Best(All(lexicon, mutator, input, queue, corrections))
           = Best(AheadIn(lexicon, mutator, input, StartNode))
      /\ \A c : PassesTo(lexicon, front, c) => c \in Range(Tail(queue))
  BY <1>1, <1>2, CorrectRuns DEF CorrectInv
<1>5. /\ more \in Seq(Nodes(lexicon, mutator)) /\ queue' = queue \o more
      /\ \A c : c \in Range(more) <=>
                  GoesTo(lexicon, mutator, input, front, front.pos, c)
  BY <1>3, Zenon DEF PutsThrough
<1>6. ASSUME NEW c \in Range(more), NEW p \in AheadIn(lexicon, mutator, input, c)
      PROVE  p \in AheadIn(lexicon, mutator, input, front)
  <2>1. GoesTo(lexicon, mutator, input, front, front.pos, c)
    BY <1>5
  <2> QED
    BY <1>4, <2>1, ThroughAhead
<1>7. /\ Head(queue') = front
      /\ \A c : c \in Range(Tail(queue')) <=> c \in Range(Tail(queue)) \/ c \in Range(more)
      /\ All(lexicon, mutator, input, queue', corrections)
           = All(lexicon, mutator, input, queue, corrections)
  BY <1>1, <1>2, <1>5, <1>6, GrownSame
<1>8. front' = front
  BY <1>7, Zenon DEF front
<1>9. /\ \A c : PassesTo(lexicon', front', c) => c \in Range(Tail(queue'))
      /\ \A c : GoesTo(lexicon', mutator', input', front', front'.pos, c) =>
                  c \in Range(Tail(queue'))
  BY <1>1, <1>4, <1>5, <1>7, <1>8, Zenon
<1>10. Best(All(lexicon', mutator', input', queue', corrections'))
         = Best(AheadIn(lexicon', mutator', input', StartNode))
  BY <1>1, <1>4, <1>7, Zenon
<1> QED
  BY <1>1, <1>9, <1>10 DEF CorrectInv

\* What the front can lead to, before it is dropped: all its arcs but those that
\* read have been taken.
LEMMA FrontLeads ==
    ASSUME Bounded, TypeInv, CorrectInv, task = "correct", step = "last",
           NEW p \in AheadIn(lexicon, mutator, input, front)
    PROVE  \/ EndsIn(lexicon, mutator, input, front, p)
           \/ LeadsTo(lexicon, mutator, input, Tail(queue), p)
           \/ /\ front.pos # Len(input)
              /\ \E c : /\ GoesTo(lexicon, mutator, input, front, front.pos + 1, c)
                        /\ p \in AheadIn(lexicon, mutator, input, c)
<1>1. queue # << >> /\ step # "idle"
  BY DEF TypeInv, Running
<1>2. Setting(lexicon, mutator, input) /\ Fits(lexicon, mutator, input, front)
  BY <1>1, CorrectRuns
<1>3. /\ \A c : PassesTo(lexicon, front, c) => c \in Range(Tail(queue))
      /\ \A c : GoesTo(lexicon, mutator, input, front, front.pos, c) => c \in Range(Tail(queue))
  BY DEF CorrectInv
<1>4. Follows(lexicon, mutator, input, front, p)
  BY <1>2, AheadFollows
<1>5. CASE \E c : PassesTo(lexicon, front, c) /\ p \in AheadIn(lexicon, mutator, input, c)
  BY <1>3, <1>5, Zenon DEF LeadsTo
<1>6. CASE \E i, c : /\ GoesTo(lexicon, mutator, input, front, i, c)
                     /\ p \in AheadIn(lexicon, mutator, input, c)
  <2>1. PICK i, c : /\ GoesTo(lexicon, mutator, input, front, i, c)
                    /\ p \in AheadIn(lexicon, mutator, input, c)
    BY <1>6
  <2>2. i = front.pos \/ (front.pos # Len(input) /\ i = front.pos + 1)
    BY <2>1, Zenon DEF GoesTo, Takes
  <2>3. CASE i = front.pos
    BY <1>3, <2>1, <2>3, Zenon DEF LeadsTo
  <2>4. CASE front.pos # Len(input) /\ i = front.pos + 1
    BY <2>1, <2>4, Zenon
  <2> QED
    BY <2>2, <2>3, <2>4
<1> QED
  BY <1>4, <1>5, <1>6, Zenon DEF Follows

LEMMA CorrectConsumes ==
    ASSUME Bounded, TypeInv, CorrectInv, task = "correct", ConsumeInput
    PROVE  CorrectInv'
<1>1. /\ step = "last" /\ step' = "front" /\ task' = "correct" /\ step # "idle"
      /\ lexicon' = lexicon /\ mutator' = mutator /\ input' = input
      /\ corrections' = corrections
  BY DEF ConsumeInput, request, graphs
<1>2. queue # << >> /\ front.pos # Len(input) /\ \E more : PutsThrough(more, front.pos + 1)
  BY ConsumeInputPuts
<1>3. PICK more : PutsThrough(more, front.pos + 1)
  BY <1>2
<1> DEFINE N == Nodes(lexicon, mutator)
           r == Tail(queue)
<1>4. /\ Setting(lexicon, mutator, input) /\ Fits(lexicon, mutator, input, front)
      /\ r \in Seq(N) /\ \A n : n \in Range(queue) <=> n = front \/ n \in Range(r)
  BY <1>1, <1>2, CorrectRuns
<1>5. front.pos + 1 # front.pos
  BY <1>4 DEF Fits
<1>6. /\ more \in Seq(N) /\ queue' = r \o more
      /\ \A c : c \in Range(more) <=>
                  GoesTo(lexicon, mutator, input, front, front.pos + 1, c)
  BY <1>3, <1>5, Zenon DEF PutsThrough
<1> HIDE DEF N, r
<1>7. \A n : n \in Range(queue') <=> n \in Range(r) \/ n \in Range(more)
  BY <1>4, <1>6, JoinedNodes
<1>8. ASSUME NEW p, LeadsTo(lexicon, mutator, input, queue, p)
      PROVE  LeadsTo(lexicon, mutator, input, queue', p)
  <2>1. PICK n \in Range(queue) : p \in AheadIn(lexicon, mutator, input, n)
    BY <1>8, Zenon DEF LeadsTo
  <2>2. CASE n \in Range(r)
    BY <1>7, <2>1, <2>2, Zenon DEF LeadsTo
  <2>3. CASE n = front
    <3>1. p \in AheadIn(lexicon, mutator, input, front)
      BY <2>1, <2>3
    <3>2. \/ EndsIn(lexicon, mutator, input, front, p)
          \/ LeadsTo(lexicon, mutator, input, r, p)
          \/ \E c : /\ GoesTo(lexicon, mutator, input, front, front.pos + 1, c)
                    /\ p \in AheadIn(lexicon, mutator, input, c)
      BY <1>1, <3>1, FrontLeads DEF r
    <3>3. ~EndsIn(lexicon, mutator, input, front, p)
      BY <1>2, Zenon DEF EndsIn
    <3> QED
      BY <1>6, <1>7, <3>2, <3>3, Zenon DEF LeadsTo
  <2> QED
    BY <1>4, <2>1, <2>2, <2>3
<1>9. ASSUME NEW p, LeadsTo(lexicon, mutator, input, queue', p)
      PROVE  LeadsTo(lexicon, mutator, input, queue, p)
  <2>1. PICK n \in Range(queue') : p \in AheadIn(lexicon, mutator, input, n)
    BY <1>9, Zenon DEF LeadsTo
  <2>2. CASE n \in Range(r)
    BY <1>4, <2>1, <2>2, Zenon DEF LeadsTo
  <2>3. CASE n \in Range(more)
    <3>1. GoesTo(lexicon, mutator, input, front, front.pos + 1, n)
      BY <1>6, <2>3
    <3>2. p \in AheadIn(lexicon, mutator, input, front)
      BY <1>4, <2>1, <3>1, ThroughAhead
    <3> QED
      BY <1>4, <3>2, Zenon DEF LeadsTo
  <2> QED
    BY <1>7, <2>1, <2>2, <2>3
<1>10. All(lexicon, mutator, input, queue', corrections)
         = All(lexicon, mutator, input, queue, corrections)
  BY <1>8, <1>9, AllSame
<1>11. Best(All(lexicon, mutator, input, queue, corrections))
         = Best(AheadIn(lexicon, mutator, input, StartNode))
  BY <1>1 DEF CorrectInv
<1>12. Best(All(lexicon', mutator', input', queue', corrections'))
         = Best(AheadIn(lexicon', mutator', input', StartNode))
  BY <1>1, <1>10, <1>11, Zenon
<1> QED
  BY <1>1, <1>12 DEF CorrectInv
\* What is noted at the front is its string as one sees it, with its weight.
LEMMA NoteIs ==
    ASSUME NEW n, Loaded(lexicon, mutator, input), Fits(lexicon, mutator, input, n),
           n.pos = Len(input), n.m \in DOMAIN mutator.final, n.l \in DOMAIN lexicon.final
    PROVE  \A p : EndsIn(lexicon, mutator, input, n, p) <=>
                    p = <<Surface(Stringify(n.string)), TotalWeight(n)>>
<1>1. lexicon \in Graphs /\ mutator \in Mutators /\ n \in Nodes(lexicon, mutator)
  BY NodeHas, Zenon
<1>2. n.string \in Seq(Symbols) /\ n.weight \in Nat
  BY <1>1 DEF Nodes
<1>3. Surface(Stringify(n.string)) = Surface(n.string)
  BY <1>2, SurfaceOfName
<1>4. mutator.final[n.m] \in Nat /\ lexicon.final[n.l] \in Nat
  <2>1. \A s \in DOMAIN mutator.final : mutator.final[s] \in Nat
    BY <1>1, MutatorsHave
  <2>2. \A s \in DOMAIN lexicon.final : lexicon.final[s] \in Nat
    BY <1>1, GraphsAssumption DEF IsGraph
  <2> QED
    BY <2>1, <2>2
<1>5. n.weight + mutator.final[n.m] + lexicon.final[n.l] = TotalWeight(n)
  BY <1>2, <1>4 DEF TotalWeight
<1> QED
  BY <1>3, <1>5, Zenon DEF EndsIn

LEMMA CorrectNotes ==
    ASSUME Bounded, TypeInv, CorrectInv, task = "correct", NoteCorrection
    PROVE  CorrectInv'
<1>1. /\ step = "last" /\ step' = "front" /\ task' = "correct" /\ step # "idle"
      /\ lexicon' = lexicon /\ mutator' = mutator /\ input' = input
  BY DEF NoteCorrection, request, graphs
<1> DEFINE N == Nodes(lexicon, mutator)
           r == Tail(queue)
           ends == front.m \in DOMAIN mutator.final /\ front.l \in DOMAIN lexicon.final
           str == Stringify(front.string)
           W == TotalWeight(front)
           S == All(lexicon, mutator, input, queue, corrections)
           T == All(lexicon, mutator, input, r, corrections')
<1>2. /\ queue # << >> /\ front.pos = Len(input) /\ queue' = r
      /\ ends => corrections' = Recorded(corrections, str, W) /\ W \in Nat
      /\ ~ends => corrections' = corrections
  BY NotePuts
<1>3. /\ Setting(lexicon, mutator, input) /\ Loaded(lexicon, mutator, input)
      /\ Fits(lexicon, mutator, input, front)
      /\ \A n : n \in Range(queue) <=> n = front \/ n \in Range(r)
      /\ \A n \in Range(queue) : Fits(lexicon, mutator, input, n)
  BY <1>1, <1>2, CorrectRuns
<1>4. Found(corrections)
  BY DEF TypeInv
<1>5. str \in Seq(Symbols)
  <2>1. front \in N
    BY <1>3, NodeHas, Zenon
  <2>2. front.string \in Seq(Symbols)
    BY <2>1 DEF Nodes
  <2> QED
    BY <2>2, SurfaceOfName
<1> HIDE DEF N, str, W
<1>6. \A p : LeadsTo(lexicon, mutator, input, queue, p) <=>
               p \in AheadIn(lexicon, mutator, input, front)
               \/ LeadsTo(lexicon, mutator, input, r, p)
  BY <1>3, Zenon DEF LeadsTo
<1>7. \A p \in AheadIn(lexicon, mutator, input, front) :
        EndsIn(lexicon, mutator, input, front, p) \/ LeadsTo(lexicon, mutator, input, r, p)
  BY <1>1, <1>2, FrontLeads
<1>8. Best(S) = Best(AheadIn(lexicon, mutator, input, StartNode))
  BY <1>1 DEF CorrectInv
<1>9. \A p \in S : Weighted(p)
  <2> SUFFICES ASSUME NEW p \in S PROVE Weighted(p)
    OBVIOUS
  <2>1. p \in NotedIn(corrections) \/ LeadsTo(lexicon, mutator, input, queue, p)
    BY AllHas
  <2>2. CASE p \in NotedIn(corrections)
    BY <1>4, <2>2, NotedWeighted
  <2>3. CASE LeadsTo(lexicon, mutator, input, queue, p)
    <3>1. PICK n \in Range(queue) : p \in AheadIn(lexicon, mutator, input, n)
      BY <2>3, Zenon DEF LeadsTo
    <3> QED
      BY <1>3, <3>1, AheadWeighted
  <2> QED
    BY <2>1, <2>2, <2>3
<1>10. /\ \A p : p \in S <=> p \in NotedIn(corrections)
                              \/ LeadsTo(lexicon, mutator, input, queue, p)
       /\ \A p : p \in T <=> p \in NotedIn(corrections')
                              \/ LeadsTo(lexicon, mutator, input, r, p)
  BY AllHas
<1> HIDE DEF r, S, T
<1>11. CASE ends
  <2> DEFINE o == <<Surface(str), W>>
  <2>1. \A p : EndsIn(lexicon, mutator, input, front, p) <=> p = o
    BY <1>2, <1>3, <1>11, NoteIs DEF str, W
  <2>2. /\ NotedIn(corrections') \subseteq NotedIn(corrections) \cup {o}
        /\ \A p \in NotedIn(corrections) \cup {o} : Betters(NotedIn(corrections'), p)
    BY <1>2, <1>4, <1>5, <1>11, RecordedNotes
  <2>3. o \in AheadIn(lexicon, mutator, input, front)
    <3>1. EndsIn(lexicon, mutator, input, front, o)
      BY <2>1
    <3> QED
      BY <1>3, <3>1, OwnAhead
  <2> HIDE DEF o, ends
  <2>4. T \subseteq S
    BY <1>6, <1>10, <2>2, <2>3
  <2>5. ASSUME NEW s \in S PROVE Betters(T, s)
    <3>1. CASE s \in NotedIn(corrections) \cup {o}
      <4>1. Betters(NotedIn(corrections'), s)
        BY <2>2, <3>1
      <4>2. NotedIn(corrections') \subseteq T
        BY <1>10
      <4> QED
        BY <4>1, <4>2 DEF Betters
    <3>2. CASE LeadsTo(lexicon, mutator, input, r, s)
      <4>1. s \in T
        BY <1>10, <3>2
      <4>2. s[2] <= s[2]
        BY <1>9 DEF Weighted
      <4> QED
        BY <4>1, <4>2 DEF Betters
    <3>3. s \in NotedIn(corrections) \cup {o} \/ LeadsTo(lexicon, mutator, input, r, s)
      BY <1>6, <1>7, <1>10, <2>1
    <3> QED
      BY <3>1, <3>2, <3>3
  <2> QED
    <3>1. Best(T) = Best(S)
      BY <1>9, <2>4, <2>5, BestOfPart
    <3>2. Best(All(lexicon', mutator', input', queue', corrections'))
            = Best(AheadIn(lexicon', mutator', input', StartNode))
      BY <1>1, <1>2, <1>8, <3>1, Zenon DEF T
    <3> QED
      BY <1>1, <3>2 DEF CorrectInv
<1>12. CASE ~ends
  <2>1. \A p : ~EndsIn(lexicon, mutator, input, front, p)
    BY <1>12, Zenon DEF EndsIn
  <2>2. corrections' = corrections
    BY <1>2, <1>12
  <2> HIDE DEF ends
  <2>3. S = T
    BY <1>6, <1>7, <1>10, <2>1, <2>2
  <2>4. Best(All(lexicon', mutator', input', queue', corrections'))
          = Best(AheadIn(lexicon', mutator', input', StartNode))
    BY <1>1, <1>2, <1>8, <2>3, Zenon DEF T
  <2> QED
    BY <1>1, <2>4 DEF CorrectInv
<1> QED
  BY <1>11, <1>12

LEMMA CorrectAsked ==
    ASSUME Bounded, TypeInv, Correct
    PROVE  CorrectInv'
<1>1. Asked(MutatorKey, MUTATOR_UNKNOWN)
  BY AskedOne
<1>2. CASE step' = "idle"
  BY <1>2 DEF CorrectInv
<1>3. CASE queue' = <<StartNode>> /\ step' = "front" /\ corrections' = << >>
  <2>1. \A n : n \in Range(queue') <=> n = StartNode
    BY <1>3, OneNode
  <2>2. NotedIn(corrections') = {}
    BY <1>3 DEF NotedIn
  <2> DEFINE X == AheadIn(lexicon', mutator', input', StartNode)
             Y == All(lexicon', mutator', input', queue', corrections')
  <2>3. \A p : p \in Y <=> p \in NotedIn(corrections')
                            \/ LeadsTo(lexicon', mutator', input', queue', p)
    BY AllHas
  <2>4. \A p : LeadsTo(lexicon', mutator', input', queue', p) <=> p \in X
    BY <2>1, Zenon DEF LeadsTo
  <2> HIDE DEF X, Y
  <2>5. X = Y
    BY <2>2, <2>3, <2>4
  <2>6. Best(Y) = Best(X)
    BY <2>5, Zenon
  <2> QED
    BY <1>3, <2>6 DEF CorrectInv, X, Y
<1> QED
  BY <1>1, <1>2, <1>3 DEF Asked
LEMMA CorrectSteps ==
    ASSUME Bounded, TypeInv, CorrectInv, Next
    PROVE  CorrectInv'
<1>1. ASSUME Check PROVE CorrectInv'
  <2>1. task' = "check"
    BY <1>1, AskedOne
  <2> QED
    BY <2>1 DEF CorrectInv
<1>2. ASSUME Correct PROVE CorrectInv'
  BY <1>2, CorrectAsked
<1>3. ASSUME Step, task # "correct" PROVE CorrectInv'
  <2>1. task' = task
    BY <1>3 DEF Step, Accept, LexiconEpsilons, LexiconConsume, MutatorEpsilons,
                NoteCorrection, ConsumeInput, Return, request
  <2> QED
    BY <1>3, <2>1 DEF CorrectInv
<1>4. ASSUME Step, task = "correct" PROVE CorrectInv'
  <2>1. step # "idle" => step \in {"front", "mutator_epsilons", "last"}
    BY <1>4 DEF CorrectInv
  <2>2. ~(Accept \/ LexiconConsume)
    BY <1>4, <2>1 DEF Accept, LexiconConsume
  <2>3. CASE Return
    <3>1. step' = "idle"
      BY <2>3 DEF Return
    <3> QED
      BY <3>1 DEF CorrectInv
  <2>4. LexiconEpsilons \/ MutatorEpsilons \/ NoteCorrection \/ ConsumeInput \/ Return
    BY <1>4, <2>2, Zenon DEF Step
  <2> QED
    BY <1>4, <2>3, <2>4, CorrectEpsilons, CorrectMutatorEpsilons, CorrectNotes,
       CorrectConsumes
<1> QED
  BY <1>1, <1>2, <1>3, <1>4, Zenon DEF Next

LEMMA CorrectStutters ==
    ASSUME CorrectInv, UNCHANGED vars
    PROVE  CorrectInv'
<1>1. /\ lexicon' = lexicon /\ mutator' = mutator /\ input' = input /\ queue' = queue
      /\ step' = step /\ task' = task /\ corrections' = corrections
  BY DEF vars
<1>2. front' = front
  BY <1>1, Zenon DEF front
<1> QED
  BY <1>1, <1>2, Zenon DEF CorrectInv

\* Speller::correct: at every turn of its loop, what it has noted and what the nodes
\* of its queue can still lead to are together the corrections of the word that the
\* paths of the two graphs give, each with its best weight; so when the queue is
\* empty, what it has noted is.  For graphs without loops that read nothing, whose
\* search ends.
THEOREM NothingLostHolds == Bounded => (Spec => []NothingLost)
<1> SUFFICES ASSUME Bounded PROVE Spec => []NothingLost
  OBVIOUS
<1>1. Init => CorrectInv
  BY DEF Init, CorrectInv
<1>2. TypeInv /\ CorrectInv /\ [Next]_vars => CorrectInv'
  BY CorrectSteps, CorrectStutters
<1>3. CorrectInv => NothingLost
  BY CorrectIsLost
<1> QED
  BY <1>1, <1>2, <1>3, TypeInvHolds, PTL DEF Spec
==============================================================================
