--------------------------- MODULE OlFindLoopProofs ---------------------------
(***************************************************************************)
(* Theorems about the search for loops, for every transducer, input and    *)
(* depth: a question leaves the flag values as it found them, and, when    *)
(* the input is of symbols the transducer knows, its answer is right.      *)
(*                                                                         *)
(* A configuration is safe when no lookup from it comes to a loop.  It is  *)
(* safe if those one arc further are, so that the search needs no record   *)
(* of where it has been for its "no" to be right: every call that returns  *)
(* returns from a safe configuration.  A "yes" is given at an arc of the   *)
(* innermost call to where an active call began, with nothing but arcs     *)
(* that read nothing in between.                                           *)
(***************************************************************************)
EXTENDS OlFindLoop, OlGraphProofs

-----------------------------------------------------------------------------
(* What is reached *)

NextLayer(gr, inp, arcs, C) == C \cup UNION {Onward(gr, inp, arcs, c) : c \in C}

Layers(gr, inp, arcs, C, m, r) ==
    r = [n \in 0 .. m |-> IF n = 0 THEN C ELSE NextLayer(gr, inp, arcs, r[n - 1])]

LEMMA LayersExist ==
    ASSUME NEW gr, NEW inp, NEW arcs, NEW C, NEW m \in Nat
    PROVE  \E r : Layers(gr, inp, arcs, C, m, r)
<1> DEFINE F(X) == NextLayer(gr, inp, arcs, X)
           Good(k) == \E r : r = [n \in 0 .. k |-> IF n = 0 THEN C ELSE F(r[n - 1])]
           bad == {k \in Nat : ~Good(k)}
<1>1. bad = {}
  <2> SUFFICES ASSUME bad # {} PROVE FALSE
    OBVIOUS
  <2>1. PICK k \in bad : \A i \in bad : k <= i
    <3>1. bad \in SUBSET Nat
      OBVIOUS
    <3> HIDE DEF bad
    <3> QED
      BY <3>1, LeastElement
  <2>2. k \in Nat /\ ~Good(k)
    BY <2>1
  <2> HIDE DEF F
  <2>3. CASE k = 0
    <3> DEFINE r == [n \in 0 .. k |-> C]
    <3>1. r = [n \in 0 .. k |-> IF n = 0 THEN C ELSE F(r[n - 1])]
      BY <2>3
    <3> QED
      BY <2>2, <3>1
  <2>4. CASE k # 0
    <3>1. k - 1 \in Nat /\ k - 1 \notin bad
      <4>1. k - 1 \in Nat /\ ~(k <= k - 1)
        BY <2>2, <2>4
      <4> HIDE DEF bad
      <4> QED
        BY <2>1, <4>1
    <3>2. PICK q : q = [n \in 0 .. k - 1 |-> IF n = 0 THEN C ELSE F(q[n - 1])]
      BY <3>1
    <3> DEFINE r == [n \in 0 .. k |-> IF n <= k - 1 THEN q[n] ELSE F(q[k - 1])]
    <3>3. \A n \in 0 .. k - 1 : q[n] = IF n = 0 THEN C ELSE F(q[n - 1])
      BY <3>2
    <3>4. \A n \in 0 .. k : r[n] = IF n = 0 THEN C ELSE F(r[n - 1])
      <4> SUFFICES ASSUME NEW n \in 0 .. k
                   PROVE  r[n] = IF n = 0 THEN C ELSE F(r[n - 1])
        OBVIOUS
      <4>1. CASE n = k
        <5>1. r[n] = F(q[k - 1]) /\ r[n - 1] = q[k - 1] /\ n # 0
          BY <2>2, <2>4, <4>1
        <5> QED
          BY <4>1, <5>1
      <4>2. CASE n # k
        <5>1. n \in 0 .. k - 1 /\ r[n] = q[n] /\ (n # 0 => r[n - 1] = q[n - 1])
          BY <2>2, <2>4, <4>2
        <5> QED
          BY <3>3, <5>1
      <4> QED
        BY <4>1, <4>2
    <3>5. r = [n \in 0 .. k |-> r[n]]
      OBVIOUS
    <3> HIDE DEF r
    <3>6. r = [n \in 0 .. k |-> IF n = 0 THEN C ELSE F(r[n - 1])]
      BY <3>4, <3>5
    <3> QED
      BY <2>2, <3>6
  <2> QED
    BY <2>3, <2>4
<1> QED
  BY <1>1 DEF Layers

LEMMA LayersAgree ==
    ASSUME NEW gr, NEW inp, NEW arcs, NEW C, NEW m \in Nat, NEW k \in 0 .. m,
           NEW p, NEW q, Layers(gr, inp, arcs, C, k, p), Layers(gr, inp, arcs, C, m, q)
    PROVE  p[k] = q[k]
<1> DEFINE F(X) == NextLayer(gr, inp, arcs, X)
           bad == {n \in 0 .. k : p[n] # q[n]}
<1>1. \A n \in 0 .. k : p[n] = IF n = 0 THEN C ELSE F(p[n - 1])
  BY DEF Layers
<1>2. \A n \in 0 .. m : q[n] = IF n = 0 THEN C ELSE F(q[n - 1])
  BY DEF Layers
<1> HIDE DEF F
<1>3. bad = {}
  <2> SUFFICES ASSUME bad # {} PROVE FALSE
    OBVIOUS
  <2>1. PICK n \in bad : \A i \in bad : n <= i
    <3>1. bad \in SUBSET Nat
      OBVIOUS
    <3> HIDE DEF bad
    <3> QED
      BY <3>1, LeastElement
  <2>2. n \in 0 .. k /\ n \in 0 .. m /\ p[n] # q[n]
    BY <2>1
  <2>3. n # 0
    BY <1>1, <1>2, <2>2
  <2>4. n - 1 \in 0 .. k /\ ~(n <= n - 1)
    BY <2>2, <2>3
  <2>5. p[n - 1] = q[n - 1]
    BY <2>1, <2>4
  <2> QED
    BY <1>1, <1>2, <2>2, <2>3, <2>5
<1> QED
  BY <1>3

\* What Reached is.
LEMMA ReachedIs ==
    ASSUME NEW gr, NEW inp, NEW arcs, NEW C, NEW n \in Nat
    PROVE  /\ Reached(gr, inp, arcs, C, 0) = C
           /\ Reached(gr, inp, arcs, C, n + 1)
                = NextLayer(gr, inp, arcs, Reached(gr, inp, arcs, C, n))
<1> DEFINE F(X) == NextLayer(gr, inp, arcs, X)
           L(m, r) == Layers(gr, inp, arcs, C, m, r)
           layers(m) == CHOOSE r : L(m, r)
           all == [m \in Nat |-> layers(m)[m]]
           w == CHOOSE r : r = [m \in Nat |-> IF m = 0 THEN C
                                 ELSE LET before == r[m - 1]
                                      IN  before \cup UNION {Onward(gr, inp, arcs, c) : c \in before}]
           u == CHOOSE r : r = [m \in Nat |-> IF m = 0 THEN C ELSE F(r[m - 1])]
<1>1. \A m : Reached(gr, inp, arcs, C, m) = w[m]
  BY DEF Reached
<1>2. w = u
  BY DEF NextLayer
<1>3. \A m \in Nat : L(m, layers(m))
  BY LayersExist
<1>4. \A m \in Nat : layers(m)[m] = IF m = 0 THEN C ELSE F(layers(m - 1)[m - 1])
  <2> SUFFICES ASSUME NEW m \in Nat
               PROVE  layers(m)[m] = IF m = 0 THEN C ELSE F(layers(m - 1)[m - 1])
    OBVIOUS
  <2>1. layers(m)[m] = IF m = 0 THEN C ELSE F(layers(m)[m - 1])
    <3>1. L(m, layers(m)) /\ m \in 0 .. m
      BY <1>3
    <3> HIDE DEF layers, F
    <3> QED
      BY <3>1 DEF Layers, F
  <2>2. m # 0 => layers(m)[m - 1] = layers(m - 1)[m - 1]
    <3> SUFFICES ASSUME m # 0 PROVE layers(m)[m - 1] = layers(m - 1)[m - 1]
      OBVIOUS
    <3>1. m - 1 \in Nat /\ m - 1 \in 0 .. m
      OBVIOUS
    <3>2. L(m, layers(m)) /\ L(m - 1, layers(m - 1))
      BY <1>3, <3>1
    <3> HIDE DEF layers
    <3> QED
      BY <3>1, <3>2, LayersAgree
  <2> HIDE DEF layers, F
  <2> QED
    BY <2>1, <2>2
<1>5. all = [m \in Nat |-> IF m = 0 THEN C ELSE F(all[m - 1])]
  <2>1. \A m \in Nat : all[m] = IF m = 0 THEN C ELSE F(all[m - 1])
    <3> SUFFICES ASSUME NEW m \in Nat
                 PROVE  all[m] = IF m = 0 THEN C ELSE F(all[m - 1])
      OBVIOUS
    <3>1. all[m] = layers(m)[m] /\ (m # 0 => all[m - 1] = layers(m - 1)[m - 1])
      OBVIOUS
    <3> HIDE DEF all, layers, F
    <3> QED
      BY <1>4, <3>1
  <2>2. all = [m \in Nat |-> all[m]]
    OBVIOUS
  <2> HIDE DEF all, layers, F
  <2> QED
    BY <2>1, <2>2
<1> HIDE DEF all, layers, F
<1>6. u = [m \in Nat |-> IF m = 0 THEN C ELSE F(u[m - 1])]
  BY <1>5
<1> HIDE DEF u, w
<1>7. u[0] = C /\ u[n + 1] = F(u[n])
  BY <1>6
<1> QED
  BY <1>1, <1>2, <1>7 DEF F

LEMMA LayerHolds ==
    ASSUME NEW gr, NEW inp, NEW arcs, NEW C
    PROVE  /\ C \subseteq NextLayer(gr, inp, arcs, C)
           /\ \A c \in C : Onward(gr, inp, arcs, c) \subseteq NextLayer(gr, inp, arcs, C)
BY DEF NextLayer

\* More arcs reach more.
LEMMA ReachedGrows ==
    ASSUME NEW gr, NEW inp, NEW arcs, NEW C, NEW n \in Nat, NEW k \in Nat
    PROVE  Reached(gr, inp, arcs, C, n) \subseteq Reached(gr, inp, arcs, C, n + k)
<1> DEFINE R(i) == Reached(gr, inp, arcs, C, i)
           bad == {i \in Nat : ~(R(n) \subseteq R(n + i))}
<1>1. \A i \in Nat : R(i) \subseteq R(i + 1)
  <2> SUFFICES ASSUME NEW i \in Nat PROVE R(i) \subseteq R(i + 1)
    OBVIOUS
  <2>1. R(i + 1) = NextLayer(gr, inp, arcs, R(i))
    BY ReachedIs
  <2>2. R(i) \subseteq NextLayer(gr, inp, arcs, R(i))
    BY LayerHolds
  <2> QED
    BY <2>1, <2>2
<1> HIDE DEF R
<1>2. bad = {}
  <2> SUFFICES ASSUME bad # {} PROVE FALSE
    OBVIOUS
  <2>1. PICK i \in bad : \A j \in bad : i <= j
    <3>1. bad \in SUBSET Nat
      OBVIOUS
    <3> HIDE DEF bad
    <3> QED
      BY <3>1, LeastElement
  <2>2. i \in Nat /\ ~(R(n) \subseteq R(n + i))
    BY <2>1
  <2>3. i # 0
    BY <2>2
  <2>4. i - 1 \in Nat /\ i - 1 \notin bad
    <3>1. i - 1 \in Nat /\ ~(i <= i - 1)
      BY <2>2, <2>3
    <3> HIDE DEF bad
    <3> QED
      BY <2>1, <3>1
  <2>5. R(n) \subseteq R(n + (i - 1))
    BY <2>4
  <2>6. n + (i - 1) \in Nat /\ n + (i - 1) + 1 = n + i
    BY <2>2, <2>4
  <2>7. R(n + (i - 1)) \subseteq R(n + i)
    BY <1>1, <2>6
  <2> QED
    BY <2>2, <2>5, <2>7
<1>3. k \notin bad
  BY <1>2
<1> QED
  BY <1>3 DEF R

LEMMA ReachedNext ==
    ASSUME NEW gr, NEW inp, NEW arcs, NEW C, NEW n \in Nat,
           NEW c \in Reached(gr, inp, arcs, C, n), NEW d \in Onward(gr, inp, arcs, c)
    PROVE  d \in Reached(gr, inp, arcs, C, n + 1)
<1> DEFINE R == Reached(gr, inp, arcs, C, n)
<1>1. Reached(gr, inp, arcs, C, n + 1) = NextLayer(gr, inp, arcs, R)
  BY ReachedIs
<1>2. c \in R
  OBVIOUS
<1> HIDE DEF R
<1>3. Onward(gr, inp, arcs, c) \subseteq NextLayer(gr, inp, arcs, R)
  BY <1>2, LayerHolds
<1> QED
  BY <1>1, <1>3

\* What holds where the search starts, and one arc further wherever it holds, holds
\* where the search comes to.
LEMMA ReachedStays ==
    ASSUME NEW gr, NEW inp, NEW arcs, NEW C, NEW T, C \subseteq T,
           \A c \in T : Onward(gr, inp, arcs, c) \subseteq T
    PROVE  \A n \in Nat : Reached(gr, inp, arcs, C, n) \subseteq T
<1> DEFINE R(i) == Reached(gr, inp, arcs, C, i)
           bad == {i \in Nat : ~(R(i) \subseteq T)}
<1>1. R(0) \subseteq T /\ \A i \in Nat : R(i) \subseteq T => R(i + 1) \subseteq T
  <2>1. R(0) = C
    <3>1. 0 \in Nat
      OBVIOUS
    <3> QED
      BY <3>1, ReachedIs
  <2>2. ASSUME NEW i \in Nat, R(i) \subseteq T PROVE R(i + 1) \subseteq T
    <3>1. R(i + 1) = NextLayer(gr, inp, arcs, R(i))
      BY ReachedIs
    <3> HIDE DEF R
    <3>2. NextLayer(gr, inp, arcs, R(i)) \subseteq T
      BY <2>2 DEF NextLayer
    <3> QED
      BY <3>1, <3>2
  <2> QED
    BY <2>1, <2>2
<1> HIDE DEF R
<1>2. bad = {}
  <2> SUFFICES ASSUME bad # {} PROVE FALSE
    OBVIOUS
  <2>1. PICK i \in bad : \A j \in bad : i <= j
    <3>1. bad \in SUBSET Nat
      OBVIOUS
    <3> HIDE DEF bad
    <3> QED
      BY <3>1, LeastElement
  <2>2. i \in Nat /\ ~(R(i) \subseteq T) /\ i # 0
    BY <1>1, <2>1
  <2>3. i - 1 \in Nat /\ i - 1 \notin bad
    <3>1. i - 1 \in Nat /\ ~(i <= i - 1)
      BY <2>2
    <3> HIDE DEF bad
    <3> QED
      BY <2>1, <3>1
  <2>4. R(i - 1) \subseteq T /\ i - 1 + 1 = i
    BY <2>2, <2>3
  <2> QED
    BY <1>1, <2>2, <2>3, <2>4
<1> QED
  BY <1>2 DEF R

\* What is reached without reading is reached.
LEMMA ReachedReading ==
    ASSUME NEW gr, NEW inp, NEW C
    PROVE  \A n \in Nat : Reached(gr, inp, "quiet", C, n)
                            \subseteq UNION {Reached(gr, inp, "all", C, m) : m \in Nat}
<1> DEFINE T == UNION {Reached(gr, inp, "all", C, m) : m \in Nat}
<1>1. C \subseteq T
  <2>1. Reached(gr, inp, "all", C, 0) = C /\ 0 \in Nat
    BY ReachedIs
  <2> QED
    BY <2>1
<1>2. ASSUME NEW c \in T PROVE Onward(gr, inp, "quiet", c) \subseteq T
  <2>1. PICK m \in Nat : c \in Reached(gr, inp, "all", C, m)
    OBVIOUS
  <2>2. Onward(gr, inp, "quiet", c) \subseteq Onward(gr, inp, "all", c)
    BY DEF Onward
  <2>3. ASSUME NEW d \in Onward(gr, inp, "all", c)
        PROVE  d \in Reached(gr, inp, "all", C, m + 1) /\ m + 1 \in Nat
    BY <2>1, ReachedNext
  <2> QED
    BY <2>2, <2>3
<1> HIDE DEF T
<1>3. \A n \in Nat : Reached(gr, inp, "quiet", C, n) \subseteq T
  BY <1>1, <1>2, ReachedStays
<1> QED
  BY <1>3 DEF T

\* All that is reached from c.
From(gr, inp, arcs, c) == UNION {Reached(gr, inp, arcs, {c}, m) : m \in Nat}

LEMMA FromHolds ==
    ASSUME NEW gr, NEW inp, NEW arcs, NEW c
    PROVE  /\ c \in From(gr, inp, arcs, c)
           /\ \A x \in From(gr, inp, arcs, c) :
                Onward(gr, inp, arcs, x) \subseteq From(gr, inp, arcs, c)
<1>1. Reached(gr, inp, arcs, {c}, 0) = {c} /\ 0 \in Nat
  BY ReachedIs
<1>2. ASSUME NEW x \in From(gr, inp, arcs, c), NEW h \in Onward(gr, inp, arcs, x)
      PROVE  h \in From(gr, inp, arcs, c)
  <2>1. PICK m \in Nat : x \in Reached(gr, inp, arcs, {c}, m)
    BY DEF From
  <2>2. h \in Reached(gr, inp, arcs, {c}, m + 1) /\ m + 1 \in Nat
    BY <2>1, ReachedNext
  <2> QED
    BY <2>2 DEF From
<1> QED
  BY <1>1, <1>2 DEF From

LEMMA InFrom ==
    ASSUME NEW gr, NEW inp, NEW arcs, NEW c, NEW d
    PROVE  d \in From(gr, inp, arcs, c)
             <=> \E m \in Nat : d \in Reached(gr, inp, arcs, {c}, m)
BY DEF From

\* What is reached from a set is reached from one of its elements.
LEMMA ReachedFromOne ==
    ASSUME NEW gr, NEW inp, NEW arcs, NEW C, NEW n \in Nat,
           NEW d \in Reached(gr, inp, arcs, C, n)
    PROVE  \E c \in C : d \in From(gr, inp, arcs, c)
<1> DEFINE T == UNION {From(gr, inp, arcs, c) : c \in C}
<1>1. C \subseteq T
  BY FromHolds
<1>2. ASSUME NEW e \in T PROVE Onward(gr, inp, arcs, e) \subseteq T
  <2>1. PICK c \in C : e \in From(gr, inp, arcs, c)
    OBVIOUS
  <2>2. Onward(gr, inp, arcs, e) \subseteq From(gr, inp, arcs, c)
    BY <2>1, FromHolds
  <2> QED
    BY <2>2
<1> HIDE DEF T
<1>3. d \in T
  BY <1>1, <1>2, ReachedStays
<1> QED
  BY <1>3 DEF T

\* From a configuration the search comes to itself, or goes on from one arc further.
LEMMA ReachedShift ==
    ASSUME NEW gr, NEW inp, NEW arcs, NEW c, NEW d \in From(gr, inp, arcs, c)
    PROVE  d = c \/ \E e \in Onward(gr, inp, arcs, c) : d \in From(gr, inp, arcs, e)
<1> DEFINE rest == UNION {From(gr, inp, arcs, e) : e \in Onward(gr, inp, arcs, c)}
           T == {c} \cup rest
<1>1. ASSUME NEW x \in T PROVE Onward(gr, inp, arcs, x) \subseteq T
  <2>1. CASE x = c
    BY <2>1, FromHolds
  <2>2. CASE x # c
    <3>1. PICK e \in Onward(gr, inp, arcs, c) : x \in From(gr, inp, arcs, e)
      BY <2>2
    <3>2. Onward(gr, inp, arcs, x) \subseteq From(gr, inp, arcs, e)
      BY <3>1, FromHolds
    <3> QED
      BY <3>2
  <2> QED
    BY <2>1, <2>2
<1>2. {c} \subseteq T
  OBVIOUS
<1>3. PICK n \in Nat : d \in Reached(gr, inp, arcs, {c}, n)
  BY InFrom
<1> HIDE DEF T
<1>4. d \in T
  BY <1>1, <1>2, <1>3, ReachedStays
<1> QED
  BY <1>4 DEF T

-----------------------------------------------------------------------------
(* Safe configurations *)

\* The configuration d is on a loop that reads nothing.
OnLoop(gr, inp, d) == \E n \in Nat : d \in Reached(gr, inp, "quiet", Quietly(gr, d), n)

Safe(gr, inp, c) == \A d \in From(gr, inp, "all", c) : ~OnLoop(gr, inp, d)

\* What is reached without reading is reached.
LEMMA FromReading ==
    ASSUME NEW gr, NEW inp, NEW c
    PROVE  From(gr, inp, "quiet", c) \subseteq From(gr, inp, "all", c)
BY ReachedReading DEF From

LEMMA SafeOnward ==
    ASSUME NEW gr, NEW inp, NEW c,
           \A e \in Onward(gr, inp, "all", c) : Safe(gr, inp, e)
    PROVE  Safe(gr, inp, c)
<1>1. ASSUME OnLoop(gr, inp, c) PROVE FALSE
  <2>1. PICK n \in Nat : c \in Reached(gr, inp, "quiet", Quietly(gr, c), n)
    BY <1>1 DEF OnLoop
  <2>2. PICK e \in Quietly(gr, c) : c \in From(gr, inp, "quiet", e)
    BY <2>1, ReachedFromOne
  <2>3. c \in From(gr, inp, "all", e)
    BY <2>2, FromReading
  <2>4. e \in Onward(gr, inp, "all", c)
    BY DEF Onward
  <2> QED
    BY <1>1, <2>3, <2>4 DEF Safe
<1>2. ASSUME NEW d \in From(gr, inp, "all", c)
      PROVE  ~OnLoop(gr, inp, d)
  <2>1. d = c \/ \E e \in Onward(gr, inp, "all", c) : d \in From(gr, inp, "all", e)
    BY <1>2, ReachedShift
  <2> QED
    BY <1>1, <2>1 DEF Safe
<1> QED
  BY <1>2 DEF Safe

-----------------------------------------------------------------------------
(* There are finitely many configurations *)

LEMMA FewFunctions ==
    ASSUME NEW S, IsFiniteSet(S), NEW T, IsFiniteSet(T)
    PROVE  IsFiniteSet([S -> T])
<1> DEFINE graph(f) == {<<x, f[x]>> : x \in S}
           h == [f \in [S -> T] |-> graph(f)]
<1>1. IsFiniteSet(SUBSET (S \X T))
  BY FS_Product, FS_SUBSET
<1>2. \A f \in [S -> T] : graph(f) \in SUBSET (S \X T)
  OBVIOUS
<1>3. ASSUME NEW f \in [S -> T], NEW k \in [S -> T], graph(f) = graph(k) PROVE f = k
  <2>1. ASSUME NEW x \in S PROVE f[x] = k[x]
    <3>1. <<x, f[x]>> \in graph(k)
      BY <1>3
    <3> QED
      BY <3>1
  <2> QED
    BY <2>1
<1>4. h \in Injection([S -> T], SUBSET (S \X T))
  <2>1. h \in [[S -> T] -> SUBSET (S \X T)]
    BY <1>2
  <2>2. \A f, k \in [S -> T] : h[f] = h[k] => f = k
    BY <1>3
  <2> HIDE DEF h
  <2>3. DOMAIN h = [S -> T]
    BY <2>1
  <2>4. IsInjective(h)
    BY <2>2, <2>3 DEF IsInjective
  <2> QED
    BY <2>1, <2>4 DEF Injection
<1> HIDE DEF h
<1> QED
  BY <1>1, <1>4, FS_Injection

LEMMA FewConfigurations ==
    ASSUME NEW gr, IsGraph(gr), NEW inp, Len(inp) \in Nat
    PROVE  IsFiniteSet(Configurations(gr, inp))
<1> DEFINE A == 0 .. gr.n - 1
           B == 0 .. Len(inp)
           V == [Features -> FlagValues]
           of(x) == {FlagOp[x].value, -FlagOp[x].value}
           f == [x \in Flags |-> of(x)]
<1>1. IsFiniteSet(A) /\ IsFiniteSet(B)
  <2>1. gr.n - 1 \in Int /\ Len(inp) \in Int /\ 0 \in Int
    BY DEF IsGraph
  <2> QED
    BY <2>1, FS_Interval
<1>2. IsFiniteSet(Flags)
  <2>1. IsFiniteSet(1 .. ORIG_SYMBOL_COUNT - 1)
    BY SymbolsAssumption, FS_Interval
  <2> QED
    BY <2>1, SymbolsAssumption, FS_Subset
<1>3. IsFiniteSet(FlagValues)
  <2>1. \A u, v : IsFiniteSet({u, v})
    <3> SUFFICES ASSUME NEW u, NEW v PROVE IsFiniteSet({u, v})
      OBVIOUS
    <3>1. IsFiniteSet({u}) /\ IsFiniteSet({u} \cup {v})
      BY FS_Singleton, FS_AddElement
    <3>2. {u} \cup {v} = {u, v}
      OBVIOUS
    <3> QED
      BY <3>1, <3>2
  <2>2. \A x \in Flags : IsFiniteSet(f[x])
    BY <2>1
  <2>3. FlagValues = (UNION {f[x] : x \in Flags}) \cup {0}
    BY DEF FlagValues
  <2> HIDE DEF f
  <2>4. IsFiniteSet(UNION {f[x] : x \in Flags})
    BY <1>2, <2>2, FiniteUnion
  <2> QED
    BY <2>3, <2>4, FS_AddElement
<1>4. IsFiniteSet(V)
  BY <1>3, FindLoopAssumption, FewFunctions
<1> DEFINE h == [p \in (A \X B) \X V |-> [s |-> p[1][1], pos |-> p[1][2], values |-> p[2]]]
<1> HIDE DEF A, B, V
<1>5. IsFiniteSet((A \X B) \X V)
  BY <1>1, <1>4, FS_Product
<1>6. h \in Surjection((A \X B) \X V, [s : A, pos : B, values : V])
  <2>1. h \in [(A \X B) \X V -> [s : A, pos : B, values : V]]
    OBVIOUS
  <2>2. ASSUME NEW c \in [s : A, pos : B, values : V]
        PROVE  \E p \in (A \X B) \X V : h[p] = c
    <3>1. <<<<c.s, c.pos>>, c.values>> \in (A \X B) \X V
      OBVIOUS
    <3>2. h[<<<<c.s, c.pos>>, c.values>>] = c
      BY <3>1
    <3> QED
      BY <3>1, <3>2
  <2> HIDE DEF h
  <2> QED
    BY <2>1, <2>2 DEF Surjection
<1> HIDE DEF h
<1>7. IsFiniteSet([s : A, pos : B, values : V])
  BY <1>5, <1>6, FS_Surjection
<1> QED
  BY <1>7 DEF Configurations, A, B, V

\* A search among the elements of a finite set has reached all it will reach after as
\* many arcs as the set has elements.
LEMMA ReachedAll ==
    ASSUME NEW gr, NEW inp, NEW arcs, NEW C, NEW U, IsFiniteSet(U), C \subseteq U,
           \A c \in U : Onward(gr, inp, arcs, c) \subseteq U
    PROVE  \A n \in Nat : Reached(gr, inp, arcs, C, n)
                            \subseteq Reached(gr, inp, arcs, C, Cardinality(U))
<1> DEFINE R(i) == Reached(gr, inp, arcs, C, i)
           k == Cardinality(U)
           Next1(X) == NextLayer(gr, inp, arcs, X)
<1>1. k \in Nat
  BY FS_CardinalityType
<1>2. \A i \in Nat : R(i) \subseteq U
  BY ReachedStays
<1>3. \A i \in Nat : R(i + 1) = Next1(R(i))
  BY ReachedIs
<1>4. \A i, j \in Nat : R(i) \subseteq R(i + j)
  BY ReachedGrows
<1> HIDE DEF R, Next1
<1>5. \A i \in Nat : /\ IsFiniteSet(R(i)) /\ Cardinality(R(i)) \in Nat
                     /\ Cardinality(R(i)) <= k
  BY <1>2, FS_Subset, FS_CardinalityType
<1> DEFINE still(i) == R(i + 1) = R(i)
           large(i) == Cardinality(R(i + 1)) >= i + 1
           bad == {i \in Nat : ~still(i) /\ ~large(i)}
<1>6. \A i \in Nat : ~still(i) => Cardinality(R(i + 1)) > Cardinality(R(i))
  <2> SUFFICES ASSUME NEW i \in Nat, ~still(i)
               PROVE  Cardinality(R(i + 1)) > Cardinality(R(i))
    OBVIOUS
  <2>1. R(i) \subseteq R(i + 1) /\ i + 1 \in Nat
    BY <1>4
  <2>2. IsFiniteSet(R(i + 1))
    BY <1>5, <2>1
  <2> QED
    BY <1>5, <2>1, <2>2, FS_Subset
<1>7. bad = {}
  <2> SUFFICES ASSUME bad # {} PROVE FALSE
    OBVIOUS
  <2>1. PICK i \in bad : \A j \in bad : i <= j
    <3>1. bad \in SUBSET Nat
      OBVIOUS
    <3> HIDE DEF bad
    <3> QED
      BY <3>1, LeastElement
  <2>2. i \in Nat /\ ~still(i) /\ ~large(i)
    BY <2>1
  <2>3. i # 0
    <3>1. Cardinality(R(i + 1)) > Cardinality(R(i))
      BY <1>6, <2>2
    <3> QED
      BY <1>5, <2>2, <3>1
  <2>4. i - 1 \in Nat /\ i - 1 \notin bad /\ i - 1 + 1 = i
    <3>1. i - 1 \in Nat /\ ~(i <= i - 1) /\ i - 1 + 1 = i
      BY <2>2, <2>3
    <3> HIDE DEF bad
    <3> QED
      BY <2>1, <3>1
  <2>5. still(i - 1) \/ large(i - 1)
    BY <2>4
  <2>6. still(i - 1) => still(i)
    BY <1>3, <2>2, <2>4
  <2>7. Cardinality(R(i)) >= i
    BY <2>2, <2>4, <2>5, <2>6
  <2>8. Cardinality(R(i + 1)) > Cardinality(R(i))
    BY <1>6, <2>2
  <2>9. i + 1 \in Nat
    BY <2>2
  <2> QED
    BY <1>5, <2>2, <2>7, <2>8, <2>9
<1>8. R(k + 1) = R(k)
  <2>1. still(k) \/ large(k)
    BY <1>1, <1>7
  <2>2. k + 1 \in Nat /\ Cardinality(R(k + 1)) <= k
    BY <1>1, <1>5
  <2> QED
    BY <1>1, <1>5, <2>1, <2>2
<1> DEFINE late == {i \in Nat : ~(R(i) \subseteq R(k))}
<1>9. late = {}
  <2> SUFFICES ASSUME late # {} PROVE FALSE
    OBVIOUS
  <2>1. PICK i \in late : \A j \in late : i <= j
    <3>1. late \in SUBSET Nat
      OBVIOUS
    <3> HIDE DEF late
    <3> QED
      BY <3>1, LeastElement
  <2>2. i \in Nat /\ ~(R(i) \subseteq R(k))
    BY <2>1
  <2>3. ~(i <= k)
    <3> SUFFICES ASSUME i <= k PROVE FALSE
      OBVIOUS
    <3>1. k - i \in Nat /\ i + (k - i) = k
      BY <1>1, <2>2
    <3>2. R(i) \subseteq R(i + (k - i))
      BY <1>4, <2>2, <3>1
    <3> QED
      BY <2>2, <3>1, <3>2
  <2>4. i - 1 \in Nat /\ i - 1 >= k /\ i - 1 + 1 = i /\ ~(i <= i - 1)
    BY <1>1, <2>2, <2>3
  <2>5. i - 1 \notin late
    <3> HIDE DEF late
    <3> QED
      BY <2>1, <2>4
  <2>6. R(i - 1) \subseteq R(k)
    BY <2>4, <2>5
  <2>7. R(k) \subseteq R(i - 1)
    <3>1. i - 1 - k \in Nat /\ k + (i - 1 - k) = i - 1
      BY <1>1, <2>4
    <3>2. R(k) \subseteq R(k + (i - 1 - k))
      BY <1>1, <1>4, <3>1
    <3> QED
      BY <3>1, <3>2
  <2>8. R(i - 1) = R(k)
    BY <2>6, <2>7
  <2>9. R(i) = R(k)
    <3>1. R(i - 1 + 1) = Next1(R(i - 1)) /\ R(k + 1) = Next1(R(k))
      BY <1>1, <1>3, <2>4
    <3> QED
      BY <1>8, <2>4, <2>8, <3>1
  <2> QED
    BY <2>2, <2>9
<1>10. \A i \in Nat : R(i) \subseteq R(k)
  BY <1>9
<1> QED
  BY <1>10 DEF R

LEMMA ConfigurationsStay ==
    ASSUME NEW gr, IsGraph(gr), NEW inp, Len(inp) \in Nat
    PROVE  /\ Start \in Configurations(gr, inp)
           /\ \A c \in Configurations(gr, inp) :
                /\ Quietly(gr, c) \subseteq Configurations(gr, inp)
                /\ Onward(gr, inp, "quiet", c) \subseteq Configurations(gr, inp)
                /\ Onward(gr, inp, "all", c) \subseteq Configurations(gr, inp)
<1>1. Start \in Configurations(gr, inp)
  <2>1. 0 \in 0 .. gr.n - 1 /\ 0 \in 0 .. Len(inp)
    BY DEF IsGraph
  <2>2. Neutral \in [Features -> FlagValues]
    BY DEF Neutral, FlagValues
  <2> QED
    BY <2>1, <2>2 DEF Start, Configurations
<1>2. ASSUME NEW c \in Configurations(gr, inp)
      PROVE  /\ Quietly(gr, c) \subseteq Configurations(gr, inp)
             /\ Reading(gr, inp, c) \subseteq Configurations(gr, inp)
  <2>1. /\ c.s \in 0 .. gr.n - 1 /\ c.pos \in 0 .. Len(inp)
        /\ c.values \in [Features -> FlagValues]
    BY DEF Configurations
  <2>2. \A a \in Range(gr.arcs[c.s]) : a.to \in 0 .. gr.n - 1
    BY <2>1, ArcsAreArcs DEF AnArc
  <2>3. ASSUME NEW d \in Quietly(gr, c) PROVE d \in Configurations(gr, inp)
    <3>1. PICK a \in Range(gr.arcs[c.s]) :
            d = [s |-> a.to, pos |-> c.pos,
                 values |-> IF a.in \in Flags THEN Applied(FlagOp[a.in], c.values)
                            ELSE c.values]
      BY DEF Quietly
    <3>2. CASE a.in \in Flags
      <4>1. FlagOp[a.in] \in Operations
        BY <3>2, SymbolsAssumption
      <4>2. {0, FlagOp[a.in].value, -FlagOp[a.in].value} \subseteq FlagValues
        BY <3>2 DEF FlagValues
      <4> DEFINE V == FlagValues
      <4> HIDE DEF V
      <4>3. {0, FlagOp[a.in].value, -FlagOp[a.in].value} \subseteq V
            /\ c.values \in [Features -> V]
        BY <2>1, <4>2 DEF V
      <4>4. Applied(FlagOp[a.in], c.values) \in [Features -> V]
        BY <4>1, <4>3, AppliedStays
      <4> QED
        BY <2>1, <2>2, <3>1, <3>2, <4>4 DEF Configurations, V
    <3>3. CASE a.in \notin Flags
      BY <2>1, <2>2, <3>1, <3>3 DEF Configurations
    <3> QED
      BY <3>2, <3>3
  <2>4. ASSUME NEW d \in Reading(gr, inp, c) PROVE d \in Configurations(gr, inp)
    <3>1. c.pos # Len(inp)
          /\ \E a \in Taken(gr, c.s, inp[c.pos + 1]) :
               d = [s |-> a.to, pos |-> c.pos + 1, values |-> c.values]
      BY DEF Reading
    <3>2. PICK a \in Taken(gr, c.s, inp[c.pos + 1]) :
            d = [s |-> a.to, pos |-> c.pos + 1, values |-> c.values]
      BY <3>1
    <3>3. a \in Range(gr.arcs[c.s])
      BY <3>2 DEF Taken
    <3>4. c.pos + 1 \in 0 .. Len(inp)
      BY <2>1, <3>1
    <3> QED
      BY <2>1, <2>2, <3>2, <3>3, <3>4 DEF Configurations
  <2> QED
    BY <2>3, <2>4
<1> QED
  BY <1>1, <1>2 DEF Onward

LEMMA LoopIs ==
    ASSUME NEW gr, IsGraph(gr), NEW inp, Len(inp) \in Nat
    PROVE  LoopExists(gr, inp) <=> ~Safe(gr, inp, Start)
<1> DEFINE U == Configurations(gr, inp)
           k == Cardinality(U)
<1>1. IsFiniteSet(U) /\ k \in Nat
  BY FewConfigurations, FS_CardinalityType
<1>2. /\ {Start} \subseteq U
      /\ \A c \in U : /\ Quietly(gr, c) \subseteq U
                      /\ Onward(gr, inp, "quiet", c) \subseteq U
                      /\ Onward(gr, inp, "all", c) \subseteq U
  BY ConfigurationsStay
<1>3. LoopExists(gr, inp) <=>
        \E c \in Reached(gr, inp, "all", {Start}, k) :
          c \in Reached(gr, inp, "quiet", Quietly(gr, c), k)
  BY DEF LoopExists
<1> HIDE DEF U, k
<1>4. \A n \in Nat : /\ Reached(gr, inp, "all", {Start}, n) \subseteq U
                     /\ Reached(gr, inp, "all", {Start}, n)
                          \subseteq Reached(gr, inp, "all", {Start}, k)
  BY <1>1, <1>2, ReachedStays, ReachedAll DEF k
<1>5. ASSUME NEW c \in U
      PROVE  \A n \in Nat : Reached(gr, inp, "quiet", Quietly(gr, c), n)
                              \subseteq Reached(gr, inp, "quiet", Quietly(gr, c), k)
  <2>1. Quietly(gr, c) \subseteq U /\ \A e \in U : Onward(gr, inp, "quiet", e) \subseteq U
    BY <1>2
  <2> QED
    BY <1>1, <2>1, ReachedAll DEF k
<1>6. ASSUME LoopExists(gr, inp) PROVE ~Safe(gr, inp, Start)
  <2>1. PICK c \in Reached(gr, inp, "all", {Start}, k) :
               c \in Reached(gr, inp, "quiet", Quietly(gr, c), k)
    BY <1>3, <1>6
  <2>2. c \in From(gr, inp, "all", Start)
    BY <1>1, <2>1, InFrom
  <2>3. OnLoop(gr, inp, c)
    BY <1>1, <2>1 DEF OnLoop
  <2> QED
    BY <2>2, <2>3 DEF Safe
<1>7. ASSUME ~Safe(gr, inp, Start) PROVE LoopExists(gr, inp)
  <2>1. PICK c \in From(gr, inp, "all", Start) : OnLoop(gr, inp, c)
    BY <1>7 DEF Safe
  <2>2. PICK n \in Nat : c \in Reached(gr, inp, "all", {Start}, n)
    BY InFrom
  <2>3. PICK m \in Nat : c \in Reached(gr, inp, "quiet", Quietly(gr, c), m)
    BY <2>1 DEF OnLoop
  <2>4. c \in U /\ c \in Reached(gr, inp, "all", {Start}, k)
    BY <1>4, <2>2
  <2>5. c \in Reached(gr, inp, "quiet", Quietly(gr, c), k)
    BY <1>5, <2>3, <2>4
  <2> QED
    BY <1>3, <2>4, <2>5
<1> QED
  BY <1>6, <1>7

-----------------------------------------------------------------------------
(* The invariant.  Each call is about a configuration; a call inside an arc *)
(* is one whose callee is about the configuration past it.                  *)

ArcsIn(gr, f) == IF f.step = "zero" THEN ZeroArcs(gr, f.s) ELSE ArcsFor(gr, f.s, f.trying)
ArcIn(gr, f) == ArcsIn(gr, f)[f.i]

LEMMA ArcIsArcIn == \A f : Arc(f) = ArcIn(g, f) /\ Arcs(f) = ArcsIn(g, f)
BY DEF Arc, Arcs, ArcsIn, ArcIn

IsFrame(f) ==
    /\ f = [s |-> f.s, pos |-> f.pos, step |-> f.step, i |-> f.i,
            trying |-> f.trying, values |-> f.values]
    /\ f.step \in {"enter", "zero", "symbol", "default"}

HasRead(f) == f.step \in {"symbol", "default"}

\* The configuration of a call, where v are the values before it has saved them.
Conf(f, v) ==
    [s |-> f.s, pos |-> IF HasRead(f) THEN f.pos - 1 ELSE f.pos,
     values |-> IF f.step = "enter" THEN v ELSE f.values]

\* The configurations past an arc.
QuietPast(c, a) ==
    [s |-> a.to, pos |-> c.pos,
     values |-> IF a.in \in Flags THEN Applied(FlagOp[a.in], c.values) ELSE c.values]
ReadPast(c, a) == [s |-> a.to, pos |-> c.pos + 1, values |-> c.values]
Past(f, a) ==
    IF f.step = "zero" THEN QuietPast(Conf(f, f.values), a)
    ELSE ReadPast(Conf(f, f.values), a)

Passes(a, v) == a.in \in Flags => Allows(FlagOp[a.in], v)

Placed(gr, inp, f) ==
    /\ IsFrame(f)
    /\ f.s \in 0 .. gr.n - 1 /\ f.pos \in 0 .. Len(inp) /\ f.i \in Nat \ {0}
    /\ f.step = "enter" => f.i = 1
    /\ HasRead(f) => f.pos > 0
    /\ f.step = "symbol" => f.trying = inp[f.pos]
    /\ f.step = "default" => f.trying = DEFAULT /\ DEFAULT # NO_SYMBOL

Inside(gr, f) ==
    /\ f.step # "enter" /\ f.i <= Len(ArcsIn(gr, f))
    /\ f.step = "zero" => Passes(ArcIn(gr, f), f.values)

\* All symbols of the input are of the alphabet the transducer was loaded with.
Known(inp) == \A k \in 1 .. Len(inp) : inp[k] < ORIG_SYMBOL_COUNT

Behind(gr, f, a) == \E k \in 1 .. f.i - 1 : ArcsIn(gr, f)[k] = a

\* What the arcs that a call has been through lead to is safe.
QuietExplored(gr, inp, f) ==
    \A a \in Range(gr.arcs[f.s]) :
        a.in \in Zero /\ Passes(a, f.values) /\ (f.step = "zero" => Behind(gr, f, a))
        => Safe(gr, inp, QuietPast(Conf(f, f.values), a))
ReadExplored(gr, inp, f) ==
    HasRead(f) =>
      \A a \in Range(gr.arcs[f.s]) :
        Behind(gr, f, a) \/ (f.step = "default" /\ a.in = inp[f.pos])
        => Safe(gr, inp, ReadPast(Conf(f, f.values), a))
Explored(gr, inp, f) ==
    Known(inp) /\ f.step # "enter" => QuietExplored(gr, inp, f) /\ ReadExplored(gr, inp, f)

\* Default arcs are tried where there is nothing else, unless there are flags.
DefaultsApart(gr, inp, f) ==
    ~HasFlags(gr) /\ f.step = "default" =>
      \A a \in Range(gr.arcs[f.s]) : a.in \notin Zero /\ a.in # inp[f.pos]

Met(gr, inp, f, v) ==
    Known(inp) /\ ~HasFlags(gr) => Conf(f, v) \in From(gr, inp, "all", Start)

Right(gr, inp, f, v) ==
    /\ Placed(gr, inp, f) /\ Explored(gr, inp, f)
    /\ DefaultsApart(gr, inp, f) /\ Met(gr, inp, f, v)

\* The flag values and found_transition, for the innermost call f.
Untried(gr, f) ==
    /\ f.step \in {"zero", "symbol"} /\ ZeroArcs(gr, f.s) = << >>
    /\ f.step = "symbol" => ArcsFor(gr, f.s, f.trying) = << >>
Tried(gr, f) ==
    \/ f.step = "zero" /\ f.i > 1
    \/ f.step = "symbol" /\ (f.i > 1 \/ ZeroArcs(gr, f.s) # << >>)
Innermost(gr, f, v, fd) ==
    /\ f.step # "enter" => v = f.values
    /\ Untried(gr, f) => ~fd
    /\ ~HasFlags(gr) /\ Tried(gr, f) => fd

CallsRight(gr, inp, st, v) ==
    /\ IsSequence(st)
    /\ \A j \in 1 .. Len(st) : Right(gr, inp, st[j], v)
    /\ \A j \in 1 .. Len(st) - 1 :
         /\ Inside(gr, st[j])
         /\ Conf(st[j + 1], v) = Past(st[j], ArcIn(gr, st[j]))

\* traversal_states: what is recorded was so by a call that is in that arc, and no
\* call inside it has read.
Recording(gr, st, R) ==
    \A c \in R : \E j \in 1 .. Len(st) - 1 :
        /\ c = <<ArcIn(gr, st[j]).to, st[j].values>>
        /\ \A l \in j .. Len(st) - 1 : st[l].step = "zero"

Answering(gr, inp, an) ==
    /\ an = "no" /\ Known(inp) => Safe(gr, inp, Start)
    /\ an = "yes" /\ Known(inp) /\ ~HasFlags(gr) => ~Safe(gr, inp, Start)

SearchInv ==
    /\ g \in Graphs /\ input \in Seq(Nat)
    /\ CallsRight(g, input, stack, values)
    /\ stack = << >> => values = Neutral
    /\ stack # << >> => /\ Conf(stack[1], values) = Start
                        /\ Innermost(g, stack[Len(stack)], values, found)
                        /\ Recording(g, stack, visited)
    /\ Answering(g, input, answer)

\* What the other calls are does not depend on the values now.
LEMMA RightWhatever ==
    ASSUME NEW gr, NEW inp, NEW f, NEW v, NEW w, Right(gr, inp, f, v), f.step # "enter"
    PROVE  Right(gr, inp, f, w) /\ Conf(f, w) = Conf(f, v) /\ Conf(f, w) = Conf(f, f.values)
BY DEF Right, Met, Conf

\* The innermost call moves on within its configuration.
LEMMA SearchMoves ==
    ASSUME SearchInv, stack # << >>, NEW h, stack' = Retopped(stack, h),
           UNCHANGED <<g, input, values, visited, answer>>,
           Right(g, input, h, values), Conf(h, values) = Conf(stack[Len(stack)], values),
           Innermost(g, h, values, found')
    PROVE  SearchInv'
<1> PICK n \in Nat \ {0} : n = Len(stack)
  BY DEF SearchInv, CallsRight, IsSequence
<1>1. /\ IsSequence(stack') /\ Len(stack') = n /\ stack' # << >>
      /\ \A j \in 1 .. n - 1 : stack'[j] = stack[j]
      /\ stack'[n] = h
  <2>1. IsSequence(stack)
    BY DEF SearchInv, CallsRight
  <2>2. /\ IsSequence(Retopped(stack, h)) /\ Len(Retopped(stack, h)) = n
        /\ \A j \in 1 .. n - 1 : Retopped(stack, h)[j] = stack[j]
        /\ Retopped(stack, h)[n] = h
    BY <2>1, TopEffect
  <2>3. Len(stack') # 0
    BY <2>2
  <2> QED
    BY <2>2, <2>3
<1>2. \A j \in 1 .. n : Right(g, input, stack'[j], values)
                        /\ Conf(stack'[j], values) = Conf(stack[j], values)
  <2> SUFFICES ASSUME NEW j \in 1 .. n
               PROVE  Right(g, input, stack'[j], values)
                      /\ Conf(stack'[j], values) = Conf(stack[j], values)
    OBVIOUS
  <2>1. CASE j = n
    BY <1>1, <2>1
  <2>2. CASE j # n
    BY <1>1, <2>2 DEF SearchInv, CallsRight
  <2> QED
    BY <2>1, <2>2
<1>3. \A j \in 1 .. n - 1 :
         /\ Inside(g, stack'[j])
         /\ Conf(stack'[j + 1], values) = Past(stack'[j], ArcIn(g, stack'[j]))
  <2> SUFFICES ASSUME NEW j \in 1 .. n - 1
               PROVE  /\ Inside(g, stack'[j])
                      /\ Conf(stack'[j + 1], values) = Past(stack'[j], ArcIn(g, stack'[j]))
    OBVIOUS
  <2>1. /\ Inside(g, stack[j])
        /\ Conf(stack[j + 1], values) = Past(stack[j], ArcIn(g, stack[j]))
    BY DEF SearchInv, CallsRight
  <2>2. j + 1 \in 1 .. n
    OBVIOUS
  <2> QED
    BY <1>1, <1>2, <2>1, <2>2
<1>4. CallsRight(g, input, stack', values)
  BY <1>1, <1>2, <1>3 DEF CallsRight
<1>5. Recording(g, stack', visited)
  <2> SUFFICES ASSUME NEW c \in visited
               PROVE  \E j \in 1 .. n - 1 :
                        /\ c = <<ArcIn(g, stack'[j]).to, stack'[j].values>>
                        /\ \A l \in j .. n - 1 : stack'[l].step = "zero"
    BY <1>1 DEF Recording
  <2>1. PICK j \in 1 .. n - 1 :
          /\ c = <<ArcIn(g, stack[j]).to, stack[j].values>>
          /\ \A l \in j .. n - 1 : stack[l].step = "zero"
    BY DEF SearchInv, Recording
  <2>2. \A l \in j .. n - 1 : stack'[l] = stack[l]
    BY <1>1
  <2>3. j \in j .. n - 1
    OBVIOUS
  <2> QED
    BY <2>1, <2>2, <2>3
<1>6. Conf(stack'[1], values) = Start
  BY <1>2 DEF SearchInv
<1> QED
  BY <1>1, <1>4, <1>5, <1>6 DEF SearchInv

-----------------------------------------------------------------------------
(* The arc of a call *)

\* The arcs a call goes through are arcs of its state, with the inputs it asks for.
LEMMA ArcsInHold ==
    ASSUME NEW gr, IsGraph(gr), NEW f, f.s \in 0 .. gr.n - 1
    PROVE  /\ Len(ArcsIn(gr, f)) \in Nat
           /\ ArcsIn(gr, f) # << >> => 1 \in 1 .. Len(ArcsIn(gr, f))
           /\ \A i \in 1 .. Len(ArcsIn(gr, f)) :
                /\ ArcsIn(gr, f)[i] \in Range(gr.arcs[f.s])
                /\ IF f.step = "zero" THEN ArcsIn(gr, f)[i].in \in Zero
                   ELSE ArcsIn(gr, f)[i].in = f.trying
           /\ \A a \in Range(gr.arcs[f.s]) :
                (IF f.step = "zero" THEN a.in \in Zero ELSE a.in = f.trying) =>
                  \E i \in 1 .. Len(ArcsIn(gr, f)) : ArcsIn(gr, f)[i] = a
<1> DEFINE X == IF f.step = "zero" THEN Zero ELSE {f.trying}
           run == Run(gr, f.s, X)
<1>1. ArcsIn(gr, f) = run
  BY DEF ArcsIn, ZeroArcs, ArcsFor
<1>2. X = Zero \/ \E x : X = {x}
  OBVIOUS
<1>3. \A y : y \in X <=> IF f.step = "zero" THEN y \in Zero ELSE y = f.trying
  OBVIOUS
<1>4. Len(gr.arcs[f.s]) \in Nat
  BY ArcsAreArcs
<1> HIDE DEF X
<1>5. /\ run \in Seq(Range(gr.arcs[f.s])) /\ Len(run) \in 0 .. Len(gr.arcs[f.s])
      /\ \A i \in 1 .. Len(run) : run[i] \in Range(gr.arcs[f.s]) /\ run[i].in \in X
      /\ \A a \in Range(gr.arcs[f.s]) :
           a.in \in X => \E i \in 1 .. Len(run) : run[i] = a
  BY <1>2, RunHolds
<1> HIDE DEF run
<1>6. run # << >> => 1 \in 1 .. Len(run)
  BY <1>5
<1> QED
  BY <1>1, <1>3, <1>4, <1>5, <1>6

LEMMA NoFlagArcs ==
    ASSUME NEW gr, IsGraph(gr), ~HasFlags(gr), NEW s \in 0 .. gr.n - 1,
           NEW a \in Range(gr.arcs[s])
    PROVE  a.in \notin Flags
BY DEF HasFlags, IsGraph

\* What is past the arc of a call is one arc further: as a lookup goes, where the
\* default arcs are apart; without reading, where it goes round.
LEMMA PastOnward ==
    ASSUME NEW gr, IsGraph(gr), NEW inp, inp \in Seq(Nat), NEW f, NEW v,
           Right(gr, inp, f, v), Inside(gr, f)
    PROVE  /\ ArcIn(gr, f) \in Range(gr.arcs[f.s]) /\ f.i \in 1 .. Len(ArcsIn(gr, f))
           /\ f.step = "zero" => Past(f, ArcIn(gr, f)) \in Quietly(gr, Conf(f, f.values))
           /\ Known(inp) /\ ~HasFlags(gr) =>
                Past(f, ArcIn(gr, f)) \in Onward(gr, inp, "all", Conf(f, f.values))
<1> DEFINE a == ArcIn(gr, f)
           c == Conf(f, f.values)
<1>1. /\ f.s \in 0 .. gr.n - 1 /\ f.i \in Nat \ {0} /\ f.pos \in 0 .. Len(inp)
      /\ f.step \in {"enter", "zero", "symbol", "default"}
      /\ HasRead(f) => f.pos > 0
      /\ f.step = "symbol" => f.trying = inp[f.pos]
      /\ f.step = "default" => f.trying = DEFAULT
  BY DEF Right, Placed, IsFrame
<1>2. f.step # "enter" /\ f.i <= Len(ArcsIn(gr, f))
  BY DEF Inside
<1>3. Len(ArcsIn(gr, f)) \in Nat
  BY <1>1, ArcsInHold
<1>4. f.i \in 1 .. Len(ArcsIn(gr, f))
  BY <1>1, <1>2, <1>3
<1>5. a \in Range(gr.arcs[f.s])
      /\ IF f.step = "zero" THEN a.in \in Zero ELSE a.in = f.trying
  BY <1>1, <1>4, ArcsInHold DEF ArcIn
<1>6. c.s = f.s /\ c.values = f.values
      /\ c.pos = IF HasRead(f) THEN f.pos - 1 ELSE f.pos
  BY <1>2 DEF Conf
<1>7. f.step = "zero" => Passes(a, f.values)
  BY DEF Inside
<1>8. Past(f, a) = IF f.step = "zero" THEN QuietPast(c, a) ELSE ReadPast(c, a)
  BY DEF Past
<1> HIDE DEF a, c
<1>9. CASE f.step = "zero"
  <2>1. Past(f, a) \in Quietly(gr, c)
    BY <1>5, <1>6, <1>7, <1>8, <1>9 DEF Quietly, QuietPast, Passes, Zero
  <2> QED
    BY <1>4, <1>5, <2>1 DEF Onward, a, c
<1>10. CASE f.step # "zero"
  <2> SUFFICES ASSUME Known(inp), ~HasFlags(gr)
               PROVE  Past(f, a) \in Reading(gr, inp, c)
    BY <1>4, <1>5, <1>10 DEF Onward, a, c
  <2>1. HasRead(f) /\ f.pos \in 1 .. Len(inp) /\ c.pos = f.pos - 1 /\ c.pos + 1 = f.pos
        /\ c.pos # Len(inp)
    BY <1>1, <1>2, <1>6, <1>10 DEF HasRead
  <2>2. inp[f.pos] < ORIG_SYMBOL_COUNT
    BY <2>1 DEF Known
  <2>3. CASE f.step = "symbol"
    <3>1. StartsOn(a, inp[f.pos])
      BY <1>1, <1>5, <1>10, <2>2, <2>3 DEF StartsOn
    <3>2. a \in Taken(gr, f.s, inp[f.pos])
      BY <1>5, <3>1 DEF Taken
    <3> QED
      BY <1>6, <1>8, <1>10, <2>1, <3>2 DEF Reading, ReadPast
  <2>4. CASE f.step = "default"
    <3>1. \A b \in Range(gr.arcs[f.s]) : b.in \notin Zero /\ ~StartsOn(b, inp[f.pos])
      BY <2>2, <2>4 DEF Right, DefaultsApart, StartsOn
    <3>2. a \in Taken(gr, f.s, inp[f.pos])
      BY <1>1, <1>5, <1>10, <2>4, <3>1 DEF Taken
    <3> QED
      BY <1>6, <1>8, <1>10, <2>1, <3>2 DEF Reading, ReadPast
  <2> QED
    BY <1>1, <1>2, <1>10, <2>3, <2>4
<1> QED
  BY <1>9, <1>10

LEMMA AppendEffect ==
    ASSUME NEW s, IsSequence(s), NEW a
    PROVE  /\ IsSequence(Append(s, a)) /\ Len(Append(s, a)) = Len(s) + 1
           /\ \A j \in 1 .. Len(s) : Append(s, a)[j] = s[j]
           /\ Append(s, a)[Len(s) + 1] = a
<1> PICK S : s \in Seq(S)
  BY DEF IsSequence
<1>1. Append(s, a) \in Seq(S \cup {a})
  OBVIOUS
<1> QED
  BY <1>1 DEF IsSequence

\* The innermost call calls for the target of its arc.
LEMMA SearchCalls ==
    ASSUME SearchInv, stack # << >>, NEW f, f = stack[Len(stack)], Inside(g, f),
           NEW a, a = ArcIn(g, f), stack' = Append(stack, Frame(a.to, f.pos)),
           values' = Past(f, a).values,
           visited' = IF f.step = "zero" THEN visited \cup {<<a.to, f.values>>} ELSE {},
           UNCHANGED <<g, input, answer>>
    PROVE  SearchInv'
<1> PICK n \in Nat \ {0} : n = Len(stack)
  BY DEF SearchInv, CallsRight, IsSequence
<1> DEFINE h == Frame(a.to, f.pos)
<1>1. /\ IsSequence(stack') /\ Len(stack') = n + 1 /\ stack' # << >>
      /\ \A j \in 1 .. n : stack'[j] = stack[j]
      /\ stack'[n + 1] = h
  <2>1. IsSequence(stack)
    BY DEF SearchInv, CallsRight
  <2>2. /\ IsSequence(Append(stack, h)) /\ Len(Append(stack, h)) = n + 1
        /\ \A j \in 1 .. n : Append(stack, h)[j] = stack[j]
        /\ Append(stack, h)[n + 1] = h
    BY <2>1, AppendEffect
  <2>3. Len(stack') # 0
    BY <2>2
  <2> QED
    BY <2>2, <2>3
<1>2. IsGraph(g) /\ input \in Seq(Nat)
  BY GraphsAssumption DEF SearchInv
<1>3. Right(g, input, f, values) /\ f.step # "enter"
  BY DEF SearchInv, CallsRight, Inside
<1>4. /\ a \in Range(g.arcs[f.s])
      /\ Known(input) /\ ~HasFlags(g) => Past(f, a) \in Onward(g, input, "all", Conf(f, f.values))
  BY <1>2, <1>3, PastOnward
<1>5. /\ f.s \in 0 .. g.n - 1 /\ f.pos \in 0 .. Len(input)
      /\ f.step \in {"zero", "symbol", "default"}
  BY <1>3 DEF Right, Placed, IsFrame
<1>6. Conf(h, values') = Past(f, a)
  <2>1. Conf(h, values') = [s |-> a.to, pos |-> f.pos, values |-> values']
    BY DEF Conf, Frame, HasRead
  <2>2. CASE f.step = "zero"
    BY <2>1, <2>2 DEF Past, QuietPast, Conf, HasRead
  <2>3. CASE f.step \in {"symbol", "default"}
    <3>1. f.pos - 1 + 1 = f.pos
      BY <1>5
    <3> QED
      BY <2>1, <2>3, <3>1 DEF Past, ReadPast, Conf, HasRead
  <2> QED
    BY <1>5, <2>2, <2>3
<1>7. Right(g, input, h, values')
  <2>1. h.step = "enter" /\ h.s = a.to /\ h.pos = f.pos /\ h.i = 1 /\ IsFrame(h)
    BY DEF Frame, IsFrame
  <2>2. a.to \in 0 .. g.n - 1
    BY <1>2, <1>4, <1>5, ArcsAreArcs DEF AnArc
  <2>3. Placed(g, input, h)
    BY <1>5, <2>1, <2>2 DEF Placed, HasRead
  <2>4. Met(g, input, h, values')
    <3> SUFFICES ASSUME Known(input), ~HasFlags(g)
                 PROVE  Past(f, a) \in From(g, input, "all", Start)
      BY <1>6 DEF Met
    <3>1. Conf(f, f.values) \in From(g, input, "all", Start)
      BY <1>3 DEF Right, Met, Conf
    <3> QED
      BY <1>4, <3>1, FromHolds
  <2> QED
    BY <2>1, <2>3, <2>4 DEF Right, Explored, DefaultsApart
<1> HIDE DEF h
<1>8. \A j \in 1 .. n : /\ stack[j].step # "enter" /\ Inside(g, stack[j])
                        /\ Right(g, input, stack[j], values)
  BY <1>3 DEF SearchInv, CallsRight, Inside
<1>9. \A j \in 1 .. n : /\ Right(g, input, stack'[j], values')
                        /\ Conf(stack'[j], values') = Conf(stack[j], values)
  BY <1>1, <1>8, RightWhatever
<1>10. \A j \in 1 .. n + 1 : Right(g, input, stack'[j], values')
  BY <1>1, <1>7, <1>9
<1>11. \A j \in 1 .. n : /\ Inside(g, stack'[j])
                         /\ Conf(stack'[j + 1], values') = Past(stack'[j], ArcIn(g, stack'[j]))
  <2> SUFFICES ASSUME NEW j \in 1 .. n
               PROVE  /\ Inside(g, stack'[j])
                      /\ Conf(stack'[j + 1], values') = Past(stack'[j], ArcIn(g, stack'[j]))
    OBVIOUS
  <2>1. CASE j = n
    BY <1>1, <1>6, <1>8, <2>1
  <2>2. CASE j # n
    <3>1. j \in 1 .. n - 1 /\ j + 1 \in 1 .. n
      BY <2>2
    <3>2. Conf(stack[j + 1], values) = Past(stack[j], ArcIn(g, stack[j]))
      BY <3>1 DEF SearchInv, CallsRight
    <3> QED
      BY <1>1, <1>8, <1>9, <3>1, <3>2
  <2> QED
    BY <2>1, <2>2
<1>12. CallsRight(g, input, stack', values')
  <2>1. n + 1 - 1 = n
    OBVIOUS
  <2> QED
    BY <1>1, <1>10, <1>11, <2>1 DEF CallsRight
<1>13. Recording(g, stack', visited')
  <2> SUFFICES ASSUME NEW c \in visited'
               PROVE  \E j \in 1 .. n :
                        /\ c = <<ArcIn(g, stack'[j]).to, stack'[j].values>>
                        /\ \A l \in j .. n : stack'[l].step = "zero"
    BY <1>1 DEF Recording
  <2>1. f.step = "zero" /\ (c \in visited \/ c = <<a.to, f.values>>)
    OBVIOUS
  <2>2. CASE c \in visited
    <3>1. PICK j \in 1 .. n - 1 :
            /\ c = <<ArcIn(g, stack[j]).to, stack[j].values>>
            /\ \A l \in j .. n - 1 : stack[l].step = "zero"
      BY <2>2 DEF SearchInv, Recording
    <3>2. \A l \in j .. n : l \in 1 .. n /\ (l = n \/ l \in j .. n - 1)
      OBVIOUS
    <3> QED
      BY <1>1, <2>1, <3>1, <3>2
  <2>3. CASE c = <<a.to, f.values>>
    BY <1>1, <2>1, <2>3
  <2> QED
    BY <2>1, <2>2, <2>3
<1>14. Innermost(g, h, values', found')
  BY DEF Innermost, Untried, Tried, h, Frame
<1>15. Conf(stack'[1], values') = Start
  BY <1>9 DEF SearchInv
<1> QED
  BY <1>1, <1>12, <1>13, <1>14, <1>15 DEF SearchInv

-----------------------------------------------------------------------------
(* Returning *)

\* The arc f is at leads nowhere, or to what is safe.
Done(gr, inp, f) ==
    Known(inp) => \/ f.step = "zero" /\ ~Passes(ArcIn(gr, f), f.values)
                  \/ Safe(gr, inp, Past(f, ArcIn(gr, f)))

LEMMA AdvancedIs ==
    ASSUME NEW f, IsFrame(f)
    PROVE  Advanced(f) = [s |-> f.s, pos |-> f.pos, step |-> f.step, i |-> f.i + 1,
                          trying |-> f.trying, values |-> f.values]
<1> DEFINE h == Advanced(f)
           k == f.i + 1
<1>1. f = [s |-> f.s, pos |-> f.pos, step |-> f.step, i |-> f.i,
           trying |-> f.trying, values |-> f.values]
  BY DEF IsFrame
<1>2. h = [f EXCEPT !.i = k]
  BY DEF Advanced
<1> HIDE DEF h, k
<1>3. h = [s |-> f.s, pos |-> f.pos, step |-> f.step, i |-> k,
           trying |-> f.trying, values |-> f.values]
  BY <1>1, <1>2
<1> QED
  BY <1>3 DEF h, k

\* At its next arc, a call has been through the arc it was in besides.
LEMMA AdvancedRight ==
    ASSUME NEW gr, IsGraph(gr), NEW inp, inp \in Seq(Nat), NEW f, NEW v,
           Right(gr, inp, f, v), f.step # "enter", f.i <= Len(ArcsIn(gr, f)),
           Done(gr, inp, f)
    PROVE  /\ Right(gr, inp, Advanced(f), v) /\ Conf(Advanced(f), v) = Conf(f, v)
<1> DEFINE h == Advanced(f)
           a == ArcIn(gr, f)
           c == Conf(f, f.values)
<1>0. Known(inp) => (f.step = "zero" /\ ~Passes(a, f.values)) \/ Safe(gr, inp, Past(f, a))
  BY DEF Done
<1>1. /\ IsFrame(f) /\ f.i \in Nat \ {0} /\ f.s \in 0 .. gr.n - 1
      /\ f.step \in {"zero", "symbol", "default"}
  BY DEF Right, Placed, IsFrame
<1>2. h = [s |-> f.s, pos |-> f.pos, step |-> f.step, i |-> f.i + 1,
           trying |-> f.trying, values |-> f.values]
  BY <1>1, AdvancedIs
<1> HIDE DEF h
<1>3. /\ h.s = f.s /\ h.pos = f.pos /\ h.step = f.step /\ h.i = f.i + 1
      /\ h.trying = f.trying /\ h.values = f.values
  BY <1>2
<1>4. IsFrame(h) /\ h.i \in Nat \ {0}
  BY <1>1, <1>2, <1>3 DEF IsFrame
<1>5. \A w : Conf(h, w) = Conf(f, w)
  BY <1>3 DEF Conf, HasRead
<1>6. ArcsIn(gr, h) = ArcsIn(gr, f)
  BY <1>3 DEF ArcsIn
<1>7. \A b : Behind(gr, h, b) => Behind(gr, f, b) \/ b = a
  <2> SUFFICES ASSUME NEW b, Behind(gr, h, b), ~Behind(gr, f, b)
               PROVE  b = a
    OBVIOUS
  <2>1. PICK k \in 1 .. f.i : ArcsIn(gr, f)[k] = b
    BY <1>1, <1>3, <1>6 DEF Behind
  <2>2. k = f.i
    BY <1>1, <2>1 DEF Behind
  <2> QED
    BY <2>1, <2>2 DEF ArcIn
<1>8. Placed(gr, inp, h)
  <2>1. Placed(gr, inp, f)
    BY DEF Right
  <2> QED
    BY <1>1, <1>3, <1>4, <2>1 DEF Placed, HasRead
<1>9. Met(gr, inp, h, v) /\ DefaultsApart(gr, inp, h)
  BY <1>3, <1>5 DEF Right, Met, DefaultsApart
<1>10. Explored(gr, inp, h)
  <2> SUFFICES ASSUME Known(inp)
               PROVE  QuietExplored(gr, inp, h) /\ ReadExplored(gr, inp, h)
    BY DEF Explored
  <2>1. QuietExplored(gr, inp, f) /\ ReadExplored(gr, inp, f)
    BY DEF Right, Explored
  <2>2. Conf(h, h.values) = c
    BY <1>3, <1>5
  <2> HIDE DEF c
  <2>3. CASE f.step = "zero"
    <3>1. ~Passes(a, f.values) \/ Safe(gr, inp, QuietPast(c, a))
      BY <1>0, <2>3 DEF Past, c
    <3>2. ~HasRead(h)
      BY <1>3, <2>3 DEF HasRead
    <3>3. QuietExplored(gr, inp, h)
      <4> SUFFICES ASSUME NEW b \in Range(gr.arcs[f.s]), b.in \in Zero,
                          Passes(b, f.values), Behind(gr, h, b)
                   PROVE  Safe(gr, inp, QuietPast(c, b))
        BY <1>3, <2>2, <2>3 DEF QuietExplored
      <4>1. CASE Behind(gr, f, b)
        BY <2>1, <4>1 DEF QuietExplored, c
      <4>2. CASE b = a
        BY <3>1, <4>2
      <4> QED
        BY <1>7, <4>1, <4>2
    <3> QED
      BY <3>2, <3>3 DEF ReadExplored
  <2>4. CASE f.step # "zero"
    <3>1. Safe(gr, inp, ReadPast(c, a))
      BY <1>0, <2>4 DEF Past, c
    <3>2. QuietExplored(gr, inp, h)
      <4> SUFFICES ASSUME NEW b \in Range(gr.arcs[f.s]), b.in \in Zero,
                          Passes(b, f.values)
                   PROVE  Safe(gr, inp, QuietPast(c, b))
        BY <1>3, <2>2 DEF QuietExplored
      <4> QED
        BY <2>1, <2>4 DEF QuietExplored, c
    <3>3. ReadExplored(gr, inp, h)
      <4> SUFFICES ASSUME NEW b \in Range(gr.arcs[f.s]),
                          Behind(gr, h, b) \/ (f.step = "default" /\ b.in = inp[f.pos])
                   PROVE  Safe(gr, inp, ReadPast(c, b))
        BY <1>3, <2>2 DEF ReadExplored
      <4>1. Behind(gr, f, b) \/ b = a \/ (f.step = "default" /\ b.in = inp[f.pos])
        BY <1>7
      <4>2. HasRead(f)
        BY <1>1, <2>4 DEF HasRead
      <4> QED
        BY <2>1, <3>1, <4>1, <4>2 DEF ReadExplored, c
    <3> QED
      BY <3>2, <3>3
  <2> QED
    BY <2>3, <2>4
<1> QED
  BY <1>3, <1>4, <1>5, <1>8, <1>9, <1>10 DEF Right, h

\* The innermost call returns to f, which is in arc a.
ReturnsTo(f, a) ==
    /\ stack' = PoppedTo(stack, Advanced(f))
    /\ visited' = IF f.step = "zero" THEN visited \ {<<a.to, f.values>>} ELSE visited
    /\ values' = IF f.step = "zero" /\ a.in \in Flags THEN f.values ELSE values
    /\ found' = (found \/ ~(f.step = "zero" /\ a.in \in Flags))
    /\ UNCHANGED <<g, input, answer>>

\* The innermost call has been through its configuration, and returns.
LEMMA SearchReturns ==
    ASSUME SearchInv, Len(stack) > 1, NEW f, f = stack[Len(stack) - 1],
           NEW a, a = ArcIn(g, f), ReturnsTo(f, a),
           Known(input) => Safe(g, input, Conf(stack[Len(stack)], values))
    PROVE  SearchInv'
<1> USE DEF ReturnsTo
<1> PICK n \in Nat \ {0, 1} : n = Len(stack)
  <2>1. Len(stack) \in Nat
    BY DEF SearchInv, CallsRight, IsSequence
  <2> QED
    BY <2>1
<1> DEFINE h == Advanced(f)
           t == stack[n]
<1>1. /\ IsSequence(stack') /\ Len(stack') = n - 1 /\ stack' # << >>
      /\ \A j \in 1 .. n - 2 : stack'[j] = stack[j]
      /\ stack'[n - 1] = h
  <2>1. IsSequence(stack)
    BY DEF SearchInv, CallsRight
  <2> HIDE DEF h
  <2>2. /\ IsSequence(PoppedTo(stack, h)) /\ Len(PoppedTo(stack, h)) = n - 1
        /\ \A j \in 1 .. n - 2 : PoppedTo(stack, h)[j] = stack[j]
        /\ PoppedTo(stack, h)[n - 1] = h
    BY <2>1, PopEffect
  <2>3. stack' = PoppedTo(stack, h)
    BY DEF h
  <2>4. Len(stack') # 0
    BY <2>2, <2>3
  <2> QED
    BY <2>2, <2>3, <2>4
<1>2. IsGraph(g) /\ input \in Seq(Nat)
  BY GraphsAssumption DEF SearchInv
<1>3. n - 1 \in 1 .. n /\ n - 1 \in 1 .. n - 1 /\ n - 1 + 1 = n /\ n \in 1 .. n
  OBVIOUS
<1>4. /\ Right(g, input, f, values) /\ Inside(g, f) /\ Conf(t, values) = Past(f, a)
      /\ Right(g, input, t, values)
  BY <1>3 DEF SearchInv, CallsRight
<1>5. f.step # "enter" /\ f.i <= Len(ArcsIn(g, f)) /\ (f.step = "zero" => Passes(a, f.values))
  BY <1>4 DEF Inside
<1>6. a \in Range(g.arcs[f.s]) /\ f.i \in 1 .. Len(ArcsIn(g, f))
  BY <1>2, <1>4, PastOnward
<1>7. values' = f.values
  <2>1. Conf(t, values).values = values
    BY DEF Conf, SearchInv, Innermost
  <2>2. ~(f.step = "zero" /\ a.in \in Flags) => Past(f, a).values = f.values
    BY <1>5 DEF Past, QuietPast, ReadPast, Conf
  <2> QED
    BY <1>4, <2>1, <2>2
<1>8. /\ Right(g, input, h, values) /\ Conf(h, values) = Conf(f, values)
      /\ h.step = f.step /\ h.i = f.i + 1 /\ h.s = f.s /\ h.values = f.values
      /\ h.trying = f.trying
  <2> SUFFICES ASSUME NEW v, Right(g, input, f, v)
               PROVE  /\ Right(g, input, h, v) /\ Conf(h, v) = Conf(f, v)
                      /\ h.step = f.step /\ h.i = f.i + 1 /\ h.s = f.s
                      /\ h.values = f.values /\ h.trying = f.trying
    BY <1>4
  <2>1. Done(g, input, f)
    BY <1>4 DEF Done
  <2>2. Right(g, input, h, v)
    BY <1>2, <1>5, <2>1, AdvancedRight
  <2>3. Conf(h, v) = Conf(f, v)
    BY <1>2, <1>5, <2>1, AdvancedRight
  <2>4. h = [s |-> f.s, pos |-> f.pos, step |-> f.step, i |-> f.i + 1,
             trying |-> f.trying, values |-> f.values]
    BY <1>4, AdvancedIs DEF Right, Placed
  <2> QED
    BY <2>2, <2>3, <2>4
<1> HIDE DEF h
<1>9. \A j \in 1 .. n - 1 : /\ stack'[j].step # "enter" /\ Right(g, input, stack'[j], values)
                            /\ Conf(stack'[j], values) = Conf(stack[j], values)
                            /\ stack'[j].step = stack[j].step
  <2> SUFFICES ASSUME NEW j \in 1 .. n - 1
               PROVE  /\ stack'[j].step # "enter" /\ Right(g, input, stack'[j], values)
                      /\ Conf(stack'[j], values) = Conf(stack[j], values)
                      /\ stack'[j].step = stack[j].step
    OBVIOUS
  <2>1. CASE j = n - 1
    BY <1>1, <1>5, <1>8, <2>1
  <2>2. CASE j # n - 1
    <3>1. j \in 1 .. n - 2 /\ j \in 1 .. n
      BY <2>2
    <3> QED
      BY <1>1, <3>1 DEF SearchInv, CallsRight, Inside
  <2> QED
    BY <2>1, <2>2
<1>10. \A j \in 1 .. n - 1 : /\ Right(g, input, stack'[j], values')
                             /\ Conf(stack'[j], values') = Conf(stack[j], values)
  <2> SUFFICES ASSUME NEW j \in 1 .. n - 1
               PROVE  /\ Right(g, input, stack'[j], values')
                      /\ Conf(stack'[j], values') = Conf(stack[j], values)
    OBVIOUS
  <2> DEFINE k == stack'[j]
             v == values'
  <2>1. /\ k.step # "enter" /\ Right(g, input, k, values)
        /\ Conf(k, values) = Conf(stack[j], values)
    BY <1>9
  <2> HIDE DEF k, v
  <2>2. Right(g, input, k, v) /\ Conf(k, v) = Conf(stack[j], values)
    BY <2>1, RightWhatever
  <2> QED
    BY <2>2 DEF k, v
<1>11. \A j \in 1 .. n - 2 :
          /\ Inside(g, stack'[j])
          /\ Conf(stack'[j + 1], values') = Past(stack'[j], ArcIn(g, stack'[j]))
  <2> SUFFICES ASSUME NEW j \in 1 .. n - 2
               PROVE  /\ Inside(g, stack'[j])
                      /\ Conf(stack'[j + 1], values') = Past(stack'[j], ArcIn(g, stack'[j]))
    OBVIOUS
  <2>1. j \in 1 .. n - 1 /\ j + 1 \in 1 .. n - 1
    OBVIOUS
  <2>2. Inside(g, stack[j]) /\ Conf(stack[j + 1], values) = Past(stack[j], ArcIn(g, stack[j]))
    BY <2>1 DEF SearchInv, CallsRight
  <2> QED
    BY <1>1, <1>10, <2>1, <2>2
<1>12. CallsRight(g, input, stack', values')
  <2>1. n - 1 - 1 = n - 2
    OBVIOUS
  <2> QED
    BY <1>1, <1>10, <1>11, <2>1 DEF CallsRight
<1>13. Recording(g, stack', visited')
  <2> SUFFICES ASSUME NEW c \in visited'
               PROVE  \E j \in 1 .. n - 2 :
                        /\ c = <<ArcIn(g, stack'[j]).to, stack'[j].values>>
                        /\ \A l \in j .. n - 2 : stack'[l].step = "zero"
    <3>1. n - 1 - 1 = n - 2
      OBVIOUS
    <3> QED
      BY <1>1, <3>1 DEF Recording
  <2>1. c \in visited /\ (f.step = "zero" => c # <<a.to, f.values>>)
    OBVIOUS
  <2>2. PICK j \in 1 .. n - 1 :
          /\ c = <<ArcIn(g, stack[j]).to, stack[j].values>>
          /\ \A l \in j .. n - 1 : stack[l].step = "zero"
    <3>1. stack # << >>
      <4>1. Len(stack) # 0
        OBVIOUS
      <4> QED
        BY <4>1
    <3> QED
      BY <2>1, <3>1 DEF SearchInv, Recording
  <2>3. n - 1 \in j .. n - 1
    OBVIOUS
  <2>4. f.step = "zero"
    BY <2>2, <2>3
  <2>5. j # n - 1
    BY <2>1, <2>2, <2>4
  <2>6. j \in 1 .. n - 2 /\ \A l \in j .. n - 2 : l \in j .. n - 1 /\ l \in 1 .. n - 2
    BY <2>5
  <2>7. \A l \in j .. n - 2 : stack'[l].step = "zero"
    BY <1>1, <2>2, <2>6
  <2>8. c = <<ArcIn(g, stack'[j]).to, stack'[j].values>>
    BY <1>1, <2>2, <2>6
  <2> QED
    BY <2>6, <2>7, <2>8
<1>14. Innermost(g, h, values', found')
  <2>1. ArcsIn(g, f) # << >>
    BY <1>6
  <2>2. ~Untried(g, h)
    BY <1>8, <2>1 DEF Untried, ArcsIn
  <2>3. ~HasFlags(g) => a.in \notin Flags
    BY <1>2, <1>4, <1>6, NoFlagArcs DEF Right, Placed
  <2> QED
    BY <1>7, <1>8, <2>2, <2>3 DEF Innermost
<1>15. Conf(stack'[1], values') = Start
  <2>1. 1 \in 1 .. n - 1 /\ stack # << >>
    <3>1. Len(stack) # 0
      OBVIOUS
    <3> QED
      BY <3>1
  <2> QED
    BY <1>10, <2>1 DEF SearchInv
<1> QED
  BY <1>1, <1>12, <1>13, <1>14, <1>15 DEF SearchInv

\* The outermost call returns.
LEMMA SearchEnds ==
    ASSUME SearchInv, Len(stack) = 1,
           Known(input) => Safe(g, input, Conf(stack[Len(stack)], values)),
           stack' = << >>, answer' = "no", UNCHANGED <<g, input, values>>
    PROVE  SearchInv'
<1>1. stack # << >>
  <2>1. Len(stack) # 0
    OBVIOUS
  <2> QED
    BY <2>1
<1>2. Conf(stack[1], values) = Start /\ Innermost(g, stack[1], values, found)
  BY <1>1 DEF SearchInv
<1>3. Conf(stack[1], values).values = values
  BY <1>2 DEF Conf, Innermost
<1>4. values = Neutral
  BY <1>2, <1>3 DEF Start
<1>5. CallsRight(g, input, << >>, values)
  BY DEF CallsRight, IsSequence
<1>6. Answering(g, input, "no")
  BY <1>2 DEF Answering
<1> QED
  BY <1>4, <1>5, <1>6 DEF SearchInv

\* A call has been through its configuration when its last arcs are behind it: at the
\* end of the input those that read nothing, else those that read, too, and the default
\* arcs unless there were others.
LEMMA SafeWhenDone ==
    ASSUME NEW gr, IsGraph(gr), NEW inp, inp \in Seq(Nat), Known(inp),
           NEW f, NEW v, NEW fd, Right(gr, inp, f, v), Innermost(gr, f, v, fd),
           f.step # "enter", f.i > Len(ArcsIn(gr, f)),
           \/ f.step = "zero" /\ f.pos = Len(inp)
           \/ HasRead(f) /\ (f.step = "default" \/ DEFAULT = NO_SYMBOL \/ fd)
    PROVE  Safe(gr, inp, Conf(f, v))
<1> DEFINE c == Conf(f, f.values)
<1>1. /\ IsFrame(f) /\ f.i \in Nat \ {0} /\ f.s \in 0 .. gr.n - 1
      /\ f.step \in {"zero", "symbol", "default"} /\ f.pos \in 0 .. Len(inp)
      /\ f.step = "symbol" => f.trying = inp[f.pos]
      /\ f.step = "default" => f.trying = DEFAULT
  BY DEF Right, Placed, IsFrame
<1>2. c = Conf(f, v) /\ c.s = f.s /\ c.values = f.values
      /\ c.pos = IF HasRead(f) THEN f.pos - 1 ELSE f.pos
  BY DEF Conf
<1>3. QuietExplored(gr, inp, f) /\ ReadExplored(gr, inp, f)
  BY DEF Right, Explored
<1>4. ASSUME NEW a \in Range(gr.arcs[f.s]),
             IF f.step = "zero" THEN a.in \in Zero ELSE a.in = f.trying
      PROVE  Behind(gr, f, a)
  <2>1. PICK i \in 1 .. Len(ArcsIn(gr, f)) : ArcsIn(gr, f)[i] = a
    BY <1>1, <1>4, ArcsInHold
  <2>2. Len(ArcsIn(gr, f)) \in Nat
    BY <1>1, ArcsInHold
  <2>3. i \in 1 .. f.i - 1
    BY <1>1, <2>2
  <2> QED
    BY <2>1, <2>3 DEF Behind
<1>5. ASSUME NEW e \in Quietly(gr, c) PROVE Safe(gr, inp, e)
  <2>1. PICK a \in Range(gr.arcs[c.s]) :
          /\ a.in = 0 \/ (a.in \in Flags /\ Allows(FlagOp[a.in], c.values))
          /\ e = QuietPast(c, a)
    BY DEF Quietly, QuietPast
  <2> HIDE DEF c
  <2>2. a \in Range(gr.arcs[f.s])
    BY <1>2, <2>1
  <2>3. a.in \in Zero
    BY <2>1 DEF Zero
  <2>4. 0 \notin Flags
    BY SymbolsAssumption
  <2>5. Passes(a, f.values)
    BY <1>2, <2>1, <2>4 DEF Passes
  <2>6. Safe(gr, inp, QuietPast(Conf(f, f.values), a))
    BY <1>3, <1>4, <2>2, <2>3, <2>5 DEF QuietExplored
  <2> QED
    BY <2>1, <2>6 DEF c
<1>6. ASSUME NEW e \in Reading(gr, inp, c) PROVE Safe(gr, inp, e)
  <2> HIDE DEF c
  <2>1. HasRead(f) /\ f.pos \in 1 .. Len(inp) /\ c.pos + 1 = f.pos
    <3>1. c.pos # Len(inp)
      BY DEF Reading
    <3>2. HasRead(f)
      BY <1>2, <3>1
    <3>3. f.pos > 0
      BY <3>2 DEF Right, Placed
    <3> QED
      BY <1>1, <1>2, <3>2, <3>3
  <2> DEFINE x == inp[f.pos]
  <2>2. PICK a \in Taken(gr, f.s, x) : e = ReadPast(c, a)
    BY <1>2, <2>1 DEF Reading, ReadPast
  <2>3. x \in Nat /\ x < ORIG_SYMBOL_COUNT
    BY <2>1 DEF Known
  <2>4. a \in Range(gr.arcs[f.s])
        /\ \/ a.in = x
           \/ a.in = DEFAULT /\ \A b \in Range(gr.arcs[f.s]) : b.in # x /\ b.in \notin Zero
    BY <2>2, <2>3 DEF Taken, StartsOn
  <2> HIDE DEF x
  <2>5. CASE f.step = "default"
    <3>1. Behind(gr, f, a) \/ a.in = inp[f.pos]
      BY <1>1, <1>4, <2>4, <2>5 DEF x
    <3>2. Safe(gr, inp, ReadPast(Conf(f, f.values), a))
      BY <1>3, <2>1, <2>4, <2>5, <3>1 DEF ReadExplored
    <3> QED
      BY <2>2, <3>2 DEF c
  <2>6. CASE f.step = "symbol"
    <3>1. a.in = x
      <4> SUFFICES ASSUME a.in # x PROVE FALSE
        OBVIOUS
      <4>1. a.in = DEFAULT /\ \A b \in Range(gr.arcs[f.s]) : b.in # x /\ b.in \notin Zero
        BY <2>4
      <4>2. DEFAULT # NO_SYMBOL
        <5>1. a.in \in Nat
          <6>1. AnArc(gr, a)
            BY <1>1, <2>4, ArcsAreArcs
          <6> QED
            BY <6>1, SymbolsAssumption DEF AnArc
        <5> QED
          BY <4>1, <5>1, SymbolsAssumption
      <4>3. ZeroArcs(gr, f.s) = << >>
        BY <1>1, <4>1, ArcsHold
      <4>4. ArcsIn(gr, f) = << >>
        <5> SUFFICES ASSUME ArcsIn(gr, f) # << >> PROVE FALSE
          OBVIOUS
        <5>1. ArcsIn(gr, f)[1] \in Range(gr.arcs[f.s]) /\ ArcsIn(gr, f)[1].in = f.trying
          BY <1>1, <2>6, ArcsInHold
        <5> QED
          BY <1>1, <2>6, <4>1, <5>1 DEF x
      <4>5. Untried(gr, f)
        BY <2>6, <4>3, <4>4 DEF Untried, ArcsIn
      <4> QED
        BY <2>6, <4>2, <4>5 DEF Innermost
    <3>2. Behind(gr, f, a)
      BY <1>1, <1>4, <2>4, <2>6, <3>1 DEF x
    <3>3. Safe(gr, inp, ReadPast(Conf(f, f.values), a))
      BY <1>3, <2>1, <2>4, <3>2 DEF ReadExplored
    <3> QED
      BY <2>2, <3>3 DEF c
  <2> QED
    BY <2>1, <2>5, <2>6 DEF HasRead
<1>7. Safe(gr, inp, c)
  <2> HIDE DEF c
  <2>1. \A e \in Onward(gr, inp, "all", c) : Safe(gr, inp, e)
    BY <1>5, <1>6 DEF Onward
  <2> QED
    BY <2>1, SafeOnward
<1> QED
  BY <1>2, <1>7

-----------------------------------------------------------------------------
(* Coming back to where a call began *)

LEMMA LoopFrom ==
    ASSUME NEW gr, NEW inp, NEW d, NEW c \in From(gr, inp, "quiet", d), d \in Quietly(gr, c)
    PROVE  OnLoop(gr, inp, d)
<1> DEFINE Q == Quietly(gr, d)
           T == UNION {Reached(gr, inp, "quiet", Q, m) : m \in Nat}
<1>1. \A x : Onward(gr, inp, "quiet", x) = Quietly(gr, x)
  BY DEF Onward
<1>2. Q \subseteq T
  <2>1. Reached(gr, inp, "quiet", Q, 0) = Q /\ 0 \in Nat
    BY ReachedIs
  <2> QED
    BY <2>1
<1>3. ASSUME NEW x \in T PROVE Onward(gr, inp, "quiet", x) \subseteq T
  <2>1. PICK m \in Nat : x \in Reached(gr, inp, "quiet", Q, m)
    OBVIOUS
  <2>2. ASSUME NEW y \in Onward(gr, inp, "quiet", x)
        PROVE  y \in Reached(gr, inp, "quiet", Q, m + 1) /\ m + 1 \in Nat
    BY <2>1, ReachedNext
  <2> QED
    BY <2>2
<1>4. d \in T => OnLoop(gr, inp, d)
  BY DEF OnLoop
<1> HIDE DEF T
<1>5. CASE c = d
  BY <1>2, <1>4, <1>5
<1>6. CASE c # d
  <2>1. PICK e \in Q : c \in From(gr, inp, "quiet", e)
    BY <1>1, <1>6, ReachedShift
  <2>2. PICK n \in Nat : c \in Reached(gr, inp, "quiet", {e}, n)
    BY <2>1, InFrom
  <2>3. {e} \subseteq T
    BY <1>2
  <2>4. c \in T
    BY <1>3, <2>2, <2>3, ReachedStays
  <2> QED
    BY <1>1, <1>3, <1>4, <2>4
<1> QED
  BY <1>5, <1>6

\* The innermost call is about to enter an arc recorded before.
LEMMA SearchTraps ==
    ASSUME SearchInv, stack # << >>, NEW f, f = stack[Len(stack)], Inside(g, f),
           f.step = "zero", NEW a, a = ArcIn(g, f), <<a.to, f.values>> \in visited,
           stack' = << >>, answer' = "yes", values' = Neutral, UNCHANGED <<g, input>>
    PROVE  SearchInv'
<1> PICK n \in Nat \ {0} : n = Len(stack)
  <2>1. IsSequence(stack)
    BY DEF SearchInv, CallsRight
  <2>2. Len(stack) \in Nat /\ Len(stack) # 0
    BY <2>1 DEF IsSequence
  <2> QED
    BY <2>2
<1>1. IsGraph(g) /\ input \in Seq(Nat)
  BY GraphsAssumption DEF SearchInv
<1>2. ASSUME Known(input), ~HasFlags(g) PROVE ~Safe(g, input, Start)
  <2>1. PICK j \in 1 .. n - 1 :
          /\ <<a.to, f.values>> = <<ArcIn(g, stack[j]).to, stack[j].values>>
          /\ \A l \in j .. n - 1 : stack[l].step = "zero"
    BY DEF SearchInv, Recording
  <2> DEFINE conf(l) == Conf(stack[l], values)
             d == conf(j + 1)
             Q == From(g, input, "quiet", d)
             past(l) == Past(stack[l], ArcIn(g, stack[l]))
  <2>2. \A l \in 1 .. n : Right(g, input, stack[l], values)
    BY DEF SearchInv, CallsRight
  <2>3. \A l \in 1 .. n - 1 : Inside(g, stack[l]) /\ conf(l + 1) = past(l)
    BY DEF SearchInv, CallsRight
  <2>4. \A l \in j .. n : /\ l \in 1 .. n /\ stack[l].step = "zero" /\ Inside(g, stack[l])
                          /\ conf(l) = Conf(stack[l], stack[l].values)
    <3> SUFFICES ASSUME NEW l \in j .. n
                 PROVE  /\ l \in 1 .. n /\ stack[l].step = "zero" /\ Inside(g, stack[l])
                        /\ conf(l) = Conf(stack[l], stack[l].values)
      OBVIOUS
    <3>1. l \in 1 .. n /\ (l = n \/ (l \in j .. n - 1 /\ l \in 1 .. n - 1))
      OBVIOUS
    <3>2. stack[l].step = "zero" /\ Inside(g, stack[l])
      BY <2>1, <2>3, <3>1
    <3> QED
      BY <3>1, <3>2 DEF Conf
  <2>5. \A l \in j .. n : /\ past(l) \in Quietly(g, conf(l))
                          /\ past(l) = [s |-> ArcIn(g, stack[l]).to, pos |-> conf(l).pos,
                                        values |-> stack[l].values]
    <3> SUFFICES ASSUME NEW l \in j .. n
                 PROVE  /\ past(l) \in Quietly(g, conf(l))
                        /\ past(l) = [s |-> ArcIn(g, stack[l]).to, pos |-> conf(l).pos,
                                      values |-> stack[l].values]
      OBVIOUS
    <3> DEFINE k == stack[l]
    <3>1. /\ Right(g, input, k, values) /\ k.step = "zero" /\ Inside(g, k)
          /\ conf(l) = Conf(k, k.values)
      BY <2>2, <2>4
    <3> HIDE DEF k
    <3>2. ArcIn(g, k) \in Range(g.arcs[k.s]) /\ Past(k, ArcIn(g, k)) \in Quietly(g, Conf(k, k.values))
      BY <1>1, <3>1, PastOnward
    <3>3. ArcIn(g, k).in \notin Flags
      BY <1>1, <1>2, <3>1, <3>2, NoFlagArcs DEF Right, Placed
    <3>4. Past(k, ArcIn(g, k)) = [s |-> ArcIn(g, k).to, pos |-> Conf(k, k.values).pos,
                                  values |-> k.values]
      BY <3>1, <3>3 DEF Past, QuietPast, Conf
    <3> QED
      BY <3>1, <3>2, <3>4 DEF k
  <2> HIDE DEF conf, past
  <2> DEFINE bad == {l \in Nat : l \in j + 1 .. n /\ ~(conf(l) \in Q /\ conf(l).pos = d.pos)}
  <2>6. bad = {}
    <3> SUFFICES ASSUME bad # {} PROVE FALSE
      OBVIOUS
    <3>1. PICK l \in bad : \A i \in bad : l <= i
      <4>1. bad \in SUBSET Nat
        OBVIOUS
      <4> HIDE DEF bad
      <4> QED
        BY <4>1, LeastElement
    <3>2. l \in j + 1 .. n /\ ~(conf(l) \in Q /\ conf(l).pos = d.pos)
      BY <3>1
    <3>3. l # j + 1
      <4>1. d \in Q
        BY FromHolds
      <4> QED
        BY <3>2, <4>1
    <3>4. l - 1 \in j + 1 .. n /\ l - 1 \in Nat /\ ~(l <= l - 1) /\ l - 1 + 1 = l
          /\ l - 1 \in 1 .. n - 1 /\ l - 1 \in j .. n
      BY <3>2, <3>3
    <3>5. l - 1 \notin bad
      <4> HIDE DEF bad
      <4> QED
        BY <3>1, <3>4
    <3>6. conf(l - 1) \in Q /\ conf(l - 1).pos = d.pos
      BY <3>4, <3>5
    <3>7. conf(l) \in Quietly(g, conf(l - 1)) /\ conf(l).pos = conf(l - 1).pos
      <4>1. conf(l - 1 + 1) = past(l - 1)
        BY <2>3, <3>4
      <4>2. conf(l) = past(l - 1)
        BY <3>4, <4>1
      <4> QED
        BY <2>5, <3>4, <4>2
    <3>8. conf(l) \in Q
      <4>1. conf(l) \in Onward(g, input, "quiet", conf(l - 1))
        BY <3>7 DEF Onward
      <4> HIDE DEF d
      <4> QED
        BY <3>6, <4>1, FromHolds
    <3> QED
      BY <3>2, <3>6, <3>7, <3>8
  <2>7. conf(n) \in Q /\ conf(n).pos = d.pos
    <3>1. n \in j + 1 .. n /\ n \in Nat /\ n \notin bad
      BY <2>6
    <3> QED
      BY <3>1
  <2>8. past(n) = d
    <3>1. n \in j .. n /\ j \in j .. n /\ j \in 1 .. n - 1
      OBVIOUS
    <3>2. d = past(j)
      BY <2>3, <3>1
    <3>3. past(n) = [s |-> a.to, pos |-> conf(n).pos, values |-> f.values]
      BY <2>5, <3>1
    <3>4. past(j) = [s |-> a.to, pos |-> conf(j).pos, values |-> f.values]
      BY <2>1, <2>5, <3>1
    <3>5. conf(j).pos = d.pos
      BY <3>2, <3>4
    <3> QED
      BY <2>7, <3>2, <3>3, <3>4, <3>5
  <2>9. OnLoop(g, input, d)
    <3>1. d \in Quietly(g, conf(n))
      BY <2>5, <2>8
    <3> HIDE DEF d
    <3> QED
      BY <2>7, <3>1, LoopFrom
  <2>10. d \in From(g, input, "all", Start)
    <3>1. j + 1 \in 1 .. n
      OBVIOUS
    <3> QED
      BY <1>2, <2>2, <3>1 DEF Right, Met, conf
  <2> QED
    BY <2>9, <2>10 DEF Safe
<1>3. CallsRight(g, input, << >>, Neutral)
  BY DEF CallsRight, IsSequence
<1>4. Answering(g, input, "yes")
  BY <1>2 DEF Answering
<1> QED
  BY <1>3, <1>4 DEF SearchInv

-----------------------------------------------------------------------------
(* The actions *)

\* What the actions that change the innermost call make of it.
LEMMA MovedFrames ==
    ASSUME NEW f, IsFrame(f), NEW v, NEW pos, NEW x
    PROVE  /\ [f EXCEPT !.step = "zero", !.values = v] =
                [s |-> f.s, pos |-> f.pos, step |-> "zero", i |-> f.i,
                 trying |-> f.trying, values |-> v]
           /\ [f EXCEPT !.step = "symbol", !.pos = pos, !.i = 1, !.trying = x] =
                [s |-> f.s, pos |-> pos, step |-> "symbol", i |-> 1,
                 trying |-> x, values |-> f.values]
           /\ [f EXCEPT !.step = "default", !.trying = x, !.i = 1] =
                [s |-> f.s, pos |-> f.pos, step |-> "default", i |-> 1,
                 trying |-> x, values |-> f.values]
<1> DEFINE zero == [f EXCEPT !.step = "zero"]
<1>1. zero = [s |-> f.s, pos |-> f.pos, step |-> "zero", i |-> f.i,
              trying |-> f.trying, values |-> f.values]
  BY DEF IsFrame
<1> HIDE DEF zero
<1>2. [zero EXCEPT !.values = v] =
        [s |-> f.s, pos |-> f.pos, step |-> "zero", i |-> f.i,
         trying |-> f.trying, values |-> v]
  BY <1>1
<1> DEFINE read == [f EXCEPT !.step = "symbol"]
<1>3. read = [s |-> f.s, pos |-> f.pos, step |-> "symbol", i |-> f.i,
              trying |-> f.trying, values |-> f.values]
  BY DEF IsFrame
<1> HIDE DEF read
<1> DEFINE placed == [read EXCEPT !.pos = pos]
<1>4. placed = [s |-> f.s, pos |-> pos, step |-> "symbol", i |-> f.i,
                trying |-> f.trying, values |-> f.values]
  BY <1>3
<1> HIDE DEF placed
<1> DEFINE restarted == [placed EXCEPT !.i = 1]
<1>5. restarted = [s |-> f.s, pos |-> pos, step |-> "symbol", i |-> 1,
                   trying |-> f.trying, values |-> f.values]
  BY <1>4
<1> HIDE DEF restarted
<1>6. [restarted EXCEPT !.trying = x] =
        [s |-> f.s, pos |-> pos, step |-> "symbol", i |-> 1, trying |-> x,
         values |-> f.values]
  BY <1>5
<1> DEFINE defaulted == [f EXCEPT !.step = "default"]
<1>7. defaulted = [s |-> f.s, pos |-> f.pos, step |-> "default", i |-> f.i,
                   trying |-> f.trying, values |-> f.values]
  BY DEF IsFrame
<1> HIDE DEF defaulted
<1> DEFINE tried == [defaulted EXCEPT !.trying = x]
<1>8. tried = [s |-> f.s, pos |-> f.pos, step |-> "default", i |-> f.i,
               trying |-> x, values |-> f.values]
  BY <1>7
<1> HIDE DEF tried
<1>9. [tried EXCEPT !.i = 1] =
        [s |-> f.s, pos |-> f.pos, step |-> "default", i |-> 1, trying |-> x,
         values |-> f.values]
  BY <1>8
<1> QED
  BY <1>2, <1>6, <1>9 DEF zero, read, placed, restarted, defaulted, tried

\* The innermost call.
LEMMA TopIs ==
    ASSUME SearchInv, ~Idle
    PROVE  /\ stack # << >> /\ top = stack[Len(stack)]
           /\ Len(stack) \in Nat \ {0} /\ IsGraph(g) /\ input \in Seq(Nat)
           /\ Right(g, input, top, values) /\ Innermost(g, top, values, found)
           /\ IsFrame(top) /\ top.i \in Nat \ {0} /\ top.s \in 0 .. g.n - 1
           /\ top.pos \in 0 .. Len(input) /\ Len(ArcsIn(g, top)) \in Nat
           /\ Arc(top) = ArcIn(g, top) /\ Arcs(top) = ArcsIn(g, top)
<1>1. stack # << >> /\ top = stack[Len(stack)]
  BY DEF Idle, top, Last
<1>2. Len(stack) \in Nat \ {0}
  <2>1. IsSequence(stack)
    BY DEF SearchInv, CallsRight
  <2> QED
    BY <1>1, <2>1 DEF IsSequence
<1>3. IsGraph(g) /\ input \in Seq(Nat)
  BY GraphsAssumption DEF SearchInv
<1>4. Right(g, input, top, values) /\ Innermost(g, top, values, found)
  <2>1. Len(stack) \in 1 .. Len(stack)
    BY <1>2
  <2> QED
    BY <1>1, <2>1 DEF SearchInv, CallsRight
<1>5. IsFrame(top) /\ top.i \in Nat \ {0} /\ top.s \in 0 .. g.n - 1
      /\ top.pos \in 0 .. Len(input)
  BY <1>4 DEF Right, Placed
<1>6. Len(ArcsIn(g, top)) \in Nat
  BY <1>3, <1>5, ArcsInHold
<1> QED
  BY <1>1, <1>2, <1>3, <1>4, <1>5, <1>6, ArcIsArcIn

LEMMA SearchEnters ==
    ASSUME SearchInv, Enter
    PROVE  SearchInv'
<1> DEFINE f == top
           h == [f EXCEPT !.step = "zero", !.values = values]
<1>1. ~Idle /\ f.step = "enter" /\ found' = FALSE /\ stack' = [stack EXCEPT ![Len(stack)] = h]
      /\ UNCHANGED <<g, input, values, visited, answer>>
  BY DEF Enter
<1>2. /\ stack # << >> /\ f = stack[Len(stack)] /\ IsFrame(f)
      /\ Right(g, input, f, values)
  BY <1>1, TopIs
<1> HIDE DEF f
<1>3. h = [s |-> f.s, pos |-> f.pos, step |-> "zero", i |-> f.i,
           trying |-> f.trying, values |-> values]
  BY <1>2, MovedFrames
<1>4. stack' = Retopped(stack, h)
  BY <1>1 DEF Retopped
<1> HIDE DEF h
<1>5. /\ h.s = f.s /\ h.pos = f.pos /\ h.step = "zero" /\ h.i = f.i
      /\ h.values = values /\ IsFrame(h)
  BY <1>3 DEF IsFrame
<1>6. Conf(h, values) = Conf(f, values)
  BY <1>1, <1>5 DEF Conf, HasRead
<1>7. f.i = 1
  BY <1>1, <1>2 DEF Right, Placed
<1>8. \A b : ~Behind(g, h, b)
  BY <1>5, <1>7 DEF Behind
<1>9. Right(g, input, h, values)
  <2>1. Placed(g, input, h)
    BY <1>2, <1>5 DEF Right, Placed, HasRead
  <2>2. Explored(g, input, h)
    BY <1>5, <1>8 DEF Explored, QuietExplored, ReadExplored, HasRead
  <2>3. DefaultsApart(g, input, h) /\ Met(g, input, h, values)
    BY <1>2, <1>5, <1>6 DEF Right, DefaultsApart, Met
  <2> QED
    BY <2>1, <2>2, <2>3 DEF Right
<1>10. Innermost(g, h, values, found')
  BY <1>1, <1>5, <1>7 DEF Innermost, Tried
<1> QED
  BY <1>1, <1>2, <1>4, <1>6, <1>9, <1>10, SearchMoves

LEMMA SearchSkips ==
    ASSUME SearchInv, SkipFlag
    PROVE  SearchInv'
<1> DEFINE f == top
           h == Advanced(f)
<1>1. ~Idle /\ f.step = "zero" /\ f.i <= Len(Arcs(f)) /\ ~Passable
      /\ stack' = [stack EXCEPT ![Len(stack)] = h]
      /\ UNCHANGED <<g, input, values, visited, found, answer>>
  BY DEF SkipFlag, AtZeroArc
<1>2. /\ stack # << >> /\ f = stack[Len(stack)] /\ IsFrame(f)
      /\ IsGraph(g) /\ input \in Seq(Nat) /\ f.i \in Nat \ {0} /\ f.s \in 0 .. g.n - 1
      /\ Right(g, input, f, values) /\ Innermost(g, f, values, found)
      /\ Arc(f) = ArcIn(g, f) /\ Arcs(f) = ArcsIn(g, f)
  BY <1>1, TopIs
<1>3. f.values = values
  BY <1>1, <1>2 DEF Innermost
<1>4. ArcIn(g, f).in \in Flags /\ ~Passes(ArcIn(g, f), f.values)
  BY <1>1, <1>2, <1>3 DEF Passable, Passes
<1> HIDE DEF f
<1>5. Done(g, input, f)
  BY <1>1, <1>4 DEF Done
<1>6. Right(g, input, h, values)
  BY <1>1, <1>2, <1>5, AdvancedRight
<1>7. Conf(h, values) = Conf(f, values)
  BY <1>1, <1>2, <1>5, AdvancedRight
<1>8. h = [s |-> f.s, pos |-> f.pos, step |-> f.step, i |-> f.i + 1,
           trying |-> f.trying, values |-> f.values]
  BY <1>2, AdvancedIs
<1>9. stack' = Retopped(stack, h)
  BY <1>1 DEF Retopped
<1> HIDE DEF h
<1>10. Innermost(g, h, values, found')
  <2>1. ArcsIn(g, f) # << >>
    <3>1. Len(ArcsIn(g, f)) # 0
      BY <1>1, <1>2, ArcsInHold
    <3> QED
      BY <3>1
  <2>2. ~Untried(g, h)
    BY <1>1, <1>8, <2>1 DEF Untried, ArcsIn
  <2>3. HasFlags(g)
    <3>1. ArcIn(g, f) \in Range(g.arcs[f.s])
      <4>1. f.i \in 1 .. Len(ArcsIn(g, f))
        BY <1>1, <1>2, ArcsInHold
      <4> QED
        BY <1>2, <4>1, ArcsInHold DEF ArcIn
    <3> QED
      BY <1>2, <1>4, <3>1, NoFlagArcs
  <2> QED
    BY <1>3, <1>8, <2>2, <2>3 DEF Innermost
<1> QED
  BY <1>1, <1>2, <1>6, <1>7, <1>9, <1>10, SearchMoves

\* The innermost call returns from a configuration it has been through.
LEMMA SearchGoesBack ==
    ASSUME SearchInv, ~Idle, Return, UNCHANGED <<g, input>>,
           Known(input) => Safe(g, input, Conf(top, values))
    PROVE  SearchInv'
<1>1. stack # << >> /\ top = stack[Len(stack)] /\ Len(stack) \in Nat \ {0}
  BY TopIs
<1>2. CASE Len(stack) = 1
  <2>1. stack' = << >> /\ answer' = "no" /\ UNCHANGED <<g, input, values>>
    BY <1>2 DEF Return
  <2> QED
    BY <1>1, <1>2, <2>1, SearchEnds
<1>3. CASE Len(stack) # 1
  <2> DEFINE f == stack[Len(stack) - 1]
             a == ArcIn(g, f)
  <2>1. Arc(f) = a
    BY ArcIsArcIn
  <2>2. ReturnsTo(f, a)
    BY <1>3, <2>1 DEF Return, ReturnsTo, PoppedTo, Left
  <2> HIDE DEF a, f
  <2>3. Len(stack) > 1
    <3>1. \A n \in Nat \ {0} : n # 1 => n > 1
      OBVIOUS
    <3> QED
      BY <1>1, <1>3, <3>1
  <2>4. f = stack[Len(stack) - 1] /\ a = ArcIn(g, f)
    BY DEF f, a
  <2> QED
    BY <1>1, <2>2, <2>3, <2>4, SearchReturns
<1> QED
  BY <1>2, <1>3

LEMMA SearchReads ==
    ASSUME SearchInv, ReadInput
    PROVE  SearchInv'
<1> DEFINE f == top
<1>1. ~Idle /\ f.step = "zero" /\ f.i > Len(Arcs(f)) /\ UNCHANGED <<g, input>>
  BY DEF ReadInput
<1>2. /\ stack # << >> /\ f = stack[Len(stack)] /\ IsFrame(f)
      /\ IsGraph(g) /\ input \in Seq(Nat) /\ f.i \in Nat \ {0} /\ f.s \in 0 .. g.n - 1
      /\ Right(g, input, f, values) /\ Innermost(g, f, values, found)
      /\ f.pos \in 0 .. Len(input) /\ Len(ArcsIn(g, f)) \in Nat
      /\ Arc(f) = ArcIn(g, f) /\ Arcs(f) = ArcsIn(g, f)
  BY <1>1, TopIs
<1>3. CASE AtEnd(f)
  <2>1. Return
    BY <1>3 DEF ReadInput
  <2>2. Known(input) => Safe(g, input, Conf(f, values))
    BY <1>1, <1>2, <1>3, SafeWhenDone DEF AtEnd
  <2> QED
    BY <1>1, <2>1, <2>2, SearchGoesBack
<1>4. CASE ~AtEnd(f)
  <2> DEFINE pos == f.pos + 1
             x == input[pos]
             h == [f EXCEPT !.step = "symbol", !.pos = pos, !.i = 1, !.trying = x]
  <2>1. /\ found' = (found \/ (Indexed(g, f.s) /\ Arcs(f) # << >>))
        /\ stack' = [stack EXCEPT ![Len(stack)] = h]
        /\ UNCHANGED <<values, visited, answer>>
    BY <1>4 DEF ReadInput
  <2>2. f.pos # Len(input)
    BY <1>4 DEF AtEnd
  <2> HIDE DEF f
  <2>3. pos \in 1 .. Len(input) /\ pos - 1 = f.pos
    BY <1>2, <2>2
  <2> HIDE DEF pos
  <2>4. stack' = Retopped(stack, h)
    BY <2>1 DEF Retopped
  <2>5. x = input[pos]
    OBVIOUS
  <2> HIDE DEF x
  <2>6. h = [s |-> f.s, pos |-> pos, step |-> "symbol", i |-> 1, trying |-> x,
             values |-> f.values]
    BY <1>2, MovedFrames
  <2> HIDE DEF h
  <2>7. /\ h.s = f.s /\ h.pos = pos /\ h.step = "symbol" /\ h.i = 1 /\ h.trying = x
        /\ h.values = f.values /\ IsFrame(h) /\ HasRead(h)
    BY <2>6 DEF IsFrame, HasRead
  <2>8. \A v : Conf(h, v) = Conf(f, v)
    BY <1>1, <2>3, <2>7 DEF Conf, HasRead
  <2>9. \A b : ~Behind(g, h, b)
    BY <2>7 DEF Behind
  <2>10. Right(g, input, h, values)
    <3>1. Placed(g, input, h)
      BY <1>2, <2>3, <2>5, <2>7 DEF Placed, HasRead
    <3>2. Known(input) => QuietExplored(g, input, h)
      <4> SUFFICES ASSUME Known(input), NEW b \in Range(g.arcs[f.s]), b.in \in Zero,
                          Passes(b, f.values)
                   PROVE  Safe(g, input, QuietPast(Conf(f, f.values), b))
        BY <2>7, <2>8 DEF QuietExplored
      <4>1. PICK i \in 1 .. Len(ArcsIn(g, f)) : ArcsIn(g, f)[i] = b
        <5>1. IsGraph(g) /\ f.s \in 0 .. g.n - 1
          BY <1>2
        <5>2. \A b0 \in Range(g.arcs[f.s]) : b0.in \in Zero =>
                \E i \in 1 .. Len(ArcsIn(g, f)) : ArcsIn(g, f)[i] = b0
          BY <1>1, <5>1, ArcsInHold
        <5> QED
          BY <5>2
      <4>2. i \in 1 .. f.i - 1
        BY <1>1, <1>2
      <4>3. Behind(g, f, b)
        BY <4>1, <4>2 DEF Behind
      <4> QED
        BY <1>1, <1>2, <4>3 DEF Right, Explored, QuietExplored
    <3>3. ReadExplored(g, input, h)
      BY <2>7, <2>9 DEF ReadExplored
    <3>4. DefaultsApart(g, input, h) /\ Met(g, input, h, values)
      BY <1>2, <2>7, <2>8 DEF Right, DefaultsApart, Met
    <3> QED
      BY <3>1, <3>2, <3>3, <3>4 DEF Right, Explored
  <2>11. Innermost(g, h, values, found')
    <3>1. values = h.values
      BY <1>1, <1>2, <2>7 DEF Innermost
    <3>2. ArcsIn(g, f) = ZeroArcs(g, h.s)
      BY <1>1, <2>7 DEF ArcsIn
    <3>3. Untried(g, h) => ~found'
      BY <1>1, <1>2, <2>1, <2>7, <3>2 DEF Untried, Innermost
    <3>4. ~HasFlags(g) /\ Tried(g, h) => found'
      <4> SUFFICES ASSUME ~HasFlags(g), Tried(g, h) PROVE found'
        OBVIOUS
      <4>1. ArcsIn(g, f) # << >>
        BY <2>7, <3>2 DEF Tried
      <4>2. 1 \in 1 .. Len(ArcsIn(g, f))
        BY <1>2, <4>1, ArcsInHold
      <4>3. f.i > 1
        BY <1>1, <1>2, <4>2
      <4> QED
        BY <1>1, <1>2, <2>1, <4>3 DEF Tried, Innermost
    <3> QED
      BY <3>1, <3>3, <3>4 DEF Innermost
  <2> QED
    BY <1>1, <1>2, <2>1, <2>4, <2>8, <2>10, <2>11, SearchMoves
<1> QED
  BY <1>3, <1>4

LEMMA SearchTriesDefault ==
    ASSUME SearchInv, TryDefault
    PROVE  SearchInv'
<1> DEFINE f == top
           h == [f EXCEPT !.step = "default", !.trying = DEFAULT, !.i = 1]
<1>1. /\ ~Idle /\ f.step = "symbol" /\ f.i > Len(Arcs(f)) /\ ~found /\ DEFAULT # NO_SYMBOL
      /\ stack' = [stack EXCEPT ![Len(stack)] = h]
      /\ UNCHANGED <<g, input, values, visited, found, answer>>
  BY DEF TryDefault
<1>2. /\ stack # << >> /\ f = stack[Len(stack)] /\ IsFrame(f)
      /\ IsGraph(g) /\ input \in Seq(Nat) /\ f.i \in Nat \ {0} /\ f.s \in 0 .. g.n - 1
      /\ Right(g, input, f, values) /\ Innermost(g, f, values, found)
      /\ f.pos \in 0 .. Len(input) /\ Len(ArcsIn(g, f)) \in Nat
      /\ Arcs(f) = ArcsIn(g, f)
  BY <1>1, TopIs
<1> HIDE DEF f
<1>3. stack' = Retopped(stack, h)
  BY <1>1 DEF Retopped
<1>4. h = [s |-> f.s, pos |-> f.pos, step |-> "default", i |-> 1, trying |-> DEFAULT,
           values |-> f.values]
  BY <1>2, MovedFrames
<1> HIDE DEF h
<1>5. /\ h.s = f.s /\ h.pos = f.pos /\ h.step = "default" /\ h.i = 1 /\ h.trying = DEFAULT
      /\ h.values = f.values /\ IsFrame(h) /\ HasRead(h) /\ HasRead(f)
  BY <1>1, <1>4 DEF IsFrame, HasRead
<1>6. \A v : Conf(h, v) = Conf(f, v)
  BY <1>1, <1>5 DEF Conf, HasRead
<1>7. \A b : ~Behind(g, h, b)
  BY <1>5 DEF Behind
<1>8. f.trying = input[f.pos] /\ f.pos > 0
  BY <1>1, <1>2, <1>5 DEF Right, Placed
<1>a. /\ \A b \in Range(g.arcs[f.s]) :
              b.in = f.trying => \E i \in 1 .. Len(ArcsIn(g, f)) : ArcsIn(g, f)[i] = b
      /\ \A b \in Range(g.arcs[f.s]) :
              b.in \in Zero => \E i \in 1 .. Len(ZeroArcs(g, f.s)) : ZeroArcs(g, f.s)[i] = b
  <2>1. IsGraph(g) /\ f.s \in 0 .. g.n - 1 /\ f.step # "zero"
    BY <1>1, <1>2
  <2> QED
    BY <2>1, ArcsInHold, ArcsHold
<1>9. Right(g, input, h, values)
  <2>1. Placed(g, input, h)
    BY <1>1, <1>2, <1>5, <1>8 DEF Placed, HasRead
  <2>2. Known(input) => QuietExplored(g, input, h)
    BY <1>1, <1>2, <1>5, <1>6 DEF Right, Explored, QuietExplored
  <2>3. Known(input) => ReadExplored(g, input, h)
    <3> SUFFICES ASSUME Known(input), NEW b \in Range(g.arcs[f.s]), b.in = input[f.pos]
                 PROVE  Safe(g, input, ReadPast(Conf(f, f.values), b))
      BY <1>5, <1>6, <1>7 DEF ReadExplored
    <3>1. PICK i \in 1 .. Len(ArcsIn(g, f)) : ArcsIn(g, f)[i] = b
      BY <1>8, <1>a
    <3>2. i \in 1 .. f.i - 1
      BY <1>1, <1>2
    <3>3. Behind(g, f, b)
      BY <3>1, <3>2 DEF Behind
    <3> QED
      BY <1>1, <1>2, <1>5, <3>3 DEF Right, Explored, ReadExplored
  <2>4. DefaultsApart(g, input, h)
    <3> SUFFICES ASSUME ~HasFlags(g), NEW b \in Range(g.arcs[f.s])
                 PROVE  b.in \notin Zero /\ b.in # input[f.pos]
      BY <1>5 DEF DefaultsApart
    <3>1. ~Tried(g, f)
      BY <1>1, <1>2 DEF Innermost
    <3>2. f.i = 1 /\ ZeroArcs(g, f.s) = << >>
      BY <1>1, <1>2, <3>1 DEF Tried
    <3>3. Len(ArcsIn(g, f)) = 0
      BY <1>1, <1>2, <3>2
    <3>4. b.in # input[f.pos]
      BY <1>8, <1>a, <3>3
    <3>5. b.in \notin Zero
      <4> SUFFICES ASSUME b.in \in Zero PROVE FALSE
        OBVIOUS
      <4>1. PICK i \in 1 .. Len(ZeroArcs(g, f.s)) : ZeroArcs(g, f.s)[i] = b
        BY <1>a
      <4> QED
        BY <3>2, <4>1
    <3> QED
      BY <3>4, <3>5
  <2>5. Met(g, input, h, values)
    BY <1>2, <1>6 DEF Right, Met
  <2> QED
    BY <2>1, <2>2, <2>3, <2>4, <2>5 DEF Right, Explored
<1>10. Innermost(g, h, values, found')
  BY <1>1, <1>2, <1>5 DEF Innermost, Untried, Tried
<1> QED
  BY <1>1, <1>2, <1>3, <1>6, <1>9, <1>10, SearchMoves

LEMMA SearchTakesZero ==
    ASSUME SearchInv, TakeZero
    PROVE  SearchInv'
<1> DEFINE f == top
           a == ArcIn(g, f)
<1>1. /\ ~Idle /\ f.step = "zero" /\ f.i <= Len(Arcs(f)) /\ Passable
      /\ UNCHANGED <<g, input, answer>>
  BY DEF TakeZero, AtZeroArc
<1>2. /\ stack # << >> /\ f = stack[Len(stack)] /\ Innermost(g, f, values, found)
      /\ Arc(f) = a /\ Arcs(f) = ArcsIn(g, f)
  BY <1>1, TopIs
<1>3. values = f.values
  BY <1>1, <1>2 DEF Innermost
<1>4. Inside(g, f)
  BY <1>1, <1>2, <1>3 DEF Inside, Passable, Passes
<1>5. stack' = Append(stack, Frame(a.to, f.pos))
  BY <1>2 DEF TakeZero, Call
<1>6. visited' = IF f.step = "zero" THEN visited \cup {<<a.to, f.values>>} ELSE {}
  BY <1>1, <1>2 DEF TakeZero, Recorded
<1>7. values' = Past(f, a).values
  BY <1>1, <1>2, <1>3 DEF TakeZero, Past, QuietPast, Conf
<1> HIDE DEF f, a
<1>8. a = ArcIn(g, f)
  BY DEF a
<1> QED
  BY <1>1, <1>2, <1>4, <1>5, <1>6, <1>7, <1>8, SearchCalls

LEMMA SearchTakesSymbol ==
    ASSUME SearchInv, TakeSymbol
    PROVE  SearchInv'
<1> DEFINE f == top
           a == ArcIn(g, f)
<1>1. /\ ~Idle /\ f.step \in {"symbol", "default"} /\ f.i <= Len(Arcs(f))
      /\ UNCHANGED <<g, input, values, answer>>
  BY DEF TakeSymbol
<1>2. /\ stack # << >> /\ f = stack[Len(stack)] /\ Innermost(g, f, values, found)
      /\ Arc(f) = a /\ Arcs(f) = ArcsIn(g, f)
  BY <1>1, TopIs
<1>3. values = f.values
  BY <1>1, <1>2 DEF Innermost
<1>4. Inside(g, f)
  BY <1>1, <1>2 DEF Inside
<1>5. stack' = Append(stack, Frame(a.to, f.pos))
  BY <1>2 DEF TakeSymbol, Call
<1>6. visited' = IF f.step = "zero" THEN visited \cup {<<a.to, f.values>>} ELSE {}
  BY <1>1 DEF TakeSymbol, Cleared
<1>7. values' = Past(f, a).values
  BY <1>1, <1>3 DEF Past, ReadPast, Conf
<1> HIDE DEF f, a
<1>8. a = ArcIn(g, f)
  BY DEF a
<1> QED
  BY <1>1, <1>2, <1>4, <1>5, <1>6, <1>7, <1>8, SearchCalls

LEMMA SearchLeaves ==
    ASSUME SearchInv, Leave
    PROVE  SearchInv'
<1> DEFINE f == top
<1>1. /\ ~Idle /\ f.step \in {"symbol", "default"} /\ f.i > Len(Arcs(f))
      /\ f.step = "default" \/ DEFAULT = NO_SYMBOL \/ found
      /\ Return /\ UNCHANGED <<g, input>>
  BY DEF Leave
<1>2. /\ IsGraph(g) /\ input \in Seq(Nat)
      /\ Right(g, input, f, values) /\ Innermost(g, f, values, found)
      /\ Arcs(f) = ArcsIn(g, f)
  BY <1>1, TopIs
<1>3. Known(input) => Safe(g, input, Conf(f, values))
  BY <1>1, <1>2, SafeWhenDone DEF HasRead
<1> QED
  BY <1>1, <1>3, SearchGoesBack

LEMMA SearchGivesUp ==
    ASSUME SearchInv, Trap
    PROVE  SearchInv'
<1> DEFINE f == top
           a == ArcIn(g, f)
<1>1. /\ ~Idle /\ f.step = "zero" /\ f.i <= Len(Arcs(f)) /\ Passable
      /\ Recorded \in visited
      /\ stack' = << >> /\ answer' = "yes" /\ values' = Neutral /\ UNCHANGED <<g, input>>
  BY DEF Trap, AtZeroArc, Reset
<1>2. /\ stack # << >> /\ f = stack[Len(stack)] /\ Innermost(g, f, values, found)
      /\ Arc(f) = a /\ Arcs(f) = ArcsIn(g, f)
  BY <1>1, TopIs
<1>3. values = f.values
  BY <1>1, <1>2 DEF Innermost
<1>4. Inside(g, f)
  BY <1>1, <1>2, <1>3 DEF Inside, Passable, Passes
<1>5. <<a.to, f.values>> \in visited
  BY <1>1, <1>2 DEF Recorded
<1> HIDE DEF f, a
<1>6. a = ArcIn(g, f)
  BY DEF a
<1> QED
  BY <1>1, <1>2, <1>4, <1>5, <1>6, SearchTraps

LEMMA WiderSeq ==
    ASSUME NEW S, NEW T, S \subseteq T, NEW u \in Seq(S)
    PROVE  u \in Seq(T)
OBVIOUS

LEMMA SearchStarts ==
    ASSUME SearchInv, Ask
    PROVE  SearchInv'
<1> DEFINE h == Frame(0, 0)
<1>1. /\ stack = << >> /\ input' \in Inputs(g) /\ visited' = {} /\ stack' = <<h>>
      /\ answer' = "none" /\ UNCHANGED <<g, values, found>>
  BY DEF Ask, Idle
<1>2. g \in Graphs /\ IsGraph(g) /\ values = Neutral
  BY <1>1, GraphsAssumption DEF SearchInv
<1>3. input' \in Seq(Nat)
  <2>1. input' \in Seq(Nat \ Zero)
    BY <1>1, <1>2, FindLoopAssumption
  <2>2. Nat \ Zero \subseteq Nat
    OBVIOUS
  <2> QED
    BY <2>1, <2>2, WiderSeq
<1>4. /\ h.s = 0 /\ h.pos = 0 /\ h.step = "enter" /\ h.i = 1 /\ IsFrame(h)
  BY DEF Frame, IsFrame
<1> HIDE DEF h
<1>5. Conf(h, values) = Start
  BY <1>2, <1>4 DEF Conf, HasRead, Start
<1>6. Right(g, input', h, values)
  <2> DEFINE inp == input'
  <2>1. inp \in Seq(Nat)
    BY <1>3
  <2> HIDE DEF inp
  <2>2. 0 \in 0 .. g.n - 1 /\ 0 \in 0 .. Len(inp)
    BY <1>2, <2>1 DEF IsGraph
  <2>3. Placed(g, inp, h)
    BY <1>4, <2>2 DEF Placed, HasRead
  <2>4. Explored(g, inp, h) /\ DefaultsApart(g, inp, h)
    BY <1>4 DEF Explored, DefaultsApart
  <2>5. Met(g, inp, h, values)
    BY <1>5, FromHolds DEF Met
  <2>6. Right(g, inp, h, values)
    BY <2>3, <2>4, <2>5 DEF Right
  <2> QED
    BY <2>6 DEF inp
<1>7. stack' \in Seq({h}) /\ Len(stack') = 1 /\ stack'[1] = h /\ stack' # << >>
  BY <1>1
<1>8. CallsRight(g, input', stack', values)
  BY <1>6, <1>7 DEF CallsRight, IsSequence
<1>9. Innermost(g, h, values, found') /\ Recording(g, stack', {})
  BY <1>4 DEF Innermost, Untried, Tried, Recording
<1> QED
  BY <1>1, <1>2, <1>3, <1>5, <1>7, <1>8, <1>9 DEF SearchInv, Answering

LEMMA SearchInvHolds ==
    /\ Init => SearchInv
    /\ SearchInv /\ [Next]_vars => SearchInv'
<1>1. ASSUME Init PROVE SearchInv
  <2>1. CallsRight(g, << >>, << >>, values)
    BY DEF CallsRight, IsSequence
  <2>2. << >> \in Seq(Nat)
    OBVIOUS
  <2> QED
    BY <1>1, <2>1, <2>2 DEF Init, SearchInv, Answering
<1>2. ASSUME SearchInv, UNCHANGED vars PROVE SearchInv'
  BY <1>2 DEF SearchInv, vars
<1>3. ASSUME SearchInv, Next PROVE SearchInv'
  BY <1>3, SearchStarts, SearchEnters, SearchTakesZero, SearchGivesUp, SearchSkips,
     SearchReads, SearchTakesSymbol, SearchTriesDefault, SearchLeaves DEF Next, Step
<1> QED
  BY <1>1, <1>2, <1>3

-----------------------------------------------------------------------------
(* The theorems *)

\* Each question leaves the flag state of the object neutral, whether the search came to
\* its end, with every flag arc's values restored on the way back, or was left by the
\* throw from the innermost call.
THEOREM FlagsAreRestored == Spec => []FlagsRestored
<1>1. SearchInv => FlagsRestored
  BY DEF SearchInv, FlagsRestored, Idle
<1> QED
  BY <1>1, SearchInvHolds, PTL DEF Spec

\* The answer of find_loop is right for an input of the transducer's own symbols: "no"
\* is given only if no lookup of the input comes to a loop that reads nothing, whatever
\* the flags, and "yes", in a transducer without flags, only if one does.
THEOREM AnswersRight == Spec => [](Known(input) => AnswerIsRight)
<1>1. SearchInv => (Known(input) => AnswerIsRight)
  <2> SUFFICES ASSUME SearchInv, Known(input) PROVE AnswerIsRight
    OBVIOUS
  <2>1. IsGraph(g) /\ Len(input) \in Nat
    BY GraphsAssumption DEF SearchInv
  <2>2. LoopExists(g, input) <=> ~Safe(g, input, Start)
    BY <2>1, LoopIs
  <2>3. Answering(g, input, answer)
    BY DEF SearchInv
  <2> QED
    BY <2>2, <2>3 DEF AnswerIsRight, Answering
<1> QED
  BY <1>1, SearchInvHolds, PTL DEF Spec
==============================================================================
