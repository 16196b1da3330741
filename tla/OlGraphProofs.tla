---------------------------- MODULE OlGraphProofs ----------------------------
(***************************************************************************)
(* Lemmas about transducers as their readers see them, for the proofs      *)
(* about lookup and about the search for loops: which arcs a run of arcs   *)
(* holds, what flag operations leave, and what calls and returns do to a   *)
(* stack of calls.                                                         *)
(***************************************************************************)
EXTENDS OlGraph, FlattenProofs, FiniteSetTheorems, SequenceTheorems

\* A set of two.
LEMMA TwoElements ==
    ASSUME NEW x, NEW y, x # y
    PROVE  IsFiniteSet({x, y}) /\ Cardinality({x, y}) = 2
<1>1. IsFiniteSet({y}) /\ Cardinality({y}) = 1
  BY FS_Singleton
<1>2. IsFiniteSet({y} \cup {x}) /\ Cardinality({y} \cup {x}) = 1 + 1
  BY <1>1, FS_AddElement
<1>3. {y} \cup {x} = {x, y}
  OBVIOUS
<1> QED
  BY <1>2, <1>3

\* What a function makes of finitely many things is finitely many things.
LEMMA FiniteImage ==
    ASSUME NEW S, IsFiniteSet(S), NEW f
    PROVE  IsFiniteSet({f[x] : x \in S})
<1> DEFINE T == {f[x] : x \in S}
           h == [x \in S |-> f[x]]
<1>1. h \in Surjection(S, T)
  BY DEF Surjection
<1> HIDE DEF h, T
<1>2. IsFiniteSet(T)
  BY <1>1, FS_Surjection
<1> QED
  BY <1>2 DEF T

LEMMA FiniteUnion ==
    ASSUME NEW S, IsFiniteSet(S), NEW f, \A x \in S : IsFiniteSet(f[x])
    PROVE  IsFiniteSet(UNION {f[x] : x \in S})
<1> DEFINE T == {f[x] : x \in S}
<1>1. IsFiniteSet(T)
  BY FiniteImage
<1>2. \A t \in T : IsFiniteSet(t)
  OBVIOUS
<1> HIDE DEF T
<1>3. IsFiniteSet(UNION T)
  BY <1>1, <1>2, FS_UNION
<1> QED
  BY <1>3 DEF T

-----------------------------------------------------------------------------
(* The stack of calls *)

IsSequence(s) == \E S : s \in Seq(S)
Pushed(s, a, b) == Front(s) \o <<a, b>>
Retopped(s, a) == [s EXCEPT ![Len(s)] = a]
PoppedTo(s, a) == [Front(s) EXCEPT ![Len(s) - 1] = a]

\* A caller is replaced by itself with what it has saved, and its callee is added.
LEMMA PushEffect ==
    ASSUME NEW s, IsSequence(s), s # << >>, NEW a, NEW b
    PROVE  /\ IsSequence(Pushed(s, a, b))
           /\ Len(Pushed(s, a, b)) = Len(s) + 1
           /\ \A j \in 1 .. Len(s) - 1 : Pushed(s, a, b)[j] = s[j]
           /\ Pushed(s, a, b)[Len(s)] = a /\ Pushed(s, a, b)[Len(s) + 1] = b
<1> PICK S : s \in Seq(S)
  BY DEF IsSequence
<1> DEFINE T == S \cup {a, b}
<1>1. Front(s) \in Seq(T) /\ Len(Front(s)) = Len(s) - 1
      /\ \A j \in 1 .. Len(s) - 1 : Front(s)[j] = s[j]
  <2>1. Front(s) \in Seq(S) /\ Len(Front(s)) = Len(s) - 1
        /\ \A j \in 1 .. Len(s) - 1 : Front(s)[j] = s[j]
    <3>1. Len(s) \in Nat \ {0}
      OBVIOUS
    <3>2. \A j \in 1 .. Len(s) - 1 : s[j] \in S /\ 1 + j - 1 = j
      BY <3>1
    <3>3. /\ Front(s) \in Seq(S)
          /\ Len(Front(s)) = IF 1 <= Len(s) - 1 THEN Len(s) - 1 - 1 + 1 ELSE 0
          /\ \A j \in 1 .. Len(s) - 1 - 1 + 1 : Front(s)[j] = s[1 + j - 1]
      BY <3>1, <3>2, SubSeqProperties DEF Front
    <3>a. \A m \in Nat \ {0} : (IF 1 <= m - 1 THEN m - 1 - 1 + 1 ELSE 0) = m - 1
      OBVIOUS
    <3>4. (IF 1 <= Len(s) - 1 THEN Len(s) - 1 - 1 + 1 ELSE 0) = Len(s) - 1
      BY <3>1, <3>a
    <3>5. Len(s) - 1 - 1 + 1 = Len(s) - 1
      BY <3>1
    <3>6. Len(Front(s)) = Len(s) - 1
      BY <3>3, <3>4
    <3>7. \A j \in 1 .. Len(s) - 1 : Front(s)[j] = s[j]
      BY <3>2, <3>3, <3>5
    <3> QED
      BY <3>3, <3>6, <3>7
  <2>2. \A u \in Seq(S) : u \in Seq(T)
    OBVIOUS
  <2> QED
    BY <2>1, <2>2
<1>2. <<a, b>> \in Seq(T) /\ Len(<<a, b>>) = 2 /\ <<a, b>>[1] = a /\ <<a, b>>[2] = b
  OBVIOUS
<1>3. Len(s) \in Nat \ {0}
  OBVIOUS
<1> HIDE DEF T
<1>4. \A u, v \in Seq(T) :
        /\ u \o v \in Seq(T) /\ Len(u \o v) = Len(u) + Len(v)
        /\ \A j \in 1 .. Len(u) : (u \o v)[j] = u[j]
        /\ \A j \in 1 .. Len(v) : (u \o v)[Len(u) + j] = v[j]
  OBVIOUS
<1>5. /\ (Front(s) \o <<a, b>>)[Len(Front(s)) + 1] = a
      /\ (Front(s) \o <<a, b>>)[Len(Front(s)) + 2] = b
  BY <1>1, <1>2, <1>4
<1> QED
  BY <1>1, <1>2, <1>3, <1>4, <1>5 DEF Pushed, IsSequence

\* The innermost call is gone, and its caller replaced.
LEMMA PopEffect ==
    ASSUME NEW s, IsSequence(s), Len(s) > 1, NEW a
    PROVE  /\ IsSequence(PoppedTo(s, a)) /\ Len(PoppedTo(s, a)) = Len(s) - 1
           /\ \A j \in 1 .. Len(s) - 2 : PoppedTo(s, a)[j] = s[j]
           /\ PoppedTo(s, a)[Len(s) - 1] = a
<1> PICK S : s \in Seq(S)
  BY DEF IsSequence
<1>1. Front(s) \in Seq(S \cup {a}) /\ Len(Front(s)) = Len(s) - 1
      /\ \A j \in 1 .. Len(s) - 1 : Front(s)[j] = s[j]
  BY DEF Front
<1> QED
  BY <1>1 DEF PoppedTo, IsSequence

\* The innermost call is at another place.
LEMMA TopEffect ==
    ASSUME NEW s, IsSequence(s), s # << >>, NEW a
    PROVE  /\ IsSequence(Retopped(s, a)) /\ Len(Retopped(s, a)) = Len(s)
           /\ \A j \in 1 .. Len(s) - 1 : Retopped(s, a)[j] = s[j]
           /\ Retopped(s, a)[Len(s)] = a
<1> PICK S : s \in Seq(S)
  BY DEF IsSequence
<1>1. [s EXCEPT ![Len(s)] = a] \in Seq(S \cup {a})
  OBVIOUS
<1> QED
  BY <1>1 DEF IsSequence, Retopped

-----------------------------------------------------------------------------
(* The arcs of a state *)

\* A bounded set of natural numbers has a least and a greatest element.
LEMMA Extremes ==
    ASSUME NEW n \in Nat, NEW T \in SUBSET (1 .. n), T # {}
    PROVE  /\ Min(T) \in T /\ \A k \in T : Min(T) <= k
           /\ Max(T) \in T /\ \A k \in T : k <= Max(T)
<1>1. \E m \in T : \A k \in T : m <= k
  BY LeastElement
<1>2. \E m \in T : \A k \in T : m >= k
  <2> DEFINE above == {u \in Nat : \A k \in T : k <= u}
  <2>1. above # {} /\ above \in SUBSET Nat
    <3>1. n \in above
      OBVIOUS
    <3> QED
      BY <3>1
  <2> HIDE DEF above
  <2>2. PICK u \in above : \A k \in above : u <= k
    BY <2>1, LeastElement
  <2> USE DEF above
  <2>3. u \in T
    <3> SUFFICES ASSUME u \notin T PROVE FALSE
      OBVIOUS
    <3>1. PICK t \in T : TRUE
      OBVIOUS
    <3>2. \A k \in T : k <= u - 1
      OBVIOUS
    <3>3. u - 1 \in above
      BY <3>1, <3>2
    <3> QED
      BY <2>2, <3>3
  <2> QED
    BY <2>3
<1> QED
  BY <1>1, <1>2 DEF Min, Max

AnArc(gr, a) ==
    /\ a.in \in 0 .. ORIG_SYMBOL_COUNT - 1 /\ a.out \in 0 .. ORIG_SYMBOL_COUNT - 1
    /\ a.to \in 0 .. gr.n - 1 /\ a.w \in Nat

LEMMA ArcsAreArcs ==
    ASSUME NEW gr, IsGraph(gr), NEW s \in 0 .. gr.n - 1
    PROVE  /\ gr.arcs[s] \in Seq(Range(gr.arcs[s])) /\ Len(gr.arcs[s]) \in Nat
           /\ \A a \in Range(gr.arcs[s]) : AnArc(gr, a)
<1> DEFINE A == [in : 0 .. ORIG_SYMBOL_COUNT - 1, out : 0 .. ORIG_SYMBOL_COUNT - 1,
                 to : 0 .. gr.n - 1, w : Nat]
<1>1. gr.arcs[s] \in Seq(A)
  BY DEF IsGraph
<1>2. \A a \in A : AnArc(gr, a)
  BY DEF AnArc
<1> HIDE DEF A
<1>3. \A i \in 1 .. Len(gr.arcs[s]) : gr.arcs[s][i] \in A
  BY <1>1
<1>4. gr.arcs[s] = [i \in 1 .. Len(gr.arcs[s]) |-> gr.arcs[s][i]] /\ Len(gr.arcs[s]) \in Nat
  BY <1>1
<1>5. Range(gr.arcs[s]) \subseteq A
  BY <1>3, <1>4 DEF Range
<1>6. gr.arcs[s] \in Seq(Range(gr.arcs[s]))
  <2>1. \A i \in 1 .. Len(gr.arcs[s]) : gr.arcs[s][i] \in Range(gr.arcs[s])
    BY <1>4 DEF Range
  <2> QED
    BY <1>4, <2>1
<1> QED
  BY <1>2, <1>4, <1>5, <1>6

\* The places of the arcs with an input in X, for the sets the searches ask for.
Places(gr, s, X) == {i \in DOMAIN gr.arcs[s] : gr.arcs[s][i].in \in X}

\* The arcs of s with an input in X are next to each other.
Together(gr, s, X) ==
    \A i, j, k \in DOMAIN gr.arcs[s] :
      i < j /\ j < k /\ gr.arcs[s][i].in \in X /\ gr.arcs[s][k].in \in X =>
        gr.arcs[s][j].in \in X

\* A run of arcs next to each other holds the arcs with these inputs, and no others.
LEMMA RunOf ==
    ASSUME NEW gr, NEW s, gr.arcs[s] \in Seq(Range(gr.arcs[s])), NEW X, Together(gr, s, X)
    PROVE  /\ Run(gr, s, X) \in Seq(Range(gr.arcs[s]))
           /\ Len(Run(gr, s, X)) \in 0 .. Len(gr.arcs[s])
           /\ \A i \in 1 .. Len(Run(gr, s, X)) :
                /\ Run(gr, s, X)[i] \in Range(gr.arcs[s])
                /\ Run(gr, s, X)[i].in \in X
           /\ Run(gr, s, X) = << >> => \A a \in Range(gr.arcs[s]) : a.in \notin X
           /\ \A a \in Range(gr.arcs[s]) :
                a.in \in X => \E i \in 1 .. Len(Run(gr, s, X)) : Run(gr, s, X)[i] = a
<1> DEFINE arcs == gr.arcs[s]
           places == Places(gr, s, X)
           R == Range(arcs)
<1>1. arcs \in Seq(R) /\ Len(arcs) \in Nat
  OBVIOUS
<1>2. \A i, j, k \in DOMAIN arcs :
        i < j /\ j < k /\ arcs[i].in \in X /\ arcs[k].in \in X => arcs[j].in \in X
  BY DEF Together
<1> HIDE DEF arcs, R
<1>3. DOMAIN arcs = 1 .. Len(arcs) /\ \A i \in 1 .. Len(arcs) : arcs[i] \in R
  BY <1>1
<1>5. places \in SUBSET (1 .. Len(arcs))
  BY <1>3 DEF Places, arcs
<1>6. Run(gr, s, X) = IF places = {} THEN << >> ELSE SubSeq(arcs, Min(places), Max(places))
  BY DEF Run, Places, arcs
<1>7. \A i \in 1 .. Len(arcs) : i \in places <=> arcs[i].in \in X
  BY <1>3 DEF Places, arcs
<1>8. \A a \in R : \E i \in 1 .. Len(arcs) : a = arcs[i]
  BY <1>3 DEF R, Range
<1> HIDE DEF places
<1>9. CASE places = {}
  <2>1. Run(gr, s, X) = << >> /\ Len(Run(gr, s, X)) = 0 /\ << >> \in Seq(R)
    BY <1>6, <1>9
  <2>2. \A a \in R : a.in \notin X
    BY <1>7, <1>8, <1>9
  <2> QED
    BY <1>1, <2>1, <2>2 DEF arcs, R
<1>10. CASE places # {}
  <2> DEFINE lo == Min(places)
             hi == Max(places)
             run == SubSeq(arcs, lo, hi)
  <2>1. /\ lo \in places /\ hi \in places
        /\ \A k \in places : lo <= k /\ k <= hi
    BY <1>1, <1>5, <1>10, Extremes
  <2> HIDE DEF lo, hi
  <2>2. lo \in 1 .. Len(arcs) /\ hi \in 1 .. Len(arcs) /\ lo <= hi
    BY <1>5, <2>1
  <2>3. \A k \in lo .. hi : k \in 1 .. Len(arcs) /\ arcs[k].in \in X
    <3> SUFFICES ASSUME NEW k \in lo .. hi
                 PROVE  k \in 1 .. Len(arcs) /\ arcs[k].in \in X
      OBVIOUS
    <3>1. k \in 1 .. Len(arcs)
      BY <1>1, <2>2
    <3>2. arcs[lo].in \in X /\ arcs[hi].in \in X
      BY <1>7, <2>1, <2>2
    <3>3. CASE k = lo \/ k = hi
      BY <3>1, <3>2, <3>3
    <3>4. CASE k # lo /\ k # hi
      <4>1. lo < k /\ k < hi
        BY <1>1, <2>2, <3>4
      <4>2. lo \in DOMAIN arcs /\ k \in DOMAIN arcs /\ hi \in DOMAIN arcs
        BY <1>3, <2>2, <3>1
      <4> QED
        BY <1>2, <3>1, <3>2, <4>1, <4>2
    <3> QED
      BY <3>3, <3>4
  <2>4. /\ run \in Seq(R) /\ Len(run) = hi - lo + 1
        /\ \A i \in 1 .. hi - lo + 1 : run[i] = arcs[lo + i - 1]
    <3>1. \A k \in lo .. hi : arcs[k] \in R
      BY <1>3, <2>3
    <3> QED
      BY <1>1, <2>2, <3>1, SubSeqProperties
  <2>5. Run(gr, s, X) = run
    BY <1>6, <1>10 DEF lo, hi
  <2> HIDE DEF run
  <2>6. Len(run) \in 1 .. Len(arcs)
    BY <1>1, <2>2, <2>4
  <2>7. ASSUME NEW i \in 1 .. Len(run) PROVE run[i] \in R /\ run[i].in \in X
    <3>1. lo + i - 1 \in lo .. hi /\ run[i] = arcs[lo + i - 1]
      BY <1>1, <2>2, <2>4
    <3> QED
      BY <1>3, <2>3, <3>1
  <2>8. run # << >>
    BY <2>6
  <2>9. ASSUME NEW a \in R, a.in \in X PROVE \E i \in 1 .. Len(run) : run[i] = a
    <3>1. PICK k \in 1 .. Len(arcs) : a = arcs[k]
      BY <1>8
    <3>2. k \in places /\ lo <= k /\ k <= hi
      BY <1>7, <2>1, <2>9, <3>1
    <3>3. k - lo + 1 \in 1 .. hi - lo + 1 /\ lo + (k - lo + 1) - 1 = k
      BY <1>1, <2>2, <3>2
    <3>4. run[k - lo + 1] = a
      BY <2>4, <3>1, <3>3
    <3> QED
      BY <2>4, <3>3, <3>4
  <2> QED
    BY <1>1, <2>4, <2>5, <2>6, <2>7, <2>8, <2>9 DEF arcs, R
<1> QED
  BY <1>9, <1>10

\* The arcs with one input are together, and so are those with an epsilon or a flag.
LEMMA RunHolds ==
    ASSUME NEW gr, IsGraph(gr), NEW s \in 0 .. gr.n - 1, NEW X,
           X = Zero \/ \E x : X = {x}
    PROVE  /\ Run(gr, s, X) \in Seq(Range(gr.arcs[s]))
           /\ Len(Run(gr, s, X)) \in 0 .. Len(gr.arcs[s])
           /\ \A i \in 1 .. Len(Run(gr, s, X)) :
                /\ Run(gr, s, X)[i] \in Range(gr.arcs[s])
                /\ Run(gr, s, X)[i].in \in X
           /\ Run(gr, s, X) = << >> => \A a \in Range(gr.arcs[s]) : a.in \notin X
           /\ \A a \in Range(gr.arcs[s]) :
                a.in \in X => \E i \in 1 .. Len(Run(gr, s, X)) : Run(gr, s, X)[i] = a
<1> DEFINE arcs == gr.arcs[s]
<1>1. arcs \in Seq(Range(arcs)) /\ Len(arcs) \in Nat /\ \A a \in Range(arcs) : AnArc(gr, a)
  BY ArcsAreArcs
<1>2. \A i, j \in DOMAIN arcs :
        LET x == arcs[i].in
            y == arcs[j].in
        IN  i < j => \/ x \in Zero /\ y \notin Zero
                     \/ (x \in Zero <=> y \in Zero) /\ x <= y
  BY DEF IsGraph
<1>3. \A i \in DOMAIN arcs : arcs[i].in \in Nat
  <2>1. \A i \in DOMAIN arcs : arcs[i] \in Range(arcs)
    BY DEF Range
  <2> QED
    BY <1>1, <2>1, SymbolsAssumption DEF AnArc
<1> HIDE DEF arcs
<1>4. ASSUME NEW i \in DOMAIN arcs, NEW j \in DOMAIN arcs, NEW k \in DOMAIN arcs,
             i < j, j < k, arcs[i].in \in X, arcs[k].in \in X
      PROVE  arcs[j].in \in X
  <2> DEFINE x == arcs[i].in
             y == arcs[j].in
             z == arcs[k].in
  <2>1. /\ \/ x \in Zero /\ y \notin Zero
           \/ (x \in Zero <=> y \in Zero) /\ x <= y
        /\ \/ y \in Zero /\ z \notin Zero
           \/ (y \in Zero <=> z \in Zero) /\ y <= z
    BY <1>2, <1>4
  <2>2. x \in Nat /\ y \in Nat /\ z \in Nat /\ x \in X /\ z \in X
    BY <1>3, <1>4
  <2> HIDE DEF x, y, z
  <2>3. y \in X
    <3>1. CASE X = Zero
      BY <2>1, <2>2, <3>1
    <3>2. CASE \E u : X = {u}
      <4>1. x = z
        BY <2>2, <3>2
      <4>2. y = x
        BY <2>1, <2>2, <4>1
      <4> QED
        BY <2>2, <4>2
    <3> QED
      BY <3>1, <3>2
  <2> QED
    BY <2>3 DEF y
<1>5. Together(gr, s, X)
  BY <1>4 DEF Together, arcs
<1> QED
  BY <1>1, <1>5, RunOf DEF arcs

\* The searches find every arc of a state that they look for.
LEMMA ArcsHold ==
    ASSUME NEW gr, IsGraph(gr), NEW s \in 0 .. gr.n - 1
    PROVE  /\ Len(ZeroArcs(gr, s)) \in Nat
           /\ \A a \in Range(gr.arcs[s]) : a.in \in Zero =>
                \E i \in 1 .. Len(ZeroArcs(gr, s)) : ZeroArcs(gr, s)[i] = a
           /\ ZeroArcs(gr, s) # << >> => \E b \in Range(gr.arcs[s]) : b.in \in Zero
<1>1. Len(gr.arcs[s]) \in Nat
  BY ArcsAreArcs
<1> DEFINE X == Zero
           run == Run(gr, s, X)
<1>2. X = Zero /\ run = ZeroArcs(gr, s)
  BY DEF ZeroArcs
<1> HIDE DEF X
<1>3. X = Zero \/ \E x : X = {x}
  BY <1>2
<1>4. /\ run \in Seq(Range(gr.arcs[s])) /\ Len(run) \in 0 .. Len(gr.arcs[s])
      /\ \A i \in 1 .. Len(run) : run[i] \in Range(gr.arcs[s]) /\ run[i].in \in X
      /\ \A a \in Range(gr.arcs[s]) :
           a.in \in X => \E i \in 1 .. Len(run) : run[i] = a
  BY <1>3, RunHolds
<1> HIDE DEF run
<1>5. run # << >> => 1 \in 1 .. Len(run)
  BY <1>4
<1> QED
  BY <1>1, <1>2, <1>4, <1>5

LEMMA ArcsForHold ==
    ASSUME NEW gr, IsGraph(gr), NEW s \in 0 .. gr.n - 1, NEW y
    PROVE  /\ Len(ArcsFor(gr, s, y)) \in Nat
           /\ \A a \in Range(gr.arcs[s]) : a.in = y =>
                \E i \in 1 .. Len(ArcsFor(gr, s, y)) : ArcsFor(gr, s, y)[i] = a
<1>1. Len(gr.arcs[s]) \in Nat
  BY ArcsAreArcs
<1> DEFINE X == {y}
           run == Run(gr, s, X)
<1>2. (\E z : X = {z}) /\ run = ArcsFor(gr, s, y)
  BY DEF ArcsFor
<1>3. \A a \in Range(gr.arcs[s]) : a.in = y => a.in \in X
  OBVIOUS
<1> HIDE DEF X
<1>4. /\ Len(run) \in 0 .. Len(gr.arcs[s])
      /\ \A a \in Range(gr.arcs[s]) :
           a.in \in X => \E i \in 1 .. Len(run) : run[i] = a
  BY <1>2, RunHolds
<1> HIDE DEF run
<1> QED
  BY <1>1, <1>2, <1>3, <1>4

-----------------------------------------------------------------------------
(* Flag operations *)

\* An operation leaves the values of the features among those it is of.
LEMMA AppliedStays ==
    ASSUME NEW o \in Operations, NEW V, {0, o.value, -o.value} \subseteq V,
           NEW v \in [Features -> V]
    PROVE  Applied(o, v) \in [Features -> V]
<1>1. o.feature \in Features /\ o.op \in {"P", "N", "R", "D", "C", "U"}
  BY DEF Operations
<1>2. v[o.feature] \in V
  BY <1>1
<1> DEFINE new == CASE o.op = "P" -> o.value
                    [] o.op = "N" -> -o.value
                    [] o.op = "C" -> 0
                    [] o.op = "U" /\ Allows(o, v) -> o.value
                    [] OTHER -> v[o.feature]
<1>3. Applied(o, v) = [v EXCEPT ![o.feature] = new]
  BY DEF Applied
<1>4. new \in V
  <2>1. CASE o.op = "P"
    BY <2>1
  <2>2. CASE o.op = "N"
    BY <2>2
  <2>3. CASE o.op = "C"
    BY <2>3
  <2>4. CASE o.op = "U"
    BY <1>2, <2>4
  <2>5. CASE o.op \in {"R", "D"}
    BY <1>2, <2>5
  <2> QED
    BY <1>1, <2>1, <2>2, <2>3, <2>4, <2>5
<1> HIDE DEF new
<1> QED
  BY <1>1, <1>3, <1>4

LEMMA AppliedTyped ==
    ASSUME NEW o \in Operations, NEW v \in [Features -> Int]
    PROVE  Applied(o, v) \in [Features -> Int]
<1>1. o.value \in Nat
  BY DEF Operations
<1>2. {0, o.value, -o.value} \subseteq Int
  BY <1>1
<1> DEFINE V == Int
<1> HIDE DEF V
<1>3. {0, o.value, -o.value} \subseteq V /\ v \in [Features -> V]
  BY <1>2 DEF V
<1>4. Applied(o, v) \in [Features -> V]
  BY <1>3, AppliedStays
<1> QED
  BY <1>4 DEF V
==============================================================================
