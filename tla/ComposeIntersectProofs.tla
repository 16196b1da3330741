------------------------ MODULE ComposeIntersectProofs ------------------------
(***************************************************************************)
(* Theorems about the lazy composition, for every lexicon and every one or *)
(* two rules: its numbering and its agenda; then what it computes for a    *)
(* symbol, the arcs of either side, the merge of two rules and the cache   *)
(* of what it found; last, that it builds the product of the lexicon with  *)
(* the intersection of the rules, its steps being steps of                 *)
(* ComposeIntersectProduct.                                                *)
(***************************************************************************)
EXTENDS ComposeIntersect, FiniteSetTheorems, TLAPS

\* A vector of anything, in which nothing occurs twice.
Vector(v) == \E S : v \in Seq(S)
Distinct(v) == \A i, j \in DOMAIN v : v[i] = v[j] => i = j

\* get_state keeps a vector free of repetitions, and only ever adds to its end.
LEMMA WithKeeps ==
    ASSUME NEW v, Vector(v), Distinct(v), NEW e
    PROVE  /\ Vector(With(v, e)) /\ Distinct(With(v, e))
           /\ Len(v) \in Nat /\ DOMAIN v = 1 .. Len(v)
           /\ Len(With(v, e)) = IF e \in Range(v) THEN Len(v) ELSE Len(v) + 1
<1>1. PICK S : v \in Seq(S)
  BY DEF Vector
<1>2. Len(v) \in Nat /\ DOMAIN v = 1 .. Len(v)
  BY <1>1
<1>3. CASE e \in Range(v)
  BY <1>2, <1>3 DEF With
<1>4. CASE e \notin Range(v)
  <2> DEFINE T == S \cup {e}
             w == Append(v, e)
  <2>1. v \in Seq(T) /\ e \in T
    BY <1>1
  <2>2. /\ w \in Seq(T) /\ Len(w) = Len(v) + 1 /\ DOMAIN w = 1 .. Len(v) + 1
        /\ \A i \in 1 .. Len(v) : w[i] = v[i]
        /\ w[Len(v) + 1] = e
    BY <2>1, <1>2
  <2>3. \A i \in 1 .. Len(v) : v[i] # e
    BY <1>2, <1>4 DEF Range
  <2>4. Distinct(w)
    <3> SUFFICES ASSUME NEW i \in 1 .. Len(v) + 1, NEW j \in 1 .. Len(v) + 1, w[i] = w[j]
                 PROVE  i = j
      BY <2>2 DEF Distinct
    <3>1. CASE i \in 1 .. Len(v) /\ j \in 1 .. Len(v)
      BY <3>1, <2>2, <1>2 DEF Distinct
    <3>2. CASE i = Len(v) + 1 /\ j # Len(v) + 1
      BY <3>2, <2>2, <2>3, <1>2
    <3>3. CASE j = Len(v) + 1 /\ i # Len(v) + 1
      BY <3>3, <2>2, <2>3, <1>2
    <3> QED
      BY <3>1, <3>2, <3>3, <1>2
  <2> QED
    BY <1>2, <1>4, <2>2, <2>4 DEF With, Vector
<1> QED
  BY <1>3, <1>4

\* Without repetitions there are as many elements as positions.
LEMMA DistinctCount ==
    ASSUME NEW v, Vector(v), Distinct(v)
    PROVE  Cardinality(Range(v)) = Len(v)
<1>1. Len(v) \in Nat /\ DOMAIN v = 1 .. Len(v)
  BY DEF Vector
<1> DEFINE f == [i \in 1 .. Len(v) |-> v[i]]
<1>2. f \in Bijection(1 .. Len(v), Range(v))
  BY <1>1 DEF Bijection, Injection, IsInjective, Surjection, Range, Distinct
<1>3. ExistsBijection(1 .. Len(v), Range(v))
  BY <1>2 DEF ExistsBijection
<1> QED
  BY <1>1, <1>3, FS_CountingElements

-----------------------------------------------------------------------------
(* The numbering *)

Numbering ==
    /\ Vector(lexPairs) /\ Distinct(lexPairs)
    /\ Vector(rulePairs) /\ Distinct(rulePairs)

LEMMA NumberingInit == Init => Numbering
<1> SUFFICES ASSUME Init PROVE Numbering
  OBVIOUS
<1> DEFINE one == <<(<<0, 0>>)>>
<1>1. one \in Seq({<<0, 0>>}) /\ Distinct(one)
  BY DEF Distinct
<1> QED
  BY <1>1 DEF Init, Numbering, Vector

LEMMA NumberingStep == Numbering /\ [Next]_vars => Numbering'
<1> SUFFICES ASSUME Numbering, [Next]_vars
             PROVE  Numbering'
  OBVIOUS
<1> USE DEF Numbering, ruleVars, lexVars
<1>1. CASE UNCHANGED <<lexPairs, rulePairs>>
  BY <1>1 DEF Vector, Distinct
<1>2. CASE MergeEqual
  <2>1. UNCHANGED lexPairs /\ \E p : rulePairs' = With(rulePairs, p)
    BY <1>2 DEF MergeEqual
  <2> QED
    BY <2>1, WithKeeps DEF Vector, Distinct
<1>3. CASE AddArc
  <2>1. UNCHANGED rulePairs /\ lexPairs' = With(lexPairs, Head(todo).to)
    BY <1>3 DEF AddArc
  <2> QED
    BY <2>1, WithKeeps DEF Vector, Distinct
<1>4. Next \/ UNCHANGED vars => UNCHANGED <<lexPairs, rulePairs>> \/ MergeEqual \/ AddArc
  BY DEF Next, vars, ComputeState, SkipSymbol, ComputeTransitionSet, MergeSkip, MergeDone,
         Compose, SymbolDone, Finish
<1> QED
  BY <1>1, <1>2, <1>3, <1>4

LEMMA NumberingCounts == Numbering => PairsNumberedOnce
BY DistinctCount DEF Numbering, PairsNumberedOnce

\* No pair of states is numbered twice, neither by the rule pair nor by the
\* composition: the map and the vector of get_state stay each other's inverse.
THEOREM NumberedOnce == Spec => []PairsNumberedOnce
<1>1. Init => Numbering
  BY NumberingInit
<1>2. Numbering /\ [Next]_vars => Numbering'
  BY NumberingStep
<1>3. Numbering => PairsNumberedOnce
  BY NumberingCounts
<1> QED
  BY <1>1, <1>2, <1>3, PTL DEF Spec

-----------------------------------------------------------------------------
(* The agenda *)

\* The numbers from f on, below n.
Rest(f, n) == [i \in 1 .. n - f |-> f + i - 1]

LEMMA RestIsSequence ==
    ASSUME NEW f \in Nat, NEW n \in Nat, f <= n
    PROVE  /\ Rest(f, n) \in Seq(Nat) /\ Len(Rest(f, n)) = n - f
           /\ Rest(f, n) = << >> <=> f = n
           /\ f < n => Head(Rest(f, n)) = f
<1>1. Rest(f, n) \in Seq(Nat) /\ Len(Rest(f, n)) = n - f
  BY DEF Rest
<1>2. f < n => Rest(f, n)[1] = f
  BY DEF Rest
<1> QED
  BY <1>1, <1>2

LEMMA SameElements ==
    ASSUME NEW a \in Seq(Nat), NEW b \in Seq(Nat), Len(a) = Len(b),
           \A i \in 1 .. Len(a) : a[i] = b[i]
    PROVE  a = b
OBVIOUS

LEMMA RestTail ==
    ASSUME NEW f \in Nat, NEW n \in Nat, f < n
    PROVE  Tail(Rest(f, n)) = Rest(f + 1, n)
<1> DEFINE a == Rest(f, n)
           b == Rest(f + 1, n)
<1>1. f + 1 \in Nat /\ f + 1 <= n /\ n - (f + 1) = n - f - 1 /\ n - f - 1 \in Nat
  OBVIOUS
<1>2. a \in Seq(Nat) /\ Len(a) = n - f /\ b \in Seq(Nat) /\ Len(b) = n - f - 1
  <2>1. a \in Seq(Nat) /\ Len(a) = n - f
    BY <1>1 DEF Rest
  <2>2. b \in Seq(Nat) /\ Len(b) = n - f - 1
    BY <1>1 DEF Rest
  <2> QED
    BY <2>1, <2>2
<1>3. /\ Tail(a) \in Seq(Nat) /\ Len(Tail(a)) = n - f - 1
      /\ \A i \in 1 .. n - f - 1 : Tail(a)[i] = a[i + 1]
  BY <1>1, <1>2
<1>4. \A i \in 1 .. n - f - 1 : a[i + 1] = b[i]
  BY <1>1 DEF Rest
<1> HIDE DEF a, b
<1>5. Tail(a) = b
  BY <1>1, <1>2, <1>3, <1>4, SameElements
<1> QED
  BY <1>5 DEF a, b

LEMMA RestNotFromZero ==
    ASSUME NEW f \in Nat, NEW n \in Nat, f <= n, f # 0
    PROVE  ~(Rest(f, n) # << >> /\ Head(Rest(f, n)) = 0)
<1>1. CASE f = n
  BY <1>1, RestIsSequence
<1>2. CASE f < n
  BY <1>2, RestIsSequence
<1> QED
  BY <1>1, <1>2

LEMMA RestAppend ==
    ASSUME NEW f \in Nat, NEW n \in Nat, f <= n
    PROVE  Append(Rest(f, n), n) = Rest(f, n + 1)
<1> DEFINE a == Rest(f, n)
           b == Rest(f, n + 1)
<1>1. n + 1 \in Nat /\ f <= n + 1 /\ n - f \in Nat /\ n + 1 - f = n - f + 1
  OBVIOUS
<1>2. a \in Seq(Nat) /\ Len(a) = n - f /\ b \in Seq(Nat) /\ Len(b) = n - f + 1
  <2>1. a \in Seq(Nat) /\ Len(a) = n - f
    BY <1>1 DEF Rest
  <2>2. b \in Seq(Nat) /\ Len(b) = n - f + 1
    BY <1>1 DEF Rest
  <2> QED
    BY <2>1, <2>2
<1>3. /\ Append(a, n) \in Seq(Nat) /\ Len(Append(a, n)) = n - f + 1
      /\ \A i \in 1 .. n - f : Append(a, n)[i] = a[i]
      /\ Append(a, n)[n - f + 1] = n
  BY <1>1, <1>2
<1>4. /\ \A i \in 1 .. n - f : a[i] = b[i]
      /\ b[n - f + 1] = n
  BY <1>1 DEF Rest
<1> HIDE DEF a, b
<1>5. \A i \in 1 .. n - f + 1 : Append(a, n)[i] = b[i]
  BY <1>1, <1>3, <1>4
<1>6. Append(a, n) = b
  BY <1>1, <1>2, <1>3, <1>5, SameElements
<1> QED
  BY <1>6 DEF a, b

\* The least number not taken from the agenda: the state at hand has been taken,
\* unless it is the start state and nothing has.
FirstLeft == IF agenda # << >> /\ Head(agenda) = 0 THEN 0 ELSE state + 1

AgendaInv ==
    /\ state \in 0 .. Len(lexPairs) - 1
    /\ agenda = Rest(FirstLeft, Len(lexPairs))
    /\ pc # "next" => FirstLeft = state + 1
    /\ pc # "done" => \A a \in result : a.from \in Nat /\ a.from < FirstLeft

LEMMA AgendaInit == Init => AgendaInv
<1> SUFFICES ASSUME Init PROVE AgendaInv
  OBVIOUS
<1>1. Len(lexPairs) = 1 /\ agenda = <<0>> /\ state = 0 /\ result = {} /\ pc = "next"
  BY DEF Init
<1>2. <<0>> = Rest(0, 1)
  BY DEF Rest
<1> QED
  BY <1>1, <1>2 DEF AgendaInv, FirstLeft

LEMMA AgendaComputeState ==
    ASSUME Numbering, AgendaInv, ComputeState
    PROVE  AgendaInv'
<1> DEFINE n == Len(lexPairs)
           f == FirstLeft
<1>1. n \in Nat /\ state \in 0 .. n - 1 /\ f \in Nat /\ f <= n /\ agenda = Rest(f, n)
  BY WithKeeps DEF AgendaInv, FirstLeft, Numbering
<1>0. agenda # << >>
  BY DEF ComputeState
<1>2. f < n /\ Head(agenda) = f
  <2> HIDE DEF n, f
  <2>1. f # n
    BY <1>0, <1>1, RestIsSequence
  <2>2. f \in Nat /\ n \in Nat /\ f < n
    BY <1>1, <2>1
  <2>3. Head(Rest(f, n)) = f
    BY <2>2, RestIsSequence
  <2> QED
    BY <1>1, <2>2, <2>3
<1>3. state' = f /\ agenda' = Rest(f + 1, n)
  BY <1>1, <1>2, RestTail DEF ComputeState, Popped
<1>4. UNCHANGED <<lexPairs, result>> /\ pc' = "symbol" /\ pc = "next"
  BY DEF ComputeState
<1>5. FirstLeft' = f + 1
  <2> HIDE DEF n, f
  <2>1. f + 1 \in Nat /\ f + 1 <= n /\ f + 1 # 0
    BY <1>1, <1>2
  <2>2. ~(agenda' # << >> /\ Head(agenda') = 0)
    BY <1>1, <1>3, <2>1, RestNotFromZero
  <2> QED
    BY <1>3, <2>2 DEF FirstLeft
<1>6. \A a \in result : a.from \in Nat /\ a.from < f + 1
  BY <1>1, <1>4 DEF AgendaInv
<1> HIDE DEF f
<1> QED
  BY <1>1, <1>2, <1>3, <1>4, <1>5, <1>6 DEF AgendaInv

LEMMA AgendaAddArc ==
    ASSUME Numbering, AgendaInv, AddArc
    PROVE  AgendaInv'
<1> DEFINE n == Len(lexPairs)
           f == FirstLeft
           p == Head(todo).to
<1>1. n \in Nat /\ state \in 0 .. n - 1 /\ f = state + 1 /\ agenda = Rest(f, n)
  BY WithKeeps DEF AgendaInv, Numbering, AddArc
<1>2. lexPairs' = With(lexPairs, p) /\ agenda' = AgendaWith(p) /\ UNCHANGED <<state, pc>>
      /\ pc = "add"
  BY DEF AddArc
<1>3. Len(lexPairs') = IF p \in Range(lexPairs) THEN n ELSE n + 1
  BY <1>2, WithKeeps DEF Numbering
<1>4. agenda' = Rest(f, Len(lexPairs'))
  <2>1. f \in Nat /\ f <= n
    BY <1>1
  <2> HIDE DEF f
  <2> QED
    BY <1>1, <1>2, <1>3, <2>1, RestAppend DEF AgendaWith
<1>5. FirstLeft' = f
  <2>1. Len(lexPairs') \in Nat /\ f <= Len(lexPairs') /\ f # 0 /\ f \in Nat
    BY <1>1, <1>3
  <2> HIDE DEF f
  <2>2. ~(agenda' # << >> /\ Head(agenda') = 0)
    BY <1>4, <2>1, RestNotFromZero
  <2> QED
    BY <1>1, <1>2, <2>2 DEF FirstLeft
<1>6. \A a \in result' : a \in result \/ a.from = state
  BY DEF AddArc
<1>7. \A a \in result' : a.from \in Nat /\ a.from < f
  <2>1. \A a \in result : a.from \in Nat /\ a.from < f
    BY <1>2 DEF AgendaInv
  <2> QED
    BY <1>1, <1>6, <2>1
<1>8. state' \in 0 .. Len(lexPairs') - 1
  BY <1>1, <1>2, <1>3
<1> HIDE DEF f, n
<1> QED
  BY <1>1, <1>2, <1>4, <1>5, <1>7, <1>8 DEF AgendaInv

LEMMA AgendaFinish ==
    ASSUME Numbering, AgendaInv, Finish
    PROVE  AgendaInv'
<1>1. UNCHANGED <<lexPairs, agenda, state>> /\ agenda = << >> /\ pc' = "done"
  BY DEF Finish
<1>2. FirstLeft = state + 1 /\ FirstLeft' = FirstLeft
  BY <1>1 DEF FirstLeft
<1> QED
  BY <1>1, <1>2 DEF AgendaInv

LEMMA AgendaStep == Numbering /\ AgendaInv /\ [Next]_vars => AgendaInv'
<1> SUFFICES ASSUME Numbering, AgendaInv, [Next]_vars
             PROVE  AgendaInv'
  OBVIOUS
<1>1. CASE ComputeState
  BY <1>1, AgendaComputeState
<1>2. CASE AddArc
  BY <1>2, AgendaAddArc
<1>3. CASE Finish
  BY <1>3, AgendaFinish
<1>4. CASE UNCHANGED <<lexPairs, agenda, state, result>> /\ (pc # "next" \/ pc' = pc)
           /\ (pc' # "done" => pc # "done")
  <2>1. FirstLeft' = FirstLeft /\ Len(lexPairs') = Len(lexPairs)
    BY <1>4 DEF FirstLeft
  <2> QED
    BY <1>4, <2>1 DEF AgendaInv
<1>5. Next \/ UNCHANGED vars =>
        \/ ComputeState \/ AddArc \/ Finish
        \/ /\ UNCHANGED <<lexPairs, agenda, state, result>> /\ (pc # "next" \/ pc' = pc)
           /\ (pc' # "done" => pc # "done")
  BY DEF Next, vars, lexVars, SkipSymbol, ComputeTransitionSet, MergeEqual, MergeSkip,
         MergeDone, Compose, SymbolDone
<1> QED
  BY <1>1, <1>2, <1>3, <1>4, <1>5

LEMMA AgendaConclusion == AgendaInv => AgendaIsRest
BY DEF AgendaInv, AgendaIsRest, FirstLeft, Rest

\* Every state of the result is computed once, in the order of the numbers: what
\* is on the agenda is what is numbered and not yet computed, so that none is
\* left out when the agenda is empty.
THEOREM AgendaHoldsRest == Spec => []AgendaIsRest
<1>1. Init => Numbering /\ AgendaInv
  BY NumberingInit, AgendaInit
<1>2. Numbering /\ AgendaInv /\ [Next]_vars => (Numbering /\ AgendaInv)'
  BY NumberingStep, AgendaStep
<1>3. Numbering /\ AgendaInv => AgendaIsRest
  BY AgendaConclusion
<1> QED
  BY <1>1, <1>2, <1>3, PTL DEF Spec
-----------------------------------------------------------------------------
(* Vectors in order *)

\* below is a strict total order of the finite set S.
Orders(S, below) ==
    /\ IsFiniteSet(S)
    /\ \A a \in S : below[a] \subseteq S \ {a}
    /\ \A a, b \in S : a # b => a \in below[b] \/ b \in below[a]
    /\ \A a, b \in S : a \in below[b] => below[a] \subseteq below[b]

\* What comes earlier has the lesser rank.
LEMMA LesserRank ==
    ASSUME NEW S, NEW below, Orders(S, below), NEW a \in S, NEW b \in S, a \in below[b]
    PROVE  /\ Cardinality(below[a]) \in Nat /\ Cardinality(below[b]) \in Nat
           /\ Cardinality(below[a]) < Cardinality(below[b])
<1> DEFINE A == below[a]
           B == below[b]
<1>1. IsFiniteSet(S) /\ A \subseteq S \ {a} /\ B \subseteq S \ {b} /\ A \subseteq B
  BY DEF Orders
<1>2. IsFiniteSet(B) /\ Cardinality(B) \in Nat
  BY <1>1, FS_Subset, FS_CardinalityType
<1>3. IsFiniteSet(A) /\ Cardinality(A) \in Nat
  BY <1>1, FS_Subset, FS_CardinalityType
<1>4. Cardinality(A) <= Cardinality(B) /\ (Cardinality(B) = Cardinality(A) => B = A)
  BY <1>1, <1>2, FS_Subset
<1>5. a \in B /\ a \notin A
  BY <1>1
<1> HIDE DEF A, B
<1>6. Cardinality(A) < Cardinality(B)
  BY <1>2, <1>3, <1>4, <1>5
<1> QED
  BY <1>2, <1>3, <1>6 DEF A, B

\* InOrder lists every element once, and each after those below it.
LEMMA InOrderLists ==
    ASSUME NEW S, NEW below, Orders(S, below)
    PROVE  /\ Cardinality(S) \in Nat
           /\ InOrder(S, below) \in [1 .. Cardinality(S) -> S]
           /\ \A a \in S : \E i \in 1 .. Cardinality(S) : InOrder(S, below)[i] = a
           /\ \A i, j \in 1 .. Cardinality(S) :
                i < j => InOrder(S, below)[i] \in below[InOrder(S, below)[j]]
<1> DEFINE n == Cardinality(S)
           T == 0 .. n - 1
           rank == [a \in S |-> Cardinality(below[a])]
           v == InOrder(S, below)
<1>1. IsFiniteSet(S) /\ n \in Nat
  BY FS_CardinalityType DEF Orders
<1>2. ASSUME NEW a \in S
      PROVE  Cardinality(below[a]) \in T
  <2>1. below[a] \subseteq S /\ below[a] # S
    BY DEF Orders
  <2>2. /\ IsFiniteSet(below[a]) /\ Cardinality(below[a]) <= n
        /\ n = Cardinality(below[a]) => S = below[a]
    BY <1>1, <2>1, FS_Subset
  <2>3. Cardinality(below[a]) \in Nat
    BY <2>2, FS_CardinalityType
  <2>4. Cardinality(below[a]) # n
    BY <2>1, <2>2
  <2> QED
    BY <1>1, <2>2, <2>3, <2>4
<1>3. ASSUME NEW a \in S, NEW b \in S, rank[a] = rank[b]
      PROVE  a = b
  <2>1. Cardinality(below[a]) = Cardinality(below[b])
    BY <1>3
  <2>2. ~(a \in below[b]) /\ ~(b \in below[a])
    BY <2>1, LesserRank
  <2> QED
    BY <2>2 DEF Orders
<1>4. rank \in Injection(S, T)
  BY <1>2, <1>3 DEF Injection, IsInjective
<1>5. IsFiniteSet(T) /\ Cardinality(T) = n
  <2>1. 0 \in Int /\ n - 1 \in Int
    BY <1>1
  <2>2. IsFiniteSet(T) /\ Cardinality(T) = IF 0 > n - 1 THEN 0 ELSE n - 1 - 0 + 1
    BY <2>1, FS_Interval
  <2> QED
    BY <1>1, <2>2
<1>6. rank \in Surjection(S, T)
  BY <1>4, <1>5, FS_Injection
<1>7. \A t \in T : \E a \in S : rank[a] = t
  BY <1>6 DEF Surjection
<1>8. ASSUME NEW i \in 1 .. n
      PROVE  v[i] \in S /\ Cardinality(below[v[i]]) = i - 1
  <2>1. i - 1 \in T
    BY <1>1
  <2>2. \E e \in S : Cardinality(below[e]) = i - 1
    BY <2>1, <1>7
  <2>3. v[i] = CHOOSE e \in S : Cardinality(below[e]) = i - 1
    BY DEF InOrder
  <2> QED
    BY <2>2, <2>3
<1>9. v \in [1 .. n -> S]
  BY <1>8 DEF InOrder
<1>10. ASSUME NEW a \in S
       PROVE  \E i \in 1 .. n : v[i] = a
  <2> DEFINE i == Cardinality(below[a]) + 1
  <2>1. i \in 1 .. n
    BY <1>1, <1>2
  <2>2. v[i] \in S /\ Cardinality(below[v[i]]) = Cardinality(below[a])
    BY <1>1, <1>2, <1>8, <2>1
  <2>3. rank[v[i]] = rank[a]
    BY <2>2
  <2> QED
    BY <1>3, <2>1, <2>2, <2>3
<1>11. ASSUME NEW i \in 1 .. n, NEW j \in 1 .. n, i < j
       PROVE  v[i] \in below[v[j]]
  <2>1. v[i] \in S /\ v[j] \in S
    BY <1>8
  <2>2. Cardinality(below[v[i]]) = i - 1 /\ Cardinality(below[v[j]]) = j - 1
    BY <1>8
  <2>3. v[i] # v[j]
    BY <1>1, <1>11, <2>2
  <2>4. ~(v[j] \in below[v[i]])
    <3> SUFFICES ASSUME v[j] \in below[v[i]] PROVE FALSE
      OBVIOUS
    <3>1. Cardinality(below[v[j]]) < Cardinality(below[v[i]])
      BY <2>1, LesserRank
    <3> QED
      BY <1>1, <1>11, <2>2, <3>1
  <2> QED
    BY <2>1, <2>3, <2>4 DEF Orders
<1> QED
  BY <1>1, <1>9, <1>10, <1>11

-----------------------------------------------------------------------------
(* The machines *)

\* The outputs of a vector of arcs ascend.
Ascending(v) == \A i, j \in DOMAIN v : i < j => v[i].out < v[j].out

Arcs(m) == [in : Nat, out : Nat, to : 0 .. m.n - 1]

\* An image of a finite set is finite.
LEMMA SwappedFinite ==
    ASSUME NEW S, IsFiniteSet(S)
    PROVE  IsFiniteSet({Swap(a) : a \in S})
<1> DEFINE f == [a \in S |-> Swap(a)]
           T == {Swap(a) : a \in S}
<1>1. f \in Surjection(S, T)
  BY DEF Surjection
<1> QED
  BY <1>1, FS_Surjection

LEMMA SwapArc ==
    ASSUME NEW n, NEW a \in [in : Nat, out : Nat, to : 0 .. n]
    PROVE  /\ Swap(a) \in [in : Nat, out : Nat, to : 0 .. n]
           /\ Swap(a).in = a.out /\ Swap(a).out = a.in /\ Swap(a).to = a.to
BY DEF Swap

\* Inversion keeps a machine a machine, and a rule a rule.
LEMMA InvertedMachine ==
    ASSUME NEW m, IsMachine(m)
    PROVE  /\ IsMachine(Inverted(m)) /\ Inverted(m).n = m.n
           /\ \A s \in 0 .. m.n - 1 : Inverted(m).arcs[s] = {Swap(a) : a \in m.arcs[s]}
<1> DEFINE w == Inverted(m)
<1>1. /\ m.n \in Nat \ {0} /\ m.arcs \in [0 .. m.n - 1 -> SUBSET Arcs(m)]
      /\ DOMAIN m.arcs = 0 .. m.n - 1
  BY DEF IsMachine, Arcs
<1>2. /\ w.n = m.n /\ w.final = m.final /\ w.symbols = m.symbols
      /\ w.arcs = [s \in 0 .. m.n - 1 |-> {Swap(a) : a \in m.arcs[s]}]
  BY <1>1 DEF Inverted
<1>3. ASSUME NEW s \in 0 .. m.n - 1
      PROVE  /\ w.arcs[s] \subseteq Arcs(m) /\ IsFiniteSet(w.arcs[s])
             /\ \A b \in w.arcs[s] : {b.in, b.out} \subseteq m.symbols
  <2>1. w.arcs[s] = {Swap(a) : a \in m.arcs[s]} /\ m.arcs[s] \subseteq Arcs(m)
    BY <1>1, <1>2
  <2>2. IsFiniteSet(m.arcs[s]) /\ \A a \in m.arcs[s] : {a.in, a.out} \subseteq m.symbols
    BY DEF IsMachine
  <2>3. \A a \in m.arcs[s] : Swap(a) \in Arcs(m) /\ Swap(a).in = a.out /\ Swap(a).out = a.in
    BY <2>1, SwapArc DEF Arcs
  <2>4. IsFiniteSet(w.arcs[s])
    BY <2>1, <2>2, SwappedFinite
  <2> QED
    BY <2>1, <2>2, <2>3, <2>4
<1>4. w.arcs \in [0 .. m.n - 1 -> SUBSET Arcs(m)]
  BY <1>2, <1>3
<1>5. IsMachine(w)
  <2>1. m.final \subseteq 0 .. m.n - 1 /\ m.symbols \subseteq Nat /\ EPSILON \in m.symbols
    BY DEF IsMachine
  <2>2. w.arcs \in [0 .. m.n - 1 -> SUBSET [in : Nat, out : Nat, to : 0 .. m.n - 1]]
    BY <1>4 DEF Arcs
  <2> HIDE DEF w
  <2>3. w.n \in Nat \ {0} /\ w.final \subseteq 0 .. w.n - 1
    BY <1>1, <1>2, <2>1
  <2>4. w.arcs \in [0 .. w.n - 1 -> SUBSET [in : Nat, out : Nat, to : 0 .. w.n - 1]]
    BY <1>2, <2>2
  <2>5. w.symbols \subseteq Nat /\ EPSILON \in w.symbols
    BY <1>2, <2>1
  <2>6. \A s \in 0 .. w.n - 1 :
          IsFiniteSet(w.arcs[s]) /\ \A a \in w.arcs[s] : {a.in, a.out} \subseteq w.symbols
    <3>1. 0 .. w.n - 1 = 0 .. m.n - 1 /\ w.symbols = m.symbols
      BY <1>2
    <3> QED
      BY <1>3, <3>1
  <2> QED
    BY <2>3, <2>4, <2>5, <2>6, Zenon DEF IsMachine
<1> QED
  BY <1>2, <1>5

LEMMA InvertedRule ==
    ASSUME NEW m, IsRule(m)
    PROVE  IsRule(Inverted(m))
<1> DEFINE w == Inverted(m)
<1>1. IsMachine(m) /\ IsMachine(w) /\ w.n = m.n
      /\ \A s \in 0 .. m.n - 1 : w.arcs[s] = {Swap(a) : a \in m.arcs[s]}
  BY InvertedMachine DEF IsRule
<1>2. ASSUME NEW s \in 0 .. m.n - 1, NEW c \in w.arcs[s], NEW d \in w.arcs[s]
      PROVE  /\ (c.in = d.in /\ c.out = d.out) => c = d
             /\ ~(c.in = EPSILON /\ c.out = EPSILON)
             /\ c.in = IDENTITY <=> c.out = IDENTITY
  <2>1. PICK a \in m.arcs[s], b \in m.arcs[s] : c = Swap(a) /\ d = Swap(b)
    BY <1>1
  <2>2. a \in Arcs(m) /\ b \in Arcs(m)
    BY <1>1 DEF IsMachine, Arcs
  <2>3. /\ c.in = a.out /\ c.out = a.in /\ d.in = b.out /\ d.out = b.in
    BY <2>1, <2>2, SwapArc DEF Arcs
  <2>4. /\ (a.in = b.in /\ a.out = b.out) => a = b
        /\ ~(a.in = EPSILON /\ a.out = EPSILON)
        /\ a.in = IDENTITY <=> a.out = IDENTITY
    BY DEF IsRule
  <2> QED
    BY <2>1, <2>3, <2>4
<1> HIDE DEF w
<1>3. IsRule(w)
  BY <1>1, <1>2 DEF IsRule
<1> QED
  BY <1>3 DEF w

\* What a call composes: a lexicon without identities, and one or two rules.
LEMMA ProblemFacts ==
    ASSUME problem \in Problems
    PROVE  /\ IsMachine(Lexicon)
           /\ \A s \in 0 .. Lexicon.n - 1 : \A a \in Lexicon.arcs[s] : a.out # IDENTITY
           /\ Len(Rules) \in {1, 2} /\ DOMAIN Rules = 1 .. Len(Rules)
           /\ Len(problem.rules) = Len(Rules) /\ DOMAIN problem.rules = DOMAIN Rules
           /\ \A i \in DOMAIN Rules : IsRule(Rules[i])
           /\ problem.invert \in BOOLEAN
<1> DEFINE l == problem.lexicon
           q == problem.rules
<1>1. /\ IsMachine(l) /\ problem.invert \in BOOLEAN
      /\ \A s \in DOMAIN l.arcs : \A a \in l.arcs[s] : IDENTITY \notin {a.in, a.out}
      /\ q \in Seq({q[i] : i \in DOMAIN q})
      /\ Len(q) \in {1, 2} /\ \A i \in DOMAIN q : IsRule(q[i])
  BY ProblemsAssumption
<1>2. DOMAIN q = 1 .. Len(q) /\ DOMAIN l.arcs = 0 .. l.n - 1
  BY <1>1 DEF IsMachine
<1>3. CASE ~problem.invert
  BY <1>1, <1>2, <1>3 DEF Lexicon, Rules
<1>4. CASE problem.invert
  <2>1. Lexicon = Inverted(l) /\ Rules = [i \in DOMAIN q |-> Inverted(q[i])]
    BY <1>4 DEF Lexicon, Rules
  <2>2. /\ IsMachine(Lexicon) /\ Lexicon.n = l.n
        /\ \A s \in 0 .. l.n - 1 : Lexicon.arcs[s] = {Swap(a) : a \in l.arcs[s]}
    BY <1>1, <2>1, InvertedMachine
  <2>3. ASSUME NEW s \in 0 .. l.n - 1, NEW a \in Lexicon.arcs[s]
        PROVE  a.out # IDENTITY
    <3>1. PICK b \in l.arcs[s] : a = Swap(b)
      BY <2>2
    <3>2. b \in Arcs(l)
      BY <1>1 DEF IsMachine, Arcs
    <3>3. a.out = b.in
      BY <3>1, <3>2, SwapArc DEF Arcs
    <3> QED
      BY <1>1, <1>2, <3>3
  <2>4. DOMAIN Rules = DOMAIN q /\ \A i \in DOMAIN q : IsRule(Rules[i])
    BY <1>1, <2>1, InvertedRule
  <2>5. Len(Rules) = Len(q)
    BY <1>1, <1>2, <2>1
  <2> QED
    BY <1>1, <1>2, <2>2, <2>3, <2>4, <2>5
<1> QED
  BY <1>1, <1>3, <1>4
\* Arcs in the order of CompareTransitions.
LEMMA SortedLists ==
    ASSUME NEW n, NEW S \in SUBSET [in : Nat, out : Nat, to : 0 .. n], IsFiniteSet(S)
    PROVE  /\ Sorted(S) \in Seq(S) /\ DOMAIN Sorted(S) = 1 .. Len(Sorted(S))
           /\ \A a : a \in S <=> \E i \in 1 .. Len(Sorted(S)) : a = Sorted(S)[i]
           /\ \A i, j \in 1 .. Len(Sorted(S)) : i < j => Before(Sorted(S)[i], Sorted(S)[j])
<1> DEFINE below == [a \in S |-> {b \in S : Before(b, a)}]
           v == Sorted(S)
           k == Cardinality(S)
<1>1. v = InOrder(S, below)
  BY DEF Sorted
<1>2. Orders(S, below)
  <2>1. \A a \in S : a.in \in Nat /\ a.out \in Nat /\ a.to \in Int
    OBVIOUS
  <2>2. ASSUME NEW a \in S, NEW b \in S, a # b PROVE Before(a, b) \/ Before(b, a)
    <3>1. a.in # b.in \/ a.out # b.out \/ a.to # b.to
      BY <2>2
    <3> QED
      BY <2>1, <3>1 DEF Before
  <2>3. \A a \in S : ~Before(a, a)
    BY <2>1 DEF Before
  <2>4. \A a, b, c \in S : Before(a, b) /\ Before(b, c) => Before(a, c)
    BY <2>1 DEF Before
  <2> QED
    BY <2>2, <2>3, <2>4 DEF Orders
<1>3. /\ k \in Nat /\ v \in [1 .. k -> S]
      /\ \A a \in S : \E i \in 1 .. k : v[i] = a
      /\ \A i, j \in 1 .. k : i < j => v[i] \in below[v[j]]
  <2> HIDE DEF below
  <2> QED
    BY <1>1, <1>2, InOrderLists
<1> HIDE DEF v, k
<1>4. v \in Seq(S) /\ Len(v) = k /\ DOMAIN v = 1 .. k
  BY <1>3
<1>5. \A i, j \in 1 .. k : i < j => Before(v[i], v[j])
  BY <1>3
<1> QED
  BY <1>3, <1>4, <1>5 DEF v

\* What a machine reads for a symbol: its own arcs, or its identity arcs.
LEMMA TransitionsRead ==
    ASSUME NEW m, IsRule(m), NEW s \in 0 .. m.n - 1, NEW x \in Nat
    PROVE  /\ Transitions(m, s, x) \in Seq(Arcs(m))
           /\ DOMAIN Transitions(m, s, x) = 1 .. Len(Transitions(m, s, x))
           /\ \A a : a \in Promise!Reading(m, s, x) <=>
                       \E i \in 1 .. Len(Transitions(m, s, x)) : a = Transitions(m, s, x)[i]
           /\ Ascending(Transitions(m, s, x))
<1> DEFINE own == {a \in m.arcs[s] : a.in = x}
           readIdentity == {b \in m.arcs[s] : b.in = IDENTITY}
           Passing(a) == [in |-> x, out |-> x, to |-> a.to]
           identity == {Passing(a) : a \in readIdentity}
           S == IF own # {} \/ x \in m.symbols THEN own ELSE identity
           v == Sorted(S)
<1>1. /\ IsMachine(m) /\ m.arcs[s] \subseteq Arcs(m) /\ IsFiniteSet(m.arcs[s])
      /\ \A a \in m.arcs[s] : {a.in, a.out} \subseteq m.symbols
      /\ \A a, b \in m.arcs[s] :
           /\ (a.in = b.in /\ a.out = b.out) => a = b
           /\ a.in = IDENTITY <=> a.out = IDENTITY
  BY DEF IsRule, IsMachine, Arcs
<1>2. Transitions(m, s, x) = v
  BY DEF Transitions
<1>3. Promise!Reading(m, s, x) = S
  <2>1. own # {} => x \in m.symbols
    BY <1>1
  <2>2. Promise!Reading(m, s, x) = own \cup (IF x \in m.symbols THEN {} ELSE identity)
    BY DEF Promise!Reading
  <2> QED
    BY <2>1, <2>2
<1>4. S \subseteq Arcs(m) /\ \A a \in S : a.in = x
  BY <1>1 DEF Arcs
<1>5. \A a, b \in S : a.out = b.out => a = b
  <2>1. \A a, b \in own : a.out = b.out => a = b
    BY <1>1
  <2>2. \A a, b \in readIdentity : a = b
    BY <1>1
  <2>3. \A a, b \in identity : a = b
    BY <2>2
  <2> QED
    BY <2>1, <2>3
<1>6. IsFiniteSet(S)
  <2>1. IsFiniteSet(own) /\ IsFiniteSet(readIdentity)
    BY <1>1, FS_Subset
  <2>2. [a \in readIdentity |-> Passing(a)] \in Surjection(readIdentity, identity)
    BY DEF Surjection
  <2>3. IsFiniteSet(identity)
    BY <2>1, <2>2, FS_Surjection
  <2> QED
    BY <2>1, <2>3
<1> HIDE DEF S
<1>7. /\ v \in Seq(S) /\ DOMAIN v = 1 .. Len(v)
      /\ \A a : a \in S <=> \E i \in 1 .. Len(v) : a = v[i]
      /\ \A i, j \in 1 .. Len(v) : i < j => Before(v[i], v[j])
  BY <1>4, <1>6, SortedLists DEF Arcs
<1> HIDE DEF v
<1>8. ASSUME NEW i \in 1 .. Len(v), NEW j \in 1 .. Len(v), i < j
      PROVE  v[i].out < v[j].out
  <2>1. v[i] \in S /\ v[j] \in S /\ Before(v[i], v[j])
    BY <1>7, <1>8
  <2>2. v[i].in = v[j].in /\ v[i].in \in Nat /\ v[i].to \in Int
        /\ v[i].out \in Nat /\ v[j].out \in Nat
    BY <1>4, <2>1 DEF Arcs
  <2>3. v[i].out = v[j].out => v[i] = v[j]
    BY <1>5, <2>1
  <2> QED
    BY <2>1, <2>2, <2>3 DEF Before
<1>9. v \in Seq(Arcs(m)) /\ Ascending(v)
  BY <1>4, <1>7, <1>8 DEF Ascending
<1> QED
  BY <1>2, <1>3, <1>7, <1>9

-----------------------------------------------------------------------------
(* The intersection of the rules *)

LEMMA SameProblem == Promise!Rules = Rules /\ Promise!Lexicon = Lexicon
BY DEF Promise!Rules, Rules, Promise!Lexicon, Lexicon, Promise!Inverted, Inverted,
       Promise!Swap, Swap

\* With one rule the intersection is what the rule reads.
LEMMA IntersectionOfOne ==
    ASSUME problem \in Problems, ~Paired, NEW r, NEW x
    PROVE  \A e : e \in Promise!Intersection(r, x) <=>
             \E a \in Promise!Reading(Rules[1], r[1], x) :
               e = [out |-> a.out, to |-> <<a.to>>]
<1> DEFINE R == Promise!Reading(Rules[1], r[1], x)
           F == {h \in [{1} -> R] : \A i \in {1} : h[i] \in R /\ h[i].out = h[1].out}
           E(f) == [out |-> f[1].out, to |-> [i \in {1} |-> f[i].to]]
<1>1. DOMAIN Rules = {1}
  <2>1. Len(Rules) = 1 /\ DOMAIN Rules = 1 .. Len(Rules)
    BY ProblemFacts DEF Paired
  <2> QED
    BY <2>1
<1>2. Promise!Intersection(r, x) = {E(f) : f \in F}
  <2>1. UNION {Promise!Reading(Rules[i], r[i], x) : i \in {1}} = R
    OBVIOUS
  <2>2. \A i \in {1} : Promise!Reading(Rules[i], r[i], x) = R
    OBVIOUS
  <2>3. {h \in [{1} -> R] : \A i \in {1} : h[i] \in Promise!Reading(Rules[i], r[i], x)
                                             /\ h[i].out = h[1].out} = F
    BY <2>2
  <2> HIDE DEF R, F, E
  <2> QED
    BY <1>1, <2>1, <2>3, SameProblem DEF Promise!Intersection, E
<1>3. \A f \in F : f[1] \in R /\ E(f) = [out |-> f[1].out, to |-> <<f[1].to>>]
  <2> SUFFICES ASSUME NEW f \in F
               PROVE  f[1] \in R /\ E(f) = [out |-> f[1].out, to |-> <<f[1].to>>]
    OBVIOUS
  <2>1. [i \in {1} |-> f[i].to] = <<f[1].to>>
    OBVIOUS
  <2> QED
    BY <2>1
<1>4. \A a \in R : [i \in {1} |-> a] \in F
  OBVIOUS
<1>5. ASSUME NEW a \in R
      PROVE  \E f \in F : f[1] = a
  <2>1. [i \in {1} |-> a] \in F /\ [i \in {1} |-> a][1] = a
    BY <1>4
  <2> QED
    BY <2>1
<1> HIDE DEF R, F, E
<1>6. \A e : e \in {E(f) : f \in F} <=> \E a \in R : e = [out |-> a.out, to |-> <<a.to>>]
  BY <1>3, <1>5
<1> QED
  BY <1>2, <1>6 DEF R

\* With two rules it is the pairs of arcs that agree on the output.
LEMMA IntersectionOfTwo ==
    ASSUME problem \in Problems, Paired, NEW r, NEW x
    PROVE  \A e : e \in Promise!Intersection(r, x) <=>
             \E a \in Promise!Reading(Rules[1], r[1], x),
                b \in Promise!Reading(Rules[2], r[2], x) :
               a.out = b.out /\ e = [out |-> a.out, to |-> <<a.to, b.to>>]
<1> DEFINE R(i) == Promise!Reading(Rules[i], r[i], x)
           U == UNION {R(i) : i \in {1, 2}}
           F == {h \in [{1, 2} -> U] : \A i \in {1, 2} : h[i] \in R(i) /\ h[i].out = h[1].out}
           E(f) == [out |-> f[1].out, to |-> [i \in {1, 2} |-> f[i].to]]
<1>1. DOMAIN Rules = {1, 2}
  <2>1. Len(Rules) = 2 /\ DOMAIN Rules = 1 .. Len(Rules)
    BY ProblemFacts DEF Paired
  <2> QED
    BY <2>1
<1>2. Promise!Intersection(r, x) = {E(f) : f \in F}
  BY <1>1, SameProblem DEF Promise!Intersection
<1>3. ASSUME NEW f \in F
      PROVE  /\ f[1] \in R(1) /\ f[2] \in R(2) /\ f[1].out = f[2].out
             /\ E(f) = [out |-> f[1].out, to |-> <<f[1].to, f[2].to>>]
  <2>1. [i \in {1, 2} |-> f[i].to] = <<f[1].to, f[2].to>>
    OBVIOUS
  <2>2. f[1] \in R(1) /\ f[2] \in R(2) /\ f[2].out = f[1].out
    OBVIOUS
  <2> QED
    BY <2>1, <2>2
<1>4. ASSUME NEW a \in R(1), NEW b \in R(2), a.out = b.out
      PROVE  \E f \in F : f[1] = a /\ f[2] = b
  <2> DEFINE f == [i \in {1, 2} |-> IF i = 1 THEN a ELSE b]
  <2>1. R(1) \subseteq U /\ R(2) \subseteq U
    OBVIOUS
  <2>2. f[1] = a /\ f[2] = b
    OBVIOUS
  <2> HIDE DEF R, U
  <2>3. f \in [{1, 2} -> U]
    BY <2>1
  <2>4. f \in F
    BY <1>4, <2>2, <2>3
  <2> QED
    BY <2>2, <2>4
<1> HIDE DEF R, U, F, E
<1>5. \A e : e \in {E(f) : f \in F} <=>
        \E a \in R(1), b \in R(2) : a.out = b.out /\ e = [out |-> a.out, to |-> <<a.to, b.to>>]
  BY <1>3, <1>4
<1> QED
  BY <1>2, <1>5 DEF R
-----------------------------------------------------------------------------
(* The types, and what the merge and the cache hold *)

RuleNumbers == IF Paired THEN 0 .. Len(rulePairs) - 1 ELSE 0 .. Rules[1].n - 1
Targets == (0 .. Lexicon.n - 1) \X RuleNumbers
PairTransitions == [out : Nat, to : 0 .. Len(rulePairs) - 1]
AtState == pc \in {"symbol", "merge", "add"}

Types ==
    /\ problem \in Problems
    /\ pc \in {"next", "symbol", "merge", "add", "done"}
    /\ lexPairs \in Seq(Targets)
    /\ Paired => rulePairs \in Seq((0 .. Rules[1].n - 1) \X (0 .. Rules[2].n - 1))
    /\ AtState => symbols \in Seq([x : Nat, rule : BOOLEAN]) /\ symbols # << >>
    /\ pc = "add" => todo \in Seq([in : Nat, out : Nat, to : Targets])
    /\ result \subseteq [from : 0 .. Len(lexPairs) - 1, in : Nat, out : Nat,
                         to : 0 .. Len(lexPairs) - 1]
    /\ pc # "done" => finals = {}

\* The transitions two sets of arcs have in common.
Common(A, B) == {[out |-> p[1].out, to |-> <<p[1].to, p[2].to>>] :
                   p \in {q \in A \X B : q[1].out = q[2].out}}

\* Transitions of the pair, with what their targets stand for.
Seen(pairs, v) == {[out |-> v[i].out, to |-> pairs[v[i].to + 1]] : i \in DOMAIN v}

\* What has been matched and what the rests still have in common are together the
\* intersection asked for.
MergeInv ==
    pc = "merge" =>
        /\ Paired /\ ~Skips
        /\ left \in Seq(Arcs(Rules[1])) /\ right \in Seq(Arcs(Rules[2]))
        /\ Ascending(left) /\ Ascending(right)
        /\ matched \in Seq(PairTransitions)
        /\ Seen(rulePairs, matched) \cup Common(Range(left), Range(right))
             = Promise!Intersection(rulePairs[RuleState + 1], Head(symbols).x)

CacheInv ==
    /\ DOMAIN cache # {} => Paired
    /\ \A q \in DOMAIN cache :
         /\ q \in RuleNumbers \X Nat
         /\ cache[q] \in Seq(PairTransitions)
         /\ Seen(rulePairs, cache[q]) = Promise!Intersection(rulePairs[q[1] + 1], q[2])

\* The symbols of a lexicon state, and the rules' epsilons after them.
Entries(s) == {[x |-> a.out, rule |-> FALSE] : a \in Lexicon.arcs[s]}
              \cup {[x |-> EPSILON, rule |-> TRUE]}

-----------------------------------------------------------------------------
(* Vectors that grow, and vectors that are consumed *)

LEMMA SeqWider ==
    ASSUME NEW S, NEW T, S \subseteq T, NEW v \in Seq(S)
    PROVE  v \in Seq(T)
OBVIOUS

\* w is v with more at its end.
Extends(v, w) == Len(v) <= Len(w) /\ \A i \in 1 .. Len(v) : w[i] = v[i]

\* get_state keeps what is numbered, and returns the number of the element.
LEMMA WithExtends ==
    ASSUME NEW S, NEW v \in Seq(S), NEW e \in S
    PROVE  /\ With(v, e) \in Seq(S) /\ Extends(v, With(v, e))
           /\ NumberOf(With(v, e), e) \in 0 .. Len(With(v, e)) - 1
           /\ With(v, e)[NumberOf(With(v, e), e) + 1] = e
           /\ \A i \in 1 .. Len(With(v, e)) : i \in 1 .. Len(v) \/ With(v, e)[i] = e
<1> DEFINE w == With(v, e)
           k == NumberOf(w, e)
<1>1. Len(v) \in Nat /\ DOMAIN v = 1 .. Len(v)
  OBVIOUS
<1>2. /\ w \in Seq(S) /\ Extends(v, w)
      /\ \A i \in 1 .. Len(w) : i \in 1 .. Len(v) \/ w[i] = e
      /\ \E i \in 1 .. Len(w) : w[i] = e
  <2>1. CASE e \in Range(v)
    <3>1. w = v /\ \E i \in DOMAIN v : v[i] = e
      BY <2>1 DEF With, Range
    <3> QED
      BY <1>1, <3>1 DEF Extends
  <2>2. CASE e \notin Range(v)
    <3>1. w = Append(v, e)
      BY <2>2 DEF With
    <3>2. /\ w \in Seq(S) /\ Len(w) = Len(v) + 1 /\ w[Len(v) + 1] = e
          /\ \A i \in 1 .. Len(v) : w[i] = v[i]
      BY <1>1, <3>1
    <3> HIDE DEF w
    <3> QED
      BY <1>1, <3>2 DEF Extends
  <2> QED
    BY <2>1, <2>2
<1> HIDE DEF w
<1>3. DOMAIN w = 1 .. Len(w) /\ Len(w) \in Nat
  BY <1>2
<1>4. k + 1 \in DOMAIN w /\ w[k + 1] = e
  <2> DEFINE c == CHOOSE i \in DOMAIN w : w[i] = e
  <2>1. c \in DOMAIN w /\ w[c] = e
    BY <1>2, <1>3
  <2>2. k = c - 1
    BY DEF NumberOf
  <2> HIDE DEF c, k
  <2>3. k + 1 = c
    BY <1>3, <2>1, <2>2
  <2> QED
    BY <2>1, <2>3
<1>5. k \in 0 .. Len(w) - 1
  <2>1. k = (CHOOSE i \in DOMAIN w : w[i] = e) - 1 /\ (CHOOSE i \in DOMAIN w : w[i] = e) \in DOMAIN w
    BY <1>2, <1>3 DEF NumberOf
  <2> HIDE DEF k
  <2> QED
    BY <1>3, <2>1
<1> QED
  BY <1>2, <1>4, <1>5 DEF w

\* The first element and the others.
LEMMA HeadAndTail ==
    ASSUME NEW S, NEW v \in Seq(S), v # << >>
    PROVE  /\ Head(v) \in S /\ Tail(v) \in Seq(S) /\ Head(v) = v[1]
           /\ Len(v) \in Nat \ {0} /\ Len(Tail(v)) = Len(v) - 1
           /\ \A i \in 1 .. Len(v) - 1 : Tail(v)[i] = v[i + 1]
           /\ Range(v) = {Head(v)} \cup Range(Tail(v)) /\ Range(Tail(v)) \subseteq S
           /\ DOMAIN v = 1 .. Len(v) /\ DOMAIN Tail(v) = 1 .. Len(v) - 1
<1>1. /\ Head(v) \in S /\ Tail(v) \in Seq(S) /\ Head(v) = v[1]
      /\ Len(v) \in Nat \ {0} /\ Len(Tail(v)) = Len(v) - 1
      /\ \A i \in 1 .. Len(v) - 1 : Tail(v)[i] = v[i + 1]
  OBVIOUS
<1>2. DOMAIN v = 1 .. Len(v) /\ DOMAIN Tail(v) = 1 .. Len(v) - 1
  BY <1>1
<1>3. ASSUME NEW a
      PROVE  a \in Range(v) <=> a = Head(v) \/ a \in Range(Tail(v))
  <2>1. ASSUME a \in Range(v) PROVE a = Head(v) \/ a \in Range(Tail(v))
    <3>1. PICK i \in 1 .. Len(v) : a = v[i]
      BY <1>2, <2>1 DEF Range
    <3>2. CASE i = 1
      BY <1>1, <3>1, <3>2
    <3>3. CASE i # 1
      <4>1. i - 1 \in 1 .. Len(v) - 1 /\ (i - 1) + 1 = i
        BY <1>1, <3>3
      <4>2. Tail(v)[i - 1] = v[i]
        BY <1>1, <4>1
      <4> QED
        BY <1>2, <3>1, <4>1, <4>2 DEF Range
    <3> QED
      BY <3>2, <3>3
  <2>2. ASSUME a = Head(v) PROVE a \in Range(v)
    BY <1>1, <1>2, <2>2 DEF Range
  <2>3. ASSUME a \in Range(Tail(v)) PROVE a \in Range(v)
    <3>1. PICK i \in 1 .. Len(v) - 1 : a = Tail(v)[i]
      BY <1>2, <2>3 DEF Range
    <3>2. i + 1 \in 1 .. Len(v) /\ a = v[i + 1]
      BY <1>1, <3>1
    <3> QED
      BY <1>2, <3>2 DEF Range
  <2> QED
    BY <2>1, <2>2, <2>3
<1>4. Range(Tail(v)) \subseteq S
  <2> DEFINE t == Tail(v)
  <2>1. t \in Seq(S)
    BY <1>1
  <2> HIDE DEF t
  <2>2. Range(t) \subseteq S
    BY <2>1 DEF Range
  <2> QED
    BY <2>2 DEF t
<1> QED
  BY <1>1, <1>2, <1>3, <1>4

\* Of ascending arcs the first has the least output.
LEMMA AscendingTail ==
    ASSUME NEW S, NEW v \in Seq(S), v # << >>, Ascending(v)
    PROVE  Ascending(Tail(v)) /\ \A a \in Range(Tail(v)) : Head(v).out < a.out
<1> DEFINE t == Tail(v)
<1>1. /\ Head(v) = v[1] /\ Len(v) \in Nat \ {0}
      /\ \A i \in 1 .. Len(v) - 1 : t[i] = v[i + 1]
      /\ DOMAIN v = 1 .. Len(v) /\ DOMAIN t = 1 .. Len(v) - 1
  BY HeadAndTail
<1> HIDE DEF t
<1>2. Ascending(t)
  <2> SUFFICES ASSUME NEW i \in 1 .. Len(v) - 1, NEW j \in 1 .. Len(v) - 1, i < j
               PROVE  t[i].out < t[j].out
    BY <1>1 DEF Ascending
  <2>1. i + 1 \in DOMAIN v /\ j + 1 \in DOMAIN v /\ i + 1 < j + 1
    BY <1>1
  <2> QED
    BY <1>1, <2>1 DEF Ascending
<1>3. ASSUME NEW a \in Range(t)
      PROVE  Head(v).out < a.out
  <2>1. PICK i \in 1 .. Len(v) - 1 : a = t[i]
    BY <1>1 DEF Range
  <2>2. i + 1 \in DOMAIN v /\ 1 \in DOMAIN v /\ 1 < i + 1 /\ a = v[i + 1]
    BY <1>1, <2>1
  <2> QED
    BY <1>1, <2>2 DEF Ascending
<1> QED
  BY <1>2, <1>3 DEF t

LEMMA InCommon ==
    \A A, B, e : e \in Common(A, B) <=>
      \E a \in A, b \in B : a.out = b.out /\ e = [out |-> a.out, to |-> <<a.to, b.to>>]
<1> TAKE A, B, e
<1>1. ASSUME e \in Common(A, B)
      PROVE  \E a \in A, b \in B : a.out = b.out /\ e = [out |-> a.out, to |-> <<a.to, b.to>>]
  <2>1. PICK p \in A \X B : p[1].out = p[2].out
                            /\ e = [out |-> p[1].out, to |-> <<p[1].to, p[2].to>>]
    BY <1>1 DEF Common
  <2> QED
    BY <2>1
<1>2. ASSUME NEW a \in A, NEW b \in B, a.out = b.out,
             e = [out |-> a.out, to |-> <<a.to, b.to>>]
      PROVE  e \in Common(A, B)
  <2> DEFINE p == <<a, b>>
  <2>1. p \in {q \in A \X B : q[1].out = q[2].out} /\ p[1] = a /\ p[2] = b
    BY <1>2
  <2> HIDE DEF p
  <2> QED
    BY <1>2, <2>1 DEF Common
<1> QED
  BY <1>1, <1>2

\* The heads of two ascending vectors agree: that is one common transition, and the
\* others are those of the rests.
LEMMA CommonHeads ==
    ASSUME NEW S, NEW T, \A a \in S \cup T : a.out \in Nat,
           NEW v \in Seq(S), NEW w \in Seq(T), v # << >>, w # << >>,
           Ascending(v), Ascending(w), Head(v).out = Head(w).out
    PROVE  Common(Range(v), Range(w)) =
             {[out |-> Head(v).out, to |-> <<Head(v).to, Head(w).to>>]}
             \cup Common(Range(Tail(v)), Range(Tail(w)))
<1> DEFINE V == Range(Tail(v))
           W == Range(Tail(w))
           h == [out |-> Head(v).out, to |-> <<Head(v).to, Head(w).to>>]
<1>1. Range(v) = {Head(v)} \cup V /\ Head(v) \in S /\ V \subseteq S
  BY HeadAndTail
<1>2. Range(w) = {Head(w)} \cup W /\ Head(w) \in T /\ W \subseteq T
  BY HeadAndTail
<1>3. (\A a \in V : Head(v).out < a.out) /\ (\A b \in W : Head(w).out < b.out)
  BY AscendingTail
<1>4. \A a \in V : a.out # Head(w).out
  BY <1>1, <1>3
<1>5. \A b \in W : b.out # Head(v).out
  BY <1>2, <1>3
<1> HIDE DEF V, W
<1>6. ASSUME NEW e
      PROVE  e \in Common(Range(v), Range(w)) <=> e = h \/ e \in Common(V, W)
  <2>1. ASSUME e \in Common(Range(v), Range(w)) PROVE e = h \/ e \in Common(V, W)
    <3>1. PICK a \in Range(v), b \in Range(w) :
            a.out = b.out /\ e = [out |-> a.out, to |-> <<a.to, b.to>>]
      BY <2>1, InCommon
    <3>2. CASE a = Head(v) /\ b = Head(w)
      BY <3>1, <3>2
    <3>3. CASE a \in V /\ b \in W
      BY <3>1, <3>3, InCommon
    <3>4. ~(a = Head(v) /\ b \in W) /\ ~(a \in V /\ b = Head(w))
      BY <1>4, <1>5, <3>1
    <3> QED
      BY <1>1, <1>2, <3>2, <3>3, <3>4
  <2>2. ASSUME e = h PROVE e \in Common(Range(v), Range(w))
    <3>1. Head(v) \in Range(v) /\ Head(w) \in Range(w)
      BY <1>1, <1>2
    <3> QED
      BY <2>2, <3>1, InCommon
  <2>3. ASSUME e \in Common(V, W) PROVE e \in Common(Range(v), Range(w))
    <3>1. PICK a \in V, b \in W :
            a.out = b.out /\ e = [out |-> a.out, to |-> <<a.to, b.to>>]
      BY <2>3, InCommon
    <3>2. a \in Range(v) /\ b \in Range(w)
      BY <1>1, <1>2
    <3> QED
      BY <3>1, <3>2, InCommon
  <2> QED
    BY <2>1, <2>2, <2>3
<1> QED
  BY <1>6 DEF V, W

\* The lesser of two heads has nothing in common with the other vector.
LEMMA CommonSkip ==
    ASSUME NEW S, NEW T, \A a \in S \cup T : a.out \in Nat,
           NEW v \in Seq(S), NEW w \in Seq(T), v # << >>, w # << >>,
           Ascending(v), Ascending(w), Head(v).out < Head(w).out
    PROVE  /\ Common(Range(v), Range(w)) = Common(Range(Tail(v)), Range(w))
           /\ Common(Range(w), Range(v)) = Common(Range(w), Range(Tail(v)))
<1> DEFINE V == Range(Tail(v))
           W == Range(w)
<1>1. Range(v) = {Head(v)} \cup V /\ Head(v) \in S
  BY HeadAndTail
<1>2. W = {Head(w)} \cup Range(Tail(w)) /\ Head(w) \in T /\ Range(Tail(w)) \subseteq T
  BY HeadAndTail
<1>3. \A b \in Range(Tail(w)) : Head(w).out < b.out
  BY AscendingTail
<1>4. \A b \in W : b.out # Head(v).out
  BY <1>1, <1>2, <1>3
<1> HIDE DEF V, W
<1>5. \A e : e \in Common(Range(v), W) <=> e \in Common(V, W)
  BY <1>1, <1>4, InCommon
<1>6. \A e : e \in Common(W, Range(v)) <=> e \in Common(W, V)
  BY <1>1, <1>4, InCommon
<1>7. Common(Range(v), W) = Common(V, W) /\ Common(W, Range(v)) = Common(W, V)
  BY <1>5, <1>6
<1> QED
  BY <1>7 DEF V, W
-----------------------------------------------------------------------------
(* The state at hand *)

IInv == Numbering /\ AgendaInv /\ Types /\ MergeInv /\ CacheInv

LEMMA StateFacts ==
    ASSUME AgendaInv, Types
    PROVE  /\ Len(lexPairs) \in Nat /\ DOMAIN lexPairs = 1 .. Len(lexPairs)
           /\ state \in 0 .. Len(lexPairs) - 1
           /\ lexPairs[state + 1] = <<LexState, RuleState>>
           /\ LexState \in 0 .. Lexicon.n - 1 /\ RuleState \in RuleNumbers
           /\ AtState => Head(symbols) \in [x : Nat, rule : BOOLEAN]
           /\ FirstLeft \in Nat /\ FirstLeft <= Len(lexPairs)
<1>1. lexPairs \in Seq(Targets) /\ state \in 0 .. Len(lexPairs) - 1
  BY DEF Types, AgendaInv
<1>2. state + 1 \in 1 .. Len(lexPairs) /\ DOMAIN lexPairs = 1 .. Len(lexPairs)
  BY <1>1
<1>3. lexPairs[state + 1] \in Targets
  BY <1>1, <1>2
<1>4. AtState => symbols \in Seq([x : Nat, rule : BOOLEAN]) /\ symbols # << >>
  BY DEF Types
<1>5. AtState => Head(symbols) \in [x : Nat, rule : BOOLEAN]
  BY <1>4, HeadAndTail
<1>6. FirstLeft \in Nat /\ FirstLeft <= Len(lexPairs)
  BY <1>1 DEF FirstLeft
<1> QED
  BY <1>1, <1>2, <1>3, <1>5, <1>6 DEF Targets, LexState, RuleState

\* The pair behind a state of the rule pair.
LEMMA PairFacts ==
    ASSUME Types, Paired, NEW r \in RuleNumbers
    PROVE  /\ IsRule(Rules[1]) /\ IsRule(Rules[2])
           /\ Len(rulePairs) \in Nat /\ r \in 0 .. Len(rulePairs) - 1
           /\ rulePairs[r + 1][1] \in 0 .. Rules[1].n - 1
           /\ rulePairs[r + 1][2] \in 0 .. Rules[2].n - 1
           /\ rulePairs[r + 1] = <<rulePairs[r + 1][1], rulePairs[r + 1][2]>>
<1>1. rulePairs \in Seq((0 .. Rules[1].n - 1) \X (0 .. Rules[2].n - 1))
  BY DEF Types
<1>2. r \in 0 .. Len(rulePairs) - 1
  BY DEF RuleNumbers
<1>3. rulePairs[r + 1] \in (0 .. Rules[1].n - 1) \X (0 .. Rules[2].n - 1)
  <2>1. r + 1 \in 1 .. Len(rulePairs) /\ Len(rulePairs) \in Nat
    BY <1>1, <1>2
  <2> QED
    BY <1>1, <2>1
<1>4. IsRule(Rules[1]) /\ IsRule(Rules[2])
  <2>1. Len(Rules) = 2 /\ DOMAIN Rules = 1 .. Len(Rules) /\ \A i \in DOMAIN Rules : IsRule(Rules[i])
    BY ProblemFacts DEF Types, Paired
  <2> QED
    BY <2>1
<1> QED
  BY <1>1, <1>2, <1>3, <1>4

LEMMA OneRuleFacts ==
    ASSUME Types, ~Paired
    PROVE  IsRule(Rules[1]) /\ RuleNumbers = 0 .. Rules[1].n - 1 /\ DOMAIN Rules = {1}
<1>1. Len(Rules) = 1 /\ DOMAIN Rules = 1 .. Len(Rules) /\ \A i \in DOMAIN Rules : IsRule(Rules[i])
  BY ProblemFacts DEF Types, Paired
<1> QED
  BY <1>1 DEF RuleNumbers

LEMMA LexArcsList ==
    ASSUME AgendaInv, Types, AtState
    PROVE  /\ LexArcs \in Seq(Arcs(Lexicon)) /\ DOMAIN LexArcs = 1 .. Len(LexArcs)
           /\ \A a : a \in {c \in Lexicon.arcs[LexState] : c.out = Head(symbols).x} <=>
                       \E i \in 1 .. Len(LexArcs) : a = LexArcs[i]
<1> DEFINE S == {a \in Lexicon.arcs[LexState] : a.out = Head(symbols).x}
           k == Lexicon.n - 1
<1>1. IsMachine(Lexicon) /\ LexState \in 0 .. Lexicon.n - 1
  BY ProblemFacts, StateFacts DEF Types
<1>2. S \in SUBSET [in : Nat, out : Nat, to : 0 .. k] /\ IsFiniteSet(Lexicon.arcs[LexState])
  BY <1>1 DEF IsMachine
<1>3. IsFiniteSet(S)
  BY <1>2, FS_Subset
<1>4. LexArcs = Sorted(S)
  BY DEF LexArcs
<1> HIDE DEF S, k
<1>5. /\ LexArcs \in Seq(S) /\ DOMAIN LexArcs = 1 .. Len(LexArcs)
      /\ \A a : a \in S <=> \E i \in 1 .. Len(LexArcs) : a = LexArcs[i]
  BY <1>2, <1>3, <1>4, SortedLists, ZenonT(40)
<1>6. S \subseteq Arcs(Lexicon)
  BY <1>2 DEF Arcs, k
<1>7. LexArcs \in Seq(Arcs(Lexicon))
  BY <1>5, <1>6, SeqWider
<1> QED
  BY <1>5, <1>7 DEF S

\* The first state of either vector is the pair of start states.
LEMMA TypesInit == Init => Types
<1> SUFFICES ASSUME Init PROVE Types
  OBVIOUS
<1> DEFINE one == <<(<<0, 0>>)>>
<1>1. problem \in Problems
  BY DEF Init
<1>2. IsMachine(Lexicon) /\ 0 \in 0 .. Lexicon.n - 1
  BY <1>1, ProblemFacts DEF IsMachine
<1>3. \A i \in DOMAIN Rules : 0 \in 0 .. Rules[i].n - 1
  BY <1>1, ProblemFacts DEF IsRule, IsMachine
<1>4. DOMAIN Rules = 1 .. Len(Rules) /\ Len(Rules) \in {1, 2}
  BY <1>1, ProblemFacts
<1>5. 0 \in 0 .. Rules[1].n - 1 /\ (Paired => 0 \in 0 .. Rules[2].n - 1)
  BY <1>3, <1>4 DEF Paired
<1>6. lexPairs = one /\ rulePairs = one /\ Len(one) = 1
  BY DEF Init
<1>7. 0 \in RuleNumbers
  BY <1>5, <1>6 DEF RuleNumbers
<1>8. lexPairs \in Seq(Targets)
  BY <1>2, <1>6, <1>7 DEF Targets
<1>9. Paired => rulePairs \in Seq((0 .. Rules[1].n - 1) \X (0 .. Rules[2].n - 1))
  BY <1>5, <1>6
<1>10. pc = "next" /\ result = {} /\ finals = {}
  BY DEF Init
<1> QED
  BY <1>1, <1>8, <1>9, <1>10 DEF Types, AtState

LEMMA MergeCacheInit == Init => MergeInv /\ CacheInv
<1> SUFFICES ASSUME Init PROVE MergeInv /\ CacheInv
  OBVIOUS
<1>1. pc = "next" /\ DOMAIN cache = {}
  BY DEF Init
<1> QED
  BY <1>1 DEF MergeInv, CacheInv

\* A step of the lexicon that leaves the rules alone and numbers nothing.
LEMMA Frame ==
    ASSUME UNCHANGED <<problem, rulePairs>>
    PROVE  /\ Lexicon' = Lexicon /\ Rules' = Rules /\ Paired' = Paired
           /\ RuleNumbers' = RuleNumbers /\ Targets' = Targets
           /\ PairTransitions' = PairTransitions
           /\ \A r, x : Promise!Intersection(r, x)' = Promise!Intersection(r, x)
<1>1. Lexicon' = Lexicon /\ Rules' = Rules /\ Paired' = Paired
  BY DEF Lexicon, Rules, Paired
<1>2. Promise!Rules' = Promise!Rules
  BY DEF Promise!Rules
<1>3. \A r, x : Promise!Intersection(r, x)' = Promise!Intersection(r, x)
  BY <1>2 DEF Promise!Intersection, Promise!Reading
<1> QED
  BY <1>1, <1>3 DEF RuleNumbers, Targets, PairTransitions
-----------------------------------------------------------------------------
(* Types, merge and cache, action by action *)

Entry == [x : Nat, rule : BOOLEAN]

\* Finitely many arcs have finitely many outputs.
LEMMA FewOutputs ==
    ASSUME NEW A, IsFiniteSet(A)
    PROVE  IsFiniteSet({a.out : a \in A})
<1> DEFINE T == {a.out : a \in A}
           f == [a \in A |-> a.out]
<1>1. f \in Surjection(A, T)
  BY DEF Surjection
<1> HIDE DEF T, f
<1>2. IsFiniteSet(T)
  BY <1>1, FS_Surjection
<1> QED
  BY <1>2 DEF T

\* The symbols compute_state goes through are those of the lexicon state, and the
\* rules' epsilons.
LEMMA SymbolsOfState ==
    ASSUME AgendaInv, Types, ComputeState
    PROVE  /\ symbols' \in Seq(Entry) /\ symbols' # << >>
           /\ Range(symbols') = Entries(lexPairs[state' + 1][1])
<1> DEFINE l == lexPairs[Head(agenda) + 1][1]
           outs == {a.out : a \in Lexicon.arcs[l]}
           below == [x \in outs |-> {y \in outs : y < x}]
           sorted == InOrder(outs, below)
           n == Cardinality(outs)
           plain == [i \in DOMAIN sorted |-> [x |-> sorted[i], rule |-> FALSE]]
           last == [x |-> EPSILON, rule |-> TRUE]
<1>1. l \in 0 .. Lexicon.n - 1
  <2>1. FirstLeft \in Nat /\ FirstLeft <= Len(lexPairs) /\ Len(lexPairs) \in Nat
        /\ agenda = Rest(FirstLeft, Len(lexPairs)) /\ agenda # << >>
    BY StateFacts DEF AgendaInv, ComputeState
  <2>2. FirstLeft < Len(lexPairs) /\ Head(agenda) = FirstLeft
    <3>1. FirstLeft # Len(lexPairs)
      BY <2>1, RestIsSequence
    <3>2. FirstLeft < Len(lexPairs)
      BY <2>1, <3>1
    <3>3. Head(Rest(FirstLeft, Len(lexPairs))) = FirstLeft
      BY <2>1, <3>2, RestIsSequence
    <3> QED
      BY <2>1, <3>2, <3>3
  <2>3. lexPairs \in Seq(Targets) /\ Head(agenda) + 1 \in 1 .. Len(lexPairs)
    BY <2>1, <2>2 DEF Types
  <2>4. lexPairs[Head(agenda) + 1] \in Targets
    BY <2>3
  <2> QED
    BY <2>4 DEF Targets
<1>2. IsMachine(Lexicon)
  BY ProblemFacts DEF Types
<1>3. IsFiniteSet(Lexicon.arcs[l]) /\ Lexicon.arcs[l] \subseteq Arcs(Lexicon)
  BY <1>1, <1>2 DEF IsMachine, Arcs
<1>4. IsFiniteSet(outs) /\ outs \subseteq Nat
  <2>1. IsFiniteSet({a.out : a \in Lexicon.arcs[l]})
    BY <1>3, FewOutputs
  <2> QED
    BY <1>3, <2>1 DEF Arcs
<1>5. Orders(outs, below)
  <2> HIDE DEF outs
  <2>1. \A a \in outs : below[a] \subseteq outs \ {a}
    BY <1>4
  <2>2. \A a, b \in outs : a # b => a \in below[b] \/ b \in below[a]
    BY <1>4
  <2>3. ASSUME NEW a \in outs, NEW b \in outs, a \in below[b]
        PROVE  below[a] \subseteq below[b]
    <3> SUFFICES ASSUME NEW c \in below[a] PROVE c \in below[b]
      OBVIOUS
    <3>1. a \in Nat /\ b \in Nat /\ c \in Nat /\ c \in outs
      BY <1>4
    <3>2. c < a /\ a < b
      BY <2>3
    <3> QED
      BY <3>1, <3>2
  <2> QED
    BY <1>4, <2>1, <2>2, <2>3 DEF Orders
<1>6. /\ n \in Nat /\ sorted \in [1 .. n -> outs]
      /\ \A x \in outs : \E i \in 1 .. n : sorted[i] = x
  <2> HIDE DEF outs, below
  <2> QED
    BY <1>5, InOrderLists
<1>7. symbols' = Append(plain, last) /\ state' = Head(agenda)
  BY DEF ComputeState
<1> HIDE DEF sorted, n
<1>8. /\ plain \in Seq(Entry) /\ Len(plain) = n /\ DOMAIN plain = 1 .. n
      /\ \A i \in 1 .. n : plain[i] = [x |-> sorted[i], rule |-> FALSE]
  <2>1. \A i \in 1 .. n : [x |-> sorted[i], rule |-> FALSE] \in Entry
    BY <1>4, <1>6 DEF Entry
  <2>2. DOMAIN sorted = 1 .. n
    BY <1>6
  <2> QED
    BY <1>6, <2>1, <2>2
<1>9. last \in Entry
  BY NumbersAssumption DEF Entry
<1> HIDE DEF plain, last
<1>10. /\ symbols' \in Seq(Entry) /\ symbols' # << >>
       /\ DOMAIN symbols' = 1 .. n + 1 /\ symbols'[n + 1] = last
       /\ \A i \in 1 .. n : symbols'[i] = plain[i]
  <2> DEFINE w == Append(plain, last)
  <2>1. w \in Seq(Entry) /\ Len(w) = n + 1 /\ w[n + 1] = last /\ \A i \in 1 .. n : w[i] = plain[i]
    BY <1>6, <1>8, <1>9
  <2> HIDE DEF w
  <2>2. w # << >> /\ DOMAIN w = 1 .. n + 1
    BY <1>6, <2>1
  <2> USE DEF w
  <2> QED
    BY <1>7, <2>1, <2>2
<1>11. ASSUME NEW e
       PROVE  e \in Range(symbols') <=> e \in Entries(l)
  <2>1. Entries(l) = {[x |-> a.out, rule |-> FALSE] : a \in Lexicon.arcs[l]} \cup {last}
    BY DEF Entries, last
  <2>2. e \in Entries(l) <=> (\E x \in outs : e = [x |-> x, rule |-> FALSE]) \/ e = last
    BY <2>1
  <2>3. e \in Range(symbols') <=> \E i \in 1 .. n + 1 : e = symbols'[i]
    BY <1>10 DEF Range
  <2>4. e \in Range(symbols') <=> (\E i \in 1 .. n : e = plain[i]) \/ e = last
    BY <1>6, <1>10, <2>3
  <2> HIDE DEF outs
  <2>5. (\E i \in 1 .. n : e = plain[i]) <=> \E x \in outs : e = [x |-> x, rule |-> FALSE]
    <3>1. ASSUME NEW i \in 1 .. n, e = plain[i]
          PROVE  \E x \in outs : e = [x |-> x, rule |-> FALSE]
      BY <1>6, <1>8, <3>1
    <3>2. ASSUME NEW x \in outs, e = [x |-> x, rule |-> FALSE]
          PROVE  \E i \in 1 .. n : e = plain[i]
      <4>1. PICK i \in 1 .. n : sorted[i] = x
        BY <1>6
      <4> QED
        BY <1>8, <3>2, <4>1
    <3> QED
      BY <3>1, <3>2
  <2> QED
    BY <2>2, <2>4, <2>5
<1> QED
  BY <1>7, <1>10, <1>11

LEMMA TypesComputeState ==
    ASSUME IInv, ComputeState
    PROVE  Types' /\ MergeInv' /\ CacheInv'
<1>1. UNCHANGED <<problem, rulePairs, cache, lexPairs, result, finals>> /\ pc' = "symbol" /\ pc = "next"
  BY DEF ComputeState, ruleVars
<1>2. symbols' \in Seq(Entry) /\ symbols' # << >>
  BY SymbolsOfState DEF IInv
<1>3. Types'
  BY <1>1, <1>2, Frame DEF IInv, Types, AtState, Entry
<1>4. CacheInv'
  BY <1>1, Frame DEF IInv, CacheInv
<1> QED
  BY <1>1, <1>3, <1>4 DEF MergeInv
\* What the rules are asked for is what the intersection has, numbered.
LEMMA RuleArcsList ==
    ASSUME IInv, AtState, Paired => Asked \in DOMAIN cache
    PROVE  /\ Len(RuleArcs) \in Nat /\ DOMAIN RuleArcs = 1 .. Len(RuleArcs)
           /\ \A i \in 1 .. Len(RuleArcs) : RuleArcs[i].out \in Nat /\ RuleArcs[i].to \in RuleNumbers
           /\ \A e : e \in Promise!Intersection(RuleStates(RuleState), Head(symbols).x) <=>
                \E i \in 1 .. Len(RuleArcs) :
                  e = [out |-> RuleArcs[i].out, to |-> RuleStates(RuleArcs[i].to)]
<1> DEFINE v == RuleArcs
           x == Head(symbols).x
<1>1. RuleState \in RuleNumbers /\ x \in Nat /\ problem \in Problems
  BY StateFacts DEF IInv, Types
<1>2. CASE Paired
  <2>1. v = cache[Asked] /\ Asked = <<RuleState, x>> /\ Asked \in DOMAIN cache
    BY <1>2 DEF RuleArcs, Asked, CacheKey
  <2>2. /\ v \in Seq(PairTransitions)
        /\ Seen(rulePairs, v) = Promise!Intersection(rulePairs[RuleState + 1], x)
    BY <2>1 DEF IInv, CacheInv
  <2>3. RuleNumbers = 0 .. Len(rulePairs) - 1 /\ \A r : RuleStates(r) = rulePairs[r + 1]
    BY <1>2 DEF RuleNumbers, RuleStates
  <2> HIDE DEF v
  <2>4. Len(v) \in Nat /\ DOMAIN v = 1 .. Len(v) /\ \A i \in 1 .. Len(v) : v[i] \in PairTransitions
    BY <2>2
  <2>5. \A i \in 1 .. Len(v) : v[i].out \in Nat /\ v[i].to \in RuleNumbers
    BY <2>3, <2>4 DEF PairTransitions
  <2>6. \A e : e \in Seen(rulePairs, v) <=>
               \E i \in 1 .. Len(v) : e = [out |-> v[i].out, to |-> rulePairs[v[i].to + 1]]
    BY <2>4 DEF Seen
  <2>7. \A e : e \in Promise!Intersection(RuleStates(RuleState), x) <=>
               \E i \in 1 .. Len(v) : e = [out |-> v[i].out, to |-> RuleStates(v[i].to)]
    BY <2>2, <2>3, <2>6
  <2> QED
    BY <2>4, <2>5, <2>7 DEF v
<1>3. CASE ~Paired
  <2>1. v = Transitions(Rules[1], RuleState, x)
    BY <1>3 DEF RuleArcs
  <2>2. IsRule(Rules[1]) /\ RuleNumbers = 0 .. Rules[1].n - 1
    BY <1>3, OneRuleFacts DEF IInv
  <2>3. \A r : RuleStates(r) = <<r>>
    BY <1>3 DEF RuleStates
  <2> HIDE DEF v
  <2>4. /\ v \in Seq(Arcs(Rules[1])) /\ DOMAIN v = 1 .. Len(v)
        /\ \A a : a \in Promise!Reading(Rules[1], RuleState, x) <=> \E i \in 1 .. Len(v) : a = v[i]
    BY <1>1, <2>1, <2>2, TransitionsRead
  <2>5. Len(v) \in Nat /\ \A i \in 1 .. Len(v) : v[i] \in Arcs(Rules[1])
    BY <2>4
  <2>6. \A i \in 1 .. Len(v) : v[i].out \in Nat /\ v[i].to \in RuleNumbers
    BY <2>2, <2>5 DEF Arcs
  <2>7. ASSUME NEW e
        PROVE  e \in Promise!Intersection(RuleStates(RuleState), x) <=>
               \E i \in 1 .. Len(v) : e = [out |-> v[i].out, to |-> RuleStates(v[i].to)]
    <3> DEFINE r == RuleStates(RuleState)
    <3>1. r[1] = RuleState
      BY <2>3
    <3> HIDE DEF r
    <3>2. e \in Promise!Intersection(r, x) <=>
            \E a \in Promise!Reading(Rules[1], r[1], x) : e = [out |-> a.out, to |-> <<a.to>>]
      BY <1>1, <1>3, IntersectionOfOne
    <3>3. e \in Promise!Intersection(r, x) <=>
            \E i \in 1 .. Len(v) : e = [out |-> v[i].out, to |-> <<v[i].to>>]
      BY <2>4, <3>1, <3>2
    <3> QED
      BY <2>3, <3>3 DEF r
  <2> QED
    BY <2>4, <2>5, <2>6, <2>7 DEF v
<1> QED
  BY <1>2, <1>3

LEMMA TurnsList ==
    ASSUME NEW m \in Nat, NEW n \in Nat
    PROVE  /\ Cardinality((1 .. m) \X (1 .. n)) \in Nat
           /\ Turns(m, n) \in [1 .. Cardinality((1 .. m) \X (1 .. n)) -> (1 .. m) \X (1 .. n)]
           /\ \A i \in 1 .. m, j \in 1 .. n :
                \E k \in 1 .. Cardinality((1 .. m) \X (1 .. n)) : Turns(m, n)[k] = <<i, j>>
<1> DEFINE S == (1 .. m) \X (1 .. n)
           below == [p \in S |-> {q \in S : q[1] < p[1] \/ (q[1] = p[1] /\ q[2] < p[2])}]
<1>1. IsFiniteSet(1 .. m) /\ IsFiniteSet(1 .. n)
  <2>1. 1 \in Int /\ m \in Int /\ n \in Int
    OBVIOUS
  <2> QED
    BY <2>1, FS_Interval
<1>2. IsFiniteSet(S)
  BY <1>1, FS_Product
<1>3. \A p \in S : p[1] \in Int /\ p[2] \in Int /\ p = <<p[1], p[2]>>
  OBVIOUS
<1>4. \A i \in 1 .. m, j \in 1 .. n : <<i, j>> \in S
  OBVIOUS
<1>5. Turns(m, n) = InOrder(S, below)
  BY DEF Turns
<1> HIDE DEF S
<1>6. Orders(S, below)
  <2>1. \A a \in S : below[a] \subseteq S \ {a}
    BY <1>3
  <2>2. ASSUME NEW a \in S, NEW b \in S, a # b PROVE a \in below[b] \/ b \in below[a]
    <3>1. a[1] # b[1] \/ a[2] # b[2]
      BY <1>3, <2>2
    <3> QED
      BY <1>3, <3>1
  <2>3. ASSUME NEW a \in S, NEW b \in S, a \in below[b] PROVE below[a] \subseteq below[b]
    BY <1>3, <2>3
  <2> QED
    BY <1>2, <2>1, <2>2, <2>3 DEF Orders
<1> HIDE DEF below
<1>7. /\ Cardinality(S) \in Nat /\ InOrder(S, below) \in [1 .. Cardinality(S) -> S]
      /\ \A a \in S : \E k \in 1 .. Cardinality(S) : InOrder(S, below)[k] = a
  BY <1>6, InOrderLists
<1> QED
  BY <1>4, <1>5, <1>7 DEF S
ToAdd == [in : Nat, out : Nat, to : Targets]
ArcsForSymbol == {a \in Lexicon.arcs[LexState] : a.out = Head(symbols).x}

\* The lexicon's arcs, with the rules staying where they are.
LEMMA SkipSymbolTodo ==
    ASSUME IInv, SkipSymbol
    PROVE  /\ todo' \in Seq(ToAdd)
           /\ \A t : t \in Range(todo') <=>
                \E a \in ArcsForSymbol :
                  t = [in |-> a.in, out |-> a.out, to |-> <<a.to, RuleState>>]
<1> DEFINE T(a) == [in |-> a.in, out |-> a.out, to |-> <<a.to, RuleState>>]
           v == LexArcs
           w == [i \in 1 .. Len(v) |-> T(v[i])]
<1>1. AtState /\ AgendaInv /\ Types
  BY DEF SkipSymbol, AtState, IInv
<1>2. /\ v \in Seq(Arcs(Lexicon)) /\ DOMAIN v = 1 .. Len(v)
      /\ \A a : a \in ArcsForSymbol <=> \E i \in 1 .. Len(v) : a = v[i]
  BY <1>1, LexArcsList DEF ArcsForSymbol
<1>3. RuleState \in RuleNumbers
  BY <1>1, StateFacts
<1>4. todo' = w
  BY <1>2 DEF SkipSymbol
<1> HIDE DEF v
<1>5. Len(v) \in Nat /\ \A i \in 1 .. Len(v) : v[i] \in Arcs(Lexicon)
  BY <1>2
<1>6. \A i \in 1 .. Len(v) : T(v[i]) \in ToAdd
  BY <1>3, <1>5 DEF Arcs, ToAdd, Targets
<1>7. w \in Seq(ToAdd) /\ DOMAIN w = 1 .. Len(v) /\ \A i \in 1 .. Len(v) : w[i] = T(v[i])
  BY <1>5, <1>6
<1>8. \A t : t \in Range(w) <=> \E a \in ArcsForSymbol : t = T(a)
  <2> HIDE DEF w, T
  <2>1. \A t : t \in Range(w) <=> \E i \in 1 .. Len(v) : t = T(v[i])
    BY <1>7 DEF Range
  <2> QED
    BY <1>2, <2>1
<1> QED
  BY <1>4, <1>7, <1>8

\* The rules' epsilons, or every lexicon arc with every transition of the rules.
LEMMA ComposeTodo ==
    ASSUME IInv, Compose
    PROVE  /\ todo' \in Seq(ToAdd)
           /\ \A t : t \in Range(todo') <=>
                IF Head(symbols).rule
                THEN \E i \in 1 .. Len(RuleArcs) :
                       t = [in |-> EPSILON, out |-> RuleArcs[i].out,
                            to |-> <<LexState, RuleArcs[i].to>>]
                ELSE \E a \in ArcsForSymbol, i \in 1 .. Len(RuleArcs) :
                       t = [in |-> a.in, out |-> RuleArcs[i].out,
                            to |-> <<a.to, RuleArcs[i].to>>]
<1> DEFINE u == RuleArcs
           n == Len(u)
           v == LexArcs
           m == Len(v)
           turns == Turns(m, n)
           E(i) == [in |-> EPSILON, out |-> u[i].out, to |-> <<LexState, u[i].to>>]
           T(a, i) == [in |-> a.in, out |-> u[i].out, to |-> <<a.to, u[i].to>>]
<1>1. AtState /\ AgendaInv /\ Types /\ (Paired => Asked \in DOMAIN cache)
  BY DEF Compose, AtState, IInv
<1>2. /\ n \in Nat /\ DOMAIN u = 1 .. n
      /\ \A i \in 1 .. n : u[i].out \in Nat /\ u[i].to \in RuleNumbers
  BY <1>1, RuleArcsList
<1>3. /\ v \in Seq(Arcs(Lexicon)) /\ DOMAIN v = 1 .. m
      /\ \A a : a \in ArcsForSymbol <=> \E i \in 1 .. m : a = v[i]
  BY <1>1, LexArcsList DEF ArcsForSymbol
<1>4. LexState \in 0 .. Lexicon.n - 1 /\ EPSILON \in Nat
  BY <1>1, StateFacts, NumbersAssumption
<1>5. CASE Head(symbols).rule
  <2> DEFINE w == [i \in 1 .. n |-> E(i)]
  <2>1. todo' = w
    BY <1>2, <1>5 DEF Compose
  <2> HIDE DEF u, n
  <2>2. \A i \in 1 .. n : E(i) \in ToAdd
    BY <1>2, <1>4 DEF ToAdd, Targets
  <2>3. w \in Seq(ToAdd) /\ DOMAIN w = 1 .. n /\ \A i \in 1 .. n : w[i] = E(i)
    BY <1>2, <2>2
  <2>4. \A t : t \in Range(w) <=> \E i \in 1 .. n : t = E(i)
    <3> HIDE DEF w, E
    <3> QED
      BY <2>3 DEF Range
  <2> QED
    BY <1>5, <2>1, <2>3, <2>4 DEF u, n
<1>6. CASE ~Head(symbols).rule
  <2> DEFINE k == Cardinality((1 .. m) \X (1 .. n))
             w == [i \in 1 .. k |-> T(v[turns[i][1]], turns[i][2])]
  <2>1. m \in Nat /\ \A i \in 1 .. m : v[i] \in Arcs(Lexicon)
    <3> HIDE DEF v
    <3> QED
      BY <1>3
  <2>2. /\ k \in Nat /\ turns \in [1 .. k -> (1 .. m) \X (1 .. n)]
        /\ \A i \in 1 .. m, j \in 1 .. n : \E l \in 1 .. k : turns[l] = <<i, j>>
    <3> HIDE DEF m, n
    <3> QED
      BY <1>2, <2>1, TurnsList
  <2>3. todo' = w
    <3>1. DOMAIN turns = 1 .. k
      BY <2>2
    <3>2. todo' = [l \in DOMAIN turns |->
                     [in |-> v[turns[l][1]].in, out |-> u[turns[l][2]].out,
                      to |-> <<v[turns[l][1]].to, u[turns[l][2]].to>>]]
      BY <1>6 DEF Compose
    <3> HIDE DEF turns, k, u, v
    <3> QED
      BY <3>1, <3>2
  <2> HIDE DEF u, n, v, m, turns, k
  <2>4. \A i \in 1 .. k : turns[i][1] \in 1 .. m /\ turns[i][2] \in 1 .. n
    BY <2>2
  <2>5. \A i \in 1 .. m, j \in 1 .. n : T(v[i], j) \in ToAdd
    BY <1>2, <2>1 DEF ToAdd, Targets, Arcs
  <2>6. w \in Seq(ToAdd) /\ DOMAIN w = 1 .. k
        /\ \A l \in 1 .. k : w[l] = T(v[turns[l][1]], turns[l][2])
    <3> HIDE DEF T
    <3> QED
      BY <2>2, <2>4, <2>5
  <2>7. ASSUME NEW t
        PROVE  t \in Range(w) <=> \E a \in ArcsForSymbol, i \in 1 .. n : t = T(a, i)
    <3> HIDE DEF w, T
    <3>1. ASSUME t \in Range(w)
          PROVE  \E a \in ArcsForSymbol, i \in 1 .. n : t = T(a, i)
      <4>1. PICK l \in 1 .. k : t = T(v[turns[l][1]], turns[l][2])
        BY <2>6, <3>1 DEF Range
      <4>2. v[turns[l][1]] \in ArcsForSymbol
        BY <1>3, <2>4
      <4> QED
        BY <2>4, <4>1, <4>2
    <3>2. ASSUME NEW a \in ArcsForSymbol, NEW j \in 1 .. n, t = T(a, j)
          PROVE  t \in Range(w)
      <4>1. PICK i \in 1 .. m : a = v[i]
        BY <1>3
      <4>2. PICK l \in 1 .. k : turns[l] = <<i, j>>
        BY <2>2
      <4>3. w[l] = t
        BY <2>6, <3>2, <4>1, <4>2
      <4> QED
        BY <2>6, <4>3 DEF Range
    <3> QED
      BY <3>1, <3>2
  <2> QED
    BY <1>6, <2>3, <2>6, <2>7 DEF u, n
<1> QED
  BY <1>5, <1>6

LEMMA TypesTodo ==
    ASSUME IInv, SkipSymbol \/ Compose
    PROVE  Types' /\ MergeInv' /\ CacheInv'
<1>1. UNCHANGED <<problem, rulePairs, cache, lexPairs, result, finals, symbols>>
      /\ pc' = "add" /\ pc = "symbol"
  BY DEF SkipSymbol, Compose, ruleVars, lexVars
<1>2. todo' \in Seq(ToAdd)
  BY SkipSymbolTodo, ComposeTodo
<1>3. Types'
  BY <1>1, <1>2, Frame DEF IInv, Types, AtState, ToAdd
<1>4. CacheInv'
  BY <1>1, Frame DEF IInv, CacheInv
<1> QED
  BY <1>1, <1>3, <1>4 DEF MergeInv
LEMMA TypesComputeTransitionSet ==
    ASSUME IInv, ComputeTransitionSet
    PROVE  Types' /\ MergeInv' /\ CacheInv'
<1> DEFINE x == Head(symbols).x
           pair == rulePairs[RuleState + 1]
           L == Transitions(Rules[1], pair[1], x)
           R == Transitions(Rules[2], pair[2], x)
<1>1. /\ UNCHANGED <<problem, rulePairs, cache, lexPairs, result, finals, symbols, state>>
      /\ pc' = "merge" /\ pc = "symbol" /\ Paired /\ ~Skips
      /\ left' = L /\ right' = R /\ matched' = << >>
  BY DEF ComputeTransitionSet, lexVars
<1>2. AtState /\ Types /\ AgendaInv
  BY <1>1 DEF AtState, IInv
<1>3. Types' /\ CacheInv'
  BY <1>1, Frame DEF IInv, Types, CacheInv, AtState
<1>4. RuleState \in RuleNumbers /\ x \in Nat
  BY <1>2, StateFacts
<1>5. /\ IsRule(Rules[1]) /\ IsRule(Rules[2])
      /\ pair[1] \in 0 .. Rules[1].n - 1 /\ pair[2] \in 0 .. Rules[2].n - 1
  BY <1>1, <1>2, <1>4, PairFacts
<1> HIDE DEF pair, x
<1>6. /\ L \in Seq(Arcs(Rules[1])) /\ Ascending(L) /\ DOMAIN L = 1 .. Len(L)
      /\ \A a : a \in Promise!Reading(Rules[1], pair[1], x) <=> \E i \in 1 .. Len(L) : a = L[i]
  BY <1>4, <1>5, TransitionsRead
<1>7. /\ R \in Seq(Arcs(Rules[2])) /\ Ascending(R) /\ DOMAIN R = 1 .. Len(R)
      /\ \A a : a \in Promise!Reading(Rules[2], pair[2], x) <=> \E i \in 1 .. Len(R) : a = R[i]
  BY <1>4, <1>5, TransitionsRead
<1> HIDE DEF L, R
<1>8. Common(Range(L), Range(R)) = Promise!Intersection(pair, x)
  <2>1. \A a : a \in Range(L) <=> a \in Promise!Reading(Rules[1], pair[1], x)
    BY <1>6 DEF Range
  <2>2. \A a : a \in Range(R) <=> a \in Promise!Reading(Rules[2], pair[2], x)
    BY <1>7 DEF Range
  <2>3. problem \in Problems
    BY <1>2 DEF Types
  <2>4. \A e : e \in Promise!Intersection(pair, x) <=>
          \E a \in Range(L), b \in Range(R) :
            a.out = b.out /\ e = [out |-> a.out, to |-> <<a.to, b.to>>]
    BY <1>1, <2>1, <2>2, <2>3, IntersectionOfTwo
  <2>5. \A e : e \in Common(Range(L), Range(R)) <=> e \in Promise!Intersection(pair, x)
    BY <2>4, InCommon
  <2>6. Common(Range(L), Range(R)) \subseteq Promise!Intersection(pair, x)
    BY <2>5
  <2>7. Promise!Intersection(pair, x) \subseteq Common(Range(L), Range(R))
    BY <2>5
  <2> QED
    BY <2>6, <2>7, Zenon
<1>9. Seen(rulePairs, << >>) = {} /\ << >> \in Seq(PairTransitions)
  BY DEF Seen
<1>10. /\ Paired' /\ ~Skips' /\ PairTransitions' = PairTransitions /\ Rules' = Rules
       /\ RuleState' = RuleState /\ Head(symbols').x = x
  BY <1>1, Frame DEF Skips, RulesKnow, RuleState, x
<1>11. Promise!Intersection(rulePairs[RuleState + 1], Head(symbols).x)' = Promise!Intersection(pair, x)
  BY <1>1, Frame DEF RuleState, pair, x, Promise!Intersection, Promise!Reading, Promise!Rules
<1>12. MergeInv'
  BY <1>1, <1>6, <1>7, <1>8, <1>9, <1>10, <1>11 DEF MergeInv
<1> QED
  BY <1>3, <1>12

LEMMA TypesMergeSkip ==
    ASSUME IInv, MergeSkip
    PROVE  Types' /\ MergeInv' /\ CacheInv'
<1>1. /\ UNCHANGED <<problem, rulePairs, cache, lexPairs, result, finals, symbols, state, matched, pc>>
      /\ pc = "merge" /\ left # << >> /\ right # << >> /\ Head(left).out # Head(right).out
      /\ IF LeftFirst THEN left' = Tail(left) /\ UNCHANGED right
                      ELSE right' = Tail(right) /\ UNCHANGED left
  BY DEF MergeSkip, lexVars
<1>2. Types' /\ CacheInv'
  BY <1>1, Frame DEF IInv, Types, CacheInv, AtState
<1>3. /\ left \in Seq(Arcs(Rules[1])) /\ right \in Seq(Arcs(Rules[2]))
      /\ Ascending(left) /\ Ascending(right)
  BY <1>1 DEF IInv, MergeInv
<1>4. \A a \in Arcs(Rules[1]) \cup Arcs(Rules[2]) : a.out \in Nat
  BY DEF Arcs
<1>5. Head(left) \in Arcs(Rules[1]) /\ Head(right) \in Arcs(Rules[2])
  BY <1>1, <1>3, HeadAndTail
<1>6. /\ left' \in Seq(Arcs(Rules[1])) /\ right' \in Seq(Arcs(Rules[2]))
      /\ Ascending(left') /\ Ascending(right')
      /\ Common(Range(left'), Range(right')) = Common(Range(left), Range(right))
  <2>1. CASE LeftFirst
    <3>1. left' = Tail(left) /\ right' = right /\ Head(left).out < Head(right).out
      BY <1>1, <2>1 DEF LeftFirst
    <3>2. Tail(left) \in Seq(Arcs(Rules[1])) /\ Ascending(Tail(left))
      BY <1>1, <1>3, HeadAndTail, AscendingTail
    <3>3. Common(Range(left), Range(right)) = Common(Range(Tail(left)), Range(right))
      BY <1>1, <1>3, <1>4, <3>1, CommonSkip
    <3> QED
      BY <1>3, <3>1, <3>2, <3>3
  <2>2. CASE ~LeftFirst
    <3>1. left' = left /\ right' = Tail(right) /\ Head(right).out < Head(left).out
      BY <1>1, <1>4, <1>5, <2>2 DEF LeftFirst
    <3>2. Tail(right) \in Seq(Arcs(Rules[2])) /\ Ascending(Tail(right))
      BY <1>1, <1>3, HeadAndTail, AscendingTail
    <3>3. Common(Range(left), Range(right)) = Common(Range(left), Range(Tail(right)))
      BY <1>1, <1>3, <1>4, <3>1, CommonSkip
    <3> QED
      BY <1>3, <3>1, <3>2, <3>3
  <2> QED
    BY <2>1, <2>2
<1>7. Promise!Intersection(rulePairs[RuleState + 1], Head(symbols).x)'
        = Promise!Intersection(rulePairs[RuleState + 1], Head(symbols).x)
  BY <1>1 DEF RuleState, Promise!Intersection, Promise!Reading, Promise!Rules
<1>8. Paired' = Paired /\ Skips' = Skips /\ PairTransitions' = PairTransitions /\ Rules' = Rules
  BY <1>1, Frame DEF Skips, RulesKnow
<1>9. MergeInv'
  BY <1>1, <1>6, <1>7, <1>8 DEF IInv, MergeInv
<1> QED
  BY <1>2, <1>9

LEMMA TypesMergeDone ==
    ASSUME IInv, MergeDone
    PROVE  Types' /\ MergeInv' /\ CacheInv'
<1>1. /\ UNCHANGED <<problem, rulePairs, lexPairs, result, finals, symbols, state, matched>>
      /\ pc = "merge" /\ pc' = "symbol" /\ (left = << >> \/ right = << >>)
      /\ cache' = [q \in DOMAIN cache \cup {Asked} |-> IF q = Asked THEN matched ELSE cache[q]]
  BY DEF MergeDone, lexVars
<1>2. Types'
  BY <1>1, Frame DEF IInv, Types, AtState
<1>3. AtState /\ AgendaInv /\ Types
  BY <1>1 DEF AtState, IInv
<1>4. Asked = <<RuleState, Head(symbols).x>> /\ RuleState \in RuleNumbers /\ Head(symbols).x \in Nat
  BY <1>3, StateFacts DEF Asked, CacheKey
<1>5. /\ Paired /\ matched \in Seq(PairTransitions)
      /\ Seen(rulePairs, matched) \cup Common(Range(left), Range(right))
           = Promise!Intersection(rulePairs[RuleState + 1], Head(symbols).x)
  BY <1>1 DEF IInv, MergeInv
<1>6. Common(Range(left), Range(right)) = {}
  BY <1>1 DEF Common, Range
<1>7. Seen(rulePairs, matched) = Promise!Intersection(rulePairs[Asked[1] + 1], Asked[2])
  BY <1>4, <1>5, <1>6
<1>8. ASSUME NEW q \in DOMAIN cache'
      PROVE  /\ q \in RuleNumbers \X Nat /\ cache'[q] \in Seq(PairTransitions)
             /\ Seen(rulePairs, cache'[q]) = Promise!Intersection(rulePairs[q[1] + 1], q[2])
  <2>1. CASE q = Asked
    <3>1. cache'[q] = matched
      BY <1>1, <2>1
    <3> QED
      BY <1>4, <1>5, <1>7, <2>1, <3>1
  <2>2. CASE q # Asked
    <3>1. q \in DOMAIN cache /\ cache'[q] = cache[q]
      BY <1>1, <2>2
    <3> QED
      BY <3>1 DEF IInv, CacheInv
  <2> QED
    BY <2>1, <2>2
<1>9. CacheInv'
  BY <1>1, <1>5, <1>8, Frame, ZenonT(40) DEF CacheInv
<1> QED
  BY <1>1, <1>2, <1>9 DEF MergeInv
\* A pair that is numbered keeps its number.
LEMMA SeenKept ==
    ASSUME NEW n \in Nat, NEW v \in Seq([out : Nat, to : 0 .. n - 1]),
           NEW p, NEW q, Len(p) = n, Extends(p, q)
    PROVE  Seen(q, v) = Seen(p, v)
<1>1. \A i \in DOMAIN v : v[i].to \in 0 .. n - 1
  <2> DEFINE S == [out : Nat, to : 0 .. n - 1]
  <2>0. v \in Seq(S)
    OBVIOUS
  <2> HIDE DEF S
  <2>1. DOMAIN v = 1 .. Len(v) /\ \A i \in 1 .. Len(v) : v[i] \in S
    BY <2>0
  <2> USE DEF S
  <2> QED
    BY <2>1
<1>2. \A i \in DOMAIN v : q[v[i].to + 1] = p[v[i].to + 1]
  BY <1>1, SMTT(30) DEF Extends
<1> QED
  BY <1>2 DEF Seen

LEMMA SeenAppend ==
    ASSUME NEW S, NEW v \in Seq(S), NEW t \in S, NEW p
    PROVE  Seen(p, Append(v, t)) = Seen(p, v) \cup {[out |-> t.out, to |-> p[t.to + 1]]}
<1> DEFINE w == Append(v, t)
           F(a) == [out |-> a.out, to |-> p[a.to + 1]]
<1>1. /\ Len(v) \in Nat /\ DOMAIN v = 1 .. Len(v) /\ DOMAIN w = 1 .. Len(v) + 1
      /\ w[Len(v) + 1] = t /\ \A i \in 1 .. Len(v) : w[i] = v[i]
  OBVIOUS
<1>2. \A e : e \in Seen(p, w) <=> \E i \in 1 .. Len(v) + 1 : e = F(w[i])
  BY <1>1 DEF Seen
<1>3. \A e : e \in Seen(p, v) <=> \E i \in 1 .. Len(v) : e = F(v[i])
  BY <1>1 DEF Seen
<1> HIDE DEF w, F
<1>4. \A e : e \in Seen(p, w) <=> e \in Seen(p, v) \/ e = F(t)
  BY <1>1, <1>2, <1>3
<1>5. Seen(p, w) = Seen(p, v) \cup {F(t)}
  BY <1>4
<1> QED
  BY <1>5 DEF w, F

LEMMA TypesMergeEqual ==
    ASSUME IInv, MergeEqual
    PROVE  /\ Types' /\ MergeInv' /\ CacheInv'
           /\ Extends(rulePairs, rulePairs') /\ RuleNumbers \subseteq RuleNumbers'
<1> DEFINE pair == <<Head(left).to, Head(right).to>>
           k == NumberOf(rulePairs', pair)
           t == [out |-> Head(left).out, to |-> k]
           P == (0 .. Rules[1].n - 1) \X (0 .. Rules[2].n - 1)
           n == Len(rulePairs)
<1>1. /\ UNCHANGED <<problem, cache, lexPairs, result, finals, symbols, state, pc>>
      /\ pc = "merge" /\ left # << >> /\ right # << >> /\ Head(left).out = Head(right).out
      /\ left' = Tail(left) /\ right' = Tail(right)
      /\ rulePairs' = With(rulePairs, pair) /\ matched' = Append(matched, t)
  BY DEF MergeEqual, lexVars
<1>2. /\ Paired /\ ~Skips
      /\ left \in Seq(Arcs(Rules[1])) /\ right \in Seq(Arcs(Rules[2]))
      /\ Ascending(left) /\ Ascending(right) /\ matched \in Seq(PairTransitions)
      /\ Seen(rulePairs, matched) \cup Common(Range(left), Range(right))
           = Promise!Intersection(rulePairs[RuleState + 1], Head(symbols).x)
  BY <1>1 DEF IInv, MergeInv
<1>3. /\ Head(left) \in Arcs(Rules[1]) /\ Tail(left) \in Seq(Arcs(Rules[1]))
      /\ Head(right) \in Arcs(Rules[2]) /\ Tail(right) \in Seq(Arcs(Rules[2]))
      /\ Ascending(Tail(left)) /\ Ascending(Tail(right))
  BY <1>1, <1>2, HeadAndTail, AscendingTail
<1>4. pair \in P /\ Head(left).out \in Nat
  BY <1>3 DEF Arcs
<1>5. rulePairs \in Seq(P) /\ n \in Nat
  BY <1>2 DEF IInv, Types
<1> HIDE DEF pair, P
<1>6. /\ rulePairs' \in Seq(P) /\ Extends(rulePairs, rulePairs')
      /\ k \in 0 .. Len(rulePairs') - 1 /\ rulePairs'[k + 1] = pair
  <2> DEFINE w == With(rulePairs, pair)
  <2>1. /\ w \in Seq(P) /\ Extends(rulePairs, w)
        /\ NumberOf(w, pair) \in 0 .. Len(w) - 1 /\ w[NumberOf(w, pair) + 1] = pair
    BY <1>4, <1>5, WithExtends
  <2>2. rulePairs' = w
    BY <1>1
  <2> HIDE DEF w
  <2> QED
    BY <2>1, <2>2
<1>7. Lexicon' = Lexicon /\ Rules' = Rules /\ Paired' = Paired
  BY <1>1 DEF Lexicon, Rules, Paired
<1>8. n <= Len(rulePairs') /\ Len(rulePairs') \in Nat
  BY <1>6 DEF Extends
<1>9. /\ RuleNumbers \subseteq RuleNumbers' /\ Targets \subseteq Targets'
      /\ PairTransitions \subseteq PairTransitions'
  BY <1>2, <1>5, <1>7, <1>8 DEF RuleNumbers, Targets, PairTransitions
<1>10. Types'
  <2>1. lexPairs' \in Seq(Targets')
    BY <1>1, <1>9, SeqWider DEF IInv, Types
  <2>2. Paired' => rulePairs' \in Seq((0 .. Rules'[1].n - 1) \X (0 .. Rules'[2].n - 1))
    BY <1>6, <1>7 DEF P
  <2> QED
    BY <1>1, <2>1, <2>2 DEF IInv, Types, AtState
<1>11. AtState /\ AgendaInv /\ Types
  BY <1>1 DEF AtState, IInv
<1>12. ASSUME NEW r \in RuleNumbers
       PROVE  rulePairs'[r + 1] = rulePairs[r + 1]
  <2>1. r + 1 \in 1 .. n
    BY <1>2, <1>5 DEF RuleNumbers
  <2> QED
    BY <1>6, <2>1 DEF Extends
<1>13. ASSUME NEW r, NEW x
       PROVE  Promise!Intersection(r, x)' = Promise!Intersection(r, x)
  BY <1>1 DEF Promise!Intersection, Promise!Reading, Promise!Rules
<1>14. \A v \in Seq(PairTransitions) :
         v \in Seq(PairTransitions') /\ Seen(rulePairs', v) = Seen(rulePairs, v)
  <2> TAKE v \in Seq(PairTransitions)
  <2>1. v \in Seq(PairTransitions')
    BY <1>9, SeqWider
  <2>2. Seen(rulePairs', v) = Seen(rulePairs, v)
    BY <1>5, <1>6, SeenKept DEF PairTransitions
  <2> QED
    BY <2>1, <2>2
<1>15. CacheInv'
  <2>1. ASSUME NEW q \in DOMAIN cache
        PROVE  /\ q \in RuleNumbers' \X Nat /\ cache[q] \in Seq(PairTransitions')
               /\ Seen(rulePairs', cache[q]) = Promise!Intersection(rulePairs[q[1] + 1], q[2])'
    <3>1. /\ q \in RuleNumbers \X Nat /\ cache[q] \in Seq(PairTransitions)
          /\ Seen(rulePairs, cache[q]) = Promise!Intersection(rulePairs[q[1] + 1], q[2])
      BY DEF IInv, CacheInv
    <3>2. q[1] \in RuleNumbers /\ q \in RuleNumbers' \X Nat
      BY <1>9, <3>1
    <3>3. rulePairs'[q[1] + 1] = rulePairs[q[1] + 1]
      BY <1>12, <3>2
    <3>4. Promise!Intersection(rulePairs[q[1] + 1], q[2])'
            = Promise!Intersection(rulePairs[q[1] + 1], q[2])
      BY <1>1, <3>3 DEF Promise!Intersection, Promise!Reading, Promise!Rules
    <3> QED
      BY <1>14, <3>1, <3>2, <3>3, <3>4
  <2> QED
    BY <1>1, <1>2, <1>7, <2>1 DEF CacheInv
<1>16. MergeInv'
  <2>1. t \in PairTransitions'
    BY <1>4, <1>6 DEF PairTransitions
  <2>2. matched' \in Seq(PairTransitions')
    BY <1>1, <1>2, <1>14, <2>1
  <2>3. Seen(rulePairs', matched') = Seen(rulePairs, matched) \cup {[out |-> Head(left).out, to |-> pair]}
    <3> HIDE DEF t
    <3>1. Seen(rulePairs', Append(matched, t))
            = Seen(rulePairs', matched) \cup {[out |-> t.out, to |-> rulePairs'[t.to + 1]]}
      BY <1>2, <1>14, <2>1, SeenAppend
    <3>2. t.out = Head(left).out /\ rulePairs'[t.to + 1] = pair
      BY <1>6 DEF t
    <3> QED
      BY <1>1, <1>2, <1>14, <3>1, <3>2
  <2>4. \A a \in Arcs(Rules[1]) \cup Arcs(Rules[2]) : a.out \in Nat
    BY DEF Arcs
  <2>5. Common(Range(left), Range(right)) =
          {[out |-> Head(left).out, to |-> pair]} \cup Common(Range(Tail(left)), Range(Tail(right)))
    BY <1>1, <1>2, <2>4, CommonHeads, SMTT(30) DEF pair
  <2>6. Seen(rulePairs', matched') \cup Common(Range(left'), Range(right'))
          = Promise!Intersection(rulePairs[RuleState + 1], Head(symbols).x)
    BY <1>1, <1>2, <2>3, <2>5
  <2>7. RuleState' = RuleState /\ rulePairs'[RuleState + 1] = rulePairs[RuleState + 1]
    BY <1>1, <1>11, <1>12, StateFacts DEF RuleState
  <2>8. Promise!Intersection(rulePairs[RuleState + 1], Head(symbols).x)'
          = Promise!Intersection(rulePairs[RuleState + 1], Head(symbols).x)
    BY <1>1, <2>7 DEF Promise!Intersection, Promise!Reading, Promise!Rules
  <2>9. Skips' = Skips
    BY <1>1, <1>7 DEF Skips, RulesKnow
  <2> QED
    BY <1>1, <1>2, <1>3, <1>7, <2>2, <2>6, <2>8, <2>9 DEF MergeInv, Arcs
<1> QED
  BY <1>6, <1>9, <1>10, <1>15, <1>16
\* What AddArc numbers and adds.
LEMMA AddArcFacts ==
    ASSUME IInv, AddArc
    PROVE  /\ Head(todo) \in ToAdd /\ Tail(todo) \in Seq(ToAdd) /\ todo # << >>
           /\ lexPairs' \in Seq(Targets) /\ Extends(lexPairs, lexPairs')
           /\ NumberOf(lexPairs', Head(todo).to) \in 0 .. Len(lexPairs') - 1
           /\ lexPairs'[NumberOf(lexPairs', Head(todo).to) + 1] = Head(todo).to
           /\ \A i \in 1 .. Len(lexPairs') : i \in 1 .. Len(lexPairs) \/ lexPairs'[i] = Head(todo).to
           /\ result' = result \cup {[from |-> state, in |-> Head(todo).in, out |-> Head(todo).out,
                                      to |-> NumberOf(lexPairs', Head(todo).to)]}
<1> DEFINE p == Head(todo).to
           w == With(lexPairs, p)
<1>1. /\ pc = "add" /\ todo # << >> /\ lexPairs' = w
      /\ result' = result \cup {[from |-> state, in |-> Head(todo).in, out |-> Head(todo).out,
                                 to |-> NumberOf(lexPairs', p)]}
  BY DEF AddArc
<1>2. todo \in Seq(ToAdd) /\ lexPairs \in Seq(Targets)
  BY <1>1 DEF IInv, Types, ToAdd
<1>3. Head(todo) \in ToAdd /\ Tail(todo) \in Seq(ToAdd)
  BY <1>1, <1>2, HeadAndTail
<1>4. p \in Targets
  BY <1>3 DEF ToAdd
<1> HIDE DEF p
<1>5. /\ w \in Seq(Targets) /\ Extends(lexPairs, w)
      /\ NumberOf(w, p) \in 0 .. Len(w) - 1 /\ w[NumberOf(w, p) + 1] = p
      /\ \A i \in 1 .. Len(w) : i \in 1 .. Len(lexPairs) \/ w[i] = p
  BY <1>2, <1>4, WithExtends
<1> HIDE DEF w
<1> QED
  BY <1>1, <1>3, <1>5 DEF p

LEMMA TypesAddArc ==
    ASSUME IInv, AddArc
    PROVE  Types' /\ MergeInv' /\ CacheInv'
<1> DEFINE N == 0 .. Len(lexPairs) - 1
           M == 0 .. Len(lexPairs') - 1
           a == Head(todo)
           k == NumberOf(lexPairs', a.to)
<1>1. /\ UNCHANGED <<problem, rulePairs, cache, pc, state, symbols, finals>>
      /\ pc = "add" /\ todo' = Tail(todo)
  BY DEF AddArc, ruleVars
<1>2. /\ a \in ToAdd /\ Tail(todo) \in Seq(ToAdd)
      /\ lexPairs' \in Seq(Targets) /\ Extends(lexPairs, lexPairs') /\ k \in M
      /\ result' = result \cup {[from |-> state, in |-> a.in, out |-> a.out, to |-> k]}
  BY AddArcFacts
<1>3. state \in N /\ result \subseteq [from : N, in : Nat, out : Nat, to : N]
      /\ Len(lexPairs) \in Nat
  BY StateFacts DEF IInv, Types
<1>4. N \subseteq M
  <2>1. Len(lexPairs) <= Len(lexPairs') /\ Len(lexPairs') \in Nat
    BY <1>2 DEF Extends
  <2> QED
    BY <1>3, <2>1
<1> HIDE DEF N, M, k
<1>5. result' \subseteq [from : M, in : Nat, out : Nat, to : M]
  <2>1. a.in \in Nat /\ a.out \in Nat
    BY <1>2 DEF ToAdd
  <2>2. [from |-> state, in |-> a.in, out |-> a.out, to |-> k] \in [from : M, in : Nat, out : Nat, to : M]
    BY <1>2, <1>3, <1>4, <2>1
  <2>3. result \subseteq [from : M, in : Nat, out : Nat, to : M]
    BY <1>3, <1>4
  <2> QED
    BY <1>2, <2>2, <2>3
<1>6. Types'
  BY <1>1, <1>2, <1>5, Frame DEF IInv, Types, AtState, ToAdd, M
<1>7. CacheInv'
  BY <1>1, Frame DEF IInv, CacheInv
<1> QED
  BY <1>1, <1>6, <1>7 DEF MergeInv

LEMMA TypesSymbolDone ==
    ASSUME IInv, SymbolDone
    PROVE  Types' /\ MergeInv' /\ CacheInv'
<1>1. /\ UNCHANGED <<problem, rulePairs, cache, lexPairs, result, finals, state>>
      /\ pc = "add" /\ symbols' = Tail(symbols)
      /\ pc' = IF Len(symbols) = 1 THEN "next" ELSE "symbol"
  BY DEF SymbolDone, ruleVars, lexVars
<1>2. symbols \in Seq(Entry) /\ symbols # << >>
  BY <1>1 DEF IInv, Types, AtState, Entry
<1>3. /\ Tail(symbols) \in Seq(Entry) /\ Len(Tail(symbols)) = Len(symbols) - 1
      /\ Len(symbols) \in Nat \ {0}
  BY <1>2, HeadAndTail
<1>4. Len(symbols) # 1 => Tail(symbols) # << >>
  <2> DEFINE t == Tail(symbols)
             n == Len(symbols)
  <2>1. n # 1 => Len(t) # 0
    <3> HIDE DEF t
    <3>1. Len(t) = n - 1 /\ n \in Nat \ {0}
      BY <1>3 DEF t
    <3> HIDE DEF n
    <3> QED
      BY <3>1
  <2> HIDE DEF t, n
  <2>2. t = << >> => Len(t) = 0
    OBVIOUS
  <2>3. n # 1 => t # << >>
    BY <2>1, <2>2
  <2> QED
    BY <2>3 DEF t, n
<1>5. Types'
  BY <1>1, <1>3, <1>4, Frame, SMTT(30) DEF IInv, Types, AtState, Entry
<1>6. CacheInv'
  BY <1>1, Frame DEF IInv, CacheInv
<1> QED
  BY <1>1, <1>5, <1>6 DEF MergeInv

LEMMA SwapResultArc ==
    ASSUME NEW N, NEW a \in [from : N, in : Nat, out : Nat, to : N]
    PROVE  /\ Swap(a) \in [from : N, in : Nat, out : Nat, to : N]
           /\ Swap(a) = [from |-> a.from, in |-> a.out, out |-> a.in, to |-> a.to]
<1>1. Swap(a) = [from |-> a.from, in |-> a.out, out |-> a.in, to |-> a.to]
  <2> DEFINE b == [a EXCEPT !.in = a.out]
  <2>1. b = [from |-> a.from, in |-> a.out, out |-> a.out, to |-> a.to]
    OBVIOUS
  <2> HIDE DEF b
  <2>2. [b EXCEPT !.out = a.in] = [from |-> a.from, in |-> a.out, out |-> a.in, to |-> a.to]
    <3>1. b \in [from : {a.from}, in : {a.out}, out : {a.out}, to : {a.to}]
      BY <2>1
    <3> DEFINE c == [b EXCEPT !.out = a.in]
    <3>2. c = [from |-> b.from, in |-> b.in, out |-> a.in, to |-> b.to]
      BY <3>1
    <3>3. b.from = a.from /\ b.in = a.out /\ b.to = a.to
      BY <2>1
    <3> HIDE DEF c
    <3>4. c = [from |-> a.from, in |-> a.out, out |-> a.in, to |-> a.to]
      BY <3>2, <3>3
    <3> QED
      BY <3>4 DEF c
  <2>3. Swap(a) = [b EXCEPT !.out = a.in]
    BY DEF Swap, b
  <2> QED
    BY <2>2, <2>3
<1> QED
  BY <1>1

LEMMA TypesFinish ==
    ASSUME IInv, Finish
    PROVE  Types' /\ MergeInv' /\ CacheInv'
<1> DEFINE N == 0 .. Len(lexPairs) - 1
<1>1. /\ UNCHANGED <<problem, rulePairs, cache, lexPairs, state, symbols>>
      /\ pc = "next" /\ pc' = "done"
      /\ result' = IF InvertedBack THEN {Swap(a) : a \in result} ELSE result
  BY DEF Finish, ruleVars
<1>2. result \subseteq [from : N, in : Nat, out : Nat, to : N]
  BY DEF IInv, Types
<1>3. result' \subseteq [from : N, in : Nat, out : Nat, to : N]
  BY <1>1, <1>2, SwapResultArc
<1>4. Types'
  BY <1>1, <1>3, Frame DEF IInv, Types, AtState
<1>5. CacheInv'
  BY <1>1, Frame DEF IInv, CacheInv
<1> QED
  BY <1>1, <1>4, <1>5 DEF MergeInv

LEMMA TypesStutter ==
    ASSUME IInv, UNCHANGED vars
    PROVE  Types' /\ MergeInv' /\ CacheInv'
<1>1. /\ UNCHANGED <<problem, rulePairs, cache, lexPairs, state, symbols, pc, result, finals,
                     todo, left, right, matched>>
  BY DEF vars, ruleVars, lexVars
<1>2. Types' /\ CacheInv'
  BY <1>1, Frame DEF IInv, Types, CacheInv, AtState
<1>3. MergeInv'
  <2>1. Promise!Intersection(rulePairs[RuleState + 1], Head(symbols).x)'
          = Promise!Intersection(rulePairs[RuleState + 1], Head(symbols).x)
    BY <1>1 DEF RuleState, Promise!Intersection, Promise!Reading, Promise!Rules
  <2>2. Paired' = Paired /\ Skips' = Skips /\ PairTransitions' = PairTransitions /\ Rules' = Rules
    BY <1>1, Frame DEF Skips, RulesKnow
  <2> QED
    BY <1>1, <2>1, <2>2 DEF IInv, MergeInv
<1> QED
  BY <1>2, <1>3

LEMMA IInvInit == Init => IInv
BY NumberingInit, AgendaInit, TypesInit, MergeCacheInit DEF IInv

LEMMA IInvStep == IInv /\ [Next]_vars => IInv'
<1> SUFFICES ASSUME IInv, [Next]_vars PROVE IInv'
  OBVIOUS
<1>1. Numbering' /\ AgendaInv'
  BY NumberingStep, AgendaStep DEF IInv
<1>2. Types' /\ MergeInv' /\ CacheInv'
  <2>1. CASE ComputeState
    BY <2>1, TypesComputeState
  <2>2. CASE SkipSymbol \/ Compose
    BY <2>2, TypesTodo
  <2>3. CASE ComputeTransitionSet
    BY <2>3, TypesComputeTransitionSet
  <2>4. CASE MergeEqual
    BY <2>4, TypesMergeEqual
  <2>5. CASE MergeSkip
    BY <2>5, TypesMergeSkip
  <2>6. CASE MergeDone
    BY <2>6, TypesMergeDone
  <2>7. CASE AddArc
    BY <2>7, TypesAddArc
  <2>8. CASE SymbolDone
    BY <2>8, TypesSymbolDone
  <2>9. CASE Finish
    BY <2>9, TypesFinish
  <2>10. CASE UNCHANGED vars
    BY <2>10, TypesStutter
  <2> QED
    BY <2>1, <2>2, <2>3, <2>4, <2>5, <2>6, <2>7, <2>8, <2>9, <2>10 DEF Next
<1> QED
  BY <1>1, <1>2 DEF IInv

LEMMA IInvTypeOK == IInv => TypeOK
<1> SUFFICES ASSUME IInv PROVE TypeOK
  OBVIOUS
<1>1. Types /\ AgendaInv
  BY DEF IInv
<1>2. lexPairs \in Seq(Targets) /\ Len(lexPairs) \in Nat /\ DOMAIN lexPairs = 1 .. Len(lexPairs)
      /\ state \in 0 .. Len(lexPairs) - 1
  BY <1>1, StateFacts DEF Types
<1>3. \A i \in DOMAIN lexPairs : lexPairs[i][1] \in 0 .. Lexicon.n - 1 /\ lexPairs[i][2] \in RuleNumbers
  BY <1>2 DEF Targets
<1>4. \A i \in DOMAIN agenda : agenda[i] \in 0 .. Len(lexPairs) - 1
  <2> DEFINE f == FirstLeft
             n == Len(lexPairs)
  <2>1. f \in Nat /\ f <= n /\ n \in Nat /\ agenda = Rest(f, n)
    BY <1>1, <1>2, StateFacts DEF AgendaInv
  <2> HIDE DEF f, n
  <2>2. \A i \in 1 .. n - f : f + i - 1 \in 0 .. n - 1
    BY <2>1
  <2>3. \A i \in DOMAIN agenda : agenda[i] \in 0 .. n - 1
    BY <2>1, <2>2 DEF Rest
  <2> QED
    BY <2>3 DEF n
<1>5. \A a \in result : a.from < Len(lexPairs) /\ a.to < Len(lexPairs)
  BY <1>1, <1>2 DEF Types
<1> QED
  BY <1>1, <1>2, <1>3, <1>4, <1>5 DEF Types, TypeOK, RuleNumbers

\* The states of either machine behind a number, and the ends of every arc, are
\* states there are: no lookup in a vector of the composition is out of range.
THEOREM TypeCorrect == Spec => []TypeOK
<1>1. Init => IInv
  BY IInvInit
<1>2. IInv /\ [Next]_vars => IInv'
  BY IInvStep
<1>3. IInv => TypeOK
  BY IInvTypeOK
<1> QED
  BY <1>1, <1>2, <1>3, PTL DEF Spec

LEMMA IInvCache == IInv => CacheIsIntersection
<1> SUFFICES ASSUME IInv, NEW q \in DOMAIN cache
             PROVE  {[out |-> cache[q][i].out, to |-> RuleStates(cache[q][i].to)] :
                       i \in DOMAIN cache[q]} = Promise!Intersection(RuleStates(q[1]), q[2])
  BY DEF CacheIsIntersection
<1>1. Paired /\ Seen(rulePairs, cache[q]) = Promise!Intersection(rulePairs[q[1] + 1], q[2])
  BY DEF IInv, CacheInv
<1>2. \A r : RuleStates(r) = rulePairs[r + 1]
  BY <1>1 DEF RuleStates
<1> QED
  BY <1>1, <1>2 DEF Seen

\* Whatever was computed for a state of the rule pair and a symbol is the
\* intersection of the two rules there, and stays it while more pairs are numbered.
THEOREM CacheHolds == Spec => []CacheIsIntersection
<1>1. Init => IInv
  BY IInvInit
<1>2. IInv /\ [Next]_vars => IInv'
  BY IInvStep
<1>3. IInv => CacheIsIntersection
  BY IInvCache
<1> QED
  BY <1>1, <1>2, <1>3, PTL DEF Spec

-----------------------------------------------------------------------------
(* What has been built of the product *)

\* The arcs of the product that compute_state adds for one of them.
EntryArcs(p, e) ==
    IF e.rule
    THEN {[from |-> p, in |-> EPSILON, out |-> b.out, to |-> <<p[1], b.to>>] :
            b \in Promise!Intersection(p[2], EPSILON)}
    ELSE UNION {IF Promise!Bypasses(e.x)
                THEN {[from |-> p, in |-> a.in, out |-> a.out, to |-> <<a.to, p[2]>>]}
                ELSE {[from |-> p, in |-> a.in, out |-> b.out, to |-> <<a.to, b.to>>] :
                        b \in Promise!Intersection(p[2], e.x)} :
                a \in {c \in Lexicon.arcs[p[1]] : c.out = e.x}}

\* An arc of the result, and one still to be added, as arcs of the product.
Product(a) == [from |-> ProductState(a.from), in |-> a.in, out |-> a.out,
               to |-> ProductState(a.to)]
Built == {Product(a) : a \in result}
Planned(t) == [from |-> ProductState(state), in |-> t.in, out |-> t.out,
               to |-> <<t.to[1], RuleStates(t.to[2])>>]
ToBuild == {Planned(todo[i]) : i \in DOMAIN todo}

\* The arcs of the product from a state of the result, and of those at the state at
\* hand the ones of an entry.
ArcsFrom(s) == Promise!Composed(ProductState(s))
ArcsHere(e) == EntryArcs(ProductState(state), e)

\* Only arcs of the product are there, all of those of the states computed, and of
\* the state at hand those of the symbols handled.
OnlyArcs == \A a \in result : Product(a) \in ArcsFrom(a.from)
StatesBuilt ==
    \A s \in 0 .. Len(lexPairs) - 1 :
        s < FirstLeft /\ (s = state => pc = "next") => ArcsFrom(s) \subseteq Built
SymbolsBuilt ==
    AtState => /\ Range(symbols) \subseteq Entries(LexState)
               /\ \A e \in Entries(LexState) \ Range(symbols) : ArcsHere(e) \subseteq Built
TodoBuilds ==
    pc = "add" => /\ ToBuild \subseteq ArcsHere(Head(symbols))
                  /\ ArcsHere(Head(symbols)) \subseteq Built \cup ToBuild
BuiltInv == pc # "done" => OnlyArcs /\ StatesBuilt /\ SymbolsBuilt /\ TodoBuilds

\* Where a call does what HfstTransducer.h says of it: of two rules none has a flag
\* diacritic in its alphabet, which known_symbol could not tell, and a single rule
\* is composed the plain way round, as its result is never inverted back.
AsPromised(p) ==
    /\ p.invert => Len(p.rules) = 2
    /\ Len(p.rules) = 2 => \A i \in DOMAIN p.rules : p.rules[i].symbols \cap FlagSymbols = {}

LEMMA InBuilt == \A x : x \in Built <=> \E a \in result : x = Product(a)
BY DEF Built

LEMMA InToBuild == \A x : x \in ToBuild <=> \E i \in DOMAIN todo : x = Planned(todo[i])
BY DEF ToBuild

\* The arcs of a product state are those of the symbols of its lexicon state, and
\* of the rules' epsilons.
LEMMA ComposedEntries ==
    ASSUME NEW p, NEW a
    PROVE  a \in Promise!Composed(p) <=> \E e \in Entries(p[1]) : a \in EntryArcs(p, e)
<1> DEFINE Step(c) == [from |-> p, in |-> c.in, out |-> c.out, to |-> <<c.to, p[2]>>]
           Both(c, b) == [from |-> p, in |-> c.in, out |-> b.out, to |-> <<c.to, b.to>>]
           Rule(b) == [from |-> p, in |-> EPSILON, out |-> b.out, to |-> <<p[1], b.to>>]
           L == Lexicon.arcs[p[1]]
           R(x) == Promise!Intersection(p[2], x)
           By(x) == Promise!Bypasses(x)
<1>1. a \in Promise!Composed(p) <=>
        \/ \E c \in L : By(c.out) /\ a = Step(c)
        \/ \E c \in L : ~By(c.out) /\ \E b \in R(c.out) : a = Both(c, b)
        \/ \E b \in R(EPSILON) : a = Rule(b)
  <2> HIDE DEF R, By
  <2> DEFINE Of(c) == {Both(c, b) : b \in R(c.out)}
             S1 == {Step(c) : c \in {b \in L : By(b.out)}}
             S2 == UNION {Of(c) : c \in {d \in L : ~By(d.out)}}
             S3 == {Rule(b) : b \in R(EPSILON)}
  <2>1. Promise!Composed(p) = S1 \cup S2 \cup S3
    BY SameProblem DEF Promise!Composed, R, By
  <2>2. \A c : a \in Of(c) <=> \E b \in R(c.out) : a = Both(c, b)
    OBVIOUS
  <2>3. a \in S2 <=> \E c \in L : ~By(c.out) /\ a \in Of(c)
    <3> HIDE DEF Of, L
    <3> QED
      OBVIOUS
  <2>4. a \in S1 <=> \E c \in L : By(c.out) /\ a = Step(c)
    <3> HIDE DEF Step, L
    <3> QED
      OBVIOUS
  <2>5. a \in S3 <=> \E b \in R(EPSILON) : a = Rule(b)
    OBVIOUS
  <2> HIDE DEF S1, S2, S3
  <2>6. a \in Promise!Composed(p) <=> a \in S1 \/ a \in S2 \/ a \in S3
    BY <2>1
  <2> QED
    BY <2>2, <2>3, <2>4, <2>5, <2>6
<1>2. \A e : e.rule => (a \in EntryArcs(p, e) <=> \E b \in R(EPSILON) : a = Rule(b))
  BY DEF EntryArcs
<1>3. \A e : ~e.rule =>
        (a \in EntryArcs(p, e) <=>
           \E c \in L : c.out = e.x /\ IF By(e.x) THEN a = Step(c)
                                       ELSE \E b \in R(e.x) : a = Both(c, b))
  <2> TAKE e
  <2> HAVE ~e.rule
  <2> DEFINE x == e.x
             Of(c) == IF By(x) THEN {Step(c)} ELSE {Both(c, b) : b \in R(x)}
  <2>1. EntryArcs(p, e) = UNION {Of(c) : c \in {d \in L : d.out = x}}
    BY DEF EntryArcs
  <2>2. \A c : a \in Of(c) <=> IF By(x) THEN a = Step(c) ELSE \E b \in R(x) : a = Both(c, b)
    OBVIOUS
  <2> HIDE DEF Of
  <2>3. a \in EntryArcs(p, e) <=> \E c \in L : c.out = x /\ a \in Of(c)
    BY <2>1
  <2> HIDE DEF Step, Both, L, R, By
  <2> QED
    BY <2>2, <2>3
<1>4. \A e : e \in Entries(p[1]) <=>
        (\E c \in L : e = [x |-> c.out, rule |-> FALSE]) \/ e = [x |-> EPSILON, rule |-> TRUE]
  BY DEF Entries
<1> DEFINE plain(c) == [x |-> c.out, rule |-> FALSE]
           last == [x |-> EPSILON, rule |-> TRUE]
<1>5. last.rule /\ \A c : ~plain(c).rule /\ plain(c).x = c.out
  OBVIOUS
<1> HIDE DEF Step, Both, Rule, L, R, By, plain, last
<1>6. \A e : e \in Entries(p[1]) <=> (\E c \in L : e = plain(c)) \/ e = last
  BY <1>4 DEF plain, last
<1>7. a \in EntryArcs(p, last) <=> \E b \in R(EPSILON) : a = Rule(b)
  BY <1>2, <1>5
<1>8. \A d : a \in EntryArcs(p, plain(d)) <=>
        \E c \in L : c.out = d.out /\ IF By(d.out) THEN a = Step(c)
                                      ELSE \E b \in R(d.out) : a = Both(c, b)
  BY <1>3, <1>5
<1>9. ASSUME a \in Promise!Composed(p) PROVE \E e \in Entries(p[1]) : a \in EntryArcs(p, e)
  <2>1. CASE \E c \in L : By(c.out) /\ a = Step(c)
    BY <2>1, <1>6, <1>8
  <2>2. CASE \E c \in L : ~By(c.out) /\ \E b \in R(c.out) : a = Both(c, b)
    BY <2>2, <1>6, <1>8
  <2>3. CASE \E b \in R(EPSILON) : a = Rule(b)
    BY <2>3, <1>6, <1>7
  <2> QED
    BY <1>1, <1>9, <2>1, <2>2, <2>3
<1>10. ASSUME NEW e \in Entries(p[1]), a \in EntryArcs(p, e) PROVE a \in Promise!Composed(p)
  <2>1. CASE e = last
    BY <2>1, <1>1, <1>7, <1>10
  <2>2. CASE \E d \in L : e = plain(d)
    <3> PICK d \in L : e = plain(d)
      BY <2>2
    <3>1. PICK c \in L : c.out = d.out /\ IF By(d.out) THEN a = Step(c)
                                          ELSE \E b \in R(d.out) : a = Both(c, b)
      BY <1>8, <1>10
    <3> QED
      BY <1>1, <3>1
  <2> QED
    BY <1>6, <2>1, <2>2
<1> QED
  BY <1>9, <1>10

\* Skipping a symbol is what the composition promises for it.
LEMMA SkipsBypasses ==
    ASSUME Types, AsPromised(problem)
    PROVE  Skips <=> ~Head(symbols).rule /\ Promise!Bypasses(Head(symbols).x)
<1> DEFINE x == Head(symbols).x
<1>1. /\ DOMAIN Rules = 1 .. Len(Rules) /\ Len(Rules) \in {1, 2}
      /\ Len(problem.rules) = Len(Rules) /\ DOMAIN problem.rules = DOMAIN Rules
  BY ProblemFacts DEF Types
<1>2. \A i \in DOMAIN Rules : Rules[i].symbols = problem.rules[i].symbols
  BY <1>1 DEF Rules, Inverted
<1>3. Promise!Bypasses(x) <=>
        x = EPSILON \/ (x \in FlagSymbols /\ \A i \in DOMAIN Rules : x \notin Rules[i].symbols)
  BY SameProblem DEF Promise!Bypasses
<1>4. CASE Paired
  <2>1. \A i \in DOMAIN Rules : Rules[i].symbols \cap FlagSymbols = {}
    BY <1>1, <1>2, <1>4 DEF AsPromised, Paired
  <2>2. ~RulesKnow(x)
    BY <1>4 DEF RulesKnow
  <2> HIDE DEF x
  <2> QED
    BY <1>3, <2>1, <2>2 DEF Skips, x
<1>5. CASE ~Paired
  <2>1. DOMAIN Rules = {1}
    BY <1>5, OneRuleFacts
  <2>2. RulesKnow(x) <=> x \in Rules[1].symbols
    BY <1>5 DEF RulesKnow
  <2> HIDE DEF x
  <2> QED
    BY <1>3, <2>1, <2>2 DEF Skips, x
<1> QED
  BY <1>4, <1>5

\* What is numbered keeps what it stands for while the vectors grow.
LEMMA Kept ==
    ASSUME Types, UNCHANGED problem, Extends(lexPairs, lexPairs'),
           Paired => Extends(rulePairs, rulePairs')
    PROVE  /\ \A r \in RuleNumbers : RuleStates(r)' = RuleStates(r)
           /\ \A s \in 0 .. Len(lexPairs) - 1 :
                ProductState(s)' = ProductState(s) /\ lexPairs'[s + 1] = lexPairs[s + 1]
           /\ \A a \in result : Product(a)' = Product(a)
           /\ \A p : Promise!Composed(p)' = Promise!Composed(p)
           /\ \A p, e : EntryArcs(p, e)' = EntryArcs(p, e)
           /\ \A s : Entries(s)' = Entries(s)
<1>1. /\ Lexicon' = Lexicon /\ Rules' = Rules /\ Paired' = Paired
  BY DEF Lexicon, Rules, Paired
<1>2. ASSUME NEW r \in RuleNumbers PROVE RuleStates(r)' = RuleStates(r)
  <2>1. CASE Paired
    <3>1. r + 1 \in 1 .. Len(rulePairs)
      BY <2>1, PairFacts
    <3>2. rulePairs'[r + 1] = rulePairs[r + 1]
      BY <2>1, <3>1 DEF Extends
    <3> QED
      BY <1>1, <2>1, <3>2 DEF RuleStates
  <2>2. CASE ~Paired
    BY <1>1, <2>2 DEF RuleStates
  <2> QED
    BY <2>1, <2>2
<1>3. ASSUME NEW s \in 0 .. Len(lexPairs) - 1
      PROVE  ProductState(s)' = ProductState(s) /\ lexPairs'[s + 1] = lexPairs[s + 1]
  <2>1. s + 1 \in 1 .. Len(lexPairs) /\ lexPairs \in Seq(Targets)
    BY DEF Types
  <2>2. lexPairs'[s + 1] = lexPairs[s + 1] /\ lexPairs[s + 1] \in Targets
    BY <2>1 DEF Extends
  <2>3. lexPairs[s + 1][2] \in RuleNumbers
    BY <2>2 DEF Targets
  <2>4. RuleStates(lexPairs[s + 1][2])' = RuleStates(lexPairs[s + 1][2])
    <3> DEFINE r == lexPairs[s + 1][2]
    <3>1. r' = r
      BY <2>2
    <3>2. RuleStates(r)' = RuleStates(r)
      <4>1. CASE Paired
        <5>1. r + 1 \in 1 .. Len(rulePairs)
          BY <2>3, <4>1, PairFacts
        <5>2. rulePairs'[r + 1] = rulePairs[r + 1]
          BY <4>1, <5>1 DEF Extends
        <5> QED
          BY <1>1, <3>1, <4>1, <5>2 DEF RuleStates
      <4>2. CASE ~Paired
        BY <1>1, <3>1, <4>2 DEF RuleStates
      <4> QED
        BY <4>1, <4>2
    <3> QED
      BY <3>2
  <2> QED
    BY <2>2, <2>4 DEF ProductState
<1>4. ASSUME NEW a \in result PROVE Product(a)' = Product(a)
  <2>1. a.from \in 0 .. Len(lexPairs) - 1 /\ a.to \in 0 .. Len(lexPairs) - 1
    BY DEF Types
  <2>2. ProductState(a.from)' = ProductState(a.from) /\ ProductState(a.to)' = ProductState(a.to)
    BY <1>3, <2>1
  <2> QED
    BY <2>2 DEF Product
<1>5. \A x : Promise!Bypasses(x)' = Promise!Bypasses(x)
  BY DEF Promise!Bypasses, Promise!Rules
<1>6. \A r, x : Promise!Intersection(r, x)' = Promise!Intersection(r, x)
  BY DEF Promise!Intersection, Promise!Reading, Promise!Rules
<1>7. \A p : Promise!Composed(p)' = Promise!Composed(p)
  BY DEF Promise!Composed, Promise!Bypasses, Promise!Intersection, Promise!Reading,
         Promise!Rules, Promise!Lexicon
<1>8. \A p, e : EntryArcs(p, e)' = EntryArcs(p, e)
  BY <1>1 DEF EntryArcs, Promise!Bypasses, Promise!Intersection, Promise!Reading,
         Promise!Rules
<1>9. \A s : Entries(s)' = Entries(s)
  BY <1>1 DEF Entries
<1> QED
  BY <1>2, <1>3, <1>4, <1>7, <1>8, <1>9
\* A step that only adds to the result keeps what has been built.
LEMMA BuiltKept ==
    ASSUME Types, UNCHANGED problem, Extends(lexPairs, lexPairs'),
           Paired => Extends(rulePairs, rulePairs'), result \subseteq result'
    PROVE  /\ \A s \in 0 .. Len(lexPairs) - 1 : ArcsFrom(s)' = ArcsFrom(s)
           /\ Built \subseteq Built'
           /\ result' = result => Built' = Built
           /\ \A a \in result : Product(a)' = Product(a) /\ a.from \in 0 .. Len(lexPairs) - 1
           /\ \A s : Entries(s)' = Entries(s)
<1>1. /\ \A s \in 0 .. Len(lexPairs) - 1 : ProductState(s)' = ProductState(s)
      /\ \A a \in result : Product(a)' = Product(a)
      /\ \A p : Promise!Composed(p)' = Promise!Composed(p)
      /\ \A s : Entries(s)' = Entries(s)
  BY Kept
<1>2. ASSUME NEW s \in 0 .. Len(lexPairs) - 1 PROVE ArcsFrom(s)' = ArcsFrom(s)
  BY <1>1 DEF ArcsFrom
<1>3. \A a \in result : a.from \in 0 .. Len(lexPairs) - 1
  BY DEF Types
<1>4. Built \subseteq Built' /\ (result' = result => Built' = Built)
  BY <1>1 DEF Built
<1> QED
  BY <1>1, <1>2, <1>3, <1>4

\* The same for a step that stays at its state.
LEMMA HereKept ==
    ASSUME Types, AgendaInv, UNCHANGED <<problem, state>>, Extends(lexPairs, lexPairs'),
           Paired => Extends(rulePairs, rulePairs')
    PROVE  /\ \A e : ArcsHere(e)' = ArcsHere(e)
           /\ LexState' = LexState /\ RuleState' = RuleState
           /\ \A t \in ToAdd : Planned(t)' = Planned(t)
<1>1. /\ \A r \in RuleNumbers : RuleStates(r)' = RuleStates(r)
      /\ ProductState(state)' = ProductState(state) /\ lexPairs'[state + 1] = lexPairs[state + 1]
      /\ \A p, e : EntryArcs(p, e)' = EntryArcs(p, e)
  <2>1. state \in 0 .. Len(lexPairs) - 1
    BY DEF AgendaInv
  <2>2. /\ \A r \in RuleNumbers : RuleStates(r)' = RuleStates(r)
        /\ \A s \in 0 .. Len(lexPairs) - 1 :
             ProductState(s)' = ProductState(s) /\ lexPairs'[s + 1] = lexPairs[s + 1]
        /\ \A p, e : EntryArcs(p, e)' = EntryArcs(p, e)
    BY Kept
  <2>3. ProductState(state)' = ProductState(state)
    <3>1. lexPairs'[state + 1] = lexPairs[state + 1] /\ RuleState \in RuleNumbers
      BY <2>1, <2>2, StateFacts
    <3>2. RuleStates(RuleState)' = RuleStates(RuleState)
      BY <2>2, <3>1 DEF RuleState
    <3> QED
      BY <3>1, <3>2 DEF ProductState, RuleState
  <2> QED
    BY <2>1, <2>2, <2>3
<1>2. \A e : ArcsHere(e)' = ArcsHere(e)
  BY <1>1 DEF ArcsHere
<1>3. ASSUME NEW t \in ToAdd PROVE Planned(t)' = Planned(t)
  <2>1. t.to[2] \in RuleNumbers
    BY DEF ToAdd, Targets
  <2>2. RuleStates(t.to[2])' = RuleStates(t.to[2])
    BY <1>1, <2>1
  <2> QED
    BY <1>1, <2>2 DEF Planned
<1> QED
  BY <1>1, <1>2, <1>3 DEF LexState, RuleState
-----------------------------------------------------------------------------
(* The construction, action by action *)

\* The merge and the cache number pairs of the rules, and build nothing.
LEMMA BuiltMerge ==
    ASSUME IInv, BuiltInv, ComputeTransitionSet \/ MergeEqual \/ MergeSkip \/ MergeDone
    PROVE  BuiltInv' /\ (Paired => Extends(rulePairs, rulePairs'))
<1>1. /\ UNCHANGED <<problem, lexPairs, agenda, result, state, symbols>>
      /\ pc \in {"symbol", "merge"} /\ pc' \in {"symbol", "merge"}
  BY DEF ComputeTransitionSet, MergeEqual, MergeSkip, MergeDone, lexVars
<1>2. Paired => Extends(rulePairs, rulePairs')
  <2>1. CASE MergeEqual
    BY <2>1, TypesMergeEqual
  <2>2. CASE ComputeTransitionSet \/ MergeSkip \/ MergeDone
    <3> SUFFICES ASSUME Paired PROVE Extends(rulePairs, rulePairs')
      OBVIOUS
    <3>1. rulePairs' = rulePairs /\ Len(rulePairs) \in Nat
      BY <2>2 DEF ComputeTransitionSet, MergeSkip, MergeDone, IInv, Types
    <3> QED
      BY <3>1 DEF Extends
  <2> QED
    BY <2>1, <2>2
<1>3. Extends(lexPairs, lexPairs') /\ Len(lexPairs) \in Nat
  BY <1>1, StateFacts DEF Extends, IInv
<1>4. /\ \A s \in 0 .. Len(lexPairs) - 1 : ArcsFrom(s)' = ArcsFrom(s)
      /\ Built' = Built
      /\ \A a \in result : Product(a)' = Product(a) /\ a.from \in 0 .. Len(lexPairs) - 1
      /\ \A s : Entries(s)' = Entries(s)
  BY <1>1, <1>2, <1>3, BuiltKept DEF IInv
<1>5. (\A e : ArcsHere(e)' = ArcsHere(e)) /\ LexState' = LexState
  BY <1>1, <1>2, <1>3, HereKept DEF IInv
<1>6. FirstLeft' = FirstLeft
  BY <1>1 DEF FirstLeft
<1>7. OnlyArcs /\ StatesBuilt /\ SymbolsBuilt
  BY <1>1 DEF BuiltInv
<1>8. OnlyArcs'
  BY <1>1, <1>4, <1>7 DEF OnlyArcs
<1>9. StatesBuilt'
  BY <1>1, <1>4, <1>6, <1>7 DEF StatesBuilt
<1>10. SymbolsBuilt'
  BY <1>1, <1>4, <1>5, <1>7 DEF SymbolsBuilt, AtState
<1>11. TodoBuilds'
  BY <1>1 DEF TodoBuilds
<1> QED
  BY <1>2, <1>8, <1>9, <1>10, <1>11 DEF BuiltInv

\* compute_state: all symbols of the new state are still to be handled.
LEMMA BuiltComputeState ==
    ASSUME IInv, BuiltInv, ComputeState
    PROVE  BuiltInv'
<1>1. /\ UNCHANGED <<problem, rulePairs, lexPairs, result>>
      /\ pc = "next" /\ pc' = "symbol" /\ agenda # << >> /\ state' = Head(agenda)
  BY DEF ComputeState, ruleVars
<1>2. Extends(lexPairs, lexPairs') /\ Len(lexPairs) \in Nat
  BY <1>1, StateFacts DEF Extends, IInv
<1>3. Paired => Extends(rulePairs, rulePairs')
  BY <1>1 DEF IInv, Types, Extends
<1>4. /\ \A s \in 0 .. Len(lexPairs) - 1 : ArcsFrom(s)' = ArcsFrom(s)
      /\ Built' = Built
      /\ \A a \in result : Product(a)' = Product(a) /\ a.from \in 0 .. Len(lexPairs) - 1
      /\ \A s : Entries(s)' = Entries(s)
  BY <1>1, <1>2, <1>3, BuiltKept DEF IInv
<1>5. state' = FirstLeft /\ FirstLeft' = FirstLeft + 1 /\ FirstLeft \in Nat
  <2>1. FirstLeft \in Nat /\ FirstLeft <= Len(lexPairs) /\ agenda = Rest(FirstLeft, Len(lexPairs))
    BY StateFacts DEF IInv, AgendaInv
  <2>2. FirstLeft < Len(lexPairs)
    BY <1>1, <1>2, <2>1, RestIsSequence
  <2>3. Head(agenda) = FirstLeft
    BY <1>2, <2>1, <2>2, RestIsSequence
  <2>4. AgendaInv'
    BY AgendaStep DEF IInv, Next
  <2>5. FirstLeft' = state' + 1
    BY <1>1, <2>4 DEF AgendaInv
  <2> QED
    BY <1>1, <2>1, <2>3, <2>5
<1>6. OnlyArcs /\ StatesBuilt
  BY <1>1 DEF BuiltInv
<1>7. OnlyArcs'
  BY <1>1, <1>4, <1>6 DEF OnlyArcs
<1>8. StatesBuilt'
  <2> SUFFICES ASSUME NEW s \in 0 .. Len(lexPairs) - 1, s < FirstLeft + 1, s # FirstLeft
               PROVE  ArcsFrom(s)' \subseteq Built'
    BY <1>1, <1>5 DEF StatesBuilt
  <2>1. s < FirstLeft
    BY <1>5
  <2>2. ArcsFrom(s) \subseteq Built
    BY <1>1, <1>6, <2>1 DEF StatesBuilt
  <2> QED
    BY <1>4, <2>2
<1>9. SymbolsBuilt'
  <2>1. Range(symbols)' = Entries(LexState)'
    <3>1. Range(symbols') = Entries(lexPairs[state' + 1][1])
      BY SymbolsOfState DEF IInv
    <3>2. LexState' = lexPairs[state' + 1][1]
      BY <1>1 DEF LexState
    <3>3. Entries(LexState)' = Entries(lexPairs[state' + 1][1])
      BY <1>4, <3>2
    <3> QED
      BY <3>1, <3>3
  <2> QED
    BY <2>1 DEF SymbolsBuilt
<1>10. TodoBuilds'
  BY <1>1 DEF TodoBuilds
<1> QED
  BY <1>7, <1>8, <1>9, <1>10 DEF BuiltInv
\* The product's arcs for the symbol at hand.
LEMMA InArcsHere ==
    ASSUME NEW h, NEW w
    PROVE  LET p == ProductState(state)
               Lex == {a \in Lexicon.arcs[LexState] : a.out = h.x}
               Step == Promise!Intersection(RuleStates(RuleState), h.x)
           IN  /\ h.rule => (w \in ArcsHere(h) <=>
                    \E b \in Promise!Intersection(RuleStates(RuleState), EPSILON) :
                      w = [from |-> p, in |-> EPSILON, out |-> b.out, to |-> <<LexState, b.to>>])
               /\ ~h.rule /\ Promise!Bypasses(h.x) => (w \in ArcsHere(h) <=>
                    \E a \in Lex : w = [from |-> p, in |-> a.in, out |-> a.out,
                                        to |-> <<a.to, RuleStates(RuleState)>>])
               /\ ~h.rule /\ ~Promise!Bypasses(h.x) => (w \in ArcsHere(h) <=>
                    \E a \in Lex, b \in Step : w = [from |-> p, in |-> a.in, out |-> b.out,
                                                    to |-> <<a.to, b.to>>])
<1> DEFINE p == ProductState(state)
           Lex == {a \in Lexicon.arcs[LexState] : a.out = h.x}
           R == RuleStates(RuleState)
           I(x) == Promise!Intersection(R, x)
           Rule(b) == [from |-> p, in |-> EPSILON, out |-> b.out, to |-> <<LexState, b.to>>]
           Step(a) == [from |-> p, in |-> a.in, out |-> a.out, to |-> <<a.to, R>>]
           Both(a, b) == [from |-> p, in |-> a.in, out |-> b.out, to |-> <<a.to, b.to>>]
<1>1. p[1] = LexState /\ p[2] = R
  BY DEF ProductState, LexState, RuleState
<1> HIDE DEF p, R
<1>2. h.rule => ArcsHere(h) = {Rule(b) : b \in I(EPSILON)}
  BY <1>1 DEF ArcsHere, EntryArcs, p
<1>3. ~h.rule /\ Promise!Bypasses(h.x) => ArcsHere(h) = UNION {{Step(a)} : a \in Lex}
  BY <1>1 DEF ArcsHere, EntryArcs, p
<1>4. ~h.rule /\ ~Promise!Bypasses(h.x) => ArcsHere(h) = UNION {{Both(a, b) : b \in I(h.x)} : a \in Lex}
  BY <1>1 DEF ArcsHere, EntryArcs, p
<1> HIDE DEF Lex, I, Rule, Step, Both
<1>5. h.rule => (w \in ArcsHere(h) <=> \E b \in I(EPSILON) : w = Rule(b))
  BY <1>2
<1>6. ~h.rule /\ Promise!Bypasses(h.x) => (w \in ArcsHere(h) <=> \E a \in Lex : w = Step(a))
  BY <1>3
<1>7. ~h.rule /\ ~Promise!Bypasses(h.x) => (w \in ArcsHere(h) <=> \E a \in Lex, b \in I(h.x) : w = Both(a, b))
  BY <1>4
<1> QED
  BY <1>5, <1>6, <1>7 DEF p, R, Lex, I, Rule, Step, Both

\* The arcs a symbol is to add are the product's.
LEMMA TodoIsArcsHere ==
    ASSUME IInv, BuiltInv, AsPromised(problem), SkipSymbol \/ Compose
    PROVE  /\ todo' \in Seq(ToAdd)
           /\ {Planned(t) : t \in Range(todo')} = ArcsHere(Head(symbols))
<1> DEFINE h == Head(symbols)
           R(r) == RuleStates(r)
           p == ProductState(state)
           K == 1 .. Len(RuleArcs)
           I(x) == Promise!Intersection(R(RuleState), x)
           T == Range(todo')
<1>1. AtState
  BY DEF SkipSymbol, Compose, AtState
<1>2. Skips <=> ~h.rule /\ Promise!Bypasses(h.x)
  BY SkipsBypasses DEF IInv
<1>3. todo' \in Seq(ToAdd)
  BY SkipSymbolTodo, ComposeTodo
<1>4. h.rule => h.x = EPSILON
  <2>1. symbols \in Seq(Entry) /\ symbols # << >> /\ Range(symbols) \subseteq Entries(LexState)
    BY <1>1 DEF IInv, Types, Entry, BuiltInv, SymbolsBuilt, AtState
  <2>2. h \in Entries(LexState)
    BY <2>1, HeadAndTail
  <2> QED
    BY <2>2 DEF Entries
<1>5. ASSUME NEW w PROVE w \in {Planned(t) : t \in T} <=> w \in ArcsHere(h)
  <2>1. CASE SkipSymbol
    <3>1. ~h.rule /\ Promise!Bypasses(h.x)
      BY <1>2, <2>1 DEF SkipSymbol
    <3> DEFINE planned(a) == [in |-> a.in, out |-> a.out, to |-> <<a.to, RuleState>>]
               arc(a) == [from |-> p, in |-> a.in, out |-> a.out, to |-> <<a.to, R(RuleState)>>]
    <3>2. w \in ArcsHere(h) <=> \E a \in ArcsForSymbol : w = arc(a)
      BY <3>1, InArcsHere DEF ArcsForSymbol
    <3>3. \A t : t \in T <=> \E a \in ArcsForSymbol : t = planned(a)
      BY <2>1, SkipSymbolTodo
    <3>4. \A a : Planned(planned(a)) = arc(a)
      BY DEF Planned
    <3> HIDE DEF T, h, planned, arc
    <3> QED
      BY <3>2, <3>3, <3>4
  <2>2. CASE Compose
    <3>1. ~Skips /\ (Paired => Asked \in DOMAIN cache)
      BY <2>2 DEF Compose
    <3>2. \A e : e \in I(h.x) <=> \E i \in K : e = [out |-> RuleArcs[i].out, to |-> R(RuleArcs[i].to)]
      BY <1>1, <3>1, RuleArcsList
    <3>3. CASE h.rule
      <4>1. w \in ArcsHere(h) <=> \E b \in I(EPSILON) :
              w = [from |-> p, in |-> EPSILON, out |-> b.out, to |-> <<LexState, b.to>>]
        BY <3>3, InArcsHere
      <4>2. h.x = EPSILON
        BY <1>4, <3>3
      <4>3. \A t : t \in T <=> \E i \in K :
                     t = [in |-> EPSILON, out |-> RuleArcs[i].out, to |-> <<LexState, RuleArcs[i].to>>]
        BY <2>2, <3>3, ComposeTodo
      <4> DEFINE planned(i) == [in |-> EPSILON, out |-> RuleArcs[i].out, to |-> <<LexState, RuleArcs[i].to>>]
                 arc(b) == [from |-> p, in |-> EPSILON, out |-> b.out, to |-> <<LexState, b.to>>]
                 step(i) == [out |-> RuleArcs[i].out, to |-> R(RuleArcs[i].to)]
      <4>4. \A i : Planned(planned(i)) = arc(step(i))
        BY DEF Planned
      <4>5. \A t : t \in T <=> \E i \in K : t = planned(i)
        BY <4>3
      <4>6. \A e : e \in I(EPSILON) <=> \E i \in K : e = step(i)
        BY <3>2, <4>2
      <4>7. w \in ArcsHere(h) <=> \E b \in I(EPSILON) : w = arc(b)
        BY <4>1
      <4> HIDE DEF T, I, K, planned, arc, step, h
      <4> QED
        BY <4>4, <4>5, <4>6, <4>7
    <3>4. CASE ~h.rule
      <4> DEFINE planned(a, i) == [in |-> a.in, out |-> RuleArcs[i].out, to |-> <<a.to, RuleArcs[i].to>>]
                 arc(a, b) == [from |-> p, in |-> a.in, out |-> b.out, to |-> <<a.to, b.to>>]
                 step(i) == [out |-> RuleArcs[i].out, to |-> R(RuleArcs[i].to)]
      <4>1. w \in ArcsHere(h) <=> \E a \in ArcsForSymbol, b \in I(h.x) : w = arc(a, b)
        BY <1>2, <3>1, <3>4, InArcsHere DEF ArcsForSymbol
      <4>2. \A t : t \in T <=> \E a \in ArcsForSymbol, i \in K : t = planned(a, i)
        BY <2>2, <3>4, ComposeTodo
      <4>3. \A a, i : Planned(planned(a, i)) = arc(a, step(i))
        BY DEF Planned
      <4>4. \A e : e \in I(h.x) <=> \E i \in K : e = step(i)
        BY <3>2
      <4> HIDE DEF T, I, K, planned, arc, step, h
      <4> QED
        BY <4>1, <4>2, <4>3, <4>4
    <3> QED
      BY <3>3, <3>4
  <2> QED
    BY <2>1, <2>2
<1> QED
  BY <1>3, <1>5

\* The arc AddArc adds is the one planned, and its target is the only state that
\* may be new.
LEMMA ArcAdded ==
    ASSUME IInv, AddArc
    PROVE  LET t == Head(todo)
               arc(k) == [from |-> state, in |-> t.in, out |-> t.out, to |-> k]
           IN  /\ t \in ToAdd /\ Extends(lexPairs, lexPairs')
               /\ Paired => Extends(rulePairs, rulePairs')
               /\ UNCHANGED <<problem, state>> /\ Len(lexPairs') \in Nat
               /\ \E k \in 0 .. Len(lexPairs') - 1 : \E b :
                    /\ b = arc(k) /\ result' = result \cup {b}
                    /\ Product(b)' = Planned(t) /\ ProductState(k)' = Planned(t).to
               /\ \A s \in 0 .. Len(lexPairs') - 1 :
                    s \in 0 .. Len(lexPairs) - 1 \/ ProductState(s)' = Planned(t).to
               /\ Built' = Built \cup {Planned(t)}
               /\ ToBuild = {Planned(t)} \cup ToBuild'
<1> DEFINE t == Head(todo)
           arc(k) == [from |-> state, in |-> t.in, out |-> t.out, to |-> k]
<1>1. /\ UNCHANGED <<problem, rulePairs, state>> /\ pc = "add" /\ todo # << >>
      /\ todo' = Tail(todo)
  BY DEF AddArc, ruleVars
<1>2. PICK k : /\ k = NumberOf(lexPairs', t.to)
               /\ t \in ToAdd /\ Tail(todo) \in Seq(ToAdd)
               /\ lexPairs' \in Seq(Targets) /\ Extends(lexPairs, lexPairs')
               /\ k \in 0 .. Len(lexPairs') - 1 /\ lexPairs'[k + 1] = t.to
               /\ \A i \in 1 .. Len(lexPairs') : i \in 1 .. Len(lexPairs) \/ lexPairs'[i] = t.to
               /\ result' = result \cup {arc(k)}
  <2> DEFINE n == NumberOf(lexPairs', t.to)
  <2>1. /\ t \in ToAdd /\ Tail(todo) \in Seq(ToAdd)
        /\ lexPairs' \in Seq(Targets) /\ Extends(lexPairs, lexPairs')
        /\ n \in 0 .. Len(lexPairs') - 1 /\ lexPairs'[n + 1] = t.to
        /\ \A i \in 1 .. Len(lexPairs') : i \in 1 .. Len(lexPairs) \/ lexPairs'[i] = t.to
        /\ result' = result \cup {arc(n)}
    BY AddArcFacts
  <2> HIDE DEF t, n, arc
  <2> QED
    BY <2>1 DEF n
<1>3. /\ Paired => Extends(rulePairs, rulePairs')
      /\ Len(lexPairs') \in Nat /\ Len(lexPairs) \in Nat
  BY <1>1, <1>2, StateFacts DEF IInv, Types, Extends
<1>4. /\ \A e : ArcsHere(e)' = ArcsHere(e)
      /\ \A u \in ToAdd : Planned(u)' = Planned(u)
  BY <1>1, <1>2, <1>3, HereKept DEF IInv
<1>5. ProductState(state)' = ProductState(state)
  BY <1>1, <1>2, <1>3, Kept, StateFacts DEF IInv, ProductState, RuleStates
<1>6. ASSUME NEW s \in 0 .. Len(lexPairs') - 1, lexPairs'[s + 1] = t.to
      PROVE  ProductState(s)' = Planned(t).to
  <2>1. Paired' = Paired
    BY <1>1 DEF Paired, Rules
  <2>2. \A r : RuleStates(r)' = RuleStates(r)
    BY <1>1, <2>1 DEF RuleStates
  <2>3. ProductState(s)' = <<t.to[1], RuleStates(t.to[2])>>
    <3> DEFINE v == t.to
    <3>1. lexPairs'[s + 1] = v
      BY <1>6
    <3>2. RuleStates(v[2])' = IF Paired THEN rulePairs[v'[2] + 1] ELSE <<v'[2]>>
      BY <1>1, <2>1 DEF RuleStates
    <3>3. ProductState(s)' = <<lexPairs'[s + 1][1], IF Paired THEN rulePairs[lexPairs'[s + 1][2] + 1]
                                                  ELSE <<lexPairs'[s + 1][2]>> >>
      BY <1>1, <2>1 DEF ProductState, RuleStates
    <3> QED
      BY <3>1, <3>3 DEF RuleStates
  <2> QED
    BY <2>3 DEF Planned
<1>7. ProductState(k)' = Planned(t).to
  BY <1>2, <1>6
<1>8. \A s \in 0 .. Len(lexPairs') - 1 :
        s \in 0 .. Len(lexPairs) - 1 \/ ProductState(s)' = Planned(t).to
  <2> SUFFICES ASSUME NEW s \in 0 .. Len(lexPairs') - 1, s \notin 0 .. Len(lexPairs) - 1
               PROVE  lexPairs'[s + 1] = t.to
    BY <1>6
  <2>1. s + 1 \in 1 .. Len(lexPairs') /\ s + 1 \notin 1 .. Len(lexPairs)
    BY <1>3
  <2> HIDE DEF t
  <2> QED
    BY <1>2, <2>1
<1>9. PICK b : b = arc(k)
  OBVIOUS
<1>10. Product(b)' = Planned(t)
  <2>1. b.from = state /\ b.in = t.in /\ b.out = t.out /\ b.to = k
    BY <1>9
  <2>2. Planned(t) = [from |-> ProductState(state), in |-> t.in, out |-> t.out, to |-> Planned(t).to]
    BY DEF Planned
  <2> HIDE DEF t
  <2>3. Product(b)' = [from |-> ProductState(state)', in |-> b.in, out |-> b.out, to |-> ProductState(k)']
    BY <1>1, <2>1 DEF Product, ProductState, RuleStates
  <2> QED
    BY <1>5, <1>7, <2>1, <2>2, <2>3
<1>11. Built' = Built \cup {Planned(t)}
  <2>1. \A a \in result : Product(a)' = Product(a)
    BY <1>1, <1>2, <1>3, Kept DEF IInv
  <2> HIDE DEF t, arc
  <2>2. \A x : x \in Built' <=> \E a \in result' : x = Product(a)'
    BY DEF Built
  <2>3. result' = result \cup {b}
    BY <1>2, <1>9
  <2> QED
    BY <1>10, <2>1, <2>2, <2>3, InBuilt
<1>12. ToBuild = {Planned(t)} \cup ToBuild'
  <2>1. todo \in Seq(ToAdd)
    BY <1>1 DEF IInv, Types, ToAdd
  <2>2. Range(todo) = {t} \cup Range(Tail(todo)) /\ Range(Tail(todo)) \subseteq ToAdd
    BY <1>1, <2>1, HeadAndTail
  <2>3. ToBuild = {Planned(u) : u \in Range(todo)}
    BY DEF ToBuild, Range
  <2>4. ToBuild' = {Planned(u)' : u \in Range(Tail(todo))}
    BY <1>1 DEF ToBuild, Range
  <2> HIDE DEF t
  <2>5. ToBuild' = {Planned(u) : u \in Range(Tail(todo))}
    BY <1>4, <2>2, <2>4
  <2> QED
    BY <2>2, <2>3, <2>5
<1> QED
  BY <1>1, <1>2, <1>3, <1>7, <1>8, <1>9, <1>10, <1>11, <1>12
\* SkipSymbol and Compose plan the product's arcs for the symbol.
LEMMA BuiltTodo ==
    ASSUME IInv, BuiltInv, AsPromised(problem), SkipSymbol \/ Compose
    PROVE  BuiltInv'
<1>1. /\ UNCHANGED <<problem, rulePairs, lexPairs, agenda, result, state, symbols>>
      /\ pc = "symbol" /\ pc' = "add"
  BY DEF SkipSymbol, Compose, lexVars, ruleVars
<1>2. Extends(lexPairs, lexPairs') /\ Len(lexPairs) \in Nat
  BY <1>1, StateFacts DEF Extends, IInv
<1>3. Paired => Extends(rulePairs, rulePairs')
  BY <1>1 DEF IInv, Types, Extends
<1>4. /\ \A s \in 0 .. Len(lexPairs) - 1 : ArcsFrom(s)' = ArcsFrom(s)
      /\ Built' = Built
      /\ \A a \in result : Product(a)' = Product(a) /\ a.from \in 0 .. Len(lexPairs) - 1
      /\ \A s : Entries(s)' = Entries(s)
  BY <1>1, <1>2, <1>3, BuiltKept DEF IInv
<1>5. /\ \A e : ArcsHere(e)' = ArcsHere(e)
      /\ LexState' = LexState
      /\ \A t \in ToAdd : Planned(t)' = Planned(t)
  BY <1>1, <1>2, <1>3, HereKept DEF IInv
<1>6. FirstLeft' = FirstLeft
  BY <1>1 DEF FirstLeft
<1>7. OnlyArcs /\ StatesBuilt /\ SymbolsBuilt
  BY <1>1 DEF BuiltInv
<1>8. OnlyArcs'
  BY <1>1, <1>4, <1>7 DEF OnlyArcs
<1>9. StatesBuilt'
  BY <1>1, <1>4, <1>6, <1>7 DEF StatesBuilt
<1>10. SymbolsBuilt'
  BY <1>1, <1>4, <1>5, <1>7 DEF SymbolsBuilt, AtState
<1>11. TodoBuilds'
  <2> DEFINE T == Range(todo')
             h == Head(symbols)
  <2>1. todo' \in Seq(ToAdd) /\ {Planned(t) : t \in T} = ArcsHere(h)
    BY TodoIsArcsHere
  <2>2. T \subseteq ToAdd
    BY <2>1 DEF Range
  <2>3. ToBuild' = {Planned(t)' : t \in T}
    BY DEF ToBuild, Range
  <2> HIDE DEF T
  <2>4. ToBuild' = {Planned(t) : t \in T}
    BY <1>5, <2>2, <2>3
  <2>5. ToBuild' = ArcsHere(h)
    BY <2>1, <2>4
  <2>6. ArcsHere(Head(symbols))' = ArcsHere(h)
    BY <1>1, <1>5
  <2> QED
    BY <2>5, <2>6 DEF TodoBuilds
<1> QED
  BY <1>8, <1>9, <1>10, <1>11 DEF BuiltInv

\* AddArc moves one arc from those planned to those built.
LEMMA BuiltAddArc ==
    ASSUME IInv, BuiltInv, AddArc
    PROVE  BuiltInv'
<1> DEFINE t == Head(todo)
           w == Planned(t)
           h == Head(symbols)
<1>1. /\ UNCHANGED <<problem, rulePairs, symbols, state, pc>> /\ pc = "add"
  BY DEF AddArc, ruleVars
<1>1a. PICK k \in 0 .. Len(lexPairs') - 1 : \E b :
        /\ b = [from |-> state, in |-> t.in, out |-> t.out, to |-> k]
        /\ result' = result \cup {b} /\ Product(b)' = w
  BY ArcAdded
<1>2. PICK b :
        /\ b = [from |-> state, in |-> t.in, out |-> t.out, to |-> k]
        /\ result' = result \cup {b} /\ Product(b)' = w
  BY <1>1a
<1>3. /\ Extends(lexPairs, lexPairs') /\ (Paired => Extends(rulePairs, rulePairs'))
      /\ Built' = Built \cup {w} /\ ToBuild = {w} \cup ToBuild'
      /\ Len(lexPairs') \in Nat /\ t \in ToAdd
  BY ArcAdded
<1> HIDE DEF w, t
<1>4. /\ \A s \in 0 .. Len(lexPairs) - 1 : ArcsFrom(s)' = ArcsFrom(s)
      /\ \A a \in result : Product(a)' = Product(a) /\ a.from \in 0 .. Len(lexPairs) - 1
      /\ \A s : Entries(s)' = Entries(s)
  BY <1>1, <1>2, <1>3, BuiltKept DEF IInv
<1>5. (\A e : ArcsHere(e)' = ArcsHere(e)) /\ LexState' = LexState
  BY <1>1, <1>3, HereKept DEF IInv
<1>6. FirstLeft' = state + 1 /\ FirstLeft = state + 1 /\ state \in 0 .. Len(lexPairs) - 1
  <2>1. AgendaInv'
    BY AgendaStep DEF IInv, Next
  <2>2. FirstLeft' = state' + 1
    BY <1>1, <2>1 DEF AgendaInv
  <2> QED
    BY <1>1, <2>2 DEF IInv, AgendaInv
<1>7. OnlyArcs /\ StatesBuilt /\ SymbolsBuilt /\ TodoBuilds
  BY <1>1 DEF BuiltInv
<1>8. h \in Entries(LexState)
  <2>1. symbols \in Seq(Entry) /\ symbols # << >>
    BY <1>1 DEF IInv, Types, Entry, AtState
  <2>2. h \in Range(symbols)
    BY <2>1, HeadAndTail
  <2> QED
    BY <1>1, <1>7, <2>2 DEF SymbolsBuilt, AtState
<1>9. w \in ArcsFrom(state)
  <2>1. w \in ArcsHere(h)
    BY <1>1, <1>3, <1>7 DEF TodoBuilds
  <2>2. ProductState(state)[1] = LexState
    BY DEF ProductState, LexState
  <2> QED
    BY <1>8, <2>1, <2>2, ComposedEntries DEF ArcsHere, ArcsFrom
<1>10. OnlyArcs'
  <2> SUFFICES ASSUME NEW a \in result' PROVE Product(a)' \in ArcsFrom(a.from)'
    BY DEF OnlyArcs
  <2>1. CASE a \in result
    BY <1>4, <1>7, <2>1 DEF OnlyArcs
  <2>2. CASE a = b
    <3>1. a.from = state
      BY <1>2, <2>2
    <3> QED
      BY <1>1, <1>2, <1>6, <1>4, <1>9, <2>2, <3>1
  <2> QED
    BY <1>2, <2>1, <2>2
<1>11. StatesBuilt'
  <2> SUFFICES ASSUME NEW s \in 0 .. Len(lexPairs') - 1, s < state + 1, s # state
               PROVE  ArcsFrom(s)' \subseteq Built'
    BY <1>1, <1>6 DEF StatesBuilt
  <2>1. s \in 0 .. Len(lexPairs) - 1 /\ s < FirstLeft
    BY <1>3, <1>6, StateFacts DEF IInv
  <2>2. ArcsFrom(s) \subseteq Built
    BY <1>7, <2>1 DEF StatesBuilt
  <2> QED
    BY <1>3, <1>4, <2>1, <2>2
<1>12. SymbolsBuilt'
  BY <1>1, <1>3, <1>4, <1>5, <1>7 DEF SymbolsBuilt, AtState
<1>13. TodoBuilds'
  <2>1. ArcsHere(Head(symbols))' = ArcsHere(h)
    BY <1>1, <1>5
  <2>2. ToBuild \subseteq ArcsHere(h) /\ ArcsHere(h) \subseteq Built \cup ToBuild
    BY <1>1, <1>7 DEF TodoBuilds
  <2>3. ToBuild' \subseteq ArcsHere(h) /\ ArcsHere(h) \subseteq Built' \cup ToBuild'
    BY <1>3, <2>2
  <2> QED
    BY <2>1, <2>3 DEF TodoBuilds
<1> QED
  BY <1>10, <1>11, <1>12, <1>13 DEF BuiltInv

\* After the last symbol all arcs of the state are there.
LEMMA BuiltSymbolDone ==
    ASSUME IInv, BuiltInv, SymbolDone
    PROVE  BuiltInv'
<1> DEFINE h == Head(symbols)
           rest == Tail(symbols)
<1>1. /\ UNCHANGED <<problem, rulePairs, lexPairs, agenda, result, state>>
      /\ pc = "add" /\ todo = << >> /\ symbols' = rest
      /\ pc' = IF Len(symbols) = 1 THEN "next" ELSE "symbol"
  BY DEF SymbolDone, lexVars, ruleVars
<1>2. Extends(lexPairs, lexPairs') /\ Len(lexPairs) \in Nat
  BY <1>1, StateFacts DEF Extends, IInv
<1>3. Paired => Extends(rulePairs, rulePairs')
  BY <1>1 DEF IInv, Types, Extends
<1>4. /\ \A s \in 0 .. Len(lexPairs) - 1 : ArcsFrom(s)' = ArcsFrom(s)
      /\ Built' = Built
      /\ \A a \in result : Product(a)' = Product(a) /\ a.from \in 0 .. Len(lexPairs) - 1
      /\ \A s : Entries(s)' = Entries(s)
  BY <1>1, <1>2, <1>3, BuiltKept DEF IInv
<1>5. (\A e : ArcsHere(e)' = ArcsHere(e)) /\ LexState' = LexState
  BY <1>1, <1>2, <1>3, HereKept DEF IInv
<1>6. FirstLeft' = FirstLeft /\ FirstLeft = state + 1
  BY <1>1 DEF FirstLeft, IInv, AgendaInv
<1>7. OnlyArcs /\ StatesBuilt /\ SymbolsBuilt /\ TodoBuilds
  BY <1>1 DEF BuiltInv
<1>8. /\ Range(symbols) = {h} \cup Range(rest)
      /\ Len(symbols) = 1 => Range(rest) = {}
  <2>1. symbols \in Seq(Entry) /\ symbols # << >>
    BY <1>1 DEF IInv, Types, Entry, AtState
  <2>2. /\ Range(symbols) = {h} \cup Range(rest) /\ DOMAIN rest = 1 .. Len(symbols) - 1
    BY <2>1, HeadAndTail
  <2> HIDE DEF rest, h
  <2>3. Len(symbols) = 1 => DOMAIN rest = {}
    BY <2>2
  <2> QED
    BY <2>2, <2>3 DEF Range
<1>9. ArcsHere(h) \subseteq Built
  <2>1. ToBuild = {}
    BY <1>1 DEF ToBuild
  <2> QED
    BY <1>1, <1>7, <2>1 DEF TodoBuilds
<1> HIDE DEF rest, h
<1>10. \A e \in Entries(LexState) \ Range(rest) : ArcsHere(e) \subseteq Built
  BY <1>1, <1>7, <1>8, <1>9 DEF SymbolsBuilt, AtState
<1>11. OnlyArcs'
  BY <1>1, <1>4, <1>7 DEF OnlyArcs
<1>12. StatesBuilt'
  <2> SUFFICES ASSUME NEW s \in 0 .. Len(lexPairs) - 1, s < FirstLeft, s = state => pc' = "next"
               PROVE  ArcsFrom(s)' \subseteq Built'
    BY <1>1, <1>6 DEF StatesBuilt
  <2>1. CASE s # state
    BY <1>4, <1>7, <2>1 DEF StatesBuilt
  <2>2. CASE s = state
    <3>1. Range(rest) = {}
      BY <1>1, <1>8, <2>2
    <3>2. \A e \in Entries(LexState) : ArcsHere(e) \subseteq Built
      BY <1>10, <3>1
    <3>3. ProductState(state)[1] = LexState
      BY DEF ProductState, LexState
    <3>4. ArcsFrom(state) \subseteq Built
      BY <3>2, <3>3, ComposedEntries DEF ArcsHere, ArcsFrom
    <3> QED
      BY <1>4, <2>2, <3>4
  <2> QED
    BY <2>1, <2>2
<1>13. SymbolsBuilt'
  BY <1>1, <1>4, <1>5, <1>7, <1>8, <1>10 DEF SymbolsBuilt, AtState
<1>14. TodoBuilds'
  BY <1>1 DEF TodoBuilds
<1> QED
  BY <1>11, <1>12, <1>13, <1>14 DEF BuiltInv
-----------------------------------------------------------------------------
(* The direction asked for, and the end *)

\* An arc in the direction asked for.
Directed(w) == IF problem.invert THEN Swap(w) ELSE w

LEMMA InProductArcs ==
    ASSUME NEW p, NEW x
    PROVE  x \in Promise!ProductArcs(p) <=> \E w \in Promise!Composed(p) : x = Directed(w)
BY DEF Promise!ProductArcs, Promise!Swap, Swap, Directed

\* Until the end the result is what has been built, in the direction asked for.
LEMMA InProductResult ==
    ASSUME pc # "done", NEW x
    PROVE  x \in ProductResult <=> \E w \in Built : x = Directed(w)
<1>1. x \in ProductResult <=> \E a \in result : x = Directed(Product(a))
  BY DEF ProductResult, Product, Directed
<1> QED
  BY <1>1, InBuilt

\* Inverting a product arc keeps its ends.
LEMMA DirectedTo ==
    ASSUME NEW t \in ToAdd
    PROVE  Directed(Planned(t)).to = Planned(t).to
<1> DEFINE w == Planned(t)
           N == {w.from, w.to}
<1>1. t.in \in Nat /\ t.out \in Nat
  BY DEF ToAdd
<1>2. w \in [from : N, in : Nat, out : Nat, to : N]
  BY <1>1 DEF Planned
<1> HIDE DEF w, N
<1>3. Swap(w) = [from |-> w.from, in |-> w.out, out |-> w.in, to |-> w.to]
  BY <1>2, SwapResultArc
<1> QED
  BY <1>3 DEF Directed, w

\* Inverting the result inverts the arcs of the product.
LEMMA SwapProduct ==
    ASSUME Types, NEW a \in result
    PROVE  Product(Swap(a)) = Swap(Product(a))
<1> DEFINE w == Product(a)
           N == {w.from, w.to}
           M == 0 .. Len(lexPairs) - 1
<1>1. a \in [from : M, in : Nat, out : Nat, to : M]
  BY DEF Types
<1> HIDE DEF M
<1>2. w.from = ProductState(a.from) /\ w.in = a.in /\ w.out = a.out /\ w.to = ProductState(a.to)
  BY DEF Product
<1>3. w \in [from : N, in : Nat, out : Nat, to : N]
  BY <1>1 DEF Product
<1> HIDE DEF w, N
<1>4. Swap(w) = [from |-> w.from, in |-> w.out, out |-> w.in, to |-> w.to]
  BY <1>3, SwapResultArc
<1>5. Swap(a) = [from |-> a.from, in |-> a.out, out |-> a.in, to |-> a.to]
  BY <1>1, SwapResultArc
<1>6. Product(Swap(a)) = [from |-> ProductState(a.from), in |-> a.out, out |-> a.in,
                          to |-> ProductState(a.to)]
  BY <1>5 DEF Product
<1> QED
  BY <1>2, <1>4, <1>6 DEF w

\* When the agenda is empty every state has been computed, and inverting the result
\* back changes no arc of the product in the direction asked for.
LEMMA AtFinish ==
    ASSUME IInv, BuiltInv, AsPromised(problem), Finish
    PROVE  /\ \A s \in 0 .. Len(lexPairs) - 1 : ArcsFrom(s) \subseteq Built
           /\ \A w \in Built : \E s \in 0 .. Len(lexPairs) - 1 : w \in ArcsFrom(s)
           /\ ProductResult' = ProductResult
           /\ UNCHANGED <<problem, lexPairs, rulePairs>> /\ pc = "next" /\ pc' = "done"
           /\ \A s : ProductState(s)' = ProductState(s)
<1>1. /\ UNCHANGED <<problem, lexPairs, rulePairs>> /\ pc = "next" /\ pc' = "done"
      /\ agenda = << >>
      /\ result' = IF InvertedBack THEN {Swap(a) : a \in result} ELSE result
  BY DEF Finish, ruleVars
<1>2. OnlyArcs /\ StatesBuilt
  BY <1>1 DEF BuiltInv
<1>3. FirstLeft = Len(lexPairs)
  <2> DEFINE f == FirstLeft
             n == Len(lexPairs)
  <2>1. f \in Nat /\ f <= n /\ n \in Nat /\ Rest(f, n) = << >>
    BY <1>1, StateFacts DEF IInv, AgendaInv
  <2> HIDE DEF f, n
  <2>2. f = n
    BY <2>1, RestIsSequence
  <2> QED
    BY <2>2 DEF f, n
<1>4. \A s \in 0 .. Len(lexPairs) - 1 : ArcsFrom(s) \subseteq Built
  <2>1. \A s \in 0 .. Len(lexPairs) - 1 : s < Len(lexPairs)
    BY StateFacts DEF IInv
  <2> QED
    BY <1>1, <1>2, <1>3, <2>1 DEF StatesBuilt
<1>5. \A w \in Built : \E s \in 0 .. Len(lexPairs) - 1 : w \in ArcsFrom(s)
  <2>1. \A a \in result : a.from \in 0 .. Len(lexPairs) - 1
    BY DEF IInv, Types
  <2> QED
    BY <1>2, <2>1, InBuilt DEF OnlyArcs
<1>6. \A s : ProductState(s)' = ProductState(s)
  BY <1>1 DEF ProductState, RuleStates, Paired, Rules
<1>7. \A a : Product(a)' = Product(a)
  BY <1>6 DEF Product
<1>8. InvertedBack = problem.invert
  <2>1. Len(problem.rules) = Len(Rules) /\ problem.invert \in BOOLEAN
    BY ProblemFacts DEF IInv, Types
  <2> QED
    BY <2>1 DEF AsPromised, InvertedBack, Paired
<1>9. ProductResult' = ProductResult
  <2>1. ProductResult' = {Product(a)' : a \in result'}
    BY <1>1 DEF ProductResult, Product
  <2>2. ProductResult' = {Product(a) : a \in result'}
    BY <1>7, <2>1
  <2>3. CASE problem.invert
    <3>1. result' = {Swap(a) : a \in result}
      BY <1>1, <1>8, <2>3
    <3>2. ProductResult' = {Product(Swap(a)) : a \in result}
      BY <2>2, <3>1
    <3>3. ProductResult = {Swap(Product(a)) : a \in result}
      BY <1>1, <2>3 DEF ProductResult, Product
    <3>4. \A a \in result : Product(Swap(a)) = Swap(Product(a))
      BY SwapProduct DEF IInv
    <3> QED
      BY <3>2, <3>3, <3>4
  <2>4. CASE ~problem.invert
    <3>1. result' = result
      BY <1>1, <1>8, <2>4
    <3>2. ProductResult = {Product(a) : a \in result}
      BY <1>1, <2>4 DEF ProductResult, Product
    <3> QED
      BY <2>2, <3>1, <3>2
  <2> QED
    BY <2>3, <2>4
<1> QED
  BY <1>1, <1>4, <1>5, <1>6, <1>9
\* The product is of what the call was given.
LEMMA SameArcs ==
    ASSUME UNCHANGED problem
    PROVE  \A p : Promise!ProductArcs(p)' = Promise!ProductArcs(p)
<1>1. \A p : Promise!Composed(p)' = Promise!Composed(p)
  BY DEF Promise!Composed, Promise!Bypasses, Promise!Intersection, Promise!Reading,
         Promise!Rules, Promise!Lexicon
<1> QED
  BY <1>1 DEF Promise!ProductArcs

LEMMA ComposedFinish ==
    ASSUME IInv, BuiltInv, AsPromised(problem), Finish
    PROVE  ComposedAsAsked'
<1> DEFINE N == 0 .. Len(lexPairs) - 1
<1>1. /\ \A s \in N : ArcsFrom(s) \subseteq Built
      /\ \A w \in Built : \E s \in N : w \in ArcsFrom(s)
      /\ ProductResult' = ProductResult
      /\ UNCHANGED <<problem, lexPairs, rulePairs>> /\ pc = "next"
      /\ \A s : ProductState(s)' = ProductState(s)
  BY AtFinish
<1>2. \A s : Promise!ProductArcs(ProductState(s))' = Promise!ProductArcs(ProductState(s))
  BY <1>1, SameArcs
<1> DEFINE U == UNION {Promise!ProductArcs(ProductState(s)) : s \in N}
<1>3. ASSUME NEW x PROVE x \in ProductResult <=> x \in U
  <2>1. x \in ProductResult <=> \E w \in Built : x = Directed(w)
    BY <1>1, InProductResult
  <2>2. \A s : x \in Promise!ProductArcs(ProductState(s)) <=> \E w \in ArcsFrom(s) : x = Directed(w)
    BY InProductArcs DEF ArcsFrom
  <2>3. x \in U <=> \E s \in N : x \in Promise!ProductArcs(ProductState(s))
    OBVIOUS
  <2> HIDE DEF N, U
  <2> QED
    BY <1>1, <2>1, <2>2, <2>3
<1>4. ProductResult = U
  <2>1. ProductResult \subseteq U /\ U \subseteq ProductResult
    <3> HIDE DEF U
    <3> QED
      BY <1>3
  <2> HIDE DEF U
  <2> QED
    BY <2>1
<1>5. U = UNION {Promise!ProductArcs(ProductState(s))' : s \in 0 .. Len(lexPairs') - 1}
  BY <1>1, <1>2
<1>6. ProductResult' = UNION {Promise!ProductArcs(ProductState(s))' : s \in 0 .. Len(lexPairs') - 1}
  <2> HIDE DEF U
  <2> QED
    BY <1>1, <1>4, <1>5
<1> QED
  BY <1>6 DEF ComposedAsAsked

\* Once it is done the call returns.
LEMMA ComposedStutter ==
    ASSUME ComposedAsAsked, UNCHANGED vars
    PROVE  ComposedAsAsked'
<1>1. UNCHANGED <<problem, rulePairs, lexPairs, result, pc>>
  BY DEF vars, ruleVars, lexVars
<1>2. \A s : ProductState(s)' = ProductState(s)
  BY <1>1 DEF ProductState, RuleStates, Paired, Rules
<1>3. \A p : Promise!ProductArcs(p)' = Promise!ProductArcs(p)
  BY <1>1, SameArcs
<1>4. \A s : Promise!ProductArcs(ProductState(s))' = Promise!ProductArcs(ProductState(s))
  BY <1>2, <1>3
<1>5. ProductResult' = ProductResult
  BY <1>1, <1>2 DEF ProductResult
<1> QED
  BY <1>1, <1>4, <1>5 DEF ComposedAsAsked

LEMMA BuiltStutter ==
    ASSUME IInv, BuiltInv, UNCHANGED vars
    PROVE  BuiltInv'
<1>1. /\ UNCHANGED <<problem, rulePairs, lexPairs, agenda, result, state, symbols, pc, todo>>
  BY DEF vars, ruleVars, lexVars
<1>2. Extends(lexPairs, lexPairs') /\ Len(lexPairs) \in Nat
  BY <1>1, StateFacts DEF Extends, IInv
<1>3. Paired => Extends(rulePairs, rulePairs')
  BY <1>1 DEF IInv, Types, Extends
<1>4. /\ \A s \in 0 .. Len(lexPairs) - 1 : ArcsFrom(s)' = ArcsFrom(s)
      /\ Built' = Built
      /\ \A a \in result : Product(a)' = Product(a) /\ a.from \in 0 .. Len(lexPairs) - 1
      /\ \A s : Entries(s)' = Entries(s)
  BY <1>1, <1>2, <1>3, BuiltKept DEF IInv
<1>5. (\A e : ArcsHere(e)' = ArcsHere(e)) /\ LexState' = LexState
  BY <1>1, <1>2, <1>3, HereKept DEF IInv
<1>6. FirstLeft' = FirstLeft
  BY <1>1 DEF FirstLeft
<1>7. ToBuild' = ToBuild
  BY <1>1 DEF ToBuild, Planned, ProductState, RuleStates, Paired, Rules
<1> SUFFICES ASSUME pc # "done" PROVE BuiltInv'
  BY <1>1 DEF BuiltInv
<1>8. OnlyArcs /\ StatesBuilt /\ SymbolsBuilt /\ TodoBuilds
  BY <1>1 DEF BuiltInv
<1>9. OnlyArcs'
  BY <1>1, <1>4, <1>8 DEF OnlyArcs
<1>10. StatesBuilt'
  BY <1>1, <1>4, <1>6, <1>8 DEF StatesBuilt
<1>11. SymbolsBuilt'
  BY <1>1, <1>4, <1>5, <1>8 DEF SymbolsBuilt, AtState
<1>12. TodoBuilds'
  BY <1>1, <1>4, <1>5, <1>7, <1>8 DEF TodoBuilds
<1> QED
  BY <1>9, <1>10, <1>11, <1>12 DEF BuiltInv

\* What holds in every state of a composition that is as promised.
RInv == IInv /\ AsPromised(problem) /\ BuiltInv /\ ComposedAsAsked

LEMMA RInvInit == Init /\ AsPromised(problem) => RInv
<1> SUFFICES ASSUME Init, AsPromised(problem) PROVE RInv
  OBVIOUS
<1>1. pc = "next" /\ state = 0 /\ result = {} /\ agenda = <<0>> /\ lexPairs = <<(<<0, 0>>)>>
  BY DEF Init
<1>2. FirstLeft = 0
  BY <1>1 DEF FirstLeft
<1>3. OnlyArcs /\ SymbolsBuilt /\ TodoBuilds
  BY <1>1 DEF OnlyArcs, SymbolsBuilt, TodoBuilds, AtState
<1>4. StatesBuilt
  <2>1. \A s \in 0 .. Len(lexPairs) - 1 : ~(s < 0)
    BY <1>1
  <2> QED
    BY <1>2, <2>1 DEF StatesBuilt
<1> QED
  BY <1>1, <1>3, <1>4, IInvInit DEF RInv, BuiltInv, ComposedAsAsked

LEMMA RInvStep == RInv /\ [Next]_vars => RInv'
<1> SUFFICES ASSUME RInv, [Next]_vars PROVE RInv'
  OBVIOUS
<1>1. IInv' /\ IInv /\ BuiltInv /\ AsPromised(problem) /\ ComposedAsAsked
  BY IInvStep DEF RInv
<1>2. problem' = problem
  BY DEF Next, vars, ComputeState, SkipSymbol, ComputeTransitionSet, MergeEqual, MergeSkip,
         MergeDone, Compose, AddArc, SymbolDone, Finish
<1>3. AsPromised(problem)'
  BY <1>1, <1>2 DEF AsPromised
<1>4. BuiltInv' /\ ComposedAsAsked'
  <2>1. CASE ComputeState
    <3>1. pc' # "done"
      BY <2>1 DEF ComputeState
    <3> QED
      BY <1>1, <2>1, <3>1, BuiltComputeState DEF ComposedAsAsked
  <2>2. CASE SkipSymbol \/ Compose
    <3>1. pc' # "done"
      BY <2>2 DEF SkipSymbol, Compose
    <3> QED
      BY <1>1, <2>2, <3>1, BuiltTodo DEF ComposedAsAsked
  <2>3. CASE ComputeTransitionSet \/ MergeEqual \/ MergeSkip \/ MergeDone
    <3>1. pc' # "done"
      BY <2>3 DEF ComputeTransitionSet, MergeEqual, MergeSkip, MergeDone
    <3> QED
      BY <1>1, <2>3, <3>1, BuiltMerge DEF ComposedAsAsked
  <2>4. CASE AddArc
    <3>1. pc' # "done"
      BY <2>4 DEF AddArc
    <3> QED
      BY <1>1, <2>4, <3>1, BuiltAddArc DEF ComposedAsAsked
  <2>5. CASE SymbolDone
    <3>1. pc' # "done"
      BY <2>5 DEF SymbolDone
    <3> QED
      BY <1>1, <2>5, <3>1, BuiltSymbolDone DEF ComposedAsAsked
  <2>6. CASE Finish
    <3>1. pc' = "done"
      BY <2>6 DEF Finish
    <3> QED
      BY <1>1, <2>6, <3>1, ComposedFinish DEF BuiltInv
  <2>7. CASE UNCHANGED vars
    BY <1>1, <2>7, BuiltStutter, ComposedStutter
  <2> QED
    BY <2>1, <2>2, <2>3, <2>4, <2>5, <2>6, <2>7 DEF Next
<1> QED
  BY <1>1, <1>3, <1>4 DEF RInv

\* When compose_intersect returns, the arcs of its result are those of the
\* composition of the lexicon with the intersection of the rules, in the direction
\* asked for: none is missing, and there is no other.
THEOREM ComposesAsAsked ==
    ASSUME \A p \in Problems : AsPromised(p)
    PROVE  Spec => []ComposedAsAsked
<1>1. Init => RInv
  BY RInvInit DEF Init
<1>2. RInv /\ [Next]_vars => RInv'
  BY RInvStep
<1>3. RInv => ComposedAsAsked
  BY DEF RInv
<1> QED
  BY <1>1, <1>2, <1>3, PTL DEF Spec
-----------------------------------------------------------------------------
(* The construction implements the product *)

LEMMA StartStates ==
    ASSUME Init
    PROVE  Promise!Init
<1>1. /\ problem \in Problems /\ pc = "next" /\ result = {} /\ finals = {}
      /\ lexPairs = <<(<<0, 0>>)>> /\ rulePairs = <<(<<0, 0>>)>>
  BY DEF Init
<1>2. ProductState(0) = Promise!Start
  <2>1. ProductState(0) = <<0, IF Paired THEN <<0, 0>> ELSE <<0>> >>
    BY <1>1 DEF ProductState, RuleStates
  <2>2. DOMAIN problem.rules = IF Paired THEN 1 .. 2 ELSE 1 .. 1
    BY <1>1, ProblemFacts DEF Paired
  <2>3. [i \in 1 .. 2 |-> 0] = <<0, 0>> /\ [i \in 1 .. 1 |-> 0] = <<0>>
    OBVIOUS
  <2>4. Promise!Start = <<0, [i \in IF Paired THEN 1 .. 2 ELSE 1 .. 1 |-> 0]>>
    BY <2>2 DEF Promise!Start
  <2> QED
    BY <2>1, <2>3, <2>4
<1>3. 0 .. Len(lexPairs) - 1 = {0}
  BY <1>1
<1>4. {ProductState(s) : s \in 0 .. Len(lexPairs) - 1} = {Promise!Start}
  BY <1>2, <1>3
<1>5. ProductResult = {} /\ {ProductState(s) : s \in finals} = {}
  BY <1>1 DEF ProductResult
<1> QED
  BY <1>1, <1>4, <1>5 DEF Promise!Init

\* A step that adds no arc and does not finish leaves the product as it is.
LEMMA ProductStutter ==
    ASSUME RInv, \/ ComputeState \/ SkipSymbol \/ Compose \/ SymbolDone
                 \/ ComputeTransitionSet \/ MergeEqual \/ MergeSkip \/ MergeDone
    PROVE  UNCHANGED Promise!vars
<1>1. /\ UNCHANGED <<problem, lexPairs, result, finals>> /\ pc # "done" /\ pc' # "done"
  BY DEF ComputeState, SkipSymbol, Compose, SymbolDone, ComputeTransitionSet, MergeEqual,
         MergeSkip, MergeDone, lexVars
<1>2. Types /\ finals = {}
  BY <1>1 DEF RInv, IInv, Types
<1>3. Extends(lexPairs, lexPairs')
  BY <1>1, StateFacts DEF Extends, RInv, IInv
<1>4. Paired => Extends(rulePairs, rulePairs')
  <2>1. CASE ComputeTransitionSet \/ MergeEqual \/ MergeSkip \/ MergeDone
    BY <2>1, BuiltMerge DEF RInv
  <2>2. CASE ComputeState \/ SkipSymbol \/ Compose \/ SymbolDone
    <3>1. rulePairs' = rulePairs
      BY <2>2 DEF ComputeState, SkipSymbol, Compose, SymbolDone, ruleVars
    <3> QED
      BY <1>2, <3>1 DEF Types, Extends
  <2> QED
    BY <2>1, <2>2
<1>5. /\ \A s \in 0 .. Len(lexPairs) - 1 : ProductState(s)' = ProductState(s)
      /\ \A a \in result : Product(a)' = Product(a)
  BY <1>1, <1>2, <1>3, <1>4, Kept
<1>6. {ProductState(s) : s \in 0 .. Len(lexPairs) - 1}'
        = {ProductState(s) : s \in 0 .. Len(lexPairs) - 1}
  BY <1>1, <1>5
<1>7. ProductResult' = ProductResult
  <2>1. ProductResult = {IF problem.invert THEN Swap(Product(a)) ELSE Product(a) : a \in result}
    BY <1>1 DEF ProductResult, Product
  <2>2. ProductResult' = {IF problem.invert THEN Swap(Product(a)') ELSE Product(a)' : a \in result}
    BY <1>1 DEF ProductResult, Product, Swap
  <2> QED
    BY <1>5, <2>1, <2>2
<1>8. {ProductState(s) : s \in finals}' = {ProductState(s) : s \in finals}
  BY <1>1, <1>2
<1>9. (pc = "done")' = (pc = "done")
  BY <1>1
<1> QED
  BY <1>1, <1>6, <1>7, <1>8, <1>9 DEF Promise!vars

\* get_state and add_transition add one arc of the product, and its target.
LEMMA ProductAddArc ==
    ASSUME RInv, AddArc
    PROVE  Promise!AddArc
<1> DEFINE t == Head(todo)
           w == Planned(t)
           d == Directed(w)
           S == {ProductState(s) : s \in 0 .. Len(lexPairs) - 1}
<1>1. /\ UNCHANGED <<problem, state, finals>> /\ pc = "add" /\ pc' = "add"
  BY DEF AddArc
<1>2. PICK k \in 0 .. Len(lexPairs') - 1 : ProductState(k)' = w.to
  BY ArcAdded DEF RInv
<1>3. /\ Extends(lexPairs, lexPairs') /\ (Paired => Extends(rulePairs, rulePairs'))
      /\ t \in ToAdd /\ Len(lexPairs') \in Nat
      /\ \A s \in 0 .. Len(lexPairs') - 1 :
           s \in 0 .. Len(lexPairs) - 1 \/ ProductState(s)' = w.to
      /\ Built' = Built \cup {w} /\ ToBuild = {w} \cup ToBuild'
  BY ArcAdded DEF RInv
<1>4. d.to = w.to
  BY <1>3, DirectedTo
<1> HIDE DEF t, w, d
<1>5. \A s \in 0 .. Len(lexPairs) - 1 : ProductState(s)' = ProductState(s)
  BY <1>1, <1>3, Kept DEF RInv, IInv
<1>6. state \in 0 .. Len(lexPairs) - 1 /\ 0 .. Len(lexPairs) - 1 \subseteq 0 .. Len(lexPairs') - 1
  BY <1>3, StateFacts DEF RInv, IInv, Extends
<1>7. w \in ArcsFrom(state)
  <2>1. TodoBuilds /\ SymbolsBuilt
    BY <1>1 DEF RInv, BuiltInv
  <2>2. w \in ArcsHere(Head(symbols))
    BY <1>1, <1>3, <2>1 DEF TodoBuilds
  <2>3. symbols \in Seq(Entry) /\ symbols # << >>
    BY <1>1 DEF RInv, IInv, Types, Entry, AtState
  <2>4. Head(symbols) \in Range(symbols)
    BY <2>3, HeadAndTail
  <2>5. Head(symbols) \in Entries(LexState)
    BY <1>1, <2>1, <2>4 DEF SymbolsBuilt, AtState
  <2>6. ProductState(state)[1] = LexState
    BY DEF ProductState, LexState
  <2> QED
    BY <2>2, <2>5, <2>6, ComposedEntries DEF ArcsHere, ArcsFrom
<1>8. d \in Promise!ProductArcs(ProductState(state))
  BY <1>7, InProductArcs DEF ArcsFrom, d
<1>9. ProductState(state) \in S
  BY <1>6
<1>10. {ProductState(s) : s \in 0 .. Len(lexPairs) - 1}' = S \cup {d.to}
  <2> DEFINE Q == {ProductState(s) : s \in 0 .. Len(lexPairs) - 1}'
  <2>1. \A x : x \in Q <=> \E s \in 0 .. Len(lexPairs') - 1 : x = ProductState(s)'
    OBVIOUS
  <2>2. \A x : x \in S <=> \E s \in 0 .. Len(lexPairs) - 1 : x = ProductState(s)
    OBVIOUS
  <2> HIDE DEF S, Q
  <2>3. \A x : x \in Q <=> x \in S \/ x = d.to
    <3>1. ASSUME NEW x, x \in Q PROVE x \in S \/ x = d.to
      <4>1. PICK s \in 0 .. Len(lexPairs') - 1 : x = ProductState(s)'
        BY <2>1, <3>1
      <4>2. CASE s \in 0 .. Len(lexPairs) - 1
        BY <1>5, <2>2, <4>1, <4>2
      <4>3. CASE s \notin 0 .. Len(lexPairs) - 1
        BY <1>3, <1>4, <4>1, <4>3
      <4> QED
        BY <4>2, <4>3
    <3>2. ASSUME NEW x, x \in S PROVE x \in Q
      <4>1. PICK s \in 0 .. Len(lexPairs) - 1 : x = ProductState(s)
        BY <2>2, <3>2
      <4>2. s \in 0 .. Len(lexPairs') - 1 /\ x = ProductState(s)'
        BY <1>5, <1>6, <4>1
      <4> QED
        BY <2>1, <4>2
    <3>3. d.to \in Q
      BY <1>2, <1>4, <2>1
    <3> QED
      BY <3>1, <3>2, <3>3
  <2>4. Q = S \cup {d.to}
    BY <2>3
  <2> QED
    BY <2>4 DEF Q
<1>11. ProductResult' = ProductResult \cup {d}
  <2>1. \A x : x \in ProductResult <=> \E v \in Built : x = Directed(v)
    BY <1>1, InProductResult
  <2>2. \A x : x \in ProductResult' <=> \E v \in Built' : x = Directed(v)
    <3>1. ProductResult' = {IF problem.invert THEN Swap(Product(a)') ELSE Product(a)' : a \in result'}
      BY <1>1 DEF ProductResult, Product, Swap
    <3>2. Built' = {Product(a)' : a \in result'}
      BY DEF Built
    <3>3. ProductResult' = {Directed(v) : v \in Built'}
      BY <3>1, <3>2 DEF Directed
    <3> QED
      BY <3>3
  <2> QED
    BY <1>3, <2>1, <2>2 DEF d
<1>12. {ProductState(s) : s \in finals}' = {ProductState(s) : s \in finals}
  <2>1. finals = {} /\ finals' = {}
    BY <1>1 DEF RInv, IInv, Types
  <2> QED
    BY <2>1
<1> QED
  BY <1>1, <1>8, <1>9, <1>10, <1>11, <1>12 DEF Promise!AddArc

\* When the agenda is empty every arc is there, and the final states are the product's.
LEMMA ProductFinish ==
    ASSUME RInv, Finish
    PROVE  Promise!Finish
<1> DEFINE N == 0 .. Len(lexPairs) - 1
           S == {ProductState(s) : s \in N}
<1>1. /\ \A s \in N : ArcsFrom(s) \subseteq Built
      /\ ProductResult' = ProductResult
      /\ UNCHANGED <<problem, lexPairs, rulePairs>> /\ pc = "next" /\ pc' = "done"
      /\ \A s : ProductState(s)' = ProductState(s)
  BY AtFinish DEF RInv
<1>2. \A p \in S : Promise!ProductArcs(p) \subseteq ProductResult
  <2> SUFFICES ASSUME NEW s \in N, NEW x \in Promise!ProductArcs(ProductState(s))
               PROVE  x \in ProductResult
    OBVIOUS
  <2>1. PICK v \in ArcsFrom(s) : x = Directed(v)
    BY InProductArcs DEF ArcsFrom
  <2>2. v \in Built
    BY <1>1, <2>1
  <2> QED
    BY <1>1, <2>1, <2>2, InProductResult
<1>3. {ProductState(s) : s \in finals}' = {p \in S : Promise!ProductFinal(p)}
  <2> DEFINE F(p) == Promise!ProductFinal(p)
  <2>1. finals' = {s \in N : F(ProductState(s))}
    BY SameProblem DEF Finish, Promise!ProductFinal, ProductState
  <2>2. {ProductState(s) : s \in finals}' = {ProductState(s) : s \in finals'}
    BY <1>1
  <2> HIDE DEF N, F
  <2>3. {ProductState(s) : s \in finals'} = {p \in {ProductState(s) : s \in N} : F(p)}
    BY <2>1
  <2> QED
    BY <2>2, <2>3 DEF F
<1>4. S' = S
  BY <1>1
<1> QED
  BY <1>1, <1>2, <1>3, <1>4 DEF Promise!Finish

LEMMA ProductUnchanged ==
    ASSUME UNCHANGED vars
    PROVE  UNCHANGED Promise!vars
<1>1. UNCHANGED <<problem, rulePairs, lexPairs, result, finals, pc>>
  BY DEF vars, ruleVars, lexVars
<1>2. \A s : ProductState(s)' = ProductState(s)
  BY <1>1 DEF ProductState, RuleStates, Paired, Rules
<1>3. ProductResult' = ProductResult
  BY <1>1, <1>2 DEF ProductResult
<1> QED
  BY <1>1, <1>2, <1>3 DEF Promise!vars

\* Of all lexicons and rules: the agenda, the two numberings and the cache build the
\* composition with the intersection of the rules, one arc at a time, and stop only
\* when it is complete.
THEOREM ImplementsProduct ==
    ASSUME \A p \in Problems : AsPromised(p)
    PROVE  Spec => Implements
<1>1. Init => RInv
  BY RInvInit DEF Init
<1>2. RInv /\ [Next]_vars => RInv'
  BY RInvStep
<1>3. Init => Promise!Init
  BY StartStates
<1>4. RInv /\ [Next]_vars => [Promise!Next]_(Promise!vars)
  <2> SUFFICES ASSUME RInv, [Next]_vars PROVE Promise!Next \/ UNCHANGED Promise!vars
    OBVIOUS
  <2>1. CASE AddArc
    BY <2>1, ProductAddArc DEF Promise!Next
  <2>2. CASE Finish
    BY <2>2, ProductFinish DEF Promise!Next
  <2>3. CASE UNCHANGED vars
    BY <2>3, ProductUnchanged
  <2> QED
    BY <2>1, <2>2, <2>3, ProductStutter DEF Next
<1> QED
  BY <1>1, <1>2, <1>3, <1>4, PTL DEF Spec, Implements, Promise!Spec
==============================================================================
