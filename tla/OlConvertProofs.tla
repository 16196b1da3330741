--------------------------- MODULE OlConvertProofs ---------------------------
(***************************************************************************)
(* Theorems about the packing of the optimized-lookup tables, for every    *)
(* graph, symbol table and packing parameter: no slot is owned by two, no  *)
(* two states share an address, and the packed tables can be read back:    *)
(* whoever looks up a symbol at a state finds its arcs with that symbol,   *)
(* all of them and no others, and looks at nothing outside of the tables;  *)
(* and converted back they are the graph again.                            *)
(*                                                                         *)
(* ReadInv follows an arc through the conversion: its symbols get numbers  *)
(* (NumbersFit), it is taken into the placeholder of its state (Gathered), *)
(* which has a part of the transition table (Follows) that the arc is      *)
(* written to (Layout) and that the index table points into (Indexed).     *)
(*                                                                         *)
(* Then the tables are read back to a graph (OlRoundTrip).  BackInv says   *)
(* what has been read so far: the states whose addresses are not on the    *)
(* agenda have the arcs they had, under the numbers given so far.  It      *)
(* needs two more facts of the conversion: strings have numbers of their   *)
(* own (NamesApart), and the first state is placed first (ZeroFirst).      *)
(***************************************************************************)
EXTENDS OlRoundTrip, FlattenProofs, FiniteSetTheorems

\* Typing of the strings a state contributes: its arcs' inputs and outputs are
\* finitely many naturals.
LEMMA StringsOfState ==
    ASSUME NEW tr, IsTransducer(tr), NEW s \in States(tr)
    PROVE  LET arcs == tr.arcs[s]
               ins == {arcs[i].in : i \in DOMAIN arcs}
               outs == {arcs[i].out : i \in DOMAIN arcs}
           IN  /\ IsFiniteSet(ins) /\ ins \subseteq Nat
               /\ IsFiniteSet(outs) /\ outs \subseteq Nat
               /\ Len(arcs) \in Nat
<1> DEFINE arcs == tr.arcs[s]
           fin == [i \in DOMAIN arcs |-> arcs[i].in]
           fout == [i \in DOMAIN arcs |-> arcs[i].out]
           ins == {arcs[i].in : i \in DOMAIN arcs}
           outs == {arcs[i].out : i \in DOMAIN arcs}
<1>1. arcs \in Seq([in : Nat, out : Nat, to : States(tr)])
  BY DEF IsTransducer
<1>2. /\ Len(arcs) \in Nat /\ DOMAIN arcs = 1 .. Len(arcs)
      /\ \A i \in DOMAIN arcs : arcs[i].in \in Nat /\ arcs[i].out \in Nat
  <2>1. /\ Len(arcs) \in Nat /\ DOMAIN arcs = 1 .. Len(arcs)
        /\ \A i \in 1 .. Len(arcs) : arcs[i] \in [in : Nat, out : Nat, to : States(tr)]
    BY <1>1, SeqElements
  <2> QED
    BY <2>1
<1>3. IsFiniteSet(DOMAIN arcs)
  BY <1>2, FS_Interval
<1>4. fin \in Surjection(DOMAIN arcs, ins) /\ fout \in Surjection(DOMAIN arcs, outs)
  BY DEF Surjection
<1>5. IsFiniteSet(ins) /\ IsFiniteSet(outs)
  BY <1>3, <1>4, FS_Surjection
<1> QED
  BY <1>2, <1>5

\* The numbers given to collected strings are naturals.
LEMMA OwnNumbersType ==
    ASSUME TypeOK
    PROVE  /\ \A a \in DOMAIN OwnNumbers : OwnNumbers[a] \in Nat
           /\ 1 + Cardinality(strings.inputs \ {EPSILON}) \in Nat \ {0}
<1> DEFINE ins == strings.inputs \ {EPSILON}
           outs == strings.outputs \ (ins \cup strings.flags \cup {EPSILON})
<1>1. IsFiniteSet(ins) /\ IsFiniteSet(outs) /\ IsFiniteSet(strings.flags)
  BY FS_Subset DEF TypeOK
<1>2. /\ Cardinality(ins) \in Nat /\ Cardinality(strings.flags) \in Nat
  BY <1>1, FS_CardinalityType
<1>3. \A a : \A S \in {ins, outs, strings.flags} : Rank(a, S) \in Nat
  <2> SUFFICES ASSUME NEW a, NEW S \in {ins, outs, strings.flags}
               PROVE  Cardinality({b \in S : b < a}) \in Nat
    BY DEF Rank
  <2>1. IsFiniteSet(S)
    BY <1>1
  <2>2. {b \in S : b < a} \in SUBSET S
    OBVIOUS
  <2>3. IsFiniteSet({b \in S : b < a})
    BY <2>1, <2>2, FS_Subset
  <2> QED
    BY <2>3, FS_CardinalityType
<1>4. ASSUME NEW a \in DOMAIN OwnNumbers PROVE OwnNumbers[a] \in Nat
  <2> DEFINE base == 1 + Cardinality(ins)
             D == {EPSILON} \cup ins \cup strings.flags \cup outs
  <2>1. OwnNumbers =
          [x \in D |->
             IF x = EPSILON THEN 0
             ELSE IF x \in ins THEN 1 + Rank(x, ins)
             ELSE IF x \in strings.flags THEN base + Rank(x, strings.flags)
             ELSE base + Cardinality(strings.flags) + Rank(x, outs)]
    BY DEF OwnNumbers
  <2>2. /\ base \in Nat
        /\ Rank(a, ins) \in Nat /\ Rank(a, strings.flags) \in Nat /\ Rank(a, outs) \in Nat
    BY <1>2, <1>3
  <2> HIDE DEF base, D, ins, outs
  <2>3. a \in D
    BY <2>1, <1>4
  <2> QED
    BY <1>2, <2>1, <2>2, <2>3
<1> QED
  BY <1>2, <1>4

-----------------------------------------------------------------------------
(* Type correctness *)

\* A placeholder keeps its shape when an arc is added.
LEMMA WithArcType ==
    ASSUME NEW p, NEW x \in Nat, NEW arc,
           p = [first |-> p.first, start |-> p.start, type |-> p.type, by |-> p.by],
           p.type \in {"empty", "simple_zero_index", "simple_nonzero_index", "nonsimple"},
           DOMAIN p.by \subseteq Nat
    PROVE  LET r == WithArc(p, x, arc)
           IN  /\ r = [first |-> p.first, start |-> p.start, type |-> r.type, by |-> r.by]
               /\ r.type \in {"empty", "simple_zero_index", "simple_nonzero_index",
                              "nonsimple"}
               /\ DOMAIN r.by \subseteq Nat
<1> DEFINE b == ByWith(p.by, x, arc)
           u == IF x \in DOMAIN p.by THEN p.type ELSE TypeWith(p, x)
<1>1. u \in {"empty", "simple_zero_index", "simple_nonzero_index", "nonsimple"}
  BY DEF TypeWith
<1>2. DOMAIN b \subseteq Nat
  BY DEF ByWith
<1>3. WithArc(p, x, arc) = [first |-> p.first, start |-> p.start, type |-> u, by |-> b]
  BY DEF WithArc
<1> HIDE DEF b, u
<1> QED
  BY <1>1, <1>2, <1>3

THEOREM InitType == Init => TypeOK
<1> SUFFICES ASSUME Init PROVE TypeOK
  OBVIOUS
<1>1. DOMAIN << >> = {}
  OBVIOUS
<1>2. IsTransducer(t)
  BY TransducersAssumption DEF Init
<1>3. t.n \in Nat \ {0}
  BY <1>2 DEF IsTransducer
<1> QED
  BY <1>1, <1>2, <1>3, FS_EmptySet, NumbersAssumption DEF Init, TypeOK

LEMMA PlaceholderType ==
    ASSUME TypeOK, NEW s
    PROVE  /\ Placeholder(s) = [first |-> first, start |-> NO_TABLE_INDEX,
                 type |-> Placeholder(s).type, by |-> << >>]
           /\ Placeholder(s).type \in {"empty", "nonsimple"}
           /\ NO_TABLE_INDEX \in Nat /\ first \in Nat /\ DOMAIN << >> = {}
BY NumbersAssumption, SMTT(30) DEF Placeholder, NO_TABLE_INDEX, TypeOK

THEOREM NextType == TypeOK /\ [Next]_vars => TypeOK'
<1> SUFFICES ASSUME TypeOK, [Next]_vars PROVE TypeOK'
  OBVIOUS
<1>0. t.n \in Nat \ {0} /\ cur \in Nat /\ cur <= t.n
  BY DEF TypeOK, IsTransducer
<1>1. CASE CollectState
  <2>1. cur \in States(t)
    BY <1>0, <1>1 DEF CollectState, States
  <2>2. LET arcs == t.arcs[cur]
            ins == {arcs[i].in : i \in DOMAIN arcs}
            outs == {arcs[i].out : i \in DOMAIN arcs}
        IN  /\ IsFiniteSet(ins) /\ ins \subseteq Nat
            /\ IsFiniteSet(outs) /\ outs \subseteq Nat
            /\ Len(arcs) \in Nat
    BY <2>1, StringsOfState DEF TypeOK
  <2>3. first' \in Nat
    BY <1>1, <2>2, SMTT(30) DEF CollectState, NextFirst, TypeOK
  <2>4. /\ strings' = [inputs |-> strings'.inputs, flags |-> strings'.flags,
                        outputs |-> strings'.outputs]
        /\ \A S \in {strings'.inputs, strings'.flags, strings'.outputs} :
             IsFiniteSet(S) /\ S \subseteq Nat
    <3>1. CASE harm # NoHarmonizer
      BY <1>1, <3>1 DEF CollectState, TypeOK
    <3>2. CASE harm = NoHarmonizer
      <4> DEFINE arcs == t.arcs[cur]
                 ins == {arcs[i].in : i \in DOMAIN arcs}
                 outs == {arcs[i].out : i \in DOMAIN arcs}
      <4>1. strings' = [inputs |-> strings.inputs \cup (ins \ FlagStrings),
                        flags |-> strings.flags \cup (ins \cap FlagStrings),
                        outputs |-> strings.outputs \cup outs]
        BY <1>1, <3>2 DEF CollectState
      <4> HIDE DEF ins, outs
      <4>2. IsFiniteSet(ins \ FlagStrings) /\ IsFiniteSet(ins \cap FlagStrings)
        BY <2>2, FS_Subset DEF ins
      <4>3. /\ IsFiniteSet(strings.inputs \cup (ins \ FlagStrings))
            /\ IsFiniteSet(strings.flags \cup (ins \cap FlagStrings))
            /\ IsFiniteSet(strings.outputs \cup outs)
        BY <2>2, <4>2, FS_Union DEF TypeOK, ins, outs
      <4>4. ins \subseteq Nat /\ outs \subseteq Nat
        BY <2>2 DEF ins, outs
      <4> QED
        BY <4>1, <4>3, <4>4 DEF TypeOK
    <3> QED
      BY <3>1, <3>2
  <2>5. /\ DOMAIN ph = 0 .. cur - 1 /\ DOMAIN ph' = 0 .. cur
        /\ \A s \in DOMAIN ph' :
             ph'[s] = IF s = cur THEN Placeholder(s) ELSE ph[s]
    BY <1>1 DEF CollectState, TypeOK
  <2>6. \A s \in DOMAIN ph' : s = cur \/ s \in DOMAIN ph
    BY <1>0, <2>5
  <2>7. \A s \in DOMAIN ph' :
         /\ ph'[s] = [first |-> ph'[s].first, start |-> ph'[s].start,
                      type |-> ph'[s].type, by |-> ph'[s].by]
         /\ ph'[s].first \in Nat /\ ph'[s].start \in Nat
         /\ ph'[s].type \in {"empty", "simple_zero_index", "simple_nonzero_index",
                             "nonsimple"}
         /\ DOMAIN ph'[s].by \subseteq Nat
    <3> SUFFICES ASSUME NEW s \in DOMAIN ph'
                 PROVE  /\ ph'[s] = [first |-> ph'[s].first, start |-> ph'[s].start,
                                     type |-> ph'[s].type, by |-> ph'[s].by]
                        /\ ph'[s].first \in Nat /\ ph'[s].start \in Nat
                        /\ ph'[s].type \in {"empty", "simple_zero_index",
                                            "simple_nonzero_index", "nonsimple"}
                        /\ DOMAIN ph'[s].by \subseteq Nat
      OBVIOUS
    <3>1. CASE s = cur
      BY <2>5, <3>1, PlaceholderType
    <3>2. CASE s # cur
      BY <2>5, <2>6, <3>2 DEF TypeOK
    <3> QED
      BY <3>1, <3>2
  <2>8. /\ cur' = cur + 1 /\ cur + 1 \in 0 .. t.n /\ DOMAIN ph' = 0 .. cur' - 1
    BY <1>0, <1>1, <2>5 DEF CollectState
  <2> QED
    BY <1>1, <2>3, <2>4, <2>7, <2>8 DEF CollectState, TypeOK, packVars
<1>2. CASE NumberSymbols
  <2>1. /\ \A a \in DOMAIN num' : num'[a] \in Nat
        /\ seen' \in Nat \ {0} /\ pc' \in {"inputs", "failed"}
    <3>1. CASE harm = NoHarmonizer
      BY <1>2, <3>1, OwnNumbersType DEF NumberSymbols
    <3>2. CASE harm # NoHarmonizer
      BY <1>2, <3>2, HarmonizersAssumption DEF NumberSymbols, TypeOK
    <3> QED
      BY <3>1, <3>2
  <2>2. flags' \subseteq Nat
    BY <1>2, <2>1 DEF NumberSymbols
  <2>3. DOMAIN ph' = States(t)'
    BY <1>2 DEF NumberSymbols, TypeOK, States
  <2>4. cur' \in 0 .. t'.n /\ k' \in Nat \ {0}
    BY <1>0, <1>2 DEF NumberSymbols
  <2>5. UNCHANGED <<t, harm, first, strings, ph, indices, avail, prev, stuck>>
    BY <1>2 DEF NumberSymbols, packVars
  <2> QED
    BY <2>1, <2>2, <2>3, <2>4, <2>5 DEF TypeOK
<1>3. CASE AddArc
  <2>1. cur \in States(t) /\ cur \in DOMAIN ph /\ DOMAIN ph' = DOMAIN ph
    BY <1>0, <1>3 DEF AddArc, TypeOK, States
  <2> DEFINE a == t.arcs[cur][k]
             new == WithArc(ph[cur], Number(a.in),
                            [in |-> Number(a.in), out |-> Number(a.out), to |-> a.to])
  <2>2. Number(a.in) \in Nat
    BY DEF Number, TypeOK
  <2>3. ph' = [ph EXCEPT ![cur] = new]
    BY <1>3 DEF AddArc
  <2>4. /\ new = [first |-> ph[cur].first, start |-> ph[cur].start,
                  type |-> new.type, by |-> new.by]
        /\ new.type \in {"empty", "simple_zero_index", "simple_nonzero_index",
                         "nonsimple"}
        /\ DOMAIN new.by \subseteq Nat
    BY <2>1, <2>2, WithArcType DEF TypeOK
  <2> HIDE DEF new
  <2>5. \A s \in DOMAIN ph' : ph'[s] = IF s = cur THEN new ELSE ph[s]
    BY <2>1, <2>3
  <2>6. \A s \in DOMAIN ph' :
         /\ ph'[s] = [first |-> ph'[s].first, start |-> ph'[s].start,
                      type |-> ph'[s].type, by |-> ph'[s].by]
         /\ ph'[s].first \in Nat /\ ph'[s].start \in Nat
         /\ ph'[s].type \in {"empty", "simple_zero_index", "simple_nonzero_index",
                             "nonsimple"}
         /\ DOMAIN ph'[s].by \subseteq Nat
    <3> SUFFICES ASSUME NEW s \in DOMAIN ph'
                 PROVE  /\ ph'[s] = [first |-> ph'[s].first, start |-> ph'[s].start,
                                     type |-> ph'[s].type, by |-> ph'[s].by]
                        /\ ph'[s].first \in Nat /\ ph'[s].start \in Nat
                        /\ ph'[s].type \in {"empty", "simple_zero_index",
                                            "simple_nonzero_index", "nonsimple"}
                        /\ DOMAIN ph'[s].by \subseteq Nat
      OBVIOUS
    <3>1. CASE s = cur
      <4>1. ph[cur].first \in Nat /\ ph[cur].start \in Nat
        BY <2>1 DEF TypeOK
      <4>2. ph'[s] = new
        BY <2>5, <3>1
      <4> QED
        BY <2>4, <4>1, <4>2
    <3>2. CASE s # cur
      BY <2>1, <2>5, <3>2 DEF TypeOK
    <3> QED
      BY <3>1, <3>2
  <2>7. k' \in Nat \ {0}
    BY <1>3 DEF AddArc, TypeOK
  <2>8. DOMAIN ph' = States(t)'
    BY <1>3, <2>1 DEF AddArc, TypeOK, States
  <2> QED
    BY <1>0, <1>3, <2>1, <2>6, <2>7, <2>8 DEF AddArc, TypeOK, packVars, symbolVars
<1>4. CASE NextState
  BY <1>0, <1>4, SMTT(30) DEF NextState, TypeOK, packVars, symbolVars
<1>5. CASE SkipSimple
  BY <1>0, <1>5, SMTT(30) DEF SkipSimple, TypeOK, packVars, symbolVars
<1>6. CASE PlaceState
  <2>1. cur \in States(t) /\ cur \in DOMAIN ph
    BY <1>0, <1>6 DEF PlaceState, TypeOK, States
  <2>2. PICK i \in avail .. START - 1 :
          /\ ph' = [ph EXCEPT ![cur].start = i]
          /\ DOMAIN indices' = DOMAIN indices \cup {i}
                                 \cup {i + 1 + Slot(x) : x \in DOMAIN ph[cur].by}
          /\ \E a \in avail .. START :
               IF a # prev
               THEN avail' = a /\ prev' = a /\ stuck' = 0
               ELSE IF Stuck
               THEN avail' = JumpTarget(i) /\ prev' = avail' /\ stuck' = 0
               ELSE avail' = a /\ stuck' = stuck + 1 /\ UNCHANGED prev
    BY <1>6 DEF PlaceState
  <2>3. i \in Nat /\ avail \in Nat
    BY NumbersAssumption DEF TypeOK
  <2>4. /\ avail' \in Nat /\ prev' = avail' /\ stuck' \in 0 .. JUMP_THRESHOLD + 1
    BY <2>2, <2>3, NumbersAssumption, SMTT(30) DEF TypeOK, Stuck, JumpTarget
  <2>5. \A x \in DOMAIN ph[cur].by : Slot(x) \in Nat
    BY <2>1 DEF TypeOK, Slot
  <2>6. DOMAIN indices' \subseteq Nat
    BY <2>2, <2>3, <2>5 DEF TypeOK
  <2>7. /\ DOMAIN ph' = DOMAIN ph
        /\ \A s \in DOMAIN ph : ph'[s] = IF s = cur THEN [ph[s] EXCEPT !.start = i]
                                                     ELSE ph[s]
    BY <2>1, <2>2
  <2>8. \A s \in DOMAIN ph' :
         /\ ph'[s] = [first |-> ph'[s].first, start |-> ph'[s].start,
                      type |-> ph'[s].type, by |-> ph'[s].by]
         /\ ph'[s].first \in Nat /\ ph'[s].start \in Nat
         /\ ph'[s].type \in {"empty", "simple_zero_index", "simple_nonzero_index",
                             "nonsimple"}
         /\ DOMAIN ph'[s].by \subseteq Nat
    BY <2>3, <2>7, ZenonT(40) DEF TypeOK
  <2>9. DOMAIN ph' = States(t)'
    BY <1>6, <2>7 DEF PlaceState, TypeOK, States
  <2>10. cur' \in 0 .. t.n
    BY <1>0, <1>6 DEF PlaceState
  <2> QED
    BY <1>6, <2>4, <2>6, <2>8, <2>9, <2>10 DEF PlaceState, TypeOK, symbolVars
<1>7. CASE WriteIndex
  BY <1>0, <1>7 DEF WriteIndex, TypeOK, packVars, symbolVars
<1>8. CASE WriteState
  BY <1>0, <1>8, SMTT(30) DEF WriteState, TypeOK, packVars, symbolVars
<1>9. CASE Finish
  BY <1>9 DEF Finish, TypeOK, packVars, symbolVars
<1>10. CASE UNCHANGED vars
  BY <1>10 DEF TypeOK, vars, packVars, symbolVars
<1> QED
  BY <1>1, <1>2, <1>3, <1>4, <1>5, <1>6, <1>7, <1>8, <1>9, <1>10 DEF Next

\* The type invariant holds of every conversion.
THEOREM TypeCorrect == Spec => []TypeOK
BY InitType, NextType, PTL DEF Spec

-----------------------------------------------------------------------------
(* Slot ownership *)

\* Before packing no state is placed, so no position is used.
LEMMA NothingPlaced ==
    ASSUME pc \in {"collect", "inputs"}, SlotOwnership
    PROVE  DOMAIN indices = {}
BY DEF SlotOwnership, Placed

\* A step that changes neither the packing nor what is placed keeps ownership.
LEMMA OwnershipFrame ==
    ASSUME SlotOwnership, UNCHANGED <<ph, indices, flags>>,
           \A s \in DOMAIN ph : Placed(s)' <=> Placed(s)
    PROVE  SlotOwnership'
BY DEF SlotOwnership, Slots, Slot

\* A step before packing starts keeps ownership, whatever it does to ph.
LEMMA OwnershipBeforePacking ==
    ASSUME SlotOwnership, pc \in {"collect", "inputs"}, UNCHANGED indices,
           TypeOK', pc' \in {"collect", "inputs"} \/ (cur' = 0 /\ pc' \in {"pack", "failed"})
    PROVE  SlotOwnership'
<1>1. DOMAIN indices' = {}
  BY NothingPlaced
<1>2. \A s \in DOMAIN ph' : s \in Nat
  BY DEF TypeOK, States, IsTransducer
<1>3. \A s \in DOMAIN ph' : ~ (s < 0)
  BY <1>2
<1>4. \A s \in DOMAIN ph' : ~Placed(s)'
  BY <1>3 DEF Placed
<1> QED
  BY <1>1, <1>4 DEF SlotOwnership

\* What PlaceState does to the packing, in terms of the position i chosen.
LEMMA PlaceStateEffect ==
    ASSUME TypeOK, PlaceState
    PROVE  \E i \in Nat :
             /\ i \in avail .. START - 1
             /\ Fits(ph[cur], i)
             /\ cur \in DOMAIN ph /\ DOMAIN ph' = DOMAIN ph
             /\ \A s \in DOMAIN ph :
                  /\ ph'[s].by = ph[s].by /\ ph'[s].type = ph[s].type
                  /\ ph'[s].start = IF s = cur THEN i ELSE ph[s].start
             /\ LET slots == {i + 1 + Slot(x) : x \in DOMAIN ph[cur].by}
                IN  indices' = [q \in DOMAIN indices \cup {i} \cup slots |->
                                   IF q \in slots THEN <<cur, q - i - 1>>
                                   ELSE IF q = i THEN <<cur, NO_SYMBOL_NUMBER>>
                                   ELSE indices[q]]
<1>1. cur \in DOMAIN ph
  BY DEF PlaceState, TypeOK, States, IsTransducer
<1>2. PICK i \in avail .. START - 1 :
        /\ Fits(ph[cur], i)
        /\ ph' = [ph EXCEPT ![cur].start = i]
        /\ LET slots == {i + 1 + Slot(x) : x \in DOMAIN ph[cur].by}
           IN  indices' = [q \in DOMAIN indices \cup {i} \cup slots |->
                              IF q \in slots THEN <<cur, q - i - 1>>
                              ELSE IF q = i THEN <<cur, NO_SYMBOL_NUMBER>>
                              ELSE indices[q]]
  BY DEF PlaceState
<1>3. i \in Nat
  BY NumbersAssumption DEF TypeOK
<1>4. \A s \in DOMAIN ph :
        ph[s] = [first |-> ph[s].first, start |-> ph[s].start,
                 type |-> ph[s].type, by |-> ph[s].by]
  BY DEF TypeOK
<1>5. \A s \in DOMAIN ph :
        ph'[s] = IF s = cur THEN [ph[s] EXCEPT !.start = i] ELSE ph[s]
  BY <1>1, <1>2
<1>6. \A s \in DOMAIN ph :
        /\ ph'[s].by = ph[s].by /\ ph'[s].type = ph[s].type
        /\ ph'[s].start = IF s = cur THEN i ELSE ph[s].start
  BY <1>4, <1>5
<1>7. DOMAIN ph' = DOMAIN ph
  BY <1>2
<1> QED
  BY <1>1, <1>2, <1>3, <1>6, <1>7

THEOREM PlaceStateOwnership ==
    ASSUME TypeOK, SlotOwnership, PlaceState PROVE SlotOwnership'
<1>1. PICK i \in Nat :
        /\ Fits(ph[cur], i)
        /\ cur \in DOMAIN ph /\ DOMAIN ph' = DOMAIN ph
        /\ \A s \in DOMAIN ph :
             /\ ph'[s].by = ph[s].by /\ ph'[s].type = ph[s].type
             /\ ph'[s].start = IF s = cur THEN i ELSE ph[s].start
        /\ LET slots == {i + 1 + Slot(x) : x \in DOMAIN ph[cur].by}
           IN  indices' = [q \in DOMAIN indices \cup {i} \cup slots |->
                              IF q \in slots THEN <<cur, q - i - 1>>
                              ELSE IF q = i THEN <<cur, NO_SYMBOL_NUMBER>>
                              ELSE indices[q]]
  BY PlaceStateEffect
<1> DEFINE slots == {i + 1 + Slot(x) : x \in DOMAIN ph[cur].by}
<1>2. /\ DOMAIN indices' = DOMAIN indices \cup {i} \cup slots
      /\ \A q \in slots : indices'[q] = <<cur, q - i - 1>>
      /\ i \notin slots => indices'[i] = <<cur, NO_SYMBOL_NUMBER>>
      /\ \A q \in DOMAIN indices : q \notin slots /\ q # i => indices'[q] = indices[q]
  BY <1>1
<1>3. \A x \in Slots(cur) : x \in Nat /\ i + 1 + x \in slots /\ (i + 1 + x) - i - 1 = x
  <2>1. \A y \in DOMAIN ph[cur].by : Slot(y) \in Nat
    BY <1>1 DEF Slot, TypeOK
  <2>2. \A x \in Slots(cur) : x \in Nat /\ i + 1 + x \in slots
    BY <2>1 DEF Slots
  <2> QED
    BY <2>2
<1>4. \A q \in slots : \E x \in Slots(cur) : q = i + 1 + x
  BY DEF Slots
<1>5. i \notin slots
  BY <1>3, <1>4
<1>6. DOMAIN indices \cap slots = {} /\ i \notin DOMAIN indices
  BY <1>1 DEF Fits
<1> HIDE DEF slots
<1>7. \A s \in DOMAIN ph : Slots(s)' = Slots(s)
  BY <1>1 DEF Slots, Slot, PlaceState, symbolVars
<1>8. \A s \in DOMAIN ph : Placed(s)' <=> Placed(s) \/ s = cur
  <2>1. \A s \in DOMAIN ph : s \in Nat /\ cur \in Nat
    BY DEF TypeOK, PlaceState, States, IsTransducer
  <2>2. \A s \in DOMAIN ph : s < cur + 1 <=> s < cur \/ s = cur
    BY <2>1
  <2> QED
    BY <1>1, <2>2 DEF Placed, PlaceState, IsSimple
<1>9. ~Placed(cur)
  BY DEF Placed, TypeOK, PlaceState
<1>10. ASSUME NEW s \in DOMAIN ph', Placed(s)'
       PROVE  /\ ph'[s].start \in DOMAIN indices'
              /\ indices'[ph'[s].start] = <<s, NO_SYMBOL_NUMBER>>
              /\ \A x \in Slots(s)' :
                   /\ ph'[s].start + 1 + x \in DOMAIN indices'
                   /\ indices'[ph'[s].start + 1 + x] = <<s, x>>
  <2>1. CASE s = cur
    <3>1. ph'[s].start = i /\ Slots(s)' = Slots(cur)
      BY <1>1, <1>7, <2>1
    <3> QED
      BY <1>2, <1>3, <1>5, <2>1, <3>1
  <2>2. CASE s # cur
    <3>1. Placed(s) /\ ph'[s].start = ph[s].start /\ Slots(s)' = Slots(s)
      BY <1>1, <1>7, <1>8, <1>10, <2>2
    <3>2. /\ ph[s].start \in DOMAIN indices
          /\ indices[ph[s].start] = <<s, NO_SYMBOL_NUMBER>>
          /\ \A x \in Slots(s) :
               /\ ph[s].start + 1 + x \in DOMAIN indices
               /\ indices[ph[s].start + 1 + x] = <<s, x>>
      BY <1>1, <3>1 DEF SlotOwnership
    <3> QED
      BY <1>2, <1>6, <3>1, <3>2
  <2> QED
    BY <2>1, <2>2
<1>11. ASSUME NEW q \in DOMAIN indices'
       PROVE  \E s \in DOMAIN ph' :
                /\ Placed(s)'
                /\ \/ q = ph'[s].start /\ indices'[q] = <<s, NO_SYMBOL_NUMBER>>
                   \/ \E x \in Slots(s)' :
                        q = ph'[s].start + 1 + x /\ indices'[q] = <<s, x>>
  <2>1. CASE q \in slots
    <3>1. PICK x \in Slots(cur) : q = i + 1 + x
      BY <1>4, <2>1
    <3>2. indices'[q] = <<cur, x>>
      BY <1>2, <1>3, <2>1, <3>1
    <3> QED
      BY <1>1, <1>7, <1>8, <3>1, <3>2
  <2>2. CASE q = i
    BY <1>1, <1>2, <1>5, <1>8, <2>2
  <2>3. CASE q \notin slots /\ q # i
    <3>1. q \in DOMAIN indices /\ indices'[q] = indices[q]
      BY <1>2, <2>3
    <3>2. PICK s \in DOMAIN ph :
            /\ Placed(s)
            /\ \/ q = ph[s].start /\ indices[q] = <<s, NO_SYMBOL_NUMBER>>
               \/ \E x \in Slots(s) : q = ph[s].start + 1 + x /\ indices[q] = <<s, x>>
      BY <3>1 DEF SlotOwnership
    <3>3. s # cur
      BY <1>9, <3>2
    <3> QED
      BY <1>1, <1>7, <1>8, <3>1, <3>2, <3>3
  <2> QED
    BY <2>1, <2>2, <2>3
<1> QED
  BY <1>10, <1>11 DEF SlotOwnership

THEOREM NextOwnership == TypeOK /\ TypeOK' /\ SlotOwnership /\ [Next]_vars => SlotOwnership'
<1> SUFFICES ASSUME TypeOK, TypeOK', SlotOwnership, [Next]_vars PROVE SlotOwnership'
  OBVIOUS
<1>0. /\ t.n \in Nat \ {0} /\ cur \in Nat /\ cur <= t.n
      /\ pc # "collect" => \A s \in DOMAIN ph : s \in Nat /\ s < t.n
  BY SMTT(30) DEF TypeOK, IsTransducer, States
<1>1. CASE CollectState
  <2>1. /\ pc \in {"collect", "inputs"} /\ UNCHANGED indices
        /\ \/ pc' \in {"collect", "inputs"}
           \/ (cur' = 0 /\ pc' \in {"pack", "failed"})
    BY <1>1 DEF CollectState, packVars
  <2> QED
    BY <2>1, OwnershipBeforePacking
<1>2. CASE NumberSymbols
  <2>1. /\ pc \in {"collect", "inputs"} /\ UNCHANGED indices
        /\ \/ pc' \in {"collect", "inputs"}
           \/ (cur' = 0 /\ pc' \in {"pack", "failed"})
    BY <1>2 DEF NumberSymbols, packVars
  <2> QED
    BY <2>1, OwnershipBeforePacking
<1>3. CASE AddArc
  <2>1. /\ pc \in {"collect", "inputs"} /\ UNCHANGED indices
        /\ \/ pc' \in {"collect", "inputs"}
           \/ (cur' = 0 /\ pc' \in {"pack", "failed"})
    BY <1>3 DEF AddArc, packVars
  <2> QED
    BY <2>1, OwnershipBeforePacking
<1>4. CASE NextState
  <2>1. /\ pc \in {"collect", "inputs"} /\ UNCHANGED indices
        /\ \/ pc' \in {"collect", "inputs"}
           \/ (cur' = 0 /\ pc' \in {"pack", "failed"})
    BY <1>4 DEF NextState, packVars
  <2> QED
    BY <2>1, OwnershipBeforePacking
<1>5. CASE SkipSimple
  <2>1. \A s \in DOMAIN ph : s < cur + 1 <=> s < cur \/ s = cur
    BY <1>0, <1>5 DEF SkipSimple
  <2>2. \A s \in DOMAIN ph : Placed(s)' <=> Placed(s)
    BY <1>5, <2>1 DEF SkipSimple, Placed, IsSimple
  <2> QED
    BY <1>5, <2>2, OwnershipFrame DEF SkipSimple, packVars, symbolVars
<1>6. CASE PlaceState
  BY <1>6, PlaceStateOwnership
<1>7. CASE WriteIndex
  <2>1. \A s \in DOMAIN ph : Placed(s)' <=> Placed(s)
    BY <1>0, <1>7 DEF WriteIndex, Placed, IsSimple
  <2> QED
    BY <1>7, <2>1, OwnershipFrame DEF WriteIndex, packVars, symbolVars
<1>8. CASE WriteState
  <2>1. \A s \in DOMAIN ph : Placed(s)' <=> Placed(s)
    BY <1>8 DEF WriteState, Placed, IsSimple
  <2> QED
    BY <1>8, <2>1, OwnershipFrame DEF WriteState, packVars, symbolVars
<1>9. CASE Finish
  <2>1. \A s \in DOMAIN ph : Placed(s)' <=> Placed(s)
    BY <1>0, <1>9 DEF Finish, Placed, IsSimple
  <2> QED
    BY <1>9, <2>1, OwnershipFrame DEF Finish, packVars, symbolVars
<1>10. CASE UNCHANGED vars
  <2>1. \A s \in DOMAIN ph : Placed(s)' <=> Placed(s)
    BY <1>10 DEF vars, Placed, IsSimple
  <2> QED
    BY <1>10, <2>1, OwnershipFrame DEF vars, packVars, symbolVars
<1> QED
  BY <1>1, <1>2, <1>3, <1>4, <1>5, <1>6, <1>7, <1>8, <1>9, <1>10 DEF Next

\* For every graph: every packed state owns its slots, and every used position
\* has exactly one owner.
THEOREM OwnershipHolds == Spec => []SlotOwnership
<1>1. Init => SlotOwnership
  BY DEF Init, SlotOwnership, Placed
<1>2. TypeOK /\ TypeOK' /\ SlotOwnership /\ [Next]_vars => SlotOwnership'
  BY NextOwnership
<1> QED
  BY <1>1, <1>2, TypeCorrect, PTL DEF Spec

\* For every graph: packing a state never overwrites a position in use.
THEOREM NoOverwriteHolds == Spec => NoOverwrite
<1> DEFINE Kept == \A q \in DOMAIN indices :
                     q \in DOMAIN indices' /\ indices'[q] = indices[q]
<1>1. ASSUME TypeOK, [Next]_vars PROVE [Kept]_vars
  <2>1. CASE PlaceState
    <3>1. PICK i \in Nat :
            /\ Fits(ph[cur], i) /\ cur \in DOMAIN ph
            /\ LET slots == {i + 1 + Slot(x) : x \in DOMAIN ph[cur].by}
               IN  indices' = [q \in DOMAIN indices \cup {i} \cup slots |->
                                  IF q \in slots THEN <<cur, q - i - 1>>
                                  ELSE IF q = i THEN <<cur, NO_SYMBOL_NUMBER>>
                                  ELSE indices[q]]
      BY <1>1, <2>1, PlaceStateEffect
    <3> DEFINE slots == {i + 1 + Slot(x) : x \in DOMAIN ph[cur].by}
    <3>2. i \notin DOMAIN indices /\ slots \cap DOMAIN indices = {}
      BY <3>1 DEF Fits
    <3>3. /\ DOMAIN indices' = DOMAIN indices \cup {i} \cup slots
          /\ \A q \in DOMAIN indices : q \notin slots /\ q # i => indices'[q] = indices[q]
      BY <3>1
    <3> HIDE DEF slots
    <3> QED
      BY <3>2, <3>3
  <2>2. CASE UNCHANGED indices
    BY <2>2
  <2>3. UNCHANGED vars => UNCHANGED indices
    BY DEF vars, packVars
  <2> QED
    BY <1>1, <2>1, <2>2, <2>3 DEF Next, CollectState, NumberSymbols, AddArc, NextState,
       SkipSimple, WriteIndex, WriteState, Finish, packVars
<1> QED
  BY <1>1, TypeCorrect, PTL DEF Spec, NoOverwrite

-----------------------------------------------------------------------------
(* Addresses.  A simple state is addressed by its place in the transition  *)
(* table, which the first pass gave out in advance, any other by its start *)
(* slot, which the packing gave it.                                        *)

\* first_transition grows with every state, and state 0 is never simple: this is
\* what keeps a simple state's finality marker out of the other states' parts.
FirstsIncrease ==
    \A s \in DOMAIN ph :
        /\ pc = "collect" => ph[s].first < first
        /\ \A r \in DOMAIN ph : r < s => ph[r].first < ph[s].first
        /\ s = 0 => ph[s].type = "nonsimple"

StartsInTable == \A s \in DOMAIN ph : Placed(s) => ph[s].start < START

AddressInv == FirstsIncrease /\ StartsInTable

\* Adding an arc leaves a state where it is, and never makes it simple again.
LEMMA WithArcAddress ==
    ASSUME NEW p, NEW x \in Nat, NEW arc,
           p = [first |-> p.first, start |-> p.start, type |-> p.type, by |-> p.by]
    PROVE  /\ WithArc(p, x, arc).first = p.first
           /\ p.type = "nonsimple" => WithArc(p, x, arc).type = "nonsimple"
<1>1. p.type = "nonsimple" => TypeWith(p, x) = "nonsimple"
  BY DEF TypeWith
<1> QED
  BY <1>1 DEF WithArc

\* After the first pass, a step that moves no state and makes none simple.
LEMMA FirstsFrame ==
    ASSUME FirstsIncrease, pc' # "collect", DOMAIN ph' = DOMAIN ph,
           \A s \in DOMAIN ph :
               /\ ph'[s].first = ph[s].first
               /\ ph[s].type = "nonsimple" => ph'[s].type = "nonsimple"
    PROVE  FirstsIncrease'
BY DEF FirstsIncrease

\* A step after which the same states are placed, where they were.
LEMMA StartsFrame ==
    ASSUME StartsInTable, UNCHANGED ph, \A s \in DOMAIN ph : Placed(s)' => Placed(s)
    PROVE  StartsInTable'
BY DEF StartsInTable

\* A step before packing starts: nothing is placed yet.
LEMMA StartsBeforePacking ==
    ASSUME TypeOK', pc' \in {"collect", "inputs"} \/ (cur' = 0 /\ pc' \in {"pack", "failed"})
    PROVE  StartsInTable'
<1>1. \A s \in DOMAIN ph' : s \in Nat
  BY DEF TypeOK, States, IsTransducer
<1>2. \A s \in DOMAIN ph' : ~ (s < 0)
  BY <1>1
<1> QED
  BY <1>2 DEF Placed, StartsInTable

LEMMA NextAddressInv ==
    ASSUME TypeOK, TypeOK', AddressInv, [Next]_vars PROVE AddressInv'
<1>0. /\ t.n \in Nat \ {0} /\ cur \in Nat /\ cur <= t.n
      /\ pc # "collect" => \A s \in DOMAIN ph : s \in Nat /\ s < t.n
  BY SMTT(30) DEF TypeOK, IsTransducer, States
<1>1. CASE CollectState
  <2>1. /\ DOMAIN ph = 0 .. cur - 1 /\ DOMAIN ph' = 0 .. cur
        /\ \A s \in DOMAIN ph' : ph'[s] = IF s = cur THEN Placeholder(s) ELSE ph[s]
    BY <1>1 DEF CollectState, TypeOK
  <2>2. Len(t.arcs[cur]) \in Nat
    <3>1. cur \in States(t)
      BY <1>0, <1>1 DEF CollectState, States
    <3> QED
      BY <3>1, StringsOfState DEF TypeOK
  <2>3. first \in Nat /\ first' \in Nat /\ first < first'
    <3>1. first \in Nat
      BY DEF TypeOK
    <3>2. first' = first + 1 + Len(t.arcs[cur])
      BY <1>1 DEF CollectState, NextFirst
    <3>3. \A x, y \in Nat : x + 1 + y \in Nat /\ x < x + 1 + y
      OBVIOUS
    <3>4. /\ first + 1 + Len(t.arcs[cur]) \in Nat
          /\ first < first + 1 + Len(t.arcs[cur])
      BY <2>2, <3>1, <3>3
    <3> QED
      BY <3>1, <3>2, <3>4
  <2>4. /\ ph'[cur].first = first
        /\ cur = 0 => ph'[cur].type = "nonsimple"
    BY <1>0, <2>1 DEF Placeholder
  <2>5. \A s \in 0 .. cur - 1 :
            /\ ph'[s] = ph[s] /\ ph[s].first \in Nat /\ ph[s].first < first
            /\ \A r \in 0 .. cur - 1 : r < s => ph[r].first < ph[s].first
            /\ s = 0 => ph[s].type = "nonsimple"
    <3>1. \A s \in 0 .. cur - 1 : s \in DOMAIN ph' /\ s # cur
      BY <1>0, <2>1
    <3> QED
      BY <1>1, <2>1, <3>1 DEF CollectState, AddressInv, FirstsIncrease, TypeOK
  <2>6. FirstsIncrease'
    <3> SUFFICES ASSUME NEW s \in 0 .. cur
                 PROVE  /\ ph'[s].first < first'
                        /\ \A r \in 0 .. cur : r < s => ph'[r].first < ph'[s].first
                        /\ s = 0 => ph'[s].type = "nonsimple"
      BY <2>1 DEF FirstsIncrease
    <3>1. CASE s = cur
      <4>1. \A r \in 0 .. cur : r < s => r \in 0 .. cur - 1
        BY <1>0, <3>1
      <4> QED
        BY <1>0, <2>3, <2>4, <2>5, <3>1, <4>1
    <3>2. CASE s # cur
      <4>1. s \in 0 .. cur - 1 /\ \A r \in 0 .. cur : r < s => r \in 0 .. cur - 1
        BY <1>0, <3>2
      <4> QED
        <5>1. ph'[s].first < first'
          BY <2>3, <2>5, <4>1
        <5> QED
          BY <2>5, <4>1, <5>1
    <3> QED
      BY <3>1, <3>2
  <2>7. StartsInTable'
    BY <1>1, StartsBeforePacking DEF CollectState
  <2> QED
    BY <2>6, <2>7 DEF AddressInv
<1>2. CASE NumberSymbols
  <2>1. UNCHANGED ph /\ pc' # "collect"
        /\ (pc' \in {"collect", "inputs"} \/ (cur' = 0 /\ pc' \in {"pack", "failed"}))
    BY <1>2 DEF NumberSymbols
  <2> QED
    BY <2>1, FirstsFrame, StartsBeforePacking DEF AddressInv
<1>3. CASE AddArc
  <2>1. cur \in DOMAIN ph
    <3>1. cur \in States(t) /\ pc = "inputs"
      BY <1>0, <1>3 DEF AddArc, States
    <3>2. pc = "inputs" => DOMAIN ph = States(t)
      BY DEF TypeOK
    <3> QED
      BY <3>1, <3>2
  <2> DEFINE a == t.arcs[cur][k]
             new == WithArc(ph[cur], Number(a.in),
                            [in |-> Number(a.in), out |-> Number(a.out), to |-> a.to])
  <2>2. ph' = [ph EXCEPT ![cur] = new] /\ pc' = "inputs"
    BY <1>3 DEF AddArc
  <2>3. /\ new.first = ph[cur].first
        /\ ph[cur].type = "nonsimple" => new.type = "nonsimple"
    <3>1. Number(a.in) \in Nat
      BY DEF Number, TypeOK
    <3>2. ph[cur] = [first |-> ph[cur].first, start |-> ph[cur].start,
                     type |-> ph[cur].type, by |-> ph[cur].by]
      BY <2>1 DEF TypeOK
    <3> QED
      BY <3>1, <3>2, WithArcAddress
  <2> HIDE DEF new
  <2>4. /\ DOMAIN ph' = DOMAIN ph
        /\ \A s \in DOMAIN ph : ph'[s] = IF s = cur THEN new ELSE ph[s]
    BY <2>1, <2>2
  <2>5. FirstsIncrease'
    BY <2>2, <2>3, <2>4, FirstsFrame DEF AddressInv
  <2> QED
    BY <2>2, <2>5, StartsBeforePacking DEF AddressInv
<1>4. CASE NextState
  <2>1. UNCHANGED ph /\ pc' # "collect"
        /\ (pc' \in {"collect", "inputs"} \/ (cur' = 0 /\ pc' \in {"pack", "failed"}))
    BY <1>4 DEF NextState
  <2> QED
    BY <2>1, FirstsFrame, StartsBeforePacking DEF AddressInv
<1>5. CASE SkipSimple
  <2>1. \A s \in DOMAIN ph : s < cur + 1 <=> s < cur \/ s = cur
    BY <1>0, <1>5 DEF SkipSimple
  <2>2. \A s \in DOMAIN ph : Placed(s)' => Placed(s)
    BY <1>5, <2>1 DEF SkipSimple, Placed, IsSimple
  <2>3. UNCHANGED ph /\ pc' # "collect"
    BY <1>5 DEF SkipSimple
  <2> QED
    BY <2>2, <2>3, FirstsFrame, StartsFrame DEF AddressInv
<1>6. CASE PlaceState
  <2>1. PICK i \in Nat :
          /\ i \in avail .. START - 1
          /\ cur \in DOMAIN ph /\ DOMAIN ph' = DOMAIN ph
          /\ \A s \in DOMAIN ph :
               /\ ph'[s].type = ph[s].type
               /\ ph'[s].start = IF s = cur THEN i ELSE ph[s].start
    BY <1>6, PlaceStateEffect
  <2>2. i < START
    BY <2>1, NumbersAssumption, SMTT(30) DEF TypeOK
  <2>3. \A s \in DOMAIN ph : ph'[s].first = ph[s].first
    <3>1. \A s \in DOMAIN ph : ph[s] = [first |-> ph[s].first, start |-> ph[s].start,
                                        type |-> ph[s].type, by |-> ph[s].by]
      BY DEF TypeOK
    <3>2. PICK j \in avail .. START - 1 : ph' = [ph EXCEPT ![cur].start = j]
      BY <1>6 DEF PlaceState
    <3>3. \A s \in DOMAIN ph :
            ph'[s] = IF s = cur THEN [ph[s] EXCEPT !.start = j] ELSE ph[s]
      BY <2>1, <3>2
    <3> QED
      BY <3>1, <3>3
  <2>4. FirstsIncrease'
    <3>1. pc' # "collect"
      BY <1>6 DEF PlaceState
    <3> QED
      BY <2>1, <2>3, <3>1, FirstsFrame DEF AddressInv
  <2>5. StartsInTable'
    <3>1. \A s \in DOMAIN ph : s < cur + 1 <=> s < cur \/ s = cur
      BY <1>0, <1>6 DEF PlaceState
    <3>2. \A s \in DOMAIN ph : Placed(s)' => Placed(s) \/ s = cur
      BY <1>6, <2>1, <3>1 DEF PlaceState, Placed, IsSimple
    <3> QED
      BY <2>1, <2>2, <3>2 DEF StartsInTable, AddressInv
  <2> QED
    BY <2>4, <2>5 DEF AddressInv
<1>7. CASE WriteIndex
  <2>1. \A s \in DOMAIN ph : Placed(s)' => Placed(s)
    BY <1>0, <1>7 DEF WriteIndex, Placed, IsSimple
  <2>2. UNCHANGED ph /\ pc' # "collect"
    BY <1>7 DEF WriteIndex
  <2> QED
    BY <2>1, <2>2, FirstsFrame, StartsFrame DEF AddressInv
<1>8. CASE WriteState
  <2>1. \A s \in DOMAIN ph : Placed(s)' => Placed(s)
    BY <1>8 DEF WriteState, Placed, IsSimple
  <2>2. UNCHANGED ph /\ pc' # "collect"
    BY <1>8 DEF WriteState
  <2> QED
    BY <2>1, <2>2, FirstsFrame, StartsFrame DEF AddressInv
<1>9. CASE Finish
  <2>1. \A s \in DOMAIN ph : Placed(s)' => Placed(s)
    BY <1>0, <1>9 DEF Finish, Placed, IsSimple
  <2>2. UNCHANGED ph /\ pc' # "collect"
    BY <1>9 DEF Finish
  <2> QED
    BY <2>1, <2>2, FirstsFrame, StartsFrame DEF AddressInv
<1>10. CASE UNCHANGED vars
  <2>1. \A s \in DOMAIN ph : Placed(s)' => Placed(s)
    BY <1>10 DEF vars, Placed, IsSimple
  <2> QED
    BY <1>10, <2>1, StartsFrame DEF vars, AddressInv, FirstsIncrease
<1> QED
  BY <1>1, <1>2, <1>3, <1>4, <1>5, <1>6, <1>7, <1>8, <1>9, <1>10 DEF Next

\* Two start slots differ because each is owned by its state; two places in the
\* transition table because they increase; and the tables have no address in common.
LEMMA DistinctFromInv ==
    ASSUME TypeOK, SlotOwnership, AddressInv PROVE AddressesDistinct
<1> SUFFICES ASSUME pc \in {"write", "done"},
                    NEW s \in States(t), NEW r \in States(t), s # r
             PROVE  Address(s) # Address(r)
  BY DEF AddressesDistinct
<1>0. /\ s \in DOMAIN ph /\ r \in DOMAIN ph /\ s \in Nat /\ r \in Nat /\ 0 \in DOMAIN ph
  <2>1. t.n \in Nat \ {0}
    BY DEF TypeOK, IsTransducer
  <2>2. pc # "collect" => DOMAIN ph = States(t)
    BY DEF TypeOK
  <2> QED
    BY <2>1, <2>2 DEF States
<1>1. /\ s \in DOMAIN ph /\ r \in DOMAIN ph /\ s \in Nat /\ r \in Nat /\ 0 \in DOMAIN ph
      /\ START \in Nat \ {0} /\ ph[s].first \in Nat /\ ph[r].first \in Nat
      /\ ph[s].start \in Nat /\ ph[r].start \in Nat /\ ph[0].first \in Nat
  BY <1>0, NumbersAssumption DEF TypeOK
<1>2. ASSUME NEW q \in DOMAIN ph, ~IsSimple(ph[q])
      PROVE  Placed(q) /\ ph[q].start < START /\ indices[ph[q].start] = <<q, NO_SYMBOL_NUMBER>>
  BY <1>2 DEF Placed, AddressInv, StartsInTable, SlotOwnership
<1>3. ASSUME NEW q \in DOMAIN ph, q \in Nat, IsSimple(ph[q])
      PROVE  ph[0].first < ph[q].first
  <2>1. q # 0
    BY <1>3 DEF AddressInv, FirstsIncrease, IsSimple
  <2> QED
    BY <1>1, <1>3, <2>1 DEF AddressInv, FirstsIncrease
<1>4. CASE IsSimple(ph[s]) /\ IsSimple(ph[r])
  <2>1. s < r \/ r < s
    BY <1>1
  <2>2. ph[s].first < ph[r].first \/ ph[r].first < ph[s].first
    BY <1>1, <2>1 DEF AddressInv, FirstsIncrease
  <2> QED
    BY <1>1, <1>4, <2>2 DEF Address
<1>5. CASE ~IsSimple(ph[s]) /\ ~IsSimple(ph[r])
  <2>1. ph[s].start # ph[r].start
    BY <1>1, <1>2, <1>5
  <2> QED
    BY <1>5, <2>1 DEF Address
<1>6. CASE IsSimple(ph[s]) /\ ~IsSimple(ph[r])
  BY <1>1, <1>2, <1>3, <1>6 DEF Address
<1>7. CASE ~IsSimple(ph[s]) /\ IsSimple(ph[r])
  BY <1>1, <1>2, <1>3, <1>7 DEF Address
<1> QED
  BY <1>4, <1>5, <1>6, <1>7

\* For every graph: the address an arc is written with names one state
\* (StatePlaceholder, add_transitions_with).
THEOREM AddressesAreDistinct == Spec => []AddressesDistinct
<1>1. Init => AddressInv
  BY DEF Init, AddressInv, FirstsIncrease, StartsInTable
<1>2. TypeOK /\ TypeOK' /\ AddressInv /\ [Next]_vars => AddressInv'
  BY NextAddressInv
<1>3. TypeOK /\ SlotOwnership /\ AddressInv => AddressesDistinct
  BY DistinctFromInv
<1> QED
  BY <1>1, <1>2, <1>3, TypeCorrect, OwnershipHolds, PTL DEF Spec

-----------------------------------------------------------------------------
(* The operators of OlConvert with what they depend on as parameters, so   *)
(* that a step that leaves that alone leaves them alone                    *)

NumberIn(nm, a) == IF a \in DOMAIN nm THEN nm[a] ELSE 0
OwnIn(tr, nm, s, x, n) ==
    FlattenSeq([i \in 1 .. n |->
                  IF NumberIn(nm, tr.arcs[s][i].in) = x THEN <<tr.arcs[s][i]>> ELSE << >>])
ZeroIn(fl, x) == x = 0 \/ x \in fl
SlotIn(fl, x) == IF x \in fl THEN 0 ELSE x
AddressIn(P, s) == IF IsSimple(P[s]) THEN P[s].first + START - 1 ELSE P[s].start
WrittenIn(P, x, arcs) ==
    [i \in DOMAIN arcs |->
        [in |-> x, out |-> arcs[i].out, to |-> AddressIn(P, arcs[i].to)]]
Pieces(P, p, X, n) ==
    [i \in 1 .. n |-> IF i - 1 \in X THEN WrittenIn(P, i - 1, p.by[i - 1]) ELSE << >>]
WrittenWithIn(P, p, X) == FlattenSeq(Pieces(P, p, X, NO_SYMBOL_NUMBER + 1))
ZeroOf(fl, p) == {x \in DOMAIN p.by : ZeroIn(fl, x)}
OtherOf(fl, p) == DOMAIN p.by \ ZeroOf(fl, p)
StateArcsIn(P, fl, p) ==
    WrittenWithIn(P, p, ZeroOf(fl, p)) \o WrittenWithIn(P, p, OtherOf(fl, p))

\* The operators of OlConvert are these with its variables: numbers,
LEMMA NumberIs == \A a : Number(a) = NumberIn(num, a)
BY DEF Number, NumberIn

\* a state's arcs with an input,
LEMMA OwnIs == \A s, x, n : Own(s, x, n) = OwnIn(t, num, s, x, n)
BY DEF Own, OwnIn, Number, NumberIn

\* addresses,
LEMMA AddressIs == \A s : Address(s) = AddressIn(ph, s)
BY DEF Address, AddressIn

\* and the arcs of a state as they are written.
LEMMA StateArcsIs == \A p : StateArcs(p) = StateArcsIn(ph, flags, p)
BY DEF StateArcs, StateArcsIn, WrittenWith, WrittenWithIn, Pieces, Written, WrittenIn,
   Address, AddressIn, ZeroOf, OtherOf, ZeroIndexed, ZeroIn

-----------------------------------------------------------------------------
(* The arcs of a state with one input *)

Arcs(tr) == [in : Nat, out : Nat, to : States(tr)]

\* None of the first zero arcs of a state has any input.
LEMMA OwnEmpty == \A tr, nm, s, x : OwnIn(tr, nm, s, x, 0) = << >>
<1> SUFFICES ASSUME NEW tr, NEW nm, NEW s, NEW x PROVE OwnIn(tr, nm, s, x, 0) = << >>
  OBVIOUS
<1> DEFINE e == [i \in 1 .. 0 |-> IF NumberIn(nm, tr.arcs[s][i].in) = x THEN <<tr.arcs[s][i]>> ELSE << >>]
<1>1. OwnIn(tr, nm, s, x, 0) = FlattenSeq(e)
  BY DEF OwnIn
<1>2. e = << >> /\ Len(e) = 0
  OBVIOUS
<1> QED
  BY <1>1, <1>2, FlattenEmpty

\* The step from n arcs to n + 1.
OwnStep(tr, nm, s, x, n) ==
    /\ OwnIn(tr, nm, s, x, n) \in Seq(Arcs(tr))
    /\ OwnIn(tr, nm, s, x, n + 1) = OwnIn(tr, nm, s, x, n)
         \o (IF NumberIn(nm, tr.arcs[s][n + 1].in) = x THEN <<tr.arcs[s][n + 1]>> ELSE << >>)

\* One arc more is listed last if it has the input and not at all if it has not.
LEMMA OwnGrows ==
    ASSUME NEW tr, IsTransducer(tr), NEW nm, NEW s \in States(tr), NEW x, NEW n \in Nat
    PROVE  n + 1 <= Len(tr.arcs[s]) => OwnStep(tr, nm, s, x, n)
<1> DEFINE arcs == tr.arcs[s]
           q == [i \in 1 .. n + 1 |-> IF NumberIn(nm, arcs[i].in) = x THEN <<arcs[i]>> ELSE << >>]
           p == [i \in 1 .. n |-> IF NumberIn(nm, arcs[i].in) = x THEN <<arcs[i]>> ELSE << >>]
<1>1. arcs \in Seq(Arcs(tr)) /\ Len(arcs) \in Nat /\ \A i \in 1 .. Len(arcs) : arcs[i] \in Arcs(tr)
  BY SeqElements DEF IsTransducer, Arcs
<1>2. OwnIn(tr, nm, s, x, n) = FlattenSeq(p) /\ OwnIn(tr, nm, s, x, n + 1) = FlattenSeq(q)
  BY DEF OwnIn
<1>5. ASSUME n + 1 <= Len(arcs)
      PROVE  /\ FlattenSeq(p) \in Seq(Arcs(tr))
             /\ FlattenSeq(q) = FlattenSeq(p) \o q[n + 1]
  <2>1. \A i \in 1 .. n + 1 : q[i] \in Seq(Arcs(tr))
    <3> SUFFICES ASSUME NEW i \in 1 .. n + 1 PROVE q[i] \in Seq(Arcs(tr))
      OBVIOUS
    <3>1. arcs[i] \in Arcs(tr)
      BY <1>1, <1>5
    <3>2. <<arcs[i]>> \in Seq(Arcs(tr)) /\ << >> \in Seq(Arcs(tr))
      BY <3>1
    <3> QED
      BY <3>2
  <2>2. q \in Seq(Seq(Arcs(tr))) /\ Len(q) = n + 1 /\ ButLast(q) = p
    <3>1. q \in Seq(Seq(Arcs(tr))) /\ Len(q) = n + 1
      BY <2>1
    <3>2. \A i \in 1 .. n : q[i] = p[i]
      OBVIOUS
    <3>3. ButLast(q) = [i \in 1 .. n |-> q[i]]
      BY <3>1 DEF ButLast
    <3> QED
      BY <3>1, <3>2, <3>3
  <2> HIDE DEF p, q
  <2>3. Len(q) # 0
    BY <2>2
  <2>4. /\ FlattenSeq(ButLast(q)) \in Seq(Arcs(tr))
        /\ FlattenSeq(q) = FlattenSeq(ButLast(q)) \o q[Len(q)]
    BY <2>2, <2>3, FlattenLast
  <2> QED
    BY <2>2, <2>4
<1>6. q[n + 1] = IF NumberIn(nm, arcs[n + 1].in) = x THEN <<arcs[n + 1]>> ELSE << >>
  OBVIOUS
<1> HIDE DEF p, q
<1> QED
  BY <1>2, <1>5, <1>6 DEF OwnStep

\* A state's arcs with an input are arcs.
LEMMA OwnTyped ==
    ASSUME NEW tr, IsTransducer(tr), NEW nm, NEW s \in States(tr), NEW x, NEW n \in Nat,
           n <= Len(tr.arcs[s])
    PROVE  OwnIn(tr, nm, s, x, n) \in Seq(Arcs(tr))
<1>1. CASE n = 0
  <2>1. OwnIn(tr, nm, s, x, 0) = << >>
    BY OwnEmpty
  <2>2. << >> \in Seq(Arcs(tr))
    OBVIOUS
  <2> QED
    BY <1>1, <2>1, <2>2
<1>2. CASE n # 0
  <2> DEFINE m == n - 1
  <2>1. m \in Nat /\ m + 1 = n /\ m + 1 <= Len(tr.arcs[s])
    BY <1>2
  <2>2. tr.arcs[s] \in Seq(Arcs(tr))
    BY DEF IsTransducer, Arcs
  <2>3. m + 1 \in 1 .. Len(tr.arcs[s])
    BY <2>1
  <2>4. tr.arcs[s][m + 1] \in Arcs(tr)
    BY <2>2, <2>3
  <2> HIDE DEF m
  <2>5. /\ OwnIn(tr, nm, s, x, m) \in Seq(Arcs(tr))
        /\ OwnIn(tr, nm, s, x, m + 1) = OwnIn(tr, nm, s, x, m)
             \o (IF NumberIn(nm, tr.arcs[s][m + 1].in) = x THEN <<tr.arcs[s][m + 1]>> ELSE << >>)
    <3>1. OwnStep(tr, nm, s, x, m)
      BY <2>1, OwnGrows
    <3> QED
      BY <3>1 DEF OwnStep
  <2>6. (IF NumberIn(nm, tr.arcs[s][m + 1].in) = x THEN <<tr.arcs[s][m + 1]>> ELSE << >>)
          \in Seq(Arcs(tr))
    BY <2>4
  <2> DEFINE q == OwnIn(tr, nm, s, x, m)
             r == IF NumberIn(nm, tr.arcs[s][m + 1].in) = x THEN <<tr.arcs[s][m + 1]>> ELSE << >>
  <2>7. q \in Seq(Arcs(tr)) /\ r \in Seq(Arcs(tr)) /\ OwnIn(tr, nm, s, x, m + 1) = q \o r
    BY <2>5, <2>6
  <2> HIDE DEF q, r
  <2>8. q \o r \in Seq(Arcs(tr))
    BY <2>7
  <2>9. OwnIn(tr, nm, s, x, m + 1) \in Seq(Arcs(tr))
    BY <2>7, <2>8, Zenon
  <2>10. n = m + 1
    BY <2>1
  <2> QED
    BY <2>9, <2>10, Zenon
<1> QED
  BY <1>1, <1>2

-----------------------------------------------------------------------------
(* Counting the arcs of a state *)

\* Arcs by the number of their input.
IsBy(tr, by) ==
    /\ DOMAIN by \subseteq 0 .. NO_SYMBOL_NUMBER
    /\ \A x \in DOMAIN by : by[x] \in Seq(Arcs(tr))

\* Counting the arcs of a state input by input, as symbol_offset does.
LEMMA ArcsCounted ==
    ASSUME NEW tr, NEW p, NEW X \in SUBSET DOMAIN p.by, IsBy(tr, p.by), NEW x \in DOMAIN p.by
    PROVE  /\ IsFiniteSet(ArcsWith(p, X)) /\ Cardinality(ArcsWith(p, X)) \in Nat
           /\ x \notin X => Cardinality(ArcsWith(p, X \cup {x}))
                              = Cardinality(ArcsWith(p, X)) + Len(p.by[x])
<1> DEFINE F(Y) == ArcsWith(p, Y)
           N(y) == {y} \X DOMAIN p.by[y]
<1>1. NO_SYMBOL_NUMBER \in Nat
  BY NumbersAssumption
<1>2. \A y \in DOMAIN p.by : IsFiniteSet(N(y)) /\ Cardinality(N(y)) = Len(p.by[y])
  <2> SUFFICES ASSUME NEW y \in DOMAIN p.by
               PROVE  IsFiniteSet(N(y)) /\ Cardinality(N(y)) = Len(p.by[y])
    OBVIOUS
  <2>1. p.by[y] \in Seq(Arcs(tr))
    BY DEF IsBy
  <2>2. Len(p.by[y]) \in Nat /\ DOMAIN p.by[y] = 1 .. Len(p.by[y])
    BY <2>1, SeqElements
  <2>3. IsFiniteSet(1 .. Len(p.by[y])) /\ Cardinality(1 .. Len(p.by[y])) = Len(p.by[y])
    <3>1. 1 \in Int /\ Len(p.by[y]) \in Int
      BY <2>2
    <3>2. IsFiniteSet(1 .. Len(p.by[y]))
          /\ Cardinality(1 .. Len(p.by[y])) = IF 1 > Len(p.by[y]) THEN 0 ELSE Len(p.by[y]) - 1 + 1
      BY <3>1, FS_Interval
    <3> QED
      BY <2>2, <3>2
  <2>4. IsFiniteSet({y}) /\ Cardinality({y}) = 1
    BY FS_Singleton
  <2>5. IsFiniteSet({y} \X DOMAIN p.by[y])
        /\ Cardinality({y} \X DOMAIN p.by[y]) = 1 * Cardinality(DOMAIN p.by[y])
    BY <2>2, <2>3, <2>4, FS_Product
  <2> QED
    BY <2>2, <2>3, <2>5
<1>3. IsFiniteSet(X)
  <2>1. X \in SUBSET Nat /\ \A y \in X : y <= NO_SYMBOL_NUMBER
    BY <1>1 DEF IsBy
  <2> QED
    BY <1>1, <2>1, FS_BoundedSetOfNaturals
<1>4. IsFiniteSet(F(X))
  <2> DEFINE T == {N(y) : y \in X}
             h == [y \in X |-> N(y)]
  <2>1. h \in Surjection(X, T)
    BY DEF Surjection
  <2>2. \A U \in T : IsFiniteSet(U)
    BY <1>2
  <2>3. F(X) = UNION T
    BY DEF ArcsWith
  <2> HIDE DEF T, h, F
  <2>4. IsFiniteSet(T)
    BY <1>3, <2>1, FS_Surjection
  <2> QED
    BY <2>2, <2>3, <2>4, FS_UNION
<1>5. Cardinality(F(X)) \in Nat
  BY <1>4, FS_CardinalityType
<1>6. ASSUME x \notin X PROVE Cardinality(F(X \cup {x})) = Cardinality(F(X)) + Len(p.by[x])
  <2>1. F(X \cup {x}) = F(X) \cup N(x)
    BY DEF ArcsWith
  <2>2. F(X) \cap N(x) = {}
    BY <1>6 DEF ArcsWith
  <2>3. IsFiniteSet(N(x)) /\ Cardinality(N(x)) = Len(p.by[x])
    BY <1>2
  <2>4. Len(p.by[x]) \in Nat
    BY SeqElements DEF IsBy
  <2> HIDE DEF F, N
  <2>5. Cardinality(F(X) \cup N(x)) = Cardinality(F(X)) + Cardinality(N(x)) - Cardinality(F(X) \cap N(x))
    BY <1>4, <2>3, FS_Union
  <2>6. Cardinality(F(X) \cap N(x)) = 0
    BY <2>2, FS_EmptySet
  <2>7. Cardinality(F(X \cup {x})) = Cardinality(F(X) \cup N(x))
    BY <2>1
  <2>8. Cardinality(F(X) \cup N(x)) = Cardinality(F(X)) + Len(p.by[x]) - 0
    BY <2>3, <2>5, <2>6
  <2> QED
    BY <1>5, <2>4, <2>7, <2>8
<1> QED
  BY <1>4, <1>5, <1>6
-----------------------------------------------------------------------------
(* How the arcs of a state are laid out *)

\* Every state has an address that arcs into it can be written with.
Addressed(tr, P) == \A s \in States(tr) : AddressIn(P, s) \in Nat

\* What is written of a list of arcs, one entry for each.
LEMMA WrittenHolds ==
    ASSUME NEW x \in Nat, NEW tr, NEW P, NEW arcs \in Seq(Arcs(tr)), Addressed(tr, P)
    PROVE  /\ WrittenIn(P, x, arcs) \in Seq(Entries) /\ Len(WrittenIn(P, x, arcs)) = Len(arcs)
           /\ \A i \in 1 .. Len(arcs) :
                WrittenIn(P, x, arcs)[i] = [in |-> x, out |-> arcs[i].out, to |-> AddressIn(P, arcs[i].to)]
<1>1. Len(arcs) \in Nat /\ DOMAIN arcs = 1 .. Len(arcs) /\ \A i \in 1 .. Len(arcs) : arcs[i] \in Arcs(tr)
  BY SeqElements
<1>2. \A i \in 1 .. Len(arcs) :
        [in |-> x, out |-> arcs[i].out, to |-> AddressIn(P, arcs[i].to)] \in Entries
  <2> SUFFICES ASSUME NEW i \in 1 .. Len(arcs)
               PROVE  [in |-> x, out |-> arcs[i].out, to |-> AddressIn(P, arcs[i].to)] \in Entries
    OBVIOUS
  <2>1. arcs[i].out \in Nat /\ arcs[i].to \in States(tr)
    BY <1>1 DEF Arcs
  <2>2. AddressIn(P, arcs[i].to) \in Nat
    BY <2>1 DEF Addressed
  <2> QED
    BY <2>1, <2>2 DEF Entries
<1>3. WrittenIn(P, x, arcs) = [i \in 1 .. Len(arcs) |->
                            [in |-> x, out |-> arcs[i].out, to |-> AddressIn(P, arcs[i].to)]]
  BY <1>1 DEF WrittenIn
<1> QED
  BY <1>1, <1>2, <1>3

\* Where the arcs with input x start, among those with an input in X.
Upto(X, x) == {y \in X : y < x}
Place(p, X, x) == Cardinality(ArcsWith(p, Upto(X, x)))

\* q lists the arcs with inputs in X below n, each input's arcs in one block.
Listed(P, p, X, n, q) ==
    /\ q \in Seq(Entries) /\ Len(q) = Place(p, X, n)
    /\ \A x \in X : x < n => \A j \in 1 .. Len(p.by[x]) :
         Place(p, X, x) + j \in 1 .. Len(q) /\ q[Place(p, X, x) + j] = WrittenIn(P, x, p.by[x])[j]
    /\ \A j \in 1 .. Len(q) : \E x \in X :
         x < n /\ \E i \in 1 .. Len(p.by[x]) : j = Place(p, X, x) + i

\* The arcs with one input more come after those with the inputs below it.
LEMMA ListedStep ==
    ASSUME NEW tr, NEW p, NEW X \in SUBSET DOMAIN p.by, IsBy(tr, p.by), NEW P, Addressed(tr, P), NEW n \in Nat, NEW q,
           Listed(P, p, X, n, q)
    PROVE  Listed(P, p, X, n + 1, q \o (IF n \in X THEN WrittenIn(P, n, p.by[n]) ELSE << >>))
<1>0. /\ q \in Seq(Entries) /\ Len(q) = Place(p, X, n) /\ Len(q) \in Nat
      /\ X \subseteq Nat
  BY NumbersAssumption DEF Listed, IsBy
<1>1. CASE n \notin X
  <2>1. Upto(X, n + 1) = Upto(X, n)
    BY <1>0, <1>1 DEF Upto
  <2>2. Place(p, X, n + 1) = Place(p, X, n)
    BY <2>1 DEF Place
  <2>3. q \o << >> = q
    BY <1>0
  <2>4. \A x \in X : x < n + 1 <=> x < n
    BY <1>0, <1>1
  <2>5. Listed(P, p, X, n + 1, q)
    BY <2>2, <2>4 DEF Listed
  <2> QED
    BY <1>1, <2>3, <2>5
<1>2. CASE n \in X
  <2> DEFINE r == WrittenIn(P, n, p.by[n])
             m == Len(p.by[n])
  <2>0. p.by[n] \in Seq(Arcs(tr)) /\ m \in Nat
    BY <1>2, SeqElements DEF IsBy
  <2>1. r \in Seq(Entries) /\ Len(r) = m
    BY <1>2, <2>0, WrittenHolds
  <2>2. Upto(X, n + 1) = Upto(X, n) \cup {n} /\ n \notin Upto(X, n) /\ Upto(X, n) \in SUBSET DOMAIN p.by
    BY <1>0, <1>2 DEF Upto
  <2>3. Place(p, X, n + 1) = Place(p, X, n) + m
    BY <1>2, <2>2, ArcsCounted DEF Place
  <2> HIDE DEF r, m
  <2>4. /\ q \o r \in Seq(Entries) /\ Len(q \o r) = Len(q) + m
        /\ \A j \in 1 .. Len(q) : (q \o r)[j] = q[j]
        /\ \A j \in 1 .. m : (q \o r)[Len(q) + j] = r[j]
    <3>1. q \o r \in Seq(Entries) /\ Len(q \o r) = Len(q) + m
      BY <1>0, <2>0, <2>1
    <3>2. \A j \in 1 .. Len(q) : (q \o r)[j] = q[j]
      BY <1>0, <2>0, <2>1
    <3>3. ASSUME NEW j \in 1 .. m PROVE (q \o r)[Len(q) + j] = r[j]
      <4>1. j \in 1 .. Len(r) /\ q \in Seq(Entries)
        BY <1>0, <2>1
      <4>2. TailAt(q, r, j)
        BY <2>1, <4>1, TailOfConcat, Zenon
      <4> QED
        BY <4>2, Zenon DEF TailAt
    <3> QED
      BY <3>1, <3>2, <3>3
  <2>5. ASSUME NEW x \in X, x < n + 1, NEW j \in 1 .. Len(p.by[x])
        PROVE  /\ Place(p, X, x) + j \in 1 .. Len(q \o r)
               /\ (q \o r)[Place(p, X, x) + j] = WrittenIn(P, x, p.by[x])[j]
    <3>1. CASE x = n
      <4>1. j \in 1 .. m /\ Place(p, X, x) = Len(q)
        BY <1>0, <2>5, <3>1 DEF m
      <4>2. Len(q) + j \in 1 .. Len(q) + m
        BY <1>0, <2>0, <4>1
      <4>3. (q \o r)[Len(q) + j] = r[j]
        BY <2>4, <4>1
      <4> QED
        BY <2>4, <3>1, <4>1, <4>2, <4>3 DEF r
    <3>2. CASE x # n
      <4>1. x < n
        BY <1>0, <2>5, <3>2
      <4>2. Place(p, X, x) + j \in 1 .. Len(q) /\ q[Place(p, X, x) + j] = WrittenIn(P, x, p.by[x])[j]
        BY <2>5, <4>1 DEF Listed
      <4>3. (q \o r)[Place(p, X, x) + j] = q[Place(p, X, x) + j]
        BY <2>4, <4>2
      <4>4. Place(p, X, x) + j \in 1 .. Len(q) + m
        BY <1>0, <2>0, <4>2
      <4> QED
        BY <2>4, <4>2, <4>3, <4>4
    <3> QED
      BY <3>1, <3>2
  <2>6. ASSUME NEW j \in 1 .. Len(q \o r)
        PROVE  \E x \in X : x < n + 1 /\ \E i \in 1 .. Len(p.by[x]) : j = Place(p, X, x) + i
    <3>1. CASE j <= Len(q)
      <4>1. PICK x \in X : x < n /\ \E i \in 1 .. Len(p.by[x]) : j = Place(p, X, x) + i
        BY <1>0, <2>4, <2>6, <3>1 DEF Listed
      <4> QED
        BY <1>0, <4>1
    <3>2. CASE ~(j <= Len(q))
      <4>1. j - Len(q) \in 1 .. m /\ j = Len(q) + (j - Len(q))
        BY <1>0, <2>0, <2>4, <2>6, <3>2
      <4>2. j - Len(q) \in 1 .. Len(p.by[n]) /\ j = Place(p, X, n) + (j - Len(q))
        BY <1>0, <4>1 DEF m
      <4> QED
        BY <1>2, <4>2
    <3> QED
      BY <3>1, <3>2
  <2>7. Listed(P, p, X, n + 1, q \o r)
    BY <1>0, <2>3, <2>4, <2>5, <2>6 DEF Listed
  <2> QED
    BY <1>2, <2>7 DEF r
<1> QED
  BY <1>1, <1>2

\* The step from the inputs below n to those below n + 1.
PiecesStep(tr, P, p, X, n) ==
    FlattenSeq(Pieces(P, p, X, n + 1))
      = FlattenSeq(Pieces(P, p, X, n)) \o (IF n \in X THEN WrittenIn(P, n, p.by[n]) ELSE << >>)

\* The pieces written for the inputs up to n are those below n and that of n.
LEMMA PiecesGrow ==
    ASSUME NEW tr, NEW p, NEW X \in SUBSET DOMAIN p.by, IsBy(tr, p.by), NEW P, Addressed(tr, P), NEW n \in Nat
    PROVE  PiecesStep(tr, P, p, X, n)
<1> DEFINE q == Pieces(P, p, X, n + 1)
<1>1. \A i \in 1 .. n + 1 : q[i] \in Seq(Entries)
  <2> SUFFICES ASSUME NEW i \in 1 .. n + 1 PROVE q[i] \in Seq(Entries)
    OBVIOUS
  <2>1. q[i] = IF i - 1 \in X THEN WrittenIn(P, i - 1, p.by[i - 1]) ELSE << >>
    BY DEF Pieces
  <2>2. i - 1 \in X => WrittenIn(P, i - 1, p.by[i - 1]) \in Seq(Entries)
    <3>1. i - 1 \in Nat /\ (i - 1 \in X => p.by[i - 1] \in Seq(Arcs(tr)))
      BY DEF IsBy
    <3> QED
      BY <3>1, WrittenHolds
  <2>3. << >> \in Seq(Entries)
    OBVIOUS
  <2> HIDE DEF q
  <2> QED
    BY <2>1, <2>2, <2>3
<1>2. q \in Seq(Seq(Entries)) /\ Len(q) = n + 1 /\ Len(q) # 0
  <2>1. q = [i \in 1 .. n + 1 |-> q[i]]
    BY DEF Pieces
  <2> HIDE DEF q
  <2> QED
    BY SMTT(40), <1>1, <2>1
<1>3. ButLast(q) = Pieces(P, p, X, n)
  <2>1. \A i \in 1 .. n : q[i] = IF i - 1 \in X THEN WrittenIn(P, i - 1, p.by[i - 1]) ELSE << >>
    BY DEF Pieces
  <2> HIDE DEF q
  <2> QED
    BY <1>2, <2>1 DEF ButLast, Pieces
<1>4. q[n + 1] = IF n \in X THEN WrittenIn(P, n, p.by[n]) ELSE << >>
  BY DEF Pieces
<1> HIDE DEF q
<1>5. FlattenSeq(q) = FlattenSeq(ButLast(q)) \o q[Len(q)]
  BY <1>2, FlattenLast
<1> QED
  BY <1>2, <1>3, <1>4, <1>5 DEF q, PiecesStep

\* What is written of a state lists its arcs input by input, each input's in one block.
LEMMA AllListed ==
    ASSUME NEW tr, NEW p, NEW X \in SUBSET DOMAIN p.by, IsBy(tr, p.by), NEW P, Addressed(tr, P)
    PROVE  Listed(P, p, X, NO_SYMBOL_NUMBER + 1, WrittenWithIn(P, p, X))
<1> DEFINE B(n) == FlattenSeq(Pieces(P, p, X, n))
           bad == {n \in Nat : ~Listed(P, p, X, n, B(n))}
<1>1. bad = {}
  <2> SUFFICES ASSUME bad # {} PROVE FALSE
    OBVIOUS
  <2>1. PICK n \in bad : \A i \in bad : n <= i
    <3>1. bad \in SUBSET Nat
      OBVIOUS
    <3> HIDE DEF bad
    <3> QED
      BY <3>1, LeastElement
  <2>2. n \in Nat /\ ~Listed(P, p, X, n, B(n))
    BY <2>1
  <2>3. CASE n = 0
    <3>1. Pieces(P, p, X, 0) = << >> /\ Len(Pieces(P, p, X, 0)) = 0
      BY DEF Pieces
    <3>2. B(0) = << >>
      BY <3>1, FlattenEmpty
    <3>3. X \subseteq Nat
      BY NumbersAssumption DEF IsBy
    <3>4. Upto(X, 0) = {}
      BY <3>3 DEF Upto
    <3>5. ArcsWith(p, {}) = {}
      BY DEF ArcsWith
    <3>6. Place(p, X, 0) = 0
      BY <3>4, <3>5, FS_EmptySet DEF Place
    <3>7. << >> \in Seq(Entries) /\ Len(<< >>) = 0 /\ \A x \in X : ~(x < 0)
      BY <3>3
    <3>8. Listed(P, p, X, 0, << >>)
      BY <3>6, <3>7 DEF Listed
    <3> QED
      BY <2>2, <2>3, <3>2, <3>8
  <2>4. CASE n # 0
    <3>1. n - 1 \in Nat /\ n - 1 \notin bad
      <4>1. n - 1 \in Nat /\ ~(n <= n - 1)
        BY <2>2, <2>4
      <4> HIDE DEF bad
      <4> QED
        BY <2>1, <4>1
    <3> DEFINE m == n - 1
    <3>2. m \in Nat /\ m + 1 = n /\ Listed(P, p, X, m, B(m))
      BY <2>2, <3>1
    <3> HIDE DEF m
    <3>3. B(m + 1) = B(m) \o (IF m \in X THEN WrittenIn(P, m, p.by[m]) ELSE << >>)
      <4>1. FlattenSeq(Pieces(P, p, X, m + 1)) = FlattenSeq(Pieces(P, p, X, m))
              \o (IF m \in X THEN WrittenIn(P, m, p.by[m]) ELSE << >>)
        <5>1. PiecesStep(tr, P, p, X, m)
          BY <3>2, PiecesGrow
        <5> QED
          BY <5>1 DEF PiecesStep
      <4> QED
        BY <4>1
    <3> HIDE DEF B
    <3>4. Listed(P, p, X, m + 1, B(m) \o (IF m \in X THEN WrittenIn(P, m, p.by[m]) ELSE << >>))
      BY <3>2, ListedStep
    <3> QED
      BY <2>2, <3>2, <3>3, <3>4
  <2> QED
    BY <2>3, <2>4
<1>2. WrittenWithIn(P, p, X) = B(NO_SYMBOL_NUMBER + 1)
  BY DEF WrittenWithIn
<1>3. NO_SYMBOL_NUMBER + 1 \in Nat
  BY NumbersAssumption
<1> HIDE DEF B
<1> QED
  BY <1>1, <1>2, <1>3
-----------------------------------------------------------------------------
(* The numbers of the symbols *)

\* Flags are told from other inputs when they are collected.
StringsApart ==
    /\ strings.inputs \cap FlagStrings = {}
    /\ strings.flags \subseteq FlagStrings

\* Two finite sets with nothing in common have as many elements as both together.
LEMMA DisjointCount ==
    ASSUME NEW S, IsFiniteSet(S), NEW T, IsFiniteSet(T), S \cap T = {}
    PROVE  /\ IsFiniteSet(S \cup T) /\ Cardinality(S) \in Nat /\ Cardinality(T) \in Nat
           /\ Cardinality(S \cup T) = Cardinality(S) + Cardinality(T)
<1>1. Cardinality(S \cap T) = 0
  BY FS_EmptySet
<1>2. Cardinality(S) \in Nat /\ Cardinality(T) \in Nat
  BY FS_CardinalityType
<1>3. IsFiniteSet(S \cup T)
      /\ Cardinality(S \cup T) = Cardinality(S) + Cardinality(T) - Cardinality(S \cap T)
  BY FS_Union
<1> QED
  BY <1>1, <1>2, <1>3

\* The rank of an element is below the number of elements.
LEMMA RankBelow ==
    ASSUME NEW S \in SUBSET Nat, IsFiniteSet(S), NEW a \in S
    PROVE  Rank(a, S) \in Nat /\ Rank(a, S) < Cardinality(S)
<1> DEFINE T == {b \in S : b < a}
<1>1. T \in SUBSET (S \ {a})
  OBVIOUS
<1>2. IsFiniteSet(S \ {a}) /\ Cardinality(S \ {a}) = Cardinality(S) - 1
  BY FS_RemoveElement
<1>3. Cardinality(S) \in Nat
  BY FS_CardinalityType
<1> HIDE DEF T
<1>4. IsFiniteSet(T) /\ Cardinality(T) <= Cardinality(S \ {a})
  BY <1>1, <1>2, FS_Subset
<1>5. Cardinality(T) \in Nat
  BY <1>4, FS_CardinalityType
<1>6. Rank(a, S) = Cardinality(T)
  BY DEF Rank, T
<1> QED
  BY <1>2, <1>3, <1>4, <1>5, <1>6

\* Numbering the inputs before the other symbols keeps the numbers of inputs below
\* their count, and all numbers below the count of symbols.
LEMMA OwnNumbersFit ==
    ASSUME TypeOK, StringsApart
    PROVE  /\ Cardinality(DOMAIN OwnNumbers) \in Nat
           /\ 1 + Cardinality(strings.inputs \ {EPSILON}) <= Cardinality(DOMAIN OwnNumbers)
           /\ \A a \in DOMAIN OwnNumbers : OwnNumbers[a] < Cardinality(DOMAIN OwnNumbers)
<1> DEFINE ins == strings.inputs \ {EPSILON}
           fl == strings.flags
           outs == strings.outputs \ (ins \cup fl \cup {EPSILON})
           c == Cardinality(DOMAIN OwnNumbers)
<1>1. DOMAIN OwnNumbers = {EPSILON} \cup ins \cup fl \cup outs
  BY DEF OwnNumbers
<1>2. /\ IsFiniteSet(ins) /\ ins \in SUBSET Nat /\ IsFiniteSet(fl) /\ fl \in SUBSET Nat
      /\ IsFiniteSet(outs) /\ outs \in SUBSET Nat
  <2>1. \A S \in {strings.inputs, fl, strings.outputs} : IsFiniteSet(S) /\ S \subseteq Nat
    BY DEF TypeOK
  <2>2. ins \in SUBSET strings.inputs /\ outs \in SUBSET strings.outputs
    OBVIOUS
  <2>3. IsFiniteSet(ins) /\ IsFiniteSet(outs)
    BY <2>1, <2>2, FS_Subset
  <2> QED
    BY <2>1, <2>3
<1>3. /\ {EPSILON} \cap ins = {} /\ ({EPSILON} \cup ins) \cap fl = {}
      /\ ({EPSILON} \cup ins \cup fl) \cap outs = {}
  BY NumbersAssumption DEF StringsApart, EPSILON
<1>4. \A a \in DOMAIN OwnNumbers : OwnNumbers[a] =
        IF a = EPSILON THEN 0
        ELSE IF a \in ins THEN 1 + Rank(a, ins)
        ELSE IF a \in fl THEN 1 + Cardinality(ins) + Rank(a, fl)
        ELSE 1 + Cardinality(ins) + Cardinality(fl) + Rank(a, outs)
  BY DEF OwnNumbers
<1> HIDE DEF ins, fl, outs
<1>5. IsFiniteSet({EPSILON}) /\ Cardinality({EPSILON}) = 1
  BY FS_Singleton
<1>6. /\ IsFiniteSet({EPSILON} \cup ins) /\ Cardinality(ins) \in Nat
      /\ Cardinality({EPSILON} \cup ins) = 1 + Cardinality(ins)
  BY <1>2, <1>3, <1>5, DisjointCount
<1>7. /\ IsFiniteSet({EPSILON} \cup ins \cup fl) /\ Cardinality(fl) \in Nat
      /\ Cardinality({EPSILON} \cup ins \cup fl) = 1 + Cardinality(ins) + Cardinality(fl)
  <2>1. /\ IsFiniteSet(({EPSILON} \cup ins) \cup fl) /\ Cardinality(fl) \in Nat
        /\ Cardinality(({EPSILON} \cup ins) \cup fl) = Cardinality({EPSILON} \cup ins) + Cardinality(fl)
    BY <1>2, <1>3, <1>6, DisjointCount
  <2> QED
    BY <1>6, <2>1
<1>8. Cardinality(outs) \in Nat /\ c = 1 + Cardinality(ins) + Cardinality(fl) + Cardinality(outs)
  <2>1. Cardinality(outs) \in Nat /\ Cardinality(({EPSILON} \cup ins \cup fl) \cup outs)
          = Cardinality({EPSILON} \cup ins \cup fl) + Cardinality(outs)
    BY <1>2, <1>3, <1>7, DisjointCount
  <2> QED
    BY <1>1, <1>7, <2>1
<1> HIDE DEF c
<1>9. ASSUME NEW a \in DOMAIN OwnNumbers PROVE OwnNumbers[a] < c
  <2>1. CASE a = EPSILON
    BY <1>4, <1>6, <1>7, <1>8, <2>1
  <2>2. CASE a # EPSILON /\ a \in ins
    <3>1. Rank(a, ins) \in Nat /\ Rank(a, ins) < Cardinality(ins)
      BY <1>2, <2>2, RankBelow
    <3> QED
      BY <1>4, <1>6, <1>7, <1>8, <2>2, <3>1
  <2>3. CASE a # EPSILON /\ a \notin ins /\ a \in fl
    <3>1. Rank(a, fl) \in Nat /\ Rank(a, fl) < Cardinality(fl)
      BY <1>2, <2>3, RankBelow
    <3> QED
      BY <1>4, <1>6, <1>7, <1>8, <2>3, <3>1
  <2>4. CASE a # EPSILON /\ a \notin ins /\ a \notin fl
    <3>1. a \in outs
      BY <1>1, <2>4
    <3>2. Rank(a, outs) \in Nat /\ Rank(a, outs) < Cardinality(outs)
      BY <1>2, <3>1, RankBelow
    <3> QED
      BY <1>4, <1>6, <1>7, <1>8, <2>4, <3>2
  <2> QED
    BY <2>1, <2>2, <2>3, <2>4
<1> QED
  BY <1>6, <1>7, <1>8, <1>9 DEF c, ins

\* What is known of the numbers once there are some.
NumbersFit ==
    /\ StringsApart
    /\ pc \notin {"collect", "failed"} =>
         /\ flags \subseteq {num[a] : a \in DOMAIN num}
         /\ harm = NoHarmonizer =>
              /\ Cardinality(DOMAIN num) \in Nat /\ seen <= Cardinality(DOMAIN num)
              /\ \A a \in DOMAIN num : num[a] < Cardinality(DOMAIN num)
              /\ \A a \in DOMAIN num : num[a] <= NO_SYMBOL_NUMBER
         /\ harm # NoHarmonizer =>
              /\ seen <= NO_SYMBOL_NUMBER
              /\ \A a \in DOMAIN num : num[a] < NO_SYMBOL_NUMBER
    /\ pc = "done" /\ harm = NoHarmonizer => Cardinality(DOMAIN num) <= NO_SYMBOL_NUMBER

\* No step of the conversion makes a number too large for a SymbolNumber, or a flag of
\* an input that is none.
LEMMA NumbersFitHolds ==
    ASSUME TypeOK, NumbersFit, [Next]_vars PROVE NumbersFit'
<1>1. CASE CollectState
  <2>1. pc = "collect" /\ pc' = "collect"
    BY <1>1 DEF CollectState
  <2>2. StringsApart'
    <3>1. CASE harm # NoHarmonizer
      BY <1>1, <3>1 DEF CollectState, StringsApart, NumbersFit
    <3>2. CASE harm = NoHarmonizer
      <4> DEFINE ins == {t.arcs[cur][i].in : i \in DOMAIN t.arcs[cur]}
      <4>1. /\ strings'.inputs = strings.inputs \cup (ins \ FlagStrings)
            /\ strings'.flags = strings.flags \cup (ins \cap FlagStrings)
        BY <1>1, <3>2 DEF CollectState
      <4> HIDE DEF ins
      <4> QED
        BY <4>1 DEF StringsApart, NumbersFit
    <3> QED
      BY <3>1, <3>2
  <2> QED
    BY <2>1, <2>2 DEF NumbersFit
<1>2. CASE NumberSymbols
  <2>1. /\ UNCHANGED <<strings, harm>> /\ pc' # "done" /\ pc' # "collect"
        /\ flags' = {num'[a] : a \in DOMAIN num' \cap FlagStrings}
    BY <1>2 DEF NumberSymbols
  <2>2. flags' \subseteq {num'[a] : a \in DOMAIN num'}
    BY <2>1
  <2>3. CASE harm = NoHarmonizer
    <3>1. /\ num' = OwnNumbers /\ seen' = 1 + Cardinality(strings.inputs \ {EPSILON})
          /\ pc' # "failed" => \A a \in DOMAIN num' : ~(num'[a] > NO_SYMBOL_NUMBER)
      BY <1>2, <2>3 DEF NumberSymbols
    <3>2. /\ Cardinality(DOMAIN num') \in Nat /\ seen' <= Cardinality(DOMAIN num')
          /\ \A a \in DOMAIN num' : num'[a] < Cardinality(DOMAIN num')
      BY <3>1, OwnNumbersFit DEF NumbersFit
    <3>3. \A a \in DOMAIN num' : num'[a] \in Nat
      BY <3>1, OwnNumbersType
    <3>4. pc' # "failed" => \A a \in DOMAIN num' : num'[a] <= NO_SYMBOL_NUMBER
      BY <3>1, <3>3, NumbersAssumption
    <3> QED
      BY <2>1, <2>2, <2>3, <3>2, <3>4 DEF NumbersFit, StringsApart
  <2>4. CASE harm # NoHarmonizer
    <3>1. num' = harm.numbers /\ seen' = harm.inputs
      BY <1>2, <2>4 DEF NumberSymbols
    <3>2. harm \in Harmonizers \ {NoHarmonizer}
      BY <2>4 DEF TypeOK
    <3>3. seen' <= NO_SYMBOL_NUMBER /\ \A a \in DOMAIN num' : num'[a] < NO_SYMBOL_NUMBER
      BY <3>1, <3>2, HarmonizersAssumption, NumbersAssumption
    <3> QED
      BY <2>1, <2>2, <2>4, <3>3 DEF NumbersFit, StringsApart
  <2> QED
    BY <2>3, <2>4
<1>3. CASE Finish
  <2>1. /\ UNCHANGED <<strings, harm, num, seen, flags>> /\ pc = "write"
        /\ pc' = IF HeaderOverflow THEN "failed" ELSE "done"
    BY <1>3 DEF Finish, symbolVars
  <2>2. pc' = "done" /\ harm = NoHarmonizer => Cardinality(DOMAIN num) <= NO_SYMBOL_NUMBER
    <3> SUFFICES ASSUME pc' = "done", harm = NoHarmonizer
                 PROVE  Cardinality(DOMAIN num) <= NO_SYMBOL_NUMBER
      OBVIOUS
    <3>1. Cardinality(DOMAIN num) \in Nat
      BY <2>1 DEF NumbersFit
    <3> QED
      BY <2>1, <3>1, NumbersAssumption DEF HeaderOverflow
  <2> QED
    BY <2>1, <2>2 DEF NumbersFit, StringsApart
<1>4. CASE AddArc \/ NextState \/ SkipSimple \/ PlaceState \/ WriteIndex \/ WriteState \/ UNCHANGED vars
  <2>1. /\ UNCHANGED <<strings, harm, num, seen, flags>>
        /\ (pc' = pc \/ (pc \in {"inputs", "pack"} /\ pc' \in {"pack", "write"}))
    BY <1>4 DEF AddArc, NextState, SkipSimple, PlaceState, WriteIndex, WriteState, vars,
       symbolVars, packVars
  <2> QED
    BY <2>1 DEF NumbersFit, StringsApart
<1> QED
  BY <1>1, <1>2, <1>3, <1>4 DEF Next
-----------------------------------------------------------------------------
(* What a state's placeholder has gathered *)

\* The arcs as the placeholder keeps them.
Conv(nm, x, own) ==
    [i \in DOMAIN own |-> [in |-> x, out |-> NumberIn(nm, own[i].out), to |-> own[i].to]]

\* p has the first n arcs of s.
GatheredAt(tr, nm, fl, s, p, n) ==
    /\ n \in Nat /\ n <= Len(tr.arcs[s]) /\ IsBy(tr, p.by)
    /\ DOMAIN p.by = {NumberIn(nm, tr.arcs[s][i].in) : i \in 1 .. n}
    /\ \A x \in DOMAIN p.by : p.by[x] = Conv(nm, x, OwnIn(tr, nm, s, x, n))
    /\ \A x \in DOMAIN p.by : OwnIn(tr, nm, s, x, n) # << >>
    /\ \A x \in Nat : x \notin DOMAIN p.by => OwnIn(tr, nm, s, x, n) = << >>
    /\ Cardinality(ArcsWith(p, DOMAIN p.by)) = n
    /\ p.type = "empty" => DOMAIN p.by = {}
    /\ p.type = "simple_zero_index" => \A x \in DOMAIN p.by : ZeroIn(fl, x)
    /\ p.type = "simple_nonzero_index" => \E x : DOMAIN p.by = {x} /\ ~ZeroIn(fl, x)

\* A state has finitely many arcs with the inputs in X.
LEMMA ArcsFinite ==
    ASSUME NEW tr, NEW p, IsBy(tr, p.by), NEW X \in SUBSET DOMAIN p.by
    PROVE  IsFiniteSet(ArcsWith(p, X)) /\ Cardinality(ArcsWith(p, X)) \in Nat
<1>1. CASE DOMAIN p.by = {}
  <2>1. ArcsWith(p, X) = {}
    BY <1>1 DEF ArcsWith
  <2> QED
    BY <2>1, FS_EmptySet
<1>2. CASE DOMAIN p.by # {}
  <2>1. PICK x \in DOMAIN p.by : TRUE
    BY <1>2
  <2> QED
    BY <2>1, ArcsCounted
<1> QED
  BY <1>1, <1>2

\* The parts of a placeholder.
IsPlaceholder(p) ==
    /\ p = [first |-> p.first, start |-> p.start, type |-> p.type, by |-> p.by]
    /\ p.type \in {"empty", "simple_zero_index", "simple_nonzero_index", "nonsimple"}

\* What add_input and add_transition leave of the placeholder.
LEMMA WithArcIs ==
    ASSUME NEW p, IsPlaceholder(p), NEW x, NEW arc
    PROVE  /\ IsPlaceholder(WithArc(p, x, arc))
           /\ WithArc(p, x, arc).by = ByWith(p.by, x, arc)
           /\ WithArc(p, x, arc).first = p.first /\ WithArc(p, x, arc).start = p.start
           /\ WithArc(p, x, arc).type = IF x \in DOMAIN p.by THEN p.type ELSE TypeWith(p, x)
<1>1. TypeWith(p, x) \in {"empty", "simple_zero_index", "simple_nonzero_index", "nonsimple"}
  BY DEF TypeWith
<1> DEFINE b == ByWith(p.by, x, arc)
           u == IF x \in DOMAIN p.by THEN p.type ELSE TypeWith(p, x)
<1>2. u \in {"empty", "simple_zero_index", "simple_nonzero_index", "nonsimple"}
  BY <1>1 DEF IsPlaceholder
<1>3. WithArc(p, x, arc) = [first |-> p.first, start |-> p.start, type |-> u, by |-> b]
  BY DEF WithArc
<1> HIDE DEF b, u
<1> QED
  BY <1>2, <1>3 DEF IsPlaceholder, b, u

\* A sequence with one element more, as a function.
LEMMA AppendIs ==
    ASSUME NEW S, NEW q \in Seq(S), NEW a \in S, NEW n \in Nat, Len(q) = n
    PROVE  Append(q, a) = [i \in 1 .. n + 1 |-> IF i = n + 1 THEN a ELSE q[i]]
<1> DEFINE r == Append(q, a)
<1>1. r \in Seq(S) /\ Len(r) = n + 1 /\ r[n + 1] = a /\ \A i \in 1 .. n : r[i] = q[i]
  OBVIOUS
<1> HIDE DEF r
<1>2. r = [i \in 1 .. n + 1 |-> r[i]]
  BY <1>1
<1>3. \A i \in 1 .. n + 1 : r[i] = IF i = n + 1 THEN a ELSE q[i]
  BY <1>1
<1>4. r = [i \in 1 .. n + 1 |-> IF i = n + 1 THEN a ELSE q[i]]
  BY <1>2, <1>3
<1> QED
  BY <1>4 DEF r

\* Converting one arc more.
LEMMA ConvAppend ==
    ASSUME NEW nm, NEW x, NEW S, NEW own \in Seq(S), NEW a \in S
    PROVE  Conv(nm, x, own \o <<a>>)
             = Append(Conv(nm, x, own), [in |-> x, out |-> NumberIn(nm, a.out), to |-> a.to])
<1> DEFINE c(b) == [in |-> x, out |-> NumberIn(nm, b.out), to |-> b.to]
           n == Len(own)
           q == own \o <<a>>
           u == Conv(nm, x, q)
           v == Append(Conv(nm, x, own), c(a))
<1>1. n \in Nat /\ DOMAIN own = 1 .. n
  BY SeqElements
<1>2. q \in Seq(S) /\ Len(q) = n + 1 /\ DOMAIN q = 1 .. n + 1 /\ q[n + 1] = a
      /\ \A i \in 1 .. n : q[i] = own[i]
  BY <1>1
<1> HIDE DEF c
<1>3. u = [i \in 1 .. n + 1 |-> c(q[i])]
  BY <1>2 DEF Conv, c
<1>4. Conv(nm, x, own) = [i \in 1 .. n |-> c(own[i])]
  BY <1>1 DEF Conv, c
<1> DEFINE w == [i \in 1 .. n |-> c(own[i])]
           T == {c(own[i]) : i \in 1 .. n} \cup {c(a)}
<1>5. w \in Seq(T) /\ Len(w) = n /\ c(a) \in T
  BY <1>1
<1>6. v = Append(w, c(a))
  BY <1>4
<1>7. v = [i \in 1 .. n + 1 |-> IF i = n + 1 THEN c(a) ELSE w[i]]
  <2> HIDE DEF w, T, n
  <2>1. n \in Nat
    BY <1>1 DEF n
  <2>2. Append(w, c(a)) = [i \in 1 .. n + 1 |-> IF i = n + 1 THEN c(a) ELSE w[i]]
    BY <1>5, <2>1, AppendIs
  <2> QED
    BY <1>6, <2>2
<1>8. \A i \in 1 .. n + 1 : c(q[i]) = IF i = n + 1 THEN c(a) ELSE w[i]
  BY <1>1, <1>2
<1> HIDE DEF w
<1>9. u = v
  BY <1>3, <1>7, <1>8
<1> QED
  BY <1>9 DEF c


-----------------------------------------------------------------------------
\* The map after one arc more.
ByStep(tr, by, x, arc, b) ==
    /\ IsBy(tr, b) /\ DOMAIN b = DOMAIN by \cup {x}
    /\ \A y \in DOMAIN by : y # x => b[y] = by[y]
    /\ x \in DOMAIN by => b[x] = Append(by[x], arc)
    /\ x \notin DOMAIN by => b[x] = <<arc>>

\* Adding an arc changes the list of its own input alone.
LEMMA ByWithIs ==
    ASSUME NEW tr, NEW by, IsBy(tr, by), NEW x \in 0 .. NO_SYMBOL_NUMBER, NEW arc \in Arcs(tr)
    PROVE  ByStep(tr, by, x, arc, ByWith(by, x, arc))
<1> DEFINE b == ByWith(by, x, arc)
<1>1. DOMAIN b = DOMAIN by \cup {x}
  BY DEF ByWith
<1>2. \A y \in DOMAIN by : y # x => b[y] = by[y]
  BY DEF ByWith
<1>3. x \in DOMAIN by => b[x] = Append(by[x], arc)
  BY DEF ByWith
<1>4. x \notin DOMAIN by => b[x] = <<arc>>
  BY DEF ByWith
<1> HIDE DEF b
<1>5. \A y \in DOMAIN by : by[y] \in Seq(Arcs(tr))
  BY DEF IsBy
<1>6. b[x] \in Seq(Arcs(tr))
  <2>1. <<arc>> \in Seq(Arcs(tr))
    OBVIOUS
  <2>2. x \in DOMAIN by => Append(by[x], arc) \in Seq(Arcs(tr))
    BY <1>5
  <2> QED
    BY <1>3, <1>4, <2>1, <2>2
<1>7. \A y \in DOMAIN b : b[y] \in Seq(Arcs(tr))
  BY <1>1, <1>2, <1>5, <1>6
<1>8. IsBy(tr, b)
  BY <1>1, <1>7 DEF IsBy
<1> QED
  BY <1>1, <1>2, <1>3, <1>4, <1>8 DEF b, ByStep

\* Taking one arc more, a state's placeholder has gathered one arc more.
LEMMA GatheredGrows ==
    ASSUME NEW tr, IsTransducer(tr), NEW nm,
           \A b : NumberIn(nm, b) \in 0 .. NO_SYMBOL_NUMBER,
           NEW s \in States(tr), NEW p, IsPlaceholder(p), NEW n \in Nat,
           n + 1 <= Len(tr.arcs[s]), GatheredAt(tr, nm, flags, s, p, n),
           NEW a, a = tr.arcs[s][n + 1], NEW x, x = NumberIn(nm, a.in),
           NEW arc, arc = [in |-> x, out |-> NumberIn(nm, a.out), to |-> a.to]
    PROVE  GatheredAt(tr, nm, flags, s, WithArc(p, x, arc), n + 1)
<1> DEFINE w == WithArc(p, x, arc)
           O(y) == OwnIn(tr, nm, s, y, n)
           Q(y) == OwnIn(tr, nm, s, y, n + 1)
           D == DOMAIN p.by
<1>0. NO_SYMBOL_NUMBER \in Nat
  BY NumbersAssumption
<1>1. a \in Arcs(tr) /\ arc \in Arcs(tr) /\ x \in 0 .. NO_SYMBOL_NUMBER
  <2>1. tr.arcs[s] \in Seq(Arcs(tr))
    BY DEF IsTransducer, Arcs
  <2>2. n + 1 \in 1 .. Len(tr.arcs[s])
    OBVIOUS
  <2>3. a \in Arcs(tr)
    BY <2>1, <2>2
  <2>4. x \in 0 .. NO_SYMBOL_NUMBER /\ NumberIn(nm, a.out) \in Nat /\ x \in Nat
    BY <1>0
  <2> QED
    BY <2>3, <2>4 DEF Arcs
<1>2. IsBy(tr, p.by) /\ n <= Len(tr.arcs[s])
  BY DEF GatheredAt
<1>3. /\ w.by = ByWith(p.by, x, arc)
      /\ w.type = IF x \in D THEN p.type ELSE TypeWith(p, x)
  BY WithArcIs
<1>4. /\ IsBy(tr, w.by) /\ DOMAIN w.by = D \cup {x}
      /\ \A y \in D : y # x => w.by[y] = p.by[y]
      /\ x \in D => w.by[x] = Append(p.by[x], arc)
      /\ x \notin D => w.by[x] = <<arc>>
  <2> DEFINE b == ByWith(p.by, x, arc)
  <2>1. /\ IsBy(tr, b) /\ DOMAIN b = D \cup {x}
        /\ \A y \in D : y # x => b[y] = p.by[y]
        /\ x \in D => b[x] = Append(p.by[x], arc)
        /\ x \notin D => b[x] = <<arc>>
    <3> DEFINE g == p.by
    <3>1. IsBy(tr, g) /\ x \in 0 .. NO_SYMBOL_NUMBER /\ arc \in Arcs(tr)
      BY <1>1, <1>2
    <3> HIDE DEF g, b
    <3>2. ByStep(tr, g, x, arc, ByWith(g, x, arc))
      BY <3>1, ByWithIs
    <3> QED
      BY <3>2 DEF g, b, ByStep
  <2>2. w.by = b
    BY <1>3
  <2> HIDE DEF b, w
  <2> QED
    BY <2>1, <2>2
<1>5. \A y : /\ O(y) \in Seq(Arcs(tr))
             /\ Q(y) = O(y) \o (IF x = y THEN <<a>> ELSE << >>)
  <2> SUFFICES ASSUME NEW y
               PROVE  O(y) \in Seq(Arcs(tr)) /\ Q(y) = O(y) \o (IF x = y THEN <<a>> ELSE << >>)
    OBVIOUS
  <2>1. OwnStep(tr, nm, s, y, n)
    BY OwnGrows
  <2> QED
    BY <2>1 DEF OwnStep
<1> HIDE DEF w, O, Q
<1>6. \A y : y # x => Q(y) = O(y)
  <2> SUFFICES ASSUME NEW y, y # x PROVE Q(y) = O(y)
    OBVIOUS
  <2>1. Q(y) = O(y) \o << >> /\ O(y) \in Seq(Arcs(tr))
    BY <1>5
  <2> DEFINE o == O(y)
  <2>2. o \in Seq(Arcs(tr)) /\ Q(y) = o \o << >>
    BY <2>1
  <2> HIDE DEF o
  <2>3. o \o << >> = o
    BY <2>2
  <2> QED
    BY <2>2, <2>3 DEF o
<1>7. Q(x) = O(x) \o <<a>> /\ O(x) \in Seq(Arcs(tr))
  BY <1>5
<1>8. /\ \A y \in D : p.by[y] = Conv(nm, y, O(y)) /\ O(y) # << >>
      /\ \A y \in Nat : y \notin D => O(y) = << >>
      /\ Cardinality(ArcsWith(p, D)) = n
      /\ D = {NumberIn(nm, tr.arcs[s][i].in) : i \in 1 .. n}
      /\ p.type = "empty" => D = {}
      /\ p.type = "simple_zero_index" => \A y \in D : ZeroIn(flags, y)
      /\ p.type = "simple_nonzero_index" => \E y : D = {y} /\ ~ZeroIn(flags, y)
  BY DEF GatheredAt, O
<1>9. w.by[x] = Conv(nm, x, Q(x))
  <2>1. Conv(nm, x, Q(x)) = Append(Conv(nm, x, O(x)), arc)
    <3> DEFINE o == O(x)
    <3>1. o \in Seq(Arcs(tr)) /\ Q(x) = o \o <<a>>
      BY <1>7
    <3> HIDE DEF o
    <3>2. Conv(nm, x, o \o <<a>>)
            = Append(Conv(nm, x, o), [in |-> x, out |-> NumberIn(nm, a.out), to |-> a.to])
      BY <1>1, <3>1, ConvAppend
    <3> QED
      BY <3>1, <3>2 DEF o
  <2>2. CASE x \in D
    BY <1>4, <1>8, <2>1, <2>2
  <2>3. CASE x \notin D
    <3>1. O(x) = << >>
      BY <1>0, <1>1, <1>8, <2>3
    <3>2. Conv(nm, x, O(x)) = << >>
      BY <3>1 DEF Conv
    <3>3. Append(<< >>, arc) = <<arc>>
      OBVIOUS
    <3>4. Conv(nm, x, Q(x)) = <<arc>>
      BY <2>1, <3>2, <3>3, Zenon
    <3> QED
      BY <1>4, <2>3, <3>4
  <2> QED
    BY <2>2, <2>3
<1>10. Q(x) # << >>
  <2> DEFINE o == O(x)
  <2>1. o \in Seq(Arcs(tr)) /\ Q(x) = o \o <<a>>
    BY <1>7
  <2> HIDE DEF o
  <2> QED
    BY <1>1, <2>1, ExtendedNotEmpty, Zenon
<1>11. \A y \in DOMAIN w.by : w.by[y] = Conv(nm, y, Q(y)) /\ Q(y) # << >>
  <2> SUFFICES ASSUME NEW y \in DOMAIN w.by PROVE w.by[y] = Conv(nm, y, Q(y)) /\ Q(y) # << >>
    OBVIOUS
  <2>1. CASE y = x
    BY <1>9, <1>10, <2>1
  <2>2. CASE y # x
    <3>1. y \in D /\ w.by[y] = p.by[y] /\ Q(y) = O(y)
      BY <1>4, <1>6, <2>2, Zenon
    <3> QED
      BY <1>8, <3>1, Zenon
  <2> QED
    BY <2>1, <2>2
<1>12. \A y \in Nat : y \notin DOMAIN w.by => Q(y) = << >>
  BY <1>4, <1>6, <1>8
<1>13. DOMAIN w.by = {NumberIn(nm, tr.arcs[s][i].in) : i \in 1 .. n + 1}
  <2>1. \A i \in 1 .. n + 1 : i \in 1 .. n \/ i = n + 1
    OBVIOUS
  <2>2. n + 1 \in 1 .. n + 1 /\ \A i \in 1 .. n : i \in 1 .. n + 1
    OBVIOUS
  <2> QED
    BY ZenonT(60), <1>4, <1>8, <2>1, <2>2
<1>14. Cardinality(ArcsWith(w, DOMAIN w.by)) = n + 1
  <2> DEFINE m == IF x \in D THEN Len(p.by[x]) ELSE 0
             e == <<x, m + 1>>
             F == ArcsWith(p, D)
  <2>1. m \in Nat /\ DOMAIN w.by[x] = 1 .. m + 1 /\ (x \in D => DOMAIN p.by[x] = 1 .. m)
    <3>1. CASE x \in D
      <4>1. p.by[x] \in Seq(Arcs(tr))
        BY <1>2, <3>1 DEF IsBy
      <4>2. Len(p.by[x]) \in Nat /\ DOMAIN p.by[x] = 1 .. Len(p.by[x])
        BY <4>1, SeqElements
      <4>3. Append(p.by[x], arc) \in Seq(Arcs(tr)) /\ Len(Append(p.by[x], arc)) = Len(p.by[x]) + 1
        BY <1>1, <4>1
      <4>4. DOMAIN Append(p.by[x], arc) = 1 .. Len(p.by[x]) + 1
        BY <4>3
      <4> QED
        BY <1>4, <3>1, <4>2, <4>4
    <3>2. CASE x \notin D
      <4>1. DOMAIN <<arc>> = 1 .. 0 + 1
        OBVIOUS
      <4> QED
        BY <1>4, <3>2, <4>1
    <3> QED
      BY <3>1, <3>2
  <2>2. \A y \in D : y # x => DOMAIN w.by[y] = DOMAIN p.by[y]
    BY <1>4
  <2> HIDE DEF m
  <2>3. ArcsWith(w, DOMAIN w.by) = F \cup {e}
    <3>1. \A i : i \in 1 .. m + 1 <=> i \in 1 .. m \/ i = m + 1
      BY <2>1
    <3>2. x \notin D => m = 0
      BY DEF m
    <3>3. \A y, i : <<y, i>> \in ArcsWith(w, DOMAIN w.by) <=> y \in DOMAIN w.by /\ i \in DOMAIN w.by[y]
      BY DEF ArcsWith
    <3>4. \A y, i : <<y, i>> \in F <=> y \in D /\ i \in DOMAIN p.by[y]
      BY DEF ArcsWith
    <3>5. \A z \in ArcsWith(w, DOMAIN w.by) : \E y, i : z = <<y, i>>
      BY DEF ArcsWith
    <3>6. \A z \in F : \E y, i : z = <<y, i>>
      BY DEF ArcsWith
    <3> HIDE DEF F
    <3>7. \A y, i : <<y, i>> \in ArcsWith(w, DOMAIN w.by) <=> <<y, i>> \in F \cup {e}
      <4> SUFFICES ASSUME NEW y, NEW i
                   PROVE  <<y, i>> \in ArcsWith(w, DOMAIN w.by) <=> <<y, i>> \in F \cup {e}
        OBVIOUS
      <4>1. <<y, i>> = e <=> y = x /\ i = m + 1
        OBVIOUS
      <4>2. CASE y = x
        <5>1. <<y, i>> \in ArcsWith(w, DOMAIN w.by) <=> i \in 1 .. m + 1
          BY <1>4, <2>1, <3>3, <4>2
        <5>2. <<y, i>> \in F <=> x \in D /\ i \in 1 .. m
          BY <2>1, <3>4, <4>2
        <5>3. i \in 1 .. m => x \in D
          BY <3>2
        <5> QED
          BY <3>1, <4>1, <4>2, <5>1, <5>2, <5>3
      <4>3. CASE y # x
        BY <1>4, <2>2, <3>3, <3>4, <4>1, <4>3
      <4> QED
        BY <4>2, <4>3
    <3> QED
      BY <3>5, <3>6, <3>7
  <2>4. e \notin F
    <3>1. ~(m + 1 \in 1 .. m)
      BY <2>1
    <3> QED
      BY <2>1, <3>1 DEF ArcsWith
  <2>5. IsFiniteSet(F)
    BY <1>2, ArcsFinite
  <2>6. Cardinality(F \cup {e}) = Cardinality(F) + 1
    BY <2>4, <2>5, FS_AddElement
  <2> QED
    BY <1>8, <2>3, <2>6
<1>15. /\ w.type = "empty" => DOMAIN w.by = {}
       /\ w.type = "simple_zero_index" => \A y \in DOMAIN w.by : ZeroIn(flags, y)
       /\ w.type = "simple_nonzero_index" => \E y : DOMAIN w.by = {y} /\ ~ZeroIn(flags, y)
  <2>1. CASE x \in D
    <3>1. DOMAIN w.by = D /\ w.type = p.type
      BY <1>3, <1>4, <2>1 DEF w
    <3> QED
      BY <1>8, <3>1
  <2>2. CASE x \notin D
    <3>1. w.type = TypeWith(p, x)
      BY <1>3, <2>2 DEF w
    <3>2. ZeroIndexed(x) <=> ZeroIn(flags, x)
      BY DEF ZeroIndexed, ZeroIn
    <3>3. CASE p.type = "empty"
      BY <1>4, <1>8, <3>1, <3>2, <3>3 DEF TypeWith
    <3>4. CASE p.type = "simple_zero_index"
      BY <1>4, <1>8, <3>1, <3>2, <3>4 DEF TypeWith
    <3>5. CASE p.type # "empty" /\ p.type # "simple_zero_index"
      BY <3>1, <3>5 DEF TypeWith
    <3> QED
      BY <3>3, <3>4, <3>5
  <2> QED
    BY <2>1, <2>2
<1>16. n + 1 \in Nat /\ n + 1 <= Len(tr.arcs[s])
  OBVIOUS
<1> QED
  BY ZenonT(60), <1>4, <1>11, <1>12, <1>13, <1>14, <1>15, <1>16 DEF GatheredAt, w, Q
-----------------------------------------------------------------------------
(* The second pass gathers every state's arcs *)

\* How many arcs of s the second pass has taken.
Taken(s) ==
    IF pc # "inputs" \/ s < cur THEN Len(t.arcs[s]) ELSE IF s = cur THEN k - 1 ELSE 0

\* Every placeholder has the arcs of its state that the second pass has taken.
Gathered ==
    /\ pc = "collect" =>
         \A s \in DOMAIN ph : DOMAIN ph[s].by = {} /\ ph[s].type \in {"empty", "nonsimple"}
    /\ pc \notin {"collect", "failed"} =>
         \A s \in DOMAIN ph : GatheredAt(t, num, flags, s, ph[s], Taken(s))

\* A placeholder without arcs has the first zero arcs of its state.
LEMMA GatheredNone ==
    ASSUME NEW tr, IsTransducer(tr), NEW nm, NEW fl, NEW s \in States(tr), NEW p,
           DOMAIN p.by = {}, p.type \in {"empty", "nonsimple"}
    PROVE  GatheredAt(tr, nm, fl, s, p, 0)
<1>1. Len(tr.arcs[s]) \in Nat
  BY StringsOfState
<1>2. ArcsWith(p, DOMAIN p.by) = {}
  BY DEF ArcsWith
<1>3. Cardinality(ArcsWith(p, DOMAIN p.by)) = 0
  BY <1>2, FS_EmptySet
<1>4. IsBy(tr, p.by)
  BY DEF IsBy
<1>5. \A x : OwnIn(tr, nm, s, x, 0) = << >>
  BY OwnEmpty
<1>6. {NumberIn(nm, tr.arcs[s][i].in) : i \in 1 .. 0} = {}
  OBVIOUS
<1> QED
  BY <1>1, <1>3, <1>4, <1>5, <1>6 DEF GatheredAt

\* Moving the start slot of a state changes nothing of this.
LEMMA GatheredFrame ==
    ASSUME NEW tr, NEW nm, NEW fl, NEW s, NEW p, NEW n, GatheredAt(tr, nm, fl, s, p, n),
           NEW r, r.by = p.by, r.type = p.type
    PROVE  GatheredAt(tr, nm, fl, s, r, n)
<1>1. \A X : ArcsWith(r, X) = ArcsWith(p, X)
  BY DEF ArcsWith
<1> QED
  BY <1>1 DEF GatheredAt

\* Every symbol has a number the placeholders have room for.
LEMMA NumbersInRange ==
    ASSUME TypeOK, NumbersFit, pc \notin {"collect", "failed"}
    PROVE  \A b : NumberIn(num, b) \in 0 .. NO_SYMBOL_NUMBER
<1>1. NO_SYMBOL_NUMBER \in Nat /\ \A a \in DOMAIN num : num[a] \in Nat
  BY NumbersAssumption DEF TypeOK
<1>2. \A a \in DOMAIN num : num[a] <= NO_SYMBOL_NUMBER
  BY <1>1 DEF NumbersFit
<1> QED
  BY <1>1, <1>2 DEF NumberIn

\* The second pass gives each placeholder all arcs of its state, in their order, and
\* the type that says where its arcs are looked for.
LEMMA GatheredHolds ==
    ASSUME TypeOK, TypeOK', NumbersFit, Gathered, [Next]_vars PROVE Gathered'
<1>0. /\ IsTransducer(t) /\ t.n \in Nat \ {0} /\ cur \in Nat /\ cur <= t.n /\ k \in Nat \ {0}
      /\ pc # "collect" => DOMAIN ph = States(t) /\ \A s \in DOMAIN ph : s \in Nat /\ s < t.n
  <2>1. IsTransducer(t) /\ cur \in 0 .. t.n /\ k \in Nat \ {0}
    BY DEF TypeOK
  <2>2. t.n \in Nat \ {0}
    BY <2>1 DEF IsTransducer
  <2>3. pc # "collect" => DOMAIN ph = States(t)
    BY DEF TypeOK
  <2>4. \A s \in States(t) : s \in Nat /\ s < t.n
    BY <2>2 DEF States
  <2> QED
    BY <2>1, <2>2, <2>3, <2>4
<1>1. CASE CollectState
  <2>1. /\ pc = "collect" /\ pc' = "collect"
        /\ \A s \in DOMAIN ph' : ph'[s] = IF s = cur THEN Placeholder(s) ELSE ph[s]
        /\ DOMAIN ph' = 0 .. cur /\ DOMAIN ph = 0 .. cur - 1
    BY <1>1 DEF CollectState, TypeOK
  <2>2. \A s \in DOMAIN ph' : s # cur => s \in DOMAIN ph
    BY <1>0, <2>1
  <2>3. \A s : DOMAIN Placeholder(s).by = {} /\ Placeholder(s).type \in {"empty", "nonsimple"}
    BY DEF Placeholder
  <2> QED
    BY <2>1, <2>2, <2>3 DEF Gathered
<1>2. CASE NumberSymbols
  <2>1. /\ pc = "collect" /\ pc' # "collect" /\ UNCHANGED <<t, ph>> /\ cur' = 0 /\ k' = 1
        /\ pc' = "failed" \/ pc' = "inputs"
    BY <1>2 DEF NumberSymbols
  <2>2. cur = t.n
    BY <1>2 DEF NumberSymbols
  <2>3. DOMAIN ph = 0 .. cur - 1
    BY <2>1 DEF TypeOK
  <2>4. \A s \in DOMAIN ph : s \in States(t) /\ s \in Nat
    BY <1>0, <2>2, <2>3 DEF States
  <2>5. pc' = "inputs" => \A s \in DOMAIN ph : Taken(s)' = 0
    BY <2>1, <2>4 DEF Taken
  <2>6. \A s \in DOMAIN ph : GatheredAt(t, num', flags', s, ph[s], 0)
    BY <1>0, <2>1, <2>4, GatheredNone DEF Gathered
  <2> QED
    BY <2>1, <2>5, <2>6 DEF Gathered
<1>3. CASE AddArc
  <2>1. /\ pc = "inputs" /\ pc' = pc /\ cur < t.n /\ k <= Len(t.arcs[cur]) /\ k' = k + 1
        /\ UNCHANGED <<t, cur, num, flags>>
    BY <1>3 DEF AddArc, symbolVars
  <2>2. cur \in States(t) /\ cur \in DOMAIN ph
    BY <1>0, <2>1 DEF States
  <2> DEFINE a == t.arcs[cur][k]
             x == NumberIn(num, a.in)
             arc == [in |-> x, out |-> NumberIn(num, a.out), to |-> a.to]
             w == WithArc(ph[cur], x, arc)
             n == k - 1
  <2>3. /\ DOMAIN ph' = DOMAIN ph
        /\ \A s \in DOMAIN ph : ph'[s] = IF s = cur THEN w ELSE ph[s]
    BY <1>3, <2>2, NumberIs DEF AddArc
  <2>4. \A s \in DOMAIN ph : GatheredAt(t, num, flags, s, ph[s], Taken(s))
    BY <2>1 DEF Gathered
  <2>5. Taken(cur) = n /\ n \in Nat /\ n + 1 = k
    BY <1>0, <2>1 DEF Taken
  <2>6. GatheredAt(t, num, flags, cur, w, n + 1)
    <3>1. \A b : NumberIn(num, b) \in 0 .. NO_SYMBOL_NUMBER
      BY <2>1, NumbersInRange
    <3>2. IsPlaceholder(ph[cur])
      BY <2>2 DEF TypeOK, IsPlaceholder
    <3>3. GatheredAt(t, num, flags, cur, ph[cur], n)
      BY <2>2, <2>4, <2>5
    <3>4. a = t.arcs[cur][n + 1] /\ n + 1 <= Len(t.arcs[cur])
      BY <2>1, <2>5
    <3>5. x = NumberIn(num, a.in) /\ arc = [in |-> x, out |-> NumberIn(num, a.out), to |-> a.to]
      OBVIOUS
    <3> HIDE DEF n, a, x, arc, w
    <3> QED
      BY <1>0, <2>2, <2>5, <3>1, <3>2, <3>3, <3>4, <3>5, GatheredGrows DEF w
  <2> HIDE DEF w
  <2>7. \A s \in DOMAIN ph : Taken(s)' = IF s = cur THEN n + 1 ELSE Taken(s)
    BY <1>0, <2>1, <2>5 DEF Taken
  <2> HIDE DEF n
  <2>8. ASSUME NEW s \in DOMAIN ph PROVE GatheredAt(t, num, flags, s, ph'[s], Taken(s)')
    <3>1. CASE s = cur
      BY <2>2, <2>3, <2>6, <2>7, <3>1
    <3>2. CASE s # cur
      BY <2>3, <2>4, <2>7, <3>2
    <3> QED
      BY <3>1, <3>2
  <2> QED
    BY <2>1, <2>3, <2>8 DEF Gathered
<1>4. CASE NextState
  <2>1. /\ pc = "inputs" /\ cur < t.n /\ k > Len(t.arcs[cur]) /\ k' = 1
        /\ UNCHANGED <<t, num, flags, ph>>
        /\ IF cur + 1 < t.n THEN cur' = cur + 1 /\ pc' = pc ELSE pc' = "pack"
    BY <1>4 DEF NextState, symbolVars
  <2>2. cur \in States(t) /\ cur \in DOMAIN ph
    BY <1>0, <2>1 DEF States
  <2>3. \A s \in DOMAIN ph : GatheredAt(t, num, flags, s, ph[s], Taken(s))
    BY <2>1 DEF Gathered
  <2>4. Taken(cur) <= Len(t.arcs[cur]) /\ Taken(cur) = k - 1 /\ Len(t.arcs[cur]) \in Nat
    <3>1. Taken(cur) = k - 1
      BY <1>0, <2>1 DEF Taken
    <3>2. GatheredAt(t, num, flags, cur, ph[cur], Taken(cur))
      BY <2>2, <2>3
    <3> QED
      BY <2>2, <3>1, <3>2, StringsOfState, <1>0 DEF GatheredAt
  <2>5. Taken(cur) = Len(t.arcs[cur])
    BY <1>0, <2>1, <2>4
  <2>6. ASSUME NEW s \in DOMAIN ph PROVE Taken(s)' = Taken(s)
    <3>1. CASE s < cur
      BY <1>0, <2>1, <3>1 DEF Taken
    <3>2. CASE s = cur
      BY <1>0, <2>1, <2>5, <3>2 DEF Taken
    <3>3. CASE s > cur
      <4>1. cur + 1 < t.n \/ ~(s > cur)
        BY <1>0, <2>1
      <4> QED
        BY <1>0, <2>1, <3>3, <4>1 DEF Taken
    <3>4. s \in Nat
      BY <1>0, <2>1
    <3> QED
      BY <1>0, <3>1, <3>2, <3>3, <3>4
  <2> QED
    BY <2>1, <2>3, <2>6 DEF Gathered
<1>5. CASE PlaceState
  <2>1. pc = "pack" /\ pc' = pc /\ UNCHANGED <<t, num, flags>>
    BY <1>5 DEF PlaceState, symbolVars
  <2>2. /\ DOMAIN ph' = DOMAIN ph
        /\ \A s \in DOMAIN ph : ph'[s].by = ph[s].by /\ ph'[s].type = ph[s].type
    BY <1>5, PlaceStateEffect
  <2>3. \A s \in DOMAIN ph : Taken(s)' = Taken(s)
    BY <2>1 DEF Taken
  <2>4. ASSUME NEW s \in DOMAIN ph PROVE GatheredAt(t, num, flags, s, ph'[s], Taken(s))
    <3>1. GatheredAt(t, num, flags, s, ph[s], Taken(s))
      BY <2>1 DEF Gathered
    <3> QED
      BY <2>2, <3>1, GatheredFrame
  <2> QED
    BY <2>1, <2>2, <2>3, <2>4 DEF Gathered
<1>6. CASE SkipSimple \/ WriteIndex \/ WriteState \/ Finish
  <2>1. /\ pc \in {"pack", "write"} /\ pc' \notin {"collect", "inputs"}
        /\ UNCHANGED <<t, num, flags, ph>>
    BY <1>6 DEF SkipSimple, WriteIndex, WriteState, Finish, symbolVars
  <2>2. \A s \in DOMAIN ph : Taken(s)' = Taken(s)
    BY <2>1 DEF Taken
  <2> QED
    BY <2>1, <2>2 DEF Gathered
<1>7. CASE UNCHANGED vars
  <2>1. UNCHANGED <<pc, cur, k, t, num, flags, ph>>
    BY <1>7 DEF vars, symbolVars
  <2>2. \A s \in DOMAIN ph : Taken(s)' = Taken(s)
    BY <2>1 DEF Taken
  <2> QED
    BY <2>1, <2>2 DEF Gathered
<1> QED
  BY <1>1, <1>2, <1>3, <1>4, <1>5, <1>6, <1>7 DEF Next


-----------------------------------------------------------------------------
(* Where the first pass puts the arcs of each state *)

\* Where the part of s begins, from where that of the state before it does.
FirstIn(tr, P, s) == IF s = 0 THEN 0 ELSE P[s - 1].first + 1 + Len(tr.arcs[s - 1])

\* Each state's part of the transition table follows the part of the one before.
Follows ==
    /\ \A s \in DOMAIN ph : ph[s].first = FirstIn(t, ph, s)
    /\ pc = "collect" => first = FirstIn(t, ph, cur)

\* A step after the first pass that leaves the parts where they are.
LEMMA FollowsFrame ==
    ASSUME TypeOK, Follows, pc # "collect", pc' # "collect", UNCHANGED t,
           DOMAIN ph' = DOMAIN ph, \A s \in DOMAIN ph : ph'[s].first = ph[s].first
    PROVE  Follows'
<1>1. DOMAIN ph = States(t) /\ t.n \in Nat
  BY DEF TypeOK, IsTransducer
<1>2. \A s \in DOMAIN ph : s # 0 => s - 1 \in DOMAIN ph
  BY <1>1 DEF States
<1>3. \A s \in DOMAIN ph : FirstIn(t, ph', s) = FirstIn(t, ph, s)
  BY <1>2 DEF FirstIn
<1> QED
  BY <1>3 DEF Follows

\* The first pass gives the states consecutive parts of the transition table.
LEMMA FollowsHolds == ASSUME TypeOK, Follows, [Next]_vars PROVE Follows'
<1>0. t.n \in Nat \ {0} /\ cur \in Nat /\ cur <= t.n
  BY DEF TypeOK, IsTransducer
<1>1. CASE CollectState
  <2>1. /\ pc = "collect" /\ pc' = "collect" /\ UNCHANGED t /\ cur' = cur + 1
        /\ first' = first + 1 + Len(t.arcs[cur])
        /\ DOMAIN ph' = 0 .. cur /\ DOMAIN ph = 0 .. cur - 1
        /\ \A s \in DOMAIN ph' : ph'[s] = IF s = cur THEN Placeholder(s) ELSE ph[s]
    BY <1>1 DEF CollectState, TypeOK, NextFirst
  <2>2. \A s \in 0 .. cur - 1 : s \in 0 .. cur /\ ph'[s] = ph[s]
    BY <1>0, <2>1
  <2>3. ph'[cur].first = first
    BY <1>0, <2>1 DEF Placeholder
  <2>4. \A s \in 0 .. cur : FirstIn(t, ph', s) = FirstIn(t, ph, s)
    <3>1. \A s \in 0 .. cur : s # 0 => s - 1 \in 0 .. cur - 1
      BY <1>0
    <3> QED
      BY <2>2, <3>1 DEF FirstIn
  <2>5. ASSUME NEW s \in DOMAIN ph' PROVE ph'[s].first = FirstIn(t, ph', s)
    <3>1. CASE s = cur
      BY <2>1, <2>3, <2>4, <3>1 DEF Follows
    <3>2. CASE s # cur
      <4>1. s \in 0 .. cur - 1
        BY <1>0, <2>1, <3>2
      <4> QED
        BY <2>1, <2>2, <2>4, <4>1 DEF Follows
    <3> QED
      BY <3>1, <3>2
  <2>6. first' = FirstIn(t, ph', cur + 1)
    <3>1. cur + 1 # 0 /\ (cur + 1) - 1 = cur
      BY <1>0
    <3> QED
      BY <2>1, <2>3, <3>1 DEF FirstIn
  <2> QED
    BY <2>1, <2>5, <2>6 DEF Follows
<1>2. CASE NumberSymbols
  <2>1. pc' # "collect" /\ UNCHANGED <<t, ph>>
    BY <1>2 DEF NumberSymbols
  <2> QED
    BY <2>1 DEF Follows
<1>3. CASE AddArc
  <2>1. cur \in DOMAIN ph /\ pc = "inputs" /\ pc' = "inputs" /\ UNCHANGED t
    BY <1>0, <1>3 DEF AddArc, TypeOK, States
  <2> DEFINE a == t.arcs[cur][k]
             new == WithArc(ph[cur], Number(a.in),
                            [in |-> Number(a.in), out |-> Number(a.out), to |-> a.to])
  <2>2. ph' = [ph EXCEPT ![cur] = new]
    BY <1>3 DEF AddArc
  <2>3. new.first = ph[cur].first
    BY DEF WithArc
  <2> HIDE DEF new
  <2>4. DOMAIN ph' = DOMAIN ph /\ \A s \in DOMAIN ph : ph'[s].first = ph[s].first
    BY <2>1, <2>2, <2>3
  <2> QED
    BY <2>1, <2>4, FollowsFrame
<1>4. CASE PlaceState
  <2>1. cur \in DOMAIN ph /\ pc = "pack" /\ pc' = "pack" /\ UNCHANGED t
    BY <1>0, <1>4 DEF PlaceState, TypeOK, States
  <2>2. PICK j \in avail .. START - 1 : ph' = [ph EXCEPT ![cur].start = j]
    BY <1>4 DEF PlaceState
  <2>3. \A s \in DOMAIN ph : ph'[s] = IF s = cur THEN [ph[s] EXCEPT !.start = j] ELSE ph[s]
    BY <2>1, <2>2
  <2>4. \A s \in DOMAIN ph : ph[s] = [first |-> ph[s].first, start |-> ph[s].start,
                                      type |-> ph[s].type, by |-> ph[s].by]
    BY DEF TypeOK
  <2>5. DOMAIN ph' = DOMAIN ph /\ \A s \in DOMAIN ph : ph'[s].first = ph[s].first
    BY <2>2, <2>3, <2>4
  <2> QED
    BY <2>1, <2>5, FollowsFrame
<1>5. CASE NextState \/ SkipSimple \/ WriteIndex \/ WriteState \/ Finish
  <2>1. pc # "collect" /\ pc' # "collect" /\ UNCHANGED <<t, ph>>
    BY <1>5 DEF NextState, SkipSimple, WriteIndex, WriteState, Finish
  <2> QED
    BY <2>1 DEF Follows
<1>6. CASE UNCHANGED vars
  BY <1>6 DEF vars, Follows
<1> QED
  BY <1>1, <1>2, <1>3, <1>4, <1>5, <1>6 DEF Next

-----------------------------------------------------------------------------
(* The index table *)

\* The index table is what the placeholders and the packing say.
Indexed ==
    pc \in {"write", "done"} =>
        windex = [q \in 0 .. Max(DOMAIN indices) + Padding |-> IndexEntry(q)]

\* The index table is written once, from the packing, and not changed again.
LEMMA IndexedHolds == ASSUME Indexed, [Next]_vars PROVE Indexed'
<1>1. CASE WriteIndex
  <2>1. /\ windex' = [q \in 0 .. Max(DOMAIN indices) + Padding |-> IndexEntry(q)]
        /\ UNCHANGED <<t, ph, indices, flags, seen>>
    BY <1>1 DEF WriteIndex, symbolVars, packVars
  <2>2. Padding' = Padding /\ \A q : IndexEntry(q)' = IndexEntry(q)
    BY <2>1 DEF Padding, IndexEntry, SymbolOffset, ZeroIndexed
  <2> QED
    BY <2>1, <2>2 DEF Indexed
<1>2. CASE WriteState \/ Finish \/ UNCHANGED vars
  <2>1. (pc' \in {"write", "done"} => pc \in {"write", "done"})
        /\ UNCHANGED <<t, ph, indices, flags, seen, windex>>
    BY <1>2 DEF WriteState, Finish, vars, symbolVars, packVars
  <2>2. Padding' = Padding /\ \A q : IndexEntry(q)' = IndexEntry(q)
    BY <2>1 DEF Padding, IndexEntry, SymbolOffset, ZeroIndexed
  <2> QED
    BY <2>1, <2>2 DEF Indexed
<1>3. CASE CollectState \/ NumberSymbols \/ AddArc \/ NextState \/ SkipSimple \/ PlaceState
  <2>1. pc' \notin {"write", "done"}
    BY <1>3 DEF CollectState, NumberSymbols, AddArc, NextState, SkipSimple, PlaceState
  <2> QED
    BY <2>1 DEF Indexed
<1> QED
  BY <1>1, <1>2, <1>3 DEF Next
-----------------------------------------------------------------------------
(* The transition table *)

\* c is q followed by r.
Joined(S, q, r, c) ==
    /\ c \in Seq(S) /\ Len(q) \in Nat /\ Len(r) \in Nat /\ Len(c) = Len(q) + Len(r)
    /\ \A i \in 1 .. Len(q) : i \in 1 .. Len(c) /\ c[i] = q[i]
    /\ \A i \in 1 .. Len(r) : Len(q) + i \in 1 .. Len(c) /\ c[Len(q) + i] = r[i]

\* Two sequences joined, place by place.
LEMMA JoinedIs ==
    ASSUME NEW S, NEW q \in Seq(S), NEW r \in Seq(S) PROVE Joined(S, q, r, q \o r)
<1> DEFINE c == q \o r
<1>1. c \in Seq(S) /\ Len(q) \in Nat /\ Len(r) \in Nat /\ Len(c) = Len(q) + Len(r)
  OBVIOUS
<1>2. \A i \in 1 .. Len(q) : i \in 1 .. Len(c) /\ c[i] = q[i]
  OBVIOUS
<1>3. ASSUME NEW i \in 1 .. Len(r) PROVE Len(q) + i \in 1 .. Len(c) /\ c[Len(q) + i] = r[i]
  <2>1. Len(q) + i \in 1 .. Len(q) + Len(r) /\ ~(Len(q) + i <= Len(q)) /\ Len(q) + i - Len(q) = i
    BY <1>1
  <2> QED
    BY <1>1, <2>1
<1> HIDE DEF c
<1>4. Joined(S, q, r, c)
  BY <1>1, <1>2, <1>3 DEF Joined
<1> QED
  BY <1>4 DEF c

\* The arcs read together with epsilon, then the others.
ZeroArcs(P, fl, p) == WrittenWithIn(P, p, ZeroOf(fl, p))
OtherArcs(P, fl, p) == WrittenWithIn(P, p, OtherOf(fl, p))

\* The entries of a state: two groups, as many as the state has arcs.
Grouped(P, fl, p, n) ==
    /\ ZeroArcs(P, fl, p) \in Seq(Entries) /\ OtherArcs(P, fl, p) \in Seq(Entries)
    /\ Len(ZeroArcs(P, fl, p)) \in Nat /\ Len(OtherArcs(P, fl, p)) \in Nat
    /\ Len(ZeroArcs(P, fl, p)) = Cardinality(ArcsWith(p, ZeroOf(fl, p)))
    /\ Len(ZeroArcs(P, fl, p)) + Len(OtherArcs(P, fl, p)) = n
    /\ StateArcsIn(P, fl, p) \in Seq(Entries) /\ Len(StateArcsIn(P, fl, p)) = n
    /\ Listed(P, p, ZeroOf(fl, p), NO_SYMBOL_NUMBER + 1, ZeroArcs(P, fl, p))
    /\ Listed(P, p, OtherOf(fl, p), NO_SYMBOL_NUMBER + 1, OtherArcs(P, fl, p))

\* The entries written of a state are all its arcs: those read with epsilon, then the
\* others, each input's in one block.
LEMMA StateArcsGrouped ==
    ASSUME NEW tr, NEW fl, NEW p, IsBy(tr, p.by), NEW P, Addressed(tr, P)
    PROVE  Grouped(P, fl, p, Cardinality(ArcsWith(p, DOMAIN p.by)))
<1> DEFINE Z == ZeroOf(fl, p)
           O == OtherOf(fl, p)
           zq == ZeroArcs(P, fl, p)
           oq == OtherArcs(P, fl, p)
           D == DOMAIN p.by
<1>0. Z \in SUBSET D /\ O \in SUBSET D /\ Z \cap O = {} /\ Z \cup O = D
  BY DEF ZeroOf, OtherOf
<1>1. NO_SYMBOL_NUMBER \in Nat /\ D \subseteq 0 .. NO_SYMBOL_NUMBER
  BY NumbersAssumption DEF IsBy
<1>2. Upto(Z, NO_SYMBOL_NUMBER + 1) = Z /\ Upto(O, NO_SYMBOL_NUMBER + 1) = O
  BY <1>0, <1>1 DEF Upto
<1>3. Listed(P, p, Z, NO_SYMBOL_NUMBER + 1, zq)
  <2> HIDE DEF Z
  <2>1. Listed(P, p, Z, NO_SYMBOL_NUMBER + 1, WrittenWithIn(P, p, Z))
    BY <1>0, AllListed
  <2> QED
    BY <2>1 DEF Z, ZeroArcs
<1>4. Listed(P, p, O, NO_SYMBOL_NUMBER + 1, oq)
  <2> HIDE DEF O
  <2>1. Listed(P, p, O, NO_SYMBOL_NUMBER + 1, WrittenWithIn(P, p, O))
    BY <1>0, AllListed
  <2> QED
    BY <2>1 DEF O, OtherArcs
<1>5. StateArcsIn(P, fl, p) = zq \o oq
  BY DEF StateArcsIn, ZeroArcs, OtherArcs
<1> HIDE DEF Z, O, zq, oq, D
<1>6. zq \in Seq(Entries) /\ Len(zq) = Cardinality(ArcsWith(p, Z))
  BY <1>2, <1>3 DEF Listed, Place
<1>7. oq \in Seq(Entries) /\ Len(oq) = Cardinality(ArcsWith(p, O))
  BY <1>2, <1>4 DEF Listed, Place
<1>8. /\ IsFiniteSet(ArcsWith(p, Z)) /\ IsFiniteSet(ArcsWith(p, O))
      /\ Cardinality(ArcsWith(p, Z)) \in Nat /\ Cardinality(ArcsWith(p, O)) \in Nat
  BY <1>0, ArcsFinite DEF D
<1>9. ArcsWith(p, Z) \cap ArcsWith(p, O) = {}
  BY <1>0 DEF ArcsWith
<1>10. ArcsWith(p, D) = ArcsWith(p, Z) \cup ArcsWith(p, O)
  BY <1>0 DEF ArcsWith
<1>11. Cardinality(ArcsWith(p, D)) = Cardinality(ArcsWith(p, Z)) + Cardinality(ArcsWith(p, O))
  BY <1>8, <1>9, <1>10, DisjointCount
<1>12. Len(zq) \in Nat /\ Len(oq) \in Nat /\ Len(zq) + Len(oq) = Cardinality(ArcsWith(p, D))
  BY <1>6, <1>7, <1>8, <1>11
<1>13. zq \o oq \in Seq(Entries) /\ Len(zq \o oq) = Len(zq) + Len(oq)
  BY <1>6, <1>7
<1>14. Len(StateArcsIn(P, fl, p)) = Cardinality(ArcsWith(p, D))
  BY <1>5, <1>12, <1>13
<1>15. StateArcsIn(P, fl, p) \in Seq(Entries)
  BY <1>5, <1>13
<1> QED
  BY <1>3, <1>4, <1>6, <1>7, <1>12, <1>14, <1>15 DEF Grouped, Z, O, zq, oq, D

\* The table holds the arcs of s, and the finality marker before them.
Holds(tr, P, fl, table, s) ==
    /\ P[s].first + Len(tr.arcs[s]) <= Len(table)
    /\ s # 0 => table[P[s].first] = Marker(s \in tr.final)
    /\ \A j \in 1 .. Len(tr.arcs[s]) : table[P[s].first + j] = StateArcsIn(P, fl, P[s])[j]

\* What has been written when the states below c have been.
LaidOut(tr, P, fl, table, c) ==
    /\ table \in Seq(Entries)
    /\ Len(table) = IF c = 0 THEN 0 ELSE P[c - 1].first + Len(tr.arcs[c - 1])
    /\ \A s \in States(tr) : s < c => Holds(tr, P, fl, table, s)

\* The transition table holds the states written so far, and in the end all.
Layout ==
    /\ pc \in {"collect", "inputs", "pack"} => wtrans = << >>
    /\ pc = "write" => LaidOut(t, ph, flags, wtrans, cur)
    /\ pc = "done" => \E table : LaidOut(t, ph, flags, table, t.n)
                                 /\ wtrans = Append(table, Marker(FALSE))

\* More written after the parts of the states written before.
LEMMA HoldsFrame ==
    ASSUME NEW tr, NEW P, NEW fl, NEW table \in Seq(Entries), NEW more \in Seq(Entries),
           NEW s, P[s].first \in Nat, Len(tr.arcs[s]) \in Nat, s # 0 => P[s].first # 0,
           Holds(tr, P, fl, table, s)
    PROVE  Holds(tr, P, fl, table \o more, s)
<1> DEFINE f == P[s].first
           n == Len(tr.arcs[s])
           r == table \o more
<1>1. /\ f \in Nat /\ n \in Nat /\ (s # 0 => f # 0) /\ f + n <= Len(table)
      /\ (s # 0 => table[f] = Marker(s \in tr.final))
      /\ \A j \in 1 .. n : table[f + j] = StateArcsIn(P, fl, P[s])[j]
  BY DEF Holds
<1>2. /\ r \in Seq(Entries) /\ Len(r) >= Len(table) /\ Len(table) \in Nat /\ Len(r) \in Nat
      /\ \A i \in 1 .. Len(table) : r[i] = table[i]
  OBVIOUS
<1> HIDE DEF f, n, r
<1>3. \A j \in 1 .. n : f + j \in 1 .. Len(table)
  BY <1>1, <1>2
<1>4. s # 0 => f \in 1 .. Len(table)
  BY <1>1, <1>2
<1>5. f + n <= Len(r)
  BY <1>1, <1>2
<1> QED
  BY <1>1, <1>2, <1>3, <1>4, <1>5 DEF Holds, f, n, r

\* After the first pass every state has an address.
LEMMA AddressedHolds == ASSUME TypeOK, pc # "collect" PROVE Addressed(t, ph)
<1> SUFFICES ASSUME NEW s \in States(t) PROVE AddressIn(ph, s) \in Nat
  BY DEF Addressed
<1>1. s \in DOMAIN ph /\ ph[s].first \in Nat /\ ph[s].start \in Nat
  BY DEF TypeOK
<1>2. START \in Nat \ {0}
  BY NumbersAssumption
<1>3. ph[s].first + START - 1 \in Nat
  BY <1>1, <1>2
<1> QED
  BY <1>1, <1>3 DEF AddressIn

\* What the second pass leaves of a state.
StateFacts(s) ==
    /\ s \in DOMAIN ph /\ Len(t.arcs[s]) \in Nat /\ IsBy(t, ph[s].by)
    /\ GatheredAt(t, num, flags, s, ph[s], Len(t.arcs[s]))
    /\ Grouped(ph, flags, ph[s], Len(t.arcs[s]))

\* After the second pass this is known of every state.
LEMMA StateFactsHold ==
    ASSUME TypeOK, Gathered, pc \in {"pack", "write", "done"}, NEW s \in States(t)
    PROVE  StateFacts(s)
<1>1. s \in DOMAIN ph /\ Len(t.arcs[s]) \in Nat /\ Addressed(t, ph)
  BY AddressedHolds, StringsOfState DEF TypeOK
<1>2. GatheredAt(t, num, flags, s, ph[s], Len(t.arcs[s]))
  BY <1>1 DEF Gathered, Taken
<1>3. IsBy(t, ph[s].by) /\ Cardinality(ArcsWith(ph[s], DOMAIN ph[s].by)) = Len(t.arcs[s])
  BY <1>2 DEF GatheredAt
<1>4. Grouped(ph, flags, ph[s], Cardinality(ArcsWith(ph[s], DOMAIN ph[s].by)))
  BY <1>1, <1>3, StateArcsGrouped
<1> QED
  BY <1>1, <1>2, <1>3, <1>4 DEF StateFacts

\* A finality marker is an entry of the transition table.
LEMMA MarkerTyped == ASSUME NEW final PROVE Marker(final) \in Entries
<1>1. NO_SYMBOL_NUMBER \in Nat /\ NO_TABLE_INDEX \in Nat
  BY NumbersAssumption DEF NO_TABLE_INDEX
<1> QED
  BY <1>1 DEF Marker, Entries

\* One state more.
LEMMA LaidOutGrows ==
    ASSUME TypeOK, Gathered, Follows, pc = "write", cur < t.n,
           NEW table, LaidOut(t, ph, flags, table, cur)
    PROVE  LaidOut(t, ph, flags,
                   table \o (IF cur = 0 THEN << >> ELSE <<Marker(cur \in t.final)>>)
                         \o StateArcsIn(ph, flags, ph[cur]), cur + 1)
<1> DEFINE m == IF cur = 0 THEN << >> ELSE <<Marker(cur \in t.final)>>
           arcs == StateArcsIn(ph, flags, ph[cur])
           mid == table \o m
           new == mid \o arcs
           f == ph[cur].first
           n == Len(t.arcs[cur])
<1>0. /\ t.n \in Nat \ {0} /\ cur \in Nat /\ cur \in States(t) /\ DOMAIN ph = States(t)
      /\ \A s \in States(t) : s \in Nat
  BY DEF TypeOK, IsTransducer, States
<1>1. table \in Seq(Entries) /\ Len(table) \in Nat /\ m \in Seq(Entries)
      /\ Len(m) = IF cur = 0 THEN 0 ELSE 1
  <2>1. << >> \in Seq(Entries) /\ Len(<< >>) = 0
    OBVIOUS
  <2>2. Marker(cur \in t.final) \in Entries
    BY MarkerTyped
  <2>3. <<Marker(cur \in t.final)>> \in Seq(Entries) /\ Len(<<Marker(cur \in t.final)>>) = 1
    BY <2>2
  <2> QED
    BY <2>1, <2>3 DEF LaidOut
<1>2. arcs \in Seq(Entries) /\ Len(arcs) = n /\ n \in Nat
  <2>1. StateFacts(cur)
    BY <1>0, StateFactsHold
  <2> QED
    BY <2>1 DEF StateFacts, Grouped
<1>3. f \in Nat /\ f = IF cur = 0 THEN 0 ELSE ph[cur - 1].first + 1 + Len(t.arcs[cur - 1])
  BY <1>0 DEF TypeOK, Follows, FirstIn
<1>4. f = Len(table) + Len(m)
  <2>1. CASE cur = 0
    BY <1>1, <1>3, <2>1 DEF LaidOut
  <2>2. CASE cur # 0
    <3>1. cur - 1 \in States(t)
      BY <1>0, <2>2 DEF States
    <3>2. ph[cur - 1].first \in Nat /\ Len(t.arcs[cur - 1]) \in Nat
      BY <1>0, <3>1, StringsOfState DEF TypeOK
    <3>3. Len(table) = ph[cur - 1].first + Len(t.arcs[cur - 1])
      BY <2>2 DEF LaidOut
    <3> QED
      BY <1>1, <1>3, <2>2, <3>2, <3>3
  <2> QED
    BY <2>1, <2>2
<1>5. (cur # 0) => m[1] = Marker(cur \in t.final)
  OBVIOUS
<1> HIDE DEF m, arcs
<1>6. Joined(Entries, table, m, mid)
  BY <1>1, JoinedIs
<1> HIDE DEF mid
<1>15. Joined(Entries, mid, arcs, new)
  <2>1. mid \in Seq(Entries)
    BY <1>6 DEF Joined
  <2> QED
    BY <1>2, <2>1, JoinedIs
<1> HIDE DEF f, new, n
<1>16. mid \in Seq(Entries) /\ new \in Seq(Entries)
  BY <1>6, <1>15 DEF Joined
<1>7. (cur # 0) => f \in 1 .. Len(mid) /\ mid[f] = Marker(cur \in t.final)
  <2> SUFFICES ASSUME cur # 0 PROVE f \in 1 .. Len(mid) /\ mid[f] = Marker(cur \in t.final)
    OBVIOUS
  <2>1. 1 \in 1 .. Len(m) /\ f = Len(table) + 1
    BY <1>1, <1>4
  <2>2. Len(table) + 1 \in 1 .. Len(mid) /\ mid[Len(table) + 1] = m[1]
    BY <1>6, <2>1 DEF Joined
  <2> QED
    BY <1>5, <2>1, <2>2
<1>17. Len(mid) = f
  BY <1>4, <1>6 DEF Joined
<1>8. Len(new) = f + n
  BY <1>2, <1>15, <1>17 DEF Joined
<1>9. \A j \in 1 .. n : new[f + j] = arcs[j]
  BY <1>2, <1>15, <1>17 DEF Joined
<1>10. (cur # 0) => new[f] = Marker(cur \in t.final)
  BY <1>7, <1>15 DEF Joined
<1>11. Holds(t, ph, flags, new, cur)
  <2>1. f + n <= Len(new)
    BY <1>2, <1>3, <1>8
  <2> QED
    BY <1>9, <1>10, <2>1 DEF Holds, f, arcs, n
<1>12. ASSUME NEW s \in States(t), s < cur PROVE Holds(t, ph, flags, new, s)
  <2>1. /\ ph[s].first \in Nat /\ Len(t.arcs[s]) \in Nat /\ Holds(t, ph, flags, table, s)
    BY <1>0, <1>12, StringsOfState DEF TypeOK, LaidOut
  <2>2. s # 0 => ph[s].first # 0
    <3> SUFFICES ASSUME s # 0 PROVE ph[s].first # 0
      OBVIOUS
    <3>1. s - 1 \in States(t)
      BY <1>0 DEF States
    <3>2. ph[s - 1].first \in Nat /\ Len(t.arcs[s - 1]) \in Nat
      BY <1>0, <3>1, StringsOfState DEF TypeOK
    <3>3. ph[s].first = ph[s - 1].first + 1 + Len(t.arcs[s - 1])
      BY <1>0 DEF Follows, FirstIn
    <3> QED
      BY <3>2, <3>3
  <2>3. Holds(t, ph, flags, table \o m, s)
    BY <1>1, <2>1, <2>2, HoldsFrame
  <2>4. Holds(t, ph, flags, mid \o arcs, s)
    <3>1. Holds(t, ph, flags, mid, s)
      BY <2>3 DEF mid
    <3> QED
      BY <1>2, <1>16, <2>1, <2>2, <3>1, HoldsFrame
  <2> QED
    BY <2>4 DEF new
<1>13. ASSUME NEW s \in States(t), s < cur + 1 PROVE Holds(t, ph, flags, new, s)
  <2>1. s < cur \/ s = cur
    BY <1>0, <1>13
  <2> QED
    BY <1>11, <1>12, <2>1
<1>14. Len(new) = IF cur + 1 = 0 THEN 0 ELSE ph[(cur + 1) - 1].first + Len(t.arcs[(cur + 1) - 1])
  <2>1. cur + 1 # 0 /\ (cur + 1) - 1 = cur
    BY <1>0
  <2> QED
    BY <1>8, <2>1 DEF f, n
<1>18. LaidOut(t, ph, flags, new, cur + 1)
  BY <1>13, <1>14, <1>16 DEF LaidOut
<1> QED
  BY <1>18 DEF new, mid, m, arcs

\* Writing the states in turn puts each where the first pass said it would be.
LEMMA LayoutHolds ==
    ASSUME TypeOK, Gathered, Follows, Layout, [Next]_vars PROVE Layout'
<1>1. CASE WriteIndex
  <2>1. pc = "pack" /\ pc' = "write" /\ cur' = 0 /\ UNCHANGED <<wtrans, t, ph, flags>>
    BY <1>1 DEF WriteIndex, symbolVars
  <2>2. wtrans = << >>
    BY <2>1 DEF Layout
  <2>3. \A s \in States(t) : ~(s < 0)
    BY DEF States, TypeOK, IsTransducer
  <2>4. << >> \in Seq(Entries) /\ Len(<< >>) = 0
    OBVIOUS
  <2>5. LaidOut(t, ph, flags, << >>, 0)
    BY <2>3, <2>4 DEF LaidOut
  <2>6. LaidOut(t', ph', flags', wtrans', cur')
    BY <2>1, <2>2, <2>5
  <2> QED
    BY <2>1, <2>6 DEF Layout
<1>2. CASE WriteState
  <2>1. /\ pc = "write" /\ pc' = "write" /\ cur < t.n /\ cur' = cur + 1 /\ UNCHANGED <<t, ph, flags>>
        /\ wtrans' = wtrans \o (IF cur = 0 THEN << >> ELSE <<Marker(cur \in t.final)>>)
                            \o StateArcsIn(ph, flags, ph[cur])
    BY <1>2, StateArcsIs DEF WriteState, symbolVars
  <2>2. LaidOut(t, ph, flags, wtrans', cur + 1)
    <3>1. LaidOut(t, ph, flags, wtrans, cur)
      BY <2>1 DEF Layout
    <3> QED
      BY <2>1, <3>1, LaidOutGrows
  <2>3. LaidOut(t', ph', flags', wtrans', cur')
    BY <2>1, <2>2
  <2> QED
    BY <2>1, <2>3 DEF Layout
<1>3. CASE Finish
  <2>1. /\ pc = "write" /\ pc' \in {"failed", "done"} /\ cur = t.n /\ UNCHANGED <<t, ph, flags>>
        /\ wtrans' = Append(wtrans, Marker(FALSE))
    BY <1>3 DEF Finish, symbolVars
  <2>2. LaidOut(t', ph', flags', wtrans, t'.n)
    BY <2>1 DEF Layout
  <2>3. \A b : Marker(b)' = Marker(b)
    BY DEF Marker
  <2> QED
    BY <2>1, <2>2 DEF Layout
<1>4. CASE CollectState \/ NumberSymbols \/ AddArc \/ NextState \/ SkipSimple \/ PlaceState
  <2>1. /\ pc \in {"collect", "inputs", "pack"} /\ pc' \in {"collect", "inputs", "pack", "failed"}
        /\ UNCHANGED wtrans
    BY <1>4 DEF CollectState, NumberSymbols, AddArc, NextState, SkipSimple, PlaceState
  <2> QED
    BY <2>1 DEF Layout
<1>5. CASE UNCHANGED vars
  BY <1>5 DEF vars, symbolVars, Layout
<1> QED
  BY <1>1, <1>2, <1>3, <1>4, <1>5 DEF Next


-----------------------------------------------------------------------------
(* Reading a run of transitions *)

\* A part of a sequence that is r, place by place, is r.
LEMMA SubSeqIs ==
    ASSUME NEW S, NEW q \in Seq(S), NEW r \in Seq(S), NEW p \in Nat, NEW n \in Nat,
           Len(r) = n, p + n <= Len(q), \A j \in 1 .. n : q[p + j] = r[j]
    PROVE  SubSeq(q, p + 1, p + n) = r
<1> DEFINE u == SubSeq(q, p + 1, p + n)
<1>1. u \in Seq(S) /\ Len(u) = n /\ \A j \in 1 .. n : u[j] = q[p + j]
  <2>1. \A i \in p + 1 .. p + n : i \in 1 .. Len(q)
    OBVIOUS
  <2>2. Len(u) = n
    <3>1. (p + n) - (p + 1) + 1 = n
      OBVIOUS
    <3>2. p + 1 <= p + n => Len(u) = (p + n) - (p + 1) + 1
      BY <2>1
    <3>3. ~(p + 1 <= p + n) => Len(u) = 0 /\ n = 0
      OBVIOUS
    <3> QED
      BY <3>1, <3>2, <3>3
  <2>3. u \in Seq(S)
    BY <2>1
  <2>4. \A j \in 1 .. n : u[j] = q[p + j]
    BY <2>1
  <2> QED
    BY <2>2, <2>3, <2>4
<1> HIDE DEF u
<1>2. u = [j \in 1 .. n |-> u[j]] /\ r = [j \in 1 .. n |-> r[j]]
  BY <1>1
<1>3. \A j \in 1 .. n : u[j] = r[j]
  BY <1>1
<1>4. u = r
  BY <1>2, <1>3
<1> QED
  BY <1>4 DEF u

\* A block of entries with inputs in X, and one without after it.
Stands(p, X, b) ==
    /\ p + Len(b) < Len(wtrans)
    /\ \A j \in 1 .. Len(b) : wtrans[p + j] = b[j] /\ b[j].in \in X
    /\ wtrans[p + Len(b) + 1].in \notin X

\* Reading from the start of a block that an entry with another input follows gives
\* the block.
LEMMA RunIs ==
    ASSUME wtrans \in Seq(Entries), NEW p \in Nat, NEW X, NEW b \in Seq(Entries), Stands(p, X, b)
    PROVE  Run(p, X) = b
<1> DEFINE e == p + Len(b)
           Good(q) == /\ \A r \in p .. q - 1 : wtrans[r + 1].in \in X
                      /\ q < Len(wtrans) => wtrans[q + 1].in \notin X
<1>1. Len(b) \in Nat /\ Len(wtrans) \in Nat /\ e \in p .. Len(wtrans) /\ e < Len(wtrans)
  BY DEF Stands
<1>2. Good(e)
  <2>1. ASSUME NEW r \in p .. e - 1 PROVE wtrans[r + 1].in \in X
    <3>1. r + 1 - p \in 1 .. Len(b) /\ p + (r + 1 - p) = r + 1
      BY <1>1
    <3>2. wtrans[p + (r + 1 - p)] = b[r + 1 - p] /\ b[r + 1 - p].in \in X
      BY <3>1 DEF Stands
    <3> QED
      BY <3>1, <3>2
  <2>2. wtrans[e + 1].in \notin X
    BY DEF Stands
  <2> QED
    BY <2>1, <2>2
<1>3. ASSUME NEW q \in p .. Len(wtrans), Good(q) PROVE q = e
  <2>1. CASE q < e
    <3>1. q \in p .. e - 1 /\ q < Len(wtrans)
      BY <1>1, <2>1
    <3> QED
      BY <1>2, <1>3, <3>1
  <2>2. CASE e < q
    <3>1. e \in p .. q - 1
      BY <1>1, <2>2
    <3> QED
      BY <1>1, <1>2, <1>3, <3>1
  <2> QED
    BY <1>1, <2>1, <2>2
<1> DEFINE c == CHOOSE q \in p .. Len(wtrans) : Good(q)
<1>4. c \in p .. Len(wtrans) /\ Good(c)
  <2> HIDE DEF Good
  <2> QED
    BY <1>1, <1>2
<1>5. c = e
  <2> HIDE DEF c, e
  <2> QED
    BY <1>3, <1>4
<1>6. Run(p, X) = SubSeq(wtrans, p + 1, c)
  BY DEF Run
<1> HIDE DEF c, Good
<1>7. SubSeq(wtrans, p + 1, p + Len(b)) = b
  <2>1. p + Len(b) <= Len(wtrans) /\ \A j \in 1 .. Len(b) : wtrans[p + j] = b[j]
    BY <1>1 DEF Stands
  <2> QED
    BY <1>1, <2>1, SubSeqIs
<1> QED
  BY <1>5, <1>6, <1>7

-----------------------------------------------------------------------------
(* The tables when the conversion is done *)

\* Everything known of a conversion that is through.
Through ==
    /\ TypeOK /\ SlotOwnership /\ AddressInv /\ NumbersFit /\ Gathered /\ Follows
    /\ Indexed /\ Layout /\ pc = "done"

\* No number is that of the markers, NO_SYMBOL_NUMBER.
LEMMA NumbersBelow ==
    ASSUME Through
    PROVE  /\ NO_SYMBOL_NUMBER \in Nat /\ seen \in 1 .. NO_SYMBOL_NUMBER
           /\ \A b : NumberIn(num, b) \in 0 .. NO_SYMBOL_NUMBER - 1
           /\ flags \subseteq 0 .. NO_SYMBOL_NUMBER - 1
<1>0. /\ NO_SYMBOL_NUMBER \in Nat /\ seen \in Nat \ {0} /\ \A a \in DOMAIN num : num[a] \in Nat
      /\ NumbersFit /\ pc = "done"
  BY NumbersAssumption DEF Through, TypeOK
<1>1. seen <= NO_SYMBOL_NUMBER /\ \A a \in DOMAIN num : num[a] < NO_SYMBOL_NUMBER
  <2>1. CASE harm = NoHarmonizer
    <3>1. /\ Cardinality(DOMAIN num) \in Nat /\ seen <= Cardinality(DOMAIN num)
          /\ \A a \in DOMAIN num : num[a] < Cardinality(DOMAIN num)
          /\ Cardinality(DOMAIN num) <= NO_SYMBOL_NUMBER
      BY <1>0, <2>1 DEF NumbersFit
    <3> QED
      BY <1>0, <3>1
  <2>2. CASE harm # NoHarmonizer
    BY <1>0, <2>2 DEF NumbersFit
  <2> QED
    BY <2>1, <2>2
<1>2. \A a \in DOMAIN num : num[a] \in 0 .. NO_SYMBOL_NUMBER - 1
  BY <1>0, <1>1
<1>3. flags \subseteq {num[a] : a \in DOMAIN num}
  BY <1>0 DEF NumbersFit
<1>4. 0 \in 0 .. NO_SYMBOL_NUMBER - 1
  BY <1>0, <1>1
<1> QED
  BY <1>0, <1>1, <1>2, <1>3, <1>4 DEF NumberIn

\* The part of the transition table that s has, and the marker after it.
Part(s) ==
    /\ wtrans \in Seq(Entries) /\ ph[s].first \in Nat /\ (s # 0 => ph[s].first # 0)
    /\ ph[s].first + Len(t.arcs[s]) + 1 <= Len(wtrans)
    /\ wtrans[ph[s].first + Len(t.arcs[s]) + 1].in = NO_SYMBOL_NUMBER
    /\ \A j \in 1 .. Len(t.arcs[s]) : wtrans[ph[s].first + j] = StateArcsIn(ph, flags, ph[s])[j]

\* The arcs of a state stand in its part of the table, and a marker after them.
LEMMA PartHolds == ASSUME Through, NEW s \in States(t) PROVE Part(s)
<1> DEFINE f == ph[s].first
           n == Len(t.arcs[s])
<1>0. /\ TypeOK /\ Gathered /\ Follows /\ Layout /\ pc = "done"
  BY DEF Through
<1>1. /\ t.n \in Nat \ {0} /\ DOMAIN ph = States(t) /\ s \in Nat /\ s < t.n
      /\ \A r \in States(t) : ph[r].first \in Nat /\ Len(t.arcs[r]) \in Nat
  <2>1. t.n \in Nat \ {0} /\ IsTransducer(t) /\ DOMAIN ph = States(t)
    BY <1>0 DEF TypeOK, IsTransducer
  <2>2. s \in Nat /\ s < t.n
    BY <2>1 DEF States
  <2>3. \A r \in States(t) : ph[r].first \in Nat /\ Len(t.arcs[r]) \in Nat
    BY <1>0, <2>1, StringsOfState DEF TypeOK
  <2> QED
    BY <2>1, <2>2, <2>3
<1>2. PICK table : LaidOut(t, ph, flags, table, t.n) /\ wtrans = Append(table, Marker(FALSE))
  BY <1>0 DEF Layout
<1>3. table \in Seq(Entries) /\ Len(table) \in Nat /\ Len(table) = ph[t.n - 1].first + Len(t.arcs[t.n - 1])
  BY <1>1, <1>2 DEF LaidOut
<1>4. /\ wtrans \in Seq(Entries) /\ Len(wtrans) = Len(table) + 1
      /\ wtrans[Len(table) + 1] = Marker(FALSE)
      /\ \A i \in 1 .. Len(table) : wtrans[i] = table[i]
  <2> DEFINE m == Marker(FALSE)
  <2>1. m \in Entries /\ wtrans = Append(table, m)
    BY <1>2, MarkerTyped
  <2> HIDE DEF m
  <2>2. /\ Append(table, m) \in Seq(Entries) /\ Len(Append(table, m)) = Len(table) + 1
        /\ Append(table, m)[Len(table) + 1] = m
        /\ \A i \in 1 .. Len(table) : Append(table, m)[i] = table[i]
    BY <1>3, <2>1
  <2> QED
    BY <2>1, <2>2 DEF m
<1>5. \A r \in States(t) : Holds(t, ph, flags, table, r)
  <2>1. \A r \in States(t) : r < t.n
    BY <1>1 DEF States
  <2> QED
    BY <1>2, <2>1 DEF LaidOut
<1>6. \A b : Marker(b).in = NO_SYMBOL_NUMBER
  BY DEF Marker
<1>7. f \in Nat /\ n \in Nat /\ f + n <= Len(table)
  BY <1>1, <1>5 DEF Holds
<1>8. \A j \in 1 .. n : wtrans[f + j] = StateArcsIn(ph, flags, ph[s])[j]
  <2> SUFFICES ASSUME NEW j \in 1 .. n PROVE wtrans[f + j] = StateArcsIn(ph, flags, ph[s])[j]
    OBVIOUS
  <2>1. f + j \in 1 .. Len(table)
    BY <1>3, <1>7
  <2> QED
    BY <1>4, <1>5, <2>1 DEF Holds
<1>9. f + n + 1 <= Len(wtrans) /\ wtrans[f + n + 1].in = NO_SYMBOL_NUMBER
  <2>1. CASE s = t.n - 1
    <3>1. Len(table) = f + n
      BY <1>3, <2>1
    <3> HIDE DEF f, n
    <3>2. f + n + 1 = Len(table) + 1
      BY <1>7, <3>1
    <3>3. wtrans[f + n + 1] = Marker(FALSE)
      BY <1>4, <3>2, Zenon
    <3>4. f + n + 1 <= Len(wtrans)
      BY <1>3, <1>4, <3>2
    <3> QED
      BY <1>6, <3>3, <3>4
  <2>2. CASE s # t.n - 1
    <3>1. s + 1 \in States(t) /\ s + 1 # 0 /\ (s + 1) - 1 = s
      BY <1>1, <2>2 DEF States
    <3>2. ph[s + 1].first = f + 1 + n
      BY <1>0, <1>1, <3>1 DEF Follows, FirstIn
    <3>3. ph[s + 1].first + Len(t.arcs[s + 1]) <= Len(table)
          /\ table[ph[s + 1].first] = Marker(s + 1 \in t.final)
      BY <1>5, <3>1 DEF Holds
    <3>4. Len(t.arcs[s + 1]) \in Nat
      BY <1>1, <3>1
    <3> DEFINE g == ph[s + 1].first
               m == Len(t.arcs[s + 1])
    <3>6. g = f + 1 + n /\ g + m <= Len(table) /\ m \in Nat
      BY <3>2, <3>3, <3>4
    <3> HIDE DEF f, n, g, m
    <3>5. f + n + 1 \in 1 .. Len(table) /\ g = f + n + 1
      BY <1>3, <1>7, <3>6
    <3>7. wtrans[f + n + 1] = table[g] /\ f + n + 1 <= Len(wtrans)
      BY <1>3, <1>4, <3>5
    <3> QED
      BY <1>6, <3>3, <3>7 DEF g
  <2> QED
    BY <2>1, <2>2
<1>10. s # 0 => f # 0
  <2> SUFFICES ASSUME s # 0 PROVE f # 0
    OBVIOUS
  <2>1. s - 1 \in States(t)
    BY <1>1 DEF States
  <2>2. f = ph[s - 1].first + 1 + Len(t.arcs[s - 1])
    BY <1>0, <1>1 DEF Follows, FirstIn
  <2> QED
    BY <1>1, <2>1, <2>2
<1> QED
  BY <1>4, <1>7, <1>8, <1>9, <1>10 DEF Part
-----------------------------------------------------------------------------
(* Reading the part of a state *)

\* An entry has the input of its block.
InputsIn(X, q) == \A j \in 1 .. Len(q) : q[j].in \in X
InBlocks(p, X, q) ==
    \A j \in 1 .. Len(q) : \E i \in 1 .. Len(p.by[q[j].in]) : j = Place(p, X, q[j].in) + i

\* Every entry of a list of blocks is in the block of its input.
LEMMA ListedInputs ==
    ASSUME NEW tr, NEW p, IsBy(tr, p.by), NEW X \in SUBSET DOMAIN p.by, NEW P, Addressed(tr, P),
           NEW n, NEW q, Listed(P, p, X, n, q)
    PROVE  InputsIn(X, q) /\ InBlocks(p, X, q)
<1> SUFFICES ASSUME NEW j \in 1 .. Len(q)
             PROVE  q[j].in \in X /\ \E i \in 1 .. Len(p.by[q[j].in]) : j = Place(p, X, q[j].in) + i
  BY DEF InputsIn, InBlocks
<1>1. PICK x \in X : x < n /\ \E i \in 1 .. Len(p.by[x]) : j = Place(p, X, x) + i
  BY DEF Listed
<1>2. PICK i \in 1 .. Len(p.by[x]) : j = Place(p, X, x) + i
  BY <1>1
<1>3. q[j] = WrittenIn(P, x, p.by[x])[i]
  BY <1>1, <1>2 DEF Listed
<1>4. x \in Nat /\ p.by[x] \in Seq(Arcs(tr))
  BY NumbersAssumption DEF IsBy
<1> DEFINE arcs == p.by[x]
<1> HIDE DEF arcs
<1>5. WrittenIn(P, x, arcs)[i] = [in |-> x, out |-> arcs[i].out, to |-> AddressIn(P, arcs[i].to)]
  <2>1. i \in DOMAIN arcs
    BY <1>2, <1>4 DEF arcs
  <2> QED
    BY <2>1, Zenon DEF WrittenIn
<1>6. q[j].in = x
  BY <1>3, <1>5 DEF arcs
<1> QED
  BY <1>2, <1>6

\* The part of s in the table: first the arcs read with epsilon, then the others,
\* then a marker.
Parts(s, p, f, zq, oq, Z, O) ==
    /\ p = ph[s] /\ f = p.first /\ f \in Nat /\ (s # 0 => f # 0)
    /\ Z = ZeroOf(flags, p) /\ O = OtherOf(flags, p)
    /\ zq = ZeroArcs(ph, flags, p) /\ oq = OtherArcs(ph, flags, p)
    /\ zq \in Seq(Entries) /\ oq \in Seq(Entries) /\ Len(zq) \in Nat /\ Len(oq) \in Nat
    /\ wtrans \in Seq(Entries) /\ Len(wtrans) \in Nat
    /\ f + Len(zq) + Len(oq) + 1 <= Len(wtrans)
    /\ wtrans[f + Len(zq) + Len(oq) + 1].in = NO_SYMBOL_NUMBER
    /\ \A j \in 1 .. Len(zq) : wtrans[f + j] = zq[j] /\ zq[j].in \in Z
    /\ \A j \in 1 .. Len(oq) : wtrans[f + Len(zq) + j] = oq[j] /\ oq[j].in \in O

\* Every state has a part like that.
LEMMA PartsHold ==
    ASSUME Through, NEW s \in States(t)
    PROVE  \E p, f, zq, oq, Z, O : Parts(s, p, f, zq, oq, Z, O)
<1> DEFINE p == ph[s]
           f == p.first
           n == Len(t.arcs[s])
           zq == ZeroArcs(ph, flags, p)
           oq == OtherArcs(ph, flags, p)
           Z == ZeroOf(flags, p)
           O == OtherOf(flags, p)
           q == StateArcsIn(ph, flags, p)
<1>1. StateFacts(s) /\ Addressed(t, ph)
  BY StateFactsHold, AddressedHolds DEF Through
<1>2. /\ IsBy(t, p.by) /\ zq \in Seq(Entries) /\ oq \in Seq(Entries)
      /\ Len(zq) \in Nat /\ Len(oq) \in Nat /\ Len(zq) + Len(oq) = n
      /\ Listed(ph, p, Z, NO_SYMBOL_NUMBER + 1, zq) /\ Listed(ph, p, O, NO_SYMBOL_NUMBER + 1, oq)
  BY <1>1 DEF StateFacts, Grouped
<1>3. q = zq \o oq
  BY DEF StateArcsIn, ZeroArcs, OtherArcs
<1>4. Part(s)
  BY PartHolds
<1>5. /\ wtrans \in Seq(Entries) /\ f \in Nat /\ (s # 0 => f # 0) /\ n \in Nat
      /\ f + n + 1 <= Len(wtrans) /\ wtrans[f + n + 1].in = NO_SYMBOL_NUMBER
      /\ \A j \in 1 .. n : wtrans[f + j] = q[j]
  BY <1>1, <1>4 DEF Part, StateFacts
<1>6. Z \in SUBSET DOMAIN p.by /\ O \in SUBSET DOMAIN p.by
  BY DEF ZeroOf, OtherOf
<1> HIDE DEF p, f, n, zq, oq, Z, O, q
<1>7. InputsIn(Z, zq) /\ InputsIn(O, oq)
  BY <1>1, <1>2, <1>6, ListedInputs
<1>8. Joined(Entries, zq, oq, q)
  BY <1>2, <1>3, JoinedIs
<1>9. \A j \in 1 .. Len(zq) : wtrans[f + j] = zq[j]
  <2> SUFFICES ASSUME NEW j \in 1 .. Len(zq) PROVE wtrans[f + j] = zq[j]
    OBVIOUS
  <2>1. j \in 1 .. n
    BY <1>2
  <2> QED
    BY <1>5, <1>8, <2>1 DEF Joined
<1>10. \A j \in 1 .. Len(oq) : wtrans[f + Len(zq) + j] = oq[j]
  <2> SUFFICES ASSUME NEW j \in 1 .. Len(oq) PROVE wtrans[f + Len(zq) + j] = oq[j]
    OBVIOUS
  <2>1. Len(zq) + j \in 1 .. n /\ f + (Len(zq) + j) = f + Len(zq) + j
    BY <1>2, <1>5
  <2>2. wtrans[f + (Len(zq) + j)] = q[Len(zq) + j]
    BY <1>5, <2>1
  <2>3. q[Len(zq) + j] = oq[j]
    BY <1>8 DEF Joined
  <2> QED
    BY <2>1, <2>2, <2>3, Zenon
<1>11. f + Len(zq) + Len(oq) + 1 = f + n + 1 /\ Len(wtrans) \in Nat
  BY <1>2, <1>5
<1>12. f + Len(zq) + Len(oq) + 1 <= Len(wtrans)
  BY <1>5, <1>11
<1>13. wtrans[f + Len(zq) + Len(oq) + 1].in = NO_SYMBOL_NUMBER
  BY <1>5, <1>11, Zenon
<1>14. p = ph[s] /\ f = p.first
  BY DEF p, f
<1>15. Z = ZeroOf(flags, p) /\ O = OtherOf(flags, p)
  BY DEF Z, O
<1>16. zq = ZeroArcs(ph, flags, p) /\ oq = OtherArcs(ph, flags, p)
  BY DEF zq, oq
<1>17. \A j \in 1 .. Len(zq) : zq[j].in \in Z
  BY <1>7 DEF InputsIn
<1>18. \A j \in 1 .. Len(oq) : oq[j].in \in O
  BY <1>7 DEF InputsIn
<1>19. Parts(s, p, f, zq, oq, Z, O)
  BY <1>2, <1>5, <1>9, <1>10, <1>11, <1>12, <1>13, <1>14, <1>15, <1>16, <1>17, <1>18 DEF Parts
<1> QED
  BY <1>19

\* The part of s begins with the block of the arcs with epsilon and the flags.
LEMMA ZeroStands ==
    ASSUME Through, NEW s, NEW p, NEW f, NEW zq, NEW oq, NEW Z, NEW O,
           Parts(s, p, f, zq, oq, Z, O)
    PROVE  Stands(f, flags \cup {0}, zq)
<1> DEFINE X == flags \cup {0}
<1>0. /\ f \in Nat /\ zq \in Seq(Entries) /\ Len(zq) \in Nat /\ Len(oq) \in Nat
      /\ wtrans \in Seq(Entries) /\ Len(wtrans) \in Nat
      /\ f + Len(zq) + Len(oq) + 1 <= Len(wtrans)
  BY DEF Parts
<1>1. \A j \in 1 .. Len(zq) : wtrans[f + j] = zq[j] /\ zq[j].in \in X
  <2>1. Z \subseteq X
    BY DEF Parts, ZeroOf, ZeroIn
  <2> QED
    BY <2>1 DEF Parts
<1>2. wtrans[f + Len(zq) + 1].in \notin X
  <2>1. CASE Len(oq) = 0
    <3>1. f + Len(zq) + Len(oq) + 1 = f + Len(zq) + 1
      BY <1>0, <2>1
    <3>2. wtrans[f + Len(zq) + 1].in = NO_SYMBOL_NUMBER
      BY <3>1, Zenon DEF Parts
    <3>3. NO_SYMBOL_NUMBER \notin X
      BY NumbersBelow
    <3> QED
      BY <3>2, <3>3
  <2>2. CASE Len(oq) # 0
    <3>1. 1 \in 1 .. Len(oq)
      BY <1>0, <2>2
    <3>2. wtrans[f + Len(zq) + 1].in \in O
      BY <3>1 DEF Parts
    <3>3. O \cap X = {}
      BY DEF Parts, OtherOf, ZeroOf, ZeroIn
    <3> QED
      BY <3>2, <3>3
  <2> QED
    BY <2>1, <2>2
<1>3. f + Len(zq) < Len(wtrans)
  BY <1>0
<1> HIDE DEF X
<1>4. Stands(f, X, zq)
  BY <1>1, <1>2, <1>3 DEF Stands
<1> QED
  BY <1>4 DEF X

\* Reading epsilon there gives these arcs.
LEMMA ZeroReads ==
    ASSUME Through, NEW s, NEW p, NEW f, NEW zq, NEW oq, NEW Z, NEW O,
           Parts(s, p, f, zq, oq, Z, O)
    PROVE  Run(f, flags \cup {0}) = zq
<1> DEFINE X == flags \cup {0}
<1>1. wtrans \in Seq(Entries) /\ zq \in Seq(Entries) /\ f \in Nat
  BY Zenon DEF Parts
<1>2. Stands(f, X, zq)
  BY ZeroStands
<1> HIDE DEF X
<1>3. Run(f, X) = zq
  BY <1>1, <1>2, RunIs
<1> QED
  BY <1>3 DEF X

\* Reading an input that s has no arcs with gives nothing.
LEMMA OtherReadsNone ==
    ASSUME Through, NEW s, NEW p, NEW f, NEW zq, NEW oq, NEW Z, NEW O,
           Parts(s, p, f, zq, oq, Z, O), NEW x \in 0 .. NO_SYMBOL_NUMBER - 1, x \notin DOMAIN p.by
    PROVE  Run(f, {x}) = << >>
<1>0. /\ f \in Nat /\ Len(zq) \in Nat /\ Len(oq) \in Nat
      /\ wtrans \in Seq(Entries) /\ Len(wtrans) \in Nat
      /\ f + Len(zq) + Len(oq) + 1 <= Len(wtrans)
      /\ NO_SYMBOL_NUMBER \in Nat
  BY NumbersAssumption DEF Parts
<1>1. wtrans[f + 1].in \notin {x}
  <2>1. CASE Len(zq) # 0
    <3>1. 1 \in 1 .. Len(zq)
      BY <1>0, <2>1
    <3>2. wtrans[f + 1].in \in Z
      BY <3>1 DEF Parts
    <3> QED
      BY <3>2 DEF Parts, ZeroOf
  <2>2. CASE Len(zq) = 0 /\ Len(oq) # 0
    <3>1. 1 \in 1 .. Len(oq) /\ f + Len(zq) + 1 = f + 1
      BY <1>0, <2>2
    <3>2. wtrans[f + Len(zq) + 1].in \in O
      BY <3>1 DEF Parts
    <3>3. wtrans[f + 1].in \in O
      BY <3>1, <3>2, Zenon
    <3> QED
      BY SMTT(40), <3>3 DEF Parts, OtherOf
  <2>3. CASE Len(zq) = 0 /\ Len(oq) = 0
    <3>1. f + Len(zq) + Len(oq) + 1 = f + 1
      BY <1>0, <2>3
    <3>2. wtrans[f + 1].in = NO_SYMBOL_NUMBER
      BY <3>1, Zenon DEF Parts
    <3> QED
      BY <1>0, <3>2
  <2> QED
    BY <2>1, <2>2, <2>3
<1>2. << >> \in Seq(Entries) /\ Len(<< >>) = 0 /\ f + 0 + 1 = f + 1 /\ f + 0 < Len(wtrans)
  BY <1>0
<1>3. Stands(f, {x}, << >>)
  BY <1>1, <1>2 DEF Stands
<1> QED
  BY <1>0, <1>2, <1>3, RunIs
\* Where the arcs of s with input x begin, and what is read from there.
Block(f, zq, O, p, x) == f + Len(zq) + Place(p, O, x)

\* symbol_offset gives where the block of an input begins.
LEMMA OffsetIs ==
    ASSUME Through, NEW s \in States(t), NEW p, NEW f, NEW zq, NEW oq, NEW Z, NEW O,
           Parts(s, p, f, zq, oq, Z, O), NEW x \in O
    PROVE  /\ f + SymbolOffset(p, x) = Block(f, zq, O, p, x)
           /\ SymbolOffset(p, x) \in Nat /\ Place(p, O, x) \in Nat
<1> DEFINE U == Upto(O, x)
<1>1. StateFacts(s) /\ p = ph[s] /\ f \in Nat
  BY StateFactsHold DEF Through, Parts
<1>2. IsBy(t, p.by) /\ Len(zq) = Cardinality(ArcsWith(p, Z)) /\ Len(zq) \in Nat
  BY <1>1 DEF StateFacts, Grouped, Parts
<1>3. Z = ZeroOf(flags, p) /\ O = OtherOf(flags, p)
  BY DEF Parts
<1>4. x # 0
  BY <1>3 DEF OtherOf, ZeroOf, ZeroIn
<1>5. {y \in DOMAIN p.by : ZeroIndexed(y) \/ y < x} = Z \cup U
  BY <1>3 DEF ZeroOf, OtherOf, ZeroIn, ZeroIndexed, Upto
<1>6. SymbolOffset(p, x) = Cardinality(ArcsWith(p, Z \cup U))
  BY <1>4, <1>5, Zenon DEF SymbolOffset
<1>7. Z \in SUBSET DOMAIN p.by /\ U \in SUBSET DOMAIN p.by /\ Z \cap U = {}
  BY <1>3 DEF ZeroOf, OtherOf, Upto
<1> HIDE DEF U
<1>8. /\ IsFiniteSet(ArcsWith(p, Z)) /\ IsFiniteSet(ArcsWith(p, U))
      /\ Cardinality(ArcsWith(p, U)) \in Nat
  BY <1>2, <1>7, ArcsFinite
<1>9. ArcsWith(p, Z \cup U) = ArcsWith(p, Z) \cup ArcsWith(p, U)
  BY DEF ArcsWith
<1>10. ArcsWith(p, Z) \cap ArcsWith(p, U) = {}
  BY <1>7 DEF ArcsWith
<1>11. Cardinality(ArcsWith(p, Z) \cup ArcsWith(p, U))
         = Cardinality(ArcsWith(p, Z)) + Cardinality(ArcsWith(p, U))
  BY <1>8, <1>10, DisjointCount
<1>12. Place(p, O, x) = Cardinality(ArcsWith(p, U))
  BY DEF Place, U
<1>13. SymbolOffset(p, x) = Len(zq) + Place(p, O, x)
  BY <1>2, <1>6, <1>9, <1>11, <1>12
<1>14. Place(p, O, x) \in Nat
  BY <1>8, <1>12
<1> HIDE DEF SymbolOffset
<1> QED
  BY <1>1, <1>2, <1>13, <1>14 DEF Block

\* A state has an arc with each input it is listed with.
LEMMA ArcsOfInput ==
    ASSUME Through, NEW s \in States(t), StateFacts(s), NEW p, p = ph[s], NEW x \in DOMAIN p.by
    PROVE  1 \in 1 .. Len(p.by[x])
<1>1. p.by[x] = Conv(num, x, OwnIn(t, num, s, x, Len(t.arcs[s])))
      /\ OwnIn(t, num, s, x, Len(t.arcs[s])) # << >>
  BY DEF StateFacts, GatheredAt
<1> DEFINE o == OwnIn(t, num, s, x, Len(t.arcs[s]))
<1>2. o \in Seq(Arcs(t))
  BY OwnTyped DEF StateFacts, Through, TypeOK
<1> HIDE DEF o
<1>3. Len(o) \in Nat /\ Len(o) # 0 /\ DOMAIN o = 1 .. Len(o)
  BY <1>1, <1>2 DEF o
<1>4. DOMAIN p.by[x] = DOMAIN o
  BY <1>1 DEF Conv, o
<1>5. p.by[x] \in Seq(Arcs(t))
  BY DEF StateFacts, IsBy
<1>6. DOMAIN p.by[x] = 1 .. Len(p.by[x])
  BY <1>5, SeqElements
<1> QED
  BY <1>3, <1>4, <1>6

\* There stand the arcs of s with that input, and no others.
LEMMA BlockStands ==
    ASSUME Through, NEW s \in States(t), NEW p, NEW f, NEW zq, NEW oq, NEW Z, NEW O,
           Parts(s, p, f, zq, oq, Z, O), NEW x \in O
    PROVE  /\ Stands(Block(f, zq, O, p, x), {x}, WrittenIn(ph, x, p.by[x]))
           /\ WrittenIn(ph, x, p.by[x]) \in Seq(Entries)
           /\ Block(f, zq, O, p, x) \in Nat /\ Block(f, zq, O, p, x) + 2 <= Len(wtrans)
<1> DEFINE b == WrittenIn(ph, x, p.by[x])
           m == Len(p.by[x])
           g == Place(p, O, x)
           lz == Len(zq)
           lo == Len(oq)
<1>0. /\ f \in Nat /\ lz \in Nat /\ lo \in Nat /\ Len(wtrans) \in Nat /\ wtrans \in Seq(Entries)
      /\ f + lz + lo + 1 <= Len(wtrans) /\ wtrans[f + lz + lo + 1].in = NO_SYMBOL_NUMBER
      /\ \A j \in 1 .. lo : wtrans[f + lz + j] = oq[j] /\ oq[j].in \in O
      /\ NO_SYMBOL_NUMBER \in Nat
  BY NumbersAssumption DEF Parts
<1>1. StateFacts(s) /\ p = ph[s] /\ Addressed(t, ph)
  BY StateFactsHold, AddressedHolds DEF Through, Parts
<1>2. IsBy(t, p.by) /\ Listed(ph, p, O, NO_SYMBOL_NUMBER + 1, oq)
  BY <1>1 DEF StateFacts, Grouped, Parts
<1>3. O \in SUBSET DOMAIN p.by
  BY DEF Parts, OtherOf
<1>4. x \in Nat /\ x < NO_SYMBOL_NUMBER + 1 /\ p.by[x] \in Seq(Arcs(t)) /\ m \in Nat
  BY <1>0, <1>2, <1>3, SeqElements DEF IsBy
<1>5. m # 0
  <2>1. 1 \in 1 .. Len(p.by[x])
    BY <1>1, <1>3, ArcsOfInput
  <2> QED
    BY <1>4, <2>1
<1>6. /\ b \in Seq(Entries) /\ Len(b) = m
      /\ \A i \in 1 .. m : b[i] = [in |-> x, out |-> p.by[x][i].out, to |-> AddressIn(ph, p.by[x][i].to)]
  BY <1>1, <1>4, WrittenHolds
<1> HIDE DEF b
<1>7. ASSUME NEW i \in 1 .. m PROVE b[i].in = x
  <2>1. b[i] = [in |-> x, out |-> p.by[x][i].out, to |-> AddressIn(ph, p.by[x][i].to)]
    BY <1>6
  <2> QED
    BY <2>1
<1>8. \A j \in 1 .. m : g + j \in 1 .. lo /\ oq[g + j] = b[j]
  BY <1>2, <1>3, <1>4 DEF Listed, b
<1>9. g \in Nat
  BY OffsetIs
<1>10. \A j \in 1 .. lo : \E i \in 1 .. Len(p.by[oq[j].in]) : j = Place(p, O, oq[j].in) + i
  <2>1. InBlocks(p, O, oq)
    BY <1>1, <1>2, <1>3, ListedInputs
  <2> QED
    BY <2>1 DEF InBlocks
<1> HIDE DEF g, lz, lo, m
<1>11. g + m \in 1 .. lo
  <2>1. m \in 1 .. m
    BY <1>4, <1>5
  <2> QED
    BY <1>8, <2>1
<1>12. \A j \in 1 .. m : wtrans[(f + lz + g) + j] = b[j] /\ b[j].in \in {x}
  <2> SUFFICES ASSUME NEW j \in 1 .. m PROVE wtrans[(f + lz + g) + j] = b[j]
    BY <1>7
  <2>1. g + j \in 1 .. lo /\ oq[g + j] = b[j]
    BY <1>8
  <2>2. wtrans[f + lz + (g + j)] = oq[g + j]
    BY <1>0, <2>1
  <2>3. f + lz + (g + j) = (f + lz + g) + j
    BY <1>0, <1>4, <1>9
  <2> QED
    BY <2>1, <2>2, <2>3, Zenon
<1>13. wtrans[(f + lz + g) + m + 1].in # x
  <2>1. CASE g + m = lo
    <3>1. (f + lz + g) + m + 1 = f + lz + lo + 1
      BY <1>0, <1>4, <1>9, <2>1
    <3>2. wtrans[(f + lz + g) + m + 1].in = NO_SYMBOL_NUMBER
      BY <1>0, <3>1, Zenon
    <3>3. x \in 0 .. NO_SYMBOL_NUMBER - 1
      <4>1. DOMAIN p.by = {NumberIn(num, t.arcs[s][i].in) : i \in 1 .. Len(t.arcs[s])}
        BY <1>1 DEF StateFacts, GatheredAt
      <4> QED
        BY <1>3, <4>1, NumbersBelow
    <3> QED
      BY <1>0, <3>2, <3>3
  <2>2. CASE g + m # lo
    <3>0. f \in Nat /\ lz \in Nat /\ lo \in Nat /\ g \in Nat /\ m \in Nat
      BY <1>0, <1>4, <1>9
    <3>1. g + m + 1 \in 1 .. lo /\ (f + lz + g) + m + 1 = f + lz + (g + m + 1)
      <4>1. g + m + 1 \in 1 .. lo
        BY <3>0, <1>11, <2>2
      <4> QED
        BY <3>0, <4>1
    <3>2. wtrans[f + lz + (g + m + 1)] = oq[g + m + 1]
      BY <1>0, <3>1
    <3>3. PICK i \in 1 .. Len(p.by[oq[g + m + 1].in]) : g + m + 1 = Place(p, O, oq[g + m + 1].in) + i
      BY <1>10, <3>1
    <3>4. ASSUME oq[g + m + 1].in = x PROVE FALSE
      <4>1. i \in 1 .. m
        BY <3>3, <3>4 DEF m
      <4>2. g + m + 1 = g + i
        BY <3>3, <3>4 DEF g
      <4> QED
        BY <1>4, <1>9, <4>1, <4>2
    <3>5. wtrans[(f + lz + g) + m + 1] = oq[g + m + 1]
      BY <3>1, <3>2, Zenon
    <3> QED
      BY <3>4, <3>5
  <2> QED
    BY <2>1, <2>2
<1>14. (f + lz + g) \in Nat /\ (f + lz + g) + m < Len(wtrans) /\ (f + lz + g) + 2 <= Len(wtrans)
  BY <1>0, <1>4, <1>5, <1>9, <1>11
<1> DEFINE a == f + lz + g
<1>15. Stands(a, {x}, b)
  <2> HIDE DEF a
  <2>1. /\ a + Len(b) < Len(wtrans)
        /\ \A j \in 1 .. Len(b) : wtrans[a + j] = b[j] /\ b[j].in \in {x}
        /\ wtrans[a + Len(b) + 1].in \notin {x}
    BY <1>6, <1>12, <1>13, <1>14 DEF a, b
  <2> QED
    BY <2>1 DEF Stands
<1>16. a = Block(f, zq, O, p, x) /\ a \in Nat
  BY <1>14 DEF Block, g, lz
<1> HIDE DEF a
<1>17. b \in Seq(Entries)
  BY <1>6 DEF b
<1> QED
  BY <1>14, <1>15, <1>16, <1>17 DEF b, a

\* From there a reader gets these arcs.
LEMMA BlockReads ==
    ASSUME Through, NEW s \in States(t), NEW p, NEW f, NEW zq, NEW oq, NEW Z, NEW O,
           Parts(s, p, f, zq, oq, Z, O), NEW x \in O
    PROVE  /\ Run(Block(f, zq, O, p, x), {x}) = WrittenIn(ph, x, p.by[x])
           /\ Block(f, zq, O, p, x) + 2 <= Len(wtrans)
<1>1. wtrans \in Seq(Entries)
  BY DEF Parts
<1> DEFINE a == Block(f, zq, O, p, x)
           b == WrittenIn(ph, x, p.by[x])
           X == {x}
<1>2. Stands(a, X, b) /\ b \in Seq(Entries) /\ a \in Nat /\ a + 2 <= Len(wtrans)
  BY BlockStands
<1> HIDE DEF a, b, X
<1>3. Run(a, X) = b
  BY <1>1, <1>2, RunIs
<1> QED
  BY <1>2, <1>3 DEF a, b, X


-----------------------------------------------------------------------------
(* Reading the index table *)

\* A bounded set of natural numbers has a greatest element.
LEMMA GreatestIs ==
    ASSUME NEW S \in SUBSET Nat, S # {}, NEW b \in Nat, \A y \in S : y <= b
    PROVE  Max(S) \in S /\ \A y \in S : y <= Max(S)
<1> DEFINE B == {c \in Nat : \A y \in S : y <= c}
<1>1. b \in B
  OBVIOUS
<1>2. PICK c \in B : \A d \in B : c <= d
  <2>1. B \in SUBSET Nat /\ B # {}
    BY <1>1
  <2> HIDE DEF B
  <2> QED
    BY <2>1, LeastElement
<1>3. c \in S
  <2> SUFFICES ASSUME c \notin S PROVE FALSE
    OBVIOUS
  <2>1. \A y \in S : y <= c /\ y # c
    BY <1>2
  <2>2. c # 0
    <3>1. PICK y \in S : TRUE
      OBVIOUS
    <3>2. y \in Nat /\ y <= c /\ y # c
      BY <2>1, <3>1
    <3> QED
      BY <3>2
  <2>3. c - 1 \in Nat /\ \A y \in S : y <= c - 1
    BY <1>2, <2>1, <2>2
  <2>4. c - 1 \in B
    BY <2>3
  <2>5. c <= c - 1
    BY <1>2, <2>4
  <2> QED
    BY <1>2, <2>5
<1>4. c \in S /\ \A y \in S : c >= y
  BY <1>2, <1>3
<1>5. Max(S) = CHOOSE x \in S : \A y \in S : x >= y
  BY DEF Max
<1>6. Max(S) \in S /\ \A y \in S : Max(S) >= y
  BY <1>4, <1>5
<1> QED
  BY <1>6

\* The inputs of a state and its slots are numbers below that of the markers.
LEMMA SlotsBelow ==
    ASSUME Through, NEW s \in States(t)
    PROVE  /\ DOMAIN ph[s].by \subseteq 0 .. NO_SYMBOL_NUMBER - 1
           /\ Slots(s) \subseteq 0 .. NO_SYMBOL_NUMBER - 1
<1>1. GatheredAt(t, num, flags, s, ph[s], Len(t.arcs[s]))
  BY StateFactsHold DEF Through, StateFacts
<1>2. DOMAIN ph[s].by = {NumberIn(num, t.arcs[s][i].in) : i \in 1 .. Len(t.arcs[s])}
  BY <1>1 DEF GatheredAt
<1>3. DOMAIN ph[s].by \subseteq 0 .. NO_SYMBOL_NUMBER - 1
  BY <1>2, NumbersBelow
<1>4. 0 \in 0 .. NO_SYMBOL_NUMBER - 1
  BY NumbersBelow
<1> QED
  BY <1>3, <1>4 DEF Slots, Slot

\* Each used position is the start of a state or one of its slots.
LEMMA OwnedPositions ==
    ASSUME Through, NEW q \in DOMAIN indices
    PROVE  \E r \in States(t) :
             /\ Placed(r) /\ ph[r].start \in Nat /\ ph[r].start < START
             /\ \/ q = ph[r].start /\ indices[q] = <<r, NO_SYMBOL_NUMBER>>
                \/ \E y \in Slots(r) : q = ph[r].start + 1 + y /\ indices[q] = <<r, y>>
<1>1. DOMAIN ph = States(t)
  BY DEF Through, TypeOK
<1>2. PICK r \in DOMAIN ph :
        /\ Placed(r)
        /\ \/ q = ph[r].start /\ indices[q] = <<r, NO_SYMBOL_NUMBER>>
           \/ \E y \in Slots(r) : q = ph[r].start + 1 + y /\ indices[q] = <<r, y>>
  BY DEF Through, SlotOwnership
<1>3. ph[r].start \in Nat /\ ph[r].start < START
  BY <1>2 DEF Through, AddressInv, StartsInTable, TypeOK
<1> QED
  BY <1>1, <1>2, <1>3

\* After the packing each state that is looked for in the index table has its start
\* and all its slots.
LEMMA StatePlaced ==
    ASSUME Through, NEW s \in States(t), ~IsSimple(ph[s])
    PROVE  /\ ph[s].start \in Nat /\ ph[s].start < START
           /\ ph[s].start \in DOMAIN indices /\ indices[ph[s].start] = <<s, NO_SYMBOL_NUMBER>>
           /\ \A x \in Slots(s) : /\ ph[s].start + 1 + x \in DOMAIN indices
                                  /\ indices[ph[s].start + 1 + x] = <<s, x>>
<1>1. s \in DOMAIN ph /\ Placed(s)
  BY DEF Through, TypeOK, Placed
<1>2. ph[s].start \in Nat /\ ph[s].start < START
  BY <1>1 DEF Through, AddressInv, StartsInTable, TypeOK
<1> QED
  BY <1>1, <1>2 DEF Through, SlotOwnership

\* The size of the index table.
LEMMA IndexTable ==
    ASSUME Through
    PROVE  \E m \in Nat :
             /\ DOMAIN windex = 0 .. m + seen /\ DOMAIN indices \subseteq 0 .. m
             /\ \A q \in 0 .. m + seen : windex[q] = IndexEntry(q)
<1>0. NO_SYMBOL_NUMBER \in Nat /\ START \in Nat /\ DOMAIN indices \in SUBSET Nat
  BY NumbersAssumption DEF Through, TypeOK
<1>1. \A q \in DOMAIN indices : q <= START + NO_SYMBOL_NUMBER
  <2> SUFFICES ASSUME NEW q \in DOMAIN indices PROVE q <= START + NO_SYMBOL_NUMBER
    OBVIOUS
  <2>1. PICK r \in States(t) :
          /\ ph[r].start \in Nat /\ ph[r].start < START
          /\ q = ph[r].start \/ \E y \in Slots(r) : q = ph[r].start + 1 + y
    BY OwnedPositions
  <2>2. \A y \in Slots(r) : y \in 0 .. NO_SYMBOL_NUMBER - 1
    BY SlotsBelow
  <2> DEFINE a == ph[r].start
  <2>3. a \in Nat /\ a < START /\ (q = a \/ \E y \in Slots(r) : q = a + 1 + y)
    BY <2>1
  <2> HIDE DEF a
  <2> QED
    BY <1>0, <2>2, <2>3
<1>2. DOMAIN indices # {}
  <2>1. 0 \in States(t) /\ 0 \in DOMAIN ph
    BY DEF Through, TypeOK, IsTransducer, States
  <2>2. ~IsSimple(ph[0])
    BY <2>1 DEF Through, AddressInv, FirstsIncrease, IsSimple
  <2> QED
    BY <2>1, <2>2, StatePlaced
<1> DEFINE m == Max(DOMAIN indices)
<1>3. m \in DOMAIN indices /\ \A q \in DOMAIN indices : q <= m
  <2>1. START + NO_SYMBOL_NUMBER \in Nat
    BY <1>0
  <2> QED
    BY <1>0, <1>1, <1>2, <2>1, GreatestIs
<1>4. windex = [q \in 0 .. m + seen |-> IndexEntry(q)]
  BY DEF Through, Indexed, Padding
<1> HIDE DEF m
<1>5. m \in Nat /\ DOMAIN indices \subseteq 0 .. m
  BY <1>0, <1>3
<1> QED
  BY <1>4, <1>5

\* What is stored at the position of an input of a state.
Targets(p, x) == p.first + SymbolOffset(p, x) + START

\* The entry of a slot holds its input and where its arcs begin.
LEMMA EntryIs ==
    ASSUME Through, NEW q \in DOMAIN indices, NEW r \in States(t), NEW y \in Slots(r),
           indices[q] = <<r, y>>
    PROVE  IndexEntry(q).in = y /\ IndexEntry(q).to = Targets(ph[r], y)
<1>1. y # NO_SYMBOL_NUMBER
  BY SlotsBelow, NumbersBelow
<1>2. indices[q][1] = r /\ indices[q][2] = y
  OBVIOUS
<1>3. IndexEntry(q) = [in |-> y, to |-> Targets(ph[r], y)]
  BY <1>1, <1>2 DEF IndexEntry, Targets
<1> HIDE DEF Targets
<1> QED
  BY <1>3

\* An entry that is no slot's holds the input of no arc.
LEMMA MarkersStopLookup ==
    ASSUME Through, NEW q,
           q \notin DOMAIN indices \/ \E r : indices[q] = <<r, NO_SYMBOL_NUMBER>>
    PROVE  IndexEntry(q).in = NO_SYMBOL_NUMBER
<1>1. CASE q \notin DOMAIN indices
  BY <1>1 DEF IndexEntry
<1>2. CASE q \in DOMAIN indices
  <2>1. PICK r : indices[q] = <<r, NO_SYMBOL_NUMBER>>
    BY <1>2
  <2>2. indices[q][2] = NO_SYMBOL_NUMBER
    BY <2>1
  <2> QED
    BY <1>2, <2>2 DEF IndexEntry
<1> QED
  BY <1>1, <1>2

\* A reader tells the slots of s from those of the states packed around it, wherever
\* in the table it looks.
LEMMA SlotIs ==
    ASSUME Through, NEW s \in States(t), ~IsSimple(ph[s]),
           NEW x \in 0 .. NO_SYMBOL_NUMBER - 1, ph[s].start + 1 + x \in DOMAIN windex
    PROVE  /\ HasIndex(ph[s].start, x) <=> x \in Slots(s)
           /\ x \in Slots(s) => windex[ph[s].start + 1 + x].to = Targets(ph[s], x)
<1> DEFINE a == ph[s].start
           q == a + 1 + x
<1>0. NO_SYMBOL_NUMBER \in Nat /\ x \in Nat /\ x # NO_SYMBOL_NUMBER
  BY NumbersBelow
<1>1. PICK m \in Nat :
        /\ DOMAIN windex = 0 .. m + seen /\ DOMAIN indices \subseteq 0 .. m
        /\ \A i \in 0 .. m + seen : windex[i] = IndexEntry(i)
  BY IndexTable
<1>2. /\ a \in Nat /\ a \in DOMAIN indices /\ indices[a] = <<s, NO_SYMBOL_NUMBER>>
      /\ \A y \in Slots(s) : a + 1 + y \in DOMAIN indices /\ indices[a + 1 + y] = <<s, y>>
  BY StatePlaced
<1>3. HasIndex(ph[s].start, x) <=> windex[q].in = x
  BY DEF HasIndex
<1>4. q \in 0 .. m + seen
  BY <1>1
<1> HIDE DEF a
<1> HIDE DEF q
<1>5. ASSUME x \in Slots(s) PROVE windex[q].in = x /\ windex[q].to = Targets(ph[s], x)
  <2>1. q \in DOMAIN indices /\ indices[q] = <<s, x>>
    BY <1>2, <1>5 DEF q
  <2>2. IndexEntry(q).in = x /\ IndexEntry(q).to = Targets(ph[s], x)
    BY <1>5, <2>1, EntryIs
  <2> QED
    BY <1>1, <1>4, <2>2
<1>6. ASSUME windex[q].in = x PROVE x \in Slots(s)
  <2>1. IndexEntry(q).in = x
    BY <1>1, <1>4, <1>6
  <2>2. q \in DOMAIN indices /\ ~\E r : indices[q] = <<r, NO_SYMBOL_NUMBER>>
    BY <1>0, <2>1, MarkersStopLookup
  <2>10. PICK r \in States(t) :
          /\ Placed(r) /\ ph[r].start \in Nat
          /\ \E y \in Slots(r) : q = ph[r].start + 1 + y /\ indices[q] = <<r, y>>
    BY <2>2, OwnedPositions
  <2>3. PICK y \in Slots(r) : q = ph[r].start + 1 + y /\ indices[q] = <<r, y>>
    BY <2>10
  <2>4. IndexEntry(q).in = y
    BY <2>2, <2>3, EntryIs
  <2>5. x = y
    BY <2>1, <2>4
  <2> DEFINE c == ph[r].start
  <2>6. c \in Nat /\ q = c + 1 + x
    BY <2>3, <2>5, <2>10
  <2>7. c = a
    <3> HIDE DEF c
    <3> QED
      BY <1>0, <1>2, <2>6 DEF q
  <2>8. indices[c] = <<r, NO_SYMBOL_NUMBER>>
    <3>1. ~IsSimple(ph[r])
      BY <2>10 DEF Placed
    <3> QED
      BY <3>1, StatePlaced
  <2>9. r = s
    BY <1>2, <2>7, <2>8
  <2> QED
    BY <2>3, <2>5, <2>9
<1> QED
  BY <1>3, <1>5, <1>6 DEF q, a

\* The padding is long enough for every input.
LEMMA HasIndexIs ==
    ASSUME Through, NEW s \in States(t), ~IsSimple(ph[s]), NEW x \in 0 .. seen - 1
    PROVE  /\ ph[s].start + 1 + x \in DOMAIN windex
           /\ HasIndex(ph[s].start, x) <=> x \in Slots(s)
           /\ x \in Slots(s) => windex[ph[s].start + 1 + x].to = Targets(ph[s], x)
<1> DEFINE a == ph[s].start
<1>1. /\ NO_SYMBOL_NUMBER \in Nat /\ seen \in Nat /\ seen <= NO_SYMBOL_NUMBER
      /\ x \in Nat /\ x < seen
  BY NumbersBelow
<1>2. PICK m \in Nat : DOMAIN windex = 0 .. m + seen /\ DOMAIN indices \subseteq 0 .. m
  BY IndexTable
<1>3. a \in Nat /\ a \in DOMAIN indices
  BY StatePlaced
<1> HIDE DEF a
<1>4. a + 1 + x \in 0 .. m + seen
  <2>1. a <= m
    BY <1>2, <1>3
  <2> QED
    BY <1>1, <1>2, <1>3, <2>1
<1>5. ph[s].start + 1 + x \in DOMAIN windex /\ x \in 0 .. NO_SYMBOL_NUMBER - 1
  BY <1>1, <1>2, <1>4 DEF a
<1> QED
  BY <1>5, SlotIs


-----------------------------------------------------------------------------
(* The readers find the graph in the tables *)

\* The arcs expected of a state are those its placeholder has.
LEMMA ExpectedIs ==
    ASSUME Through, NEW s \in States(t), NEW x \in Nat
    PROVE  Expected(s, x) = IF x \in DOMAIN ph[s].by THEN WrittenIn(ph, x, ph[s].by[x]) ELSE << >>
<1> DEFINE own == OwnIn(t, num, s, x, Len(t.arcs[s]))
           by == ph[s].by
<1>1. GatheredAt(t, num, flags, s, ph[s], Len(t.arcs[s]))
  BY StateFactsHold DEF Through, StateFacts
<1>2. /\ x \in DOMAIN by => by[x] = Conv(num, x, own)
      /\ x \notin DOMAIN by => own = << >>
  BY <1>1 DEF GatheredAt
<1>3. Expected(s, x) = [i \in DOMAIN own |->
            [in |-> x, out |-> NumberIn(num, own[i].out), to |-> AddressIn(ph, own[i].to)]]
  BY OwnIs, NumberIs, AddressIs DEF Expected
<1> HIDE DEF own, by
<1>4. CASE x \in DOMAIN by
  <2>1. by[x] = [i \in DOMAIN own |->
                   [in |-> x, out |-> NumberIn(num, own[i].out), to |-> own[i].to]]
    BY <1>2, <1>4 DEF Conv
  <2>2. WrittenIn(ph, x, by[x]) = [i \in DOMAIN by[x] |->
          [in |-> x, out |-> by[x][i].out, to |-> AddressIn(ph, by[x][i].to)]]
    BY DEF WrittenIn
  <2>3. DOMAIN by[x] = DOMAIN own
    BY <2>1
  <2>4. \A i \in DOMAIN own : by[x][i].out = NumberIn(num, own[i].out) /\ by[x][i].to = own[i].to
    BY <2>1
  <2>5. \A i \in DOMAIN own :
          [in |-> x, out |-> by[x][i].out, to |-> AddressIn(ph, by[x][i].to)]
            = [in |-> x, out |-> NumberIn(num, own[i].out), to |-> AddressIn(ph, own[i].to)]
    BY <2>4
  <2>6. WrittenIn(ph, x, by[x]) = Expected(s, x)
    BY <1>3, <2>2, <2>3, <2>5
  <2> QED
    BY <1>4, <2>6 DEF by
<1>5. CASE x \notin DOMAIN by
  BY <1>2, <1>3, <1>5 DEF by
<1> QED
  BY <1>4, <1>5

\* Where a reader starts at the address of s.
LEMMA AddressOf ==
    ASSUME Through, NEW s \in States(t), NEW p, NEW f, NEW zq, NEW oq, NEW Z, NEW O,
           Parts(s, p, f, zq, oq, Z, O), NEW x, NEW X
    PROVE  /\ IsSimple(p) => ReadArcs(Address(s), x, X) = Run(f, X)
           /\ ~IsSimple(p) => ReadArcs(Address(s), x, X) =
                IF HasIndex(ph[s].start, x) THEN Run(windex[ph[s].start + 1 + x].to - START, X)
                ELSE << >>
<1>0. START \in Nat \ {0} /\ f \in Nat /\ p = ph[s] /\ f = ph[s].first /\ (s # 0 => f # 0)
  BY NumbersAssumption DEF Parts
<1>1. CASE IsSimple(p)
  <2>1. s # 0
    <3>1. s \in DOMAIN ph
      BY DEF Through, TypeOK
    <3> QED
      BY <1>0, <1>1, <3>1 DEF Through, AddressInv, FirstsIncrease, IsSimple
  <2>2. Address(s) = f + START - 1
    BY <1>0, <1>1 DEF Address
  <2>3. f + START - 1 >= START /\ (f + START - 1) - START + 1 = f
    BY <1>0, <2>1
  <2>4. ReadArcs(Address(s), x, X) = Run((f + START - 1) - START + 1, X)
    BY <2>2, <2>3 DEF ReadArcs
  <2> QED
    BY <1>1, <2>3, <2>4
<1>2. CASE ~IsSimple(p)
  <2>1. ph[s].start \in Nat /\ ph[s].start < START
    BY <1>0, <1>2, StatePlaced
  <2>2. Address(s) = ph[s].start
    BY <1>0, <1>2 DEF Address
  <2>3. ~(Address(s) >= START)
    BY <1>0, <2>1, <2>2
  <2> QED
    BY <1>2, <2>2, <2>3 DEF ReadArcs
<1> QED
  BY <1>1, <1>2

\* An input that is neither epsilon nor a flag.
LEMMA ReadsInput ==
    ASSUME Through, NEW s \in States(t), NEW x \in 1 .. seen - 1, x \notin flags
    PROVE  ReadArcs(Address(s), x, {x}) = Expected(s, x)
<1>1. PICK p, f, zq, oq, Z, O : Parts(s, p, f, zq, oq, Z, O)
  BY PartsHold
<1>2. /\ p = ph[s] /\ f = p.first /\ f \in Nat /\ Len(zq) \in Nat
      /\ Z = ZeroOf(flags, p) /\ O = OtherOf(flags, p) /\ zq = ZeroArcs(ph, flags, p)
  BY <1>1 DEF Parts
<1>3. x \in Nat /\ x # 0 /\ x \in 0 .. seen - 1 /\ x \in 0 .. NO_SYMBOL_NUMBER - 1
  BY NumbersBelow
<1>4. Expected(s, x) = IF x \in DOMAIN p.by THEN WrittenIn(ph, x, p.by[x]) ELSE << >>
  BY <1>2, <1>3, ExpectedIs
<1>5. x \in O <=> x \in DOMAIN p.by
  BY <1>2, <1>3 DEF OtherOf, ZeroOf, ZeroIn
<1>6. x \in O => Run(Block(f, zq, O, p, x), {x}) = WrittenIn(ph, x, p.by[x])
  BY <1>1, BlockReads
<1>7. StateFacts(s)
  BY StateFactsHold DEF Through
<1>8. CASE IsSimple(p)
  <2>1. ReadArcs(Address(s), x, {x}) = Run(f, {x})
    BY <1>1, <1>8, AddressOf
  <2>2. CASE x \in DOMAIN p.by
    <3>1. /\ p.type \in {"empty", "simple_zero_index", "simple_nonzero_index", "nonsimple"}
      BY <1>2, <1>7 DEF StateFacts, Through, TypeOK
    <3>2. /\ p.type = "empty" => DOMAIN p.by = {}
          /\ p.type = "simple_zero_index" => \A y \in DOMAIN p.by : ZeroIn(flags, y)
          /\ p.type = "simple_nonzero_index" => \E y : DOMAIN p.by = {y} /\ ~ZeroIn(flags, y)
      BY <1>2, <1>7 DEF StateFacts, GatheredAt
    <3>3. ~ZeroIn(flags, x)
      BY <1>3 DEF ZeroIn
    <3>4. DOMAIN p.by = {x}
      BY <1>8, <2>2, <3>1, <3>2, <3>3 DEF IsSimple
    <3>5. Z = {} /\ O = {x}
      BY <1>2, <3>3, <3>4 DEF ZeroOf, OtherOf
    <3>6. ArcsWith(p, {}) = {}
      BY DEF ArcsWith
    <3>7. Len(zq) = 0
      <4>1. Len(zq) = Cardinality(ArcsWith(p, Z))
        BY <1>2, <1>7 DEF StateFacts, Grouped
      <4> QED
        BY <3>5, <3>6, <4>1, FS_EmptySet
    <3>8. Place(p, O, x) = 0
      <4>1. Upto(O, x) = {}
        BY <1>3, <3>5 DEF Upto
      <4> QED
        BY <3>6, <4>1, FS_EmptySet DEF Place
    <3>9. Block(f, zq, O, p, x) = f
      BY <1>2, <3>7, <3>8 DEF Block
    <3> QED
      BY <1>4, <1>5, <1>6, <2>1, <2>2, <3>9
  <2>3. CASE x \notin DOMAIN p.by
    <3>1. Run(f, {x}) = << >>
      BY <1>1, <1>3, <2>3, OtherReadsNone
    <3> QED
      BY <1>4, <2>1, <2>3, <3>1
  <2> QED
    BY <2>2, <2>3
<1>9. CASE ~IsSimple(p)
  <2>1. ReadArcs(Address(s), x, {x}) =
          IF HasIndex(ph[s].start, x) THEN Run(windex[ph[s].start + 1 + x].to - START, {x}) ELSE << >>
    BY <1>1, <1>9, AddressOf
  <2>2. /\ HasIndex(ph[s].start, x) <=> x \in Slots(s)
        /\ x \in Slots(s) => windex[ph[s].start + 1 + x].to = Targets(ph[s], x)
    BY <1>2, <1>3, <1>9, HasIndexIs
  <2>3. x \in Slots(s) <=> x \in DOMAIN p.by
    BY <1>2, <1>3 DEF Slots, Slot
  <2>4. CASE x \in DOMAIN p.by
    <3>1. f + SymbolOffset(p, x) = Block(f, zq, O, p, x) /\ SymbolOffset(p, x) \in Nat
      BY <1>1, <1>5, <2>4, OffsetIs
    <3> DEFINE b == Block(f, zq, O, p, x)
               o == SymbolOffset(p, x)
    <3>2. windex[ph[s].start + 1 + x].to = f + o + START
      BY <1>2, <2>2, <2>3, <2>4 DEF Targets
    <3>3. (f + o + START) - START = b
      <4>1. f + o = b /\ o \in Nat
        BY <3>1
      <4> HIDE DEF o, b
      <4> QED
        BY <1>2, <4>1, NumbersAssumption
    <3> HIDE DEF b, o
    <3> DEFINE w == windex[ph[s].start + 1 + x].to
    <3>7. w = f + o + START
      BY <3>2
    <3> HIDE DEF w
    <3>4. w - START = b
      BY <3>3, <3>7
    <3>5. ReadArcs(Address(s), x, {x}) = Run(b, {x})
      BY <2>1, <2>2, <2>3, <2>4, <3>4 DEF w
    <3>6. Run(b, {x}) = WrittenIn(ph, x, p.by[x])
      BY <1>5, <1>6, <2>4 DEF b
    <3> QED
      BY <1>4, <2>4, <3>5, <3>6
  <2>5. CASE x \notin DOMAIN p.by
    BY <1>4, <2>1, <2>2, <2>3, <2>5
  <2> QED
    BY <2>4, <2>5
<1> QED
  BY <1>8, <1>9

\* Epsilon and the flags.
LEMMA ReadsZero ==
    ASSUME Through, NEW s \in States(t)
    PROVE  ReadArcs(Address(s), 0, flags \cup {0}) =
             FlattenSeq([i \in 1 .. NO_SYMBOL_NUMBER + 1 |->
                           IF ZeroIndexed(i - 1) THEN Expected(s, i - 1) ELSE << >>])
<1> DEFINE X == flags \cup {0}
           all == [i \in 1 .. NO_SYMBOL_NUMBER + 1 |->
                     IF ZeroIndexed(i - 1) THEN Expected(s, i - 1) ELSE << >>]
<1>1. PICK p, f, zq, oq, Z, O : Parts(s, p, f, zq, oq, Z, O)
  BY PartsHold
<1>2. /\ p = ph[s] /\ f = p.first /\ f \in Nat /\ Len(zq) \in Nat
      /\ Z = ZeroOf(flags, p) /\ zq = ZeroArcs(ph, flags, p) /\ zq \in Seq(Entries)
  BY <1>1 DEF Parts
<1>3. Run(f, X) = zq
  BY <1>1, ZeroReads
<1>4. FlattenSeq(all) = zq
  <2> DEFINE q == Pieces(ph, p, Z, NO_SYMBOL_NUMBER + 1)
  <2>1. ASSUME NEW i \in 1 .. NO_SYMBOL_NUMBER + 1 PROVE all[i] = q[i]
    <3>1. i - 1 \in Nat
      BY NumbersBelow
    <3>2. q[i] = IF i - 1 \in Z THEN WrittenIn(ph, i - 1, p.by[i - 1]) ELSE << >>
      BY DEF Pieces
    <3>3. Expected(s, i - 1) =
            IF i - 1 \in DOMAIN p.by THEN WrittenIn(ph, i - 1, p.by[i - 1]) ELSE << >>
      BY <1>2, <3>1, ExpectedIs
    <3>4. i - 1 \in Z <=> i - 1 \in DOMAIN p.by /\ ZeroIndexed(i - 1)
      BY <1>2 DEF ZeroOf, ZeroIn, ZeroIndexed
    <3>5. all[i] = IF ZeroIndexed(i - 1) THEN Expected(s, i - 1) ELSE << >>
      OBVIOUS
    <3> HIDE DEF all, q
    <3> QED
      BY <3>2, <3>3, <3>4, <3>5
  <2>2. all = [i \in 1 .. NO_SYMBOL_NUMBER + 1 |-> all[i]]
    OBVIOUS
  <2>3. q = [i \in 1 .. NO_SYMBOL_NUMBER + 1 |-> q[i]]
    BY DEF Pieces
  <2> HIDE DEF all, q
  <2>4. all = q
    BY <2>1, <2>2, <2>3
  <2>5. zq = FlattenSeq(q)
    BY <1>2 DEF ZeroArcs, WrittenWithIn, q
  <2> QED
    BY <2>4, <2>5
<1>5. CASE IsSimple(p)
  <2>1. ReadArcs(Address(s), 0, X) = Run(f, X)
    BY <1>1, <1>5, AddressOf
  <2> QED
    BY <1>3, <1>4, <2>1
<1>6. CASE ~IsSimple(p)
  <2>1. ReadArcs(Address(s), 0, X) =
          IF HasIndex(ph[s].start, 0) THEN Run(windex[ph[s].start + 1 + 0].to - START, X) ELSE << >>
    BY <1>1, <1>6, AddressOf
  <2>2. /\ HasIndex(ph[s].start, 0) <=> 0 \in Slots(s)
        /\ 0 \in Slots(s) => windex[ph[s].start + 1 + 0].to = Targets(ph[s], 0)
    <3>1. 0 \in 0 .. seen - 1
      BY NumbersBelow
    <3> QED
      BY <1>2, <1>6, <3>1, HasIndexIs
  <2>3. 0 \in Slots(s) <=> Z # {}
    BY <1>2 DEF Slots, Slot, ZeroOf, ZeroIn
  <2>4. CASE Z # {}
    <3>1. SymbolOffset(p, 0) = 0
      BY DEF SymbolOffset
    <3>2. windex[ph[s].start + 1 + 0].to = f + 0 + START
      BY <1>2, <2>2, <2>3, <2>4, <3>1 DEF Targets
    <3>3. windex[ph[s].start + 1 + 0].to - START = f
      BY <1>2, <3>2, NumbersAssumption
    <3>4. ReadArcs(Address(s), 0, X) = Run(f, X)
      BY <2>1, <2>2, <2>3, <2>4, <3>3
    <3> QED
      BY <1>3, <1>4, <3>4
  <2>5. CASE Z = {}
    <3>1. StateFacts(s)
      BY StateFactsHold DEF Through
    <3>2. Len(zq) = Cardinality(ArcsWith(p, Z))
      BY <1>2, <3>1 DEF StateFacts, Grouped
    <3>3. ArcsWith(p, Z) = {}
      BY <2>5 DEF ArcsWith
    <3>4. Len(zq) = 0
      BY <3>2, <3>3, FS_EmptySet
    <3>5. zq = << >>
      BY <1>2, <3>4
    <3>6. ReadArcs(Address(s), 0, X) = << >>
      BY <2>1, <2>2, <2>3, <2>5
    <3> QED
      BY <1>4, <3>5, <3>6
  <2> QED
    BY <2>4, <2>5
<1> QED
  BY <1>5, <1>6

\* Nothing a reader does takes it out of the tables.
LEMMA InBounds == ASSUME Through PROVE ReadsInBounds
<1>1. ASSUME NEW s \in States(t), ~IsSimple(ph[s]), NEW x \in 0 .. seen - 1
      PROVE  ph[s].start + 1 + x \in DOMAIN windex
  BY <1>1, HasIndexIs
<1>2. ASSUME NEW q \in DOMAIN windex, windex[q].in # NO_SYMBOL_NUMBER
      PROVE  windex[q].to - START \in 0 .. Len(wtrans) - 2
  <2>1. windex[q] = IndexEntry(q)
    BY <1>2, IndexTable
  <2>2. q \in DOMAIN indices /\ ~\E r : indices[q] = <<r, NO_SYMBOL_NUMBER>>
    BY <1>2, <2>1, MarkersStopLookup
  <2>3. PICK s \in States(t) : \E y \in Slots(s) : indices[q] = <<s, y>>
    BY <2>2, OwnedPositions
  <2>4. PICK y \in Slots(s) : indices[q] = <<s, y>>
    BY <2>3
  <2>5. windex[q].to = Targets(ph[s], y)
    BY <2>1, <2>2, <2>4, EntryIs
  <2>6. PICK p, f, zq, oq, Z, O : Parts(s, p, f, zq, oq, Z, O)
    BY PartsHold
  <2>7. /\ p = ph[s] /\ f = p.first /\ f \in Nat /\ Len(zq) \in Nat /\ Len(oq) \in Nat
        /\ Z = ZeroOf(flags, p) /\ O = OtherOf(flags, p) /\ zq = ZeroArcs(ph, flags, p)
        /\ Len(wtrans) \in Nat /\ f + Len(zq) + Len(oq) + 1 <= Len(wtrans)
    BY <2>6 DEF Parts
  <2> DEFINE o == SymbolOffset(p, y)
  <2>8. o \in Nat /\ f + o + 2 <= Len(wtrans)
    <3>1. CASE y = 0
      <4>1. Z # {}
        BY <2>4, <2>7, <3>1 DEF Slots, Slot, ZeroOf, ZeroIn
      <4>2. PICK x \in Z : TRUE
        BY <4>1
      <4>3. StateFacts(s)
        BY StateFactsHold DEF Through
      <4>4. x \in DOMAIN p.by
        BY <2>7 DEF ZeroOf
      <4>5. Listed(ph, p, Z, NO_SYMBOL_NUMBER + 1, zq) /\ IsBy(t, p.by)
        BY <2>7, <4>3 DEF StateFacts, Grouped
      <4>6. x \in Nat /\ x < NO_SYMBOL_NUMBER + 1
        BY <4>4, <4>5, NumbersAssumption DEF IsBy
      <4>7. 1 \in 1 .. Len(p.by[x])
        BY <2>7, <4>3, <4>4, ArcsOfInput
      <4>8. Place(p, Z, x) + 1 \in 1 .. Len(zq)
        BY <4>5, <4>6, <4>7 DEF Listed
      <4>9. Len(zq) # 0
        BY <2>7, <4>8
      <4>10. o = 0
        BY <3>1 DEF SymbolOffset
      <4> QED
        BY <2>7, <4>9, <4>10
    <3>2. CASE y # 0
      <4>1. y \in O
        BY <2>4, <2>7, <3>2 DEF Slots, Slot, OtherOf, ZeroOf, ZeroIn
      <4>2. f + o = Block(f, zq, O, p, y) /\ o \in Nat
        BY <2>6, <4>1, OffsetIs
      <4>3. Block(f, zq, O, p, y) + 2 <= Len(wtrans)
        BY <2>6, <4>1, BlockReads
      <4> HIDE DEF o
      <4> QED
        BY <4>2, <4>3
    <3> QED
      BY <3>1, <3>2
  <2>9. windex[q].to = f + o + START
    BY <2>5, <2>7 DEF Targets
  <2> HIDE DEF o
  <2>10. (f + o + START) - START \in 0 .. Len(wtrans) - 2
    <3> DEFINE n == Len(wtrans)
    <3>1. START \in Nat /\ n \in Nat /\ f \in Nat /\ o \in Nat /\ f + o + 2 <= n
      BY <2>7, <2>8, NumbersAssumption
    <3> HIDE DEF n
    <3>2. (f + o + START) - START = f + o /\ f + o \in 0 .. n - 2
      BY <3>1
    <3> QED
      BY <3>2 DEF n
  <2> QED
    BY <2>9, <2>10
<1>3. wtrans[Len(wtrans)].in = NO_SYMBOL_NUMBER
  <2>1. PICK table : LaidOut(t, ph, flags, table, t.n) /\ wtrans = Append(table, Marker(FALSE))
    BY DEF Through, Layout
  <2> DEFINE m == Marker(FALSE)
  <2>2. table \in Seq(Entries) /\ m \in Entries /\ wtrans = Append(table, m)
    BY <2>1, MarkerTyped DEF LaidOut
  <2>3. m.in = NO_SYMBOL_NUMBER
    BY DEF Marker
  <2> HIDE DEF m
  <2>4. Len(Append(table, m)) = Len(table) + 1 /\ Append(table, m)[Len(table) + 1] = m
    BY <2>2
  <2>5. wtrans[Len(wtrans)] = m
    BY <2>2, <2>4
  <2> QED
    BY <2>3, <2>5
<1> QED
  BY <1>1, <1>2, <1>3 DEF ReadsInBounds

-----------------------------------------------------------------------------
\* The invariant: together with the types, the owners of the index positions and the
\* addresses it says of the finished tables what a reader finds in them.
ReadInv == NumbersFit /\ Gathered /\ Follows /\ Indexed /\ Layout

\* The invariant holds initially.
LEMMA ReadInvInit == ASSUME Init PROVE ReadInv
<1>1. t.n \in Nat \ {0} /\ DOMAIN << >> = {}
  BY InitType DEF TypeOK, IsTransducer
<1>2. NumbersFit
  BY DEF Init, NumbersFit, StringsApart
<1>3. Gathered /\ Indexed /\ Layout
  BY <1>1 DEF Init, Gathered, Indexed, Layout
<1>4. Follows
  BY <1>1 DEF Init, Follows, FirstIn
<1> QED
  BY <1>2, <1>3, <1>4 DEF ReadInv

\* Every step preserves it.
LEMMA ReadInvHolds ==
    ASSUME TypeOK, TypeOK', ReadInv, [Next]_vars PROVE ReadInv'
<1>1. NumbersFit'
  BY NumbersFitHolds DEF ReadInv
<1>2. Gathered'
  BY GatheredHolds DEF ReadInv
<1>3. Follows'
  BY FollowsHolds DEF ReadInv
<1>4. Indexed'
  BY IndexedHolds DEF ReadInv
<1>5. Layout'
  BY LayoutHolds DEF ReadInv
<1> QED
  BY <1>1, <1>2, <1>3, <1>4, <1>5 DEF ReadInv

\* The three kinds of invariant together, for the theorems below.
LEMMA ReadInvAlways == Spec => []ReadInv /\ [](TypeOK /\ SlotOwnership /\ AddressInv)
<1>1. Init => AddressInv
  BY DEF Init, AddressInv, FirstsIncrease, StartsInTable
<1>2. TypeOK /\ TypeOK' /\ AddressInv /\ [Next]_vars => AddressInv'
  BY NextAddressInv
<1>3. Init => ReadInv
  BY ReadInvInit
<1>4. TypeOK /\ TypeOK' /\ ReadInv /\ [Next]_vars => ReadInv'
  BY ReadInvHolds
<1> QED
  BY <1>1, <1>2, <1>3, <1>4, TypeCorrect, OwnershipHolds, PTL DEF Spec

\* For every graph, every numbering and every outcome of the packing: a lookup that
\* follows the finished tables from a state's address finds exactly the arcs the graph
\* has from that state with the symbol asked for, in the order in which they were
\* added, and with epsilon those with flags as well (find_index, find_transitions and
\* the loops of try_epsilon_transitions over the tables that
\* hfst_basic_transducer_to_hfst_ol made).
THEOREM ReadsExactlyHolds == Spec => []ReadsExactly
<1>1. ASSUME TypeOK, SlotOwnership, AddressInv, ReadInv PROVE ReadsExactly
  <2>1. CASE pc = "done"
    <3>1. Through
      BY <1>1, <2>1 DEF ReadInv, Through
    <3> QED
      BY <3>1, ReadsInput, ReadsZero DEF ReadsExactly
  <2>2. CASE pc # "done"
    BY <2>2 DEF ReadsExactly
  <2> QED
    BY <2>1, <2>2
<1> QED
  BY <1>1, ReadInvAlways, PTL

\* For every graph and packing: whatever input symbol is asked for at whatever state,
\* the index position find_index looks at is in the index table, every run of
\* transitions it is sent to begins inside the transition table, and the entry at that
\* table's end stops every run (neither table is read with a check).
THEOREM ReadsInBoundsHolds == Spec => []ReadsInBounds
<1>1. ASSUME TypeOK, SlotOwnership, AddressInv, ReadInv PROVE ReadsInBounds
  <2>1. CASE pc = "done"
    BY <1>1, <2>1, InBounds DEF ReadInv, Through
  <2>2. CASE pc # "done"
    BY <2>2 DEF ReadsInBounds
  <2> QED
    BY <2>1, <2>2
<1> QED
  BY <1>1, ReadInvAlways, PTL

-----------------------------------------------------------------------------
(* Numbers in ascending order *)

\* There are n numbers from 1 to n.
LEMMA CountUpTo == ASSUME NEW n \in Nat PROVE IsFiniteSet(1 .. n) /\ Cardinality(1 .. n) = n
BY FS_Interval

\* How many elements of S are not above i.
Below(S, i) == Cardinality({j \in S : j <= i})

\* The rank of an element grows with it, and never exceeds the number of elements.
LEMMA BelowGrows ==
    ASSUME NEW S \in SUBSET Nat, IsFiniteSet(S), NEW i \in S
    PROVE  /\ Below(S, i) \in 1 .. Cardinality(S)
           /\ \A j \in S : i < j => Below(S, i) < Below(S, j)
<1> DEFINE T(j) == {k_1 \in S : k_1 <= j}
<1>1. \A j : IsFiniteSet(T(j)) /\ Cardinality(T(j)) \in Nat /\ Cardinality(T(j)) <= Cardinality(S)
  <2> SUFFICES ASSUME NEW j
               PROVE  IsFiniteSet(T(j)) /\ Cardinality(T(j)) \in Nat /\ Cardinality(T(j)) <= Cardinality(S)
    OBVIOUS
  <2>1. T(j) \in SUBSET S
    OBVIOUS
  <2> HIDE DEF T
  <2> QED
    BY <2>1, FS_Subset, FS_CardinalityType
<1>2. \A j : Below(S, j) = Cardinality(T(j))
  BY DEF Below
<1>3. i \in T(i)
  OBVIOUS
<1>4. ASSUME NEW j \in S, i < j PROVE T(i) \in SUBSET (T(j) \ {j}) /\ j \in T(j)
  <2>1. \A x \in S : x \in Nat
    OBVIOUS
  <2>2. \A x \in S : x <= i => x <= j /\ x # j
    BY <1>4, <2>1
  <2>3. j \in T(j)
    BY <2>1
  <2>4. \A x \in T(i) : x \in T(j) \ {j}
    BY <2>2
  <2> HIDE DEF T
  <2> QED
    BY <2>3, <2>4
<1> HIDE DEF T
<1>5. Cardinality(T(i)) # 0
  BY <1>1, <1>3, FS_EmptySet
<1>6. Cardinality(S) \in Nat
  BY FS_CardinalityType
<1>7. ASSUME NEW j \in S, i < j PROVE Below(S, i) < Below(S, j)
  <2>1. IsFiniteSet(T(j) \ {j}) /\ Cardinality(T(j) \ {j}) = Cardinality(T(j)) - 1
    BY <1>1, <1>4, <1>7, FS_RemoveElement
  <2>2. Cardinality(T(i)) <= Cardinality(T(j) \ {j})
    BY <1>4, <1>7, <2>1, FS_Subset
  <2> QED
    BY <1>1, <1>2, <2>1, <2>2
<1>8. Below(S, i) \in 1 .. Cardinality(S)
  BY <1>1, <1>2, <1>5, <1>6
<1> QED
  BY <1>7, <1>8

\* An enumeration of S without repetitions.
Enumerates(q, S) ==
    /\ q \in Seq(S) /\ DOMAIN q = 1 .. Len(q) /\ Len(q) \in Nat
    /\ \A i, j \in 1 .. Len(q) : q[i] = q[j] => i = j
    /\ \A x \in S : \E i \in 1 .. Len(q) : q[i] = x

\* Putting a finite set in order lists each of its elements once.
LEMMA InOrderIs ==
    ASSUME NEW S \in SUBSET Nat, IsFiniteSet(S)
    PROVE  Enumerates(InOrder(S), S)
<1> DEFINE c == Cardinality(S)
           At(n) == CHOOSE i \in S : Below(S, i) = n
           rank == [i \in S |-> Below(S, i)]
           q == InOrder(S)
<1>1. c \in Nat
  BY FS_CardinalityType
<1>2. \A i \in S : rank[i] \in 1 .. c
  BY BelowGrows
<1>3. \A i, j \in S : rank[i] = rank[j] => i = j
  <2> SUFFICES ASSUME NEW i \in S, NEW j \in S, i < j PROVE rank[i] # rank[j]
    OBVIOUS
  <2>1. Below(S, i) < Below(S, j) /\ Below(S, i) \in Nat /\ Below(S, j) \in Nat
    BY <1>1, BelowGrows
  <2> QED
    BY <2>1
<1> HIDE DEF c
<1>4. \A n \in 1 .. c : \E i \in S : rank[i] = n
  <2>1. rank \in [S -> 1 .. c]
    BY <1>2
  <2>2. rank \in Injection(S, 1 .. c)
    <3> HIDE DEF rank
    <3> QED
      BY <1>3, <2>1 DEF Injection, IsInjective
  <2>3. IsFiniteSet(1 .. c) /\ Cardinality(1 .. c) = c
    BY <1>1, FS_Interval
  <2> HIDE DEF rank
  <2>4. rank \in Surjection(S, 1 .. c)
    BY <2>2, <2>3, FS_Injection DEF c
  <2> QED
    BY <2>4 DEF Surjection
<1>5. \A n \in 1 .. c : At(n) \in S /\ Below(S, At(n)) = n
  <2> SUFFICES ASSUME NEW n \in 1 .. c PROVE At(n) \in S /\ Below(S, At(n)) = n
    OBVIOUS
  <2>1. PICK i \in S : Below(S, i) = n
    BY <1>4
  <2> QED
    BY <2>1
<1>6. q = [n \in 1 .. c |-> At(n)]
  BY DEF InOrder, Below, c
<1> HIDE DEF At, q, rank
<1>7. q \in Seq(S) /\ Len(q) = c /\ DOMAIN q = 1 .. c
  BY <1>1, <1>5, <1>6
<1>8. \A i, j \in 1 .. c : q[i] = q[j] => i = j
  <2> SUFFICES ASSUME NEW i \in 1 .. c, NEW j \in 1 .. c, q[i] = q[j] PROVE i = j
    OBVIOUS
  <2>1. Below(S, q[i]) = i /\ Below(S, q[j]) = j
    BY <1>5, <1>6
  <2> QED
    BY <2>1
<1>9. ASSUME NEW x \in S PROVE \E i \in 1 .. c : q[i] = x
  <2> DEFINE n == Below(S, x)
  <2>1. n \in 1 .. c /\ q[n] = At(n)
    BY <1>6, BelowGrows DEF c
  <2>2. At(n) \in S /\ Below(S, At(n)) = Below(S, x)
    BY <1>5, <2>1
  <2>3. At(n) = x
    BY <1>3, <2>2 DEF rank
  <2> QED
    BY <2>1, <2>3
<1>10. Enumerates(q, S)
  BY <1>1, <1>7, <1>8, <1>9 DEF Enumerates
<1> QED
  BY <1>10 DEF q

\* A stretch of numbers in order.
LEMMA InOrderInterval ==
    ASSUME NEW f \in Nat, NEW n \in Nat
    PROVE  InOrder(f .. f + n - 1) = [i \in 1 .. n |-> f + i - 1]
<1> DEFINE S == f .. f + n - 1
           At(m) == CHOOSE i \in S : Cardinality({j \in S : j <= i}) = m
<1>1. Cardinality(S) = n
  <2>1. f \in Int /\ f + n - 1 \in Int
    OBVIOUS
  <2>2. Cardinality(S) = IF f > f + n - 1 THEN 0 ELSE (f + n - 1) - f + 1
    BY <2>1, FS_Interval
  <2> QED
    BY <2>2
<1>2. \A i \in S : Cardinality({j \in S : j <= i}) = i - f + 1
  <2> SUFFICES ASSUME NEW i \in S PROVE Cardinality({j \in S : j <= i}) = i - f + 1
    OBVIOUS
  <2>1. {j \in S : j <= i} = f .. i
    OBVIOUS
  <2>2. f \in Int /\ i \in Int /\ i >= f
    OBVIOUS
  <2>3. Cardinality(f .. i) = IF f > i THEN 0 ELSE i - f + 1
    BY <2>2, FS_Interval
  <2>4. Cardinality(f .. i) = i - f + 1
    BY <2>2, <2>3
  <2> QED
    BY <2>1, <2>4, Zenon
<1>3. \A m \in 1 .. n : At(m) = f + m - 1
  <2> SUFFICES ASSUME NEW m \in 1 .. n PROVE At(m) = f + m - 1
    OBVIOUS
  <2>1. f + m - 1 \in S /\ (f + m - 1) - f + 1 = m
    OBVIOUS
  <2>2. \A i \in S : i - f + 1 = m <=> i = f + m - 1
    OBVIOUS
  <2>3. \A i \in S : Cardinality({j \in S : j <= i}) = m <=> i = f + m - 1
    <3> HIDE DEF S
    <3> QED
      BY <1>2, <2>2
  <2> HIDE DEF S
  <2> QED
    BY <2>1, <2>3
<1>4. InOrder(S) = [m \in 1 .. n |-> At(m)]
  BY <1>1 DEF InOrder
<1> HIDE DEF At, S
<1> QED
  BY <1>3, <1>4 DEF S

-----------------------------------------------------------------------------
(* The arcs of a state in the transition table *)

\* A block that an entry with another input follows is all that is read from its start.
LEMMA RunFromIs ==
    ASSUME wtrans \in Seq(Entries), NEW p \in Nat, NEW X, NEW b \in Seq(Entries), Stands(p, X, b)
    PROVE  RunFrom(p, X) = p .. p + Len(b) - 1
<1> DEFINE n == Len(b)
<1>1. /\ n \in Nat /\ Len(wtrans) \in Nat /\ p + n < Len(wtrans)
      /\ \A j \in 1 .. n : wtrans[p + j].in \in X
      /\ wtrans[p + n + 1].in \notin X
  BY DEF Stands
<1> HIDE DEF n
<1>2. ASSUME NEW q \in p .. p + n - 1
      PROVE  q \in p .. Len(wtrans) - 1 /\ \A r \in p .. q : wtrans[r + 1].in \in X
  <2>1. q \in p .. Len(wtrans) - 1
    BY <1>1
  <2> SUFFICES ASSUME NEW r \in p .. q PROVE wtrans[r + 1].in \in X
    BY <2>1
  <2>2. r + 1 - p \in 1 .. n /\ p + (r + 1 - p) = r + 1
    BY <1>1
  <2>3. wtrans[p + (r + 1 - p)].in \in X
    BY <1>1, <2>2
  <2> QED
    BY <2>2, <2>3
<1>3. ASSUME NEW q \in p .. Len(wtrans) - 1, \A r \in p .. q : wtrans[r + 1].in \in X
      PROVE  q \in p .. p + n - 1
  <2> SUFFICES ASSUME q >= p + n PROVE FALSE
    BY <1>1
  <2>1. p + n \in p .. q
    BY <1>1
  <2> QED
    BY <1>1, <1>3, <2>1
<1> QED
  BY <1>2, <1>3 DEF RunFrom, n

\* All inputs a reader can be sent to: those of arcs.
Readable == Nat \ {NO_SYMBOL_NUMBER}

\* The part of s is all that is read from its start.
LEMMA PartRead ==
    ASSUME Through, NEW s \in States(t)
    PROVE  RunFrom(ph[s].first, Readable) = ph[s].first .. ph[s].first + Len(t.arcs[s]) - 1
<1> DEFINE f == ph[s].first
           n == Len(t.arcs[s])
           q == StateArcsIn(ph, flags, ph[s])
<1>1. PICK p, g, zq, oq, Z, O : Parts(s, p, g, zq, oq, Z, O)
  BY PartsHold
<1>2. StateFacts(s) /\ Part(s)
  BY PartHolds, StateFactsHold DEF Through
<1>3. /\ q \in Seq(Entries) /\ Len(q) = n /\ n \in Nat /\ f \in Nat
      /\ wtrans \in Seq(Entries) /\ f + n + 1 <= Len(wtrans)
      /\ wtrans[f + n + 1].in = NO_SYMBOL_NUMBER
      /\ \A j \in 1 .. n : wtrans[f + j] = q[j]
  BY <1>2 DEF StateFacts, Grouped, Part
<1>4. /\ zq \in Seq(Entries) /\ oq \in Seq(Entries) /\ q = zq \o oq
      /\ Len(zq) \in Nat /\ Len(oq) \in Nat
      /\ \A j \in 1 .. Len(zq) : zq[j].in \in DOMAIN ph[s].by
      /\ \A j \in 1 .. Len(oq) : oq[j].in \in DOMAIN ph[s].by
  <2>1. /\ p = ph[s] /\ Z = ZeroOf(flags, p) /\ O = OtherOf(flags, p)
        /\ zq = ZeroArcs(ph, flags, p) /\ oq = OtherArcs(ph, flags, p)
    BY <1>1, Zenon DEF Parts
  <2>2. /\ zq \in Seq(Entries) /\ oq \in Seq(Entries)
        /\ Len(zq) \in Nat /\ Len(oq) \in Nat
        /\ \A j \in 1 .. Len(zq) : zq[j].in \in Z
        /\ \A j \in 1 .. Len(oq) : oq[j].in \in O
    BY <1>1, Zenon DEF Parts
  <2>3. q = zq \o oq
    BY <2>1, Zenon DEF StateArcsIn, ZeroArcs, OtherArcs
  <2>4. Z \subseteq DOMAIN ph[s].by /\ O \subseteq DOMAIN ph[s].by
    BY <2>1 DEF ZeroOf, OtherOf
  <2> HIDE DEF q
  <2> QED
    BY <2>2, <2>3, <2>4
<1>5. DOMAIN ph[s].by \subseteq 0 .. NO_SYMBOL_NUMBER - 1
  BY SlotsBelow
<1> HIDE DEF f, n, q
<1>6. \A j \in 1 .. n : q[j].in \in Readable
  <2> SUFFICES ASSUME NEW j \in 1 .. n PROVE q[j].in \in DOMAIN ph[s].by
    BY <1>5, NumbersBelow DEF Readable
  <2>1. Len(q) = Len(zq) + Len(oq)
    BY <1>4
  <2>2. CASE j \in 1 .. Len(zq)
    BY <1>4, <2>2
  <2>3. CASE j \notin 1 .. Len(zq)
    <3>1. j - Len(zq) \in 1 .. Len(oq)
      BY <1>3, <1>4, <2>1, <2>3
    <3>2. q[j] = oq[j - Len(zq)]
      BY <1>3, <1>4, <2>1, <2>3
    <3> QED
      BY <1>4, <3>1, <3>2
  <2> QED
    BY <2>2, <2>3
<1>7. NO_SYMBOL_NUMBER \notin Readable
  BY DEF Readable
<1>8. Stands(f, Readable, q)
  BY <1>3, <1>6, <1>7 DEF Stands
<1>9. RunFrom(f, Readable) = f .. f + Len(q) - 1
  BY <1>3, <1>8, RunFromIs
<1> QED
  BY <1>3, <1>9 DEF f, n

\* Every string in the table has a number of its own, which get_transitions_from_state
\* looks up; one that is not has that of epsilon.
NamesFit ==
    /\ EPSILON \in DOMAIN num /\ num[EPSILON] = 0
    /\ symbol_count \in Nat /\ symbol_count <= NO_SYMBOL_NUMBER
    /\ \A a \in DOMAIN num : num[a] \in Nat /\ num[a] < symbol_count
    /\ \A a, b \in DOMAIN num : num[a] = num[b] => a = b

\* The inputs of a state are among the symbols that are looked up.
LEMMA InputsNamed ==
    ASSUME Through, NamesFit, NEW s \in States(t)
    PROVE  DOMAIN ph[s].by \subseteq 0 .. symbol_count - 1
<1>1. DOMAIN ph[s].by = {NumberIn(num, t.arcs[s][i].in) : i \in 1 .. Len(t.arcs[s])}
  BY StateFactsHold DEF Through, StateFacts, GatheredAt
<1> SUFFICES ASSUME NEW i \in 1 .. Len(t.arcs[s])
             PROVE  NumberIn(num, t.arcs[s][i].in) \in 0 .. symbol_count - 1
  BY <1>1
<1> QED
  BY DEF NamesFit, NumberIn, EPSILON

\* The block of the arcs with epsilon and the flags.
LEMMA ZeroRange ==
    ASSUME Through, NEW s, NEW p, NEW f, NEW zq, NEW oq, NEW Z, NEW O,
           Parts(s, p, f, zq, oq, Z, O)
    PROVE  RunFrom(f, flags \cup {0}) = f .. f + Len(zq) - 1
<1>1. Stands(f, flags \cup {0}, zq)
  BY ZeroStands
<1>2. f \in Nat /\ zq \in Seq(Entries) /\ wtrans \in Seq(Entries)
  BY DEF Parts
<1> QED
  BY <1>1, <1>2, RunFromIs

\* In it the arcs with epsilon come first.
LEMMA EpsilonRange ==
    ASSUME Through, NEW s \in States(t), NEW p, NEW f, NEW zq, NEW oq, NEW Z, NEW O,
           Parts(s, p, f, zq, oq, Z, O)
    PROVE  RunFrom(f, {0}) = {q \in f .. f + Len(zq) - 1 : wtrans[q + 1].in = 0}
<1>0. /\ f \in Nat /\ zq \in Seq(Entries) /\ Len(zq) \in Nat /\ p = ph[s] /\ Z \subseteq DOMAIN p.by
      /\ \A j \in 1 .. Len(zq) : wtrans[f + j] = zq[j]
  BY DEF Parts, ZeroOf
<1>1. RunFrom(f, flags \cup {0}) = f .. f + Len(zq) - 1
  BY ZeroRange
<1>2. ASSUME NEW q \in RunFrom(f, {0})
      PROVE  q \in f .. f + Len(zq) - 1 /\ wtrans[q + 1].in = 0
  <2>1. q \in f .. Len(wtrans) - 1 /\ \A r \in f .. q : wtrans[r + 1].in \in {0}
    BY <1>2 DEF RunFrom
  <2>2. q \in RunFrom(f, flags \cup {0})
    BY <2>1 DEF RunFrom
  <2>3. q \in f .. q
    BY <1>0, <1>1, <2>2
  <2> QED
    BY <1>1, <2>1, <2>2, <2>3
<1>3. ASSUME NEW q \in f .. f + Len(zq) - 1, wtrans[q + 1].in = 0 PROVE q \in RunFrom(f, {0})
  <2> DEFINE j == q - f + 1
  <2>1. j \in 1 .. Len(zq) /\ f + j = q + 1
    BY <1>0
  <2>2. zq[j].in = 0
    BY <1>0, <1>3, <2>1
  <2>3. StateFacts(s) /\ Addressed(t, ph)
    BY StateFactsHold, AddressedHolds DEF Through
  <2>4. IsBy(t, p.by) /\ Listed(ph, p, Z, NO_SYMBOL_NUMBER + 1, zq)
    BY <1>0, <2>3 DEF StateFacts, Grouped, Parts
  <2>5. InputsIn(Z, zq) /\ InBlocks(p, Z, zq)
    BY <1>0, <2>3, <2>4, ListedInputs
  <2>6. 0 \in Z
    BY <2>1, <2>2, <2>5 DEF InputsIn
  <2>7. Place(p, Z, 0) = 0
    <3>1. Upto(Z, 0) = {}
      BY <1>0, <2>4, NumbersBelow DEF Upto, IsBy
    <3>2. ArcsWith(p, {}) = {}
      BY DEF ArcsWith
    <3> QED
      BY <3>1, <3>2, FS_EmptySet DEF Place
  <2>8. p.by[0] \in Seq(Arcs(t)) /\ Len(p.by[0]) \in Nat
    BY <1>0, <2>4, <2>6 DEF IsBy
  <2>9. j \in 1 .. Len(p.by[0])
    <3>1. PICK i \in 1 .. Len(p.by[0]) : j = Place(p, Z, 0) + i
      BY <2>1, <2>2, <2>5 DEF InBlocks
    <3> QED
      BY <2>7, <2>8, <3>1
  <2> HIDE DEF j
  <2>10. ASSUME NEW r \in f .. q PROVE wtrans[r + 1].in = 0
    <3> DEFINE i == r - f + 1
    <3>1. i \in 1 .. Len(p.by[0]) /\ f + i = r + 1 /\ i \in 1 .. Len(zq) /\ 0 + i = i
      BY <1>0, <2>1, <2>8, <2>9
    <3> HIDE DEF i
    <3>2. zq[Place(p, Z, 0) + i] = WrittenIn(ph, 0, p.by[0])[i]
      BY <2>4, <2>6, <3>1, NumbersBelow DEF Listed
    <3>3. zq[i] = WrittenIn(ph, 0, p.by[0])[i]
      BY <2>7, <3>1, <3>2
    <3>4. WrittenIn(ph, 0, p.by[0])[i]
            = [in |-> 0, out |-> p.by[0][i].out, to |-> AddressIn(ph, p.by[0][i].to)]
      BY <2>3, <2>8, <3>1, WrittenHolds
    <3>5. wtrans[f + i] = zq[i]
      BY <1>0, <3>1
    <3> QED
      BY <3>1, <3>3, <3>4, <3>5
  <2>11. q \in RunFrom(f, flags \cup {0})
    BY <1>1
  <2> QED
    BY <2>10, <2>11 DEF RunFrom
<1> QED
  BY <1>2, <1>3

-----------------------------------------------------------------------------
(* What get_transitions_from_state finds *)

\* The parts of the block with epsilon and the flags that are found at a nonsimple state.
LEMMA ZeroFound ==
    ASSUME Through, NEW s \in States(t), ~IsSimple(ph[s]),
           NEW p, NEW f, NEW zq, NEW oq, NEW Z, NEW O, Parts(s, p, f, zq, oq, Z, O),
           IndexReads(ph[s].start) \subseteq DOMAIN windex
    PROVE  /\ FlagArcs(ph[s].start) = {q \in f .. f + Len(zq) - 1 : wtrans[q + 1].in \in flags}
           /\ 0 \notin flags => SymbolArcs(ph[s].start, 0)
                                  = {q \in f .. f + Len(zq) - 1 : wtrans[q + 1].in = 0}
<1> DEFINE a == ph[s].start
           R == f .. f + Len(zq) - 1
<1>1. /\ p = ph[s] /\ f = p.first /\ f \in Nat /\ zq \in Seq(Entries) /\ Len(zq) \in Nat
      /\ Z = ZeroOf(flags, p)
      /\ \A j \in 1 .. Len(zq) : wtrans[f + j] = zq[j] /\ zq[j].in \in Z
  BY DEF Parts
<1>2. /\ NO_SYMBOL_NUMBER \in Nat /\ 0 \in 0 .. NO_SYMBOL_NUMBER - 1
      /\ START \in Nat /\ a \in Nat /\ a + 1 + 0 = a + 1
  BY NumbersBelow, NumbersAssumption, StatePlaced
<1>3. a + 1 \in DOMAIN windex
  BY DEF IndexReads
<1>4. /\ windex[a + 1].in = 0 <=> 0 \in Slots(s)
      /\ 0 \in Slots(s) => windex[a + 1].to = Targets(ph[s], 0)
  BY <1>2, <1>3, SlotIs DEF HasIndex
<1>5. 0 \in Slots(s) <=> Z # {}
  BY <1>1 DEF Slots, Slot, ZeroOf, ZeroIn
<1>6. Targets(ph[s], 0) - START = f
  BY <1>1, <1>2 DEF Targets, SymbolOffset
<1>7. Z = {} => R = {}
  BY <1>1
<1>8. RunFrom(f, flags \cup {0}) = R
  BY ZeroRange
<1>9. RunFrom(f, {0}) = {q \in R : wtrans[q + 1].in = 0}
  BY EpsilonRange
<1> HIDE DEF a, R
<1>10. FlagArcs(a) = {q \in R : wtrans[q + 1].in \in flags}
  <2>1. CASE Z = {}
    BY <1>4, <1>5, <1>7, <2>1 DEF FlagArcs, a
  <2>2. CASE Z # {}
    <3>1. windex[a + 1].in = 0 /\ windex[a + 1].to - START = f
      BY <1>4, <1>5, <1>6, <2>2
    <3> QED
      BY <1>8, <3>1, Zenon DEF FlagArcs
  <2> QED
    BY <2>1, <2>2
<1>11. SymbolArcs(a, 0) = {q \in R : wtrans[q + 1].in = 0}
  <2>1. CASE Z = {}
    BY <1>2, <1>4, <1>5, <1>7, <2>1 DEF SymbolArcs
  <2>2. CASE Z # {}
    <3>1. windex[a + 1 + 0].in = 0 /\ windex[a + 1 + 0].to - START = f
      BY <1>2, <1>4, <1>5, <1>6, <2>2
    <3> QED
      BY <1>9, <3>1, Zenon DEF SymbolArcs
  <2> QED
    BY <2>1, <2>2
<1> QED
  BY <1>10, <1>11 DEF a, R

\* The block of another input that is found at a nonsimple state.
LEMMA OtherFound ==
    ASSUME Through, NEW s \in States(t), ~IsSimple(ph[s]),
           NEW p, NEW f, NEW zq, NEW oq, NEW Z, NEW O, Parts(s, p, f, zq, oq, Z, O),
           IndexReads(ph[s].start) \subseteq DOMAIN windex,
           NEW x \in (0 .. symbol_count - 1) \ flags, symbol_count <= NO_SYMBOL_NUMBER, x # 0,
           symbol_count \in Nat
    PROVE  SymbolArcs(ph[s].start, x)
             = IF x \notin O THEN {}
               ELSE Block(f, zq, O, p, x) .. Block(f, zq, O, p, x) + Len(p.by[x]) - 1
<1> DEFINE a == ph[s].start
           b == Block(f, zq, O, p, x)
           w == WrittenIn(ph, x, p.by[x])
<1>1. /\ p = ph[s] /\ f = p.first /\ f \in Nat /\ O = OtherOf(flags, p) /\ wtrans \in Seq(Entries)
  BY DEF Parts
<1>2. /\ NO_SYMBOL_NUMBER \in Nat /\ x \in 0 .. NO_SYMBOL_NUMBER - 1 /\ START \in Nat
  BY NumbersBelow, NumbersAssumption
<1>3. a + 1 + x \in DOMAIN windex
  BY DEF IndexReads
<1>4. /\ windex[a + 1 + x].in = x <=> x \in Slots(s)
      /\ x \in Slots(s) => windex[a + 1 + x].to = Targets(ph[s], x)
  BY <1>2, <1>3, SlotIs DEF HasIndex
<1>5. x \in Slots(s) <=> x \in O
  BY <1>1 DEF Slots, Slot, OtherOf, ZeroOf, ZeroIn
<1>6. CASE x \in O
  <2>1. f + SymbolOffset(p, x) = b /\ SymbolOffset(p, x) \in Nat
    BY <1>6, OffsetIs
  <2>2. Stands(b, {x}, w) /\ w \in Seq(Entries) /\ b \in Nat
    BY <1>6, BlockStands
  <2>3. Len(w) = Len(p.by[x])
    <3>1. p.by[x] \in Seq(Arcs(t)) /\ x \in Nat
      BY <1>1, <1>2, <1>6, StateFactsHold DEF Through, StateFacts, IsBy, OtherOf
    <3>2. Addressed(t, ph)
      BY AddressedHolds DEF Through
    <3> QED
      BY <3>1, <3>2, WrittenHolds
  <2> HIDE DEF b, w
  <2>4. RunFrom(b, {x}) = b .. b + Len(w) - 1
    BY <1>1, <2>2, RunFromIs
  <2>5. Targets(ph[s], x) - START = b
    BY <1>1, <1>2, <2>1 DEF Targets
  <2>6. windex[a + 1 + x].in = x /\ windex[a + 1 + x].to - START = b
    BY <1>4, <1>5, <1>6, <2>5
  <2>7. SymbolArcs(a, x) = b .. b + Len(w) - 1
    BY <2>4, <2>6, Zenon DEF SymbolArcs
  <2> QED
    BY <1>6, <2>3, <2>7 DEF b
<1>7. CASE x \notin O
  BY <1>4, <1>5, <1>7 DEF SymbolArcs
<1> QED
  BY <1>6, <1>7

\* At a nonsimple state all blocks are found, and nothing else.
LEMMA NonsimpleRange ==
    ASSUME Through, NamesFit, NEW s \in States(t), ~IsSimple(ph[s]),
           IndexReads(ph[s].start) \subseteq DOMAIN windex
    PROVE  FlagArcs(ph[s].start)
             \cup UNION {SymbolArcs(ph[s].start, x) : x \in (0 .. symbol_count - 1) \ flags}
             = ph[s].first .. ph[s].first + Len(t.arcs[s]) - 1
<1> DEFINE a == ph[s].start
           n == Len(t.arcs[s])
           X == (0 .. symbol_count - 1) \ flags
<1>1. PICK p, f, zq, oq, Z, O : Parts(s, p, f, zq, oq, Z, O)
  BY PartsHold
<1>2. /\ p = ph[s] /\ f = ph[s].first /\ f \in Nat /\ Len(zq) \in Nat /\ Len(oq) \in Nat
      /\ Z = ZeroOf(flags, p) /\ O = OtherOf(flags, p)
      /\ zq = ZeroArcs(ph, flags, p) /\ oq = OtherArcs(ph, flags, p)
      /\ \A j \in 1 .. Len(zq) : wtrans[f + j] = zq[j] /\ zq[j].in \in Z
      /\ \A j \in 1 .. Len(oq) : wtrans[f + Len(zq) + j] = oq[j] /\ oq[j].in \in O
  BY <1>1 DEF Parts
<1>3. StateFacts(s) /\ Addressed(t, ph)
  BY StateFactsHold, AddressedHolds DEF Through
<1>4. /\ n = Len(zq) + Len(oq) /\ IsBy(t, p.by) /\ Listed(ph, p, O, NO_SYMBOL_NUMBER + 1, oq)
      /\ n \in Nat
  BY <1>2, <1>3 DEF StateFacts, Grouped
<1>5. symbol_count \in Nat /\ symbol_count <= NO_SYMBOL_NUMBER /\ DOMAIN p.by \subseteq 0 .. symbol_count - 1
  BY <1>2, InputsNamed DEF NamesFit
<1>6. O \subseteq DOMAIN p.by /\ Z \subseteq DOMAIN p.by /\ O \cap flags = {} /\ 0 \notin O
      /\ \A x \in Z : x = 0 \/ x \in flags
  BY <1>2 DEF ZeroOf, OtherOf, ZeroIn
<1>7. InputsIn(O, oq) /\ InBlocks(p, O, oq)
  BY <1>3, <1>4, <1>6, ListedInputs
<1> DEFINE R == f .. f + Len(zq) - 1
           B(x) == Block(f, zq, O, p, x)
<1>8. FlagArcs(a) = {q \in R : wtrans[q + 1].in \in flags}
      /\ (0 \notin flags => SymbolArcs(a, 0) = {q \in R : wtrans[q + 1].in = 0})
  BY <1>1, ZeroFound
<1>9. \A x \in X : x # 0 =>
        SymbolArcs(a, x) = IF x \notin O THEN {} ELSE B(x) .. B(x) + Len(p.by[x]) - 1
  BY <1>1, <1>5, OtherFound
<1>10. ASSUME NEW x \in O, NEW j \in 1 .. Len(p.by[x])
       PROVE  Place(p, O, x) + j \in 1 .. Len(oq)
  <2>1. x < NO_SYMBOL_NUMBER + 1
    BY <1>5, <1>6, NumbersBelow
  <2> QED
    BY <1>4, <2>1 DEF Listed
<1>11. \A x \in O : B(x) = f + Len(zq) + Place(p, O, x) /\ Place(p, O, x) \in Nat
                    /\ Len(p.by[x]) \in Nat
  <2> SUFFICES ASSUME NEW x \in O
               PROVE  B(x) = f + Len(zq) + Place(p, O, x) /\ Place(p, O, x) \in Nat
                      /\ Len(p.by[x]) \in Nat
    OBVIOUS
  <2>1. Place(p, O, x) \in Nat
    BY <1>1, OffsetIs
  <2>2. p.by[x] \in Seq(Arcs(t))
    BY <1>4, <1>6 DEF IsBy
  <2> QED
    BY <2>1, <2>2 DEF Block
<1> DEFINE lz == Len(zq)
           lo == Len(oq)
           L(x) == Len(p.by[x])
<1>20. f \in Nat /\ lz \in Nat /\ lo \in Nat /\ n \in Nat /\ n = lz + lo
  BY <1>2, <1>4
<1>21. /\ R = f .. f + lz - 1
       /\ \A j \in 1 .. lz : wtrans[f + j].in \in Z
       /\ \A j \in 1 .. lo : oq[j].in \in O
  BY <1>2
<1>22. \A j \in 1 .. lo : \E i \in 1 .. L(oq[j].in) : j = Place(p, O, oq[j].in) + i
  BY <1>7 DEF InBlocks
<1>23. \A x \in O : B(x) = f + lz + Place(p, O, x) /\ Place(p, O, x) \in Nat /\ L(x) \in Nat
  BY <1>11
<1>24. \A x \in O : \A j \in 1 .. L(x) : Place(p, O, x) + j \in 1 .. lo
  BY <1>10
<1>25. \A x \in X : x # 0 => SymbolArcs(a, x) = IF x \notin O THEN {} ELSE B(x) .. B(x) + L(x) - 1
  BY <1>9
<1> HIDE DEF a, B, n, lz, lo, L
<1>12. ASSUME NEW q \in FlagArcs(a) \cup UNION {SymbolArcs(a, x) : x \in X}
       PROVE  q \in f .. f + n - 1
  <2>1. CASE q \in FlagArcs(a)
    <3>1. q \in R
      BY <1>8, <2>1
    <3> QED
      BY <1>20, <1>21, <3>1
  <2>2. CASE q \notin FlagArcs(a)
    <3>1. PICK x \in X : q \in SymbolArcs(a, x)
      BY <1>12, <2>2
    <3>2. CASE x = 0
      <4>1. q \in R
        BY <1>8, <3>1, <3>2
      <4> QED
        BY <1>20, <1>21, <4>1
    <3>3. CASE x # 0
      <4>1. x \in O /\ q \in B(x) .. B(x) + L(x) - 1
        BY <1>25, <3>1, <3>3
      <4> DEFINE j == (q - B(x)) + 1
                 m == Place(p, O, x)
                 l == L(x)
                 b == B(x)
      <4>2. m \in Nat /\ b = f + lz + m /\ l \in Nat /\ q \in b .. b + l - 1
        BY <1>23, <4>1
      <4> HIDE DEF m, l, b
      <4>3. (q - b) + 1 \in 1 .. l /\ q = f + lz + (m + ((q - b) + 1)) - 1
        BY <1>20, <4>2
      <4>4. m + j \in 1 .. lo
        BY <1>24, <4>1, <4>3 DEF m, l, b
      <4>5. q = f + lz + (m + j) - 1
        BY <4>3 DEF b
      <4> HIDE DEF j
      <4>6. m + j \in Nat
        BY <1>20, <4>4
      <4> DEFINE d == m + j
      <4> HIDE DEF d
      <4>7. d \in 1 .. lo /\ q = f + lz + d - 1
        BY <4>4, <4>5 DEF d
      <4> QED
        BY <1>20, <4>7
    <3> QED
      BY <3>2, <3>3
  <2> QED
    BY <2>1, <2>2
<1>13. ASSUME NEW q \in f .. f + n - 1
       PROVE  q \in FlagArcs(a) \cup UNION {SymbolArcs(a, x) : x \in X}
  <2>1. CASE q <= f + lz - 1
    <3> DEFINE j == (q - f) + 1
    <3>1. q \in f .. f + lz - 1 /\ j \in 1 .. lz /\ f + j = q + 1
      BY <1>20, <2>1
    <3>2. wtrans[q + 1].in \in Z /\ q \in R
      <4> HIDE DEF j
      <4> QED
        BY <1>21, <3>1
    <3>3. CASE wtrans[q + 1].in \in flags
      BY <1>8, <3>2, <3>3
    <3>4. CASE wtrans[q + 1].in \notin flags
      <4>1. wtrans[q + 1].in = 0 /\ 0 \in X
        BY <1>5, <1>6, <3>2, <3>4
      <4>2. q \in SymbolArcs(a, 0)
        BY <1>8, <3>2, <4>1
      <4> QED
        BY <4>1, <4>2
    <3> QED
      BY <3>3, <3>4
  <2>2. CASE q > f + lz - 1
    <3> DEFINE j == (q - (f + lz)) + 1
    <3>1. j \in 1 .. lo /\ q = f + lz + j - 1
      BY <1>20, <2>2
    <3> HIDE DEF j
    <3> DEFINE x == oq[j].in
               m == Place(p, O, x)
               l == L(x)
               b == B(x)
    <3>2. x \in O
      BY <1>21, <3>1
    <3>3. PICK i \in 1 .. l : j = m + i
      BY <1>22, <3>1
    <3>4. b = f + lz + m /\ m \in Nat /\ l \in Nat
      BY <1>23, <3>2
    <3> HIDE DEF x, m, l, b
    <3>5. q \in b .. b + l - 1
      BY <1>20, <3>1, <3>3, <3>4
    <3>6. x \in X /\ x # 0
      BY <1>5, <1>6, <3>2
    <3>7. q \in SymbolArcs(a, x)
      BY <1>25, <3>2, <3>5, <3>6 DEF b, l
    <3> QED
      BY <3>6, <3>7
  <2> QED
    BY <1>20, <2>1, <2>2
<1> QED
  BY <1>2, <1>12, <1>13 DEF a, n

\* Whatever the state, its part of the transition table is found.
LEMMA StateRange ==
    ASSUME Through, NamesFit, NEW s \in States(t),
           Address(s) < START => IndexReads(Address(s)) \subseteq DOMAIN windex
    PROVE  get_transitions_from_state(Address(s))
             = ph[s].first .. ph[s].first + Len(t.arcs[s]) - 1
<1>1. StateFacts(s) /\ Part(s) /\ START \in Nat
  BY StateFactsHold, PartHolds, NumbersAssumption DEF Through
<1>2. ph[s].first \in Nat /\ (s # 0 => ph[s].first # 0) /\ s \in DOMAIN ph
  BY <1>1 DEF Part, StateFacts
<1>3. CASE IsSimple(ph[s])
  <2>1. s # 0
    BY <1>2, <1>3 DEF Through, AddressInv, FirstsIncrease, IsSimple
  <2>2. Address(s) = ph[s].first + START - 1
    BY <1>3 DEF Address
  <2>3. ~(Address(s) < START) /\ Address(s) - START + 1 = ph[s].first
    BY <1>1, <1>2, <2>1, <2>2
  <2>4. get_transitions_from_state(Address(s)) = RunFrom(ph[s].first, Readable)
    BY <2>3, Zenon DEF get_transitions_from_state, Readable
  <2> QED
    BY <2>4, PartRead
<1>4. CASE ~IsSimple(ph[s])
  <2>1. Address(s) = ph[s].start /\ ph[s].start < START
    BY <1>4, StatePlaced DEF Address
  <2>2. IndexReads(ph[s].start) \subseteq DOMAIN windex
    BY <2>1
  <2>3. get_transitions_from_state(Address(s)) = FlagArcs(ph[s].start)
          \cup UNION {SymbolArcs(ph[s].start, x) : x \in (0 .. symbol_count - 1) \ flags}
    BY <2>1, Zenon DEF get_transitions_from_state
  <2> QED
    BY <1>4, <2>2, <2>3, NonsimpleRange
<1> QED
  BY <1>3, <1>4

-----------------------------------------------------------------------------
(* Finality *)

\* The entry before the part of a state that has one is its marker.
LEMMA MarkerAt ==
    ASSUME Through, NEW s \in States(t), s # 0
    PROVE  wtrans[ph[s].first] = Marker(s \in t.final)
<1>1. PICK table : LaidOut(t, ph, flags, table, t.n) /\ wtrans = Append(table, Marker(FALSE))
  BY DEF Through, Layout
<1>2. /\ table \in Seq(Entries) /\ Holds(t, ph, flags, table, s)
  <2>1. s < t.n
    BY DEF Through, TypeOK, IsTransducer, States
  <2> QED
    BY <1>1, <2>1 DEF LaidOut
<1>3. Part(s) /\ StateFacts(s)
  BY PartHolds, StateFactsHold DEF Through
<1>4. ph[s].first \in Nat \ {0} /\ Len(t.arcs[s]) \in Nat
  BY <1>3 DEF Part, StateFacts
<1>5. ph[s].first \in 1 .. Len(table) /\ table[ph[s].first] = Marker(s \in t.final)
  BY <1>2, <1>4 DEF Holds
<1>6. Marker(FALSE) \in Entries
  BY MarkerTyped
<1> DEFINE f == ph[s].first
           m == Marker(FALSE)
<1> HIDE DEF f, m
<1>7. f \in 1 .. Len(table) => Append(table, m)[f] = table[f]
  BY <1>2, <1>6 DEF m
<1> QED
  BY <1>1, <1>5, <1>7 DEF f, m

\* A state is final in the tables if it is in the graph.
LEMMA FinalIs ==
    ASSUME Through, NEW s \in States(t)
    PROVE  IsFinal(Address(s)) <=> s \in t.final
<1>1. StateFacts(s) /\ Part(s) /\ START \in Nat \ {0, 1}
  BY StateFactsHold, PartHolds, NumbersAssumption DEF Through
<1>2. ph[s].first \in Nat /\ (s # 0 => ph[s].first # 0) /\ s \in DOMAIN ph
  BY <1>1 DEF Part, StateFacts
<1>3. NO_TABLE_INDEX # 0 /\ NO_TABLE_INDEX # 1
  BY <1>1 DEF NO_TABLE_INDEX
<1>4. CASE IsSimple(ph[s])
  <2>1. s # 0
    BY <1>2, <1>4 DEF Through, AddressInv, FirstsIncrease, IsSimple
  <2>2. Address(s) = ph[s].first + START - 1
    BY <1>4 DEF Address
  <2>3. ~(Address(s) < START) /\ Address(s) - START + 1 = ph[s].first
    BY <1>1, <1>2, <2>1, <2>2
  <2> DEFINE e == wtrans[ph[s].first]
  <2>4. e = Marker(s \in t.final)
    BY <2>1, MarkerAt
  <2> HIDE DEF e
  <2>5. IsFinal(Address(s)) <=> e.in = NO_SYMBOL_NUMBER /\ e.out = NO_SYMBOL_NUMBER /\ e.to = 1
    BY <2>3, Zenon DEF IsFinal, e
  <2> QED
    BY <1>3, <2>4, <2>5 DEF Marker
<1>5. CASE ~IsSimple(ph[s])
  <2> DEFINE a == ph[s].start
  <2>1. Address(s) = a /\ a < START /\ a \in DOMAIN indices /\ indices[a] = <<s, NO_SYMBOL_NUMBER>>
    BY <1>5, StatePlaced DEF Address
  <2>2. windex[a] = IndexEntry(a)
    <3>1. PICK m \in Nat : /\ DOMAIN indices \subseteq 0 .. m
                           /\ \A q \in 0 .. m + seen : windex[q] = IndexEntry(q)
      BY IndexTable
    <3>2. a \in 0 .. m /\ seen \in Nat
      BY <2>1, <3>1, NumbersBelow
    <3> QED
      BY <3>1, <3>2
  <2>3. IsFinal(Address(s)) <=> windex[a].in = NO_SYMBOL_NUMBER /\ windex[a].to # NO_TABLE_INDEX
    BY <2>1, Zenon DEF IsFinal
  <2> HIDE DEF a
  <2>4. IndexEntry(a) = IF s \in t.final THEN [in |-> NO_SYMBOL_NUMBER, to |-> 0]
                        ELSE [in |-> NO_SYMBOL_NUMBER, to |-> NO_TABLE_INDEX]
    BY <2>1 DEF IndexEntry
  <2> QED
    BY <1>3, <2>2, <2>3, <2>4
<1> QED
  BY <1>4, <1>5

-----------------------------------------------------------------------------
(* The numbers of the strings *)

\* The positions of a set's elements are distinct and count up to its size.
RanksApart(S) ==
    /\ Cardinality(S) \in Nat
    /\ \A a \in S : Rank(a, S) \in 0 .. Cardinality(S) - 1
    /\ \A a, b \in S : a # b => Rank(a, S) # Rank(b, S)

\* A rank is a number below the number of strings, another for each string.
LEMMA RanksAre ==
    ASSUME NEW S \in SUBSET Nat, IsFiniteSet(S) PROVE RanksApart(S)
<1>1. \A a \in S : Rank(a, S) \in Nat /\ Rank(a, S) < Cardinality(S)
  BY RankBelow
<1>2. Cardinality(S) \in Nat
  BY FS_CardinalityType
<1>3. ASSUME NEW a \in S, NEW b \in S, a < b PROVE Rank(a, S) < Rank(b, S)
  <2> DEFINE A == {y \in S : y < a}
             B == {y \in S : y < b}
  <2>1. A \in SUBSET (B \ {a}) /\ a \in B
    <3>1. \A y \in S : y < a => y < b /\ y # a
      BY <1>3
    <3>2. \A y \in A : y \in B \ {a}
      BY <3>1
    <3>3. a \in B
      BY <1>3
    <3> HIDE DEF A, B
    <3> QED
      BY <3>2, <3>3
  <2>2. B \in SUBSET S
    OBVIOUS
  <2>3. Rank(a, S) = Cardinality(A) /\ Rank(b, S) = Cardinality(B)
    BY DEF Rank
  <2> HIDE DEF A, B
  <2>4. IsFiniteSet(B)
    BY <2>2, FS_Subset
  <2>5. IsFiniteSet(B \ {a}) /\ Cardinality(B \ {a}) = Cardinality(B) - 1
    BY <2>1, <2>4, FS_RemoveElement
  <2>6. IsFiniteSet(A) /\ Cardinality(A) <= Cardinality(B \ {a})
    BY <2>1, <2>5, FS_Subset
  <2>7. Cardinality(A) \in Nat /\ Cardinality(B) \in Nat
    BY <2>4, <2>6, FS_CardinalityType
  <2> QED
    BY <2>3, <2>5, <2>6, <2>7
<1>4. ASSUME NEW a \in S, NEW b \in S, a # b PROVE Rank(a, S) # Rank(b, S)
  <2>1. a < b \/ b < a
    BY <1>4
  <2>2. Rank(a, S) \in Nat /\ Rank(b, S) \in Nat
    BY <1>1
  <2> QED
    BY <1>3, <2>1, <2>2
<1>5. \A a \in S : Rank(a, S) \in 0 .. Cardinality(S) - 1
  BY <1>1, <1>2
<1> QED
  BY <1>2, <1>4, <1>5 DEF RanksApart

\* No two strings get the same number.
LEMMA OwnNumbersApart ==
    ASSUME TypeOK, StringsApart
    PROVE  \A a, b \in DOMAIN OwnNumbers : OwnNumbers[a] = OwnNumbers[b] => a = b
<1> DEFINE ins == strings.inputs \ {EPSILON}
           fl == strings.flags
           outs == strings.outputs \ (ins \cup fl \cup {EPSILON})
           N(a) == OwnNumbers[a]
<1>1. DOMAIN OwnNumbers = {EPSILON} \cup ins \cup fl \cup outs
  BY DEF OwnNumbers
<1>2. /\ IsFiniteSet(ins) /\ ins \in SUBSET Nat /\ IsFiniteSet(fl) /\ fl \in SUBSET Nat
      /\ IsFiniteSet(outs) /\ outs \in SUBSET Nat
  <2>1. \A S \in {strings.inputs, fl, strings.outputs} : IsFiniteSet(S) /\ S \subseteq Nat
    BY DEF TypeOK
  <2>2. ins \in SUBSET strings.inputs /\ outs \in SUBSET strings.outputs
    OBVIOUS
  <2>3. IsFiniteSet(ins) /\ IsFiniteSet(outs)
    BY <2>1, <2>2, FS_Subset
  <2> QED
    BY <2>1, <2>3
<1>4. \A a \in DOMAIN OwnNumbers : N(a) =
        IF a = EPSILON THEN 0
        ELSE IF a \in ins THEN 1 + Rank(a, ins)
        ELSE IF a \in fl THEN 1 + Cardinality(ins) + Rank(a, fl)
        ELSE 1 + Cardinality(ins) + Cardinality(fl) + Rank(a, outs)
  BY DEF OwnNumbers
<1> HIDE DEF ins, fl, outs, N
<1>5. RanksApart(ins) /\ RanksApart(fl) /\ RanksApart(outs)
  BY <1>2, RanksAre
<1> DEFINE ci == Cardinality(ins)
           cf == Cardinality(fl)
           co == Cardinality(outs)
<1>6. /\ ci \in Nat /\ cf \in Nat /\ co \in Nat
      /\ \A a \in ins : Rank(a, ins) \in 0 .. ci - 1
      /\ \A a \in fl : Rank(a, fl) \in 0 .. cf - 1
      /\ \A a \in outs : Rank(a, outs) \in 0 .. co - 1
  BY <1>5 DEF RanksApart
<1>7. /\ \A a, b \in ins : a # b => Rank(a, ins) # Rank(b, ins)
      /\ \A a, b \in fl : a # b => Rank(a, fl) # Rank(b, fl)
      /\ \A a, b \in outs : a # b => Rank(a, outs) # Rank(b, outs)
  BY <1>5 DEF RanksApart
<1> HIDE DEF ci, cf, co
<1> DEFINE Base(a) == IF a \in ins THEN 1 ELSE IF a \in fl THEN 1 + ci ELSE 1 + ci + cf
           Of(a) == IF a \in ins THEN Rank(a, ins) ELSE IF a \in fl THEN Rank(a, fl) ELSE Rank(a, outs)
<1>8. \A a \in DOMAIN OwnNumbers : a # EPSILON =>
        /\ N(a) \in Nat \ {0}
        /\ a \in ins => N(a) = 1 + Rank(a, ins) /\ N(a) \in 1 .. ci
        /\ a \notin ins /\ a \in fl => N(a) = 1 + ci + Rank(a, fl) /\ N(a) \in 1 + ci .. ci + cf
        /\ a \notin ins /\ a \notin fl =>
              a \in outs /\ N(a) = 1 + ci + cf + Rank(a, outs) /\ N(a) \in 1 + ci + cf .. ci + cf + co
  <2> SUFFICES ASSUME NEW a \in DOMAIN OwnNumbers, a # EPSILON
               PROVE
        /\ N(a) \in Nat \ {0}
        /\ a \in ins => N(a) = 1 + Rank(a, ins) /\ N(a) \in 1 .. ci
        /\ a \notin ins /\ a \in fl => N(a) = 1 + ci + Rank(a, fl) /\ N(a) \in 1 + ci .. ci + cf
        /\ a \notin ins /\ a \notin fl =>
              a \in outs /\ N(a) = 1 + ci + cf + Rank(a, outs) /\ N(a) \in 1 + ci + cf .. ci + cf + co
    OBVIOUS
  <2>1. CASE a \in ins
    <3>1. N(a) = 1 + Rank(a, ins) /\ Rank(a, ins) \in 0 .. ci - 1
      BY <1>4, <1>6, <2>1
    <3> QED
      BY <1>6, <2>1, <3>1
  <2>2. CASE a \notin ins /\ a \in fl
    <3>1. N(a) = 1 + ci + Rank(a, fl) /\ Rank(a, fl) \in 0 .. cf - 1
      BY <1>4, <1>6, <2>2 DEF ci
    <3> QED
      BY <1>6, <2>2, <3>1
  <2>3. CASE a \notin ins /\ a \notin fl
    <3>0. a \in outs
      BY <1>1, <2>3
    <3>1. N(a) = 1 + ci + cf + Rank(a, outs) /\ Rank(a, outs) \in 0 .. co - 1
      BY <1>4, <1>6, <2>3, <3>0 DEF ci, cf
    <3> QED
      BY <1>6, <2>3, <3>0, <3>1
  <2> QED
    BY <2>1, <2>2, <2>3
<1>9. \A a \in DOMAIN OwnNumbers : a = EPSILON => N(a) = 0
  BY <1>4
<1> SUFFICES ASSUME NEW a \in DOMAIN OwnNumbers, NEW b \in DOMAIN OwnNumbers, N(a) = N(b), a # b
             PROVE  FALSE
  BY DEF N
<1>10. CASE a = EPSILON \/ b = EPSILON
  BY <1>8, <1>9, <1>10
<1>11. CASE a # EPSILON /\ b # EPSILON /\ a \in ins
  <2>1. b \in ins
    BY <1>6, <1>8, <1>11
  <2>2. Rank(a, ins) # Rank(b, ins) /\ Rank(a, ins) \in Int /\ Rank(b, ins) \in Int
    BY <1>6, <1>7, <1>11, <2>1
  <2> QED
    BY <1>8, <1>11, <2>1, <2>2
<1>12. CASE a # EPSILON /\ b # EPSILON /\ a \notin ins /\ a \in fl
  <2>1. b \notin ins /\ b \in fl
    BY <1>6, <1>8, <1>12
  <2>2. Rank(a, fl) # Rank(b, fl) /\ Rank(a, fl) \in Int /\ Rank(b, fl) \in Int
    BY <1>6, <1>7, <1>12, <2>1
  <2> QED
    BY <1>6, <1>8, <1>12, <2>1, <2>2
<1>13. CASE a # EPSILON /\ b # EPSILON /\ a \notin ins /\ a \notin fl
  <2>1. b \notin ins /\ b \notin fl
    BY <1>6, <1>8, <1>13
  <2>2. a \in outs /\ b \in outs
    BY <1>8, <1>13, <2>1
  <2>3. Rank(a, outs) # Rank(b, outs) /\ Rank(a, outs) \in Int /\ Rank(b, outs) \in Int
    BY <1>6, <1>7, <2>2
  <2> QED
    BY <1>6, <1>8, <1>13, <2>1, <2>3
<1> QED
  BY <1>10, <1>11, <1>12, <1>13

\* Each string has its own number below the number of strings, and of these there are no
\* more than fit in the header once the tables are written.
NamesApart ==
    /\ pc \notin {"collect", "failed"} =>
         /\ Cardinality(DOMAIN num) \in Nat
         /\ \A a \in DOMAIN num : num[a] < Cardinality(DOMAIN num)
         /\ \A a, b \in DOMAIN num : num[a] = num[b] => a = b
         /\ EPSILON \in DOMAIN num /\ num[EPSILON] = 0
    /\ pc = "done" => Cardinality(DOMAIN num) <= NO_SYMBOL_NUMBER

\* Numbers, own or of a harmonizer, are given once (NumberSymbols); Finish checks how many.
LEMMA NamesApartHolds ==
    ASSUME TypeOK, NumbersFit, NamesApart, [Next]_vars PROVE NamesApart'
<1>1. CASE NumberSymbols
  <2>1. pc' # "done"
    BY <1>1 DEF NumberSymbols
  <2>2. CASE harm = NoHarmonizer
    <3>1. num' = OwnNumbers
      BY <1>1, <2>2 DEF NumberSymbols
    <3>2. EPSILON \in DOMAIN OwnNumbers /\ OwnNumbers[EPSILON] = 0
      BY DEF OwnNumbers
    <3> QED
      BY <2>1, <3>1, <3>2, OwnNumbersFit, OwnNumbersApart, Zenon DEF NumbersFit, NamesApart
  <2>3. CASE harm # NoHarmonizer
    <3>1. num' = harm.numbers /\ harm \in Harmonizers \ {NoHarmonizer}
      BY <1>1, <2>3 DEF NumberSymbols, TypeOK
    <3>2. /\ IsFiniteSet(DOMAIN harm.numbers) /\ IsInjective(harm.numbers)
          /\ \A a \in DOMAIN harm.numbers : harm.numbers[a] < Cardinality(DOMAIN harm.numbers)
      BY <3>1, SymbolTablesAssumption
    <3>3. Cardinality(DOMAIN harm.numbers) \in Nat
      BY <3>2, FS_CardinalityType
    <3>4. \A a, b \in DOMAIN harm.numbers : harm.numbers[a] = harm.numbers[b] => a = b
      BY <3>2 DEF IsInjective
    <3>5. EPSILON \in DOMAIN harm.numbers /\ harm.numbers[EPSILON] = 0
      BY <3>1, SymbolTablesAssumption
    <3> QED
      BY <2>1, <3>1, <3>2, <3>3, <3>4, <3>5, Zenon DEF NamesApart
  <2> QED
    BY <2>2, <2>3
<1>2. CASE Finish
  <2>1. /\ num' = num /\ pc = "write"
        /\ pc' = IF Cardinality(DOMAIN num) > NO_SYMBOL_NUMBER THEN "failed" ELSE "done"
    BY <1>2 DEF Finish, symbolVars, HeaderOverflow
  <2>2. Cardinality(DOMAIN num) \in Nat /\ NO_SYMBOL_NUMBER \in Nat
    BY <2>1, NumbersAssumption DEF NamesApart
  <2>3. pc' = "done" => Cardinality(DOMAIN num) <= NO_SYMBOL_NUMBER
    BY <2>1, <2>2
  <2> QED
    BY <2>1, <2>3 DEF NamesApart
<1>3. CASE CollectState \/ AddArc \/ NextState \/ SkipSimple \/ PlaceState \/ WriteIndex
           \/ WriteState \/ UNCHANGED vars
  <2>1. /\ num' = num
        /\ (pc' = pc \/ (pc \in {"inputs", "pack"} /\ pc' \in {"pack", "write"}))
    BY <1>3 DEF CollectState, AddArc, NextState, SkipSimple, PlaceState, WriteIndex, WriteState, vars,
       symbolVars, packVars
  <2> QED
    BY <2>1 DEF NamesApart
<1> QED
  BY <1>1, <1>2, <1>3 DEF Next

\* What the reader needs of the names.
LEMMA NamesFitHere ==
    ASSUME Through, NamesApart PROVE NamesFit
<1>1. \A a \in DOMAIN num : num[a] \in Nat
  BY DEF Through, TypeOK
<1> QED
  BY <1>1 DEF Through, NamesApart, NamesFit, symbol_count

\* The string of a number is the one that has it, or epsilon.
LEMMA StringBack ==
    ASSUME NamesFit, NEW a PROVE StringOf(Number(a)) = KeptAs(a)
<1>1. KeptAs(a) \in DOMAIN num /\ Number(a) = num[KeptAs(a)]
  BY DEF Number, KeptAs, NamesFit
<1>2. \A b \in DOMAIN num : num[b] = num[KeptAs(a)] <=> b = KeptAs(a)
  BY <1>1 DEF NamesFit
<1> HIDE DEF KeptAs
<1> QED
  BY <1>1, <1>2 DEF StringOf

-----------------------------------------------------------------------------
(* The address of state 0 *)

\* State 0 is the first to be placed, at the first position.
ZeroFirst ==
    /\ pc \in {"collect", "inputs"} => avail = 0
    /\ pc = "pack" =>
         /\ cur = 0 => avail = 0
         /\ cur # 0 => ph[0].start = 0
    /\ pc \in {"write", "done"} => ph[0].start = 0

\* Nothing is used when PlaceState comes to state 0, which is not simple.
LEMMA ZeroFirstHolds ==
    ASSUME TypeOK, SlotOwnership, AddressInv, ZeroFirst, [Next]_vars PROVE ZeroFirst'
<1>0. t.n \in Nat \ {0} /\ cur \in 0 .. t.n /\ 0 \in States(t)
  BY DEF TypeOK, IsTransducer, States
<1>1. CASE CollectState \/ NumberSymbols \/ NextState
  BY <1>0, <1>1 DEF CollectState, NumberSymbols, NextState, ZeroFirst, packVars
<1>2. CASE AddArc
  BY <1>2 DEF AddArc, ZeroFirst, packVars
<1>3. CASE SkipSimple
  <2>1. /\ pc = "pack" /\ pc' = "pack" /\ UNCHANGED <<ph, avail>> /\ cur' = cur + 1
        /\ IsSimple(ph[cur])
    BY <1>3 DEF SkipSimple, packVars
  <2>2. 0 \in DOMAIN ph
    BY <1>0, <2>1 DEF TypeOK
  <2>3. cur # 0
    BY <2>1, <2>2 DEF AddressInv, FirstsIncrease, IsSimple
  <2>4. cur' # 0
    BY <1>0, <2>1
  <2> QED
    BY <2>1, <2>3, <2>4 DEF ZeroFirst
<1>4. CASE PlaceState
  <2>1. PICK i \in avail .. START - 1 :
          /\ \A j \in avail .. i - 1 : ~Fits(ph[cur], j)
          /\ ph' = [ph EXCEPT ![cur].start = i]
    BY <1>4 DEF PlaceState
  <2>2. pc = "pack" /\ pc' = "pack" /\ cur' = cur + 1 /\ cur < t.n
    BY <1>4 DEF PlaceState
  <2>3. cur' # 0 /\ DOMAIN ph = States(t) /\ 0 \in DOMAIN ph /\ cur \in DOMAIN ph
    BY <1>0, <2>2 DEF TypeOK, States
  <2>4. CASE cur = 0
    <3>1. avail = 0 /\ i \in Nat
      BY <2>1, <2>2, <2>4, NumbersAssumption DEF ZeroFirst
    <3>2. DOMAIN indices = {}
      <4>1. \A s \in DOMAIN ph : ~Placed(s)
        BY <2>2, <2>3, <2>4 DEF Placed, States
      <4> QED
        BY <4>1 DEF SlotOwnership
    <3>3. Fits(ph[cur], 0)
      BY <3>2 DEF Fits
    <3>4. i = 0
      <4>1. CASE i > 0
        <5>1. 0 \in avail .. i - 1
          BY <3>1, <4>1
        <5> QED
          BY <2>1, <3>3, <5>1
      <4> QED
        BY <3>1, <4>1
    <3>5. ph'[0].start = 0
      <4>1. ph[0] = [first |-> ph[0].first, start |-> ph[0].start, type |-> ph[0].type, by |-> ph[0].by]
        BY <2>3 DEF TypeOK
      <4> QED
        BY <2>1, <2>3, <2>4, <3>4, <4>1
    <3> QED
      BY <2>2, <2>3, <3>5 DEF ZeroFirst
  <2>5. CASE cur # 0
    <3>1. ph'[0] = ph[0]
      BY <2>1, <2>3, <2>5
    <3> QED
      BY <2>2, <2>3, <2>5, <3>1 DEF ZeroFirst
  <2> QED
    BY <2>4, <2>5
<1>5. CASE WriteIndex \/ WriteState \/ Finish \/ UNCHANGED vars
  BY <1>0, <1>5 DEF WriteIndex, WriteState, Finish, ZeroFirst, vars, packVars
<1> QED
  BY <1>1, <1>2, <1>3, <1>4, <1>5 DEF Next

\* So the arcs into state 0 point to 0, where the reader begins.
LEMMA ZeroAddress ==
    ASSUME Through, ZeroFirst PROVE 0 \in States(t) /\ Address(0) = 0
<1>1. t.n \in Nat \ {0} /\ 0 \in States(t) /\ DOMAIN ph = States(t)
  BY DEF Through, TypeOK, IsTransducer, States
<1>2. ph[0].type = "nonsimple"
  BY <1>1 DEF Through, AddressInv, FirstsIncrease
<1> QED
  BY <1>1, <1>2 DEF Through, ZeroFirst, Address, IsSimple

-----------------------------------------------------------------------------
(* Where the arcs of a state are found *)

\* q is the beginning of r.
BeginsWith(q, r) ==
    /\ Len(q) \in Nat /\ Len(r) \in Nat /\ Len(q) <= Len(r)
    /\ \A j \in 1 .. Len(q) : r[j] = q[j]

LEMMA BeginsConcat ==
    ASSUME NEW S, NEW q \in Seq(S), NEW r \in Seq(S) PROVE BeginsWith(q, q \o r)
BY DEF BeginsWith

LEMMA BeginsTrans ==
    ASSUME NEW q, NEW r, NEW u, BeginsWith(q, r), BeginsWith(r, u) PROVE BeginsWith(q, u)
<1>1. \A j \in 1 .. Len(q) : j \in 1 .. Len(r)
  BY DEF BeginsWith
<1> QED
  BY <1>1 DEF BeginsWith

\* The arcs with an input are listed one after the other.
LEMMA OwnPrefix ==
    ASSUME NEW tr, IsTransducer(tr), NEW nm, NEW s \in States(tr), NEW x, NEW i \in Nat,
           NEW n \in Nat, i <= n, n <= Len(tr.arcs[s])
    PROVE  BeginsWith(OwnIn(tr, nm, s, x, i), OwnIn(tr, nm, s, x, n))
<1> DEFINE O(m) == OwnIn(tr, nm, s, x, m)
           L == Len(tr.arcs[s])
           bad == {m \in Nat : m >= i /\ m <= L /\ ~BeginsWith(O(i), O(m))}
<1>0. L \in Nat
  BY StringsOfState
<1>1. \A m \in Nat : m <= L => O(m) \in Seq(Arcs(tr))
  BY OwnTyped
<1>2. ASSUME NEW m \in Nat, m + 1 <= L PROVE BeginsWith(O(m), O(m + 1))
  <2> DEFINE y == IF NumberIn(nm, tr.arcs[s][m + 1].in) = x THEN <<tr.arcs[s][m + 1]>> ELSE << >>
  <2>1. O(m) \in Seq(Arcs(tr)) /\ O(m + 1) = O(m) \o y
    <3>1. OwnStep(tr, nm, s, x, m)
      BY <1>2, OwnGrows, Zenon
    <3> QED
      BY <3>1, Zenon DEF OwnStep
  <2>2. y \in Seq(Arcs(tr))
    <3>0. m + 1 \in 1 .. L
      <4> HIDE DEF L
      <4> QED
        BY <1>0, <1>2
    <3>1. m + 1 \in 1 .. L /\ tr.arcs[s] \in Seq(Arcs(tr))
      BY <3>0 DEF IsTransducer, Arcs
    <3>2. tr.arcs[s][m + 1] \in Arcs(tr)
      BY <3>1
    <3> DEFINE a == tr.arcs[s][m + 1]
    <3> HIDE DEF a
    <3>3. <<a>> \in Seq(Arcs(tr)) /\ << >> \in Seq(Arcs(tr))
      BY <3>2 DEF a
    <3> QED
      BY <3>3 DEF a
  <2> HIDE DEF y, O
  <2> QED
    BY <2>1, <2>2, BeginsConcat, Zenon
<1>3. BeginsWith(O(i), O(i))
  <2>1. O(i) \in Seq(Arcs(tr))
    BY <1>0, <1>1
  <2> HIDE DEF O
  <2> QED
    BY <2>1 DEF BeginsWith
<1> HIDE DEF O, L
<1>4. bad = {}
  <2> SUFFICES ASSUME bad # {} PROVE FALSE
    OBVIOUS
  <2>1. PICK m \in bad : \A j \in bad : m <= j
    <3>1. bad \in SUBSET Nat
      OBVIOUS
    <3> HIDE DEF bad
    <3> QED
      BY <3>1, LeastElement
  <2>2. m \in Nat /\ m >= i /\ m <= L /\ ~BeginsWith(O(i), O(m))
    OBVIOUS
  <2>3. m # i
    BY <1>3, <2>2
  <2> DEFINE d == m - 1
  <2>4. d \in Nat /\ d >= i /\ d <= L /\ d + 1 = m /\ ~(m <= d)
    BY <1>0, <2>2, <2>3
  <2>5. d \notin bad
    <3> HIDE DEF bad
    <3> QED
      BY <2>1, <2>4
  <2> HIDE DEF d
  <2>6. BeginsWith(O(i), O(d)) /\ BeginsWith(O(d), O(m))
    BY <1>2, <2>2, <2>4, <2>5
  <2> QED
    BY <2>2, <2>6, BeginsTrans
<1>5. n \notin bad
  BY <1>4
<1> QED
  BY <1>5 DEF O, L

\* The arc i of s is the last of those with its input when i have been listed.
OwnAt(tr, nm, s, i, n) ==
    LET x == NumberIn(nm, tr.arcs[s][i].in)
        own == OwnIn(tr, nm, s, x, n)
        r == Len(OwnIn(tr, nm, s, x, i))
    IN  r \in 1 .. Len(own) /\ own[r] = tr.arcs[s][i] /\ own \in Seq(Arcs(tr))

\* The arc i of s is among those with its input, at the place counted up to i.
LEMMA OwnPlace ==
    ASSUME NEW tr, IsTransducer(tr), NEW nm, NEW s \in States(tr), NEW n \in Nat,
           n <= Len(tr.arcs[s]), NEW i \in 1 .. n
    PROVE  OwnAt(tr, nm, s, i, n)
<1> DEFINE x == NumberIn(nm, tr.arcs[s][i].in)
           own == OwnIn(tr, nm, s, x, n)
           m == i - 1
           p == OwnIn(tr, nm, s, x, i)
           o == OwnIn(tr, nm, s, x, m)
           a == tr.arcs[s][i]
           L == Len(tr.arcs[s])
<1>0. L \in Nat
  BY StringsOfState
<1>1. m \in Nat /\ m + 1 = i /\ m + 1 <= L /\ i \in Nat /\ i <= n /\ i \in 1 .. L
  BY <1>0
<1>2. a \in Arcs(tr)
  <2>1. tr.arcs[s] \in Seq(Arcs(tr))
    BY DEF IsTransducer, Arcs
  <2> QED
    BY <1>1, <2>1
<1>3. BeginsWith(p, own) /\ own \in Seq(Arcs(tr))
  BY <1>0, <1>1, OwnPrefix, OwnTyped
<1>4. o \in Seq(Arcs(tr)) /\ p = o \o <<a>>
  <2>1. OwnStep(tr, nm, s, x, m)
    BY <1>1, OwnGrows, Zenon
  <2>2. o \in Seq(Arcs(tr))
    BY <2>1, Zenon DEF OwnStep
  <2>3. OwnIn(tr, nm, s, x, m + 1) = o \o <<tr.arcs[s][m + 1]>>
    <3>1. NumberIn(nm, tr.arcs[s][m + 1].in) = x
      BY <1>1
    <3> HIDE DEF x, m
    <3> QED
      BY <2>1, <3>1, Zenon DEF OwnStep
  <2> QED
    BY <1>1, <2>2, <2>3, Zenon
<1> HIDE DEF x, m, o, a, own, p
<1>5. Len(p) = Len(o) + 1 /\ Len(o) \in Nat /\ p[Len(p)] = a
  BY <1>2, <1>4
<1>6. Len(p) \in 1 .. Len(own) /\ own[Len(p)] = a
  BY <1>3, <1>5 DEF BeginsWith
<1> QED
  BY <1>3, <1>6 DEF OwnAt, x, own, p, a

\* Two arcs with the same input have places of their own.
OwnApart(tr, nm, s, i, j) ==
    NumberIn(nm, tr.arcs[s][i].in) = NumberIn(nm, tr.arcs[s][j].in)
      => Len(OwnIn(tr, nm, s, NumberIn(nm, tr.arcs[s][i].in), i))
           < Len(OwnIn(tr, nm, s, NumberIn(nm, tr.arcs[s][j].in), j))

\* Of two arcs with one input the later has the later place.
LEMMA OwnPlacesApart ==
    ASSUME NEW tr, IsTransducer(tr), NEW nm, NEW s \in States(tr),
           NEW j \in 1 .. Len(tr.arcs[s]), NEW i \in 1 .. j - 1
    PROVE  OwnApart(tr, nm, s, i, j)
<1> DEFINE x == NumberIn(nm, tr.arcs[s][j].in)
           m == j - 1
           p == OwnIn(tr, nm, s, x, i)
           q == OwnIn(tr, nm, s, x, j)
           o == OwnIn(tr, nm, s, x, m)
           a == tr.arcs[s][j]
           L == Len(tr.arcs[s])
<1>0. L \in Nat
  BY StringsOfState
<1>1. m \in Nat /\ m + 1 = j /\ m + 1 <= L /\ m <= L /\ i \in Nat /\ i <= m
  BY <1>0
<1>2. a \in Arcs(tr)
  <2>1. tr.arcs[s] \in Seq(Arcs(tr))
    BY DEF IsTransducer, Arcs
  <2> QED
    BY <1>1, <2>1
<1>3. BeginsWith(p, o)
  BY <1>1, OwnPrefix
<1>4. o \in Seq(Arcs(tr)) /\ q = o \o <<a>>
  <2>1. OwnStep(tr, nm, s, x, m)
    BY <1>1, OwnGrows, Zenon
  <2>2. o \in Seq(Arcs(tr))
    BY <2>1, Zenon DEF OwnStep
  <2>3. OwnIn(tr, nm, s, x, m + 1) = o \o <<tr.arcs[s][m + 1]>>
    <3>1. NumberIn(nm, tr.arcs[s][m + 1].in) = x
      BY <1>1
    <3> HIDE DEF x, m
    <3> QED
      BY <2>1, <3>1, Zenon DEF OwnStep
  <2> QED
    BY <1>1, <2>2, <2>3, Zenon
<1> HIDE DEF x, m, o, a, p, q
<1>5. Len(p) < Len(q)
  <2>1. Len(q) = Len(o) + 1 /\ Len(o) \in Nat
    BY <1>2, <1>4
  <2> QED
    BY <1>3, <2>1 DEF BeginsWith
<1> QED
  BY <1>5 DEF OwnApart, x, p, q

\* The place of the arc i of s among those with its input, and among all in the part of
\* s in the transition table.
Input(s, i) == NumberIn(num, t.arcs[s][i].in)
Turn(s, i) == Len(OwnIn(t, num, s, Input(s, i), i))
Spot(s, i) ==
    IF Input(s, i) \in ZeroOf(flags, ph[s])
    THEN Place(ph[s], ZeroOf(flags, ph[s]), Input(s, i)) + Turn(s, i)
    ELSE Len(ZeroArcs(ph, flags, ph[s]))
           + (Place(ph[s], OtherOf(flags, ph[s]), Input(s, i)) + Turn(s, i))

\* The entry that arc a is written as.
Entry(a) ==
    [in |-> NumberIn(num, a.in), out |-> NumberIn(num, a.out), to |-> AddressIn(ph, a.to)]

\* At the spot of arc i is its entry.
SpotFacts(s, i) ==
    /\ Spot(s, i) \in 1 .. Len(t.arcs[s])
    /\ wtrans[ph[s].first + Spot(s, i)] = Entry(t.arcs[s][i])

\* Arc i is found in q, the blocks of the inputs in X.
FoundAt(s, i, X, q) ==
    /\ Place(ph[s], X, Input(s, i)) + Turn(s, i) \in 1 .. Len(q)
    /\ q[Place(ph[s], X, Input(s, i)) + Turn(s, i)] = Entry(t.arcs[s][i])

\* An arc is found in the list of all blocks, in that of its input, at its turn.
LEMMA ListedAt ==
    ASSUME Through, NEW s \in States(t), NEW i \in 1 .. Len(t.arcs[s]), NEW X \in SUBSET DOMAIN ph[s].by,
           Input(s, i) \in X, NEW q, Listed(ph, ph[s], X, NO_SYMBOL_NUMBER + 1, q)
    PROVE  FoundAt(s, i, X, q)
<1> DEFINE x == Input(s, i)
           r == Turn(s, i)
           n == Len(t.arcs[s])
           p == ph[s]
           own == OwnIn(t, num, s, x, n)
           a == t.arcs[s][i]
<1>1. StateFacts(s) /\ Addressed(t, ph) /\ IsTransducer(t)
  BY StateFactsHold, AddressedHolds DEF Through, TypeOK
<1>2. /\ x \in DOMAIN p.by /\ p.by[x] = Conv(num, x, own) /\ p.by[x] \in Seq(Arcs(t))
      /\ n \in Nat
  BY <1>1 DEF StateFacts, GatheredAt, IsBy
<1>3. r \in 1 .. Len(own) /\ own[r] = a /\ own \in Seq(Arcs(t))
  <2>1. OwnAt(t, num, s, i, n)
    BY <1>1, <1>2, OwnPlace
  <2> QED
    BY <2>1, Zenon DEF OwnAt, Turn, Input
<1>4. x \in Nat /\ x < NO_SYMBOL_NUMBER + 1
  BY NumbersBelow DEF Input
<1> HIDE DEF own, x, r, n, p
<1>5. r \in DOMAIN own /\ DOMAIN own = 1 .. Len(own)
  BY <1>3
<1>6. p.by[x][r] = [in |-> x, out |-> NumberIn(num, a.out), to |-> a.to]
  BY <1>2, <1>3, <1>5 DEF Conv
<1>7. Len(p.by[x]) = Len(own)
  <2>1. DOMAIN p.by[x] = DOMAIN own
    BY <1>2 DEF Conv
  <2> QED
    BY <1>2, <1>3, <2>1
<1>8. Place(p, X, x) + r \in 1 .. Len(q) /\ q[Place(p, X, x) + r] = WrittenIn(ph, x, p.by[x])[r]
  <2>1. r \in 1 .. Len(p.by[x])
    BY <1>3, <1>7
  <2> QED
    BY <1>4, <2>1 DEF Listed, x, p
<1>9. WrittenIn(ph, x, p.by[x])[r] = [in |-> x, out |-> p.by[x][r].out, to |-> AddressIn(ph, p.by[x][r].to)]
  BY <1>1, <1>2, <1>3, <1>4, <1>7, WrittenHolds
<1>10. WrittenIn(ph, x, p.by[x])[r] = Entry(a)
  <2>1. x = NumberIn(num, a.in)
    BY DEF x, Input
  <2> HIDE DEF a
  <2> QED
    BY <1>6, <1>9, <2>1 DEF Entry
<1> QED
  BY <1>8, <1>10, Zenon DEF FoundAt, x, r, p

\* The entry at the spot of an arc is the entry of that arc.
LEMMA SpotIs ==
    ASSUME Through, NEW s \in States(t), NEW i \in 1 .. Len(t.arcs[s]) PROVE SpotFacts(s, i)
<1> DEFINE x == Input(s, i)
           n == Len(t.arcs[s])
           a == t.arcs[s][i]
           d == Spot(s, i)
<1>1. PICK p, f, zq, oq, Z, O : Parts(s, p, f, zq, oq, Z, O)
  BY PartsHold
<1>2. /\ p = ph[s] /\ f = ph[s].first /\ f \in Nat /\ Len(zq) \in Nat /\ Len(oq) \in Nat
      /\ Z = ZeroOf(flags, p) /\ O = OtherOf(flags, p)
      /\ zq = ZeroArcs(ph, flags, p) /\ oq = OtherArcs(ph, flags, p)
      /\ \A j \in 1 .. Len(zq) : wtrans[f + j] = zq[j]
      /\ \A j \in 1 .. Len(oq) : wtrans[f + Len(zq) + j] = oq[j]
  BY <1>1 DEF Parts
<1>3. StateFacts(s)
  BY StateFactsHold DEF Through
<1>4. /\ n = Len(zq) + Len(oq) /\ n \in Nat
      /\ Listed(ph, p, Z, NO_SYMBOL_NUMBER + 1, zq)
      /\ Listed(ph, p, O, NO_SYMBOL_NUMBER + 1, oq)
  BY <1>2, <1>3 DEF StateFacts, Grouped
<1>5. x \in DOMAIN p.by /\ Z \in SUBSET DOMAIN p.by /\ O = DOMAIN p.by \ Z
  BY <1>2, <1>3 DEF StateFacts, GatheredAt, Input, ZeroOf, OtherOf
<1> DEFINE lz == Len(zq)
           lo == Len(oq)
<1>6. CASE x \in Z
  <2>1. d = Place(p, Z, x) + Turn(s, i)
    BY <1>2, <1>6 DEF Spot
  <2>2. d \in 1 .. Len(zq) /\ zq[d] = Entry(a)
    <3>1. FoundAt(s, i, Z, zq)
      BY <1>2, <1>4, <1>5, <1>6, ListedAt
    <3> QED
      BY <1>2, <2>1, <3>1, Zenon DEF FoundAt
  <2> HIDE DEF d, n
  <2>3. d \in 1 .. n
    BY <1>2, <1>4, <2>2
  <2>4. wtrans[f + d] = Entry(a)
    BY <1>2, <2>2
  <2> QED
    BY <1>2, <2>3, <2>4 DEF SpotFacts, d, n
<1>7. CASE x \notin Z
  <2> DEFINE e == Place(p, O, x) + Turn(s, i)
  <2>1. d = lz + e
    BY <1>2, <1>7 DEF Spot
  <2>2. e \in 1 .. lo /\ oq[e] = Entry(a)
    <3>1. FoundAt(s, i, O, oq)
      <4>1. O \in SUBSET DOMAIN ph[s].by /\ x \in O
        BY <1>2, <1>5, <1>7
      <4> QED
        BY <1>2, <1>4, <4>1, ListedAt
    <3> QED
      BY <1>2, <3>1, Zenon DEF FoundAt
  <2>0. lz \in Nat /\ lo \in Nat /\ n = lz + lo /\ wtrans[f + lz + e] = oq[e]
    <3>1. wtrans[f + Len(zq) + e] = oq[e]
      <4> HIDE DEF e
      <4> QED
        BY <1>2, <2>2
    <3> QED
      BY <1>2, <1>4, <3>1
  <2> HIDE DEF d, n, e, lz, lo
  <2>3. d \in 1 .. n /\ f + lz + e = f + d
    BY <1>2, <2>0, <2>1, <2>2
  <2>4. wtrans[f + d] = Entry(a)
    BY <2>0, <2>2, <2>3
  <2> QED
    BY <1>2, <2>3, <2>4 DEF SpotFacts, d, n
<1> QED
  BY <1>6, <1>7

\* No two arcs are written to the same place.
LEMMA SpotsApart ==
    ASSUME Through, NEW s \in States(t), NEW j \in 1 .. Len(t.arcs[s]), NEW i \in 1 .. j - 1
    PROVE  Spot(s, i) # Spot(s, j)
<1> SUFFICES ASSUME Spot(s, i) = Spot(s, j) PROVE FALSE
  OBVIOUS
<1> DEFINE n == Len(t.arcs[s])
<1>1. StateFacts(s) /\ IsTransducer(t)
  BY StateFactsHold DEF Through, TypeOK
<1>2. n \in Nat /\ i \in 1 .. n
  BY <1>1 DEF StateFacts
<1>3. SpotFacts(s, i) /\ SpotFacts(s, j)
  BY <1>2, SpotIs
<1>4. Entry(t.arcs[s][i]) = Entry(t.arcs[s][j])
  BY <1>3 DEF SpotFacts
<1>5. Input(s, i) = Input(s, j)
  BY <1>4 DEF Entry, Input
<1>6. Turn(s, i) < Turn(s, j)
  <2>1. OwnApart(t, num, s, i, j)
    BY <1>1, OwnPlacesApart
  <2> QED
    BY <1>5, <2>1, Zenon DEF OwnApart, Turn, Input
<1>7. Turn(s, i) \in Nat /\ Turn(s, j) \in Nat
  <2>1. OwnAt(t, num, s, i, n) /\ OwnAt(t, num, s, j, n)
    BY <1>1, <1>2, OwnPlace
  <2> QED
    BY <2>1 DEF OwnAt, Turn, Input
<1>8. /\ Place(ph[s], ZeroOf(flags, ph[s]), Input(s, i)) \in Nat
      /\ Input(s, i) \notin ZeroOf(flags, ph[s]) =>
           Place(ph[s], OtherOf(flags, ph[s]), Input(s, i)) \in Nat
      /\ Len(ZeroArcs(ph, flags, ph[s])) \in Nat
  <2>1. \A X \in SUBSET DOMAIN ph[s].by : \A x : Place(ph[s], X, x) \in Nat
    <3> SUFFICES ASSUME NEW X \in SUBSET DOMAIN ph[s].by, NEW x PROVE Place(ph[s], X, x) \in Nat
      OBVIOUS
    <3>1. Upto(X, x) \in SUBSET DOMAIN ph[s].by
      BY DEF Upto
    <3> QED
      BY <1>1, <3>1, ArcsFinite DEF Place, StateFacts
  <2>2. Len(ZeroArcs(ph, flags, ph[s])) \in Nat
    BY <1>1 DEF StateFacts, Grouped
  <2>3. ZeroOf(flags, ph[s]) \in SUBSET DOMAIN ph[s].by /\ OtherOf(flags, ph[s]) \in SUBSET DOMAIN ph[s].by
    BY DEF ZeroOf, OtherOf
  <2> QED
    BY <2>1, <2>2, <2>3
<1>9. CASE Input(s, i) \in ZeroOf(flags, ph[s])
  <2> DEFINE c == Place(ph[s], ZeroOf(flags, ph[s]), Input(s, i))
  <2>1. Spot(s, i) = c + Turn(s, i) /\ Spot(s, j) = c + Turn(s, j)
    BY <1>5, <1>9, Zenon DEF Spot
  <2>2. c \in Nat
    BY <1>8
  <2> DEFINE u == Turn(s, i)
             v == Turn(s, j)
  <2>3. c + u = c + v /\ u \in Nat /\ v \in Nat /\ u < v
    BY <1>6, <1>7, <2>1, Zenon
  <2> HIDE DEF c, u, v
  <2> QED
    BY <2>2, <2>3
<1>10. CASE Input(s, i) \notin ZeroOf(flags, ph[s])
  <2> DEFINE c == Place(ph[s], OtherOf(flags, ph[s]), Input(s, i))
             l == Len(ZeroArcs(ph, flags, ph[s]))
  <2>1. Spot(s, i) = l + (c + Turn(s, i)) /\ Spot(s, j) = l + (c + Turn(s, j))
    BY <1>5, <1>10, Zenon DEF Spot
  <2>2. c \in Nat /\ l \in Nat
    BY <1>8, <1>10
  <2> DEFINE u == Turn(s, i)
             v == Turn(s, j)
  <2>3. l + (c + u) = l + (c + v) /\ u \in Nat /\ v \in Nat /\ u < v
    BY <1>6, <1>7, <2>1, Zenon
  <2> HIDE DEF c, l, u, v
  <2> QED
    BY <2>2, <2>3
<1> QED
  BY <1>9, <1>10

-----------------------------------------------------------------------------
(* The arcs of a state, there and back *)

\* Two sequences with the same elements, each as often in the one as in the other.
SameCounts(p, q) == \A v : Count(p, v) = Count(q, v)

\* m tells where in q the elements of p are.
Permutes(n, p, q, m) ==
    /\ n \in Nat /\ DOMAIN p = 1 .. n /\ DOMAIN q = 1 .. n /\ m \in [1 .. n -> 1 .. n]
    /\ \A i, j \in 1 .. n : m[i] = m[j] => i = j
    /\ \A i \in 1 .. n : q[m[i]] = p[i]

\* If each element of p is in q, at a place of its own, q has the same elements as often.
LEMMA Permuted ==
    ASSUME NEW n, NEW p, NEW q, NEW m, Permutes(n, p, q, m) PROVE SameCounts(p, q)
<1> DEFINE D == 1 .. n
<1>0. n \in Nat
  BY DEF Permutes
<1>1. IsFiniteSet(D) /\ Cardinality(D) = n
  BY <1>0, CountUpTo
<1>2. DOMAIN p = D /\ DOMAIN q = D /\ m \in [D -> D] /\ m \in Injection(D, D)
  BY DEF Permutes, Injection, IsInjective
<1>3. \A i \in D : q[m[i]] = p[i]
  BY DEF Permutes
<1>4. \A i, j \in D : m[i] = m[j] => i = j
  BY DEF Permutes
<1> HIDE DEF D
<1>5. m \in Surjection(D, D)
  BY <1>1, <1>2, FS_Injection
<1> SUFFICES ASSUME NEW v PROVE Count(p, v) = Count(q, v)
  BY DEF SameCounts
<1> DEFINE A == {i \in D : p[i] = v}
           B == {j \in D : q[j] = v}
           g == [i \in A |-> m[i]]
<1>6. IsFiniteSet(A)
  <2>1. A \in SUBSET D
    OBVIOUS
  <2> HIDE DEF A
  <2> QED
    BY <1>1, <2>1, FS_Subset
<1>7. g \in [A -> B]
  <2>1. \A i \in A : m[i] \in B
    BY <1>2, <1>3
  <2> QED
    BY <2>1
<1>8. \A i, j \in A : g[i] = g[j] => i = j
  BY <1>4
<1>9. \A j \in B : \E i \in A : g[i] = j
  <2> SUFFICES ASSUME NEW j \in B PROVE \E i \in A : g[i] = j
    OBVIOUS
  <2>1. PICK i \in D : m[i] = j
    BY <1>5 DEF Surjection
  <2>2. i \in A
    BY <1>3, <2>1
  <2> QED
    BY <2>1, <2>2
<1>10. Count(p, v) = Cardinality(A) /\ Count(q, v) = Cardinality(B)
  BY <1>2 DEF Count
<1> HIDE DEF A, B, g
<1>11. ExistsBijection(A, B)
  <2>1. g \in Bijection(A, B)
    BY <1>7, <1>8, <1>9 DEF Bijection, Injection, Surjection, IsInjective
  <2> QED
    BY <2>1 DEF ExistsBijection
<1> QED
  BY <1>6, <1>10, <1>11, FS_Bijection

\* The arcs of s with targets renamed by M, as they are in the graph and as they are read.
OldArcs(s, M) ==
    [i \in 1 .. Len(t.arcs[s]) |->
        [in |-> KeptAs(t.arcs[s][i].in), out |-> KeptAs(t.arcs[s][i].out),
         to |-> M[Address(t.arcs[s][i].to)]]]
ReadEntry(e, M) == [in |-> StringOf(e.in), out |-> StringOf(e.out), to |-> M[e.to]]
NewArcs(s, M) ==
    [i \in 1 .. Len(t.arcs[s]) |-> ReadEntry(wtrans[ph[s].first + i], M)]

\* An arc whose entry is read back has the strings it had, as far as they have numbers.
LEMMA EntryBack ==
    ASSUME NamesFit, NEW s, NEW i, NEW M
    PROVE  ReadEntry(Entry(t.arcs[s][i]), M)
             = [in |-> KeptAs(t.arcs[s][i].in), out |-> KeptAs(t.arcs[s][i].out),
                to |-> M[Address(t.arcs[s][i].to)]]
<1> DEFINE a == t.arcs[s][i]
<1> HIDE DEF a
<1>1. StringOf(NumberIn(num, a.in)) = KeptAs(a.in) /\ StringOf(NumberIn(num, a.out)) = KeptAs(a.out)
  BY StringBack, NumberIs
<1>2. AddressIn(ph, a.to) = Address(a.to)
  BY AddressIs
<1>3. ReadEntry(Entry(a), M) = [in |-> KeptAs(a.in), out |-> KeptAs(a.out), to |-> M[Address(a.to)]]
  BY <1>1, <1>2 DEF ReadEntry, Entry
<1> QED
  BY <1>3 DEF a

\* The arcs read back are those of the graph, in another order.
LEMMA ArcsBack ==
    ASSUME Through, NamesFit, NEW s \in States(t), NEW M
    PROVE  SameCounts(OldArcs(s, M), NewArcs(s, M))
<1> DEFINE n == Len(t.arcs[s])
           m == [i \in 1 .. n |-> Spot(s, i)]
           p == OldArcs(s, M)
           q == NewArcs(s, M)
<1>1. n \in Nat
  BY StateFactsHold DEF Through, StateFacts
<1>2. \A i \in 1 .. n : SpotFacts(s, i)
  BY SpotIs
<1>3. DOMAIN p = 1 .. n /\ DOMAIN q = 1 .. n
  BY DEF OldArcs, NewArcs
<1>4. m \in [1 .. n -> 1 .. n]
  BY <1>2 DEF SpotFacts
<1>5. \A i, j \in 1 .. n : m[i] = m[j] => i = j
  <2> SUFFICES ASSUME NEW i \in 1 .. n, NEW j \in 1 .. n, m[i] = m[j], i # j PROVE FALSE
    OBVIOUS
  <2>1. i \in 1 .. j - 1 \/ j \in 1 .. i - 1
    BY <1>1
  <2>2. Spot(s, i) = Spot(s, j)
    OBVIOUS
  <2> QED
    BY <2>1, <2>2, SpotsApart
<1>6. \A i \in 1 .. n : q[m[i]] = p[i]
  <2> SUFFICES ASSUME NEW i \in 1 .. n PROVE q[m[i]] = p[i]
    OBVIOUS
  <2>1. m[i] \in 1 .. n /\ wtrans[ph[s].first + m[i]] = Entry(t.arcs[s][i])
    BY <1>2 DEF SpotFacts
  <2> HIDE DEF m
  <2>2. q[m[i]] = ReadEntry(Entry(t.arcs[s][i]), M)
    BY <2>1 DEF NewArcs
  <2>3. p[i] = [in |-> KeptAs(t.arcs[s][i].in), out |-> KeptAs(t.arcs[s][i].out),
                to |-> M[Address(t.arcs[s][i].to)]]
    BY DEF OldArcs
  <2> QED
    BY <2>2, <2>3, EntryBack
<1> HIDE DEF m, n, p, q
<1>7. SameCounts(p, q)
  <2>1. Permutes(n, p, q, m)
    BY <1>1, <1>3, <1>4, <1>5, <1>6 DEF Permutes
  <2> QED
    BY <2>1, Permuted
<1> QED
  BY <1>7 DEF p, q

\* Every entry in the part of a state is one of its arcs.
LEMMA EntriesAreArcs ==
    ASSUME Through, NEW s \in States(t), NEW j \in 1 .. Len(t.arcs[s])
    PROVE  \E i \in 1 .. Len(t.arcs[s]) : wtrans[ph[s].first + j] = Entry(t.arcs[s][i])
<1> DEFINE n == Len(t.arcs[s])
           m == [i \in 1 .. n |-> Spot(s, i)]
           D == 1 .. n
<1>1. n \in Nat
  BY StateFactsHold DEF Through, StateFacts
<1>2. \A i \in 1 .. n : SpotFacts(s, i)
  BY SpotIs
<1>3. m \in [D -> D]
  BY <1>2 DEF SpotFacts
<1>4. \A i, k_1 \in D : m[i] = m[k_1] => i = k_1
  <2> SUFFICES ASSUME NEW i \in 1 .. n, NEW k_1 \in 1 .. n, m[i] = m[k_1], i # k_1 PROVE FALSE
    OBVIOUS
  <2>1. i \in 1 .. k_1 - 1 \/ k_1 \in 1 .. i - 1
    BY <1>1
  <2>2. Spot(s, i) = Spot(s, k_1)
    OBVIOUS
  <2> QED
    BY <2>1, <2>2, SpotsApart
<1>5. IsFiniteSet(D) /\ Cardinality(D) = n
  BY <1>1, CountUpTo
<1>6. j \in D
  OBVIOUS
<1>7. \A i \in D : m[i] = Spot(s, i)
  OBVIOUS
<1> HIDE DEF m, D
<1>8. m \in Surjection(D, D)
  <2>1. m \in Injection(D, D)
    BY <1>3, <1>4 DEF Injection, IsInjective
  <2> QED
    BY <1>5, <2>1, FS_Injection
<1>9. PICK i \in D : m[i] = j
  BY <1>6, <1>8 DEF Surjection
<1> QED
  BY <1>2, <1>7, <1>9 DEF D, SpotFacts

-----------------------------------------------------------------------------
(* New states for targets not seen before *)

\* new lists the elements of S once each.
ListsOnce(new, S) ==
    /\ Len(new) \in Nat /\ DOMAIN new = 1 .. Len(new) /\ new \in Seq(S)
    /\ \A i, j \in 1 .. Len(new) : new[i] = new[j] => i = j
    /\ S = Range(new)

\* NewTargets lists each target without a number once.
LEMMA NewTargetsAre ==
    ASSUME NEW n \in Nat, NEW q, DOMAIN q = 1 .. n
    PROVE  ListsOnce(NewTargets(q), Range(q) \ DOMAIN state_map)
<1> DEFINE fresh == {i \in DOMAIN q : /\ q[i] \notin DOMAIN state_map
                                      /\ \A j \in 1 .. i - 1 : q[j] # q[i]}
           o == InOrder(fresh)
           c == Cardinality(fresh)
           new == NewTargets(q)
           S == Range(q) \ DOMAIN state_map
<1>1. fresh \in SUBSET (1 .. n) /\ fresh \in SUBSET Nat
  OBVIOUS
<1>2. /\ \A i \in fresh : i \in 1 .. n /\ q[i] \in S
      /\ \A i, j \in fresh : q[i] = q[j] => i = j
  <2>1. \A i \in fresh : i \in 1 .. n /\ q[i] \in S
    BY DEF Range
  <2>2. ASSUME NEW i \in fresh, NEW j \in fresh, i < j PROVE q[i] # q[j]
    <3>1. i \in 1 .. j - 1
      BY <1>1, <2>2
    <3> QED
      BY <3>1
  <2>3. \A i, j \in fresh : i < j \/ j < i \/ i = j
    BY <1>1
  <2> HIDE DEF fresh
  <2>4. \A i, j \in fresh : q[i] = q[j] => i = j
    BY <2>2, <2>3
  <2> QED
    BY <2>1, <2>4
<1>3. ASSUME NEW x \in S PROVE \E i \in fresh : q[i] = x
  <2> DEFINE with == {i \in 1 .. n : q[i] = x}
  <2>1. with \in SUBSET Nat /\ with # {}
    BY DEF Range
  <2>2. PICK i \in with : \A j \in with : i <= j
    <3> HIDE DEF with
    <3> QED
      BY <2>1, LeastElement
  <2>3. i \in 1 .. n /\ q[i] = x /\ x \notin DOMAIN state_map
    OBVIOUS
  <2>4. ASSUME NEW j \in 1 .. i - 1 PROVE q[j] # q[i]
    <3>1. j \in 1 .. n /\ ~(i <= j)
      BY <2>3
    <3> QED
      BY <2>2, <2>3, <3>1
  <2> QED
    BY <2>3, <2>4
<1>4. IsFiniteSet(fresh) /\ c \in Nat
  <2>1. IsFiniteSet(1 .. n)
    BY FS_Interval
  <2> HIDE DEF fresh
  <2> QED
    BY <1>1, <2>1, FS_Subset, FS_CardinalityType
<1>5. new = [m \in 1 .. c |-> q[o[m]]]
  BY DEF NewTargets
<1>6. DOMAIN o = 1 .. c
  BY DEF InOrder
<1> HIDE DEF fresh, o, new, c, S
<1>7. Enumerates(o, fresh)
  BY <1>1, <1>4, InOrderIs DEF o
<1>8. Len(o) = c
  BY <1>4, <1>6, <1>7 DEF Enumerates
<1>9. \A m \in 1 .. c : o[m] \in fresh /\ new[m] = q[o[m]] /\ new[m] \in S
  BY <1>2, <1>5, <1>7, <1>8 DEF Enumerates
<1>10. new \in Seq(S) /\ Len(new) = c /\ DOMAIN new = 1 .. c
  BY <1>4, <1>5, <1>9
<1>11. \A i, j \in 1 .. c : new[i] = new[j] => i = j
  BY <1>2, <1>7, <1>8, <1>9 DEF Enumerates
<1>12. S = Range(new)
  <2>1. ASSUME NEW x \in S PROVE x \in Range(new)
    <3>1. PICK i \in fresh : q[i] = x
      BY <1>3
    <3>2. PICK m \in 1 .. c : o[m] = i
      BY <1>7, <1>8 DEF Enumerates
    <3> QED
      BY <1>9, <1>10, <3>1, <3>2 DEF Range
  <2>2. ASSUME NEW x \in Range(new) PROVE x \in S
    BY <1>9, <1>10 DEF Range
  <2> QED
    BY <2>1, <2>2
<1> QED
  BY <1>4, <1>10, <1>11, <1>12 DEF ListsOnce, new, S

\* States are numbered from 0 in the order their addresses are found.
Numbered(M) ==
    /\ IsFiniteSet(DOMAIN M) /\ Cardinality(DOMAIN M) \in Nat /\ 0 \in DOMAIN M /\ M[0] = 0
    /\ \A a \in DOMAIN M : M[a] \in 0 .. Cardinality(DOMAIN M) - 1
    /\ \A a, b \in DOMAIN M : M[a] = M[b] => a = b

\* state_map with the addresses in new.
More(M, new) ==
    [a \in DOMAIN M \cup Range(new) |->
        IF a \in DOMAIN M THEN M[a]
        ELSE Cardinality(DOMAIN M) - 1 + (CHOOSE n \in DOMAIN new : new[n] = a)]

\* N is M with the numbers that follow for the addresses in new.
Extends(M, new, N) ==
    /\ Numbered(N) /\ DOMAIN N = DOMAIN M \cup Range(new)
    /\ \A a \in DOMAIN M : N[a] = M[a]
    /\ \A n \in 1 .. Len(new) : N[new[n]] = Cardinality(DOMAIN M) - 1 + n

\* The new addresses get the numbers that follow, those before keep theirs.
LEMMA MoreExtends ==
    ASSUME NEW M, Numbered(M), NEW new, NEW S, ListsOnce(new, S), S \cap DOMAIN M = {}
    PROVE  Extends(M, new, More(M, new))
<1> DEFINE D == DOMAIN M
           c == Cardinality(D)
           l == Len(new)
           N == More(M, new)
           Pos(a) == CHOOSE n \in DOMAIN new : new[n] = a
<1>1. /\ l \in Nat /\ DOMAIN new = 1 .. l /\ S = Range(new) /\ c \in Nat /\ IsFiniteSet(D)
      /\ \A i, j \in 1 .. l : new[i] = new[j] => i = j
      /\ \A i \in 1 .. l : new[i] \in S
  BY DEF ListsOnce, Numbered
<1>2. DOMAIN N = D \cup S /\ \A a \in D : N[a] = M[a]
  BY <1>1 DEF More
<1>3. \A n \in 1 .. l : N[new[n]] = (c - 1) + n
  <2> SUFFICES ASSUME NEW n \in 1 .. l PROVE N[new[n]] = (c - 1) + n
    OBVIOUS
  <2>1. Pos(new[n]) = n
    BY <1>1
  <2>2. new[n] \in S /\ new[n] \notin D
    BY <1>1
  <2>3. N[new[n]] = (c - 1) + Pos(new[n])
    BY <1>1, <2>2 DEF More
  <2> QED
    BY <2>1, <2>3
<1>4. IsFiniteSet(S) /\ Cardinality(S) = l
  <2> DEFINE I == 1 .. l
  <2>1. IsFiniteSet(I) /\ Cardinality(I) = l
    BY <1>1, CountUpTo
  <2>2. new \in [I -> S] /\ \A a \in S : \E i \in I : new[i] = a
    BY <1>1 DEF ListsOnce, Range
  <2>3. \A i, j \in I : new[i] = new[j] => i = j
    BY <1>1
  <2> HIDE DEF I, l
  <2>4. ExistsBijection(I, S)
    BY <2>2, <2>3 DEF ExistsBijection, Bijection, Injection, Surjection, IsInjective
  <2> QED
    BY <2>1, <2>4, FS_Bijection
<1>5. IsFiniteSet(D \cup S) /\ Cardinality(D \cup S) = c + l
  BY <1>1, <1>4, DisjointCount
<1>6. \A a \in D : M[a] \in 0 .. c - 1
  BY DEF Numbered
<1>7. \A a, b \in D : M[a] = M[b] => a = b
  BY DEF Numbered
<1>8. 0 \in D /\ M[0] = 0
  BY DEF Numbered
<1>9. \A a \in S : \E n \in 1 .. l : a = new[n]
  BY <1>1 DEF Range
<1>10. Extends(M, new, N) <=>
         /\ Numbered(N) /\ DOMAIN N = D \cup S /\ \A a \in D : N[a] = M[a]
         /\ \A n \in 1 .. l : N[new[n]] = (c - 1) + n
  BY <1>1 DEF Extends
<1> HIDE DEF N, l, c, D, Pos
<1>11. \A a \in D \cup S : N[a] \in 0 .. c + l - 1
  <2> SUFFICES ASSUME NEW a \in D \cup S PROVE N[a] \in 0 .. c + l - 1
    OBVIOUS
  <2>1. CASE a \in D
    <3>1. N[a] \in 0 .. c - 1
      BY <1>2, <1>6, <2>1
    <3> QED
      BY <1>1, <3>1
  <2>2. CASE a \in S
    <3>1. PICK n \in 1 .. l : a = new[n]
      BY <1>9, <2>2
    <3>2. N[a] = (c - 1) + n
      BY <1>3, <3>1
    <3> QED
      BY <1>1, <3>2
  <2> QED
    BY <2>1, <2>2
<1>12. \A a, b \in D \cup S : N[a] = N[b] => a = b
  <2>1. ASSUME NEW a \in D, NEW b \in S PROVE N[a] # N[b]
    <3>1. PICK n \in 1 .. l : b = new[n]
      BY <1>9
    <3>2. N[b] = (c - 1) + n /\ N[a] \in 0 .. c - 1
      BY <1>2, <1>3, <1>6, <3>1
    <3> QED
      BY <1>1, <3>2
  <2>2. ASSUME NEW a \in S, NEW b \in S, N[a] = N[b] PROVE a = b
    <3>1. PICK n \in 1 .. l : a = new[n]
      BY <1>9
    <3>2. PICK m \in 1 .. l : b = new[m]
      BY <1>9
    <3>3. (c - 1) + n = (c - 1) + m
      BY <1>3, <2>2, <3>1, <3>2
    <3>4. n = m
      BY <1>1, <3>3
    <3> QED
      BY <3>1, <3>2, <3>4
  <2>3. ASSUME NEW a \in D, NEW b \in D, N[a] = N[b] PROVE a = b
    BY <1>2, <1>7, <2>3
  <2> QED
    BY <2>1, <2>2, <2>3
<1>13. Numbered(N)
  <2>1. c + l \in Nat
    BY <1>1
  <2>2. N[0] = 0 /\ 0 \in DOMAIN N
    BY <1>2, <1>8
  <2> DEFINE E == DOMAIN N
             m == Cardinality(E)
  <2>3. E = D \cup S /\ m = c + l
    BY <1>2, <1>5, Zenon
  <2>5. \A a, b \in E : N[a] = N[b] => a = b
    BY <1>12, <2>3
  <2> HIDE DEF E, m
  <2>6. IsFiniteSet(E) /\ m \in Nat
    BY <1>5, <2>1, <2>3
  <2>7. c + l - 1 = m - 1
    BY <1>1, <2>3
  <2>4. IsFiniteSet(E) /\ m \in Nat /\ \A a \in E : N[a] \in 0 .. m - 1
    BY <1>11, <2>3, <2>6, <2>7
  <2> QED
    BY <2>2, <2>4, <2>5 DEF Numbered, E, m
<1> QED
  BY <1>2, <1>3, <1>10, <1>13 DEF N

-----------------------------------------------------------------------------
(* Reading back, state by state *)

\* The agenda holds addresses of states, each once.
Waiting(M, ag) ==
    /\ ag \in Seq(DOMAIN M) /\ Len(ag) \in Nat
    /\ \A i, j \in 1 .. Len(ag) : ag[i] = ag[j] => i = j

\* A state taken off the agenda is done, and those it led to first wait.
AgendaAfter(M, ag, new, N) ==
    /\ Waiting(N, Front(ag) \o new)
    /\ Last(ag) \in DOMAIN M /\ Last(ag) \in Range(ag)
    /\ DOMAIN N \ Range(Front(ag) \o new) = (DOMAIN M \ Range(ag)) \cup {Last(ag)}

\* So it is when one is taken from the end and the new ones are added there.
LEMMA AgendaTaken ==
    ASSUME NEW M, NEW ag, ag # << >>, Waiting(M, ag), NEW S, NEW new, ListsOnce(new, S),
           S \cap DOMAIN M = {}, NEW N, DOMAIN N = DOMAIN M \cup S
    PROVE  AgendaAfter(M, ag, new, N)
<1> DEFINE D == DOMAIN M
           E == DOMAIN N
           l == Len(ag)
           k_1 == Len(new)
           fr == Front(ag)
           both == fr \o new
<1>1. /\ ag \in Seq(D) /\ l \in Nat \ {0} /\ DOMAIN ag = 1 .. l
      /\ \A i \in 1 .. l : ag[i] \in D
      /\ \A i, j \in 1 .. l : ag[i] = ag[j] => i = j
  <2>1. l # 0
    BY DEF Waiting
  <2> QED
    BY <2>1 DEF Waiting
<1>2. /\ k_1 \in Nat /\ DOMAIN new = 1 .. k_1 /\ \A i \in 1 .. k_1 : new[i] \in S
      /\ \A i, j \in 1 .. k_1 : new[i] = new[j] => i = j
      /\ S = Range(new)
  BY DEF ListsOnce
<1>3. /\ fr \in Seq(D) /\ Len(fr) = l - 1 /\ \A i \in 1 .. l - 1 : fr[i] = ag[i]
  <2>1. fr = [i \in 1 .. l - 1 |-> ag[i]]
    BY <1>1 DEF Front
  <2>2. l - 1 \in Nat /\ \A i \in 1 .. l - 1 : i \in 1 .. l
    BY <1>1
  <2> HIDE DEF fr, l
  <2> QED
    BY <1>1, <2>1, <2>2
<1>4. Last(ag) = ag[l]
  BY DEF Last
<1>5. E = D \cup S /\ S \cap D = {}
  OBVIOUS
<1> HIDE DEF D, E, l, k_1, fr
<1>6. fr \in Seq(E) /\ new \in Seq(E)
  <2>1. new \in [1 .. k_1 -> E] /\ fr \in [1 .. l - 1 -> E]
    <3>1. new \in [1 .. k_1 -> S]
      BY <1>2 DEF ListsOnce, k_1
    <3>2. fr \in [1 .. l - 1 -> D]
      BY <1>3
    <3> QED
      BY <1>5, <3>1, <3>2
  <2>2. k_1 \in Nat /\ l - 1 \in Nat
    BY <1>1, <1>2
  <2> QED
    BY <2>1, <2>2
<1>7. Joined(E, fr, new, both)
  BY <1>6, JoinedIs
<1>8. /\ both \in Seq(E) /\ Len(both) = (l - 1) + k_1
      /\ \A i \in 1 .. l - 1 : both[i] = ag[i]
      /\ \A i \in 1 .. k_1 : both[(l - 1) + i] = new[i]
  BY <1>3, <1>7 DEF Joined, k_1
<1> DEFINE m == l - 1
<1>9. m \in Nat /\ l = m + 1 /\ \A i \in 1 .. m : i \in 1 .. l
  BY <1>1
<1> HIDE DEF both, m
<1>10. \A i \in 1 .. m + k_1 : \/ i \in 1 .. m /\ both[i] = ag[i]
                               \/ \E j \in 1 .. k_1 : i = m + j /\ both[i] = new[j]
  <2> SUFFICES ASSUME NEW i \in 1 .. m + k_1, i \notin 1 .. m
               PROVE  \E j \in 1 .. k_1 : i = m + j /\ both[i] = new[j]
    BY <1>8 DEF m
  <2> DEFINE j == i - m
  <2>1. j \in 1 .. k_1 /\ i = m + j
    BY <1>2, <1>9
  <2> HIDE DEF j
  <2> QED
    BY <1>8, <2>1 DEF m
<1>11. \A i, j \in 1 .. m + k_1 : both[i] = both[j] => i = j
  <2> SUFFICES ASSUME NEW i \in 1 .. m + k_1, NEW j \in 1 .. m + k_1, both[i] = both[j]
               PROVE  i = j
    OBVIOUS
  <2>1. CASE i \in 1 .. m /\ both[i] = ag[i]
    <3>1. both[j] \in D
      BY <1>1, <1>9, <2>1
    <3>2. j \in 1 .. m /\ both[j] = ag[j]
      BY <1>2, <1>5, <1>10, <3>1
    <3> QED
      BY <1>1, <1>9, <2>1, <3>2
  <2>2. CASE \E h \in 1 .. k_1 : i = m + h /\ both[i] = new[h]
    <3>1. PICK h \in 1 .. k_1 : i = m + h /\ both[i] = new[h]
      BY <2>2
    <3>2. both[j] \in S
      BY <1>2, <3>1
    <3>3. ~(j \in 1 .. m /\ both[j] = ag[j])
      BY <1>1, <1>5, <1>9, <3>2
    <3>4. PICK g \in 1 .. k_1 : j = m + g /\ both[j] = new[g]
      BY <1>10, <3>3
    <3> QED
      BY <1>2, <3>1, <3>4
  <2> QED
    BY <1>10, <2>1, <2>2
<1>12. Len(both) = m + k_1 /\ Len(both) \in Nat /\ DOMAIN both = 1 .. m + k_1
  BY <1>2, <1>8, <1>9 DEF m
<1>13. Waiting(N, both)
  BY <1>8, <1>11, <1>12 DEF Waiting, E
<1>14. ASSUME NEW a \in Range(both) PROVE (a \in Range(ag) /\ a # ag[l]) \/ a \in S
  <2>1. PICK i \in 1 .. m + k_1 : both[i] = a
    BY <1>12 DEF Range
  <2>2. CASE i \in 1 .. m /\ both[i] = ag[i]
    <3>1. i \in 1 .. l /\ i # l /\ l \in 1 .. l
      BY <1>1, <1>9, <2>2
    <3> QED
      BY <1>1, <2>1, <2>2, <3>1 DEF Range
  <2>3. CASE \E j \in 1 .. k_1 : i = m + j /\ both[i] = new[j]
    BY <1>2, <2>1, <2>3
  <2> QED
    BY <1>10, <2>2, <2>3
<1>15. ASSUME NEW a, (a \in Range(ag) /\ a # ag[l]) \/ a \in S PROVE a \in Range(both)
  <2>1. CASE a \in Range(ag) /\ a # ag[l]
    <3>1. PICK i \in 1 .. l : ag[i] = a
      BY <1>1, <2>1 DEF Range
    <3>2. i \in 1 .. m /\ i \in 1 .. m + k_1
      BY <1>1, <1>2, <1>9, <2>1, <3>1
    <3>3. both[i] = a
      BY <1>8, <3>1, <3>2 DEF m
    <3> QED
      BY <1>12, <3>2, <3>3 DEF Range
  <2>2. CASE a \in S
    <3>1. PICK j \in 1 .. k_1 : new[j] = a
      BY <1>2, <2>2 DEF Range
    <3>2. m + j \in 1 .. m + k_1
      BY <1>2, <1>9
    <3>3. both[m + j] = a
      BY <1>8, <3>1 DEF m
    <3> QED
      BY <1>12, <3>2, <3>3 DEF Range
  <2> QED
    BY <1>15, <2>1, <2>2
<1>16. Range(ag) \subseteq D /\ ag[l] \in Range(ag) /\ ag[l] \in D
  <2>1. l \in 1 .. l
    BY <1>1
  <2> QED
    BY <1>1, <2>1 DEF Range
<1>17. E \ Range(both) = (D \ Range(ag)) \cup {ag[l]}
  BY <1>5, <1>14, <1>15, <1>16
<1> QED
  BY <1>4, <1>13, <1>16, <1>17 DEF AgendaAfter, both, fr, D, E

\* The functions of the graph and its placeholders that reading back compares.
Addresses(tr, P) == {AddressIn(P, s) : s \in States(tr)}

KeptIn(nm, x) == IF x \in DOMAIN nm THEN x ELSE EPSILON

OldArcsIn(tr, nm, P, s, M) ==
    [i \in 1 .. Len(tr.arcs[s]) |->
        [in |-> KeptIn(nm, tr.arcs[s][i].in), out |-> KeptIn(nm, tr.arcs[s][i].out),
         to |-> M[AddressIn(P, tr.arcs[s][i].to)]]]

\* The state s has been read: its targets have numbers, and its arcs are in the new graph.
StateRead(tr, nm, P, M, arcs, s) ==
    /\ \A i \in 1 .. Len(tr.arcs[s]) : AddressIn(P, tr.arcs[s][i].to) \in DOMAIN M
    /\ Len(arcs[M[AddressIn(P, s)]]) = Len(tr.arcs[s])
    /\ SameCounts(OldArcsIn(tr, nm, P, s, M), arcs[M[AddressIn(P, s)]])

FinalsFound(tr, P, M) ==
    {M[AddressIn(P, s)] : s \in {r \in States(tr) : r \in tr.final /\ AddressIn(P, r) \in DOMAIN M}}

\* What has been read of the tables is the graph as far as it has been reached.
ReadSoFar(tr, nm, P, M, ag, arcs, final) ==
    /\ Numbered(M) /\ DOMAIN M \subseteq Addresses(tr, P) /\ Waiting(M, ag)
    /\ DOMAIN arcs = {M[a] : a \in DOMAIN M \ Range(ag)}
    /\ final = FinalsFound(tr, P, M)
    /\ \A s \in States(tr) :
         AddressIn(P, s) \in DOMAIN M \ Range(ag) => StateRead(tr, nm, P, M, arcs, s)

\* Numbers given later do not change what was read.
LEMMA StillRead ==
    ASSUME NEW tr, NEW nm, NEW P, NEW M, NEW arcs, NEW s, AddressIn(P, s) \in DOMAIN M,
           StateRead(tr, nm, P, M, arcs, s),
           NEW N, DOMAIN M \subseteq DOMAIN N, \A a \in DOMAIN M : N[a] = M[a],
           NEW more, more[M[AddressIn(P, s)]] = arcs[M[AddressIn(P, s)]]
    PROVE  StateRead(tr, nm, P, N, more, s)
<1> DEFINE n == Len(tr.arcs[s])
           To(i) == AddressIn(P, tr.arcs[s][i].to)
<1>1. \A i \in 1 .. n : To(i) \in DOMAIN M /\ N[To(i)] = M[To(i)]
  BY DEF StateRead
<1>2. \A i \in 1 .. n : To(i) \in DOMAIN N
  BY <1>1
<1>3. N[AddressIn(P, s)] = M[AddressIn(P, s)]
  OBVIOUS
<1>4. OldArcsIn(tr, nm, P, s, N) = OldArcsIn(tr, nm, P, s, M)
  BY <1>1 DEF OldArcsIn
<1>5. Len(more[N[AddressIn(P, s)]]) = n
  BY <1>3 DEF StateRead
<1>6. SameCounts(OldArcsIn(tr, nm, P, s, N), more[N[AddressIn(P, s)]])
  BY <1>3, <1>4, Zenon DEF StateRead
<1> QED
  BY <1>2, <1>5, <1>6, Zenon DEF StateRead

\* The targets an entry of a state can have.
TargetsOf(s) == {wtrans[ph[s].first + i].to : i \in 1 .. Len(t.arcs[s])}

\* They are the addresses of the states that the arcs of s lead to.
LEMMA TargetsAre ==
    ASSUME Through, NEW s \in States(t)
    PROVE  TargetsOf(s) = {AddressIn(ph, t.arcs[s][i].to) : i \in 1 .. Len(t.arcs[s])}
           /\ TargetsOf(s) \subseteq Addresses(t, ph)
<1> DEFINE n == Len(t.arcs[s])
           f == ph[s].first
           T == {AddressIn(ph, t.arcs[s][i].to) : i \in 1 .. n}
<1>1. \A i : Entry(t.arcs[s][i]).to = AddressIn(ph, t.arcs[s][i].to)
  BY DEF Entry
<1>2. ASSUME NEW j \in 1 .. n PROVE wtrans[f + j].to \in T
  <2>1. PICK i \in 1 .. n : wtrans[f + j] = Entry(t.arcs[s][i])
    BY EntriesAreArcs
  <2> QED
    BY <1>1, <2>1
<1>3. ASSUME NEW i \in 1 .. n PROVE AddressIn(ph, t.arcs[s][i].to) \in TargetsOf(s)
  <2>1. SpotFacts(s, i)
    BY SpotIs
  <2>2. Spot(s, i) \in 1 .. n /\ wtrans[f + Spot(s, i)].to = AddressIn(ph, t.arcs[s][i].to)
    BY <1>1, <2>1 DEF SpotFacts
  <2> QED
    BY <2>2 DEF TargetsOf
<1>4. TargetsOf(s) = T
  BY <1>2, <1>3 DEF TargetsOf
<1>5. ASSUME NEW i \in 1 .. n PROVE t.arcs[s][i].to \in States(t)
  <2>1. t.arcs[s] \in Seq(Arcs(t))
    BY DEF Through, TypeOK, IsTransducer, Arcs
  <2>2. t.arcs[s][i] \in Arcs(t)
    BY <2>1
  <2> QED
    BY <2>2 DEF Arcs
<1> QED
  BY <1>4, <1>5 DEF Addresses

\* A state taken off the agenda is read.
LEMMA TakenState ==
    ASSUME Through, NamesFit, NEW s \in States(t), NEW M, NEW ag, NEW arcs, NEW final,
           ReadSoFar(t, num, ph, M, ag, arcs, final), ag # << >>, Last(ag) = AddressIn(ph, s),
           NEW new, ListsOnce(new, TargetsOf(s) \ DOMAIN M), NEW N, Extends(M, new, N),
           NEW more, more = [u \in DOMAIN arcs \cup {M[Last(ag)]} |->
                                IF u # M[Last(ag)] THEN arcs[u] ELSE NewArcs(s, N)]
    PROVE  ReadSoFar(t, num, ph, N, Front(ag) \o new, more, FinalsFound(t, ph, N))
<1> DEFINE a == Last(ag)
           both == Front(ag) \o new
           S == TargetsOf(s) \ DOMAIN M
           D == DOMAIN M
           Old == D \ Range(ag)
<1>1. /\ Numbered(M) /\ D \subseteq Addresses(t, ph) /\ Waiting(M, ag)
      /\ DOMAIN arcs = {M[b] : b \in Old}
      /\ \A r \in States(t) : AddressIn(ph, r) \in Old => StateRead(t, num, ph, M, arcs, r)
  BY DEF ReadSoFar
<1>2. /\ Numbered(N) /\ DOMAIN N = D \cup S /\ \A b \in D : N[b] = M[b]
  BY DEF Extends, ListsOnce
<1>3. AgendaAfter(M, ag, new, N)
  BY <1>1, <1>2, AgendaTaken
<1>4. /\ Waiting(N, both) /\ a \in D /\ a \in Range(ag)
      /\ DOMAIN N \ Range(both) = Old \cup {a}
  BY <1>3 DEF AgendaAfter
<1>5. DOMAIN N \subseteq Addresses(t, ph)
  BY <1>1, <1>2, TargetsAre
<1>6. DOMAIN more = {N[b] : b \in DOMAIN N \ Range(both)}
  <2>1. {N[b] : b \in Old \cup {a}} = {M[b] : b \in Old} \cup {M[a]}
    BY <1>2, <1>4
  <2>2. DOMAIN more = DOMAIN arcs \cup {M[a]}
    OBVIOUS
  <2> QED
    BY <1>1, <1>4, <2>1, <2>2, Zenon
<1>7. \A b, c \in D : M[b] = M[c] => b = c
  BY <1>1 DEF Numbered
<1> HIDE DEF both
<1>8. ASSUME NEW r \in States(t), AddressIn(ph, r) \in DOMAIN N \ Range(both)
      PROVE  StateRead(t, num, ph, N, more, r)
  <2>1. CASE AddressIn(ph, r) \in Old
    <3> DEFINE b == AddressIn(ph, r)
    <3>1. b \in D /\ b # a /\ StateRead(t, num, ph, M, arcs, r)
      BY <1>1, <1>4, <2>1
    <3>2. M[b] # M[a] /\ M[b] \in DOMAIN arcs
      BY <1>1, <1>4, <1>7, <2>1, <3>1
    <3>3. more[M[b]] = arcs[M[b]]
      BY <3>2
    <3>4. D \subseteq DOMAIN N /\ \A c \in D : N[c] = M[c]
      BY <1>2
    <3> HIDE DEF D, Old
    <3> QED
      BY <3>1, <3>3, <3>4, StillRead DEF D
  <2>2. CASE AddressIn(ph, r) \notin Old
    <3>1. AddressIn(ph, r) = a
      BY <1>4, <1>8, <2>2
    <3>2. Address(r) = Address(s)
      BY <3>1, AddressIs
    <3>3. r = s
      <4>1. AddressesDistinct
        BY DistinctFromInv DEF Through
      <4> QED
        BY <3>2, <4>1 DEF AddressesDistinct, Through
    <3>4. N[a] = M[a] /\ more[M[a]] = NewArcs(s, N)
      BY <1>2, <1>4
    <3>5. SameCounts(OldArcsIn(t, num, ph, s, N), NewArcs(s, N))
      <4>1. OldArcs(s, N) = OldArcsIn(t, num, ph, s, N)
        BY AddressIs DEF OldArcs, OldArcsIn, KeptAs, KeptIn
      <4> QED
        BY <4>1, ArcsBack
    <3>6. Len(NewArcs(s, N)) = Len(t.arcs[s])
      <4>1. Len(t.arcs[s]) \in Nat
        BY StateFactsHold DEF Through, StateFacts
      <4> QED
        BY <4>1 DEF NewArcs
    <3>7. \A i \in 1 .. Len(t.arcs[s]) : AddressIn(ph, t.arcs[s][i].to) \in DOMAIN N
      BY <1>2, TargetsAre
    <3> QED
      BY <3>1, <3>3, <3>4, <3>5, <3>6, <3>7, Zenon DEF StateRead
  <2> QED
    BY <2>1, <2>2
<1>9. ReadSoFar(t, num, ph, N, both, more, FinalsFound(t, ph, N))
  BY <1>2, <1>4, <1>5, <1>6, <1>8, Zenon DEF ReadSoFar
<1> QED
  BY <1>9 DEF both

-----------------------------------------------------------------------------
(* The invariant of reading back *)

\* What is known while the tables are read back.
BackInv ==
    /\ back # "before" => pc = "done"
    /\ back = "done" => agenda = << >>
    /\ back \in {"run", "done"} =>
         ReadSoFar(t, num, ph, state_map, agenda, basic.arcs, basic.final)

\* The reader starts with the address of state 0 on the agenda.
LEMMA StartHolds ==
    ASSUME Through, ZeroFirst, StartBack
    PROVE  ReadSoFar(t, num, ph, state_map', agenda', basic'.arcs, basic'.final)
<1>1. /\ agenda' = <<0>> /\ state_map' = [a \in {0} |-> 0]
      /\ basic' = [arcs |-> << >>, final |-> FinalsWith(0, 0)]
  BY DEF StartBack
<1>2. 0 \in States(t) /\ Address(0) = 0 /\ AddressIn(ph, 0) = 0
  BY ZeroAddress, AddressIs
<1> DEFINE M == [a \in {0} |-> 0]
           ag == <<0>>
<1>3. DOMAIN M = {0} /\ M[0] = 0 /\ IsFiniteSet(DOMAIN M) /\ Cardinality(DOMAIN M) = 1
  <2>1. DOMAIN M = {0} /\ M[0] = 0
    OBVIOUS
  <2> QED
    BY <2>1, FS_Singleton
<1>4. Len(ag) = 1 /\ ag[1] = 0 /\ DOMAIN ag = {1} /\ ag \in Seq({0})
  OBVIOUS
<1>5. Range(ag) = {0}
  BY <1>4 DEF Range
<1>6. DOMAIN << >> = {}
  OBVIOUS
<1>7. \A s \in States(t) : AddressIn(ph, s) = 0 => s = 0
  <2>1. AddressesDistinct
    BY DistinctFromInv DEF Through
  <2> SUFFICES ASSUME NEW s \in States(t), AddressIn(ph, s) = 0, s # 0 PROVE FALSE
    OBVIOUS
  <2>2. Address(s) = Address(0)
    BY <1>2, AddressIs
  <2> QED
    BY <1>2, <2>1, <2>2 DEF AddressesDistinct, Through
<1> HIDE DEF M, ag
<1>8. Numbered(M)
  BY <1>3 DEF Numbered
<1>9. DOMAIN M \subseteq Addresses(t, ph)
  BY <1>2, <1>3 DEF Addresses
<1>10. Waiting(M, ag)
  BY <1>3, <1>4 DEF Waiting
<1>11. DOMAIN M \ Range(ag) = {}
  BY <1>3, <1>5
<1>12. FinalsWith(0, 0) = FinalsFound(t, ph, M)
  <2>1. IsFinal(0) <=> 0 \in t.final
    BY <1>2, FinalIs
  <2> DEFINE F == {r \in States(t) : r \in t.final /\ AddressIn(ph, r) \in DOMAIN M}
  <2>2. F = IF 0 \in t.final THEN {0} ELSE {}
    BY <1>2, <1>3, <1>7
  <2>3. FinalsFound(t, ph, M) = {M[AddressIn(ph, s)] : s \in F}
    BY DEF FinalsFound
  <2> HIDE DEF F
  <2> QED
    BY <1>2, <1>3, <2>1, <2>2, <2>3 DEF FinalsWith
<1>13. ReadSoFar(t, num, ph, M, ag, << >>, FinalsWith(0, 0))
  <2>1. DOMAIN << >> = {M[a] : a \in DOMAIN M \ Range(ag)}
    BY <1>6, <1>11
  <2>2. \A s \in States(t) : AddressIn(ph, s) \in DOMAIN M \ Range(ag)
                               => StateRead(t, num, ph, M, << >>, s)
    BY <1>11
  <2> QED
    BY <1>8, <1>9, <1>10, <1>12, <2>1, <2>2, Zenon DEF ReadSoFar
<1>14. basic'.arcs = << >> /\ basic'.final = FinalsWith(0, 0)
  BY <1>1
<1>15. state_map' = M /\ agenda' = ag
  BY <1>1 DEF M, ag
<1> QED
  BY <1>13, <1>14, <1>15, Zenon

\* The final states among the new ones are marked as they are found.
LEMMA NewFinals ==
    ASSUME Through, NEW M, NEW new, NEW N, Extends(M, new, N), NEW S, ListsOnce(new, S),
           S \subseteq Addresses(t, ph)
    PROVE  FinalsFound(t, ph, N) = FinalsFound(t, ph, M)
             \cup UNION {FinalsWith(new[n], Cardinality(DOMAIN M) - 1 + n) : n \in DOMAIN new}
<1> DEFINE c == Cardinality(DOMAIN M)
           F(n) == FinalsWith(new[n], c - 1 + n)
           A(s) == AddressIn(ph, s)
<1>1. /\ DOMAIN N = DOMAIN M \cup Range(new) /\ \A a \in DOMAIN M : N[a] = M[a]
      /\ \A n \in DOMAIN new : N[new[n]] = c - 1 + n
      /\ \A n \in DOMAIN new : new[n] \in Range(new) /\ new[n] \in S
  BY DEF Extends, ListsOnce, Range
<1>2. \A s \in States(t) : IsFinal(A(s)) <=> s \in t.final
  BY FinalIs, AddressIs
<1>3. \A n : F(n) = IF IsFinal(new[n]) THEN {c - 1 + n} ELSE {}
  BY DEF FinalsWith
<1>4. \A x : x \in FinalsFound(t, ph, N)
                <=> \E s \in States(t) : s \in t.final /\ A(s) \in DOMAIN N /\ x = N[A(s)]
  BY DEF FinalsFound
<1>5. \A x : x \in FinalsFound(t, ph, M)
                <=> \E s \in States(t) : s \in t.final /\ A(s) \in DOMAIN M /\ x = M[A(s)]
  BY DEF FinalsFound
<1>6. \A a \in Range(new) : \E n \in DOMAIN new : a = new[n]
  BY DEF Range
<1>7. \A n \in DOMAIN new : \E s \in States(t) : new[n] = A(s)
  BY <1>1 DEF Addresses
<1> HIDE DEF A, F, c
<1>8. ASSUME NEW x \in FinalsFound(t, ph, N)
      PROVE  x \in FinalsFound(t, ph, M) \cup UNION {F(n) : n \in DOMAIN new}
  <2>1. PICK s \in States(t) : s \in t.final /\ A(s) \in DOMAIN N /\ x = N[A(s)]
    BY <1>4, <1>8
  <2>2. CASE A(s) \in DOMAIN M
    BY <1>1, <1>5, <2>1, <2>2
  <2>3. CASE A(s) \notin DOMAIN M
    <3>1. PICK n \in DOMAIN new : A(s) = new[n]
      BY <1>1, <1>6, <2>1, <2>3
    <3>2. x = c - 1 + n /\ IsFinal(new[n])
      BY <1>1, <1>2, <2>1, <3>1
    <3>3. x \in F(n)
      BY <1>3, <3>2
    <3> QED
      BY <3>3
  <2> QED
    BY <2>2, <2>3
<1>9. ASSUME NEW x \in FinalsFound(t, ph, M) PROVE x \in FinalsFound(t, ph, N)
  BY <1>1, <1>4, <1>5, <1>9
<1>10. ASSUME NEW n \in DOMAIN new, NEW x \in F(n) PROVE x \in FinalsFound(t, ph, N)
  <2>1. IsFinal(new[n]) /\ x = c - 1 + n
    BY <1>3, <1>10
  <2>2. PICK s \in States(t) : new[n] = A(s)
    BY <1>7
  <2>3. s \in t.final /\ A(s) \in DOMAIN N /\ x = N[A(s)]
    BY <1>1, <1>2, <2>1, <2>2
  <2> QED
    BY <1>4, <2>3
<1>11. FinalsFound(t, ph, N) = FinalsFound(t, ph, M) \cup UNION {F(n) : n \in DOMAIN new}
  BY <1>8, <1>9, <1>10
<1> QED
  BY <1>11 DEF F, c

\* TakeState reads the arcs of the state whose address is last on the agenda.
LEMMA TakeHolds ==
    ASSUME Through, NamesFit, TakeState,
           ReadSoFar(t, num, ph, state_map, agenda, basic.arcs, basic.final)
    PROVE  ReadSoFar(t, num, ph, state_map', agenda', basic'.arcs, basic'.final)
<1> DEFINE M == state_map
           a == Last(agenda)
           entries == InOrder(get_transitions_from_state(a))
           q == [i \in DOMAIN entries |-> wtrans[entries[i] + 1].to]
           new == NewTargets(q)
           c == Cardinality(DOMAIN M)
<1>1. /\ agenda # << >> /\ Numbered(M) /\ Waiting(M, agenda)
      /\ DOMAIN M \subseteq Addresses(t, ph)
      /\ basic.final = FinalsFound(t, ph, M)
  BY DEF TakeState, ReadSoFar
<1>2. PICK s \in States(t) : a = AddressIn(ph, s)
  <2>1. agenda \in Seq(DOMAIN M) /\ agenda # << >>
    BY <1>1 DEF Waiting
  <2>2. a \in DOMAIN M
    BY <2>1 DEF Last
  <2> QED
    BY <1>1, <2>2 DEF Addresses
<1> DEFINE n == Len(t.arcs[s])
           f == ph[s].first
<1>3. n \in Nat /\ f \in Nat
  BY StateFactsHold, PartHolds DEF Through, StateFacts, Part
<1>4. entries = [i \in 1 .. n |-> f + i - 1]
  <2>1. Address(s) = a
    BY <1>2, AddressIs
  <2>2. Address(s) < START => IndexReads(Address(s)) \subseteq DOMAIN windex
    BY <2>1 DEF TakeState
  <2>3. get_transitions_from_state(a) = f .. f + n - 1
    BY <2>1, <2>2, StateRange
  <2> QED
    BY <1>3, <2>3, InOrderInterval
<1>5. DOMAIN entries = 1 .. n /\ \A i \in 1 .. n : entries[i] + 1 = f + i
  BY <1>3, <1>4
<1>6. DOMAIN q = 1 .. n /\ \A i \in 1 .. n : q[i] = wtrans[f + i].to
  BY <1>5
<1> HIDE DEF entries, q
<1>7. Range(q) = TargetsOf(s)
  BY <1>6 DEF Range, TargetsOf
<1>8. ListsOnce(new, TargetsOf(s) \ DOMAIN M)
  BY <1>3, <1>6, <1>7, NewTargetsAre
<1> DEFINE N == More(M, new)
<1>9. Extends(M, new, N)
  BY <1>1, <1>8, MoreExtends
<1>10. /\ agenda' = Front(agenda) \o new
       /\ state_map' = N
       /\ basic' =
            [arcs |-> [u \in DOMAIN basic.arcs \cup {M[a]} |->
                          IF u # M[a] THEN basic.arcs[u]
                          ELSE [i \in DOMAIN entries |->
                                  ReadEntry(wtrans[entries[i] + 1], N)]],
             final |-> basic.final
               \cup UNION {FinalsWith(new[i], c - 1 + i) : i \in DOMAIN new}]
  <2> DEFINE Step(es, nw) ==
        /\ state_map' = [b \in DOMAIN state_map \cup Range(nw) |->
                           IF b \in DOMAIN state_map THEN state_map[b]
                           ELSE Cardinality(DOMAIN state_map) - 1
                                  + (CHOOSE i \in DOMAIN nw : nw[i] = b)]
        /\ agenda' = Front(agenda) \o nw
        /\ basic' =
             [arcs |-> [u \in DOMAIN basic.arcs \cup {state_map[Last(agenda)]} |->
                          IF u # state_map[Last(agenda)] THEN basic.arcs[u]
                          ELSE [i \in DOMAIN es |->
                                  [in |-> StringOf(wtrans[es[i] + 1].in),
                                   out |-> StringOf(wtrans[es[i] + 1].out),
                                   to |-> state_map'[wtrans[es[i] + 1].to]]]],
              final |-> basic.final
                \cup UNION {FinalsWith(nw[i], Cardinality(DOMAIN state_map) - 1 + i) :
                              i \in DOMAIN nw}]
  <2>1. \E es \in {InOrder(get_transitions_from_state(Last(agenda)))} :
          \E nw \in {NewTargets([i \in DOMAIN es |-> wtrans[es[i] + 1].to])} : Step(es, nw)
    BY Zenon DEF TakeState
  <2> HIDE DEF Step
  <2>2. Step(entries, new)
    BY <2>1 DEF entries, q
  <2>3. state_map' = N
    BY <2>2, Zenon DEF More, Step
  <2> QED
    BY <2>2, <2>3, Zenon DEF Step, ReadEntry
<1>11. [i \in DOMAIN entries |-> ReadEntry(wtrans[entries[i] + 1], N)] = NewArcs(s, N)
  BY <1>5 DEF NewArcs
<1>12. FinalsFound(t, ph, N) =
         FinalsFound(t, ph, M) \cup UNION {FinalsWith(new[i], c - 1 + i) : i \in DOMAIN new}
  <2>1. TargetsOf(s) \ DOMAIN M \subseteq Addresses(t, ph)
    BY TargetsAre
  <2> QED
    BY <1>8, <1>9, <2>1, NewFinals
<1> DEFINE more == [u \in DOMAIN basic.arcs \cup {M[a]} |->
                       IF u # M[a] THEN basic.arcs[u] ELSE NewArcs(s, N)]
<1> HIDE DEF N, new
<1>13. basic'.arcs = more /\ basic'.final = FinalsFound(t, ph, N)
  BY <1>1, <1>10, <1>11, <1>12
<1>14. ReadSoFar(t, num, ph, N, Front(agenda) \o new, more, FinalsFound(t, ph, N))
  BY <1>1, <1>2, <1>8, <1>9, TakenState
<1> QED
  BY <1>10, <1>13, <1>14, Zenon

\* Every step preserves the invariant.
LEMMA BackInvHolds ==
    ASSUME TypeOK, SlotOwnership, AddressInv, ReadInv, NamesApart, ZeroFirst, BackInv,
           [NextRoundTrip]_<<vars, backVars>>
    PROVE  BackInv'
<1>1. CASE back = "before" /\ back' = "before"
  BY <1>1 DEF BackInv
<1>2. CASE UNCHANGED backVars /\ back # "before"
  <2>1. pc = "done"
    BY <1>2 DEF BackInv
  <2>2. ~Next
    BY <2>1 DEF Next, CollectState, NumberSymbols, AddArc, NextState, SkipSimple, PlaceState,
       WriteIndex, WriteState, Finish
  <2>3. ~ConvertBack \/ UNCHANGED vars
    BY <2>2 DEF NextRoundTrip, vars
  <2>4. UNCHANGED vars
    BY <2>2, <2>3 DEF NextRoundTrip
  <2>5. /\ back' = back /\ agenda' = agenda /\ state_map' = state_map /\ basic' = basic
        /\ pc' = pc /\ t' = t /\ num' = num /\ ph' = ph
    BY <1>2, <2>4 DEF vars, backVars, symbolVars
  <2> QED
    BY <2>5 DEF BackInv
<1>3. CASE ConvertBack /\ UNCHANGED vars
  <2>1. pc' = pc /\ t' = t /\ num' = num /\ ph' = ph
    BY <1>3 DEF vars, symbolVars
  <2>3. pc = "done"
    BY <1>3 DEF ConvertBack, StartBack, TakeState, ReadPastEnd, FinishBack, BackInv
  <2>4. Through
    BY <2>3 DEF ReadInv, Through
  <2>5. CASE StartBack
    <3>1. back' = "run"
      BY <2>5 DEF StartBack
    <3>2. ReadSoFar(t, num, ph, state_map', agenda', basic'.arcs, basic'.final)
      BY <2>4, <2>5, StartHolds
    <3> QED
      BY <2>1, <2>3, <3>1, <3>2 DEF BackInv
  <2>6. CASE TakeState
    <3>1. back' = "run" /\ back = "run"
      BY <2>6 DEF TakeState
    <3>2. ReadSoFar(t, num, ph, state_map', agenda', basic'.arcs, basic'.final)
      BY <2>4, <2>6, <3>1, NamesFitHere, TakeHolds DEF BackInv
    <3> QED
      BY <2>1, <2>3, <3>1, <3>2 DEF BackInv
  <2>7. CASE ReadPastEnd
    BY <2>1, <2>3, <2>7 DEF ReadPastEnd, BackInv
  <2>8. CASE FinishBack
    <3>1. /\ back = "run" /\ agenda = << >> /\ back' = "done"
          /\ agenda' = agenda /\ state_map' = state_map /\ basic' = basic
      BY <2>8 DEF FinishBack
    <3> QED
      BY <2>1, <2>3, <3>1 DEF BackInv
  <2> QED
    BY <1>3, <2>5, <2>6, <2>7, <2>8 DEF ConvertBack
<1> QED
  BY <1>1, <1>2, <1>3 DEF NextRoundTrip, backVars

-----------------------------------------------------------------------------
(* There and back *)

\* The states found and their addresses are as many.
LEMMA ReachedCount ==
    ASSUME Through, NEW D, D \subseteq Addresses(t, ph)
    PROVE  Cardinality({s \in States(t) : Address(s) \in D}) = Cardinality(D)
<1> DEFINE R == {s \in States(t) : Address(s) \in D}
           g == [s \in R |-> Address(s)]
<1>1. IsFiniteSet(R)
  <2>1. R \in SUBSET (0 .. t.n - 1)
    BY DEF States
  <2>2. t.n \in Nat \ {0}
    BY DEF Through, TypeOK, IsTransducer
  <2>3. IsFiniteSet(0 .. t.n - 1)
    BY <2>2, FS_Interval
  <2> HIDE DEF R
  <2> QED
    BY <2>1, <2>3, FS_Subset
<1>2. g \in [R -> D]
  OBVIOUS
<1>3. \A s, r \in R : g[s] = g[r] => s = r
  <2>1. AddressesDistinct
    BY DistinctFromInv DEF Through
  <2>2. \A s, r \in States(t) : Address(s) = Address(r) => s = r
    BY <2>1 DEF AddressesDistinct, Through
  <2>3. \A s \in R : s \in States(t) /\ g[s] = Address(s)
    OBVIOUS
  <2> HIDE DEF R, g
  <2> QED
    BY <2>2, <2>3
<1>4. \A a \in D : \E s \in R : g[s] = a
  <2> SUFFICES ASSUME NEW a \in D PROVE \E s \in R : g[s] = a
    OBVIOUS
  <2>1. PICK s \in States(t) : a = AddressIn(ph, s)
    BY DEF Addresses
  <2>2. Address(s) = a
    BY <2>1, AddressIs
  <2> QED
    BY <2>2
<1> HIDE DEF R, g
<1>5. g \in Bijection(R, D)
  BY <1>2, <1>3, <1>4 DEF Bijection, Injection, Surjection, IsInjective
<1>6. ExistsBijection(R, D)
  BY <1>5 DEF ExistsBijection
<1>7. Cardinality(R) = Cardinality(D)
  BY <1>1, <1>6, FS_Bijection
<1> QED
  BY <1>7 DEF R

\* What has been read when the agenda is empty is what RoundTrip says.
LEMMA BackIsThere ==
    ASSUME Through, ZeroFirst, agenda = << >>,
           ReadSoFar(t, num, ph, state_map, agenda, basic.arcs, basic.final)
    PROVE  RoundTrip
<1> DEFINE M == state_map
           Reached == {s \in States(t) : Address(s) \in DOMAIN state_map}
           New(s) == state_map[Address(s)]
           Target(s) == IF s \in Reached THEN New(s) ELSE NO_TABLE_INDEX
           Renamed(s) == [i \in DOMAIN t.arcs[s] |-> [in |-> KeptAs(t.arcs[s][i].in),
                                                     out |-> KeptAs(t.arcs[s][i].out),
                                                     to |-> Target(t.arcs[s][i].to)]]
<1>1. Range(agenda) = {}
  BY DEF Range
<1>2. /\ Numbered(M) /\ DOMAIN M \subseteq Addresses(t, ph)
      /\ DOMAIN basic.arcs = {M[a] : a \in DOMAIN M}
      /\ basic.final = FinalsFound(t, ph, M)
      /\ \A s \in States(t) : AddressIn(ph, s) \in DOMAIN M => StateRead(t, num, ph, M, basic.arcs, s)
  <2>1. DOMAIN M \ Range(agenda) = DOMAIN M
    BY <1>1
  <2> QED
    BY <2>1, Zenon DEF ReadSoFar
<1>3. \A s, r \in States(t) : Address(s) = Address(r) => s = r
  <2>1. AddressesDistinct
    BY DistinctFromInv DEF Through
  <2> QED
    BY <2>1 DEF AddressesDistinct, Through
<1>4. 0 \in Reached /\ New(0) = 0
  BY <1>2, ZeroAddress DEF Numbered
<1>5. Cardinality(Reached) = Cardinality(DOMAIN state_map)
  BY <1>2, ReachedCount
<1>6. \A s, r \in Reached : New(s) = New(r) => s = r
  BY <1>2, <1>3 DEF Numbered
<1>7. \A a \in DOMAIN M : \E s \in Reached : a = Address(s)
  <2>1. \A a \in DOMAIN M : \E s \in States(t) : a = AddressIn(ph, s)
    BY <1>2 DEF Addresses
  <2> QED
    BY <2>1, AddressIs
<1>8. DOMAIN basic.arcs = {New(s) : s \in Reached}
  <2>1. \A s \in Reached : Address(s) \in DOMAIN M
    OBVIOUS
  <2> HIDE DEF Reached
  <2> QED
    BY <1>2, <1>7, <2>1
<1>9. ASSUME NEW s \in Reached
      PROVE  LET old == Renamed(s)
                 new == basic.arcs[New(s)]
             IN  /\ Len(new) = Len(old)
                 /\ \A i \in DOMAIN old : Count(old, old[i]) = Count(new, old[i])
                 /\ s \in t.final <=> New(s) \in basic.final
  <2> DEFINE n == Len(t.arcs[s])
             new == basic.arcs[New(s)]
  <2>1. s \in States(t) /\ Address(s) \in DOMAIN M /\ Address(s) = AddressIn(ph, s)
    BY <1>9, AddressIs
  <2>2. StateRead(t, num, ph, M, basic.arcs, s)
    BY <1>2, <2>1
  <2>3. /\ \A i \in 1 .. n : AddressIn(ph, t.arcs[s][i].to) \in DOMAIN M
        /\ Len(new) = n /\ SameCounts(OldArcsIn(t, num, ph, s, M), new)
    BY <2>1, <2>2, Zenon DEF StateRead
  <2>4. t.arcs[s] \in Seq(Arcs(t))
    BY <2>1 DEF Through, TypeOK, IsTransducer, Arcs
  <2>5. n \in Nat /\ DOMAIN t.arcs[s] = 1 .. n
    BY <2>4
  <2>6. ASSUME NEW i \in 1 .. n
        PROVE  Renamed(s)[i] = [in |-> KeptIn(num, t.arcs[s][i].in),
                                out |-> KeptIn(num, t.arcs[s][i].out),
                                to |-> M[AddressIn(ph, t.arcs[s][i].to)]]
    <3>1. t.arcs[s][i] \in Arcs(t)
      BY <2>4, <2>5
    <3>2. t.arcs[s][i].to \in States(t)
      BY <3>1 DEF Arcs
    <3>3. Address(t.arcs[s][i].to) = AddressIn(ph, t.arcs[s][i].to)
      BY AddressIs
    <3>4. Target(t.arcs[s][i].to) = M[AddressIn(ph, t.arcs[s][i].to)]
      BY <2>3, <3>2, <3>3
    <3>5. Renamed(s)[i] = [in |-> KeptAs(t.arcs[s][i].in), out |-> KeptAs(t.arcs[s][i].out),
                           to |-> Target(t.arcs[s][i].to)]
      BY <2>5
    <3>6. \A x : KeptAs(x) = KeptIn(num, x)
      BY DEF KeptAs, KeptIn
    <3> HIDE DEF Target, Renamed
    <3> QED
      BY <3>4, <3>5, <3>6, Zenon
  <2>7. Renamed(s) = OldArcsIn(t, num, ph, s, M)
    <3>1. DOMAIN Renamed(s) = 1 .. n /\ Renamed(s) = [i \in 1 .. n |-> Renamed(s)[i]]
      BY <2>5
    <3> HIDE DEF Renamed
    <3> QED
      BY <2>6, <3>1 DEF OldArcsIn
  <2>8. Len(Renamed(s)) = n
    BY <2>5
  <2>9. \A v : Count(Renamed(s), v) = Count(new, v)
    BY <2>3, <2>7, Zenon DEF SameCounts
  <2>10. s \in t.final <=> New(s) \in basic.final
    <3>1. s \in t.final => New(s) \in basic.final
      BY <1>2, <2>1 DEF FinalsFound
    <3>2. ASSUME New(s) \in basic.final PROVE s \in t.final
      <4>1. PICK r \in States(t) : /\ r \in t.final /\ AddressIn(ph, r) \in DOMAIN M
                                   /\ New(s) = M[AddressIn(ph, r)]
        BY <1>2, <3>2 DEF FinalsFound
      <4>2. r \in Reached /\ New(s) = New(r)
        BY <4>1, AddressIs
      <4> QED
        BY <1>6, <1>9, <4>1, <4>2
    <3> QED
      BY <3>1, <3>2
  <2> HIDE DEF Renamed, New
  <2> QED
    BY <2>3, <2>8, <2>9, <2>10
<1> QED
  BY <1>4, <1>5, <1>6, <1>8, <1>9, Zenon DEF RoundTrip

\* For every graph, every numbering and every outcome of the packing: converting to
\* tables and back gives the graph again, as far as it can be reached from state 0.  Each
\* state found is found once, has the arcs it had, as often as it had them and between the
\* strings it had, with epsilon for those that are missing in the harmonizer's symbol
\* table, and is final if it was (hfst_basic_transducer_to_hfst_ol, hfst_ol_to_hfst_basic_transducer).
THEOREM RoundTripHolds == SpecRoundTrip => []RoundTrip
<1>1. SpecRoundTrip => Spec
  <2>1. InitRoundTrip => Init
    BY DEF InitRoundTrip
  <2>2. [NextRoundTrip]_<<vars, backVars>> => [Next]_vars
    BY DEF NextRoundTrip
  <2> QED
    BY <2>1, <2>2, PTL DEF SpecRoundTrip, Spec
<1>2. InitRoundTrip => NamesApart /\ ZeroFirst /\ BackInv
  BY DEF InitRoundTrip, Init, NamesApart, ZeroFirst, BackInv
<1>3. /\ TypeOK /\ SlotOwnership /\ AddressInv /\ ReadInv /\ NamesApart /\ ZeroFirst /\ BackInv
      /\ [NextRoundTrip]_<<vars, backVars>>
      => NamesApart' /\ ZeroFirst' /\ BackInv'
  <2> SUFFICES ASSUME TypeOK, SlotOwnership, AddressInv, ReadInv, NamesApart, ZeroFirst, BackInv,
                      [NextRoundTrip]_<<vars, backVars>>
               PROVE  NamesApart' /\ ZeroFirst' /\ BackInv'
    OBVIOUS
  <2>1. [Next]_vars
    BY DEF NextRoundTrip
  <2>2. NamesApart'
    BY <2>1, NamesApartHolds DEF ReadInv
  <2>3. ZeroFirst'
    BY <2>1, ZeroFirstHolds
  <2>4. BackInv'
    BY BackInvHolds
  <2> QED
    BY <2>2, <2>3, <2>4
<1>4. ASSUME TypeOK, SlotOwnership, AddressInv, ReadInv, ZeroFirst, BackInv PROVE RoundTrip
  <2>1. CASE back = "done"
    <3>1. /\ agenda = << >> /\ pc = "done"
          /\ ReadSoFar(t, num, ph, state_map, agenda, basic.arcs, basic.final)
      BY <1>4, <2>1 DEF BackInv
    <3>2. Through
      BY <1>4, <3>1 DEF ReadInv, Through
    <3> QED
      BY <1>4, <3>1, <3>2, BackIsThere
  <2>2. CASE back # "done"
    BY <2>2 DEF RoundTrip
  <2> QED
    BY <2>1, <2>2
<1> QED
  BY <1>1, <1>2, <1>3, <1>4, ReadInvAlways, PTL DEF SpecRoundTrip
==============================================================================
