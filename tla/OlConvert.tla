------------------------------ MODULE OlConvert ------------------------------
(***************************************************************************)
(* Conversion of an HfstBasicTransducer (a plain graph) to the two packed  *)
(* tables of the optimized-lookup format:                                  *)
(*   libhfst/src/implementations/ConvertOlTransducer.cc                    *)
(*   libhfst/src/implementations/optimized-lookup/convert.h, convert.cc    *)
(*                                                                         *)
(* The index table is a shared array.  A state whose arcs cannot be found  *)
(* directly in the transition table ("nonsimple") gets a start slot and,   *)
(* for each input symbol x, the slot start + 1 + x (epsilon and flag       *)
(* diacritics share x = 0).  States are packed first-fit, so slots of      *)
(* different states interleave; a reader tells its own slots from those of *)
(* others only by the symbol stored in them.                               *)
(*                                                                         *)
(* Symbols of the source graph are naturals, ordered as the strings are;   *)
(* 0 is the epsilon string.  Weights are payload and are left out.         *)
(***************************************************************************)
EXTENDS Naturals, Sequences, FiniteSets, FiniteSetsExt, SequencesExt

CONSTANTS
    Transducers,       \* the graphs that may be converted
    Harmonizers,       \* symbol tables to impose (and NoHarmonizer: none)
    NoHarmonizer,
    FlagStrings,       \* symbols that are flag diacritics or @I.x@ insertions
    START,             \* TRANSITION_TARGET_TABLE_START (2^31 in the code)
    NO_SYMBOL_NUMBER,  \* the greatest SymbolNumber (65535 in the code)
    AGGRESSION,        \* packing_aggression in percent (85 in the code)
    JUMP_THRESHOLD     \* floor_jump_threshold (4 in the code)

EPSILON == 0
NO_TABLE_INDEX == 2 * START - 1

States(tr) == 0 .. tr.n - 1

\* A graph always has state 0, arcs between its states, and some finals.
IsTransducer(tr) ==
    /\ tr.n \in Nat \ {0}
    /\ tr.arcs \in [States(tr) -> Seq([in : Nat, out : Nat, to : States(tr)])]
    /\ tr.final \subseteq States(tr)

ASSUME TransducersAssumption == \A tr \in Transducers : IsTransducer(tr)
\* A harmonizer is a transducer in the format already: its numbers are places in a
\* symbol table whose size is a SymbolNumber, as is its number of inputs.
ASSUME HarmonizersAssumption ==
    \A h \in Harmonizers \ {NoHarmonizer} :
        /\ DOMAIN h.numbers \subseteq Nat /\ h.inputs \in 1 .. NO_SYMBOL_NUMBER
        /\ \A a \in DOMAIN h.numbers : h.numbers[a] \in 0 .. NO_SYMBOL_NUMBER - 1
ASSUME NumbersAssumption ==
    /\ START \in Nat \ {0, 1} /\ NO_SYMBOL_NUMBER \in Nat
    /\ AGGRESSION \in Nat \ {0} /\ JUMP_THRESHOLD \in Nat
    /\ FlagStrings \subseteq Nat \ {EPSILON}

VARIABLES
    t,        \* the graph being converted
    harm,     \* harmonizer, or NoHarmonizer
    pc,       \* phase: collect, inputs, pack, write, done, failed
    cur,      \* the state the current pass is at
    k,        \* the arc of cur that the "inputs" pass is at
    first,    \* first_transition, the counter of the first pass
    strings,  \* the three StringSets of the first pass
    num,      \* string_symbol_map; symbol_table is its inverse
    seen,     \* seen_input_symbols
    flags,    \* flag_symbols: the numbers of flags and insertions
    ph,       \* state_placeholders
    indices,  \* IndexPlaceholders: used position -> <<state, symbol>>
    avail,    \* first_available_index
    prev,     \* previous_first_index
    stuck,    \* floor_stuck_counter
    windex,   \* windex_table, once written
    wtrans    \* wtransition_table: position p is wtrans[p + 1]

symbolVars == <<strings, num, seen, flags>>
packVars == <<indices, avail, prev, stuck>>
vars == <<t, harm, pc, cur, k, first, symbolVars, ph, packVars, windex, wtrans>>

-----------------------------------------------------------------------------
(* StatePlaceholder *)

Placeholder(s) ==
    [first |-> first, start |-> NO_TABLE_INDEX,
     type |-> IF s = 0 THEN "nonsimple" ELSE "empty",
     by |-> << >>]

IsSimple(p) == p.type # "nonsimple"

ZeroIndexed(x) == x = 0 \/ x \in flags

\* The slot of an input symbol relative to start + 1.
Slot(x) == IF x \in flags THEN 0 ELSE x

\* add_input: how a first arc with the new input x changes the index type.
TypeWith(p, x) ==
    CASE p.type = "empty" ->
            IF ZeroIndexed(x) THEN "simple_zero_index" ELSE "simple_nonzero_index"
      [] p.type = "simple_zero_index" ->
            IF ZeroIndexed(x) THEN "simple_zero_index" ELSE "nonsimple"
      [] OTHER -> "nonsimple"

\* The arcs by input, with one more.
ByWith(by, x, arc) ==
    [y \in DOMAIN by \cup {x} |->
        IF y # x THEN by[y] ELSE IF x \in DOMAIN by THEN Append(by[x], arc) ELSE <<arc>>]

\* add_input followed by add_transition.
WithArc(p, x, arc) ==
    [first |-> p.first, start |-> p.start,
     type |-> IF x \in DOMAIN p.by THEN p.type ELSE TypeWith(p, x),
     by |-> ByWith(p.by, x, arc)]

\* The arcs of the state with these inputs, each named by its input and its place
\* among those.
ArcsWith(p, X) == UNION {{y} \X DOMAIN p.by[y] : y \in X}

\* Mutant: the arcs with flags are not counted before the others.
SymbolOffsetNoFlags(p, x) ==
    Cardinality(ArcsWith(p, {y \in DOMAIN p.by : y < x /\ y \notin flags}))

\* symbol_offset: entries of the state that precede those of slot x.
SymbolOffset(p, x) ==
    IF x = 0 THEN 0
    ELSE Cardinality(ArcsWith(p, {y \in DOMAIN p.by : ZeroIndexed(y) \/ y < x}))

-----------------------------------------------------------------------------
(* IndexPlaceholders; ix is the set of used positions *)

\* Mutant: the start slot itself is not checked.
FitsNoStart(p, i) ==
    \A x \in DOMAIN p.by : i + 1 + Slot(x) \notin DOMAIN indices

\* Mutant: flags are checked at their own number instead of slot 0.
FitsRawFlags(p, i) ==
    /\ i \notin DOMAIN indices
    /\ \A x \in DOMAIN p.by : i + 1 + x \notin DOMAIN indices

\* fits: cur may start at i.
Fits(p, i) ==
    /\ i \notin DOMAIN indices
    /\ \A x \in DOMAIN p.by : i + 1 + Slot(x) \notin DOMAIN indices

\* Mutant: the free positions are counted instead of the filled ones.
UnsuitableFree(used, i) ==
    \/ i \in used
    \/ Cardinality((i + 1 .. i + seen) \ used) * 100 >= AGGRESSION * seen

\* unsuitable: position i is taken, or too many of those after it are.
Unsuitable(used, i) ==
    \/ i \in used
    \/ Cardinality(used \cap (i + 1 .. i + seen)) * 100 >= AGGRESSION * seen

\* Mutant: the search never jumps.
StuckNever == FALSE

\* The search has stalled, and where it then jumps after placing at i.
Stuck == stuck > JUMP_THRESHOLD
JumpTarget(i) == i + 1

-----------------------------------------------------------------------------
Init ==
    /\ t \in Transducers
    /\ harm \in Harmonizers \cup {NoHarmonizer}
    /\ pc = "collect" /\ cur = 0 /\ k = 1 /\ first = 0
    /\ strings = [inputs |-> {}, flags |-> {}, outputs |-> {}]
    /\ num = << >> /\ seen = 1 /\ flags = {}
    /\ ph = << >>
    /\ indices = << >> /\ avail = 0 /\ prev = 0 /\ stuck = 0
    /\ windex = << >> /\ wtrans = << >>

\* Mutant: no entry is counted for the finality marker.
NextFirstNoPadding == first + Len(t.arcs[cur])

\* first_transition of the next state: the arcs, and one entry of padding.
NextFirst == first + 1 + Len(t.arcs[cur])

\* First pass, one state: its placeholder, the running first_transition (one
\* entry of padding per state) and, unless harmonizing, its symbols.
CollectState ==
    /\ pc = "collect" /\ cur < t.n
    /\ ph' = [s \in 0 .. cur |-> IF s = cur THEN Placeholder(s) ELSE ph[s]]
    /\ first' = NextFirst
    /\ strings' =
         IF harm # NoHarmonizer THEN strings
         ELSE LET arcs == t.arcs[cur]
                  ins == {arcs[i].in : i \in DOMAIN arcs}
                  outs == {arcs[i].out : i \in DOMAIN arcs}
              IN  [inputs |-> strings.inputs \cup (ins \ FlagStrings),
                   flags |-> strings.flags \cup (ins \cap FlagStrings),
                   outputs |-> strings.outputs \cup outs]
    /\ cur' = cur + 1
    /\ UNCHANGED <<t, harm, pc, k, num, seen, flags, packVars, windex, wtrans>>

\* The position of a string in the sorted set S.
Rank(a, S) == Cardinality({b \in S : b < a})

\* The numbers of the strings collected: epsilon, then inputs, then flags, then
\* strings found on outputs only, each group in string order.
OwnNumbers ==
    LET ins == strings.inputs \ {EPSILON}
        outs == strings.outputs \ (ins \cup strings.flags \cup {EPSILON})
        \* the first number of the flags, and of the output-only strings
        flagBase == 1 + Cardinality(ins)
        outBase == flagBase + Cardinality(strings.flags)
    IN  [a \in {EPSILON} \cup ins \cup strings.flags \cup outs |->
            IF a = EPSILON THEN 0
            ELSE IF a \in ins THEN 1 + Rank(a, ins)
            ELSE IF a \in strings.flags THEN flagBase + Rank(a, strings.flags)
            ELSE outBase + Rank(a, outs)]

\* The symbol table, the strings' own or the harmonizer's.  A string whose
\* number does not fit in a SymbolNumber makes size_t_to_ushort throw.
NumberSymbols ==
    /\ pc = "collect" /\ cur = t.n
    /\ IF harm = NoHarmonizer
       THEN /\ num' = OwnNumbers
            /\ seen' = 1 + Cardinality(strings.inputs \ {EPSILON})
            /\ pc' = IF \E a \in DOMAIN num' : num'[a] > NO_SYMBOL_NUMBER
                     THEN "failed" ELSE "inputs"
       ELSE num' = harm.numbers /\ seen' = harm.inputs /\ pc' = "inputs"
    /\ flags' = {num'[a] : a \in DOMAIN num' \cap FlagStrings}
    /\ cur' = 0 /\ k' = 1
    /\ UNCHANGED <<t, harm, first, strings, ph, packVars, windex, wtrans>>

\* string_symbol_map[a]: a missing string maps to 0.
Number(a) == IF a \in DOMAIN num THEN num[a] ELSE 0

\* Second pass, one arc.
AddArc ==
    /\ pc = "inputs" /\ cur < t.n /\ k <= Len(t.arcs[cur])
    /\ LET a == t.arcs[cur][k]
           x == Number(a.in)
       IN  ph' = [ph EXCEPT ![cur] =
                    WithArc(@, x, [in |-> x, out |-> Number(a.out), to |-> a.to])]
    /\ k' = k + 1
    /\ UNCHANGED <<t, harm, pc, cur, first, symbolVars, packVars, windex, wtrans>>

NextState ==
    /\ pc = "inputs" /\ cur < t.n /\ k > Len(t.arcs[cur])
    /\ k' = 1
    /\ IF cur + 1 < t.n THEN cur' = cur + 1 /\ pc' = pc
                        ELSE cur' = 0 /\ pc' = "pack"
    /\ UNCHANGED <<t, harm, first, symbolVars, ph, packVars, windex, wtrans>>

\* A simple state needs no index entries.
SkipSimple ==
    /\ pc = "pack" /\ cur < t.n /\ IsSimple(ph[cur])
    /\ cur' = cur + 1
    /\ UNCHANGED <<t, harm, pc, k, first, symbolVars, ph, packVars, windex, wtrans>>

\* The first position from avail on where cur fits is taken; then avail moves
\* past unsuitable positions, or jumps when it has not moved for too long.
PlaceState ==
    /\ pc = "pack" /\ cur < t.n /\ ~IsSimple(ph[cur])
    /\ \E i \in avail .. START - 1 :
        /\ Fits(ph[cur], i)
        /\ \A j \in avail .. i - 1 : ~Fits(ph[cur], j)
        /\ ph' = [ph EXCEPT ![cur].start = i]
        /\ LET slots == {i + 1 + Slot(x) : x \in DOMAIN ph[cur].by}
           IN  indices' = [q \in DOMAIN indices \cup {i} \cup slots |->
                              IF q \in slots THEN <<cur, q - i - 1>>
                              ELSE IF q = i THEN <<cur, NO_SYMBOL_NUMBER>>
                              ELSE indices[q]]
        /\ \E a \in avail .. START :
            /\ ~Unsuitable(DOMAIN indices', a)
            /\ \A b \in avail .. a - 1 : Unsuitable(DOMAIN indices', b)
            /\ IF a # prev
               THEN avail' = a /\ prev' = a /\ stuck' = 0
               ELSE IF Stuck
               THEN avail' = JumpTarget(i) /\ prev' = avail' /\ stuck' = 0
               ELSE avail' = a /\ stuck' = stuck + 1 /\ UNCHANGED prev
    /\ cur' = cur + 1
    /\ UNCHANGED <<t, harm, pc, k, first, symbolVars, windex, wtrans>>

\* Mutant: one blank fewer.
PaddingShort == seen - 1

\* Blank entries after the last one used.
Padding == seen

\* The index table: blanks, finality markers, entries, then the padding.
IndexEntry(q) ==
    LET s == indices[q][1]
        x == indices[q][2]
        Blank == [in |-> NO_SYMBOL_NUMBER, to |-> NO_TABLE_INDEX]
    IN  IF q \notin DOMAIN indices THEN Blank
        ELSE IF x # NO_SYMBOL_NUMBER
        THEN [in |-> x, to |-> ph[s].first + SymbolOffset(ph[s], x) + START]
        ELSE IF s \in t.final THEN [in |-> NO_SYMBOL_NUMBER, to |-> 0]
        ELSE Blank

WriteIndex ==
    /\ pc = "pack" /\ cur = t.n
    /\ windex' = [q \in 0 .. Max(DOMAIN indices) + Padding |-> IndexEntry(q)]
    /\ cur' = 0 /\ pc' = "write"
    /\ UNCHANGED <<t, harm, k, first, symbolVars, ph, packVars, wtrans>>

\* Where arcs into s point: its finality entry in the transition table if s
\* is simple, its start slot in the index table otherwise.
Address(s) == IF IsSimple(ph[s]) THEN ph[s].first + START - 1 ELSE ph[s].start

\* Mutant: the marker of the index table.
MarkerAsIndex(final) ==
    [in |-> NO_SYMBOL_NUMBER, out |-> NO_SYMBOL_NUMBER,
     to |-> IF final THEN 0 ELSE NO_TABLE_INDEX]

Marker(final) ==
    [in |-> NO_SYMBOL_NUMBER, out |-> NO_SYMBOL_NUMBER,
     to |-> IF final THEN 1 ELSE NO_TABLE_INDEX]

\* add_transitions_with
Written(x, arcs) ==
    [i \in DOMAIN arcs |->
        [in |-> x, out |-> arcs[i].out, to |-> Address(arcs[i].to)]]

\* The arcs with an input in X, by ascending input: a loop over the symbol numbers.
WrittenWith(p, X) ==
    FlattenSeq([i \in 1 .. NO_SYMBOL_NUMBER + 1 |->
                  IF i - 1 \in X THEN Written(i - 1, p.by[i - 1]) ELSE << >>])

\* Epsilons and flags come first, then everything else.
StateArcs(p) ==
    LET zero == {x \in DOMAIN p.by : ZeroIndexed(x)}
    IN  WrittenWith(p, zero) \o WrittenWith(p, DOMAIN p.by \ zero)

\* The finality marker of every state but 0, then its arcs.
WriteState ==
    /\ pc = "write" /\ cur < t.n
    /\ wtrans' = wtrans
         \o (IF cur = 0 THEN << >> ELSE <<Marker(cur \in t.final)>>)
         \o StateArcs(ph[cur])
    /\ cur' = cur + 1
    /\ UNCHANGED <<t, harm, pc, k, first, symbolVars, ph, packVars, windex>>

\* size_t_to_ushort(symbol_table.size()) throws.
HeaderOverflow == Cardinality(DOMAIN num) > NO_SYMBOL_NUMBER

\* One final padding transition; the header takes the number of symbols as a
\* SymbolNumber, and throws if it does not fit.
Finish ==
    /\ pc = "write" /\ cur = t.n
    /\ wtrans' = Append(wtrans, Marker(FALSE))
    /\ pc' = IF HeaderOverflow THEN "failed" ELSE "done"
    /\ UNCHANGED <<t, harm, cur, k, first, symbolVars, ph, packVars, windex>>

Next ==
    \/ CollectState \/ NumberSymbols \/ AddArc \/ NextState
    \/ SkipSimple \/ PlaceState \/ WriteIndex \/ WriteState \/ Finish

\* A conversion is one call: its loops run until they are through.
Spec == Init /\ [][Next]_vars
FairSpec == Spec /\ WF_vars(Next)

-----------------------------------------------------------------------------
(* Reading the tables, as the lookup code does *)

\* get_index_input(start + 1 + x) = x, the test of find_index.
HasIndex(start, x) == windex[start + 1 + x].in = x

\* The run of transitions from position p whose input is in X.
Run(p, X) ==
    LET end == CHOOSE q \in p .. Len(wtrans) :
                 /\ \A r \in p .. q - 1 : wtrans[r + 1].in \in X
                 /\ q < Len(wtrans) => wtrans[q + 1].in \notin X
    IN  SubSeq(wtrans, p + 1, end)

\* find_transitions / find_index (X = {x}) and try_epsilon_transitions /
\* try_epsilon_indices (X = epsilon and the flags, x = 0) at a state address.
ReadArcs(address, x, X) ==
    IF address >= START THEN Run(address - START + 1, X)
    ELSE IF HasIndex(address, x) THEN Run(windex[address + 1 + x].to - START, X)
    ELSE << >>

-----------------------------------------------------------------------------
(* Properties *)

Entries == [in : Nat, out : Nat, to : Nat]

TypeOK ==
    /\ IsTransducer(t) /\ harm \in Harmonizers \cup {NoHarmonizer}
    /\ pc \in {"collect", "inputs", "pack", "write", "done", "failed"}
    /\ cur \in 0 .. t.n /\ k \in Nat \ {0} /\ first \in Nat
    /\ DOMAIN ph = IF pc = "collect" THEN 0 .. cur - 1 ELSE States(t)
    /\ \A s \in DOMAIN ph :
         /\ ph[s] = [first |-> ph[s].first, start |-> ph[s].start,
                     type |-> ph[s].type, by |-> ph[s].by]
         /\ ph[s].first \in Nat /\ ph[s].start \in Nat
         /\ ph[s].type \in {"empty", "simple_zero_index", "simple_nonzero_index",
                            "nonsimple"}
         /\ DOMAIN ph[s].by \subseteq Nat
    /\ seen \in Nat \ {0} /\ flags \subseteq Nat
    /\ strings = [inputs |-> strings.inputs, flags |-> strings.flags,
                  outputs |-> strings.outputs]
    /\ \A S \in {strings.inputs, strings.flags, strings.outputs} :
         IsFiniteSet(S) /\ S \subseteq Nat
    /\ \A a \in DOMAIN num : num[a] \in Nat
    /\ DOMAIN indices \subseteq Nat
    /\ avail \in Nat /\ prev = avail /\ stuck \in 0 .. JUMP_THRESHOLD + 1

Placed(s) ==
    /\ s \in DOMAIN ph /\ ~IsSimple(ph[s])
    /\ pc \in {"write", "done"} \cup (IF s < cur THEN {"pack", "failed"} ELSE {})

Slots(s) == {Slot(x) : x \in DOMAIN ph[s].by}

\* Every placed state owns its start slot and one slot per kind of input, and
\* every used position is owned by exactly the state recorded in it: no state
\* packed later has taken a position of an earlier one (ConvertOlTransducer.cc
\* 344-386, IndexPlaceholders::fits).
SlotOwnership ==
    /\ \A s \in DOMAIN ph : Placed(s) =>
         /\ ph[s].start \in DOMAIN indices
         /\ indices[ph[s].start] = <<s, NO_SYMBOL_NUMBER>>
         /\ \A x \in Slots(s) :
              /\ ph[s].start + 1 + x \in DOMAIN indices
              /\ indices[ph[s].start + 1 + x] = <<s, x>>
    /\ \A q \in DOMAIN indices : \E s \in DOMAIN ph :
         /\ Placed(s)
         /\ \/ q = ph[s].start /\ indices[q] = <<s, NO_SYMBOL_NUMBER>>
            \/ \E x \in Slots(s) : q = ph[s].start + 1 + x /\ indices[q] = <<s, x>>

\* Packing never overwrites a position an earlier state uses.
NoOverwrite ==
    [][\A q \in DOMAIN indices : q \in DOMAIN indices' /\ indices'[q] = indices[q]]_vars

\* No two states end up with the same address, so an arc's target in the tables
\* names one state: start slots are distinct, and a simple state's finality
\* marker is in no other state's part of the transition table.
AddressesDistinct ==
    pc \in {"write", "done"} =>
      \A s, r \in States(t) : s # r => Address(s) # Address(r)

\* The first n arcs of s, but only those with the input number x.
Own(s, x, n) ==
    FlattenSeq([i \in 1 .. n |->
                  IF Number(t.arcs[s][i].in) = x THEN <<t.arcs[s][i]>> ELSE << >>])

\* The arcs of the graph a reader of input x must find at state s.
Expected(s, x) ==
    LET own == Own(s, x, Len(t.arcs[s]))
    IN  [i \in DOMAIN own |->
            [in |-> x, out |-> Number(own[i].out), to |-> Address(own[i].to)]]

\* The reader's view of the packed tables is the graph: from the address of
\* every state, reading an input symbol gives exactly that state's arcs for it,
\* in order; reading epsilon gives its epsilon arcs and then its flag arcs.
ReadsExactly ==
    pc = "done" =>
      \A s \in States(t) :
        /\ \A x \in 1 .. seen - 1 :
             x \notin flags => ReadArcs(Address(s), x, {x}) = Expected(s, x)
        /\ ReadArcs(Address(s), 0, flags \cup {0}) =
             FlattenSeq([i \in 1 .. NO_SYMBOL_NUMBER + 1 |->
                           IF ZeroIndexed(i - 1) THEN Expected(s, i - 1) ELSE << >>])

\* The padding is long enough for every input symbol a lookup may index with,
\* and the transition table ends in an entry that stops every run.
ReadsInBounds ==
    pc = "done" =>
      /\ \A s \in States(t) : ~IsSimple(ph[s]) =>
           \A x \in 0 .. seen - 1 : ph[s].start + 1 + x \in DOMAIN windex
      /\ \A q \in DOMAIN windex : windex[q].in # NO_SYMBOL_NUMBER =>
           windex[q].to - START \in 0 .. Len(wtrans) - 2
      /\ wtrans[Len(wtrans)].in = NO_SYMBOL_NUMBER
==============================================================================
