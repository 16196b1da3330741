----------------------------- MODULE OlRoundTrip -----------------------------
(***************************************************************************)
(* Conversion of the packed tables that OlConvert writes back to a graph:  *)
(*   hfst_ol_to_hfst_basic_transducer (ConvertOlTransducer.cc) with        *)
(*   Transducer::get_transitions_from_state (optimized-lookup/             *)
(*   transducer.cc)                                                        *)
(*                                                                         *)
(* Nothing but addresses tells the states apart now.  The tables are read  *)
(* as they lie in memory: the index table for every symbol number there    *)
(* is, which may be a position behind its end.                             *)
(***************************************************************************)
EXTENDS OlConvert

VARIABLES
    back,         \* phase: before, run, done, undefined
    agenda,       \* addresses whose arcs are still to be read; the last is next
    state_map,    \* address -> number of the state in the new graph
    basic         \* the new graph: arcs of each state, and its final states

backVars == <<back, agenda, state_map, basic>>

-----------------------------------------------------------------------------
\* The table of a harmonizer that this code wrote: every string once, and its number
\* is its place among them; epsilon comes first.
ASSUME SymbolTablesAssumption ==
    \A h \in Harmonizers \ {NoHarmonizer} :
        /\ IsFiniteSet(DOMAIN h.numbers) /\ IsInjective(h.numbers)
        /\ \A a \in DOMAIN h.numbers : h.numbers[a] < Cardinality(DOMAIN h.numbers)
        /\ EPSILON \in DOMAIN h.numbers /\ h.numbers[EPSILON] = 0

symbol_count == Cardinality(DOMAIN num)

\* symbols[x]
StringOf(x) == CHOOSE a \in DOMAIN num : num[a] = x

\* The index positions get_transitions_from_state looks at.
IndexReads(address) ==
    {address + 1} \cup {address + 1 + x : x \in (0 .. symbol_count - 1) \ flags}

\* The positions from p on up to the first whose input is not in X.
RunFrom(p, X) ==
    {q \in p .. Len(wtrans) - 1 : \A r \in p .. q : wtrans[r + 1].in \in X}

\* The epsilon arcs are followed by those with flags, all behind one index entry.
FlagArcs(address) ==
    IF windex[address + 1].in # 0 THEN {}
    ELSE {p \in RunFrom(windex[address + 1].to - START, flags \cup {0}) :
             wtrans[p + 1].in \in flags}

SymbolArcs(address, x) ==
    IF windex[address + 1 + x].in # x THEN {}
    ELSE RunFrom(windex[address + 1 + x].to - START, {x})

\* Positions of the transition table, of all arcs of the state at address.
get_transitions_from_state(address) ==
    IF address < START
    THEN FlagArcs(address)
           \cup UNION {SymbolArcs(address, x) : x \in (0 .. symbol_count - 1) \ flags}
    ELSE RunFrom(address - START + 1, Nat \ {NO_SYMBOL_NUMBER})

IsFinal(address) ==
    IF address < START
    THEN windex[address].in = NO_SYMBOL_NUMBER /\ windex[address].to # NO_TABLE_INDEX
    ELSE LET e == wtrans[address - START + 1]
         IN  e.in = NO_SYMBOL_NUMBER /\ e.out = NO_SYMBOL_NUMBER /\ e.to = 1

FinalsWith(address, number) == IF IsFinal(address) THEN {number} ELSE {}

-----------------------------------------------------------------------------
StartBack ==
    /\ pc = "done" /\ back = "before"
    /\ back' = "run"
    /\ agenda' = <<0>>
    /\ state_map' = [a \in {0} |-> 0]
    /\ basic' = [arcs |-> << >>, final |-> FinalsWith(0, 0)]

\* A set of numbers in ascending order.
InOrder(S) ==
    [n \in 1 .. Cardinality(S) |-> CHOOSE i \in S : Cardinality({j \in S : j <= i}) = n]

\* The targets that are not states yet, in the order the arcs lead to them.
NewTargets(targets) ==
    LET fresh == {i \in DOMAIN targets : /\ targets[i] \notin DOMAIN state_map
                                        /\ \A j \in 1 .. i - 1 : targets[j] # targets[i]}
    IN  [n \in 1 .. Cardinality(fresh) |-> targets[InOrder(fresh)[n]]]

\* One state off the agenda: its arcs, with new states for targets not seen before.
TakeState ==
    /\ back = "run" /\ agenda # << >>
    /\ LET address == Last(agenda)
           number == state_map[address]
       IN  /\ address < START => IndexReads(address) \subseteq DOMAIN windex
           /\ \E entries \in {InOrder(get_transitions_from_state(address))} :
              \E new \in {NewTargets([i \in DOMAIN entries |-> wtrans[entries[i] + 1].to])} :
              LET Fresh(n) == Cardinality(DOMAIN state_map) - 1 + n
              IN  /\ state_map' =
                       [a \in DOMAIN state_map \cup Range(new) |->
                           IF a \in DOMAIN state_map THEN state_map[a]
                           ELSE Fresh(CHOOSE n \in DOMAIN new : new[n] = a)]
                  /\ agenda' = Front(agenda) \o new
                  /\ basic' =
                       [arcs |-> [s \in DOMAIN basic.arcs \cup {number} |->
                                     IF s # number THEN basic.arcs[s]
                                     ELSE [i \in DOMAIN entries |->
                                             LET e == wtrans[entries[i] + 1]
                                             IN  [in |-> StringOf(e.in), out |-> StringOf(e.out),
                                                  to |-> state_map'[e.to]]]],
                        final |-> basic.final
                          \cup UNION {FinalsWith(new[n], Fresh(n)) : n \in DOMAIN new}]
    /\ UNCHANGED back

\* The index table is read behind its end: nothing can be said of what follows.
ReadPastEnd ==
    /\ back = "run" /\ agenda # << >>
    /\ Last(agenda) < START
    /\ ~(IndexReads(Last(agenda)) \subseteq DOMAIN windex)
    /\ back' = "undefined"
    /\ UNCHANGED <<agenda, state_map, basic>>

FinishBack ==
    /\ back = "run" /\ agenda = << >>
    /\ back' = "done"
    /\ UNCHANGED <<agenda, state_map, basic>>

InitRoundTrip ==
    /\ Init
    /\ back = "before" /\ agenda = << >> /\ state_map = << >>
    /\ basic = [arcs |-> << >>, final |-> {}]

ConvertBack == StartBack \/ TakeState \/ ReadPastEnd \/ FinishBack

NextRoundTrip ==
    \/ Next /\ UNCHANGED backVars
    \/ ConvertBack /\ UNCHANGED vars

SpecRoundTrip == InitRoundTrip /\ [][NextRoundTrip]_<<vars, backVars>>
FairRoundTrip == SpecRoundTrip /\ WF_<<vars, backVars>>(NextRoundTrip)

-----------------------------------------------------------------------------
Count(seq, a) == Cardinality({i \in DOMAIN seq : seq[i] = a})

\* What becomes of a string: one that a harmonizer's table lacks is epsilon from then on.
KeptAs(x) == IF x \in DOMAIN num THEN x ELSE EPSILON

\* Converting to tables and back gives the graph again, as far as it can be reached: the
\* addresses found are those of states, each found once, and each state has the arcs it
\* had, as often as it had them, between the strings it had, and is final if it was.  What
\* a harmonizer's table does to a string touches no other arc and no other string.
\* (hfst_basic_transducer_to_hfst_ol, hfst_ol_to_hfst_basic_transducer)
RoundTrip == back = "done" =>
    LET Reached == {s \in States(t) : Address(s) \in DOMAIN state_map}
        New(s) == state_map[Address(s)]
        Target(s) == IF s \in Reached THEN New(s) ELSE NO_TABLE_INDEX
        Renamed(s) == [i \in DOMAIN t.arcs[s] |-> [in |-> KeptAs(t.arcs[s][i].in),
                                                  out |-> KeptAs(t.arcs[s][i].out),
                                                  to |-> Target(t.arcs[s][i].to)]]
    IN  /\ 0 \in Reached /\ New(0) = 0
        /\ Cardinality(Reached) = Cardinality(DOMAIN state_map)
        /\ \A s, r \in Reached : New(s) = New(r) => s = r
        /\ DOMAIN basic.arcs = {New(s) : s \in Reached}
        /\ \A s \in Reached :
              LET old == Renamed(s)
                  new == basic.arcs[New(s)]
              IN  /\ Len(new) = Len(old)
                  /\ \A i \in DOMAIN old : Count(old, old[i]) = Count(new, old[i])
                  /\ s \in t.final <=> New(s) \in basic.final

\* Converted there and back, whatever the graph, the conversions come to an end.
Terminates == <>(pc = "failed" \/ back \in {"done", "undefined"})
==============================================================================
