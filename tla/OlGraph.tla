------------------------------- MODULE OlGraph -------------------------------
(***************************************************************************)
(* An optimized-lookup transducer as its readers see it:                   *)
(*   libhfst/src/implementations/optimized-lookup/transducer.cc,           *)
(*   transducer.h.                                                         *)
(*                                                                         *)
(* The two tables are abstracted to the arcs that reading them gives; that *)
(* they hold exactly the arcs of the graph they were packed from is        *)
(* OlConvert's ReadsExactly.  Symbols are numbers: 0 is epsilon, those     *)
(* below ORIG_SYMBOL_COUNT are the alphabet the transducer was loaded      *)
(* with, greater ones are symbols a lookup's input has added.              *)
(***************************************************************************)
EXTENDS FlagDiacritics, Sequences, SequencesExt, FiniteSets, FiniteSetsExt

CONSTANTS
    Graphs,
    FlagOp,             \* the operation of each symbol that is a flag diacritic
    IDENTITY, UNKNOWN, DEFAULT,  \* numbers of the special symbols
    NO_SYMBOL,          \* ... or this, when the alphabet lacks one
    ORIG_SYMBOL_COUNT

Flags == DOMAIN FlagOp

Zero == {0} \cup Flags

\* States 0 .. n - 1 with their arcs in table order: epsilons, flags, then the
\* others, each group by number.  final maps the final states to their weights.
IsGraph(gr) ==
    /\ gr.n \in Nat \ {0}
    /\ gr.arcs \in [0 .. gr.n - 1 ->
                      Seq([in : 0 .. ORIG_SYMBOL_COUNT - 1,
                           out : 0 .. ORIG_SYMBOL_COUNT - 1,
                           to : 0 .. gr.n - 1, w : Nat])]
    /\ \A s \in 0 .. gr.n - 1 : \A i, j \in DOMAIN gr.arcs[s] :
         LET x == gr.arcs[s][i].in
             y == gr.arcs[s][j].in
         IN  i < j => \/ x \in Zero /\ y \notin Zero
                      \/ (x \in Zero <=> y \in Zero) /\ x <= y
    /\ DOMAIN gr.final \subseteq 0 .. gr.n - 1
    /\ \A s \in DOMAIN gr.final : gr.final[s] \in Nat

ASSUME GraphsAssumption == \A gr \in Graphs : IsGraph(gr)
ASSUME SymbolsAssumption ==
    /\ ORIG_SYMBOL_COUNT \in Nat \ {0}
    /\ FlagOp \in [Flags -> Operations] /\ Flags \subseteq 1 .. ORIG_SYMBOL_COUNT - 1
    /\ {IDENTITY, UNKNOWN, DEFAULT} \subseteq
         ((1 .. ORIG_SYMBOL_COUNT - 1) \ Flags) \cup {NO_SYMBOL}
    /\ NO_SYMBOL \notin Nat

\* The arcs of s with an input in X, which are together in the table.
Run(gr, s, X) ==
    LET places == {i \in DOMAIN gr.arcs[s] : gr.arcs[s][i].in \in X}
    IN  IF places = {} THEN << >> ELSE SubSeq(gr.arcs[s], Min(places), Max(places))

\* find_transitions, find_index: the run of arcs of s with input x.
ArcsFor(gr, s, x) == Run(gr, s, {x})

\* try_epsilon_transitions: the run of epsilon and flag arcs of s.
ZeroArcs(gr, s) == Run(gr, s, Zero)

\* A state is addressed through the index table unless all its arcs are
\* epsilons and flags, or all have one input; the start state always is.
Indexed(gr, s) ==
    LET ins == {gr.arcs[s][i].in : i \in DOMAIN gr.arcs[s]}
    IN  s = 0 \/ (~(ins \subseteq Zero) /\ Cardinality(ins) > 1)

\* is_meta_arc
Meta == {IDENTITY, UNKNOWN, DEFAULT} \ {NO_SYMBOL}

\* A special symbol, if the alphabet has it.
Present(m) == IF m = NO_SYMBOL THEN << >> ELSE <<m>>

\* Mutant: identity arcs are tried for every symbol.
MatchesAlways(x) ==
    IF x < ORIG_SYMBOL_COUNT
    THEN <<x>> \o Present(IDENTITY) ELSE Present(IDENTITY) \o Present(UNKNOWN)

\* The arc inputs tried for the input symbol x, in order: x itself, or identity
\* and then unknown when x is not of the transducer's alphabet.
Matches(x) ==
    IF x < ORIG_SYMBOL_COUNT THEN <<x>> ELSE Present(IDENTITY) \o Present(UNKNOWN)
==============================================================================
