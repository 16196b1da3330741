----------------------------- MODULE LookupState -----------------------------
(***************************************************************************)
(* The search of hfst-proc: lookup-state.cc, lookup-path.cc, formatter.cc  *)
(* (preprocess_finals) in tools/src/hfst-proc.                             *)
(*                                                                         *)
(* All paths that have read the same input are kept side by side and       *)
(* extended together.  A path is a state with the symbols written, the     *)
(* flag values and the weight on the way to it; paths that agree in all of *)
(* them are one.                                                           *)
(***************************************************************************)
EXTENDS OlGraph

CONSTANTS
    Silent,             \* symbols that are written as nothing
    ToLower,            \* the lower-case symbol of each upper-case one
    CompoundBoundaries, \* symbols that mark a boundary inside a compound
    maxAnalyses, maxWeightClasses,
    do_compound_filtering

\* The initial path.
NewPath == [state |-> 0, out |-> << >>, values |-> Neutral, weight |-> 0]

\* LookupPath::follow and its weighted and flag diacritic forms.
CanFollow(p, a) == a.in \in Flags => Allows(FlagOp[a.in], p.values)
Follow(p, a) ==
    [state |-> a.to,
     out |-> IF a.out \in Silent THEN p.out ELSE Append(p.out, a.out),
     values |-> IF a.in \in Flags THEN Applied(FlagOp[a.in], p.values) ELSE p.values,
     weight |-> p.weight + a.w]

\* try_epsilons: the vector of paths is extended while it is walked through.
\* Transducers have no epsilon cycle (ProcTransducer warns of them).
EpsilonArcs(gr, p) == {a \in Range(ZeroArcs(gr, p.state)) : CanFollow(p, a)}
WithEpsilons(gr, P) ==
    LET next(Q) == UNION {{Follow(q, a) : a \in EpsilonArcs(gr, q)} : q \in Q}
        found[k \in 0 .. gr.n - 1] == IF k = 0 THEN P ELSE next(found[k - 1])
    IN  UNION {found[k] : k \in 0 .. gr.n - 1}

\* init, reset
InitialPaths(gr) == WithEpsilons(gr, {NewPath})

\* step(input, caps_mode): the symbols tried for an input symbol.
Inputs(x, sensitive) ==
    {x} \cup IF x \in DOMAIN ToLower /\ ~sensitive THEN {ToLower[x]} ELSE {}

\* apply_input, then try_epsilons; no path survives what is not a symbol.
Stepped(gr, P, x, sensitive) ==
    IF x = NO_SYMBOL \/ x = 0 THEN {}
    ELSE UNION {UNION {WithEpsilons(gr, {Follow(p, a)}) :
                         a \in Range(ArcsFor(gr, p.state, y))} :
                  p \in P, y \in Inputs(x, sensitive)}

\* is_final
IsFinal(gr, P) == \E p \in P : p.state \in DOMAIN gr.final

\* get_finals_set: one path for each output.  Of paths with one output the code
\* keeps the one with the lower address, so that it may be any of them.
Finals(gr, P) ==
    {[out |-> p.out, weight |-> p.weight + gr.final[p.state]] :
        p \in {q \in P : q.state \in DOMAIN gr.final}}
FinalsSets(gr, P) ==
    LET all == Finals(gr, P)
        outs == {f.out : f \in all}
    IN  {{[out |-> o, weight |-> w[o]] : o \in outs} :
           w \in {v \in [outs -> {f.weight : f \in all}] :
                    \A o \in outs : [out |-> o, weight |-> v[o]] \in all}}

\* preprocess_finals: fewest compound boundaries, then the best weight classes,
\* then the first analyses in the order of weight and output.
Boundaries(f) == Len(SelectSeq(f.out, LAMBDA x : x \in CompoundBoundaries))
FewestBoundaries(F) ==
    IF do_compound_filtering
    THEN {f \in F : \A g \in F : Boundaries(f) <= Boundaries(g)} ELSE F
Lighter(F, f) == {g.weight : g \in {h \in F : h.weight < f.weight}}
\* std::vector's order on output_symbols.
OutBefore(o, p) ==
    \/ IsStrictPrefix(o, p)
    \/ \E i \in DOMAIN o \cap DOMAIN p :
         o[i] < p[i] /\ SubSeq(o, 1, i - 1) = SubSeq(p, 1, i - 1)
Before(f, g) == f.weight < g.weight \/ (f.weight = g.weight /\ OutBefore(f.out, g.out))

Kept(F) ==
    LET fewest == FewestBoundaries(F)
        best == {f \in fewest : Cardinality(Lighter(fewest, f)) < maxWeightClasses}
    IN  {f \in best : Cardinality({g \in best : Before(g, f)}) < maxAnalyses}
==============================================================================
