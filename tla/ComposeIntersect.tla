--------------------------- MODULE ComposeIntersect ---------------------------
(***************************************************************************)
(* The lazy composition of a lexicon with the intersection of rules:       *)
(*   libhfst/src/implementations/compose_intersect/, called from           *)
(*   HfstTransducer::compose_intersect.                                    *)
(*                                                                         *)
(* ComposeIntersectRulePair intersects two rules on demand: a state of the *)
(* pair gets its number when a transition to it is first computed, and the *)
(* transitions of a state for a symbol are computed when first asked for.  *)
(* ComposeIntersectLexicon numbers the pairs of a lexicon state and a rule *)
(* state as its agenda meets them.  One rule is used as it is.             *)
(***************************************************************************)
EXTENDS ComposeIntersectProblem, SequencesExt

VARIABLES
    rulePairs,  \* state_pair_vector: state s of the rule pair is rulePairs[s + 1]
    cache,      \* state_transition_vector: <<state, symbol>> -> transitions
    lexPairs,   \* pair_vector: state s of the result is lexPairs[s + 1]
    agenda,
    pc,         \* next, symbol, merge, add, done
    state,      \* the result state compute_state is at
    symbols,    \* the output symbols of its lexicon state not yet handled
    left, right, matched,  \* compute_transition_set: the two rests, and its result
    todo,       \* the arcs the current symbol is yet to add
    result,     \* the arcs of the result
    finals

ruleVars == <<rulePairs, cache, left, right, matched>>
lexVars == <<lexPairs, agenda, result>>
vars == <<problem, ruleVars, lexVars, pc, state, symbols, todo, finals>>

-----------------------------------------------------------------------------
(* The transitions of a rule *)

Paired == Len(Rules) = 2

\* CompareTransitions
Before(a, b) ==
    \/ a.in < b.in
    \/ a.in = b.in /\ a.out < b.out
    \/ a.in = b.in /\ a.out = b.out /\ a.to < b.to

\* The elements of S as a vector, where below[e] are those that come before e.
InOrder(S, below) ==
    [i \in 1 .. Cardinality(S) |-> CHOOSE e \in S : Cardinality(below[e]) = i - 1]
Sorted(S) == InOrder(S, [a \in S |-> {b \in S : Before(b, a)}])

\* Mutant: the identity of a rule applies to the symbols it knows, too.
TransitionsKnown(m, s, x) ==
    LET own == {a \in m.arcs[s] : a.in = x}
        identity == {[in |-> x, out |-> x, to |-> a.to] :
                       a \in {b \in m.arcs[s] : b.in = IDENTITY}}
    IN  Sorted(IF own # {} THEN own ELSE identity)

\* ComposeIntersectFst::get_transitions
Transitions(m, s, x) ==
    LET own == {a \in m.arcs[s] : a.in = x}
        identity == {[in |-> x, out |-> x, to |-> a.to] :
                       a \in {b \in m.arcs[s] : b.in = IDENTITY}}
    IN  Sorted(IF own # {} \/ x \in m.symbols THEN own ELSE identity)

\* known_symbol: not virtual, and the symbols of a rule pair are never set.
RulesKnow(x) == ~Paired /\ x \in Rules[1].symbols

-----------------------------------------------------------------------------
\* Mutant: the size of the vector after push_back is taken for the number.
NumberOfFromOne(vector, e) == CHOOSE i \in DOMAIN vector : vector[i] = e

\* The number of an element of a vector without repetitions.
NumberOf(vector, e) == (CHOOSE i \in DOMAIN vector : vector[i] = e) - 1

\* Mutant: every pair is taken for a new one.
WithNeverFound(vector, e) == Append(vector, e)

\* get_state of either class: e is added unless it is there.
With(vector, e) == IF e \in Range(vector) THEN vector ELSE Append(vector, e)

\* The lexicon state and the rule state of the result state at hand.
LexState == lexPairs[state + 1][1]
RuleState == lexPairs[state + 1][2]

\* The constructor of the rule pair, and compose_with_rules.
Init ==
    /\ problem \in Problems
    /\ rulePairs = <<(<<0, 0>>)>> /\ cache = << >>
    /\ lexPairs = <<(<<0, 0>>)>> /\ agenda = <<0>>
    /\ pc = "next" /\ state = 0 /\ symbols = << >>
    /\ left = << >> /\ right = << >> /\ matched = << >>
    /\ todo = << >> /\ result = {} /\ finals = {}

\* Mutant: front() without pop().
PoppedNot(queue) == queue

\* compute_composition_result takes the first state from the agenda.
Popped(queue) == Tail(queue)

\* compute_state: the symbols on the output side of the lexicon state, in order;
\* after them the rules' epsilons, once more under EPSILON.
ComputeState ==
    /\ pc = "next" /\ agenda # << >>
    /\ state' = Head(agenda) /\ agenda' = Popped(agenda)
    /\ LET outs == {a.out : a \in Lexicon.arcs[lexPairs[Head(agenda) + 1][1]]}
           sorted == InOrder(outs, [x \in outs |-> {y \in outs : y < x}])
       IN  symbols' = Append([i \in DOMAIN sorted |-> [x |-> sorted[i], rule |-> FALSE]],
                             [x |-> EPSILON, rule |-> TRUE])
    /\ pc' = "symbol"
    /\ UNCHANGED <<problem, ruleVars, lexPairs, result, todo, finals>>

\* The lexicon's arcs for the symbol at hand.
LexArcs == Sorted({a \in Lexicon.arcs[LexState] : a.out = Head(symbols).x})

Skips == /\ ~Head(symbols).rule
         /\ \/ Head(symbols).x = EPSILON
            \/ Head(symbols).x \in FlagSymbols /\ ~RulesKnow(Head(symbols).x)

\* lexicon_skip_symbol_compose: the rules stay where they are.
SkipSymbol ==
    /\ pc = "symbol" /\ symbols # << >> /\ Skips
    /\ todo' = [i \in DOMAIN LexArcs |->
                  [in |-> LexArcs[i].in, out |-> LexArcs[i].out,
                   to |-> <<LexArcs[i].to, RuleState>>]]
    /\ pc' = "add"
    /\ UNCHANGED <<problem, ruleVars, lexVars, state, symbols, finals>>

\* Mutant: the transitions of a state are kept without their symbol.
CacheKeyNoSymbol(s, x) == <<s, EPSILON>>

CacheKey(s, x) == <<s, x>>
Asked == CacheKey(RuleState, Head(symbols).x)

\* get_transitions of the pair, when they are not computed yet.
ComputeTransitionSet ==
    /\ pc = "symbol" /\ symbols # << >> /\ ~Skips /\ Paired
    /\ Asked \notin DOMAIN cache
    /\ LET pair == rulePairs[RuleState + 1]
       IN  /\ left' = Transitions(Rules[1], pair[1], Head(symbols).x)
           /\ right' = Transitions(Rules[2], pair[2], Head(symbols).x)
    /\ matched' = << >> /\ pc' = "merge"
    /\ UNCHANGED <<problem, rulePairs, cache, lexVars, state, symbols, todo, finals>>

\* The left rule has the lesser output.
LeftFirst == Head(left).out < Head(right).out

\* One turn of the merge: a common output is a transition of the pair.
MergeEqual ==
    /\ pc = "merge" /\ left # << >> /\ right # << >> /\ Head(left).out = Head(right).out
    /\ LET pair == <<Head(left).to, Head(right).to>>
       IN  /\ rulePairs' = With(rulePairs, pair)
           /\ matched' = Append(matched, [out |-> Head(left).out,
                                          to |-> NumberOf(rulePairs', pair)])
    /\ left' = Tail(left) /\ right' = Tail(right)
    /\ UNCHANGED <<problem, cache, lexVars, pc, state, symbols, todo, finals>>

MergeSkip ==
    /\ pc = "merge" /\ left # << >> /\ right # << >> /\ Head(left).out # Head(right).out
    /\ IF LeftFirst THEN left' = Tail(left) /\ UNCHANGED right
                    ELSE right' = Tail(right) /\ UNCHANGED left
    /\ UNCHANGED <<problem, rulePairs, cache, matched, lexVars, pc, state, symbols,
                   todo, finals>>

MergeDone ==
    /\ pc = "merge" /\ (left = << >> \/ right = << >>)
    /\ cache' = [q \in DOMAIN cache \cup {Asked} |->
                   IF q = Asked THEN matched ELSE cache[q]]
    /\ pc' = "symbol"
    /\ UNCHANGED <<problem, rulePairs, left, right, matched, lexVars, state, symbols,
                   todo, finals>>

\* The turns of a loop of n turns inside one of m turns.
Turns(m, n) ==
    LET S == (1 .. m) \X (1 .. n)
    IN  InOrder(S, [p \in S |-> {q \in S : q[1] < p[1] \/ (q[1] = p[1] /\ q[2] < p[2])}])

\* The rules' transitions for the symbol at hand.
RuleArcs == IF Paired THEN cache[Asked] ELSE Transitions(Rules[1], RuleState, Head(symbols).x)

\* compose and rule_skip_symbol_compose: every lexicon arc with every rule
\* transition, and the rules' epsilons with the lexicon staying where it is.
Compose ==
    /\ pc = "symbol" /\ symbols # << >> /\ ~Skips
    /\ Paired => Asked \in DOMAIN cache
    /\ todo' = IF Head(symbols).rule
               THEN [i \in DOMAIN RuleArcs |->
                       [in |-> EPSILON, out |-> RuleArcs[i].out,
                        to |-> <<LexState, RuleArcs[i].to>>]]
               ELSE LET turns == Turns(Len(LexArcs), Len(RuleArcs))
                    IN  [k \in DOMAIN turns |->
                           LET a == LexArcs[turns[k][1]]
                               b == RuleArcs[turns[k][2]]
                           IN  [in |-> a.in, out |-> b.out, to |-> <<a.to, b.to>>]]
    /\ pc' = "add"
    /\ UNCHANGED <<problem, ruleVars, lexVars, state, symbols, finals>>

\* Mutant: a new state is not put on the agenda.
AgendaForgotten(p) == agenda

\* map_state_and_add_to_agenda, for the target p of an arc.
AgendaWith(p) ==
    IF p \in Range(lexPairs) THEN agenda ELSE Append(agenda, Len(lexPairs))

\* get_state and add_transition for one arc.
AddArc ==
    /\ pc = "add" /\ todo # << >>
    /\ LET a == Head(todo)
       IN  /\ lexPairs' = With(lexPairs, a.to)
           /\ agenda' = AgendaWith(a.to)
           /\ result' = result \cup {[from |-> state, in |-> a.in, out |-> a.out,
                                      to |-> NumberOf(lexPairs', a.to)]}
    /\ todo' = Tail(todo)
    /\ UNCHANGED <<problem, ruleVars, pc, state, symbols, finals>>

SymbolDone ==
    /\ pc = "add" /\ todo = << >>
    /\ symbols' = Tail(symbols)
    /\ pc' = IF Len(symbols) = 1 THEN "next" ELSE "symbol"
    /\ UNCHANGED <<problem, ruleVars, lexVars, state, todo, finals>>

\* The states of the rules behind a rule state.
RuleStates(r) == IF Paired THEN rulePairs[r + 1] ELSE <<r>>

\* Mutant: the result of two rules is not inverted back, either.
InvertedBackNever == FALSE

\* Whether compose_intersect inverts the result back.
InvertedBack == problem.invert /\ Paired

\* set_final_state_weights; and, with two rules, compose_intersect inverts the
\* result back.
Finish ==
    /\ pc = "next" /\ agenda = << >>
    /\ finals' = {s \in 0 .. Len(lexPairs) - 1 :
                    /\ lexPairs[s + 1][1] \in Lexicon.final
                    /\ \A i \in DOMAIN Rules :
                         RuleStates(lexPairs[s + 1][2])[i] \in Rules[i].final}
    /\ result' = IF InvertedBack THEN {Swap(a) : a \in result} ELSE result
    /\ pc' = "done"
    /\ UNCHANGED <<problem, ruleVars, lexPairs, agenda, state, symbols, todo>>

Next ==
    \/ ComputeState \/ SkipSymbol \/ ComputeTransitionSet
    \/ MergeEqual \/ MergeSkip \/ MergeDone
    \/ Compose \/ AddArc \/ SymbolDone \/ Finish

\* One call: its loops run until the agenda is empty.
Spec == Init /\ [][Next]_vars
FairSpec == Spec /\ WF_vars(Next)

-----------------------------------------------------------------------------
(* Properties *)

TypeOK ==
    /\ pc \in {"next", "symbol", "merge", "add", "done"}
    /\ state \in 0 .. Len(lexPairs) - 1
    /\ \A i \in DOMAIN lexPairs :
         /\ lexPairs[i][1] \in 0 .. Lexicon.n - 1
         /\ lexPairs[i][2] \in IF Paired THEN 0 .. Len(rulePairs) - 1
                               ELSE 0 .. Rules[1].n - 1
    /\ \A i \in DOMAIN agenda : agenda[i] \in 0 .. Len(lexPairs) - 1
    /\ \A a \in result : a.from < Len(lexPairs) /\ a.to < Len(lexPairs)

\* Numbers and pairs correspond one to one, in both numberings: get_state never
\* numbers a pair twice ("Sanity check... assert(s == state_pair_map.size())").
PairsNumberedOnce ==
    /\ Cardinality(Range(lexPairs)) = Len(lexPairs)
    /\ Cardinality(Range(rulePairs)) = Len(rulePairs)

\* Every state of the result is computed exactly once, in the order of the
\* numbers: those after the one compute_state is at are on the agenda, and no arc
\* leaves them yet.
AgendaIsRest ==
    LET first == IF agenda # << >> /\ Head(agenda) = 0 THEN 0 ELSE state + 1
    IN  /\ agenda = [i \in 1 .. Len(lexPairs) - first |-> first + i - 1]
        /\ pc # "done" => \A a \in result : a.from < first

\* The product state of a result state.
ProductState(s) == <<lexPairs[s + 1][1], RuleStates(lexPairs[s + 1][2])>>

\* The result as the specification sees it, in the direction asked for from the
\* beginning.
ProductResult ==
    LET Product(a) == [from |-> ProductState(a.from), in |-> a.in, out |-> a.out,
                       to |-> ProductState(a.to)]
    IN  {IF problem.invert /\ pc # "done" THEN Swap(Product(a)) ELSE Product(a) :
           a \in result}

Promise == INSTANCE ComposeIntersectProduct WITH
    states <- {ProductState(s) : s \in 0 .. Len(lexPairs) - 1},
    arcs <- ProductResult,
    finals <- {ProductState(s) : s \in finals},
    done <- pc = "done"

\* The agenda, the numbering and the cache implement the product construction:
\* each arc added is one of the product's, and none is missing at the end.
Implements == Promise!Spec

\* What the pair computed for a state and a symbol is the intersection of what
\* its rules allow, also when it is asked for again later.
CacheIsIntersection ==
    \A q \in DOMAIN cache :
        {[out |-> cache[q][i].out, to |-> RuleStates(cache[q][i].to)] :
            i \in DOMAIN cache[q]} = Promise!Intersection(RuleStates(q[1]), q[2])

\* "Compose this transducer with the intersection of transducers in v. If invert
\* is true, then compose the intersection of the transducers in v with this
\* transducer": when the call returns the arcs are those of that composition.
ComposedAsAsked ==
    pc = "done" => ProductResult = UNION {Promise!ProductArcs(ProductState(s)) :
                                            s \in 0 .. Len(lexPairs) - 1}

\* Every composition ends: there are finitely many pairs to number.
Terminates == <>(pc = "done")
==============================================================================
