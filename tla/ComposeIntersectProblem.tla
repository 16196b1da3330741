----------------------- MODULE ComposeIntersectProblem -----------------------
(***************************************************************************)
(* What a call of HfstTransducer::compose_intersect is given: a lexicon,   *)
(* rules, and whether to compose the other way round; and the precondition *)
(* of HfstTransducer.h, "The transducers in v are deterministic and        *)
(* epsilon-free".  The call renames the lexicon's identity symbol, so that *)
(* only rules have one.                                                    *)
(***************************************************************************)
EXTENDS Naturals, Sequences, FiniteSets

CONSTANTS
    Problems,    \* [lexicon, rules, invert]: what may be composed
    EPSILON,     \* the number of the epsilon symbol
    IDENTITY,    \* the number of the identity symbol
    FlagSymbols  \* the numbers of flag diacritics

\* A machine has states 0 .. n - 1, finitely many arcs from each, its final states
\* and the symbols of its alphabet.
IsMachine(m) ==
    /\ m.n \in Nat \ {0}
    /\ m.arcs \in [0 .. m.n - 1 -> SUBSET [in : Nat, out : Nat, to : 0 .. m.n - 1]]
    /\ m.final \subseteq 0 .. m.n - 1
    /\ m.symbols \subseteq Nat /\ EPSILON \in m.symbols
    /\ \A s \in 0 .. m.n - 1 :
         IsFiniteSet(m.arcs[s]) /\ \A a \in m.arcs[s] : {a.in, a.out} \subseteq m.symbols

\* The precondition: rules are deterministic (on pairs) and epsilon-free, as the
\* twol compiler makes them; a rule may still insert a symbol for epsilon.
IsRule(m) ==
    /\ IsMachine(m)
    /\ \A s \in 0 .. m.n - 1 : \A a, b \in m.arcs[s] :
         /\ (a.in = b.in /\ a.out = b.out) => a = b
         /\ ~(a.in = EPSILON /\ a.out = EPSILON)
         /\ a.in = IDENTITY <=> a.out = IDENTITY

ASSUME ProblemsAssumption ==
    \A p \in Problems :
        /\ IsMachine(p.lexicon) /\ p.invert \in BOOLEAN
        /\ \A s \in DOMAIN p.lexicon.arcs : \A a \in p.lexicon.arcs[s] :
             IDENTITY \notin {a.in, a.out}
        /\ p.rules \in Seq({p.rules[i] : i \in DOMAIN p.rules})
        /\ Len(p.rules) \in {1, 2} /\ \A i \in DOMAIN p.rules : IsRule(p.rules[i])
ASSUME NumbersAssumption ==
    EPSILON \in Nat /\ IDENTITY \in Nat \ {EPSILON} /\ FlagSymbols \subseteq Nat \ {EPSILON}

VARIABLE problem

Swap(a) == [a EXCEPT !.in = a.out, !.out = a.in]
Inverted(m) == [n |-> m.n, arcs |-> [s \in DOMAIN m.arcs |-> {Swap(a) : a \in m.arcs[s]}],
                final |-> m.final, symbols |-> m.symbols]

\* To compose the other way round, compose the inverses and invert the result.
Lexicon == IF problem.invert THEN Inverted(problem.lexicon) ELSE problem.lexicon
Rules == IF problem.invert
         THEN [i \in DOMAIN problem.rules |-> Inverted(problem.rules[i])]
         ELSE problem.rules
==============================================================================
