----------------------- MODULE ComposeIntersectProduct -----------------------
(***************************************************************************)
(* What HfstTransducer::compose_intersect promises (HfstTransducer.h):     *)
(* "Compose this transducer with the intersection of transducers in v.  If *)
(* invert is true, then compose the intersection of the transducers in v   *)
(* with this transducer."                                                  *)
(*                                                                         *)
(* The specification builds the product one arc at a time, in any order,   *)
(* and may stop only when every arc of every reached state is there.       *)
(* A state of the product is a lexicon state and one state of each rule.   *)
(***************************************************************************)
EXTENDS ComposeIntersectProblem

VARIABLES
    states,  \* product states reached
    arcs,    \* product arcs built: [from, in, out, to]
    finals,
    done

vars == <<problem, states, arcs, finals, done>>

Start == <<0, [i \in DOMAIN problem.rules |-> 0]>>

\* The arcs of a rule that read x; identity reads what is not in the alphabet.
Reading(m, s, x) ==
    {a \in m.arcs[s] : a.in = x} \cup
    (IF x \in m.symbols THEN {}
     ELSE {[in |-> x, out |-> x, to |-> a.to] : a \in {b \in m.arcs[s] : b.in = IDENTITY}})

\* The steps the intersection of the rules takes from rule states r on x: all
\* rules agree on the output.
Intersection(r, x) ==
    {[out |-> f[1].out, to |-> [i \in DOMAIN Rules |-> f[i].to]] :
        f \in {h \in [DOMAIN Rules -> UNION {Reading(Rules[i], r[i], x) : i \in DOMAIN Rules}] :
                 \A i \in DOMAIN Rules : h[i] \in Reading(Rules[i], r[i], x) /\ h[i].out = h[1].out}}

\* Symbols on the lexicon's output side that pass the rules by: epsilon, and the
\* flag diacritics that are in no rule's alphabet.
Bypasses(x) ==
    \/ x = EPSILON
    \/ x \in FlagSymbols /\ \A i \in DOMAIN Rules : x \notin Rules[i].symbols

\* The arcs of the composition from the product state p.
Composed(p) ==
    {[from |-> p, in |-> a.in, out |-> a.out, to |-> <<a.to, p[2]>>] :
        a \in {b \in Lexicon.arcs[p[1]] : Bypasses(b.out)}}
    \cup (UNION {{[from |-> p, in |-> a.in, out |-> b.out, to |-> <<a.to, b.to>>] :
                     b \in Intersection(p[2], a.out)} :
                 a \in {b \in Lexicon.arcs[p[1]] : ~Bypasses(b.out)}})
    \cup {[from |-> p, in |-> EPSILON, out |-> b.out, to |-> <<p[1], b.to>>] :
            b \in Intersection(p[2], EPSILON)}

\* The same, in the direction asked for.
ProductArcs(p) == IF problem.invert THEN {Swap(a) : a \in Composed(p)} ELSE Composed(p)

ProductFinal(p) ==
    p[1] \in Lexicon.final /\ \A i \in DOMAIN Rules : p[2][i] \in Rules[i].final

Init ==
    /\ problem \in Problems
    /\ states = {Start} /\ arcs = {} /\ finals = {} /\ done = FALSE

AddArc ==
    /\ ~done
    /\ \E p \in states : \E a \in ProductArcs(p) :
         arcs' = arcs \cup {a} /\ states' = states \cup {a.to}
    /\ UNCHANGED <<problem, finals, done>>

Finish ==
    /\ ~done /\ \A p \in states : ProductArcs(p) \subseteq arcs
    /\ finals' = {p \in states : ProductFinal(p)}
    /\ done' = TRUE
    /\ UNCHANGED <<problem, states, arcs>>

Next == AddArc \/ Finish
Spec == Init /\ [][Next]_vars
==============================================================================
