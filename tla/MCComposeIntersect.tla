-------------------------- MODULE MCComposeIntersect --------------------------
(***************************************************************************)
(* Instances of ComposeIntersect.  Symbols: 0 epsilon, 1 identity, 2 and 3 *)
(* letters, 4 a letter no rule knows, 5 a flag diacritic.                  *)
(***************************************************************************)
EXTENDS ComposeIntersect, TLC

A(in, out, to) == [in |-> in, out |-> out, to |-> to]
Id(to) == A(1, 1, to)
Machine(arcs0, arcs1, final, known) ==
    [n |-> 2, arcs |-> (0 :> arcs0 @@ 1 :> arcs1), final |-> final, symbols |-> known \cup {0, 1}]

\* Lexicons: cyclic, with epsilons on either side, a letter the rules lack and a
\* flag diacritic.
Lexicons ==
    {Machine(a0, a1, {1}, {0, 2, 3, 4, 5}) :
        a0 \in {S \in SUBSET {A(2, 2, 1), A(2, 3, 0), A(4, 4, 1), A(5, 5, 1)} :
                  Cardinality(S) \in {2, 4}},
        a1 \in {{A(3, 0, 0)}, {A(0, 2, 1), A(3, 3, 0)}}}

\* Rules that rewrite, insert, delete and pass on.
Rewriting ==
    {Machine(S \cup {Id(0)}, {A(2, 3, 0), A(3, 3, 1)}, {0}, {0, 2, 3}) :
        S \in SUBSET {A(2, 2, 0), A(2, 3, 1), A(3, 0, 1)}}
Inserting ==
    {Machine(S \cup {A(2, 2, 1), A(2, 3, 0)}, {Id(0), A(3, 3, 0)}, {0, 1}, {0, 2, 3}) :
        S \in SUBSET {A(0, 3, 1), A(3, 0, 0), Id(1)}}

Problem(l, r, i) == [lexicon |-> l, rules |-> r, invert |-> i]
Pairs(lexicons, inverts) ==
    {Problem(l, <<r, q>>, i) : l \in lexicons, r \in Rewriting, q \in Inserting, i \in inverts}
Singles(inverts) ==
    {Problem(l, <<r>>, i) : l \in Lexicons, r \in Rewriting \cup Inserting, i \in inverts}

MCProblems ==
    Pairs({l \in Lexicons : Cardinality(l.arcs[0]) = 2}, {FALSE})
    \cup Pairs({l \in Lexicons : Cardinality(l.arcs[0]) = 4}, BOOLEAN)
    \cup Singles({FALSE})

\* A single rule, composed with the lexicon instead of the lexicon with it.
MCInverted == Singles({TRUE})

\* Two rules that know the flag diacritic, of which the second has no arc for it.
MCKnownFlag ==
    {Problem(l, <<Machine({Id(0), A(5, 5, 0)}, {}, {0}, {0, 2, 3, 5}),
                  Machine({Id(0)}, {}, {0}, {0, 2, 3, 5})>>, FALSE) :
        l \in {m \in Lexicons : A(5, 5, 1) \in m.arcs[0]}}
==============================================================================
