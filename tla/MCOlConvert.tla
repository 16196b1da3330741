----------------------------- MODULE MCOlConvert -----------------------------
(***************************************************************************)
(* Instances of OlConvert and OlRoundTrip.  Letters: 0 epsilon, 1 to 8     *)
(* without 5 ordinary letters, 5 a flag diacritic.                         *)
(***************************************************************************)
EXTENDS OlRoundTrip, TLC

\* The graph of n states whose state s has the inputs shape[s], in that order:
\* later arcs of a state write the letter other, targets spread over the states.
MCGraph(shape, n, other) ==
    [n |-> n, final |-> {1},
     arcs |-> [s \in 0 .. n - 1 |->
                 [i \in DOMAIN shape[s] |->
                    LET x == shape[s][i]
                    IN  [in |-> x, out |-> IF i = 1 THEN x ELSE other,
                         to |-> (s + x) % n]]]]

\* All graphs of three states with at most two arcs each; 3 is never an input.
MCSmall == {MCGraph(shape, 3, 3) : shape \in [0 .. 2 -> SeqOf({0, 1, 2, 5}, 2)]}

\* Two states that share the letters of an alphabet: five to nine symbols, up to
\* and beyond the greatest symbol number.
MCLetters(S) == SelectSeq([x \in 1 .. 8 |-> x], LAMBDA x : x \in S)
MCLimits == {MCGraph(0 :> MCLetters(S) @@ 1 :> MCLetters(T), 2, 1) :
               S \in {U \in SUBSET (1 .. 4) : Cardinality(U) > 1},
               T \in {U \in SUBSET (5 .. 8) : Cardinality(U) > 1}}

\* Eight states of two shapes that leave a hole neither can fill, so that the
\* search stalls there and jumps.
MCPacking == {MCGraph(shape, 8, 3) : shape \in
                [0 .. 7 -> {<<1, 7, 4>>, <<2, 5, 3>>}]}

MCTransducers == MCSmall \cup MCLimits \cup MCPacking

\* A table that covers the letters, as one built from a union of alphabets.
MCHarmonizers ==
    {[numbers |-> [a \in {0, 1, 2, 3, 5} |-> IF a = 5 THEN 4 ELSE a], inputs |-> 4]}
==============================================================================
