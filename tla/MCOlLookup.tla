----------------------------- MODULE MCOlLookup -----------------------------
(***************************************************************************)
(* Instances of OlLookup.  Symbols: 0 epsilon, 1 and 2 letters, 3 identity,*)
(* 4 unknown, 5 default, 6 to 9 flags; 10 is a letter the transducers lack.*)
(***************************************************************************)
EXTENDS OlLookup, TLC

MCFlagOp ==
    [x \in 6 .. 9 |->
        CASE x = 6 -> [op |-> "P", feature |-> "X", value |-> 2]
          [] x = 7 -> [op |-> "N", feature |-> "X", value |-> 2]
          [] x = 8 -> [op |-> "U", feature |-> "X", value |-> 2]
          [] x = 9 -> [op |-> "C", feature |-> "X", value |-> 0]]

A(in, out, to, w) == [in |-> in, out |-> out, to |-> to, w |-> w]
Same(in, to, w) == A(in, in, to, w)

Asked(inputs, limits, cutoffs) == [input : inputs, limit : limits, timed : cutoffs]

\* Three states with up to two arcs each from state 0 and state 1, of every
\* kind; flag arcs lead forward only.
MCAcyclic == {gr \in
    {[n |-> 3, arcs |-> (0 :> a0 @@ 1 :> a1 @@ 2 :> << >>), final |-> (2 :> 1)] :
        a0 \in SeqOf({Same(0, 1, 1), Same(6, 1, 0), Same(7, 1, 0), A(1, 2, 0, 1),
                      A(1, 1, 1, 2), Same(3, 1, 0), A(4, 2, 1, 1), Same(5, 1, 0)}, 2),
        a1 \in SeqOf({Same(0, 2, 1), Same(8, 2, 0), A(1, 0, 0, 1), A(1, 2, 2, 1),
                      A(4, 4, 2, 1), Same(5, 2, 1)}, 2)} : IsGraph(gr)}

\* Two states, with epsilon cycles and flag arcs between them.
MCCyclic == {gr \in
    {[n |-> 2, arcs |-> (0 :> a0 @@ 1 :> a1), final |-> (0 :> 2 @@ 1 :> 0)] :
        a0 \in SeqOf({Same(0, 1, 1), Same(0, 0, 0), A(1, 1, 1, 1), Same(6, 1, 0)}, 2),
        a1 \in SeqOf({Same(0, 0, 1), A(0, 2, 1, 0), A(1, 2, 0, 1), Same(5, 1, 0)}, 1)}
    : IsGraph(gr)}

\* Everything is asked of the first, with every kind of letter; the second are
\* asked with limits and time cutoffs.
MCGraphs == MCAcyclic \cup MCCyclic
MCRequests(gr) ==
    IF gr.n = 2 THEN Asked({<<1>>, <<1, 1>>}, {-1, 0, 1, 2}, BOOLEAN)
    ELSE Asked({<< >>, <<1>>, <<10>>, <<1, 10>>}, {-1}, {FALSE})

\* Two states with any flag arcs between them; reading is possible in state 1.
MCFlagLoops == {gr \in
    {[n |-> 2, arcs |-> (0 :> a0 @@ 1 :> a1), final |-> (1 :> 0)] :
        a0 \in SeqOf({Same(6, 1, 0), Same(7, 1, 0), Same(9, 0, 0), Same(9, 1, 0)}, 3),
        a1 \in SeqOf({Same(6, 0, 0), Same(8, 0, 0), Same(9, 0, 0), Same(9, 1, 0),
                      Same(1, 1, 1)}, 2)}
    : IsGraph(gr)}
MCNothing(gr) == Asked({<< >>}, {-1}, {FALSE})
MCOneLetter(gr) == Asked({<<1>>}, {-1}, {FALSE})
==============================================================================
