---------------------------- MODULE MCOlFindLoop ----------------------------
(***************************************************************************)
(* Instances of OlFindLoop.  Symbols: 0 epsilon, 1 a letter, 3 identity,   *)
(* 5 default, 6 to 9 flags; 10 is a letter the transducers lack.           *)
(***************************************************************************)
EXTENDS OlFindLoop, TLC

MCFlagOp ==
    [x \in 6 .. 9 |->
        CASE x = 6 -> [op |-> "P", feature |-> "X", value |-> 2]
          [] x = 7 -> [op |-> "P", feature |-> "X", value |-> 3]
          [] x = 8 -> [op |-> "R", feature |-> "X", value |-> 2]
          [] x = 9 -> [op |-> "C", feature |-> "X", value |-> 0]]

A(in, to) == [in |-> in, out |-> in, to |-> to, w |-> 0]
Pair(arcs0, arcs1) ==
    {gr \in {[n |-> 2, arcs |-> (0 :> a0 @@ 1 :> a1), final |-> (1 :> 0)] :
               a0 \in SeqOf(arcs0, 3), a1 \in SeqOf(arcs1, 2)} : IsGraph(gr)}

\* Epsilon loops on either side of a reading arc, entered after reading only.
MCReadFirst == Pair({A(0, 1), A(1, 1), A(1, 0), A(5, 1)}, {A(0, 0), A(0, 1)})

\* Two states with epsilon and reading arcs anywhere.
MCEpsilons == Pair({A(0, 1), A(0, 0), A(1, 1), A(1, 0), A(3, 1)}, {A(0, 0), A(0, 1), A(1, 1)})

\* Two states with flag arcs, and a dead end.
MCFlags == {gr \in
    {[n |-> 3, arcs |-> (0 :> a0 @@ 1 :> a1 @@ 2 :> << >>), final |-> (1 :> 0)] :
        a0 \in SeqOf({A(6, 1), A(7, 1), A(8, 1), A(9, 2)}, 2),
        a1 \in SeqOf({A(6, 0), A(8, 2), A(8, 0), A(9, 0), A(1, 1)}, 2)}
    : IsGraph(gr)}

\* Without flags, loops are met after reading; with flags, before.
MCReadAndFlags == MCReadFirst \cup MCFlags
MCInputs(gr) == IF HasFlags(gr) THEN {<< >>} ELSE {<< >>, <<1>>, <<1, 1>>}
MCOneLetter(gr) == {<<1>>}
MCUnknownLetter(gr) == {<<10>>}
==============================================================================
