----------------------------- MODULE MCOlSpeller -----------------------------
(***************************************************************************)
(* Instances of OlSpeller.  Lexicon symbols: 0 epsilon, 1 and 2 the letters*)
(* "b" and "a", 3 and 4 flags.  Mutator symbols: 0 epsilon, 1 "a", 2 "b",  *)
(* 3 the unknown symbol.  The letter "z" is in neither alphabet, and "bad" *)
(* is a byte that begins no character.                                     *)
(***************************************************************************)
EXTENDS OlSpeller, TLC

MCFlagOp == 3 :> [op |-> "P", feature |-> "X", value |-> 2]
            @@ 4 :> [op |-> "D", feature |-> "X", value |-> 2]
MCTranslator == 0 :> 0 @@ 1 :> 2 @@ 2 :> 1 @@ 3 :> NO_SYMBOL
MCLexiconKey == "a" :> 2 @@ "b" :> 1
MCMutatorKey == "a" :> 1 @@ "b" :> 2
MCWords == {<<"z">>, <<"a", "b">>, <<"a", "bad">>}
MCFewWords == {<<"a">>, <<"a", "b">>}

A(in, out, to, w) == [in |-> in, out |-> out, to |-> to, w |-> w]
Chosen(all, S) == SelectSeq(all, LAMBDA a : a \in S)
UpTo(S, k) == {T \in SUBSET S : Cardinality(T) <= k}

\* State 0 copies letters and makes up to two kinds of errors on the way to
\* state 1, which copies letters.
Copies(s) == <<A(1, 1, s, 0), A(2, 2, s, 0)>>
Errors == <<A(0, 0, 1, 1), A(0, 2, 1, 1), A(1, 0, 1, 1), A(1, 1, 0, 0), A(1, 2, 1, 2),
            A(2, 2, 0, 0), A(3, 1, 1, 1)>>
MCMutators ==
    {[n |-> 2, final |-> 0 :> 0 @@ 1 :> 1,
      arcs |-> 0 :> Chosen(Errors, E \cup Range(Copies(0))) @@ 1 :> Copies(1)] :
        E \in UpTo(Range(Errors) \ Range(Copies(0)), 2)}

\* Three states, forward but for reading.
Arcs0 == <<A(0, 0, 1, 1), A(3, 3, 1, 0), A(1, 1, 1, 1), A(2, 2, 1, 0), A(2, 1, 2, 0)>>
Arcs1 == <<A(0, 1, 2, 1), A(4, 4, 2, 0), A(1, 1, 0, 0), A(2, 2, 2, 1)>>
MCLexicons ==
    {[n |-> 3, final |-> 1 :> 1 @@ 2 :> 0,
      arcs |-> 0 :> Chosen(Arcs0, S) @@ 1 :> Chosen(Arcs1, T) @@ 2 :> << >>] :
        S \in UpTo(Range(Arcs0), 2), T \in UpTo(Range(Arcs1), 2)}

\* The properties are checked where they are meant to hold.
ASSUME BoundedHolds == Bounded
==============================================================================
