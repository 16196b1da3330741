----------------------------- MODULE MCHfstProc -----------------------------
(***************************************************************************)
(* Instances of HfstProc.  Symbols: 1 a, 2 b, 3 the upper-case A, 4 hyphen,*)
(* 5 blank, 6 the two-character symbol "b-b", 7 a tag that is only written,*)
(* 8 a flag; characters without a symbol are the newline and x.            *)
(***************************************************************************)
EXTENDS HfstProc

MCSymbolText == 1 :> <<"a">> @@ 2 :> <<"b">> @@ 3 :> <<"A">> @@ 4 :> <<"-">>
                @@ 5 :> <<" ">> @@ 6 :> <<"b", "-", "b">> @@ 7 :> <<"<", "t", ">">>
MCFlagOp == 8 :> [op |-> "U", feature |-> "X", value |-> 2]
MCToLower == 3 :> 1

E(in, out, to, w) == [in |-> in, out |-> out, to |-> to, w |-> w]
Lexicon(n, arcs, final) == [n |-> n, arcs |-> arcs, final |-> final]

\* The words a, a-b and a_b (with a blank), ab with two weighted analyses, and
\* aab; a hyphen is a word, too.
MCWords == Lexicon(6,
    0 :> <<E(1, 1, 1, 0), E(1, 1, 4, 0), E(4, 4, 3, 2)>>
    @@ 1 :> <<E(0, 7, 3, 1), E(2, 2, 3, 1), E(2, 7, 3, 0), E(4, 4, 2, 0), E(5, 5, 2, 0)>>
    @@ 2 :> <<E(2, 2, 3, 0)>> @@ 3 :> << >>
    @@ 4 :> <<E(1, 1, 5, 0)>> @@ 5 :> <<E(2, 2, 3, 0)>>, 3 :> 0)

\* -ab and a, and b after a flag that can be set once: what begins with a
\* hyphen is given back.
MCPrefix == Lexicon(5,
    0 :> <<E(1, 1, 3, 0), E(4, 4, 1, 0)>> @@ 1 :> <<E(1, 1, 2, 0)>>
    @@ 2 :> <<E(2, 2, 3, 0)>> @@ 3 :> <<E(8, 8, 4, 0)>> @@ 4 :> <<E(8, 8, 2, 1)>>,
    3 :> 1)

MCGraphs == {MCWords, MCPrefix}

Ended(chunks) == {FlattenSeq(c) \o <<"newline">> : c \in chunks}
Asked(texts, sensitive, preserve) ==
    [text : texts, sensitive : sensitive, preserve : preserve]
MCRequests(gr) ==
    IF gr = MCWords
    THEN Asked(Ended(SeqOf({<<"a">>, <<"b">>, <<"-">>, <<" ">>}, 4)), {FALSE}, {TRUE})
         \cup Asked(Ended(SeqOf({<<"a">>, <<"A">>, <<"b", "-", "b">>, <<"x">>,
                                 <<"[", "]">>}, 3)), BOOLEAN, {TRUE})
         \cup Asked(Ended({<<c, <<"a">>, d>> : c, d \in {<<"nul">>, <<"backslash", "a">>,
                      <<"backslash", "^">>, <<"^">>, <<"[", "nul", "]">>, <<"[">>, <<" ">>,
                      <<"[", "backslash", "]", "]">>, <<"[", "backslash", "x", "]">>}}),
                    {FALSE}, BOOLEAN)
    ELSE Asked(Ended(SeqOf({<<"-", "a", "x", " ">>, <<"a">>, <<"a", "b">>}, 2)),
               {TRUE}, {FALSE})

\* Streams on which a word that begins with a hyphen is not finished, and streams
\* that end within a word.
MCOnlyPrefix == {MCPrefix}
MCUnfinished(gr) == Asked(Ended(SeqOf({<<"-">>, <<"a">>, <<" ">>}, 3)), {FALSE}, {TRUE})

\* A stream that ends right after a word: no newline, and no word of the lexicon.
MCOnlyWords == {MCWords}
MCUnended(gr) == Asked({<<"x">>, <<"x", "x">>}, {FALSE}, {TRUE})
==============================================================================
