------------------------------ MODULE HfstWords ------------------------------
(***************************************************************************)
(* What hfst-proc promises of a stream of tokens, with no buffer and no    *)
(* going back: each step takes the longest word of the transducer off the  *)
(* front, or an unknown word, or one token that is in no word.  A word is  *)
(* not cut between two letters.  The analyses of a word are those of the   *)
(* transducer, found by following its arcs one path at a time, each with   *)
(* the least of its weights.                                               *)
(***************************************************************************)
EXTENDS LookupState

CONSTANT Alphabetic(_)   \* whether a token is alphabetic

VARIABLES graph, config, rest, printed

vars == <<graph, config, rest, printed>>

-----------------------------------------------------------------------------
\* Paths from the start state, as sequences of arcs, and what they read.
Continued(run) ==
    LET s == IF run = << >> THEN 0 ELSE Last(run).to
    IN  {Append(run, a) : a \in Range(graph.arcs[s])}
Read(run) == SelectSeq(run, LAMBDA a : a.in \notin Zero)

Reads(run, tokens) ==
    LET arcs == Read(run)
    IN  Len(arcs) <= Len(tokens) /\ \A i \in DOMAIN arcs :
          tokens[i].symbol # NO_SYMBOL
          /\ arcs[i].in \in Inputs(tokens[i].symbol, config.sensitive)

FlagsHold(run) ==
    LET values[i \in 0 .. Len(run)] ==
          IF i = 0 THEN Neutral
          ELSE IF run[i].in \in Flags THEN Applied(FlagOp[run[i].in], values[i - 1])
          ELSE values[i - 1]
    IN  \A i \in DOMAIN run :
          run[i].in \in Flags => Allows(FlagOp[run[i].in], values[i - 1])

\* The paths that read the first of the tokens, as many as they can.  Every
\* token is read by one arc, with less than graph.n arcs that read none before.
Runs(tokens) ==
    LET longer[k \in 0 .. (Len(tokens) + 1) * graph.n] ==
          IF k = 0 THEN {<< >>}
          ELSE LET shorter == longer[k - 1]
               IN  {r \in UNION {Continued(q) : q \in shorter} :
                      Reads(r, tokens) /\ FlagsHold(r)}
    IN  UNION {longer[k] : k \in 0 .. (Len(tokens) + 1) * graph.n}

\* Those that read n tokens and end in a final state, as analyses.
Written(run) ==
    LET out == SelectSeq(run, LAMBDA a : a.out \notin Silent)
    IN  [i \in DOMAIN out |-> out[i].out]
Weight(run) ==
    FoldSeq(LAMBDA a, w : a.w + w, 0, run)
    + graph.final[IF run = << >> THEN 0 ELSE Last(run).to]
Analyses(runs, n) ==
    LET words == {r \in runs : Len(Read(r)) = n
                    /\ (IF r = << >> THEN 0 ELSE Last(r).to) \in DOMAIN graph.final}
        all == {[out |-> Written(r), weight |-> Weight(r)] : r \in words}
    IN  {f \in all : \A g \in all : g.out = f.out => f.weight <= g.weight}

-----------------------------------------------------------------------------
Put(kind, tokens, n, analyses) ==
    /\ rest' = SubSeq(tokens, n + 1, Len(tokens))
    /\ printed' = Append(printed, [kind |-> kind, tokens |-> SubSeq(tokens, 1, n),
                                   analyses |-> analyses])
    /\ UNCHANGED <<graph, config>>

\* How far some path gets, where a word may end on the way, and whether the last
\* of these is taken.
Reach(runs) == Max({Len(Read(r)) : r \in runs})
Ends(runs, tokens) ==
    {n \in 1 .. Reach(runs) : Analyses(runs, n) # {}
                              /\ ~(Alphabetic(tokens[n]) /\ Alphabetic(tokens[n + 1]))}
IsWord(runs, tokens) ==
    /\ Ends(runs, tokens) # {}
    /\ ~(Alphabetic(tokens[Max(Ends(runs, tokens)) + 1]) /\ Alphabetic(tokens[Reach(runs)]))

\* The letters from position n on.
Letters(n, tokens) ==
    Max({k \in n .. Len(tokens) : \A i \in n + 1 .. k : Alphabetic(tokens[i])})

TakeWord(runs, tokens) ==
    LET n == Max(Ends(runs, tokens))
    IN  Put("word", tokens, n, Kept(Analyses(runs, n)))

TakeUnknown(runs, tokens) == Put("unknown", tokens, Letters(Reach(runs), tokens), {})

PassOn(tokens) ==
    IF config.preserve THEN Put("copy", tokens, 1, {})
    ELSE rest' = Tail(tokens) /\ UNCHANGED <<graph, config, printed>>

Next ==
    \E tokens \in {rest} :
      /\ tokens # << >> /\ rest' # tokens
      /\ \E runs \in {Runs(tokens)} :
           \/ IsWord(runs, tokens) /\ TakeWord(runs, tokens)
           \/ /\ ~IsWord(runs, tokens) /\ Alphabetic(tokens[1])
              /\ TakeUnknown(runs, tokens)
           \/ /\ ~IsWord(runs, tokens) /\ ~Alphabetic(tokens[1])
              /\ PassOn(tokens)

Spec == printed = << >> /\ [][Next]_vars
==============================================================================
