---------------------------- MODULE PmatchNetworks ----------------------------
(***************************************************************************)
(* The archives that pmatch runs: optimized-lookup/pmatch.h, pmatch.cc.    *)
(*                                                                         *)
(* An archive has a network for TOP and one for every other name.  The     *)
(* input symbol of an arc may be the name of a network, which is then read *)
(* in its place (Ins()).  Contexts are part of a network, between an arc   *)
(* that writes LC_entry and one that writes LC_exit; left contexts are     *)
(* compiled reversed.  Symbols are strings, positions in the input numbers *)
(* from 0.                                                                 *)
(***************************************************************************)
EXTENDS FlagDiacritics, Sequences, SequencesExt, FiniteSets, FiniteSetsExt

CONSTANTS
    Archives,
    FlagOp,             \* the operation of each symbol that is a flag diacritic
    Letters,            \* the letters of the archives' alphabet
    max_context_length  \* 254 unless set

EPSILON == "epsilon"
Pmatch_passthrough == "passthrough"
Meta == {"identity", "unknown", "default"}

\* What opens and closes each kind of context.
Contexts == {"LC", "NLC", "RC", "NRC"}
EntryOf == [LC |-> "LC_entry", NLC |-> "NLC_entry", RC |-> "RC_entry", NRC |-> "NRC_entry"]
ExitOf == [LC |-> "LC_exit", NLC |-> "NLC_exit", RC |-> "RC_exit", NRC |-> "NRC_exit"]
Leftward == {"LC", "NLC"}
Negative == {"NLC", "NRC"}
IsEntry(x) == \E c \in Contexts : x = EntryOf[c]
ContextOf(x) == CHOOSE c \in Contexts : x = EntryOf[c]

Flags == DOMAIN FlagOp
Zero(nets) == {EPSILON} \cup Flags \cup DOMAIN nets

\* Networks have their arcs in table order: what reads nothing comes first.  The
\* compiler puts a negative context behind a guard, so that its entry is the last
\* of the arcs of its state that read nothing.
IsNetwork(nets, net) ==
    /\ \A s \in 0 .. net.n - 1 : \A i, j \in DOMAIN net.arcs[s] :
         LET a == net.arcs[s][i]
             b == net.arcs[s][j]
         IN  i < j => /\ b.in \in Zero(nets) => a.in \in Zero(nets)
                      /\ (\E c \in Negative : a.out = EntryOf[c])
                           => b.in \notin Zero(nets)
    /\ DOMAIN net.arcs = 0 .. net.n - 1 /\ DOMAIN net.final \subseteq 0 .. net.n - 1

ASSUME PmatchAssumption ==
    /\ \A nets \in Archives : "TOP" \in DOMAIN nets
         /\ \A x \in DOMAIN nets : IsNetwork(nets, nets[x])
    /\ max_context_length \in Nat /\ FlagOp \in [Flags -> Operations]

ZeroArcs(nets, net, s) == SelectSeq(nets[net].arcs[s], LAMBDA a : a.in \in Zero(nets))
ArcsFor(nets, net, s, x) == SelectSeq(nets[net].arcs[s], LAMBDA a : a.in = x)

\* The arc inputs tried for an input symbol.
Matches(x) == IF x \in Letters THEN <<x>> ELSE <<"identity", "unknown">>

\* A meta arc writes the input symbol itself.
Written(a, x) == IF a.out \in Meta THEN <<x, x>> ELSE <<a.in, a.out>>
===============================================================================
