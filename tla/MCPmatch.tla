------------------------------ MODULE MCPmatch ------------------------------
(***************************************************************************)
(* Instances of Pmatch: archives over the letters a and b; x is a letter   *)
(* that the archives do not know.                                          *)
(***************************************************************************)
EXTENDS Pmatch

MCFlagOp ==
    "@U.F.2@" :> [op |-> "U", feature |-> "F", value |-> 2]
    @@ "@U.F.3@" :> [op |-> "U", feature |-> "F", value |-> 3]
    @@ "@D.F@" :> [op |-> "D", feature |-> "F", value |-> 0]

E(in, out, to, w) == [in |-> in, out |-> out, to |-> to, w |-> w]
Net(n, arcs, final) == [n |-> n, arcs |-> arcs, final |-> final]
Silent(out, to, w) == E(EPSILON, out, to, w)
Reads(x, to, w) == E(x, x, to, w)

\* One or more letters, not after b unless the last is followed by any letter,
\* and then heavier; the first may be written otherwise, heavier, too.
MCContexts == "TOP" :> Net(9,
    0 :> <<Silent("entry", 1, 0)>>
    @@ 1 :> <<Reads("a", 2, 0), E("a", "b", 2, 1), E("b", "a", 2, 1)>>
    @@ 2 :> <<Silent("RC_entry", 6, 1), Silent("NLC_entry", 4, 0), Reads("a", 2, 0),
              Reads("b", 2, 1), Reads(Pmatch_passthrough, 3, 0)>>
    @@ 3 :> <<Silent("exit", 8, 0)>>
    @@ 4 :> <<Reads("b", 5, 0)>> @@ 5 :> <<Silent("NLC_exit", 3, 0)>>
    @@ 6 :> <<Reads("a", 7, 0), Reads("identity", 7, 0)>>
    @@ 7 :> <<Silent("RC_exit", 3, 0)>>
    @@ 8 :> << >>, 8 :> 0)

\* A left context and one that must not follow, which calls a network, sets
\* flags and is longer than may be looked at.
MCNegative ==
    "TOP" :> Net(10,
        0 :> <<Silent("entry", 1, 0)>>
        @@ 1 :> <<E("@U.F.2@", EPSILON, 2, 0), Reads("b", 2, 0)>>
        @@ 2 :> <<Reads("a", 3, 0), E("default", "default", 3, 1)>>
        @@ 3 :> <<Silent("NRC_entry", 4, 0), Reads(Pmatch_passthrough, 7, 0)>>
        @@ 4 :> <<E("@U.F.3@", EPSILON, 5, 0), E("X", "X", 5, 0), Reads("b", 6, 0)>>
        @@ 5 :> <<Silent(EPSILON, 6, 1), Reads("a", 6, 0)>>
        @@ 6 :> <<Silent("NRC_exit", 7, 0)>>
        @@ 7 :> <<Silent("exit", 9, 1), Silent("LC_entry", 8, 0)>>
        @@ 8 :> <<Silent("LC_exit", 7, 2), Reads("a", 8, 0)>>
        @@ 9 :> << >>, 9 :> 0)
    @@ "X" :> Net(3, 0 :> <<E("@U.F.3@", EPSILON, 1, 0), Reads("a", 1, 1)>>
                     @@ 1 :> <<Reads("b", 2, 0)>> @@ 2 :> << >>, 2 :> 0)

\* Networks that are called, with flags of their own, and one that calls itself.
MCCalls ==
    "TOP" :> Net(4,
        0 :> <<E("@U.F.2@", EPSILON, 1, 0), E("Y", "Y", 3, 2)>>
        @@ 1 :> <<E("X", "X", 2, 0), Reads("unknown", 3, 0)>>
        @@ 2 :> <<E("@D.F@", EPSILON, 3, 0), E("@U.F.2@", EPSILON, 3, 1),
                  E("@U.F.3@", EPSILON, 3, 0)>>
        @@ 3 :> <<Reads("b", 3, 1)>>, 3 :> 0)
    @@ "X" :> Net(3, 0 :> <<E("@D.F@", EPSILON, 1, 0), Reads("b", 2, 0)>>
                     @@ 1 :> <<E("Y", "Z", 2, 0), E("@U.F.3@", EPSILON, 2, 1)>>
                     @@ 2 :> <<Reads("a", 2, 0)>>, 2 :> 0 @@ 1 :> 1)
    @@ "Y" :> Net(3, 0 :> <<E("Y", "Y", 1, 2), Reads("a", 2, 0)>>
                     @@ 1 :> <<Reads("a", 2, 0), Reads("b", 2, 0)>>
                     @@ 2 :> << >>, 2 :> 0)

\* Matches of nothing, and a loop that reads nothing.
MCEmpty == "TOP" :> Net(3,
    0 :> <<Silent("y", 1, 1)>>
    @@ 1 :> <<Silent("z", 0, 1), Reads("a", 2, 0)>>
    @@ 2 :> <<Silent("z", 1, 0)>>, 1 :> 0)

\* Two parts with an entry and an exit each: what begins the first one ends later
\* or in the context of what precedes it.
MCTwoExits == "TOP" :> Net(9,
    0 :> <<Silent("entry", 1, 0)>>
    @@ 1 :> <<Reads("a", 2, 0)>>
    @@ 2 :> <<Silent("exit", 4, 0), Reads("a", 3, 0), Reads("b", 3, 0)>>
    @@ 3 :> <<Silent("LC_entry", 5, 0)>>
    @@ 4 :> <<Silent("entry", 6, 0)>>
    @@ 5 :> <<Reads("b", 8, 0)>> @@ 8 :> <<Silent("LC_exit", 7, 0)>>
    @@ 6 :> <<Silent("exit", 7, 1), Reads("a", 6, 1)>>
    @@ 7 :> << >>, 7 :> 0)
MCNested == {MCTwoExits}

\* A state with a silent arc and one for the default symbol: below the silent arc b is
\* read to no end.
MCDefault == {"TOP" :> Net(4,
    0 :> <<Silent("y", 1, 0), E("default", "default", 2, 0)>>
    @@ 1 :> <<Reads("a", 2, 0), Reads("b", 3, 0)>>
    @@ 2 :> << >> @@ 3 :> << >>, 2 :> 0)}

\* A network that calls itself with a flag set, and may not end while it is.
MCSelfCall == {
    "TOP" :> Net(2, 0 :> <<E("Y", "Y", 1, 0)>> @@ 1 :> << >>, 1 :> 0)
    @@ "Y" :> Net(5,
        0 :> <<Reads("a", 1, 0), Reads("b", 4, 0)>>
        @@ 1 :> <<E("@U.F.2@", EPSILON, 2, 0)>>
        @@ 2 :> <<E("Y", "Y", 3, 0)>>
        @@ 3 :> <<E("@D.F@", EPSILON, 4, 0)>>
        @@ 4 :> << >>, 4 :> 0)}

\* One a, not before b.
MCOneNegative == {"TOP" :> Net(6,
    0 :> <<Reads("a", 1, 0)>>
    @@ 1 :> <<Silent("NRC_entry", 2, 0), Reads(Pmatch_passthrough, 5, 0)>>
    @@ 2 :> <<Silent(EPSILON, 3, 0)>> @@ 3 :> <<Reads("b", 4, 0)>>
    @@ 4 :> <<Silent("NRC_exit", 5, 0)>>
    @@ 5 :> << >>, 5 :> 0)}

MCArchives == {MCContexts, MCNegative, MCCalls, MCEmpty}

Asked(inputs, firsts, weights, cutoff) ==
    [input : inputs, first : firsts, max_weight : weights, timed : cutoff]
MCRequests(archive) ==
    Asked(SeqOf({"a", "b", "x"}, 3), {{}}, {1, 3}, {FALSE})
    \cup Asked(SeqOf({"a", "b"}, 2), {{}, {"a", "b"}}, {3}, {TRUE})
    \cup Asked([1 .. 2 -> {"a", "b", "x"}], {{"a"}}, {3}, {FALSE})
MCBeforeB(archive) == Asked({<<"a", "b">>}, {{}}, {3}, {FALSE})
=============================================================================
