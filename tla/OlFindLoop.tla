----------------------------- MODULE OlFindLoop -----------------------------
(***************************************************************************)
(* Transducer::is_lookup_infinitely_ambiguous and find_loop:               *)
(*   optimized-lookup/transducer.cc, find_epsilon_loops.cc.                *)
(*                                                                         *)
(* The search walks the transducer as a lookup of the input would, keeps   *)
(* in traversal_states the epsilon and flag arcs it is inside, and throws  *)
(* when it is about to enter one of them again.  It shares the flag state, *)
(* traversal_states and found_transition with get_analyses, but not its    *)
(* limit on the recursion depth.                                           *)
(***************************************************************************)
EXTENDS OlGraph

CONSTANTS
    Inputs(_), \* input strings asked of a graph, as sequences of symbol numbers
    MaxCalls,  \* bound: questions asked of one object
    MaxStack   \* bound: depth to which the recursion is followed

ASSUME FindLoopAssumption ==
    /\ \A gr \in Graphs : Inputs(gr) \subseteq Seq(Nat \ Zero)
    /\ MaxCalls \in Nat /\ MaxStack \in Nat
    /\ IsFiniteSet(Features)

VARIABLES
    g,        \* the transducer
    input,    \* input_tape
    stack,    \* the active calls of find_loop, innermost last
    values,   \* flag_state
    visited,  \* traversal_states
    found,    \* found_transition
    answer,   \* what the last call returned: "none" before the first
    calls

vars == <<g, input, stack, values, visited, found, answer, calls>>

-----------------------------------------------------------------------------
Frame(s, pos) ==
    [s |-> s, pos |-> pos, step |-> "enter", i |-> 1, trying |-> 0,
     values |-> Neutral]

top == Last(stack)
Idle == stack = << >>
AtEnd(f) == f.pos = Len(input)
Arcs(f) == IF f.step = "zero" THEN ZeroArcs(g, f.s) ELSE ArcsFor(g, f.s, f.trying)
Arc(f) == Arcs(f)[f.i]

\* Mutant: the arc is taken again.
NotAdvanced(f) == f

\* Mutant: the arc after it is passed over, too.
AdvancedTwice(f) == [f EXCEPT !.i = @ + 2]

\* The frame f, at its next arc.
Advanced(f) == [f EXCEPT !.i = @ + 1]

\* find_loop is called for the target of the innermost call's arc.
Call ==
    /\ Len(stack) < MaxStack
    /\ stack' = Append(stack, Frame(Arc(top).to, top.pos))

\* Mutant: all that is recorded is erased.
LeftCleared(f) == IF f.step = "zero" THEN {} ELSE visited

\* traversal_states when find_loop has returned from the arc of f.
Left(f) ==
    IF f.step = "zero" THEN visited \ {<<Arc(f).to, f.values>>} ELSE visited

\* The innermost call returns; the caller erases what it recorded, restores the
\* flag values if its arc is a flag, and goes on to its next arc.
Return ==
    IF Len(stack) = 1
    THEN stack' = << >> /\ answer' = "no" /\ UNCHANGED <<values, visited, found>>
    ELSE LET f == stack[Len(stack) - 1]
             flag == f.step = "zero" /\ Arc(f).in \in Flags
         IN  /\ stack' = [Front(stack) EXCEPT ![Len(stack) - 1] = Advanced(f)]
             /\ visited' = Left(f)
             /\ values' = IF flag THEN f.values ELSE values
             /\ found' = (found \/ ~flag)
             /\ UNCHANGED answer

-----------------------------------------------------------------------------
Init ==
    /\ g \in Graphs
    /\ input = << >> /\ stack = << >> /\ values = Neutral /\ visited = {}
    /\ found = FALSE /\ answer = "none" /\ calls = 0

Ask ==
    /\ Idle /\ calls < MaxCalls /\ calls' = calls + 1
    /\ input' \in Inputs(g) /\ visited' = {} /\ stack' = <<Frame(0, 0)>>
    /\ answer' = "none"
    /\ UNCHANGED <<g, values, found>>

Enter ==
    /\ ~Idle /\ top.step = "enter"
    /\ found' = FALSE
    /\ stack' = [stack EXCEPT ![Len(stack)] =
                   [top EXCEPT !.step = "zero", !.values = values]]
    /\ UNCHANGED <<g, input, values, visited, answer, calls>>

\* An epsilon arc, or a flag arc whose operation succeeds.
Passable == Arc(top).in \in Flags => Allows(FlagOp[Arc(top).in], values)
AtZeroArc == ~Idle /\ top.step = "zero" /\ top.i <= Len(Arcs(top))

\* What the code records of such an arc: the values before its operation.
Recorded == <<Arc(top).to, top.values>>

TakeZero ==
    /\ AtZeroArc /\ Passable /\ Recorded \notin visited
    /\ visited' = visited \cup {Recorded}
    /\ values' = IF Arc(top).in \in Flags
                 THEN Applied(FlagOp[Arc(top).in], values) ELSE values
    /\ Call
    /\ UNCHANGED <<g, input, found, answer, calls>>

\* Mutant: the flag values are left as the search had them.
ResetKept == values

\* The flag state after a loop was found: that of a new table.
Reset == Neutral

\* throw true, caught in is_lookup_infinitely_ambiguous.
Trap ==
    /\ AtZeroArc /\ Passable /\ Recorded \in visited
    /\ stack' = << >> /\ answer' = "yes" /\ values' = Reset
    /\ UNCHANGED <<g, input, visited, found, calls>>

SkipFlag ==
    /\ AtZeroArc /\ ~Passable
    /\ stack' = [stack EXCEPT ![Len(stack)] = Advanced(top)]
    /\ UNCHANGED <<g, input, values, visited, found, answer, calls>>

\* After the epsilons, the next symbol is read, under its own number even if
\* the alphabet lacks it.
ReadInput ==
    /\ ~Idle /\ top.step = "zero" /\ top.i > Len(Arcs(top))
    /\ IF AtEnd(top) THEN Return
       ELSE /\ found' = (found \/ (Indexed(g, top.s) /\ Arcs(top) # << >>))
            /\ stack' = [stack EXCEPT ![Len(stack)] =
                 [top EXCEPT !.step = "symbol", !.pos = top.pos + 1, !.i = 1,
                             !.trying = input[top.pos + 1]]]
            /\ UNCHANGED <<values, visited, answer>>
    /\ UNCHANGED <<g, input, calls>>

\* Mutant: the set is not cleared when input is read.
ClearedNot == visited

\* traversal_states when an arc reads input.
Cleared == {}

TakeSymbol ==
    /\ ~Idle /\ top.step \in {"symbol", "default"} /\ top.i <= Len(Arcs(top))
    /\ visited' = Cleared
    /\ Call
    /\ UNCHANGED <<g, input, values, found, answer, calls>>

TryDefault ==
    /\ ~Idle /\ top.step = "symbol" /\ top.i > Len(Arcs(top))
    /\ DEFAULT # NO_SYMBOL /\ ~found
    /\ stack' = [stack EXCEPT ![Len(stack)] =
                   [top EXCEPT !.step = "default", !.trying = DEFAULT, !.i = 1]]
    /\ UNCHANGED <<g, input, values, visited, found, answer, calls>>

Leave ==
    /\ ~Idle /\ top.step \in {"symbol", "default"} /\ top.i > Len(Arcs(top))
    /\ top.step = "default" \/ DEFAULT = NO_SYMBOL \/ found
    /\ Return
    /\ UNCHANGED <<g, input, calls>>

Step ==
    \/ Enter \/ TakeZero \/ Trap \/ SkipFlag \/ ReadInput
    \/ TakeSymbol \/ TryDefault \/ Leave
Next == Ask \/ Step

Spec == Init /\ [][Next]_vars
FairSpec == Spec /\ WF_vars(Step)

-----------------------------------------------------------------------------
(* Properties *)

\* A configuration of the lookup of inp in gr: a state, what has been read, the
\* flag values.
Start == [s |-> 0, pos |-> 0, values |-> Neutral]
FlagValues == {0} \cup UNION {{FlagOp[x].value, -FlagOp[x].value} : x \in Flags}
Configurations(gr, inp) ==
    [s : 0 .. gr.n - 1, pos : 0 .. Len(inp), values : [Features -> FlagValues]]

\* The configurations one arc leads to from c: without reading (Quietly), and
\* reading the next symbol as a lookup does.
Quietly(gr, c) ==
    {[s |-> a.to, pos |-> c.pos,
      values |-> IF a.in \in Flags THEN Applied(FlagOp[a.in], c.values) ELSE c.values] :
        a \in {b \in Range(gr.arcs[c.s]) :
                 b.in = 0 \/ (b.in \in Flags /\ Allows(FlagOp[b.in], c.values))}}

StartsOn(a, x) ==
    IF x < ORIG_SYMBOL_COUNT THEN a.in = x ELSE a.in \in {IDENTITY, UNKNOWN}

Taken(gr, s, x) ==
    LET own == {a \in Range(gr.arcs[s]) : StartsOn(a, x)}
        zero == {a \in Range(gr.arcs[s]) : a.in \in Zero}
    IN  IF own \cup zero # {} THEN own
        ELSE {a \in Range(gr.arcs[s]) : a.in = DEFAULT}

Reading(gr, inp, c) ==
    IF c.pos = Len(inp) THEN {}
    ELSE {[s |-> a.to, pos |-> c.pos + 1, values |-> c.values] :
            a \in Taken(gr, c.s, inp[c.pos + 1])}

\* By all arcs, or by the quiet ones only.
Onward(gr, inp, arcs, c) ==
    IF arcs = "quiet" THEN Quietly(gr, c) ELSE Quietly(gr, c) \cup Reading(gr, inp, c)

\* The configurations reached from those in C by at most n of these arcs.
Reached(gr, inp, arcs, C, n) ==
    LET r[m \in Nat] ==
            IF m = 0 THEN C
            ELSE LET before == r[m - 1]
                 IN  before \cup UNION {Onward(gr, inp, arcs, c) : c \in before}
    IN  r[n]

\* Lookup of inp may go round a loop that reads nothing.  As many arcs as there
\* are configurations reach all that can be reached.
LoopExists(gr, inp) ==
    LET n == Cardinality(Configurations(gr, inp))
    IN  \E c \in Reached(gr, inp, "all", {Start}, n) :
          c \in Reached(gr, inp, "quiet", Quietly(gr, c), n)

HasFlags(gr) == \E s \in DOMAIN gr.arcs : \E a \in Range(gr.arcs[s]) : a.in \in Flags

\* "No" is right: the search has then been through every path of the lookup.
\* "Yes" is right, too: no loop is reported that a lookup could not go round.
\* (With flags the latter fails: the values recorded are those from before the
\* operation.)
AnswerIsRight ==
    /\ answer = "no" => ~LoopExists(g, input)
    /\ answer = "yes" /\ ~HasFlags(g) => LoopExists(g, input)

\* A question leaves the flag state as it found it, whichever way it ended, so
\* that later questions and lookups of the object start from neutral values.
FlagsRestored == Idle => values = Neutral

\* "We try to trap non-progressing loops": no arc that reads nothing is entered
\* with the same flag values twice without input being read in between.
LoopsTrapped ==
    \A j, l \in 1 .. Len(stack) - 1 :
        (j < l /\ stack[j].pos = stack[l].pos
           /\ stack[j].step = "zero" /\ stack[l].step = "zero")
        => <<stack[j].s, stack[j].i, stack[j].values>>
             # <<stack[l].s, stack[l].i, stack[l].values>>

\* Every question is answered.
Answered == ~Idle ~> Idle
==============================================================================
