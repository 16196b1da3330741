------------------------------ MODULE OlLookup ------------------------------
(***************************************************************************)
(* Lookup in an optimized-lookup transducer: Transducer::lookup_fd,        *)
(* get_analyses and what it calls (optimized-lookup/transducer.cc).        *)
(*                                                                         *)
(* get_analyses is a recursive depth-first search that works on members of *)
(* the Transducer object: the flag state, the weight so far, the output    *)
(* tape, found_transition, traversal_states and the recursion depth left.  *)
(* Every call must undo what it did to them, and no lookup resets them     *)
(* (but for traversal_states), so one slip shows in a later call.          *)
(*                                                                         *)
(* The recursion is an explicit stack.  A frame is one get_analyses with   *)
(* the loop of try_epsilon_transitions or find_transitions it is in.       *)
(***************************************************************************)
EXTENDS OlGraph

CONSTANTS
    Requests(_),          \* what may be asked of a graph: an input string, as a
                          \* sequence of symbol numbers, the number of results
                          \* wanted (-1: all) and whether there is a time cutoff
    MAX_RECURSION_DEPTH,  \* 5000 in the code
    MaxCalls              \* bound: lookups made of one object

ASSUME LookupAssumption ==
    /\ \A gr \in Graphs : Requests(gr) \subseteq
         [input : Seq(Nat \ Zero), limit : Int, timed : BOOLEAN]
    /\ MAX_RECURSION_DEPTH \in Nat \ {0} /\ MaxCalls \in Nat

VARIABLES
    g,        \* the transducer
    input,    \* input_tape
    limit,    \* max_lookups
    timed,    \* max_time > 0
    late,     \* the clock has passed max_time
    stack,    \* the active calls of get_analyses, innermost last
    tape,     \* output_tape
    weight,   \* current_weight
    values,   \* flag_state
    visited,  \* traversal_states
    found,    \* found_transition
    depth,    \* recursion_depth_left
    results,  \* lookup_paths
    calls     \* lookups made

object == <<tape, weight, values, visited, found, depth>>
request == <<g, input, limit, timed, calls>>
vars == <<request, late, stack, object, results>>

-----------------------------------------------------------------------------
Frame(s, pos, out) ==
    [s |-> s, pos |-> pos, out |-> out, step |-> "enter", i |-> 1,
     trying |-> << >>, weight |-> 0, values |-> Neutral]

top == Last(stack)
Idle == stack = << >>

\* DoubleTape::write
Write(pos, pair) ==
    [q \in 1 .. Max({Len(tape), pos + 1}) |->
        IF q = pos + 1 THEN pair ELSE tape[q]]
Terminator == <<NO_SYMBOL, NO_SYMBOL>>

\* The arcs the innermost call is iterating over.
Arcs(f) == IF f.step = "zero" THEN ZeroArcs(g, f.s)
           ELSE ArcsFor(g, f.s, Head(f.trying))
Arc(f) == Arcs(f)[f.i]
AtEnd(f) == f.pos = Len(input)

\* Mutant: the flags after the operation are not undone.
ResumeFlagsKept(f) ==
    /\ weight' = f.weight /\ found' = TRUE /\ UNCHANGED values
    /\ visited' = IF f.step = "zero" /\ Arc(f).in \in Flags
                  THEN visited \ {<<Arc(f).to, f.values>>} ELSE visited

\* Mutant: the state stays marked as visited.
ResumeStillVisited(f) ==
    /\ weight' = f.weight /\ found' = TRUE
    /\ values' = IF f.step = "zero" /\ Arc(f).in \in Flags THEN f.values ELSE values
    /\ UNCHANGED visited

\* Mutant: the weight of the arc stays added.
ResumeWeightKept(f) ==
    /\ UNCHANGED weight /\ found' = TRUE
    /\ IF f.step = "zero" /\ Arc(f).in \in Flags
       THEN visited' = visited \ {<<Arc(f).to, f.values>>} /\ values' = f.values
       ELSE UNCHANGED <<visited, values>>

\* What a caller does once get_analyses has returned from the arc it took.
Resume(f) ==
    /\ weight' = f.weight /\ found' = TRUE
    /\ IF f.step = "zero" /\ Arc(f).in \in Flags
       THEN visited' = visited \ {<<Arc(f).to, f.values>>} /\ values' = f.values
       ELSE UNCHANGED <<visited, values>>

\* Mutant: the arc is taken again.
NotAdvanced(f) == f

\* The frame f, at its next arc.
Advanced(f) == [f EXCEPT !.i = @ + 1]

\* The innermost call returns; its caller resumes after the arc.
Return ==
    /\ stack' = IF Len(stack) = 1 THEN << >>
                ELSE [Front(stack) EXCEPT ![Len(stack) - 1] = Advanced(@)]
    /\ IF Len(stack) = 1 THEN UNCHANGED <<weight, values, visited, found>>
       ELSE Resume(stack[Len(stack) - 1])

\* get_analyses is called for the target of the innermost call's arc, which
\* writes the pair to the tape and adds the weight.
Call(pair) ==
    LET a == Arc(top)
        caller == [top EXCEPT !.weight = weight, !.values = values]
    IN  /\ tape' = Write(top.out, pair)
        /\ weight' = weight + a.w
        /\ stack' = Front(stack) \o <<caller, Frame(a.to, top.pos, top.out + 1)>>

-----------------------------------------------------------------------------
Init ==
    /\ g \in Graphs
    /\ input = << >> /\ limit = -1 /\ timed = FALSE /\ late = FALSE
    /\ stack = << >> /\ tape = << >> /\ weight = 0 /\ values = Neutral
    /\ visited = {} /\ found = FALSE /\ depth = MAX_RECURSION_DEPTH
    /\ results = {} /\ calls = 0

\* lookup_fd / lookup_fd_pairs: a new result set, traversal_states cleared,
\* nothing else of the object touched.
Lookup ==
    /\ Idle /\ calls < MaxCalls /\ calls' = calls + 1
    /\ \E r \in Requests(g) :
         input' = r.input /\ limit' = r.limit /\ timed' = r.timed
    /\ late' = FALSE /\ results' = {} /\ visited' = {}
    /\ stack' = <<Frame(0, 0, 0)>>
    /\ UNCHANGED <<g, tape, weight, values, found, depth>>

\* Mutant: the comparison with the limit is off by one.
EnoughOffByOne == limit >= 0 /\ Cardinality(results) > limit

Enough == limit >= 0 /\ Cardinality(results) >= limit

\* The clock is read in every call while there is a time cutoff.
ReadClock == late' = (late \/ timed) \/ late' = late

\* get_analyses returns at once: no depth left, results enough, or out of time.
Refuse ==
    /\ ~Idle /\ top.step = "enter"
    /\ IF depth = 0 \/ Enough THEN UNCHANGED late ELSE ReadClock /\ late'
    /\ IF Len(stack) = 1
       THEN stack' = << >> /\ found' = FALSE /\ UNCHANGED <<weight, values, visited>>
       ELSE Return
    /\ UNCHANGED <<request, tape, depth, results>>

\* note_analysis: the tape up to its terminator, with the weight.
Analysis(tp, w) ==
    [weight |-> w,
     path |-> SubSeq(tp, 1, SelectInSeq(tp, LAMBDA pair : pair = Terminator) - 1)]

\* Mutant: a level of the recursion is not counted.
DeeperUncounted == depth

Deeper == depth - 1

\* Otherwise, with no input left, a final state gives an analysis.
Enter ==
    /\ ~Idle /\ top.step = "enter" /\ depth # 0 /\ ~Enough
    /\ ReadClock /\ ~late'
    /\ found' = FALSE /\ depth' = Deeper
    /\ tape' = IF AtEnd(top) THEN Write(top.out, Terminator) ELSE tape
    /\ results' = IF AtEnd(top) /\ top.s \in DOMAIN g.final
                  THEN results \cup {Analysis(tape', weight + g.final[top.s])}
                  ELSE results
    /\ stack' = [stack EXCEPT ![Len(stack)].step = "zero"]
    /\ UNCHANGED <<request, weight, values, visited>>

\* try_epsilon_transitions: an epsilon arc is followed whatever was visited.
TakeEpsilon ==
    /\ ~Idle /\ top.step = "zero" /\ top.i <= Len(Arcs(top)) /\ Arc(top).in = 0
    /\ Call(<<0, Arc(top).out>>)
    /\ UNCHANGED <<request, late, values, visited, found, depth, results>>

\* The configuration a flag arc is recorded under: its target and the values
\* from before its operation.
Recorded == <<Arc(top).to, values>>

\* A flag arc is followed if its operation succeeds and its target is not
\* recorded with these values.
TakeFlag ==
    /\ ~Idle /\ top.step = "zero" /\ top.i <= Len(Arcs(top)) /\ Arc(top).in \in Flags
    /\ Allows(FlagOp[Arc(top).in], values) /\ Recorded \notin visited
    /\ visited' = visited \cup {Recorded}
    /\ values' = Applied(FlagOp[Arc(top).in], values)
    /\ Call(<<Arc(top).in, Arc(top).out>>)
    /\ UNCHANGED <<request, late, found, depth, results>>

\* Otherwise the values are restored and the arc is passed over.
SkipFlag ==
    /\ ~Idle /\ top.step = "zero" /\ top.i <= Len(Arcs(top)) /\ Arc(top).in \in Flags
    /\ ~Allows(FlagOp[Arc(top).in], values) \/ Recorded \in visited
    /\ stack' = [stack EXCEPT ![Len(stack)] = Advanced(@)]
    /\ UNCHANGED <<request, late, object, results>>

\* After the epsilons: with no input left the call returns; otherwise it reads
\* a symbol.  An index entry for epsilon counts as a transition found.
ReadInput ==
    /\ ~Idle /\ top.step = "zero" /\ top.i > Len(Arcs(top))
    /\ IF AtEnd(top)
       THEN depth' = depth + 1 /\ Return
       ELSE /\ found' = (found \/ (Indexed(g, top.s) /\ Arcs(top) # << >>))
            /\ stack' = [stack EXCEPT ![Len(stack)] =
                 [top EXCEPT !.step = "symbol", !.pos = @ + 1, !.i = 1,
                             !.trying = Matches(input[top.pos + 1])]]
            /\ UNCHANGED <<weight, values, visited, depth>>
    /\ UNCHANGED <<request, late, tape, results>>

\* find_transitions: every arc of the symbol tried, traversal_states cleared.
\* An arc that writes a special symbol writes the symbol read instead.
TakeSymbol ==
    /\ ~Idle /\ top.step \in {"symbol", "default"} /\ top.trying # << >>
    /\ top.i <= Len(Arcs(top))
    /\ LET out == Arc(top).out
       IN  Call(<<Arc(top).in, IF out \in Meta THEN input[top.pos] ELSE out>>)
    /\ visited' = {}
    /\ UNCHANGED <<request, late, values, found, depth, results>>

Exhausted(f) == f.trying # << >> => f.i > Len(Arcs(f))

\* The next symbol to try: unknown after identity, and default when nothing
\* was found.
TryNext ==
    /\ ~Idle /\ top.step \in {"symbol", "default"} /\ Exhausted(top)
    /\ \/ /\ Len(top.trying) > 1
          /\ stack' = [stack EXCEPT ![Len(stack)] =
                         [top EXCEPT !.trying = Tail(@), !.i = 1]]
       \/ /\ Len(top.trying) <= 1 /\ top.step = "symbol"
          /\ DEFAULT # NO_SYMBOL /\ ~found
          /\ stack' = [stack EXCEPT ![Len(stack)] =
                         [top EXCEPT !.step = "default", !.trying = <<DEFAULT>>, !.i = 1]]
    /\ UNCHANGED <<request, late, object, results>>

\* get_analyses ends: the tape is cut at the call's position.
Leave ==
    /\ ~Idle /\ top.step \in {"symbol", "default"} /\ Exhausted(top)
    /\ Len(top.trying) <= 1
    /\ top.step = "default" \/ DEFAULT = NO_SYMBOL \/ found
    /\ tape' = Write(top.out, Terminator)
    /\ depth' = depth + 1
    /\ Return
    /\ UNCHANGED <<request, late, results>>

Step ==
    \/ Refuse \/ Enter \/ TakeEpsilon \/ TakeFlag \/ SkipFlag
    \/ ReadInput \/ TakeSymbol \/ TryNext \/ Leave
Next == Lookup \/ Step

\* A lookup that was started runs; nobody has to start one.
Spec == Init /\ [][Next]_vars
FairSpec == Spec /\ WF_vars(Step)

-----------------------------------------------------------------------------
(* Properties *)

TypeOK ==
    /\ IsGraph(g) /\ limit \in Int /\ {timed, late, found} \subseteq BOOLEAN
    /\ \A f \in Range(stack) :
         /\ f.s \in 0 .. g.n - 1 /\ f.pos \in 0 .. Len(input)
         /\ f.step \in {"enter", "zero", "symbol", "default"}
         /\ f.i \in 1 .. Len(g.arcs[f.s]) + 1
    /\ depth \in 0 .. MAX_RECURSION_DEPTH /\ weight \in Nat
    /\ values \in [Features -> Int]
    /\ visited \subseteq (0 .. g.n - 1) \X [Features -> Int]

\* The arcs the active calls are in, outermost first.
ActivePath ==
    IF Idle THEN << >> ELSE [j \in 1 .. Len(stack) - 1 |-> Arc(stack[j])]

\* The weight of a sequence of arcs, and the values after its flags.
WeightAfter(arcs) ==
    LET w[n \in 0 .. Len(arcs)] == IF n = 0 THEN 0 ELSE w[n - 1] + arcs[n].w
    IN  w[Len(arcs)]

PastArc(v, a) == IF a.in \in Flags THEN Applied(FlagOp[a.in], v) ELSE v
ValuesAfter(arcs) ==
    LET v[n \in 0 .. Len(arcs)] == IF n = 0 THEN Neutral ELSE PastArc(v[n - 1], arcs[n])
    IN  v[Len(arcs)]

\* At every moment the object's members describe the active path and nothing
\* else: the weight is the sum of its weights, the flag values are what its flags
\* give, the tape holds its symbols, and one level of depth is used by each call
\* that has entered.  With no call active all are as they were before the lookup.
ObjectMatchesPath ==
    LET entered == {j \in DOMAIN stack : stack[j].step # "enter"}
    IN  /\ weight = WeightAfter(ActivePath)
        /\ values = ValuesAfter(ActivePath)
        /\ depth = MAX_RECURSION_DEPTH - Cardinality(entered)
        /\ \A j \in 1 .. Len(stack) - 1 : tape[j][1] = ActivePath[j].in

\* How much input had been read when a call began.
PositionOf(f) == IF f.step \in {"symbol", "default"} THEN f.pos - 1 ELSE f.pos

\* Everything recorded as visited was recorded by an active call that is still
\* inside that arc, at the current input position.
VisitedIsActive ==
    \A c \in visited : \E j \in 1 .. Len(stack) - 1 :
        /\ stack[j].step = "zero" /\ Arc(stack[j]).in \in Flags
        /\ c = <<Arc(stack[j]).to, stack[j].values>>
        /\ stack[j].pos = PositionOf(top)

\* No lookup returns more than it was asked for.
LimitRespected == limit >= 0 => Cardinality(results) <= limit

\* Every lookup returns, epsilon cycles or not.
LookupReturns == ~Idle ~> Idle

-----------------------------------------------------------------------------
(* The reference: analyses as accepting paths of the graph *)

\* a may start on x: x is its input, or x is new and a is for such symbols.
StartsOn(a, x) ==
    IF x < ORIG_SYMBOL_COUNT THEN a.in = x
    ELSE a.in \in {IDENTITY, UNKNOWN}

\* The default arcs of a state are for input no other arc could start on.
Consumes(gr, s, a, x) ==
    \/ StartsOn(a, x)
    \/ /\ a.in = DEFAULT
       /\ \A b \in Range(gr.arcs[s]) : b.in \notin Zero /\ ~StartsOn(b, x)

Moved(c, a, pos, v, out) ==
    [s |-> a.to, pos |-> pos, values |-> v, weight |-> c.weight + a.w,
     path |-> Append(c.path, <<a.in, out>>)]

\* Where the arc a of gr leads from the configuration c, if it can be followed.
Past(gr, inp, c, a) ==
    IF a.in = 0 THEN {Moved(c, a, c.pos, c.values, a.out)}
    ELSE IF a.in \in Flags
    THEN IF Allows(FlagOp[a.in], c.values)
         THEN {Moved(c, a, c.pos, Applied(FlagOp[a.in], c.values), a.out)} ELSE {}
    ELSE IF c.pos < Len(inp) /\ Consumes(gr, c.s, a, inp[c.pos + 1])
    THEN {Moved(c, a, c.pos + 1, c.values,
                IF a.out \in Meta THEN inp[c.pos + 1] ELSE a.out)}
    ELSE {}

Successors(gr, inp, c) == UNION {Past(gr, inp, c, a) : a \in Range(gr.arcs[c.s])}

Start == [s |-> 0, pos |-> 0, values |-> Neutral, weight |-> 0, path |-> << >>]

\* The configurations reached by n arcs, as far as the recursion depth allows.
ReachedBy(gr, inp) ==
    LET reached[n \in 0 .. MAX_RECURSION_DEPTH - 1] ==
            IF n = 0 THEN {Start}
            ELSE UNION {Successors(gr, inp, c) : c \in reached[n - 1]}
    IN  reached

Analyses(gr, inp) ==
    LET reached == ReachedBy(gr, inp)
        accepted == {c \in UNION {reached[n] : n \in DOMAIN reached} :
                        c.pos = Len(inp) /\ c.s \in DOMAIN gr.final}
    IN  {[weight |-> c.weight + gr.final[c.s], path |-> c.path] : c \in accepted}

AllAnalyses == Analyses(g, input)

\* Whatever cut the search short, what it returns are analyses.
Sound == Idle /\ calls > 0 => results \subseteq AllAnalyses

\* A lookup that was cut short neither by time nor by its limit returns all
\* analyses, each with its own weight, as if it were the object's first; one cut
\* by its limit returns as many as it was asked for.
Complete ==
    Idle /\ calls > 0 /\ ~late =>
      IF limit < 0 \/ Cardinality(AllAnalyses) <= limit THEN results = AllAnalyses
      ELSE Cardinality(results) = limit

\* "We've been here before at this input, back out": a flag arc whose target is
\* recorded leads to a configuration an active call has already entered.
BackOutMeansVisited ==
    (/\ ~Idle /\ top.step = "zero" /\ top.i <= Len(Arcs(top)) /\ Arc(top).in \in Flags
     /\ Allows(FlagOp[Arc(top).in], values) /\ Recorded \in visited)
    => \E j \in 2 .. Len(stack) :
         /\ stack[j].s = Arc(top).to /\ stack[j].pos = top.pos
         /\ ValuesAfter(SubSeq(ActivePath, 1, j - 1)) = Applied(FlagOp[Arc(top).in], values)
==============================================================================
