---------------------------- MODULE PmatchMatches ----------------------------
(***************************************************************************)
(* What pattern matching promises, with nothing shared and nothing to undo:*)
(* at each position the longest match of TOP is taken, the lightest of     *)
(* several, and a symbol at which none begins is copied.  The matches are  *)
(* those of the paths through the archive's networks; a path carries its   *)
(* own calls, flags, entries, tape and weight.                             *)
(*                                                                         *)
(* Left open: which of several equal matches is taken, whether a match of  *)
(* no input is written before the symbol that is copied then, and what is  *)
(* found where the search has been cut short.                              *)
(***************************************************************************)
EXTENDS PmatchNetworks

VARIABLES nets, input, first, max_weight, active, at, result, cut

vars == <<nets, input, first, max_weight, active, at, result, cut>>

-----------------------------------------------------------------------------
\* A path is in the networks of its frames, the innermost last; the others are
\* in the states where they go on.  Within a context nothing is written, and
\* at most room symbols are read, forwards or backwards.
Here(p) == Last(p.frames)
Arcs(p) == Range(nets[Here(p).net].arcs[Here(p).s])
IsFinal(p) == Here(p).s \in DOMAIN nets[Here(p).net].final
FinalWeight(p) == nets[Here(p).net].final[Here(p).s]

Along(p, a) ==
    [p EXCEPT !.frames = Append(Front(@), [Here(p) EXCEPT !.s = a.to]), !.weight = @ + a.w]

Start == [frames |-> <<[net |-> "TOP", s |-> 0, flags |-> Neutral]>>, pos |-> at,
          weight |-> 0, tape |-> << >>, entries |-> << >>,
          context |-> "none", step |-> 1, room |-> 0]

Called(p) ==
    {[Along(p, a) EXCEPT !.frames = Append(@, [net |-> a.in, s |-> 0, flags |-> Neutral])] :
       a \in {b \in Arcs(p) : b.in \in DOMAIN nets}}

Returned(p) ==
    IF Len(p.frames) > 1 /\ IsFinal(p)
    THEN {[p EXCEPT !.frames = Front(@), !.weight = @ + FinalWeight(p)]} ELSE {}

Flagged(p) ==
    {[Along(p, a) EXCEPT !.frames[Len(p.frames)].flags = Applied(FlagOp[a.in], @)] :
       a \in {b \in Arcs(p) : b.in \in Flags /\ Allows(FlagOp[b.in], Here(p).flags)}}

\* The default symbol stands for whatever the state has no arc for.
Readers(p) ==
    IF p.pos \notin 0 .. Len(input) - 1 THEN {}
    ELSE LET known == {a \in Arcs(p) : a.in \in Range(Matches(input[p.pos + 1]))}
         IN  IF known # {} THEN known ELSE {a \in Arcs(p) : a.in = "default"}

\* Inside a context.
Checked(p) ==
    {Along(p, a) : a \in {b \in Arcs(p) : b.in = EPSILON}}
    \cup {[Along(p, a) EXCEPT !.pos = @ + p.step, !.room = @ - 1] :
            a \in IF p.room > 0 THEN Readers(p) ELSE {}}

\* Outside, something is written; an entry is remembered until its exit.
Wrote(p) ==
    {[Along(p, a) EXCEPT
        !.tape = Append(@, <<EPSILON, a.out>>),
        !.entries = CASE a.out = "entry" -> Append(@, p.pos)
                      [] a.out = "exit" -> Front(@)
                      [] OTHER -> @] :
       a \in {b \in Arcs(p) : b.in = EPSILON /\ ~IsEntry(b.out)}}
    \cup {[Along(p, a) EXCEPT !.pos = @ + 1,
                              !.tape = Append(@, Written(a, input[p.pos + 1]))] :
            a \in Readers(p)}

Opening(p, cs) == {a \in Arcs(p) : a.in = EPSILON /\ \E c \in cs : a.out = EntryOf[c]}

RECURSIVE Moves(_), Reached(_, _)
Reached(new, found) ==
    IF new = {} THEN found
    ELSE LET next == UNION {Moves(p) : p \in new} \ (found \cup new)
         IN  Reached(next, found \cup new)

\* The ways through the context that the arc a opens, at the exit.
Within(p, a) ==
    LET c == ContextOf(a.out)
        inside == [Along(p, a) EXCEPT
                     !.context = c, !.room = max_context_length,
                     !.step = IF c \in Leftward THEN -1 ELSE 1,
                     !.pos = IF c \in Leftward THEN Last(p.entries) - 1 ELSE @]
        exits(q) == {b \in Arcs(q) : b.in = EPSILON /\ b.out = ExitOf[c]}
    IN  UNION {{Along(q, b) : b \in exits(q)} : q \in Reached({inside}, {})}

\* A context that has to match leaves the path where it stood.
Passed(p) ==
    {[q EXCEPT !.context = "none", !.step = 1, !.room = 0, !.pos = p.pos] :
       q \in UNION {Within(p, a) : a \in Opening(p, Contexts \ Negative)}}

\* A context that must not match is opened beside a guard that is passed then.
PassedBy(p) ==
    {Along(p, a) :
       a \in {b \in Arcs(p) : /\ b.in = Pmatch_passthrough
                              /\ \E c \in Opening(p, Negative) : cut \/ Within(p, c) = {}}}

Moves(p) ==
    {q \in Called(p) \cup Returned(p) \cup Flagged(p)
             \cup (IF p.context # "none" THEN Checked(p)
                   ELSE Wrote(p) \cup Passed(p) \cup PassedBy(p)) :
       q.weight <= max_weight}

-----------------------------------------------------------------------------
\* The matches that begin at the present position.
Found ==
    {[p EXCEPT !.weight = @ + FinalWeight(p)] :
       p \in {q \in Reached({Start}, {}) :
                Len(q.frames) = 1 /\ IsFinal(q) /\ q.tape # << >>}}
Longest(M) == {p \in M : \A q \in M : q.pos <= p.pos}
Best(M) == {p \in Longest(M) : \A q \in Longest(M) : p.weight <= q.weight}

Copied == <<"copy", <<input[at + 1], input[at + 1]>>>>

Copy ==
    /\ result' = Append(result, Copied) /\ at' = at + 1
    /\ \/ first # {} /\ input[at + 1] \notin first
       \/ cut
       \/ \A p \in Found : p.pos = at

\* After a match of nothing one symbol is copied.
Take ==
    \E M \in {Found} : \E p \in IF cut THEN M ELSE Best(M) :
      /\ first = {} \/ input[at + 1] \in first
      /\ result' = Append(result, <<"match", p.tape>>)
                     \o IF p.pos = at THEN <<Copied>> ELSE << >>
      /\ at' = IF p.pos = at THEN at + 1 ELSE p.pos

Begin == ~active /\ active' /\ at' = 0 /\ result' = << >> /\ UNCHANGED nets
End == active /\ at = Len(input) /\ ~active' /\ UNCHANGED <<nets, input, at, result>>

\* The search shows nothing of itself.
Search ==
    /\ active /\ active' /\ UNCHANGED <<nets, input, first, max_weight>>
    /\ \/ UNCHANGED <<at, result>>
       \/ at < Len(input) /\ result' # result /\ (Copy \/ Take)

Next == Begin \/ Search \/ End
Spec == ~active /\ [][Next]_vars
===============================================================================
