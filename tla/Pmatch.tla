-------------------------------- MODULE Pmatch --------------------------------
(***************************************************************************)
(* Pattern matching: PmatchContainer::process and the mutually recursive   *)
(* functions of PmatchTransducer (optimized-lookup/pmatch.cc).             *)
(*                                                                         *)
(* At each position of the input the longest match of TOP is sought by a   *)
(* depth-first search.  The search works on what all its calls share: the  *)
(* container's tape, weight, entry stack and call stacks, and for each     *)
(* network a stack of local variables.  Every call must undo what it did.  *)
(*                                                                         *)
(* The recursion is an explicit stack.  A frame is one get_analyses, with  *)
(* the loop it is in and what is to be undone when the call it has made    *)
(* returns.                                                                *)
(***************************************************************************)
EXTENDS PmatchNetworks

CONSTANTS
    Requests(_),   \* what may be asked of an archive: the input, the symbols a match
                   \* may begin with (none: any), the weight and the time cutoff
    max_recursion,
    HeavierThanAll, \* a weight no match has
    MaxCalls       \* bound: strings processed by one container

VARIABLES
    nets, input, first, max_weight, timed, processed,
    pc, input_pos, result,
    calls,         \* the active calls of get_analyses, innermost last
    locals,        \* local_stack of each network
    entry_stack, tmp,  \* PositionStack
    rtn_stacks, stack_depth,
    tape, running_weight, recursion_depth_left,
    best_result, best_input_pos, best_weight,
    limit_reached,
    cut            \* whether a call was refused for want of depth or time (not in
                   \* the code)

request == <<nets, input, first, max_weight, timed, processed>>
undone == <<locals, entry_stack, rtn_stacks, stack_depth>>
best == <<best_result, best_input_pos, best_weight>>
scan == <<pc, input_pos, result>>
vars == <<request, scan, calls, undone, tmp, tape, running_weight, recursion_depth_left,
          best, limit_reached, cut>>

-----------------------------------------------------------------------------
NewLocals ==
    [flag_state |-> Neutral, context |-> "none", tape_step |-> 1, placeholder |-> 0,
     max_context_length_remaining |-> max_context_length, default_symbol_trap |-> FALSE,
     negative_context_success |-> FALSE, pending_passthrough |-> FALSE]

Frame(net, s, pos, out) ==
    [net |-> net, s |-> s, pos |-> pos, out |-> out, step |-> "enter", trying |-> << >>,
     i |-> 1, undo |-> "none", weight |-> 0, flags |-> Neutral, shared |-> << >>]

top == Last(calls)
local == Last(locals[top.net])
checking_context == local.context # "none"

\* The arcs the innermost call is iterating over.
Arcs(f) == IF f.step = "zero" THEN ZeroArcs(nets, f.net, f.s)
           ELSE IF f.trying = << >> THEN << >>
           ELSE ArcsFor(nets, f.net, f.s, Head(f.trying))
Arc == Arcs(top)[top.i]
AtArc(step) == calls # << >> /\ top.step = step /\ top.i <= Len(Arcs(top))

has_queued_input(pos) == pos \in 0 .. Len(input) - 1
candidate_found == best_result # << >>

\* DoubleTape::write
Write(pos, pair) ==
    [q \in 1 .. Max({Len(tape), pos + 1}) |-> IF q = pos + 1 THEN pair ELSE tape[q]]

\* local_stack: the top is replaced, something is pushed, the top is popped.
SetLocal(net, l) == [locals EXCEPT ![net] = Append(Front(@), l)]
PushLocal(net, l) == [locals EXCEPT ![net] = Append(@, l)]
PopLocal(net) == [locals EXCEPT ![net] = Front(@)]

\* What all calls work on: the entries, the open calls and each network's flags.
Shared ==
    <<entry_stack, SubSeq(rtn_stacks, 1, stack_depth),
      [x \in DOMAIN nets |-> [i \in DOMAIN locals[x] |-> locals[x][i].flag_state]]>>

\* get_analyses is called, with a note of what to undo after it (shared is not in
\* the code).
Call(net, s, pos, out, undo) ==
    calls' = Append(Append(Front(calls),
                      [top EXCEPT !.undo = undo, !.weight = running_weight,
                                  !.flags = local.flag_state, !.shared = Shared]),
                    Frame(net, s, pos, out))
Weigh(w) == running_weight' = running_weight + w

\* The innermost call goes on to its next arc, or to its next step.
NextArc == calls' = Append(Front(calls), [top EXCEPT !.i = @ + 1])
Goto(step, trying) ==
    calls' = Append(Front(calls), [top EXCEPT !.step = step, !.i = 1, !.trying = trying])

-----------------------------------------------------------------------------
Init ==
    /\ nets \in Archives
    /\ input = << >> /\ first = {} /\ max_weight = 0 /\ timed = FALSE /\ processed = 0
    /\ pc = "idle" /\ input_pos = 0 /\ result = << >>
    /\ calls = << >> /\ locals = [x \in DOMAIN nets |-> <<NewLocals>>]
    /\ entry_stack = << >> /\ tmp = 0 /\ rtn_stacks = << >> /\ stack_depth = 0
    /\ tape = << >> /\ running_weight = 0 /\ recursion_depth_left = max_recursion
    /\ best_result = << >> /\ best_input_pos = 0
    /\ best_weight \in {0, HeavierThanAll}  \* not initialized
    /\ limit_reached = FALSE /\ cut = FALSE

\* match, process: best_weight and the stacks are not reset.
Process ==
    /\ pc = "idle" /\ processed < MaxCalls /\ processed' = processed + 1
    /\ \E r \in Requests(nets) :
         /\ input' = r.input /\ first' = r.first
         /\ max_weight' = r.max_weight /\ timed' = r.timed
    /\ pc' = "scan" /\ input_pos' = 0 /\ result' = << >>
    /\ running_weight' = 0 /\ stack_depth' = 0 /\ best_input_pos' = 0
    /\ recursion_depth_left' = max_recursion
    /\ limit_reached' = FALSE /\ cut' = FALSE
    /\ UNCHANGED <<nets, calls, locals, entry_stack, rtn_stacks, tmp, tape, best_result,
                   best_weight>>

Copied(x) == <<"copy", <<x, x>>>>

\* not_possible_first_symbol
SkipSymbol ==
    /\ pc = "scan" /\ has_queued_input(input_pos)
    /\ first # {} /\ input[input_pos + 1] \notin first
    /\ result' = Append(result, Copied(input[input_pos + 1])) /\ input_pos' = input_pos + 1
    /\ best_result' = << >>
    /\ UNCHANGED <<request, pc, calls, undone, tmp, tape, running_weight,
                   recursion_depth_left, best_input_pos, best_weight, limit_reached, cut>>

\* PmatchTransducer::match
Match ==
    /\ pc = "scan" /\ has_queued_input(input_pos)
    /\ first = {} \/ input[input_pos + 1] \in first
    /\ pc' = "match" /\ best_result' = << >> /\ tape' = << >> /\ cut' = FALSE
    /\ locals' = SetLocal("TOP", [Last(locals["TOP"]) EXCEPT
                   !.context = "none", !.tape_step = 1, !.placeholder = 0,
                   !.default_symbol_trap = FALSE])
    /\ calls' = <<Frame("TOP", 0, input_pos, 0)>>
    /\ UNCHANGED <<request, input_pos, result, entry_stack, tmp, rtn_stacks, stack_depth,
                   running_weight, recursion_depth_left, best_input_pos, best_weight,
                   limit_reached>>

\* Mutant: only a match of nothing moves the position up.
MovedOnAfterMatch(found, p) == found /\ p = input_pos

\* "If no input was consumed, we move one position up".
MovedOn(found, p) == ~found \/ p = input_pos

\* After the search: the best match is copied to the result.
Take ==
    /\ pc = "match" /\ calls = << >>
    /\ LET p == IF candidate_found THEN best_input_pos ELSE input_pos
           match == IF candidate_found THEN <<<<"match", best_result>>>> ELSE << >>
       IN  IF MovedOn(candidate_found, p)
           THEN /\ result' = result \o match \o <<Copied(input[input_pos + 1])>>
                /\ input_pos' = p + 1
           ELSE result' = result \o match /\ input_pos' = p
    /\ pc' = "scan"
    /\ UNCHANGED <<request, calls, undone, tmp, tape, running_weight, recursion_depth_left,
                   best, limit_reached, cut>>

Finish ==
    /\ pc = "scan" /\ ~has_queued_input(input_pos) /\ pc' = "idle"
    /\ UNCHANGED <<request, input_pos, result, calls, undone, tmp, tape, running_weight,
                   recursion_depth_left, best, limit_reached, cut>>

-----------------------------------------------------------------------------
\* Mutant: the position of an entry arc is kept.
EntriesAfterKept(f) ==
    IF f.undo = "exit" THEN Append(entry_stack, tmp) ELSE entry_stack

\* What the caller f undoes once the call it made has returned.
EntriesAfter(f) ==
    CASE f.undo = "entry" -> Front(entry_stack)
      [] f.undo = "exit" -> Append(entry_stack, tmp)
      [] OTHER -> entry_stack

\* check_context: a negative context that did not match schedules a passthrough.
AfterCheck(net) ==
    LET checked == Last(locals[net])
        outer == Last(Front(locals[net]))
        failed == checked.context \in Negative /\ ~checked.negative_context_success
    IN  [locals EXCEPT ![net] = Append(Front(Front(@)),
           [outer EXCEPT !.pending_passthrough = @ \/ failed])]

\* Mutant: the flags after the operation are kept.
LocalsAfterFlagKept(f) ==
    LET l == Last(locals[f.net])
    IN  CASE f.undo = "read" -> SetLocal(f.net, [l EXCEPT !.default_symbol_trap = FALSE])
          [] f.undo = "read in context" ->
               SetLocal(f.net, [l EXCEPT !.default_symbol_trap = FALSE,
                                         !.max_context_length_remaining = @ + 1])
          [] f.undo = "check" -> AfterCheck(f.net)
          [] f.undo = "leave" -> PopLocal(f.net)
          [] f.undo = "rtn" -> PopLocal(top.net)
          [] OTHER -> locals

LocalsAfter(f) ==
    LET l == Last(locals[f.net])
    IN  CASE f.undo = "flag" -> SetLocal(f.net, [l EXCEPT !.flag_state = f.flags])
          [] f.undo = "read" -> SetLocal(f.net, [l EXCEPT !.default_symbol_trap = FALSE])
          [] f.undo = "read in context" ->
               SetLocal(f.net, [l EXCEPT !.default_symbol_trap = FALSE,
                                         !.max_context_length_remaining = @ + 1])
          [] f.undo = "check" -> AfterCheck(f.net)
          [] f.undo = "leave" -> PopLocal(f.net)
          [] f.undo = "rtn" -> PopLocal(top.net)
          [] OTHER -> locals

DepthAfter(f) ==
    stack_depth + (CASE f.undo = "rtn" -> -1 [] f.undo = "return" -> 1 [] OTHER -> 0)

\* rtn_stack_pop
CallsAfter(f) ==
    IF f.undo = "rtn" THEN [rtn_stacks EXCEPT ![stack_depth] = Front(@)] ELSE rtn_stacks

\* The innermost call returns.
Return ==
    LET n == Len(calls) - 1
        f == calls[n]
    IN  IF n = 0 THEN calls' = << >> /\ UNCHANGED <<undone, running_weight>>
        ELSE /\ calls' = [Front(calls) EXCEPT ![n] =
                            IF f.undo = "return" THEN [@ EXCEPT !.step = "input"]
                            ELSE [@ EXCEPT !.i = @ + 1]]
             /\ running_weight' = f.weight
             /\ locals' = LocalsAfter(f) /\ entry_stack' = EntriesAfter(f)
             /\ stack_depth' = DepthAfter(f) /\ rtn_stacks' = CallsAfter(f)

At(step) == calls # << >> /\ top.step = step
TooHeavy == running_weight > max_weight

\* get_analyses is entered.  While there is a time cutoff the clock may run out
\* as soon as there is something to return.
Enter ==
    /\ At("enter") /\ ~TooHeavy
    /\ limit_reached' \in {limit_reached, timed /\ candidate_found}
    /\ limit_reached => limit_reached'
    /\ IF (timed /\ limit_reached') \/ recursion_depth_left = 0
       THEN Return /\ cut' = TRUE /\ UNCHANGED recursion_depth_left
       ELSE /\ recursion_depth_left' = recursion_depth_left - 1
            /\ locals' = SetLocal(top.net, [local EXCEPT !.default_symbol_trap = TRUE])
            /\ Goto("zero", << >>)
            /\ UNCHANGED <<cut, running_weight, entry_stack, stack_depth, rtn_stacks>>
    /\ UNCHANGED <<request, scan, tmp, tape, best>>

Refuse ==
    /\ At("enter") /\ TooHeavy /\ Return
    /\ UNCHANGED <<request, scan, tmp, tape, recursion_depth_left, best, limit_reached, cut>>

\* What the actions of take_epsilons and take_transitions have in common.
Searching == UNCHANGED <<request, scan, recursion_depth_left, best, limit_reached, cut>>

\* try_exiting_context, for a context that has to match.
Exits == local.context \in Contexts \ Negative /\ Arc.out = ExitOf[local.context]

\* ... and for one that must not; NRC falls through to NLC.
Succeeds ==
    \/ local.context = "NRC" /\ Arc.out = ExitOf.NRC
    \/ local.context \in Negative /\ Arc.out = ExitOf.NLC
BacksOut == Succeeds \/ local.negative_context_success

\* exit_context: the search goes on from where the context was entered.
ExitContext ==
    /\ AtArc("zero") /\ checking_context /\ Exits
    /\ locals' = PushLocal(top.net, [local EXCEPT
                   !.context = "none", !.negative_context_success = FALSE, !.tape_step = 1])
    /\ Call(top.net, Arc.to, local.placeholder, top.out, "leave") /\ Weigh(Arc.w)
    /\ UNCHANGED <<entry_stack, tmp, rtn_stacks, stack_depth, tape>> /\ Searching

\* take_epsilons is over: get_analyses goes on to a passthrough that is pending.
LeaveZero(l) ==
    /\ locals' = SetLocal(top.net, [l EXCEPT !.pending_passthrough = FALSE])
    /\ Goto("pass", IF l.pending_passthrough THEN <<Pmatch_passthrough>> ELSE << >>)

\* A negative context has matched.
BackOut ==
    /\ AtArc("zero") /\ checking_context /\ BacksOut
    /\ LeaveZero([local EXCEPT !.negative_context_success = TRUE]) /\ Weigh(Arc.w)
    /\ UNCHANGED <<entry_stack, tmp, rtn_stacks, stack_depth, tape>> /\ Searching

NoMoreZero ==
    /\ At("zero") /\ top.i > Len(Arcs(top)) /\ LeaveZero(local)
    /\ UNCHANGED <<entry_stack, tmp, rtn_stacks, stack_depth, tape, running_weight>>
    /\ Searching

\* An arc of take_epsilons that neither leaves a context nor gives it up.
AtZeroArc == AtArc("zero") /\ ~(checking_context /\ (Exits \/ BacksOut))

\* take_flag; flags are not written.
TakeFlag ==
    /\ AtZeroArc /\ Arc.in \in Flags
    /\ IF Allows(FlagOp[Arc.in], local.flag_state)
       THEN /\ locals' = SetLocal(top.net,
                 [local EXCEPT !.flag_state = Applied(FlagOp[Arc.in], @)])
            /\ Call(top.net, Arc.to, top.pos, top.out, "flag") /\ Weigh(Arc.w)
       ELSE NextArc /\ UNCHANGED <<locals, running_weight>>
    /\ UNCHANGED <<entry_stack, tmp, rtn_stacks, stack_depth, tape>> /\ Searching

\* rtn_call, rtn_call_in_context, push_rtn_call
CallRtn ==
    /\ AtZeroArc /\ Arc.in \in DOMAIN nets
    /\ locals' = PushLocal(Arc.in,
         IF checking_context THEN [local EXCEPT !.flag_state = Neutral]
         ELSE [Last(locals[Arc.in]) EXCEPT
                 !.flag_state = Neutral, !.tape_step = 1, !.context = "none",
                 !.placeholder = 0, !.default_symbol_trap = FALSE])
    /\ LET call == [caller |-> top.net, caller_index |-> Arc.to]
       IN  rtn_stacks' = IF Len(rtn_stacks) <= stack_depth THEN Append(rtn_stacks, <<call>>)
                         ELSE [rtn_stacks EXCEPT ![stack_depth + 1] = Append(@, call)]
    /\ stack_depth' = stack_depth + 1
    /\ Call(Arc.in, 0, top.pos, top.out, "rtn") /\ Weigh(Arc.w)
    /\ UNCHANGED <<entry_stack, tmp, tape>> /\ Searching

\* An epsilon inside a context leaves the tape and the entry stack alone.
TakeEpsilonInContext ==
    /\ AtZeroArc /\ Arc.in = EPSILON /\ checking_context
    /\ Call(top.net, Arc.to, top.pos, top.out, "none") /\ Weigh(Arc.w)
    /\ UNCHANGED <<undone, tmp, tape>> /\ Searching

\* try_entering_context, check_context: a left context is read backwards from
\* before the latest entry.
EnterContext ==
    /\ AtZeroArc /\ Arc.in = EPSILON /\ ~checking_context /\ IsEntry(Arc.out)
    /\ LET c == ContextOf(Arc.out)
       IN  /\ locals' = PushLocal(top.net, [local EXCEPT
                !.context = c, !.tape_step = IF c \in Leftward THEN -1 ELSE 1,
                !.max_context_length_remaining = max_context_length,
                !.placeholder = top.pos])
           /\ Call(top.net, Arc.to,
                   IF c \in Leftward THEN Last(entry_stack) - 1 ELSE top.pos,
                   top.out, "check")
    /\ Weigh(Arc.w)
    /\ UNCHANGED <<entry_stack, tmp, rtn_stacks, stack_depth, tape>> /\ Searching

TakeEpsilon ==
    /\ AtZeroArc /\ Arc.in = EPSILON /\ ~checking_context /\ ~IsEntry(Arc.out)
    /\ tape' = Write(top.out, <<EPSILON, Arc.out>>)
    /\ CASE Arc.out = "entry" ->
              /\ entry_stack' = Append(entry_stack, top.pos) /\ UNCHANGED tmp
              /\ Call(top.net, Arc.to, top.pos, top.out + 1, "entry")
         [] Arc.out = "exit" ->
              /\ entry_stack' = Front(entry_stack) /\ tmp' = Last(entry_stack)
              /\ Call(top.net, Arc.to, top.pos, top.out + 1, "exit")
         [] OTHER ->
              /\ UNCHANGED <<entry_stack, tmp>>
              /\ Call(top.net, Arc.to, top.pos, top.out + 1, "none")
    /\ Weigh(Arc.w)
    /\ UNCHANGED <<locals, rtn_stacks, stack_depth>> /\ Searching

-----------------------------------------------------------------------------
\* Mutant: of two matches of the same length the later found is taken.
BetterIfAsLong(p, w) == p >= best_input_pos

\* note_analysis: longer, or as long and lighter.
Better(p, w) == p > best_input_pos \/ (p = best_input_pos /\ best_weight > w)

IsFinal == top.s \in DOMAIN nets[top.net].final
FinalWeight == nets[top.net].final[top.s]

NotFinal ==
    /\ At("final") /\ ~IsFinal /\ Goto("input", << >>)
    /\ UNCHANGED <<undone, tmp, tape, running_weight>> /\ Searching

\* handle_final_state in TOP.
NoteAnalysis ==
    /\ At("final") /\ IsFinal /\ stack_depth = 0
    /\ LET w == running_weight + FinalWeight
       IN  IF Better(top.pos, w)
           THEN /\ best_result' = SubSeq(tape, 1, top.out)
                /\ best_input_pos' = top.pos /\ best_weight' = w
           ELSE UNCHANGED best
    /\ Goto("input", << >>)
    /\ UNCHANGED <<request, scan, undone, tmp, tape, running_weight, recursion_depth_left,
                   limit_reached, cut>>

\* handle_final_state elsewhere: rtn_return.
RtnReturn ==
    /\ At("final") /\ IsFinal /\ stack_depth > 0
    /\ LET call == Last(rtn_stacks[stack_depth])
       IN  Call(call.caller, call.caller_index, top.pos, top.out, "return")
    /\ stack_depth' = stack_depth - 1 /\ Weigh(FinalWeight)
    /\ UNCHANGED <<locals, entry_stack, tmp, rtn_stacks, tape>> /\ Searching

\* The arc inputs tried for the next input symbol, the default symbol last.
StartReading ==
    /\ At("input") /\ has_queued_input(top.pos)
    /\ Goto("read", Matches(input[top.pos + 1]) \o <<"default">>)
    /\ UNCHANGED <<undone, tmp, tape, running_weight>> /\ Searching

AtTransition == AtArc("pass") \/ AtArc("read")

\* The default symbol is not tried where something else has been read.
SkipsDefault == Head(top.trying) = "default" /\ top.i = 1 /\ ~local.default_symbol_trap

\* take_transitions
TakePassthrough ==
    /\ AtArc("pass") /\ ~checking_context
    /\ Call(top.net, Arc.to, top.pos, top.out, "read") /\ Weigh(Arc.w)
    /\ UNCHANGED <<undone, tmp, tape>> /\ Searching

TakeTransition ==
    /\ AtArc("read") /\ ~checking_context /\ ~SkipsDefault
    /\ tape' = Write(top.out, Written(Arc, input[top.pos + 1]))
    /\ Call(top.net, Arc.to, top.pos + 1, top.out + 1, "read") /\ Weigh(Arc.w)
    /\ UNCHANGED <<undone, tmp>> /\ Searching

TakeTransitionInContext ==
    /\ AtTransition /\ checking_context /\ ~SkipsDefault
    /\ IF local.max_context_length_remaining > 0
       THEN /\ locals' = SetLocal(top.net,
                 [local EXCEPT !.max_context_length_remaining = @ - 1])
            /\ Call(top.net, Arc.to, top.pos + local.tape_step, top.out, "read in context")
            /\ Weigh(Arc.w)
       ELSE /\ locals' = SetLocal(top.net, [local EXCEPT !.default_symbol_trap = FALSE])
            /\ NextArc /\ UNCHANGED running_weight
    /\ UNCHANGED <<entry_stack, tmp, rtn_stacks, stack_depth, tape>> /\ Searching

NextSymbol ==
    /\ At("pass") \/ At("read")
    /\ top.trying # << >> /\ (top.i > Len(Arcs(top)) \/ SkipsDefault)
    /\ Goto(top.step, Tail(top.trying))
    /\ UNCHANGED <<undone, tmp, tape, running_weight>> /\ Searching

NoMorePassthrough ==
    /\ At("pass") /\ top.trying = << >> /\ Goto("final", << >>)
    /\ UNCHANGED <<undone, tmp, tape, running_weight>> /\ Searching

\* get_analyses ends, with or without input left: unrecurse.
Leave ==
    /\ \/ At("input") /\ ~has_queued_input(top.pos)
       \/ At("read") /\ top.trying = << >>
    /\ Return /\ recursion_depth_left' = recursion_depth_left + 1
    /\ UNCHANGED <<request, scan, tmp, tape, best, limit_reached, cut>>

TakeEpsilons ==
    \/ ExitContext \/ BackOut \/ TakeFlag \/ CallRtn \/ TakeEpsilonInContext
    \/ EnterContext \/ TakeEpsilon \/ NoMoreZero

TakeTransitions ==
    \/ TakePassthrough \/ TakeTransition \/ TakeTransitionInContext \/ NextSymbol

Next ==
    \/ Process \/ SkipSymbol \/ Match \/ Take \/ Finish
    \/ Enter \/ Refuse \/ TakeEpsilons \/ NoMorePassthrough
    \/ NotFinal \/ NoteAnalysis \/ RtnReturn
    \/ StartReading \/ TakeTransitions \/ Leave

Spec == Init /\ [][Next]_vars

\* A call of match is not abandoned.
FairSpec == Spec /\ WF_vars(pc # "idle" /\ Next)

-----------------------------------------------------------------------------
\* LocalVariables of every network and the frames of the search are well formed;
\* between two searches nothing of them is left.
TypeOK ==
    /\ nets \in Archives /\ pc \in {"idle", "scan", "match"}
    /\ input_pos \in 0 .. Len(input)
    /\ pc # "match" => calls = << >>
    /\ recursion_depth_left = max_recursion
                               - Cardinality({i \in DOMAIN calls : calls[i].step # "enter"})
    /\ \A i \in DOMAIN calls : calls[i].net \in DOMAIN nets /\ calls[i].pos \in -1 .. Len(input)
    /\ \A x \in DOMAIN nets : \A i \in DOMAIN locals[x] :
         /\ locals[x][i].flag_state \in [Features -> Int]
         /\ locals[x][i].max_context_length_remaining \in 0 .. max_context_length
    /\ \A i \in DOMAIN rtn_stacks : \A k \in DOMAIN rtn_stacks[i] :
         rtn_stacks[i][k].caller \in DOMAIN nets
    /\ calls = << >> =>
         /\ entry_stack = << >> /\ stack_depth = 0 /\ Range(rtn_stacks) \subseteq {<< >>}
         /\ \A x \in DOMAIN nets : Len(locals[x]) = 1 /\ ~Last(locals[x]).pending_passthrough
    /\ tmp \in Nat /\ best_input_pos \in 0 .. Len(input)

\* A call of get_analyses returns to a caller that finds everything the calls
\* share as it was, whatever was entered, left, set and called below.
CallsUndone ==
    [][calls' # << >> /\ Len(calls') < Len(calls) =>
         /\ Shared' = Last(calls').shared
         /\ running_weight' = Last(calls').weight]_vars

\* "This tracks the ENTRY and EXIT tags" (pmatch.h): the entry stack holds where
\* the entries on the way to the present call are that have not been left.
EntriesTracked ==
    calls # << >> =>
      entry_stack = FoldLeft(LAMBDA open, f :
                      CASE f.undo = "entry" -> Append(open, f.pos)
                        [] f.undo = "exit" -> Front(open)
                        [] OTHER -> open, << >>, Front(calls))

\* Together the networks, contexts, flags and weights select the matches that
\* PmatchMatches defines without any of the shared state.
Implements ==
    INSTANCE PmatchMatches WITH active <- pc # "idle", at <- input_pos
ImplementsMatches == Implements!Spec

\* "pmatch: out of stack space, truncating result": a search that was cut short may
\* miss matches, but what it writes is one.  Not so after a negative context that was
\* cut short, which counts as one that does not match.
Uncut == INSTANCE PmatchMatches WITH active <- pc # "idle", at <- input_pos, cut <- FALSE
TruncatedIsMatch ==
    [][pc = "match" /\ pc' = "scan" /\ candidate_found =>
         \E p \in Uncut!Found : p.tape = best_result]_vars

\* Every call of match comes to an end, also over matches of nothing.
Terminates == pc # "idle" ~> pc = "idle"
===============================================================================
