------------------------------ MODULE OlSpeller ------------------------------
(***************************************************************************)
(* The spell checker: Speller::check and Speller::correct,                 *)
(*   optimized-lookup/ospell.cc, transducer.h.                             *)
(*                                                                         *)
(* A breadth-first search over a queue of nodes.  A node is a position in  *)
(* the input, a state of the error model (mutator) and one of the lexicon, *)
(* with the flag values, the symbols written and the weight on the way to  *)
(* it.  Every node is expanded by lexicon_epsilons, mutator_epsilons and   *)
(* consume_input (lexicon_consume in check) and then dropped from the      *)
(* front.  Symbols of OlGraph are the lexicon's; the mutator has numbers   *)
(* of its own, related to them by alphabet_translator.                     *)
(***************************************************************************)
EXTENDS OlGraph

CONSTANTS
    Mutators,               \* error models, as graphs over their own symbols
    MUTATOR_SYMBOL_COUNT,
    MUTATOR_UNKNOWN,        \* the mutator's number of the unknown symbol
    alphabet_translator,    \* the lexicon's number of each mutator symbol
    Words,                  \* what may be asked, as sequences of letters
    LexiconKey, MutatorKey, \* Encoder::find_key: the number of each letter that has one
    Valid,                  \* letters that are UTF-8 characters
    Silent,                 \* lexicon symbols whose name is the empty string
    MaxCalls                \* bound: questions asked of one object

Mutator == INSTANCE OlGraph WITH
    Graphs <- Mutators, FlagOp <- << >>, ORIG_SYMBOL_COUNT <- MUTATOR_SYMBOL_COUNT,
    IDENTITY <- NO_SYMBOL, UNKNOWN <- MUTATOR_UNKNOWN, DEFAULT <- NO_SYMBOL

\* build_alphabet_translator throws for a letter the lexicon lacks, gives a
\* letter the number of the lexicon's letter, and gives the mutator's flags and
\* its unknown symbol no number: no arc writes those.  TransducerAlphabet leaves
\* only flags without a name.
ASSUME SpellerAssumption ==
    /\ \A m \in Mutators : Mutator!IsGraph(m)
    /\ MUTATOR_SYMBOL_COUNT \in Nat \ {0}
    /\ MUTATOR_UNKNOWN \in (1 .. MUTATOR_SYMBOL_COUNT - 1) \cup {NO_SYMBOL}
    /\ alphabet_translator \in [0 .. MUTATOR_SYMBOL_COUNT - 1 ->
                                  (0 .. ORIG_SYMBOL_COUNT - 1) \cup {NO_SYMBOL}]
    /\ \A x \in DOMAIN alphabet_translator : alphabet_translator[x] \in Zero <=> x = 0
    /\ alphabet_translator[0] = 0
    /\ Silent \subseteq Zero
    /\ \A w \in Words : w \in Seq(Range(w))
    /\ \A m \in Mutators : \A s \in DOMAIN m.arcs : \A a \in Range(m.arcs[s]) :
         alphabet_translator[a.out] # NO_SYMBOL
    /\ Range(LexiconKey) \subseteq 1 .. ORIG_SYMBOL_COUNT - 1
    /\ Range(MutatorKey) \subseteq 1 .. MUTATOR_SYMBOL_COUNT - 1
    /\ MaxCalls \in Nat

VARIABLES
    lexicon, mutator,
    input,        \* the numbers of the word's letters
    queue,
    corrections,  \* in correct: the best weight of each string so far
    step,         \* what the running call does next; "idle" when none runs
    task,         \* the call: "check" or "correct"; "none" before the first
    word,         \* its argument
    answer,       \* what check has returned
    calls

vars == <<lexicon, mutator, input, queue, corrections, step, task, word, answer, calls>>
graphs == <<lexicon, mutator>>
request == <<graphs, task, word, calls>>

-----------------------------------------------------------------------------
front == Head(queue)
StartNode == [string |-> << >>, pos |-> 0, m |-> 0, l |-> 0, values |-> Neutral,
              weight |-> 0]

AtEnd(n) == n.pos = Len(input)

\* TreeNode::update
Update(n, symbol, pos, m, l, w) ==
    [string |-> Append(n.string, symbol), pos |-> pos, m |-> m, l |-> l,
     values |-> n.values, weight |-> n.weight + w]

\* take_non_epsilons, take_epsilons: the arcs of a state with one input.
MutatorArcs(n, x) == ArcsFor(mutator, n.m, x)
LexiconArcs(n, x) == ArcsFor(lexicon, n.l, x)

\* Mutant: the operation is only tested.
PassedTestedOnly(n, a) ==
    IF a.in \in Flags /\ ~Allows(FlagOp[a.in], n.values) THEN << >>
    ELSE <<Update(n, a.out, n.pos, n.m, a.to, a.w)>>

\* The nodes an epsilon or flag arc of the lexicon leads to.
Passed(n, a) ==
    IF a.in \notin Flags THEN <<Update(n, a.out, n.pos, n.m, a.to, a.w)>>
    ELSE IF Allows(FlagOp[a.in], n.values)
    THEN <<[Update(n, a.out, n.pos, n.m, a.to, a.w) EXCEPT
              !.values = Applied(FlagOp[a.in], n.values)]>>
    ELSE << >>

\* Mutant: the two target states are swapped.
ThroughSwapped(n, a, pos) ==
    IF a.out = 0 THEN <<Update(n, 0, pos, a.to, n.l, a.w)>>
    ELSE LET bs == LexiconArcs(n, alphabet_translator[a.out])
         IN  [j \in DOMAIN bs |-> Update(n, bs[j].out, pos, bs[j].to, a.to, bs[j].w + a.w)]

\* The nodes an arc of the mutator leads to: it writes nothing, or what the
\* lexicon reads.
Through(n, a, pos) ==
    IF a.out = 0 THEN <<Update(n, 0, pos, a.to, n.l, a.w)>>
    ELSE LET bs == LexiconArcs(n, alphabet_translator[a.out])
         IN  [j \in DOMAIN bs |-> Update(n, bs[j].out, pos, a.to, bs[j].to, bs[j].w + a.w)]

\* InputString::initialize: letters without a number become other, if there is
\* such a symbol; what cannot be numbered ends it.
Numbered(letter, key, other) ==
    IF letter \in DOMAIN key THEN key[letter]
    ELSE IF letter \in Valid THEN other ELSE NO_SYMBOL
Unreadable(w, key, other) ==
    {i \in DOMAIN w : Numbered(w[i], key, other) = NO_SYMBOL}
Tokens(w, key, other) ==
    [i \in 1 .. Min({Len(w) + 1} \cup Unreadable(w, key, other)) - 1 |->
        Numbered(w[i], key, other)]

-----------------------------------------------------------------------------
Init ==
    /\ lexicon \in Graphs /\ mutator \in Mutators
    /\ input = << >> /\ queue = << >> /\ corrections = << >> /\ step = "idle"
    /\ task = "none" /\ word = << >> /\ answer = FALSE /\ calls = 0

Ask(what, key, other) ==
    /\ step = "idle" /\ calls < MaxCalls /\ calls' = calls + 1
    /\ task' = what /\ word' \in Words
    /\ input' = Tokens(word', key, other)
    /\ corrections' = << >> /\ answer' = FALSE
    /\ IF Unreadable(word', key, other) # {}
       THEN step' = "idle" /\ UNCHANGED queue
       ELSE queue' = <<StartNode>> /\ step' = "front"
    /\ UNCHANGED graphs

Check == Ask("check", LexiconKey, NO_SYMBOL)
Correct == Ask("correct", MutatorKey, MUTATOR_UNKNOWN)

\* Mutant: input may be left.
AcceptsAnywhere(n) == n.l \in DOMAIN lexicon.final

Accepts(n) == AtEnd(n) /\ n.l \in DOMAIN lexicon.final

\* check returns at the first node where lexicon and input are at their ends,
\* and leaves the queue as it is.
Accept ==
    /\ step = "front" /\ queue # << >> /\ task = "check"
    /\ Accepts(front)
    /\ answer' = TRUE /\ step' = "idle"
    /\ UNCHANGED <<request, input, queue, corrections>>

LexiconEpsilons ==
    /\ step = "front" /\ queue # << >>
    /\ task = "check" => ~Accepts(front)
    /\ LET arcs == ZeroArcs(lexicon, front.l)
       IN  queue' = queue \o FlattenSeq([i \in DOMAIN arcs |-> Passed(front, arcs[i])])
    /\ step' = IF task = "check" THEN "lexicon_consume" ELSE "mutator_epsilons"
    /\ UNCHANGED <<request, input, corrections, answer>>

\* Mutant: the node stays.
PoppedNot == queue

Popped == Tail(queue)

\* lexicon_consume, and the node is dropped.
LexiconConsume ==
    /\ step = "lexicon_consume"
    /\ IF AtEnd(front) THEN queue' = Popped
       ELSE LET bs == LexiconArcs(front, input[front.pos + 1])
            IN  queue' = Popped \o
                  [j \in DOMAIN bs |->
                     Update(front, bs[j].out, front.pos + 1, front.m, bs[j].to, bs[j].w)]
    /\ step' = "front"
    /\ UNCHANGED <<request, input, corrections, answer>>

MutatorEpsilons ==
    /\ step = "mutator_epsilons"
    /\ LET arcs == MutatorArcs(front, 0)
       IN  queue' = queue \o
             FlattenSeq([i \in DOMAIN arcs |-> Through(front, arcs[i], front.pos)])
    /\ step' = "last"
    /\ UNCHANGED <<request, input, corrections, answer>>

\* A string without some of the symbols.
Without(string, X) ==
    FlattenSeq([i \in DOMAIN string |-> IF string[i] \in X THEN << >> ELSE <<string[i]>>])

\* stringify: the names of the symbols one after the other.
Stringify(string) == Without(string, Silent)

Put(found, string, w) ==
    [s \in DOMAIN found \cup {string} |-> IF s = string THEN w ELSE found[s]]

\* The corrections with one more: a string is entered when it is new or better.
Recorded(found, string, w) ==
    IF string \in DOMAIN found /\ found[string] <= w THEN found
    ELSE Put(found, string, w)

TotalWeight(n) == n.weight + lexicon.final[n.l] + mutator.final[n.m]

\* At the end of the input a node may be a correction; then it is dropped.
NoteCorrection ==
    /\ step = "last" /\ AtEnd(front)
    /\ corrections' =
         IF front.m \in DOMAIN mutator.final /\ front.l \in DOMAIN lexicon.final
         THEN Recorded(corrections, Stringify(front.string), TotalWeight(front))
         ELSE corrections
    /\ queue' = Popped /\ step' = "front"
    /\ UNCHANGED <<request, input, answer>>

\* consume_input, and the node is dropped.
ConsumeInput ==
    /\ step = "last" /\ ~AtEnd(front)
    /\ LET arcs == MutatorArcs(front, input[front.pos + 1])
       IN  queue' = Popped \o
             FlattenSeq([i \in DOMAIN arcs |-> Through(front, arcs[i], front.pos + 1)])
    /\ step' = "front"
    /\ UNCHANGED <<request, input, corrections, answer>>

\* The queue is empty: correct returns its corrections, check returns false.
Return ==
    /\ step = "front" /\ queue = << >>
    /\ step' = "idle"
    /\ UNCHANGED <<request, input, queue, corrections, answer>>

Step ==
    \/ Accept \/ LexiconEpsilons \/ LexiconConsume \/ MutatorEpsilons
    \/ NoteCorrection \/ ConsumeInput \/ Return
Next == Check \/ Correct \/ Step

\* A call that was started runs; nobody has to start one.
Spec == Init /\ [][Next]_vars
FairSpec == Spec /\ WF_vars(Step)

-----------------------------------------------------------------------------
(* Properties *)

TypeOK ==
    /\ Range(input) \subseteq Nat /\ answer \in BOOLEAN
    /\ step \in {"idle", "front", "lexicon_consume", "mutator_epsilons", "last"}
    /\ step \in {"lexicon_consume", "mutator_epsilons", "last"} => queue # << >>
    /\ \A n \in Range(queue) :
         /\ step # "idle" => n.pos \in 0 .. Len(input)
         /\ n.weight \in Nat
         /\ n.m \in 0 .. mutator.n - 1 /\ n.l \in 0 .. lexicon.n - 1
         /\ Range(n.string) \subseteq 0 .. ORIG_SYMBOL_COUNT - 1
         /\ n.values \in [Features -> Int]
    /\ \A s \in DOMAIN corrections : corrections[s] \in Nat

(* The reference: what paths of the two graphs give, one after the other.  No *)
(* loop may read nothing, or there is no bound on the length of paths.        *)

\* A reader of a graph is in a state, with flag values, and has a rest to read.
\* The arcs it can take next, ops being the operations of the flags:
Open(gr, ops, c) ==
    {a \in Range(gr.arcs[c.s]) :
       \/ a.in = 0
       \/ a.in \in DOMAIN ops /\ Allows(ops[a.in], c.values)
       \/ c.rest # << >> /\ a.in = Head(c.rest)}

\* ... and the reader behind one of them.
Behind(ops, c, a) ==
    [s |-> a.to,
     values |-> IF a.in \in DOMAIN ops THEN Applied(ops[a.in], c.values) ELSE c.values,
     rest |-> IF a.in = 0 \/ a.in \in DOMAIN ops THEN c.rest ELSE Tail(c.rest)]

Readers(gr) == [s : 0 .. gr.n - 1, values : [Features -> Int], rest : Seq(Nat)]

\* What the reader writes, and its weight, if it stops where it is.
Ended(gr, c) ==
    IF c.rest = << >> /\ c.s \in DOMAIN gr.final THEN {<< << >>, gr.final[c.s]>>} ELSE {}

\* Each of S behind an arc that writes out.
After(out, w, S) == {<<out \o e[1], w + e[2]>> : e \in S}

\* A path of gr that reads x has no more arcs than this.
Longest(gr, x) == Len(x) + (Len(x) + 1) * (gr.n - 1)

\* What the paths of gr that read the rest of c to its end write, with their
\* weights; the symbol x is written as letters[x].
Readings(gr, ops, letters, c) ==
    LET readings[k \in Nat] ==
            [d \in Readers(gr) |->
               Ended(gr, d) \cup
                 IF k = 0 THEN {}
                 ELSE UNION {After(letters[a.out], a.w, readings[k - 1][Behind(ops, d, a)]) :
                               a \in Open(gr, ops, d)}]
    IN  readings[Longest(gr, c.rest)][c]

\* What mutator paths write that read x from state s to the end.
Rewritten == [x \in DOMAIN alphabet_translator |->
                IF x = 0 THEN << >> ELSE <<alphabet_translator[x]>>]
Rewritings(s, x) ==
    Readings(mutator, << >>, Rewritten, [s |-> s, values |-> Neutral, rest |-> x])

\* What lexicon paths write that read x from state s with these flag values.
Written == [x \in 0 .. ORIG_SYMBOL_COUNT - 1 |-> IF x \in Zero THEN << >> ELSE <<x>>]
Entries(s, values, x) ==
    Readings(lexicon, FlagOp, Written, [s |-> s, values |-> values, rest |-> x])

\* The string one sees: epsilons and flags are not part of it.
Surface(string) == Without(string, Zero)

\* The corrections node n can still lead to.
Ahead(n) ==
    UNION {{<<Surface(n.string) \o e[1], n.weight + r[2] + e[2]>> :
              e \in Entries(n.l, n.values, r[1])} :
           r \in Rewritings(n.m, SubSeq(input, n.pos + 1, Len(input)))}

\* The best of each string.
Best(S) == {p \in S : \A q \in S : q[1] = p[1] => p[2] <= q[2]}

\* Whenever the loop of correct is at its head, what was noted and what the nodes
\* of the queue can still lead to are together all corrections of the word, each
\* with its best weight; with the queue empty, what was noted is.  An arc skipped,
\* taken twice with its weight, or taken with another node's flags or position
\* breaks this however late it would show.
NothingLost ==
    step = "front" /\ task = "correct" =>
      Best({<<Surface(s), corrections[s]>> : s \in DOMAIN corrections}
             \cup UNION {Ahead(queue[i]) : i \in DOMAIN queue}) = Best(Ahead(StartNode))

\* check answers whether the lexicon has the word, wherever the search found it
\* and whatever an earlier call left in the queue.
CheckRight ==
    step = "idle" /\ task = "check" =>
      answer = (/\ Unreadable(word, LexiconKey, NO_SYMBOL) = {}
                /\ Entries(0, Neutral, input) # {})

\* No loop of gr reads nothing: arcs that read nothing lead down.
NoEmptyLoop(gr, zero) ==
    \E h \in [0 .. gr.n - 1 -> 0 .. gr.n - 1] :
      \A s \in 0 .. gr.n - 1 : \A a \in Range(gr.arcs[s]) :
        a.in \in zero => h[a.to] < h[s]

\* The graphs the reference is meant for, with words that hold letters only.
Bounded ==
    /\ \A gr \in Graphs : NoEmptyLoop(gr, Zero)
    /\ \A m \in Mutators : NoEmptyLoop(m, {0})
    /\ Range(LexiconKey) \cap Flags = {}

\* Without loops that read nothing, every call returns.
Answers == step # "idle" ~> step = "idle"
==============================================================================
