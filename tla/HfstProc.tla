------------------------------- MODULE HfstProc -------------------------------
(***************************************************************************)
(* hfst-proc analysing a stream: AnalysisApplicator::apply,                *)
(*   tools/src/hfst-proc/applicators.cc.                                   *)
(*                                                                         *)
(* The stream is cut into words by the transducer: tokens are read as long *)
(* as some path survives, analyses are noted where a word may end, and when*)
(* the last path is gone the token stream is moved back to the end of the  *)
(* longest word found.  How far is counted in tokens; the token buffer is  *)
(* circular.                                                               *)
(***************************************************************************)
EXTENDS TokenStream, LookupState

CONSTANTS
    Requests(_)         \* the calls a graph is tried on: the stream, whether case is
                        \* sensitive, and whether the formatter passes tokens on that
                        \* are in no word (preserve_nonalphabetic)

VARIABLES
    graph, config,
    pc,
    paths,              \* LookupState
    surface_form, analyzed_forms, last_stream_location, next_token,
    next_token_is_part_of_word,
    output              \* what has been written, as a sequence of events

search == <<paths, surface_form, analyzed_forms, last_stream_location>>
vars == <<stream, graph, config, pc, search, next_token, next_token_is_part_of_word, output>>

-----------------------------------------------------------------------------
\* What is written: a token as it is, a word with analyses or without, or the
\* NUL of a flush.
Event(kind, tokens, analyses) == [kind |-> kind, tokens |-> tokens, analyses |-> analyses]
Copy(t) == IF config.preserve THEN <<Event("copy", <<t>>, {})>> ELSE << >>
Flushes(n) == [i \in 1 .. n |-> Event("flush", << >>, {})]

Init ==
    /\ graph \in Graphs
    /\ \E q \in Requests(graph) :
         text = q.text /\ config = [sensitive |-> q.sensitive, preserve |-> q.preserve]
    /\ StreamInit
    /\ pc = "read" /\ paths = InitialPaths(graph)
    /\ surface_form = << >> /\ analyzed_forms = {} /\ last_stream_location = 0
    /\ next_token = None /\ next_token_is_part_of_word = FALSE
    /\ output = << >>

\* The head of the loop.  A reserved character ends the program, as does an
\* unclosed superblank.
Read ==
    /\ pc = "read"
    /\ \E r \in {Fetched} :
         /\ GetTokenAndBack(r, 0)
         /\ next_token' = r.token
         /\ output' = output \o Flushes(r.flushes)
         /\ pc' = CASE r.error \/ r.token.type = "Reserved" -> "failed"
                    [] ~r.error /\ r.token.type = "None" -> "finish"
                    [] OTHER -> "step"
    /\ UNCHANGED <<graph, config, search, next_token_is_part_of_word>>

\* Whether the token at a buffer position is alphabetic; the one before the
\* array (get_pos() - 2 after a wrap) is memory that belongs to nobody.
AlphabeticAt(p) == IF p < 0 THEN BOOLEAN ELSE {is_alphabetic(buf[p])}

\* Not between two alphabetic tokens.
MayEndWord(before) ==
    /\ surface_form # << >> /\ IsFinal(graph, paths)
    /\ ~before \/ ~is_alphabetic(buf[currentpos - 1])

\* Mutant: the location is that of the last token of the word.
LocationOfEnd == currentpos - 2

Location == currentpos - 1

\* Note the analyses of a word that ends here, then step.
Step ==
    /\ pc = "step"
    /\ \E before \in AlphabeticAt(currentpos - 2), F \in FinalsSets(graph, paths) :
         IF MayEndWord(before)
         THEN analyzed_forms' = Kept(F) /\ last_stream_location' = Location
         ELSE UNCHANGED <<analyzed_forms, last_stream_location>>
    /\ paths' = Stepped(graph, paths, to_symbol(next_token), config.sensitive)
    /\ IF paths' # {}
       THEN surface_form' = Append(surface_form, next_token) /\ pc' = "read"
       ELSE pc' = "emit" /\ UNCHANGED surface_form
    /\ UNCHANGED <<stream, graph, config, next_token, next_token_is_part_of_word, output>>

\* state.reset() and the clearing of the forms; last_stream_location is kept.
Restart ==
    /\ paths' = InitialPaths(graph) /\ surface_form' = << >> /\ analyzed_forms' = {}
    /\ pc' = "read"
    /\ UNCHANGED <<graph, config, last_stream_location, next_token>>

LeavesBlank == surface_form = << >> /\ ~is_alphabetic(next_token)

\* No analysis, or only one that would split a sequence of letters.
NoWord ==
    \/ analyzed_forms = {}
    \/ /\ analyzed_forms # {}
       /\ is_alphabetic(buf[last_stream_location])
       /\ is_alphabetic(Last(surface_form))

CopyToken ==
    /\ pc = "emit" /\ LeavesBlank
    /\ output' = output \o Copy(next_token)
    /\ Restart /\ UNCHANGED <<stream, next_token_is_part_of_word>>

\* An unknown word runs on to the next token that is not alphabetic.
UnknownWord ==
    /\ pc = "emit" /\ ~LeavesBlank /\ NoWord
    /\ next_token_is_part_of_word' = is_alphabetic(next_token)
    /\ IF is_alphabetic(next_token)
       THEN surface_form' = Append(surface_form, next_token) /\ pc' = "rest"
       ELSE pc' = "unknown" /\ UNCHANGED surface_form
    /\ UNCHANGED <<stream, graph, config, paths, analyzed_forms, last_stream_location,
                   next_token, output>>

\* The do-while loop, which has overstepped the word by one token in the end.
Overstep(t) == IF is_alphabetic(t) THEN 0 ELSE 1

TakeRest ==
    /\ pc = "rest"
    /\ \E r \in {Fetched} :
         /\ GetTokenAndBack(r, Overstep(r.token))
         /\ next_token' = r.token
         /\ output' = output \o Flushes(r.flushes)
         /\ IF is_alphabetic(r.token)
            THEN surface_form' = Append(surface_form, r.token) /\ pc' = "rest"
            ELSE /\ pc' = IF r.error THEN "failed" ELSE "unknown"
                 /\ UNCHANGED surface_form
    /\ UNCHANGED <<graph, config, paths, analyzed_forms, last_stream_location,
                   next_token_is_part_of_word>>

\* Mutant: the first token is given back with the others.
GivenBackAll == Len(surface_form)

GivenBack == Len(surface_form) - 1

\* A word cannot begin with what is not alphabetic: that token is passed on and
\* the rest is given back.
GiveBack ==
    /\ pc = "unknown" /\ ~is_alphabetic(surface_form[1])
    /\ output' = output \o Copy(surface_form[1])
    /\ MoveBack(GivenBack)
    /\ Restart /\ UNCHANGED next_token_is_part_of_word

PrintUnknownWord ==
    /\ pc = "unknown" /\ is_alphabetic(surface_form[1])
    /\ output' = Append(output, Event("unknown", surface_form, {}))
    /\ MoveBack(IF next_token_is_part_of_word THEN 0 ELSE 1)
    /\ Restart /\ UNCHANGED next_token_is_part_of_word

\* Mutant: only the tokens after the word are given back, not the one just read.
RevertedShort == DiffPrev(last_stream_location + 1)

\* revert_count and the token just read.
Reverted == DiffPrev(last_stream_location + 1) + 1

PrintWord ==
    /\ pc = "emit" /\ ~LeavesBlank /\ ~NoWord
    /\ LET word == SubSeq(surface_form, 1,
                          Len(surface_form) - DiffPrev(last_stream_location + 1))
       IN  output' = Append(output, Event("word", word, analyzed_forms))
    /\ MoveBack(Reverted)
    /\ Restart /\ UNCHANGED next_token_is_part_of_word

\* At the end of the stream, analyses still waiting for a longer word.
Finish ==
    /\ pc = "finish" /\ pc' = "done"
    /\ output' = IF analyzed_forms = {} THEN output
                 ELSE Append(output, Event("word", surface_form, analyzed_forms))
    /\ UNCHANGED <<stream, graph, config, search, next_token, next_token_is_part_of_word>>

Next ==
    \/ Read \/ Step \/ CopyToken \/ UnknownWord \/ TakeRest \/ GiveBack
    \/ PrintUnknownWord \/ PrintWord \/ Finish

Spec == Init /\ [][Next]_vars /\ WF_vars(Next)

-----------------------------------------------------------------------------
\* What has been taken from the token stream and not yet written, and what can
\* still be taken.
Buffered ==
    LET n == IF currentpos <= lastpos THEN lastpos - currentpos
             ELSE lastpos + BufferSize - currentpos
    IN  [i \in 1 .. n |-> buf[(currentpos + i - 1) % BufferSize]]
Unread ==
    LET from[p \in 0 .. Len(text)] ==
          LET r == ReadToken(p)
          IN  IF r.error \/ r.token.type = "None" THEN << >>
              ELSE <<r.token>> \o from[r.pos]
    IN  from[pos]
InHand ==
    IF \/ pc \in {"step", "emit"} \/ (pc = "failed" /\ next_token.type = "Reserved")
       \/ pc = "unknown" /\ ~next_token_is_part_of_word
    THEN Append(surface_form, next_token) ELSE surface_form
Rest == InHand \o Buffered \o Unread

Printed == SelectSeq(output, LAMBDA e : e.kind # "flush")

\* Types, and that the buffer's positions stay inside it: what is given back has
\* been taken from it.
TokenOK(t) ==
    /\ t.type \in {"None", "Symbol", "Character", "Superblank", "Reserved"}
    /\ (t.symbol # NO_SYMBOL) <=> (t.type \in {"Symbol", "Superblank"})
    /\ t.symbol \in DOMAIN SymbolText \cup {NO_SYMBOL}
TypeOK ==
    /\ pos \in 0 .. Len(text)
    /\ currentpos \in 0 .. BufferSize /\ lastpos \in 0 .. BufferSize
    /\ last_stream_location \in 0 .. BufferSize - 1
    /\ \A t \in Range(buf) \cup Range(surface_form) \cup {next_token} : TokenOK(t)
    /\ \A p \in paths : p.state \in 0 .. graph.n - 1 /\ p.weight \in Nat
    /\ pc \in {"read", "step", "emit", "rest", "unknown", "finish", "done", "failed"}
    /\ pc \in {"step", "emit"} => next_token.type \notin {"None", "Reserved"}
    /\ pc = "unknown" => surface_form # << >>
    /\ \A e \in Range(output) : e.kind = "word" => e.analyses # {}

\* The lazy cutting with its circular buffer and its moves back and forth
\* prints, word by word, what the longest match over the whole stream gives:
\* nothing is lost, nothing comes twice, no word is shorter than it could be.
Words == INSTANCE HfstWords WITH
    rest <- Rest, printed <- Printed, Alphabetic <- is_alphabetic
Implements == Words!Spec

\* "we need to move the token stream back far enough that next_token will be
\* read again next iteration": every character read is in what was written or
\* is still to come.
NothingLost ==
    config.preserve /\ pc \in {"read", "done"} =>
      LET written == FlattenSeq([i \in DOMAIN Printed |->
                       FlattenSeq([j \in DOMAIN Printed[i].tokens |->
                                     Printed[i].tokens[j].text])])
          left == FlattenSeq([i \in DOMAIN Rest |-> Rest[i].text])
      IN  written \o left = text

\* Every stream is read to its end or to an error.
Finishes == <>(pc \in {"done", "failed"})
==============================================================================
