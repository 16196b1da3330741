# HFST in TLA+

A verification project for HFST, the Helsinki Finite-State Technology library
and tools: a bridging library over several transducer back-ends, its own
optimized-lookup format with lookup, spell-checking and pattern-matching
runtimes, and compilers for morphological grammars.

HFST is a sequential program: nothing in it runs concurrently, and nothing is
persisted that a crash could leave half-written and a restart would read. What
makes it hard is elsewhere: packed tables whose entries belong to interleaved
owners, depth-first searches that mutate one shared object and must undo every
change on every way out, caches and numberings filled lazily while a result is
being built, symbol numbers that different parts give different meanings, and
searches over cyclic data that end only because something counts. The modules
here are about those.

## 1. Inventory

Paths are relative to `src/`; `L` is `libhfst/src`, `OL` is
`libhfst/src/implementations/optimized-lookup`, `CI` is
`libhfst/src/implementations/compose_intersect`.

| Component | Code | State it keeps | Operations | Correct when | Here |
|---|---|---|---|---|---|
| Conversion to optimized-lookup tables | `L/implementations/ConvertOlTransducer.cc`, `OL/convert.*` | placeholders per state, used index positions, symbol numbers, two tables | `hfst_basic_transducer_to_hfst_ol` | the tables read back as the graph, whatever the packing | `OlConvert` |
| Conversion from the tables | `ConvertOlTransducer.cc` 33-136, `OL/transducer.cc` 842-911 | agenda of table indices, state numbers | `hfst_ol_to_hfst_basic_transducer` | the graph is the one converted; no read outside the tables | `OlRoundTrip` |
| Flag diacritics | `L/HfstFlagDiacritics.*` | a value per feature | `apply_operation`, `assign_values` | unification semantics of the six operators | `FlagDiacritics` |
| Lookup | `OL/transducer.cc` | input and output tapes, weight, flag state, visited set, depth left, result set | `lookup_fd`, `lookup_fd_pairs`, `get_analyses` | results are the analyses, no more; the object is as before afterwards | `OlGraph`, `OlLookup` |
| Loop search | `OL/find_epsilon_loops.cc` | the same object | `is_lookup_infinitely_ambiguous`, `find_loop` | yes exactly if a lookup can go round for ever | `OlFindLoop` |
| Composition with intersected rules | `CI/*`, `L/HfstTransducer.cc` 4602-4773 | state numberings, agenda, transition caches | `compose_intersect` | the product machine | `ComposeIntersect*` |
| Spell checker | `OL/ospell.cc` | queue of search nodes, table of corrections | `check`, `correct` | each correction once, with its best weight | `OlSpeller` |
| Pattern matching | `OL/pmatch.cc`, `pmatch_tokenize.cc` | tapes, RTN call stack, captures, best result | `match`, `locate` | leftmost-longest matches, contexts, nested networks return where called | `Pmatch*` |
| Symbol harmonization | `L/HarmonizeUnknownAndIdentitySymbols.cc`, `HfstTransducer::harmonize` | two alphabets | `harmonize_`, expansion of unknown and identity | same relation over the joint alphabet | `Harmonize` |
| Composition as the caller sees it | `L/HfstTransducer.cc` 3961-4158 | both operands, rewritten before and back after | `compose` with its three options | it relates what the operands relate, whatever each knows | `HfstCompose` |
| Graph | `L/implementations/HfstBasicTransducer.cc` | states, arcs, alphabet | add, remove, substitute, disjunct, ... | alphabet covers the arcs; each operation's relation | not modelled |
| Tokenizer | `L/HfstTokenizer.cc` | trie of multicharacter symbols | `tokenize`, `add_*` | longest match, skipped symbols | not modelled |
| Streams | `L/HfstInputStream.cc`, `HfstOutputStream.cc` | header state, type | read, write headers and transducers | what is written is read back | not modelled |
| Replace rules, two-level rules | `L/HfstXeroxRules.cc`, `HfstRules.cc` | none: expressions over back-end algebra | rule constructors | depends on the back-end algebra | not modelled |
| Script compilers | `L/parsers/XfstCompiler.cc`, `LexcCompiler.cc`, `xre_*`, `pmatch_utils.cc`, `Sfst*`, `rule_src`, `variable_src` | stack of networks, definitions, continuation classes | commands, sections | stack discipline, definitions in scope, no lost continuation | not modelled |
| hfst-proc | `tools/src/hfst-proc/*` | stream position, blanks, search states | tokenize, analyse, generate | every input byte comes out once; superblanks keep their order | `TokenStream`, `LookupState`, `HfstProc` |
| Tagger | `tools/src/hfst-tagger` | n-gram buffers, beam | tag a sentence | best sequence | not modelled |
| Command-line tools | `tools/src/*.cc` | options, streams | one per operation | thin shells over the library | not modelled |
| Back-ends | `back-ends/` (OpenFst, foma, SFST) | | | | third-party; the arcs of OpenFst's Compose in `HfstCompose` |
| Bindings, scripts, docs, tests | `python/`, `scripts/`, `doc/`, `man/`, `test/` | | | | not modelled |

How they interact: the compilers and tools build `HfstBasicTransducer` graphs or
back-end transducers through `HfstTransducer`; `HfstTransducer::convert` and the
output stream turn a graph into optimized-lookup tables; lookup, spell checking
and pattern matching only ever see the tables. `compose_intersect` is how
two-level grammars are applied to lexicons before that. All calls are direct and
synchronous.

## 2. What is hard here

The list, line by line, is `hazards` in PROJECT.json. In groups:

- *Shared tables.* First-fit packing interleaves the slots of different states;
  a reader tells its own slot from a foreign one only by the symbol in it. A
  slot given away twice, one entry of padding too few, or an order of writing
  that differs from the order the offsets were computed in, shows only in some
  graphs.
- *One object, many exits.* `get_analyses` leaves through a depth limit, a
  result limit, a clock, the end of input and the normal end, inside arbitrary
  nesting. Weight, flags, tape, visited set and depth must be restored on each,
  because nothing resets them for the next lookup.
- *Recursion that must end.* Epsilon cycles are cut by depth only; flag cycles
  by a set of visited pairs, which reading input clears for the callers too.
- *Lazy numbering.* `compose_intersect` numbers product states as it meets them,
  in two layers, with caches keyed by state and symbol.
- *A queue of half-done work.* The spell checker's nodes carry their own flags,
  position, states and weight; what is lost, doubled or mixed up in one of them
  shows only in some corrections of some words.
- *Going back in a stream.* hfst-proc cuts its input into the longest words by
  reading on until nothing fits and moving back; how far is counted in tokens
  of a circular buffer, from a position noted when a word could end.
- *Calls that share everything.* Pattern matching recurses through networks and
  contexts over one tape, one weight, one stack of entries and a stack of locals
  per network; every early return has to put back what it has changed.
- *Symbols that stand for what is not known.* "Any other symbol" depends on the
  alphabet. Every operation of two transducers first rewrites both, and what one
  of the rewriting steps forgets is then in the result.
- *Symbol numbers.* 16 bits, an all-ones value that means "none", zero that means
  epsilon and is also what a missing map key gives; letters added by a lookup's
  input have numbers beyond the alphabet.

## 3. Modules and the code

**OlConvert** — one action per step of `hfst_basic_transducer_to_hfst_ol`:
`CollectState`, `NumberSymbols`, `AddArc`/`NextState` (the two passes of
`get_states_and_symbols`), `SkipSimple`/`PlaceState` (first-fit packing, with the
search floor, its stall counter and its jump), `WriteIndex`, `WriteState`,
`Finish`. `ByWith`, `TypeWith`, `SymbolOffset`, `Fits`, `Unsuitable` are the
methods of `StatePlaceholder` and `IndexPlaceholders`, `StateArcs` is
`write_transitions_from_state_placeholders` for one state. The last part, `ReadArcs`, is how the
lookup code reads the tables. Weights are payload and left out. The final table
`START`, `NO_SYMBOL_NUMBER`, the packing aggression and the jump threshold are
constants.

**OlRoundTrip** — the conversion back, on the tables OlConvert has just written:
`StartBack`, `TakeState` (one address off the agenda, its arcs by
`get_transitions_from_state`, new states for targets not met before),
`FinishBack`. `get_transitions_from_state` looks up every symbol of the alphabet
in the index table; its padding is for input symbols only, so with several
symbols that are only written it reads behind the end, and `ReadPastEnd` ends the
conversion as undefined. Positions are a `std::set` and come in ascending order
(`InOrder`). The symbol table of a harmonizer is taken to have each string once
and epsilon first (`SymbolTablesAssumption`), as every table has that this code
writes. A string that it lacks is epsilon from then on (`KeptAs`), and `RoundTrip` says
that this is all that changes.

**FlagDiacritics** — `FdState::apply_operation`, split in whether it succeeds
(`Allows`) and what it leaves (`Applied`).

**OlGraph** — tables as their readers see them: the arcs of a state in table
order, which ones an input symbol selects, and which states go through the index
table. That the real tables give exactly these arcs is what OlConvert's
`ReadsExactly` says, so lookup modules need no table positions. `Run` is
the stretch of arcs that a reader walks over, from the first to the last with one
of the inputs asked for; the writer sorts them so that they stand together.

**OlLookup** — the recursion of `get_analyses` as an explicit stack of frames;
the members of the `Transducer` object are variables of their own, exactly
because the recursion shares them. Actions: `Lookup` (the entry points), `Refuse`
(the three early returns), `Enter` (depth, finality, `note_analysis`),
`TakeEpsilon`, `TakeFlag`, `SkipFlag` (`try_epsilon_transitions`), `ReadInput`,
`TakeSymbol` (`find_transitions`), `TryNext` (identity, unknown, default),
`Leave`. A frame's `Resume` is what the caller does after the recursive call.
Tokenization into symbol numbers is done by the `Encoder` and not modelled:
inputs are sequences of numbers. `@I.x@` insertions are not modelled. What a lookup
should return is defined beside it, without a stack: `Successors` is one arc further
along a path, `ReachedBy` what some number of arcs reach, `Analyses` the accepting
ends. `Past` is the one place where a configuration moves along an arc.

**OlFindLoop** — `find_loop` and its five helpers over the same graph; the C++
exception that reports a loop is `Trap`, which also resets the flags as the
catch does. `find_loop_index` reads the index table at the raw number of a new
letter, which may lie beyond the table; the model takes "no entry". It takes no
identity and unknown arcs for such a letter, which lookup does (end of section 4).

**OlSpeller** — `Speller::check` and `Speller::correct` over two graphs, the error
model (mutator) and the lexicon. `Check`, `Correct` start a call (`Tokens` is
`InputString::initialize`); `LexiconEpsilons`, `MutatorEpsilons`, `ConsumeInput`,
`LexiconConsume` expand the node at the front of the queue, one action per
function; `NoteCorrection` is the table of corrections, `Accept` and `Return` the
ways out. Strings are kept as the symbol numbers `stringify` writes the names of.
The translation between the two alphabets, made once by the constructor, is a
constant. Its precondition, and that of the constructor, is `SpellerAssumption`.
What a call should find is defined beside it, without a queue: `Readings` is what
the paths of one graph write that read a sequence to its end, and `Ahead` what the
error model writes of a node's input (`Rewritings`), read by the lexicon in turn
(`Entries`). `Bounded` says for which graphs their paths have a bound: no loop reads
nothing.

**ComposeIntersectProblem / ComposeIntersectProduct / ComposeIntersect** — the
input and its precondition; the abstract specification, which builds the product
of lexicon and intersected rules arc by arc in any order; and the code:
`ComputeState` takes a state from the agenda, `SkipSymbol`, `Compose` and `AddArc`
are the lexicon's loops, `ComputeTransitionSet` and the `Merge...` actions are
`ComposeIntersectRulePair`, `Finish` sets the finals and inverts the result as
`HfstTransducer::compose_intersect` does. One or two rules: from three on the code
nests pairs of the same class. Weights, word-boundary insertion and
harmonization are left out. In two cases the code differs from what it promises,
and the theorems about the product name them as a hypothesis, `AsPromised`: a
single rule composed inverted is not inverted back (`HfstTransducer.cc` 4692), and a
pair of rules never finds a flag among its symbols (`ComposeIntersectLexicon.cc` 147).
The end of section 4 says how to see them.

**TokenStream / LookupState / HfstProc / HfstWords** — hfst-proc analysing a stream.
TokenStream is the tokenizer: `MakeToken`, `ReadSuperblank`, `ReadToken` (escapes,
reserved characters, null flush) and the circular buffer (`GetTokenAndBack`,
`MoveBack`, `DiffPrev`). LookupState is the search with all paths side by side, and
the choice of the analyses to print (`Kept`). HfstProc is the loop of
`AnalysisApplicator::apply`, one action per place in it where the stream or the
output changes. HfstWords is what it promises: the longest match over a sequence
of tokens, without a buffer and without going back, with analyses found path by
path. Left out: generation, the case of what is printed, output formats, the
part of the buffer's capacity that only a word as long as the buffer reaches
(words here are shorter), streams that end inside a symbol of several
characters, which `extract_symbol` loses, and a backslash before a NUL, at which
`make_token` makes the stream fail.

**PmatchNetworks / PmatchMatches / Pmatch** — pattern matching. PmatchNetworks is
the archive: networks, contexts, and which arcs an input selects. PmatchMatches is
the promise: at each position the longest and then lightest match of TOP, where a
path carries its own calls, flags and entries. Pmatch is the code: a frame per call
of `get_analyses`, with what to undo when the call made from it returns
(`EntriesAfter`, `LocalsAfter`, `DepthAfter`); `CallRtn` and `RtnReturn`,
`EnterContext` and `ExitContext`, `TakeFlag`, `TakeTransition` with the trap for
defaults, `NoteAnalysis`. Preconditions of the archives, beside those in
`IsNetwork`: a left context needs an open entry; there are no two exits on one path,
no network with flags that calls itself, and no default arc in a state with silent
arcs. For the last three the code does otherwise than its comments say; the run
`pmatch_two_exits` and the end of section 4 show what. PmatchMatches leaves two things open: what is written
where the search was cut short, of which `TruncatedIsMatch` says more, and whether a
match of nothing is written, since no text says. `best_weight` is never reset between
inputs; the model keeps it as it is, and starts it at 0 or above every weight that
occurs, since the code does not initialize it. Captures, symbol lists, global flags and
the formats of `locate` are left out.

**Harmonize / HfstCompose** — composition as the caller sees it. A transducer is an
alphabet and a set of arcs; `Meaning` says which pairs of symbols an arc stands
for in its alphabet, and `Spelled` writes all arcs out so. Harmonize is
`HarmonizeUnknownAndIdentitySymbols` in its three steps: `harmonize_identity_symbols`,
`harmonize_unknown_symbols`, `add_symbols_to_alphabet`. HfstCompose is
`HfstTransducer::compose`: `SilenceFlags` (flags as epsilon), `EncodeFlags` (Xerox
composition, which refuses reserved symbols), `InsertSymbols`, `harmonize`,
`ComposeArcs`, `Revert`. Of the back-end's composition `Joined`, `FirstAlone` and
`SecondAlone` are the arcs that OpenFst makes (`back-ends/openfst`, `fst/compose.h`); its
filter of epsilon paths is left out, which removes paths that differ from others only
in the order of their arcs. The branches for
the foma and XFSM back-ends are left out, and so are duplicate arcs: where the
code may add an arc a second time, a set of arcs has it once, which for the
log-semiring is not the same. The assumptions on the symbols are named in the
module: `SymbolsApart`, what the names look like; `CodeIsInjective` and
`FlagsAreNotSpecial`, what `encode_flag` does to a name; `FlagsAreIdentities`, that a flag
that is to be epsilon stands on both sides of its arcs, as the comments in the code
say flags do; `LettersRemain`, that three letters remain
which neither transducer knows, letters being strings and alphabets finite.
`OptionsAreApart`, that no call wants flags as epsilon and as ordinary symbols at
once, is no assumption of the module but the hypothesis under which `Composes` holds.
That alphabets list the unknown symbols in use is part of being a transducer here. `FlagDiacriticsAreNotIdentitiesException` is declared and never thrown.

## 4. Runs

Deadlock checking is off in every run: each specification describes a call, or a
bounded number of calls, and stops after it. Fairness is weak fairness of the
next step of a running call: the code is a loop on one thread, so a step that
can be taken is taken. No fairness is put on starting a call.

**`ol_convert`** packs three families of graphs: every graph of three states with
up to two arcs each over epsilon, two letters and a flag, alone and with an
imposed symbol table; two states sharing letters, with alphabets of five to nine
symbols where numbers end at 7 (`NO_SYMBOL_NUMBER`), and reads near the end of the
tables; and eight states in shapes that interlock, on which the search stalls and
jumps. Slots are owned once and not overwritten, addresses are distinct, the
reader's arcs are the graph's, and what comes back from the tables is the graph
again, with its arcs as often and its final states. `START` is 70, which no index
table here reaches; letters go to 8, so that slots overlap. The imposed table lacks
some letters of the second and third family, whose numbers are then 0: they come back
as epsilon, and all else as it was.

**`ol_lookup`** asks twice of one object. Three-state graphs have every arc kind
(epsilon, flags P, N, U, C, letter, identity, unknown, default) and get inputs
with known and new letters; two-state graphs have epsilon cycles and are asked
with limits −1, 0, 1, 2 and a clock that may run out at any call. Results are
exactly the accepting paths with their weights unless the lookup was cut, nothing
false is returned, and the second lookup is not affected by the first. The
recursion depth is 5: more than the acyclic graphs need, so that it cuts the
cyclic ones only; the reference counts paths up to the same depth.

**`ol_find_loop`** asks the loop search twice, of two-state graphs with epsilon loops
behind reading arcs, and of three-state graphs with flag arcs and an empty input.
Both answers are right (a yes where there are no flags), it ends, loops are
trapped and flags restored. `MaxStack` cuts the recursion at 12 frames; where the
search is correct it never gets there, as `Answered` would fail otherwise.

**`ol_speller`** has error models that copy letters and make one error out of up to two
kinds (insertion, deletion, replacement, a silent move, an unknown letter), over
lexicons with epsilons, flags and loops that read; two calls of `check` or
`correct`, with an unknown letter, a letter pair and an invalid byte. `NothingLost`
is the invariant of `correct`'s loop: what is noted and what the queued nodes can
still lead to are together all corrections, each with its best weight. It is
compared with a reference that composes paths of the error model with paths of the
lexicon, in no particular interleaving. No loop of an instance reads nothing: on
such loops the queue grows for ever, nothing in the code prevents it and nothing in
its texts promises otherwise, so that `Answers` is about the others.

**`compose`** has cyclic lexicons with epsilon on either side, a flag and a letter the
rules lack, against rules that rewrite, insert, delete and use identity; two rules
in both directions, one rule forwards: numbering, agenda and caches, and refinement
of the product.

**`hfst_proc`** reads streams of up to four pieces (letters, hyphens, blanks, upper-case
letters, a symbol of three characters, escapes, superblanks, NULs in all positions)
against a lexicon with words that contain blanks and hyphens and one with a flag
and a prefix. The buffer has five places, so that it wraps in nearly every stream;
a word with what is read beyond it still fits, as it must. `Implements` is the
refinement of HfstWords.

**`pmatch`** has one archive for contexts on either side, one for negative contexts
that call networks and set flags, one for nested and recursive calls, and one that
matches nothing in loops; inputs of up to three symbols, weight limits, first-symbol
sets and a search that may be cut at any call. The recursion depth of 12 is more
than the archives need except in the loop, which it ends. `CallsUndone` compares
what all calls share at each return with what it was at the call;
`ImplementsMatches` is the refinement of PmatchMatches.

**`hfst_compose`** composes pairs of two-state transducers: single arcs of every kind
over alphabets that know more or less, and all kinds at once, under each option.
`MeaningKept` says that harmonization changes what neither transducer means;
`Composes` that the result relates what the given ones relate by way of a common
symbol. It allows for one loss the representation cannot avoid: composing `[?:a]`
with `[a:?]` gives `[?:?]`, which leaves out pairs of one and the same unknown
symbol. Three letters that neither knows are enough: an arc has two symbols, and
the composition of two has three. The two options for flags are not set together
(end of this section). No step is asked to be fair: `compose` is straight-line.

Runs that expect a violation state what the repository says of the program and
the code does otherwise; see `findings` in PROJECT.json:

- `ol_lookup_backed_out`: a flag arc is recorded with the values from before its
  operation; backing out can drop an analysis that was never visited.
- `ol_find_loop_escaped`: clearing the records when a symbol is read lets the loop search
  recurse without end; it has no depth limit.
- `hfst_proc_lost`: when a word that begins with a token that is not alphabetic is
  not finished, the token just read may be neither printed nor given back.
- `pmatch_two_exits`: `PositionStack` keeps one popped entry only; a second exit
  on the path overwrites it.

In some more cases the code does otherwise than it says, and the passing runs leave
them out so that they can hold for the rest. The MC modules define an instance of each,
under which the property named fails in a few steps:

| The code | Run | Its constants instead | What fails |
|---|---|---|---|
| With one rule and `invert` set, `compose_intersect` does not invert its result back (`HfstTransducer.cc` 4692; `HfstTransducer.h` 1337) | `compose` | `Problems <- MCInverted` | `ComposedAsAsked` |
| A pair of rules never fills the set that says which flags it knows; a flag that both know passes them by (`ComposeIntersectLexicon.cc` 147) | `compose` | `Problems <- MCKnownFlag` | `Implements`, `ComposedAsAsked` |
| The loop search looks for letters outside the alphabet under their own numbers, where lookup takes identity or unknown (`find_epsilon_loops.cc` 158) | `ol_find_loop` | `Graphs <- MCEpsilons`, `Inputs <- MCUnknownLetter`, one call | `AnswerIsRight` |
| An unknown word at the end of a stream without a newline gives back a token too many, and its last letter comes out again (`applicators.cc` 160) | `hfst_proc_lost` | `Graphs <- MCOnlyWords`, `Requests <- MCUnended` | `NothingLost` |
| `default_symbol_trap` is shared by nested calls: what a silent arc leads to decides whether the default arc beside it is tried (`pmatch.cc` 1762, 1794; `NEWS` 57) | `pmatch` | `Archives <- MCDefault` | `ImplementsMatches` |
| After a call of itself a network goes on with the callee's flags (`pmatch.cc` 1490; `pmatch.h` 350) | `pmatch` | `Archives <- MCSelfCall` | `ImplementsMatches` |
| A negative context that runs out of depth counts as not matching, and a match is written that the networks do not define, where the text says "truncating result" (`pmatch.cc` 1790) | `pmatch` | `Archives <- MCOneNegative`, `Requests <- MCBeforeB`, `max_recursion = 4` (with 12 it holds) | `TruncatedIsMatch`, to be asked as a property |
| With flags silenced and matched by unknown symbols at once, a flag by which an unknown was expanded is taken for one that was silenced, and put on both sides (`HfstTransducer.cc` 4147; `HfstTransducer.h` 143, 147). hfst-xfst has the one option on by default and offers the other | `hfst_compose` | `Calls <- MCBothOptions` | `Composes` |

Of two other cases no text says what is right: of two hfst-proc paths with one output the one with
the lower address is kept (`lookup-state.cc` 143);
`compose` may throw with the first transducer's flags already encoded
(`HfstTransducer.cc` 4011).

## 5. Proofs

`OlConvertProofs` proves, for every set of graphs, every symbol table and every
packing parameter:

- `TypeCorrect`: `Spec => []TypeOK`;
- `OwnershipHolds`: `Spec => []SlotOwnership`;
- `NoOverwriteHolds`: `Spec => NoOverwrite`;
- `AddressesAreDistinct`: `Spec => []AddressesDistinct`.

`TypeOK` is inductive. `SlotOwnership` is inductive relative to it: nothing is
placed before the packing phase (`NothingPlaced`); every action but `PlaceState`
leaves placeholders and used positions alone (`OwnershipFrame`); and `PlaceState`
adds exactly the start and the slots of one state at a position where `Fits`
found them free (`PlaceStateEffect`, `PlaceStateOwnership`). The strengthening
needed over the obvious statement is its second half, that every used position
is owned by the state recorded in it: without it, freedom of a position would
not give freedom from all placed states. `NoOverwrite` follows from the same
effect lemma. `AddressesDistinct` needs both tables: `AddressInv` adds that the places
given out in the transition table increase with the states, that state 0 is
never simple, and that starts lie below `START`. Without the second, a simple
state whose place is 0 would have the address `START - 1` of the index table;
without ownership two states could have one start. The proofs use the
assumptions `TransducersAssumption`, `HarmonizersAssumption` and `NumbersAssumption`
of OlConvert and nothing else.

It proves too, from the same assumptions, that the tables can be read back:

- `ReadsExactlyHolds`: `Spec => []ReadsExactly`;
- `ReadsInBoundsHolds`: `Spec => []ReadsInBounds`.

Both speak of finished tables only, and both are needed by every lookup. Their
strengthening `ReadInv` follows an arc through the conversion: numbers stay below
that of the markers, and those of inputs below the count of inputs (`NumbersFit`:
inputs are numbered first); each placeholder has the arcs that the second pass has
taken, by input and in their order, and a type that agrees with them (`Gathered`); the
parts of the states follow each other in the transition table (`Follows`), and each
holds the finality marker before it and the arcs of its state, those read with epsilon
first (`Layout`); the index table is what the packing says (`Indexed`). A reader of
finished tables then finds the arcs in two steps. In the transition table, `PartHolds`
says that each part is followed by an entry with no symbol, so that a run of arcs with
one input ends where it should (`ZeroReads`, `BlockReads`). In the index table, a slot
is recognized by its input alone; `HasIndexIs` shows from `SlotOwnership` that an entry
with the right input at the right distance from a start is that state's own, so that
overlapping states are never taken for one another. `ReadsExactly` compares with a fold
over the graph's arcs: `FlattenSeq` is unfolded by one element at a time
(`FlattenLast`), and what holds for all lengths is shown with a least counterexample
(`LeastElement`) in place of induction. Both are in `FlattenProofs`, for the other
modules to use.

Last, it proves that the graph comes back from its tables:

- `RoundTripHolds`: `SpecRoundTrip => []RoundTrip`.

The reader knows nothing of states but their addresses, and nothing of strings but
their numbers, so the theorem needs what the lookup did not: that strings have
numbers of their own (`NamesApart`; for an imposed table this is
`SymbolTablesAssumption`; those it lacks have that of epsilon, `StringBack`), and that the first state is placed first, at address 0,
where the reader begins (`ZeroFirst`). Under `NamesApart` the positions that
`get_transitions_from_state` collects are exactly the state's part of the transition
table (`StateRange`): every symbol is looked up, each slot met on the way is known as
one's own or another's as before (`SlotIs`), and the arcs with flags, which have no slots,
follow the epsilon arcs. The marker before that part says whether the state is final
(`FinalIs`; this is why `NumbersAssumption` has `START` above 1: otherwise the mark of a state that
is not final would be that of a final one). The part has the arcs sorted by input, and the
graph in the order they were added, so they are compared by how often each occurs: every
arc has a spot of its own in the part (`SpotIs`, `SpotsApart`), which as a map from
a finite set to itself is onto (`ArcsBack`).

The invariant `BackInv` says, while the tables are read, that addresses with a number are
those of states, numbered from 0 without a gap; that the agenda holds some of them,
each once; that the others have been read, with targets that all have numbers; and that
the states marked final are the final ones among those numbered. `TakenState` is
its step: one state is taken off the agenda, and the targets first met there get the
numbers that follow (`MoreExtends`), which leaves the arcs read before as they are
(`StillRead`). When the agenda is empty this is `RoundTrip` (`BackIsThere`). The
theorem is about conversions that end: that a reader sent behind the end of the
index table stops there as undefined is part of the model (`ReadPastEnd`).

`OlGraphProofs` holds what the proofs on the lookup, the loop search and the spell
checker rest on:
which arcs the runs that `ZeroArcs` and `ArcsFor` give consist of (`ArcsHold`, `ArcsForHold`),
that flag operations leave flag values (`AppliedStays`), and what calls and returns do to
a stack.

`OlLookupProofs` proves, for every set of transducers, every request and every
recursion depth:

- `ObjectIsRestored`: `Spec => []Restored` (with no call active, `current_weight`,
  `flag_state` and `recursion_depth_left` are those of a new object);
- `VisitedHolds`: `Spec => []VisitedIsActive`;
- `LimitHolds`: `Spec => []LimitRespected`.

`Restored` says nothing while a search runs, so its strengthening `LookupInv` follows
the stack frame by frame: only the innermost call may not have entered, each that has
uses one level of depth (`Levels`); what a caller saved, changed by its own arc, is
what its callee began with (`WeightsChained`, `ValuesChained`); a callee begins at the
input position its caller is at, and no caller further out is past it
(`PositionsAscend`). The last is what `VisitedIsActive` rests on: a call in
`find_transitions` restores nothing in `traversal_states` when its callee returns, and
need not, since an entry left then would have been made at a position behind the
callee's. There is one lemma for each way the stack can change (`TopMoves`,
`CallPushes`, `CallReturns`, `LastReturns`) and one per action. `LimitHolds` has an invariant of its own,
`LimitInv`: the results are finite, and a call enters only below the limit and adds at
most one.

It proves too that a lookup returns only what it should:

- `TypeCorrect`: `Spec => []TypeOK`;
- `SoundHolds`: `Spec => []Sound`;
- `ObjectHolds`: `Spec => []ObjectMatchesPath` (weight, flags, tape and depth at any
  moment are those of the path of arcs the active calls are inside of).

`LookupInv` relates each frame to the one below it, and `Sound` speaks of whole paths.
`Config(j)` is the configuration, in the reference's sense, that the calls up to the
`j`th are inside of; `SearchInv` says that it is a reached one (`CallsReached`), that
the output tape holds its path (`TapeWritten`), and where in the input and in the
table each frame stands (`CallsPlaced`, `UnfoundTries`). Weights and flag values of
configurations then follow from `LookupInv`, by `WeightAfterIs` and `ValuesAfterIs`,
which unfold the two folds one arc. `ArcInHolds` is the step that takes an arc of the
table to one that the reference allows; it needs that what the symbol index selects
is what `find_transitions` would walk to (`MatchesAreTried`, `UnindexedApart`).
`AnalysisOfConfig` turns the tape at a final state into an analysis.

And it proves that a lookup returns all of it:

- `CompleteUnlessBackedOut`: `Spec /\ []~BacksOut => []Complete`;
- `CompleteHolds`: if `FlagsLeadAhead(gr)` for every graph `gr`, then
  `Spec => []Complete`.

Each call accounts for the arcs it has been through (`Behind`): everything that they
lead to, as far as depth goes, has been noted (`Explored`); a call that returns has
been through all its arcs, and its caller, whose configuration leads to it by one arc
(`CallsFollow`), is then through that one. `ExploredInv` says this of all calls, unless
the clock or the limit has ended the search. It fails when a flag arc is passed over
because it is recorded as visited: then something may be lost, and run
`ol_lookup_backed_out` shows an analysis that is. So the first theorem is about
the behaviours in which that does not happen (`BacksOut`), and the second gives a
condition on the graph under which it cannot: no cycle without input goes through a
flag arc. The graphs of run `ol_lookup` that have flags on cycles satisfy the
property for a different reason, that the depth of 5 ends first, and only the run
speaks for them. That the results are finitely many (`FewAnalyses`) is needed to
compare them with the limit.

`OlFindLoopProofs` proves of the loop search, for every set of transducers and every
input:

- `FlagsAreRestored`: `Spec => []FlagsRestored`;
- `AnswersRight`: `Spec => [](Known(input) => AnswerIsRight)`, where `Known(input)` says
  that all letters of the input are in the alphabet. For others the answer may be
  wrong: the search never tries identity and unknown arcs for them, as lookup does
  (end of section 4).

`SearchInv` is their invariant. `Conf(stack[j])` is the configuration (state, input
position, flag values) that the `j`th call is about; each follows from the one before
by the arc its caller is at, and the first is `Start`, which is why the flag values are
neutral again after the last return. The exception skips the returns, and its handler
resets the values instead.
For the answer "no" one would expect an account of where the search has been, but it
keeps none. The invariant speaks of *safe* configurations instead, from which no loop
that reads nothing can be reached: each call that returns was about a safe one,
since all arcs it has been through lead to safe ones (`Explored`, `Behind`) and a
configuration with only safe ones after it is safe unless it lies on a loop itself
(`SafeOnward`); on a loop it cannot lie, as a step round it leads back to it and so
out of what is safe. For "yes", each record in `traversal_states` is of a call that is
still active, with nothing but arcs that read nothing between it and the innermost
one (`Recording`, `LoopFrom`), so that meeting the record again closes a loop.
`LoopExists` is defined for TLC, by as many steps as there are configurations;
`ReachedAll` shows that so many reach everything and `LoopIs` gives the loop its
meaning in terms of closed sets. For that the configurations must be finitely many:
`FindLoopAssumption` says that the features are.

`OlSpellerProofs` proves of the spell checker, for every set of lexicons and error
models that `SpellerAssumption` allows, every word, and calls in any order:

- `TypeCorrect`: `Spec => []TypeOK`;
- `CheckRightHolds`: `Bounded => (Spec => []CheckRight)`;
- `NothingLostHolds`: `Bounded => (Spec => []NothingLost)`.

`Bounded` says that no loop of a graph reads nothing (arcs that read nothing lead
down in some numbering of the states) and that the keys of words give letters, not
flags. Without the first the corrections of a word may have no best weight, the
reference's paths no bound, and the search no end; run `ol_speller` assumes that it
holds of its instances. `TypeCorrect` needs neither.

`TypeInv` adds to the types that, while a call runs, the nodes of the queue are
positions in its own input and states of its own graphs. Between calls it says
nothing of them: `check` leaves nodes of another word behind, and the next call
clears them before it looks.

The other two rest on one equation. The reference reads the word by the error
model first and what that writes by the lexicon after; the search takes arcs of
both in any order. `FrontLeads` says that what is still ahead of a node is what is
noted at it, together with what is ahead of the nodes its expansion puts in the
queue, in one direction (`PassedAhead`, `ThroughAhead`, `RecordedNotes`) and the other
(`AheadFollows`). It follows from the reference's own equation for one arc
(`ReadingsByArcs`), which the recursion gives once paths are known to be
bounded (`Bounded` gives each reader a number that each arc lowers), and from taking the
two readings apart in each of the ways in which a node can go on (`RewritingsBy`,
`EntriesBy`).

`CheckInv` then says of `check` that the word can be read from the lexicon's start
exactly if it can be read on from a node in the queue, and that none of the nodes
already tested accepts. `CorrectInv` says of `correct` that the best of what is noted
and what is ahead of the queue is the best of what is ahead of the first node. Both
need to know, in the middle of a turn, which of the front's successors are in
the queue already: a node is expanded by one function after the other and only then
taken from the front. `BestOfPart` lets a correction that is noted with a worse weight
be replaced: what counts is the best of each string.

`ComposeIntersectProofs` proves, for every lexicon and every one or two rules:

- `NumberedOnce`: `Spec => []PairsNumberedOnce`;
- `AgendaHoldsRest`: `Spec => []AgendaIsRest`;
- `TypeCorrect`: `Spec => []TypeOK`;
- `CacheHolds`: `Spec => []CacheIsIntersection`.

The inductive invariant of the first is `Numbering`: both vectors are sequences
without repetitions. It says nothing of what the pairs are, so that it needs no
assumption about the machines; `WithKeeps` is the step for `get_state`, and
`DistinctCount` turns "without repetitions" into the cardinality the property
speaks of. The second is inductive together with it (`AgendaInv`): the agenda is
the interval of numbers from `FirstLeft` to the length of the vector
(`Rest(f, n)`), which `RestTail` shortens for `ComputeState` and `RestAppend`
extends for `AddArc`. `AgendaIsRest` itself is too weak, since it does not say
that outside of `next` the state at hand has already been taken; without that
`AddArc` could add an arc that leaves a state still on the agenda.

The other two need each other, and what a step computes: a number in `todo` or in
the cache has a type only if the state it numbers is in the vector. `IInv` adds
to the numbering and the agenda the types (`Types`), the merge at hand
(`MergeInv`: what is in the list being built, together with what the rest of the two
lists have in common, is the intersection) and the cache (`CacheInv`: what is
stored of a pair and a symbol is that intersection, in the numbers of the pairs,
and pairs are only ever added, `Extends`). The two lists are merged in ascending
order of their outputs; `InOrderLists` proves of the order in which the code
keeps them that it lists each arc once, and `CommonHeads` and `CommonSkip` are the
two ways in which the merge advances.

It proves further, for every call that the code keeps its promise for (`AsPromised`,
section 3):

- `ComposesAsAsked`: the result is the product, `[]ComposedAsAsked`;
- `ImplementsProduct`: every step is a step of ComposeIntersectProduct or a stutter,
  `Implements` without its fairness.

The arcs of a product state fall apart into those of the lexicon state's symbols
(`ComposedEntries`). `BuiltInv` says for each state number whether its arcs are in the
result: those of the states done are, those of the state at hand are up to the
symbol at hand, and what is missing of that symbol is still in `todo`. A step
that adds an arc is a step of the specification because the arc is the product's
and not yet built; at the end the agenda is empty, so all reached states are done,
and the result is inverted as a whole (`AtFinish`, `ProductFinish`).

`HfstComposeProofs` proves `TypeCorrect`, `Spec => []TypeOK`, and
`HarmonizationKeepsMeaning`, `Spec => []MeaningKept`, for any set
of letters, finite or not, any states and any two transducers. The first says that
every arc keeps to its alphabet at each step (`TInv`: the two alphabets agree when the
algebra is called). For the second: while the copies of
unknown and identity arcs are added the alphabets are still the old ones, and what
the arcs mean does change: an identity arc stands for a letter that now also has
an arc of its own. The invariant `IInv` therefore says exactly which arcs there
are in each phase, and only when the alphabets are joined are the meanings
compared: `NothingIsLost` and `NothingIsAdded` are the two inclusions, arc by arc,
`HarmonizedSpelled` puts them together, and the lemmas `...IsTransducer` show that
what the steps before harmonization do to flags keeps the arcs within the
alphabet, which the comparison needs. It rests on the assumptions of HfstCompose
on the sets of symbols.

It also proves `ComposesRight`: `Spec => []Composes`, for all
transducers, alphabets and options, on the hypothesis `OptionsAreApart`: no call has
both options for flags set (with both it fails, section 4). `compose` is straight-line code, so that the state after each step is a
function of the call (`CInv`), and what remains is to show that the function is
right. Two ideas carry it. Between encoding and decoding, flags are letters that
neither transducer knows, so each step in between does to the coded transducers what
it would do to the plain ones (`CodedHarmonized`, `ComposedOfCoded`), and encoding
cancels. And what the result reads is compared with the promise pair by pair of
arcs: two that meet in a symbol (`LoudReads`, `JoinSound`, `JoinComplete`), one that is
silent on the side of the other (`QuietFirstReads`, `QuietSecondReads`). The
letters of `LettersRemain` are used in `JoinComplete`, where two unknown symbols must
meet in a third.

What stays with TLC, and why:

- every liveness property (`LookupReturns`, `Answered`, `Answers`, `Terminates`, `Finishes`), which is beyond
  this prover;
- `LoopsTrapped` of OlFindLoop: it fails for some transducers (run
  `ol_find_loop_escaped`), and holds in the instances of run `ol_find_loop`;
- HfstProc: `Implements` needs an induction over the stream. `TypeOK` is not true of all
  words: one as long as the token buffer makes it look empty (section 3), and how
  long a word can get depends on what a lexicon reads, by a recursion over silent
  arcs (`WithEpsilons`). It holds in the instances, where words are shorter;
- Pmatch: its specification of matches is declared recursive, and no theorem can be
  stated of a module that uses it.

## 6. Not modelled

- *Back-end adapters, format conversions, replace rules, two-level rules and their
  compilers.* They are expressions over OpenFst, SFST or foma; a model would be of
  those libraries.
- *Graph, tokenizer, streams, lexc, xfst, tagger.* Sequential code over one container
  each, of less weight than the searches and packings modelled so far. The part of
  the graph that other components rely on, its harmonization, is modelled.
- *Generated parsers, command-line tools, bindings.* No state of their own.
- *Numeric weights.* Lookup, spelling, pattern matching, hfst-proc and compose
  carry them as small integers; overflow and rounding of floats, and the two other
  semirings, are not modelled.
- *In the modelled components:* `@I.x@` insertions and the `Encoder` in lookup; weights
  in the table conversions; three or more rules, word boundaries; captures and
  output of pattern matching; generation and formats of hfst-proc.

What would come next: a bound on words under which the types of hfst-proc are one, a
condition on transducers under which `LoopsTrapped` is a theorem, and the xfst stack of
networks.
