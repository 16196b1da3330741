----------------------------- MODULE HfstCompose -----------------------------
(***************************************************************************)
(* HfstTransducer::compose for the OpenFst types: what is done to flag     *)
(* diacritics, special symbols and unknown symbols before the back-end     *)
(* composes two transducers symbol by symbol, and how it is undone after.  *)
(***************************************************************************)
EXTENDS Harmonize, Naturals

CONSTANTS
    States,
    Code,             \* encode_flag: the symbol a flag diacritic is replaced by
    Specials,         \* symbols of the form @_..._@ other than the three reserved ones
    Calls             \* the compositions asked for: [first, second, harmonize,
                      \* xerox_composition, flag_is_epsilon]

VARIABLES call

vars == <<pc, t1, t2, given1, given2, call>>

Symbols == Letters \union Flags \union PmatchSpecials \union Specials
             \union {EPSILON, IDENTITY, UNKNOWN}

\* HfstBasicTransducer: the reserved symbols are in every alphabet, arcs use symbols of
\* it, and identity is on both sides of an arc or on neither.
Arcs == [from : States, in : Symbols, out : Symbols, to : States, weight : Nat]

IsTransducer(t) ==
    /\ t \in [alphabet : SUBSET Symbols, arcs : SUBSET Arcs]
    /\ {EPSILON, IDENTITY, UNKNOWN} \subseteq t.alphabet
    /\ \A a \in t.arcs :
          /\ a.in \in t.alphabet /\ a.out \in t.alphabet
          /\ a.in = IDENTITY <=> a.out = IDENTITY

ASSUME SymbolsApart ==
    /\ {EPSILON, IDENTITY, UNKNOWN} \intersect
         (Letters \union Flags \union PmatchSpecials \union Specials) = {}
    /\ Letters \intersect (Flags \union PmatchSpecials \union Specials) = {}
    /\ EPSILON \notin Wild
    /\ IDENTITY # UNKNOWN

ASSUME CodeIsALetter == Code \in [Flags -> Letters]

\* encode_flag changes the ends of a symbol, is_special_symbol looks behind them.
ASSUME CodeIsInjective == \A f, h \in Flags : Code[f] = Code[h] => f = h
ASSUME FlagsAreNotSpecial == Flags \intersect Specials = {}

ASSUME CallsAreOfTransducers ==
    \A c \in Calls : IsTransducer(c.first) /\ IsTransducer(c.second)

\* "flag diacritics are always used as identities" where they are to be epsilons.
ASSUME FlagsAreIdentities ==
    \A c \in Calls : c.flag_is_epsilon =>
        \A a \in c.first.arcs \union c.second.arcs :
            a.in \in Flags \/ a.out \in Flags => a.in = a.out

\* Letters are strings and alphabets finite: there are always some that nobody knows.
ASSUME LettersRemain ==
    \A c \in Calls :
        \E x, y, z \in Letters \ (c.first.alphabet \union c.second.alphabet) :
            x # y /\ y # z /\ x # z

-----------------------------------------------------------------------------
\* A rewriting of every arc, of the inputs, or of the outputs.
EveryArc(t, F(_)) == Transducer(t.alphabet, {F(a) : a \in t.arcs})
WithInputs(t, F(_)) == Transducer(t.alphabet, {Relabelled(a, F(a.in), a.out) : a \in t.arcs})
WithOutputs(t, F(_)) == Transducer(t.alphabet, {Relabelled(a, a.in, F(a.out)) : a \in t.arcs})

FlagAsEpsilon(x) == IF x \in Flags THEN EPSILON ELSE x
encode_flag(x) == IF x \in Flags THEN Code[x] ELSE x
decode_flag(x) == IF \E f \in Flags : Code[f] = x THEN CHOOSE f \in Flags : Code[f] = x ELSE x

Recoded(t, F(_)) ==
    Transducer({F(x) : x \in t.alphabet}, {Relabelled(a, F(a.in), F(a.out)) : a \in t.arcs})

\* encode_flag_diacritics throws where a symbol looks like an encoded flag.
Reserved(t) == \E f \in Flags : Code[f] \in t.alphabet

insert_missing_symbols(t, A, all) ==
    WithAlphabet(t, IF all THEN A ELSE A \intersect Specials)

FlagsSilenced(t, side) ==
    IF ~call.flag_is_epsilon THEN t
    ELSE IF side = "output" THEN WithOutputs(t, FlagAsEpsilon) ELSE WithInputs(t, FlagAsEpsilon)

Init ==
    /\ pc = "called"
    /\ call \in Calls
    /\ t1 = call.first /\ given1 = call.first
    /\ t2 = call.second /\ given2 = call.second

SilenceFlags ==
    /\ pc = "called"
    /\ pc' = "encode"
    /\ t1' = FlagsSilenced(t1, "output")
    /\ t2' = FlagsSilenced(t2, "input")
    /\ UNCHANGED <<given1, given2, call>>

\* The first is encoded before the second is looked at.
EncodeFlags ==
    /\ pc = "encode"
    /\ IF ~call.xerox_composition
       THEN UNCHANGED <<t1, t2>> /\ pc' = "insert"
       ELSE /\ t1' = IF Reserved(t1) THEN t1 ELSE Recoded(t1, encode_flag)
            /\ t2' = IF Reserved(t1) \/ Reserved(t2) THEN t2 ELSE Recoded(t2, encode_flag)
            /\ pc' = IF Reserved(t1) \/ Reserved(t2) THEN "thrown" ELSE "insert"
    /\ UNCHANGED <<given1, given2, call>>

\* The symbols put into both alphabets are out of harmonization's reach.
Shared(t, other) == insert_missing_symbols(t, other.alphabet, ~call.harmonize)

InsertSymbols ==
    /\ pc = "insert"
    /\ pc' = "identities"
    /\ t1' = Shared(t1, t2)
    /\ t2' = Shared(t2, t1)
    /\ given1' = t1' /\ given2' = t2'
    /\ UNCHANGED call

harmonize ==
    /\ \/ harmonize_identity_symbols
       \/ harmonize_unknown_symbols
       \/ add_symbols_to_alphabet
    /\ UNCHANGED call

-----------------------------------------------------------------------------
\* OpenFst's Compose: arcs that meet in a symbol are joined, arcs with an epsilon in the
\* middle are taken alone.  Its filter of epsilon paths is left out: the paths it removes
\* differ from others only in the order of such arcs.
Joined(arcs1, arcs2) ==
    {[from |-> <<p[1].from, p[2].from>>, in |-> p[1].in, out |-> p[2].out,
      to |-> <<p[1].to, p[2].to>>, weight |-> p[1].weight + p[2].weight] :
        p \in {q \in arcs1 \X arcs2 : q[1].out = q[2].in}}

Between(from, a, to) ==
    [from |-> from, in |-> a.in, out |-> a.out, to |-> to, weight |-> a.weight]

FirstAlone(arcs) ==
    {Between(<<a.from, s>>, a, <<a.to, s>>) : a \in arcs, s \in States}

SecondAlone(arcs) ==
    {Between(<<s, a.from>>, a, <<s, a.to>>) : a \in arcs, s \in States}

ComposedArcs(arcs1, arcs2) ==
    Joined({a \in arcs1 : a.out # EPSILON}, {a \in arcs2 : a.in # EPSILON})
        \union FirstAlone({a \in arcs1 : a.out = EPSILON})
        \union SecondAlone({a \in arcs2 : a.in = EPSILON})

IdentityAsUnknown(x) == IF x = IDENTITY THEN UNKNOWN ELSE x

ComposeArcs ==
    /\ pc = "harmonized"
    /\ pc' = "revert"
    /\ t1' = Transducer(t1.alphabet, ComposedArcs(WithOutputs(t1, IdentityAsUnknown).arcs,
                                                WithInputs(t2, IdentityAsUnknown).arcs))
    /\ t2' = WithInputs(t2, IdentityAsUnknown)
    /\ UNCHANGED <<given1, given2, call>>

-----------------------------------------------------------------------------
FlagOnBothSides(a) ==
    IF a.in \in Flags /\ a.out = EPSILON THEN Relabelled(a, a.in, a.in)
    ELSE IF a.out \in Flags /\ a.in = EPSILON THEN Relabelled(a, a.out, a.out)
    ELSE a

\* Mutant of SingleIdentityReplaced: forgets the output side.
SingleIdentityReplacedInput(a) ==
    IF a.in = IDENTITY /\ a.out # IDENTITY THEN Relabelled(a, UNKNOWN, a.out) ELSE a

SingleIdentityReplaced(a) ==
    IF a.in = IDENTITY /\ a.out # IDENTITY THEN Relabelled(a, UNKNOWN, a.out)
    ELSE IF a.out = IDENTITY /\ a.in # IDENTITY THEN Relabelled(a, a.in, UNKNOWN)
    ELSE a

FlagsDecoded(t) == IF call.xerox_composition THEN Recoded(t, decode_flag) ELSE t
FlagsVoiced(t) == IF call.flag_is_epsilon THEN EveryArc(t, FlagOnBothSides) ELSE t

\* The second transducer is a copy that nothing reads any more.
Revert ==
    /\ pc = "revert"
    /\ pc' = "done"
    /\ t1' = EveryArc(FlagsVoiced(FlagsDecoded(t1)), SingleIdentityReplaced)
    /\ UNCHANGED <<t2, given1, given2, call>>

Next ==
    \/ SilenceFlags
    \/ EncodeFlags
    \/ InsertSymbols
    \/ harmonize
    \/ ComposeArcs
    \/ Revert

Spec == Init /\ [][Next]_vars

-----------------------------------------------------------------------------
\* Arcs use symbols of their transducer's alphabet, but while the alphabets are to be
\* joined, of either; composing pairs the states, and every symbol that is composed,
\* decoded or put back is in the alphabet of the result.
\* (add_symbols_to_alphabet, substitute, decode_flag_diacritics)
TypeOK ==
    /\ pc \in {"called", "encode", "insert", "identities", "unknowns", "alphabets",
               "harmonized", "revert", "done", "thrown"}
    /\ call \in Calls
    /\ IsTransducer(given1) /\ IsTransducer(given2)
    /\ IF pc \in {"revert", "done"}
       THEN t1.arcs \subseteq [from : States \X States, in : t1.alphabet,
                               out : t1.alphabet, to : States \X States, weight : Nat]
       ELSE /\ IsTransducer(WithAlphabet(t1, t2.alphabet))
            /\ IsTransducer(WithAlphabet(t2, t1.alphabet))
            /\ pc \notin {"unknowns", "alphabets"} => IsTransducer(t1) /\ IsTransducer(t2)

-----------------------------------------------------------------------------
(***************************************************************************)
(* What composing promises, from the transducers as given: the first       *)
(* relates u to some m that the second relates to v, where flags and       *)
(* special symbols are matched as the options say.                         *)
(***************************************************************************)
KnownTo(t, other) ==
    Transducer(t.alphabet \union (IF call.harmonize THEN other.alphabet \intersect Specials
                                   ELSE other.alphabet), t.arcs)

\* What an unknown symbol of either may be.
Any == IF call.xerox_composition
       THEN Letters \union (Flags \intersect (call.first.alphabet \union call.second.alphabet))
       ELSE Letters

Silent == {EPSILON} \union (IF call.flag_is_epsilon THEN Flags ELSE {})

Promised ==
    LET one == KnownTo(call.first, call.second)
        two == KnownTo(call.second, call.first)
        Part(t, Kept(_)) == Spelled(Any, Transducer(t.alphabet, {a \in t.arcs : Kept(a)}))
        Quiet1(a) == a.out \in Silent
        Quiet2(a) == a.in \in Silent
        Loud1(a) == ~Quiet1(a)
        Loud2(a) == ~Quiet2(a)
    IN  Joined(Part(one, Loud1), Part(two, Loud2))
          \union FirstAlone(Part(one, Quiet1))
          \union SecondAlone(Part(two, Quiet2))

\* When compose returns, its result relates just what the given transducers relate by
\* way of a common symbol, with the sum of their weights, whatever each of them knows:
\* nothing else, and nothing less but for pairs of one and the same symbol that neither
\* knows (composing [?:a] with [a:?] gives [?:?], which stands for two that differ).
\* (HfstTransducer::compose, harmonize_)
Composes ==
    pc = "done" =>
        /\ Spelled(Letters, t1) \subseteq Promised
        /\ \A p \in Promised \ Spelled(Letters, t1) :
              p.in = p.out /\ p.in \notin t1.alphabet

\* No call has both options set, under which Composes fails: a flag that an unknown
\* symbol stands for on one side of the result is taken for half of a silenced flag and
\* put on both.
OptionsAreApart == \A c \in Calls : ~(c.xerox_composition /\ c.flag_is_epsilon)
==============================================================================
