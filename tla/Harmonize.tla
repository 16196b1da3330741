------------------------------ MODULE Harmonize ------------------------------
(***************************************************************************)
(* HarmonizeUnknownAndIdentitySymbols: before two transducers are          *)
(* combined, the arcs of each that mean "any symbol I do not know" get     *)
(* copies for the symbols only the other one knows, and then both know     *)
(* the same symbols.                                                       *)
(*                                                                         *)
(* A transducer is its alphabet and the set of its arcs.  The module holds *)
(* the constructor's steps; HfstCompose calls them.                        *)
(***************************************************************************)

CONSTANTS
    Letters,          \* the symbols that unknown and identity may stand for
    Flags,            \* flag diacritics
    PmatchSpecials,   \* symbols with a meaning for pmatch
    EPSILON, IDENTITY, UNKNOWN

VARIABLES
    pc,
    t1, t2,
    given1, given2    \* t1 and t2 as they were handed over (not in the code)

Transducer(A, arcs) == [alphabet |-> A, arcs |-> arcs]

Wild == {IDENTITY, UNKNOWN}

(***************************************************************************)
(* What an arc stands for, by the documentation of the special symbols     *)
(* (HfstSymbolDefs.h): an unknown symbol is any that is not in the         *)
(* alphabet, identity is the same one on both sides, and unknown on both   *)
(* sides is two that differ.                                               *)
(***************************************************************************)
Stands(U, A, x) == IF x \in Wild THEN U \ A ELSE {x}

Meaning(U, A, a) ==
    {m \in Stands(U, A, a.in) \X Stands(U, A, a.out) :
        /\ a.in = IDENTITY => m[1] = m[2]
        /\ a.in = UNKNOWN /\ a.out = UNKNOWN => m[1] # m[2]}

Relabelled(a, u, v) ==
    [from |-> a.from, in |-> u, out |-> v, to |-> a.to, weight |-> a.weight]

\* The arcs of t written out with the symbols of U.
Spelled(U, t) ==
    UNION {{Relabelled(a, m[1], m[2]) : m \in Meaning(U, t.alphabet, a)} :
           a \in t.arcs}

-----------------------------------------------------------------------------
remove_flags(A) == A \ (Flags \union PmatchSpecials)

\* What the other one knows and t1 does not, and the other way round.  The special
\* symbols are erased from the second set alone: the code erases them there twice.
t2_minus_t1 == remove_flags(t2.alphabet) \ remove_flags(t1.alphabet)
t1_minus_t2 == (remove_flags(t1.alphabet) \ remove_flags(t2.alphabet)) \ Wild

IdentityArcs(arcs, missing) ==
    {Relabelled(a, k, k) : a \in {x \in arcs : x.in = IDENTITY}, k \in missing}

FromMissing(arcs, missing) ==
    {Relabelled(a, k, a.out) : a \in {x \in arcs : x.in = UNKNOWN}, k \in missing}

ToMissing(arcs, missing) ==
    {Relabelled(a, a.in, k) : a \in {x \in arcs : x.out = UNKNOWN}, k \in missing}

\* Mutant of BetweenMissing: two unknown symbols may be one and the same.
BetweenMissingAny(arcs, missing) ==
    {Relabelled(a, m[1], m[2]) :
        a \in {x \in arcs : x.in = UNKNOWN /\ x.out = UNKNOWN}, m \in missing \X missing}

BetweenMissing(arcs, missing) ==
    {Relabelled(a, m[1], m[2]) :
        a \in {x \in arcs : x.in = UNKNOWN /\ x.out = UNKNOWN},
        m \in {p \in missing \X missing : p[1] # p[2]}}

UnknownArcs(arcs, missing) ==
    FromMissing(arcs, missing) \union ToMissing(arcs, missing)
        \union BetweenMissing(arcs, missing)

WithArcs(t, arcs) == Transducer(t.alphabet, t.arcs \union arcs)

harmonize_identity_symbols ==
    /\ pc = "identities"
    /\ pc' = "unknowns"
    /\ t1' = WithArcs(t1, IdentityArcs(t1.arcs, t2_minus_t1))
    /\ t2' = WithArcs(t2, IdentityArcs(t2.arcs, t1_minus_t2))
    /\ UNCHANGED <<given1, given2>>

harmonize_unknown_symbols ==
    /\ pc = "unknowns"
    /\ pc' = "alphabets"
    /\ t1' = WithArcs(t1, UnknownArcs(t1.arcs, t2_minus_t1))
    /\ t2' = WithArcs(t2, UnknownArcs(t2.arcs, t1_minus_t2))
    /\ UNCHANGED <<given1, given2>>

\* Mutant of WithAlphabet: only what harmonization compares is added.
WithAlphabetNoFlags(t, A) == Transducer(t.alphabet \union remove_flags(A), t.arcs)

WithAlphabet(t, A) == Transducer(t.alphabet \union A, t.arcs)

add_symbols_to_alphabet ==
    /\ pc = "alphabets"
    /\ pc' = "harmonized"
    /\ t1' = WithAlphabet(t1, t2.alphabet)
    /\ t2' = WithAlphabet(t2, t1.alphabet)
    /\ UNCHANGED <<given1, given2>>

-----------------------------------------------------------------------------
\* Harmonizing changes what neither transducer relates to what: every pair of symbols,
\* known to either or to none, is read between the same states and with the same weight
\* as before, although the alphabet, and with it the meaning of the special symbols,
\* has changed under every arc.  (HarmonizeUnknownAndIdentitySymbols, add_symbols_to_alphabet)
MeaningKept ==
    pc = "harmonized" =>
        /\ t1.alphabet = t2.alphabet
        /\ Spelled(Letters, t1) = Spelled(Letters, given1)
        /\ Spelled(Letters, t2) = Spelled(Letters, given2)
==============================================================================
