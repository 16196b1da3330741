-------------------------- MODULE HfstComposeProofs --------------------------
(***************************************************************************)
(* Proofs that harmonization keeps the meaning of both transducers, and    *)
(* that composing relates what the given transducers relate, for all       *)
(* transducers, all options and every set of letters, finite or not.       *)
(*                                                                         *)
(* The sets of arcs are compared through Reads: whether one of them reads  *)
(* u:v between two states.  Harmonization adds arcs while the alphabet is  *)
(* still the old one, and in between the meaning does change; so the       *)
(* invariant says which arcs there are, and HarmonizedReads compares them  *)
(* only once the alphabets are joined.                                     *)
(*                                                                         *)
(* In a composition, the state at each step is a function of the call      *)
(* (CInv).  Flags are encoded between the first step and the last one;     *)
(* since the code of a flag is a letter that neither transducer knows,     *)
(* everything in between does to the coded transducers what it would do to *)
(* the plain ones, with the flags for letters (CodedHarmonized,            *)
(* PlainArcs).                                                             *)
(***************************************************************************)
EXTENDS HfstCompose, TLAPS

\* The arc a, over alphabet A, reads x, where the symbols are those of U.
ArcReads(U, a, A, x) ==
    /\ x = Relabelled(a, x.in, x.out)
    /\ x.in \in Stands(U, A, a.in)
    /\ x.out \in Stands(U, A, a.out)
    /\ a.in = IDENTITY => x.in = x.out
    /\ a.in = UNKNOWN /\ a.out = UNKNOWN => x.in # x.out

ProperArcs(arcs) == \A a \in arcs : a.in = IDENTITY <=> a.out = IDENTITY

\* What harmonize_identity_symbols and harmonize_unknown_symbols make of the arcs.
WithIdentities(arcs, M) == arcs \union IdentityArcs(arcs, M)
Harmonized(arcs, M) ==
    WithIdentities(arcs, M) \union UnknownArcs(WithIdentities(arcs, M), M)

LEMMA WildApart ==
    /\ IDENTITY \notin Letters /\ UNKNOWN \notin Letters /\ EPSILON \notin Letters
    /\ IDENTITY # UNKNOWN
  BY SymbolsApart

\* Writing out a set of arcs gives just what its arcs read.
LEMMA SpelledIsRead ==
  ASSUME NEW U, NEW t, NEW x
  PROVE  x \in Spelled(U, t) <=> \E a \in t.arcs : ArcReads(U, a, t.alphabet, x)
<1>1. ASSUME x \in Spelled(U, t)
      PROVE  \E a \in t.arcs : ArcReads(U, a, t.alphabet, x)
  <2>1. PICK a \in t.arcs : \E m \in Meaning(U, t.alphabet, a) :
                               x = Relabelled(a, m[1], m[2])
    BY <1>1 DEF Spelled
  <2>2. PICK m \in Meaning(U, t.alphabet, a) : x = Relabelled(a, m[1], m[2])
    BY <2>1
  <2>3. x.in = m[1] /\ x.out = m[2]
    BY <2>2 DEF Relabelled
  <2>4. ArcReads(U, a, t.alphabet, x)
    BY <2>2, <2>3 DEF ArcReads, Meaning
  <2> QED  BY <2>4
<1>2. ASSUME NEW a \in t.arcs, ArcReads(U, a, t.alphabet, x)
      PROVE  x \in Spelled(U, t)
  <2> DEFINE m == <<x.in, x.out>>
  <2>1. m \in Meaning(U, t.alphabet, a)
    BY <1>2 DEF ArcReads, Meaning
  <2>2. x = Relabelled(a, m[1], m[2])
    BY <1>2 DEF ArcReads
  <2> QED  BY <2>1, <2>2 DEF Spelled
<1> QED  BY <1>1, <1>2

-----------------------------------------------------------------------------
(* Nothing is lost: what an old arc read over the old alphabet, it or one  *)
(* of its copies reads over the joint one.                                 *)
LEMMA NothingIsLost ==
  ASSUME NEW U, IDENTITY \notin U, UNKNOWN \notin U,
         NEW A, NEW B, NEW arcs, ProperArcs(arcs), NEW M,
         M = U \intersect (B \ A),
         NEW x, NEW a \in arcs, ArcReads(U, a, A, x)
  PROVE  \E b \in Harmonized(arcs, M) : ArcReads(U, b, A \union B, x)
<1> USE WildApart DEF Wild
<1> DEFINE Id == WithIdentities(arcs, M)
<1>1. a \in Id /\ a \in Harmonized(arcs, M)
  BY DEF WithIdentities, Harmonized
<1>2. ASSUME x.in \notin M, x.out \notin M
      PROVE  ArcReads(U, a, A \union B, x)
  BY <1>2 DEF ArcReads, Stands
<1>3. CASE a.in = IDENTITY /\ x.in \in M
  <2>1. x = Relabelled(a, x.in, x.in) /\ x.in = x.out
    BY <1>3 DEF ArcReads
  <2>2. Relabelled(a, x.in, x.in) \in IdentityArcs(arcs, M)
    BY <1>3 DEF IdentityArcs
  <2>3. x \in Harmonized(arcs, M)
    BY <2>1, <2>2 DEF WithIdentities, Harmonized
  <2>4. ArcReads(U, x, A \union B, x)
    BY <2>1, <1>3 DEF ArcReads, Relabelled, Stands
  <2> QED  BY <2>3, <2>4
<1>4. CASE a.in = IDENTITY /\ x.in \notin M
  BY <1>1, <1>2, <1>4 DEF ArcReads
<1>5. CASE a.in = UNKNOWN /\ a.out = UNKNOWN /\ x.in \in M /\ x.out \in M
  <2>1. <<x.in, x.out>> \in {q \in M \X M : q[1] # q[2]}
    BY <1>5 DEF ArcReads
  <2>2. Relabelled(a, x.in, x.out) \in BetweenMissing(Id, M)
    BY <2>1, <1>1, <1>5 DEF BetweenMissing
  <2>3. x \in Harmonized(arcs, M)
    BY <2>2 DEF ArcReads, Harmonized, UnknownArcs
  <2>4. ArcReads(U, x, A \union B, x)
    BY <1>5 DEF ArcReads, Relabelled, Stands
  <2> QED  BY <2>3, <2>4
<1>6. CASE a.in = UNKNOWN /\ x.in \in M /\ (a.out # UNKNOWN \/ x.out \notin M)
  <2> DEFINE b == Relabelled(a, x.in, a.out)
  <2>1. b \in FromMissing(Id, M)
    BY <1>1, <1>6 DEF FromMissing
  <2>2. b \in Harmonized(arcs, M)
    BY <2>1 DEF Harmonized, UnknownArcs
  <2>3. b.in = x.in /\ b.out = a.out /\ b.in \in U /\ a.out # IDENTITY
    BY <1>6 DEF Relabelled, ProperArcs
  <2>4. x = Relabelled(b, x.in, x.out)
    BY DEF ArcReads, Relabelled
  <2>5. x.out \in Stands(U, A \union B, b.out)
    BY <1>6, <2>3 DEF ArcReads, Stands
  <2>6. ArcReads(U, b, A \union B, x)
    BY <2>3, <2>4, <2>5 DEF ArcReads, Stands
  <2> QED  BY <2>2, <2>6
<1>7. CASE a.out = UNKNOWN /\ x.out \in M /\ (a.in # UNKNOWN \/ x.in \notin M)
  <2> DEFINE b == Relabelled(a, a.in, x.out)
  <2>1. b \in ToMissing(Id, M)
    BY <1>1, <1>7 DEF ToMissing
  <2>2. b \in Harmonized(arcs, M)
    BY <2>1 DEF Harmonized, UnknownArcs
  <2>3. b.out = x.out /\ b.in = a.in /\ b.out \in U /\ a.in # IDENTITY
    BY <1>7 DEF Relabelled, ProperArcs
  <2>4. x = Relabelled(b, x.in, x.out)
    BY DEF ArcReads, Relabelled
  <2>5. x.in \in Stands(U, A \union B, b.in)
    BY <1>7, <2>3 DEF ArcReads, Stands
  <2>6. ArcReads(U, b, A \union B, x)
    BY <2>3, <2>4, <2>5 DEF ArcReads, Stands
  <2> QED  BY <2>2, <2>6
<1>8. CASE /\ a.in # IDENTITY
           /\ a.in # UNKNOWN \/ x.in \notin M
           /\ a.out # UNKNOWN \/ x.out \notin M
  <2>1. a.out # IDENTITY
    BY <1>8 DEF ProperArcs
  <2>2. ArcReads(U, a, A \union B, x)
    BY <1>8, <2>1 DEF ArcReads, Stands
  <2> QED  BY <1>1, <2>2
<1> QED  BY <1>3, <1>4, <1>5, <1>6, <1>7, <1>8

(* Nothing is added: what the old arcs and their copies read over the      *)
(* joint alphabet, an old arc read over the old one.                       *)
LEMMA NothingIsAdded ==
  ASSUME NEW U, IDENTITY \notin U, UNKNOWN \notin U,
         NEW A, NEW B, NEW arcs, ProperArcs(arcs), NEW M,
         M = U \intersect (B \ A),
         NEW x, NEW b \in Harmonized(arcs, M), ArcReads(U, b, A \union B, x)
  PROVE  \E a \in arcs : ArcReads(U, a, A, x)
<1> USE WildApart DEF Wild
<1>1. \A a \in WithIdentities(arcs, M) :
         a.in = UNKNOWN \/ a.out = UNKNOWN => a \in arcs
  BY DEF WithIdentities, IdentityArcs, Relabelled
<1>2. CASE b \in arcs
  BY <1>2 DEF ArcReads, Stands
<1>3. CASE b \in IdentityArcs(arcs, M)
  <2>1. PICK a \in arcs, k \in M : a.in = IDENTITY /\ b = Relabelled(a, k, k)
    BY <1>3 DEF IdentityArcs
  <2>2. b.in = k /\ b.out = k
    BY <2>1 DEF Relabelled
  <2>3. x.in = k /\ x.out = k
    BY <2>2 DEF ArcReads, Stands
  <2>4. a.out = IDENTITY
    BY <2>1 DEF ProperArcs
  <2>5. x = Relabelled(a, x.in, x.out)
    BY <2>1 DEF ArcReads, Relabelled
  <2>6. ArcReads(U, a, A, x)
    BY <2>1, <2>3, <2>4, <2>5 DEF ArcReads, Stands
  <2> QED  BY <2>6
<1>4. CASE b \in FromMissing(WithIdentities(arcs, M), M)
  <2>1. PICK a \in WithIdentities(arcs, M), k \in M :
               a.in = UNKNOWN /\ b = Relabelled(a, k, a.out)
    BY <1>4 DEF FromMissing
  <2>2. a \in arcs /\ a.out # IDENTITY
    BY <1>1, <2>1 DEF ProperArcs
  <2>3. b.in = k /\ b.out = a.out
    BY <2>1 DEF Relabelled
  <2>4. x.in = k /\ x.out \in Stands(U, A \union B, a.out)
    BY <2>3 DEF ArcReads, Stands
  <2>5. x = Relabelled(a, x.in, x.out)
    BY <2>1 DEF ArcReads, Relabelled
  <2>6. ArcReads(U, a, A, x)
    BY <2>1, <2>2, <2>4, <2>5 DEF ArcReads, Stands
  <2> QED  BY <2>2, <2>6
<1>5. CASE b \in ToMissing(WithIdentities(arcs, M), M)
  <2>1. PICK a \in WithIdentities(arcs, M), k \in M :
               a.out = UNKNOWN /\ b = Relabelled(a, a.in, k)
    BY <1>5 DEF ToMissing
  <2>2. a \in arcs /\ a.in # IDENTITY
    BY <1>1, <2>1 DEF ProperArcs
  <2>3. b.in = a.in /\ b.out = k
    BY <2>1 DEF Relabelled
  <2>4. x.out = k /\ x.in \in Stands(U, A \union B, a.in)
    BY <2>3 DEF ArcReads, Stands
  <2>5. x = Relabelled(a, x.in, x.out)
    BY <2>1 DEF ArcReads, Relabelled
  <2>6. ArcReads(U, a, A, x)
    BY <2>1, <2>2, <2>4, <2>5 DEF ArcReads, Stands
  <2> QED  BY <2>2, <2>6
<1>6. CASE b \in BetweenMissing(WithIdentities(arcs, M), M)
  <2>1. PICK a \in WithIdentities(arcs, M), m \in {q \in M \X M : q[1] # q[2]} :
               /\ a.in = UNKNOWN /\ a.out = UNKNOWN
               /\ b = Relabelled(a, m[1], m[2])
    BY <1>6, SMTT(30) DEF BetweenMissing
  <2>2. a \in arcs
    BY <1>1, <2>1
  <2>3. b.in = m[1] /\ b.out = m[2] /\ m[1] \in M /\ m[2] \in M /\ m[1] # m[2]
    BY <2>1 DEF Relabelled
  <2>4. x.in = m[1] /\ x.out = m[2]
    BY <2>3 DEF ArcReads, Stands
  <2>5. x = Relabelled(a, x.in, x.out)
    BY <2>1 DEF ArcReads, Relabelled
  <2>6. ArcReads(U, a, A, x)
    BY <2>1, <2>3, <2>4, <2>5 DEF ArcReads, Stands
  <2> QED  BY <2>2, <2>6
<1> QED  BY <1>2, <1>3, <1>4, <1>5, <1>6 DEF Harmonized, WithIdentities, UnknownArcs

\* The letters of B that A lacks, and both together.
Lacking(A, B) == Letters \intersect (B \ A)
Joint(A, B) == A \union B

LEMMA HarmonizedSpelled ==
  ASSUME NEW A, NEW B, NEW arcs, ProperArcs(arcs)
  PROVE  Spelled(Letters, Transducer(Joint(A, B), Harmonized(arcs, Lacking(A, B))))
           = Spelled(Letters, Transducer(A, arcs))
<1> DEFINE M == Lacking(A, B)
           old == Transducer(A, arcs)
           new == Transducer(Joint(A, B), Harmonized(arcs, M))
<1>0. M = Letters \intersect (B \ A)
  BY DEF Lacking
<1> HIDE DEF M
<1>1. old.alphabet = A /\ old.arcs = arcs
  BY DEF Transducer
<1>2. new.alphabet = A \union B /\ new.arcs = Harmonized(arcs, M)
  BY DEF Transducer, Joint
<1>3. \A b \in Harmonized(arcs, M) : \A x :
         ArcReads(Letters, b, A \union B, x) => \E a \in arcs : ArcReads(Letters, a, A, x)
  BY <1>0, WildApart, NothingIsAdded
<1>4. \A a \in arcs : \A x :
         ArcReads(Letters, a, A, x) => \E b \in Harmonized(arcs, M) : ArcReads(Letters, b, A \union B, x)
  BY <1>0, WildApart, NothingIsLost
<1> HIDE DEF old, new
<1>5. ASSUME NEW x PROVE x \in Spelled(Letters, new) <=> x \in Spelled(Letters, old)
  BY <1>1, <1>2, <1>3, <1>4, SpelledIsRead
<1>6. Spelled(Letters, new) = Spelled(Letters, old)
  BY <1>5 DEF Spelled
<1> QED  BY <1>6 DEF old, new, M

-----------------------------------------------------------------------------
(***************************************************************************)
(* The invariant: the transducers are ones until they are handed over;     *)
(* then only letters are missing, and each step has added the arcs the     *)
(* next one counts on.                                                     *)
(***************************************************************************)
Missing1 == Lacking(given1.alphabet, given2.alphabet)
Missing2 == Lacking(given2.alphabet, given1.alphabet)

Handed ==
    /\ IsTransducer(given1) /\ IsTransducer(given2)
    /\ remove_flags(given2.alphabet) \ remove_flags(given1.alphabet) = Missing1
    /\ (remove_flags(given1.alphabet) \ remove_flags(given2.alphabet)) \ Wild = Missing2

IInv ==
    /\ pc \in {"called", "encode", "insert"} => IsTransducer(t1) /\ IsTransducer(t2)
    /\ pc \in {"identities", "unknowns", "alphabets"} => Handed
    /\ pc = "identities" => t1 = given1 /\ t2 = given2
    /\ pc = "unknowns" =>
          /\ t1 = Transducer(given1.alphabet, WithIdentities(given1.arcs, Missing1))
          /\ t2 = Transducer(given2.alphabet, WithIdentities(given2.arcs, Missing2))
    /\ pc = "alphabets" =>
          /\ t1 = Transducer(given1.alphabet, Harmonized(given1.arcs, Missing1))
          /\ t2 = Transducer(given2.alphabet, Harmonized(given2.arcs, Missing2))
    /\ MeaningKept

LEMMA TransducerFields ==
  ASSUME NEW t, IsTransducer(t)
  PROVE  /\ t = Transducer(t.alphabet, t.arcs)
         /\ t.alphabet \subseteq Symbols /\ t.arcs \subseteq Arcs
         /\ ProperArcs(t.arcs)
  BY DEF IsTransducer, Transducer, ProperArcs

LEMMA ArcFields ==
  ASSUME NEW a \in Arcs, NEW u \in Symbols, NEW v \in Symbols
  PROVE  /\ Relabelled(a, u, v) \in Arcs
         /\ Relabelled(a, u, v).in = u /\ Relabelled(a, u, v).out = v
  BY DEF Relabelled, Arcs

LEMMA InitIInv == Init => IInv
  BY CallsAreOfTransducers DEF Init, IInv, MeaningKept

LEMMA IsTransducerFrom ==
  ASSUME NEW A, A \subseteq Symbols, {EPSILON, IDENTITY, UNKNOWN} \subseteq A,
         NEW arcs, \A b \in arcs : /\ b \in Arcs /\ b.in \in A /\ b.out \in A
                                   /\ b.in = IDENTITY <=> b.out = IDENTITY
  PROVE  IsTransducer(Transducer(A, arcs))
  BY DEF IsTransducer, Transducer

LEMMA BasicSymbols == {EPSILON, IDENTITY, UNKNOWN} \intersect Flags = {}
  BY SymbolsApart

\* Taking flags for epsilons leaves transducers.
LEMMA SilencedIsTransducer ==
  ASSUME NEW t, IsTransducer(t), NEW side
  PROVE  IsTransducer(FlagsSilenced(t, side))
<1> USE BasicSymbols, SymbolsApart DEF Wild
<1>1. /\ t.alphabet \subseteq Symbols /\ {EPSILON, IDENTITY, UNKNOWN} \subseteq t.alphabet
      /\ \A a \in t.arcs : /\ a \in Arcs /\ a.in \in t.alphabet /\ a.out \in t.alphabet
                           /\ a.in = IDENTITY <=> a.out = IDENTITY
  BY DEF IsTransducer
<1>2. \A x \in t.alphabet : /\ FlagAsEpsilon(x) \in t.alphabet
                            /\ FlagAsEpsilon(x) = IDENTITY <=> x = IDENTITY
  BY <1>1 DEF FlagAsEpsilon
<1>3. IsTransducer(WithOutputs(t, FlagAsEpsilon))
  <2>1. ASSUME NEW a \in t.arcs
        PROVE  LET b == Relabelled(a, a.in, FlagAsEpsilon(a.out))
               IN  /\ b \in Arcs /\ b.in \in t.alphabet /\ b.out \in t.alphabet
                   /\ b.in = IDENTITY <=> b.out = IDENTITY
    <3>1. a \in Arcs /\ a.in \in Symbols /\ FlagAsEpsilon(a.out) \in Symbols
      BY <1>1, <1>2
    <3>2. LET b == Relabelled(a, a.in, FlagAsEpsilon(a.out))
          IN  b \in Arcs /\ b.in = a.in /\ b.out = FlagAsEpsilon(a.out)
      BY <3>1, ArcFields
    <3> QED  BY <1>1, <1>2, <3>2
  <2> QED  BY <1>1, <2>1, IsTransducerFrom DEF WithOutputs
<1>4. IsTransducer(WithInputs(t, FlagAsEpsilon))
  <2>1. ASSUME NEW a \in t.arcs
        PROVE  LET b == Relabelled(a, FlagAsEpsilon(a.in), a.out)
               IN  /\ b \in Arcs /\ b.in \in t.alphabet /\ b.out \in t.alphabet
                   /\ b.in = IDENTITY <=> b.out = IDENTITY
    <3>1. a \in Arcs /\ a.out \in Symbols /\ FlagAsEpsilon(a.in) \in Symbols
      BY <1>1, <1>2
    <3>2. LET b == Relabelled(a, FlagAsEpsilon(a.in), a.out)
          IN  b \in Arcs /\ b.in = FlagAsEpsilon(a.in) /\ b.out = a.out
      BY <3>1, ArcFields
    <3> QED  BY <1>1, <1>2, <3>2
  <2> QED  BY <1>1, <2>1, IsTransducerFrom DEF WithInputs
<1> QED  BY <1>3, <1>4 DEF FlagsSilenced

\* So does encoding them as letters.
LEMMA EncodedIsTransducer ==
  ASSUME NEW t, IsTransducer(t)
  PROVE  IsTransducer(Recoded(t, encode_flag))
<1> USE BasicSymbols, WildApart
<1> DEFINE A == {encode_flag(x) : x \in t.alphabet}
           arcs == {Relabelled(a, encode_flag(a.in), encode_flag(a.out)) : a \in t.arcs}
<1>1. /\ t.alphabet \subseteq Symbols /\ {EPSILON, IDENTITY, UNKNOWN} \subseteq t.alphabet
      /\ \A a \in t.arcs : /\ a \in Arcs /\ a.in \in t.alphabet /\ a.out \in t.alphabet
                           /\ a.in = IDENTITY <=> a.out = IDENTITY
  BY DEF IsTransducer
<1>2. \A x \in t.alphabet : /\ encode_flag(x) \in Symbols
                            /\ encode_flag(x) = IDENTITY <=> x = IDENTITY
  BY <1>1, CodeIsALetter DEF encode_flag, Symbols
<1>3. A \subseteq Symbols
  BY <1>2
<1>4. \A x \in {EPSILON, IDENTITY, UNKNOWN} : x \in t.alphabet /\ encode_flag(x) = x
  BY <1>1 DEF encode_flag
<1>5. {EPSILON, IDENTITY, UNKNOWN} \subseteq A
  BY <1>4
<1>6. ASSUME NEW a \in t.arcs
      PROVE  LET b == Relabelled(a, encode_flag(a.in), encode_flag(a.out))
             IN  /\ b \in Arcs /\ b.in \in A /\ b.out \in A
                 /\ b.in = IDENTITY <=> b.out = IDENTITY
  <2>1. a \in Arcs /\ encode_flag(a.in) \in Symbols /\ encode_flag(a.out) \in Symbols
    BY <1>1, <1>2
  <2>2. LET b == Relabelled(a, encode_flag(a.in), encode_flag(a.out))
        IN  b \in Arcs /\ b.in = encode_flag(a.in) /\ b.out = encode_flag(a.out)
    BY <2>1, ArcFields
  <2>3. encode_flag(a.in) \in A /\ encode_flag(a.out) \in A
    BY <1>1
  <2> QED  BY <1>1, <1>2, <2>2, <2>3
<1>7. \A b \in arcs : /\ b \in Arcs /\ b.in \in A /\ b.out \in A
                      /\ b.in = IDENTITY <=> b.out = IDENTITY
  BY <1>6
<1> HIDE DEF A, arcs
<1>8. IsTransducer(Transducer(A, arcs))
  BY <1>3, <1>5, <1>7, IsTransducerFrom
<1> QED  BY <1>8 DEF Recoded, A, arcs

LEMMA WiderIsTransducer ==
  ASSUME NEW t, IsTransducer(t), NEW A, A \subseteq Symbols
  PROVE  IsTransducer(WithAlphabet(t, A))
<1>1. \A b \in t.arcs : /\ b \in Arcs
                        /\ b.in \in t.alphabet \union A /\ b.out \in t.alphabet \union A
                        /\ b.in = IDENTITY <=> b.out = IDENTITY
  BY DEF IsTransducer
<1>2. /\ t.alphabet \union A \subseteq Symbols
      /\ {EPSILON, IDENTITY, UNKNOWN} \subseteq t.alphabet \union A
  BY DEF IsTransducer
<1> QED  BY <1>1, <1>2, IsTransducerFrom DEF WithAlphabet

LEMMA SilenceFlagsStep == IInv /\ SilenceFlags => IInv'
  BY SilencedIsTransducer DEF IInv, SilenceFlags, MeaningKept

LEMMA EncodeFlagsStep == IInv /\ EncodeFlags => IInv'
  BY EncodedIsTransducer DEF IInv, EncodeFlags, MeaningKept

\* Once the symbols never to be harmonized are in both alphabets, letters alone are
\* missing from either.
LEMMA InsertSymbolsStep == IInv /\ InsertSymbols => IInv'
<1> SUFFICES ASSUME IInv, InsertSymbols PROVE IInv'
  OBVIOUS
<1>1. /\ IsTransducer(t1) /\ IsTransducer(t2) /\ pc' = "identities"
      /\ t1' = Shared(t1, t2) /\ t2' = Shared(t2, t1)
      /\ given1' = t1' /\ given2' = t2'
  BY DEF IInv, InsertSymbols
<1>2. PICK X : t1' = WithAlphabet(t1, X) /\ X \subseteq t2.alphabet
                 /\ t2.alphabet \intersect Specials \subseteq X
  BY <1>1 DEF Shared, insert_missing_symbols
<1>3. PICK Y : t2' = WithAlphabet(t2, Y) /\ Y \subseteq t1.alphabet
                 /\ t1.alphabet \intersect Specials \subseteq Y
  BY <1>1 DEF Shared, insert_missing_symbols
<1>4. /\ t1.alphabet \subseteq Symbols /\ {EPSILON, IDENTITY, UNKNOWN} \subseteq t1.alphabet
      /\ t2.alphabet \subseteq Symbols /\ {EPSILON, IDENTITY, UNKNOWN} \subseteq t2.alphabet
  BY <1>1 DEF IsTransducer
<1>5. IsTransducer(given1') /\ IsTransducer(given2')
  BY <1>1, <1>2, <1>3, <1>4, WiderIsTransducer
<1>6. given1'.alphabet = t1.alphabet \union X /\ given2'.alphabet = t2.alphabet \union Y
  BY <1>1, <1>2, <1>3 DEF WithAlphabet, Transducer
<1>7. remove_flags(given2'.alphabet) \ remove_flags(given1'.alphabet)
        = Letters \intersect (given2'.alphabet \ given1'.alphabet)
  BY <1>2, <1>3, <1>4, <1>6, SymbolsApart DEF remove_flags, Symbols
<1>8. (remove_flags(given1'.alphabet) \ remove_flags(given2'.alphabet)) \ Wild
        = Letters \intersect (given1'.alphabet \ given2'.alphabet)
  BY <1>2, <1>3, <1>4, <1>6, SymbolsApart DEF remove_flags, Symbols, Wild
<1> QED  BY <1>1, <1>5, <1>7, <1>8 DEF IInv, Handed, Missing1, Missing2, Lacking, MeaningKept

LEMMA IdentitiesStep == IInv /\ harmonize_identity_symbols => IInv'
<1> SUFFICES ASSUME IInv, harmonize_identity_symbols PROVE IInv'
  OBVIOUS
<1>1. /\ Handed /\ t1 = given1 /\ t2 = given2 /\ pc' = "unknowns"
      /\ given1' = given1 /\ given2' = given2
      /\ t1' = WithArcs(t1, IdentityArcs(t1.arcs, t2_minus_t1))
      /\ t2' = WithArcs(t2, IdentityArcs(t2.arcs, t1_minus_t2))
  BY DEF IInv, harmonize_identity_symbols
<1>2. t2_minus_t1 = Missing1 /\ t1_minus_t2 = Missing2
  BY <1>1 DEF Handed, t2_minus_t1, t1_minus_t2
<1>3. /\ t1' = Transducer(given1.alphabet, WithIdentities(given1.arcs, Missing1))
      /\ t2' = Transducer(given2.alphabet, WithIdentities(given2.arcs, Missing2))
  BY <1>1, <1>2 DEF WithArcs, WithIdentities
<1> QED  BY <1>1, <1>3 DEF IInv, Handed, Missing1, Missing2, MeaningKept

LEMMA UnknownsStep == IInv /\ harmonize_unknown_symbols => IInv'
<1> SUFFICES ASSUME IInv, harmonize_unknown_symbols PROVE IInv'
  OBVIOUS
<1>1. /\ Handed /\ pc' = "alphabets"
      /\ given1' = given1 /\ given2' = given2
      /\ t1 = Transducer(given1.alphabet, WithIdentities(given1.arcs, Missing1))
      /\ t2 = Transducer(given2.alphabet, WithIdentities(given2.arcs, Missing2))
      /\ t1' = WithArcs(t1, UnknownArcs(t1.arcs, t2_minus_t1))
      /\ t2' = WithArcs(t2, UnknownArcs(t2.arcs, t1_minus_t2))
  BY DEF IInv, harmonize_unknown_symbols
<1>2. /\ t1.alphabet = given1.alphabet /\ t1.arcs = WithIdentities(given1.arcs, Missing1)
      /\ t2.alphabet = given2.alphabet /\ t2.arcs = WithIdentities(given2.arcs, Missing2)
  BY <1>1 DEF Transducer
<1>3. t2_minus_t1 = Missing1 /\ t1_minus_t2 = Missing2
  BY <1>1, <1>2 DEF Handed, t2_minus_t1, t1_minus_t2
<1>4. /\ t1' = Transducer(given1.alphabet, Harmonized(given1.arcs, Missing1))
      /\ t2' = Transducer(given2.alphabet, Harmonized(given2.arcs, Missing2))
  BY <1>1, <1>2, <1>3 DEF WithArcs, Harmonized
<1> QED  BY <1>1, <1>4 DEF IInv, Handed, Missing1, Missing2, MeaningKept

LEMMA AlphabetsStep == IInv /\ add_symbols_to_alphabet => IInv'
<1> SUFFICES ASSUME IInv, add_symbols_to_alphabet PROVE IInv'
  OBVIOUS
<1>1. /\ Handed /\ pc' = "harmonized"
      /\ given1' = given1 /\ given2' = given2
      /\ t1 = Transducer(given1.alphabet, Harmonized(given1.arcs, Missing1))
      /\ t2 = Transducer(given2.alphabet, Harmonized(given2.arcs, Missing2))
      /\ t1' = WithAlphabet(t1, t2.alphabet)
      /\ t2' = WithAlphabet(t2, t1.alphabet)
  BY DEF IInv, add_symbols_to_alphabet
<1>2. /\ given1 = Transducer(given1.alphabet, given1.arcs) /\ ProperArcs(given1.arcs)
      /\ given2 = Transducer(given2.alphabet, given2.arcs) /\ ProperArcs(given2.arcs)
  BY <1>1, TransducerFields DEF Handed
<1>3. /\ t1' = Transducer(Joint(given1.alphabet, given2.alphabet),
                          Harmonized(given1.arcs, Missing1))
      /\ t2' = Transducer(Joint(given2.alphabet, given1.alphabet),
                          Harmonized(given2.arcs, Missing2))
  BY <1>1 DEF WithAlphabet, Transducer, Joint
<1>4. t1'.alphabet = t2'.alphabet
  BY <1>3 DEF Transducer, Joint
<1>5. Spelled(Letters, t1') = Spelled(Letters, given1)
  <2>1. Spelled(Letters, Transducer(Joint(given1.alphabet, given2.alphabet),
                                    Harmonized(given1.arcs, Missing1)))
          = Spelled(Letters, Transducer(given1.alphabet, given1.arcs))
    BY <1>2, HarmonizedSpelled DEF Missing1
  <2> QED  BY <1>2, <1>3, <2>1
<1>6. Spelled(Letters, t2') = Spelled(Letters, given2)
  <2>1. Spelled(Letters, Transducer(Joint(given2.alphabet, given1.alphabet),
                                    Harmonized(given2.arcs, Missing2)))
          = Spelled(Letters, Transducer(given2.alphabet, given2.arcs))
    BY <1>2, HarmonizedSpelled DEF Missing2
  <2> QED  BY <1>2, <1>3, <2>1
<1>7. MeaningKept'
  BY <1>1, <1>4, <1>5, <1>6 DEF MeaningKept
<1> QED  BY <1>1, <1>7 DEF IInv

LEMMA NextKeepsIInv == IInv /\ [Next]_vars => IInv'
<1> SUFFICES ASSUME IInv, [Next]_vars PROVE IInv'
  OBVIOUS
<1>1. CASE SilenceFlags
  BY <1>1, SilenceFlagsStep
<1>2. CASE EncodeFlags
  BY <1>2, EncodeFlagsStep
<1>3. CASE InsertSymbols
  BY <1>3, InsertSymbolsStep
<1>4. CASE harmonize
  BY <1>4, IdentitiesStep, UnknownsStep, AlphabetsStep DEF harmonize
<1>5. CASE ComposeArcs
  BY <1>5 DEF ComposeArcs, IInv, MeaningKept
<1>6. CASE Revert
  BY <1>6 DEF Revert, IInv, MeaningKept
<1>7. CASE UNCHANGED vars
  <2>1. pc' = pc /\ t1' = t1 /\ t2' = t2 /\ given1' = given1 /\ given2' = given2
    BY <1>7 DEF vars
  <2> QED  BY <2>1 DEF IInv, Handed, Missing1, Missing2, MeaningKept
<1> QED  BY <1>1, <1>2, <1>3, <1>4, <1>5, <1>6, <1>7 DEF Next

(***************************************************************************)
(* Whatever the transducers, their alphabets and the options of the call:  *)
(* after harmonization both know the same symbols and each reads exactly   *)
(* what it read before.                                                    *)
(***************************************************************************)
THEOREM HarmonizationKeepsMeaning == Spec => []MeaningKept
<1>1. IInv => MeaningKept
  BY DEF IInv
<1> QED  BY <1>1, InitIInv, NextKeepsIInv, PTL DEF Spec
-----------------------------------------------------------------------------
(***************************************************************************)
(* Types.  Until the alphabets are joined, the copies of an arc use        *)
(* symbols that only the other transducer knows.                           *)
(***************************************************************************)

\* The arcs of a composed transducer: between pairs of states.
IsComposed(t) ==
    /\ UNKNOWN \in t.alphabet
    /\ t.arcs \subseteq [from : States \X States, in : t.alphabet,
                         out : t.alphabet, to : States \X States, weight : Nat]

TInv ==
    /\ IInv /\ TypeOK
    /\ pc = "harmonized" => t1.alphabet = t2.alphabet
    /\ pc \in {"revert", "done"} => IsComposed(t1)

\* An arc copied for letters of A keeps within A.
LEMMA CopiedArc ==
  ASSUME NEW A \in SUBSET Symbols, NEW a \in Arcs, NEW u \in A, NEW v \in A,
         u = IDENTITY <=> v = IDENTITY
  PROVE  LET b == Relabelled(a, u, v)
         IN  /\ b \in Arcs /\ b.in \in A /\ b.out \in A
             /\ b.in = IDENTITY <=> b.out = IDENTITY
  BY DEF Relabelled, Arcs

\* Both steps of harmonization keep to the joint alphabet.
LEMMA CopiesAreTransducers ==
  ASSUME NEW t, IsTransducer(t), NEW B, B \subseteq Symbols,
         NEW M, M \subseteq Letters \intersect B
  PROVE  /\ IsTransducer(Transducer(t.alphabet \union B, WithIdentities(t.arcs, M)))
         /\ IsTransducer(Transducer(t.alphabet \union B, Harmonized(t.arcs, M)))
<1> DEFINE A == t.alphabet \union B
           Fits(b) == /\ b \in Arcs /\ b.in \in A /\ b.out \in A
                      /\ b.in = IDENTITY <=> b.out = IDENTITY
<1>1. /\ A \in SUBSET Symbols /\ {EPSILON, IDENTITY, UNKNOWN} \subseteq A
      /\ \A a \in t.arcs : Fits(a)
  BY DEF IsTransducer
<1>2. M \subseteq A /\ IDENTITY \notin M
  BY WildApart
<1>3. \A a \in Arcs : \A u, v \in A :
         (u = IDENTITY <=> v = IDENTITY) => Fits(Relabelled(a, u, v))
  BY <1>1, CopiedArc
<1> HIDE DEF A, Fits
<1>4. \A b \in IdentityArcs(t.arcs, M) : Fits(b)
  BY <1>1, <1>2, <1>3 DEF IdentityArcs, Fits
<1>5. \A b \in WithIdentities(t.arcs, M) : Fits(b)
  BY <1>1, <1>4 DEF WithIdentities
<1> DEFINE arcs == WithIdentities(t.arcs, M)
<1>6. \A b \in arcs : Fits(b)
  BY <1>5
<1> HIDE DEF arcs
<1>7. \A b \in FromMissing(arcs, M) : Fits(b)
  <2> SUFFICES ASSUME NEW a \in arcs, a.in = UNKNOWN, NEW k \in M
               PROVE  Fits(Relabelled(a, k, a.out))
    BY DEF FromMissing
  <2> QED  BY <1>2, <1>3, <1>6, WildApart DEF Fits
<1>8. \A b \in ToMissing(arcs, M) : Fits(b)
  <2> SUFFICES ASSUME NEW a \in arcs, a.out = UNKNOWN, NEW k \in M
               PROVE  Fits(Relabelled(a, a.in, k))
    BY DEF ToMissing
  <2> QED  BY <1>2, <1>3, <1>6, WildApart DEF Fits
<1>9. \A b \in BetweenMissing(arcs, M) : Fits(b)
  <2> SUFFICES ASSUME NEW a \in arcs, NEW u \in M, NEW v \in M
               PROVE  Fits(Relabelled(a, u, v))
    BY DEF BetweenMissing
  <2> QED  BY <1>2, <1>3, <1>6 DEF Fits
<1>10. \A b \in Harmonized(t.arcs, M) : Fits(b)
  BY <1>6, <1>7, <1>8, <1>9 DEF Harmonized, UnknownArcs, arcs
<1>11. IsTransducer(Transducer(A, WithIdentities(t.arcs, M)))
  BY <1>1, <1>5, IsTransducerFrom DEF Fits
<1>12. IsTransducer(Transducer(A, Harmonized(t.arcs, M)))
  BY <1>1, <1>10, IsTransducerFrom DEF Fits
<1> QED  BY <1>11, <1>12 DEF A

LEMMA InitTInv == Init => TInv
<1> SUFFICES ASSUME Init PROVE TInv
  OBVIOUS
<1>1. /\ call \in Calls /\ pc = "called"
      /\ t1 = call.first /\ given1 = call.first
      /\ t2 = call.second /\ given2 = call.second
  BY DEF Init
<1>2. IsTransducer(t1) /\ IsTransducer(t2) /\ t1.alphabet \subseteq Symbols
      /\ t2.alphabet \subseteq Symbols
  BY <1>1, CallsAreOfTransducers DEF IsTransducer
<1>3. IsTransducer(WithAlphabet(t1, t2.alphabet)) /\ IsTransducer(WithAlphabet(t2, t1.alphabet))
  BY <1>2, WiderIsTransducer
<1> QED  BY <1>1, <1>2, <1>3, InitIInv DEF TInv, TypeOK

\* Where both are transducers, they are so over the joint alphabet.
LEMMA BothWider ==
  ASSUME NEW t, NEW u, IsTransducer(t), IsTransducer(u)
  PROVE  IsTransducer(WithAlphabet(t, u.alphabet)) /\ IsTransducer(WithAlphabet(u, t.alphabet))
<1>1. t.alphabet \subseteq Symbols /\ u.alphabet \subseteq Symbols
  BY DEF IsTransducer
<1> QED  BY <1>1, WiderIsTransducer

LEMMA TypesSilenceFlags == TInv /\ SilenceFlags => TypeOK'
<1> SUFFICES ASSUME TInv, SilenceFlags PROVE TypeOK'
  OBVIOUS
<1>1. /\ IsTransducer(t1) /\ IsTransducer(t2) /\ call' = call /\ call \in Calls
      /\ given1' = given1 /\ given2' = given2 /\ pc' = "encode"
      /\ IsTransducer(given1) /\ IsTransducer(given2)
  BY DEF TInv, TypeOK, IInv, SilenceFlags
<1>2. IsTransducer(t1') /\ IsTransducer(t2')
  BY <1>1, SilencedIsTransducer DEF SilenceFlags
<1>3. IsTransducer(WithAlphabet(t1', t2'.alphabet)) /\ IsTransducer(WithAlphabet(t2', t1'.alphabet))
  BY <1>2, BothWider
<1> QED  BY <1>1, <1>2, <1>3 DEF TypeOK

LEMMA TypesEncodeFlags == TInv /\ EncodeFlags => TypeOK'
<1> SUFFICES ASSUME TInv, EncodeFlags PROVE TypeOK'
  OBVIOUS
<1>1. /\ IsTransducer(t1) /\ IsTransducer(t2) /\ call' = call /\ call \in Calls
      /\ given1' = given1 /\ given2' = given2 /\ pc' \in {"insert", "thrown"}
      /\ IsTransducer(given1) /\ IsTransducer(given2)
  BY DEF TInv, TypeOK, IInv, EncodeFlags
<1>2. IsTransducer(t1') /\ IsTransducer(t2')
  BY <1>1, EncodedIsTransducer DEF EncodeFlags
<1>3. IsTransducer(WithAlphabet(t1', t2'.alphabet)) /\ IsTransducer(WithAlphabet(t2', t1'.alphabet))
  BY <1>2, BothWider
<1> QED  BY <1>1, <1>2, <1>3 DEF TypeOK

LEMMA TypesInsertSymbols == TInv /\ InsertSymbols => TypeOK'
<1> SUFFICES ASSUME TInv, InsertSymbols PROVE TypeOK'
  OBVIOUS
<1>1. /\ pc' = "identities" /\ IInv' /\ call' = call /\ call \in Calls
      /\ given1' = t1' /\ given2' = t2'
  BY InsertSymbolsStep DEF TInv, TypeOK, InsertSymbols
<1>2. IsTransducer(t1') /\ IsTransducer(t2')
  BY <1>1 DEF IInv, Handed
<1>3. IsTransducer(WithAlphabet(t1', t2'.alphabet)) /\ IsTransducer(WithAlphabet(t2', t1'.alphabet))
  BY <1>2, BothWider
<1> QED  BY <1>1, <1>2, <1>3 DEF TypeOK
LEMMA MissingAreLetters ==
  /\ Missing1 \subseteq Letters \intersect given2.alphabet
  /\ Missing2 \subseteq Letters \intersect given1.alphabet
  BY DEF Missing1, Missing2, Lacking

\* While the alphabets are to be joined, and once they are.
LEMMA TypesHarmonize == TInv /\ harmonize => TypeOK' /\ (pc' = "harmonized" => t1'.alphabet = t2'.alphabet)
<1> SUFFICES ASSUME TInv, harmonize
             PROVE  TypeOK' /\ (pc' = "harmonized" => t1'.alphabet = t2'.alphabet)
  OBVIOUS
<1> DEFINE Types(p, a, b) ==
      /\ IsTransducer(WithAlphabet(a, b.alphabet)) /\ IsTransducer(WithAlphabet(b, a.alphabet))
      /\ p = "harmonized" => /\ IsTransducer(a) /\ IsTransducer(b)
                             /\ a.alphabet = b.alphabet
<1>1. /\ call' = call /\ call \in Calls /\ given1' = given1 /\ given2' = given2
      /\ IsTransducer(given1) /\ IsTransducer(given2) /\ IInv'
      /\ pc' \in {"unknowns", "alphabets", "harmonized"}
  BY IdentitiesStep, UnknownsStep, AlphabetsStep
     DEF TInv, TypeOK, harmonize, harmonize_identity_symbols, harmonize_unknown_symbols,
         add_symbols_to_alphabet
<1>2. given1.alphabet \subseteq Symbols /\ given2.alphabet \subseteq Symbols
  BY <1>1 DEF IsTransducer
<1>3. CASE pc' \in {"unknowns", "alphabets"}
  <2>1. PICK arcs1, arcs2 :
          /\ t1' = Transducer(given1.alphabet, arcs1) /\ t2' = Transducer(given2.alphabet, arcs2)
          /\ IsTransducer(Transducer(given1.alphabet \union given2.alphabet, arcs1))
          /\ IsTransducer(Transducer(given2.alphabet \union given1.alphabet, arcs2))
    <3>0. Missing1' = Missing1 /\ Missing2' = Missing2
      BY <1>1 DEF Missing1, Missing2
    <3>1. CASE pc' = "unknowns"
      <4>1. /\ t1' = Transducer(given1.alphabet, WithIdentities(given1.arcs, Missing1))
            /\ t2' = Transducer(given2.alphabet, WithIdentities(given2.arcs, Missing2))
        BY <1>1, <3>0, <3>1 DEF IInv
      <4> QED  BY <1>1, <1>2, <4>1, MissingAreLetters, CopiesAreTransducers
    <3>2. CASE pc' = "alphabets"
      <4>1. /\ t1' = Transducer(given1.alphabet, Harmonized(given1.arcs, Missing1))
            /\ t2' = Transducer(given2.alphabet, Harmonized(given2.arcs, Missing2))
        BY <1>1, <3>0, <3>2 DEF IInv
      <4> QED  BY <1>1, <1>2, <4>1, MissingAreLetters, CopiesAreTransducers
    <3> QED  BY <1>3, <3>1, <3>2
  <2>2. /\ WithAlphabet(t1', t2'.alphabet) = Transducer(given1.alphabet \union given2.alphabet, arcs1)
        /\ WithAlphabet(t2', t1'.alphabet) = Transducer(given2.alphabet \union given1.alphabet, arcs2)
    BY <2>1 DEF WithAlphabet, Transducer
  <2> QED  BY <1>1, <1>3, <2>1, <2>2 DEF TypeOK
<1>4. CASE pc' = "harmonized"
  <2>1. /\ t1' = WithAlphabet(t1, t2.alphabet) /\ t2' = WithAlphabet(t2, t1.alphabet)
        /\ pc = "alphabets"
    BY <1>4 DEF harmonize, harmonize_identity_symbols, harmonize_unknown_symbols,
                add_symbols_to_alphabet
  <2>2. IsTransducer(t1') /\ IsTransducer(t2')
    BY <2>1 DEF TInv, TypeOK
  <2>3. t1'.alphabet = t2'.alphabet
    BY <2>1 DEF WithAlphabet, Transducer
  <2>4. IsTransducer(WithAlphabet(t1', t2'.alphabet)) /\ IsTransducer(WithAlphabet(t2', t1'.alphabet))
    BY <2>2, BothWider
  <2> QED  BY <1>1, <1>4, <2>2, <2>3, <2>4 DEF TypeOK
<1> QED  BY <1>1, <1>3, <1>4

\* The joined arcs lie between pairs of states.
LEMMA TypesComposeArcs == TInv /\ ComposeArcs => TypeOK' /\ IsComposed(t1')
<1> SUFFICES ASSUME TInv, ComposeArcs PROVE TypeOK' /\ IsComposed(t1')
  OBVIOUS
<1> DEFINE A == t1.alphabet
           one == WithOutputs(t1, IdentityAsUnknown).arcs
           two == WithInputs(t2, IdentityAsUnknown).arcs
           Arc(a) == a \in [from : States, in : A, out : A, to : States, weight : Nat]
           Pair(a) == a \in [from : States \X States, in : A,
                             out : A, to : States \X States, weight : Nat]
<1>1. /\ call' = call /\ call \in Calls /\ given1' = given1 /\ given2' = given2
      /\ IsTransducer(given1) /\ IsTransducer(given2) /\ pc' = "revert"
      /\ IsTransducer(t1) /\ IsTransducer(t2) /\ t1.alphabet = t2.alphabet
      /\ t1' = Transducer(A, ComposedArcs(one, two))
  BY DEF TInv, TypeOK, ComposeArcs
<1>2. /\ {EPSILON, UNKNOWN} \subseteq A
      /\ \A a \in t1.arcs : Arc(a)
      /\ \A a \in t2.arcs : Arc(a)
  BY <1>1 DEF IsTransducer, Arcs
<1>3. \A x \in A : IdentityAsUnknown(x) \in A
  BY <1>2 DEF IdentityAsUnknown
<1>4. \A a \in one : Arc(a)
  BY <1>2, <1>3 DEF WithOutputs, Transducer, Relabelled
<1>5. \A a \in two : Arc(a)
  BY <1>2, <1>3 DEF WithInputs, Transducer, Relabelled
<1> HIDE DEF one, two
<1>6. \A q \in Joined({a \in one : a.out # EPSILON}, {a \in two : a.in # EPSILON}) : Pair(q)
  BY <1>4, <1>5 DEF Joined
<1>7. \A q \in FirstAlone({a \in one : a.out = EPSILON}) : Pair(q)
  <2> TAKE q \in FirstAlone({a \in one : a.out = EPSILON})
  <2>1. PICK a \in one, s \in States : q = Between(<<a.from, s>>, a, <<a.to, s>>)
    BY DEF FirstAlone, Between
  <2> QED  BY <1>4, <2>1 DEF Between
<1>8. \A q \in SecondAlone({a \in two : a.in = EPSILON}) : Pair(q)
  <2> TAKE q \in SecondAlone({a \in two : a.in = EPSILON})
  <2>1. PICK a \in two, s \in States : q = Between(<<s, a.from>>, a, <<s, a.to>>)
    BY DEF SecondAlone, Between
  <2> QED  BY <1>5, <2>1 DEF Between
<1>9. \A q \in ComposedArcs(one, two) : Pair(q)
  BY <1>6, <1>7, <1>8 DEF ComposedArcs
<1>10. IsComposed(t1')
  BY <1>1, <1>2, <1>9 DEF IsComposed, Transducer
<1> QED  BY <1>1, <1>10 DEF TypeOK, IsComposed

\* What is put back afterwards is in the alphabet.
LEMMA TypesRevert == TInv /\ Revert => TypeOK' /\ IsComposed(t1')
<1> SUFFICES ASSUME TInv, Revert PROVE TypeOK' /\ IsComposed(t1')
  OBVIOUS
<1> DEFINE Pairs(A) == [from : States \X States, in : A, out : A,
                        to : States \X States, weight : Nat]
<1>1. /\ call' = call /\ call \in Calls /\ given1' = given1 /\ given2' = given2
      /\ IsTransducer(given1) /\ IsTransducer(given2) /\ pc' = "done" /\ IsComposed(t1)
      /\ t1' = EveryArc(FlagsVoiced(FlagsDecoded(t1)), SingleIdentityReplaced)
  BY DEF TInv, TypeOK, Revert
<1> DEFINE d == FlagsDecoded(t1)
           v == FlagsVoiced(d)
<1>2. IsComposed(d)
  <2>1. decode_flag(UNKNOWN) = UNKNOWN
    BY WildApart, CodeIsALetter DEF decode_flag
  <2> DEFINE A == {decode_flag(x) : x \in t1.alphabet}
             arcs == {Relabelled(a, decode_flag(a.in), decode_flag(a.out)) : a \in t1.arcs}
  <2>2. UNKNOWN \in A
    BY <1>1, <2>1 DEF IsComposed
  <2>3. \A x \in t1.alphabet : decode_flag(x) \in A
    OBVIOUS
  <2> HIDE DEF A
  <2>4. \A a \in arcs : a \in Pairs(A)
    BY <1>1, <2>3 DEF IsComposed, Relabelled
  <2>5. Recoded(t1, decode_flag) = Transducer(A, arcs)
    BY DEF Recoded, A
  <2>6. IsComposed(Recoded(t1, decode_flag))
    BY <2>2, <2>4, <2>5 DEF IsComposed, Transducer
  <2> QED  BY <1>1, <2>6 DEF FlagsDecoded
<1> HIDE DEF d
<1>3. IsComposed(v)
  <2> DEFINE arcs == {FlagOnBothSides(a) : a \in d.arcs}
  <2>1. \A a \in arcs : a \in Pairs(d.alphabet)
    BY <1>2 DEF IsComposed, FlagOnBothSides, Relabelled
  <2>2. IsComposed(EveryArc(d, FlagOnBothSides))
    BY <1>2, <2>1 DEF EveryArc, IsComposed, Transducer
  <2> QED  BY <1>2, <2>2 DEF FlagsVoiced
<1> HIDE DEF v
<1>4. IsComposed(EveryArc(v, SingleIdentityReplaced))
  <2> DEFINE arcs == {SingleIdentityReplaced(a) : a \in v.arcs}
  <2>1. \A a \in arcs : a \in Pairs(v.alphabet)
    BY <1>3 DEF IsComposed, SingleIdentityReplaced, Relabelled
  <2> QED  BY <1>3, <2>1 DEF EveryArc, IsComposed, Transducer
<1>5. IsComposed(t1')
  BY <1>1, <1>4 DEF d, v
<1> QED  BY <1>1, <1>5 DEF TypeOK, IsComposed

LEMMA NextKeepsTInv == TInv /\ [Next]_vars => TInv'
<1> SUFFICES ASSUME TInv, [Next]_vars PROVE TInv'
  OBVIOUS
<1>0. IInv'
  BY NextKeepsIInv DEF TInv
<1>1. CASE SilenceFlags
  BY <1>0, <1>1, TypesSilenceFlags DEF TInv, SilenceFlags
<1>2. CASE EncodeFlags
  BY <1>0, <1>2, TypesEncodeFlags DEF TInv, EncodeFlags
<1>3. CASE InsertSymbols
  BY <1>0, <1>3, TypesInsertSymbols DEF TInv, InsertSymbols
<1>4. CASE harmonize
  BY <1>0, <1>4, TypesHarmonize
     DEF TInv, harmonize, harmonize_identity_symbols, harmonize_unknown_symbols,
         add_symbols_to_alphabet
<1>5. CASE ComposeArcs
  BY <1>0, <1>5, TypesComposeArcs DEF TInv, ComposeArcs
<1>6. CASE Revert
  BY <1>0, <1>6, TypesRevert DEF TInv, Revert
<1>7. CASE UNCHANGED vars
  BY <1>0, <1>7 DEF TInv, TypeOK, vars
<1> QED  BY <1>1, <1>2, <1>3, <1>4, <1>5, <1>6, <1>7 DEF Next

(***************************************************************************)
(* The steps of compose hand each other transducers: every arc uses        *)
(* symbols of the alphabet, for all alphabets, flags and options, and in   *)
(* the result the states are pairs.                                        *)
(***************************************************************************)
THEOREM TypeCorrect == Spec => []TypeOK
<1>1. TInv => TypeOK
  BY DEF TInv
<1> QED  BY <1>1, InitTInv, NextKeepsTInv, PTL DEF Spec

-----------------------------------------------------------------------------
(* Flags as letters *)

\* encode_flag and decode_flag, in a call c that uses them.
Enc(c, x) == IF c.xerox_composition THEN encode_flag(x) ELSE x
Dec(c, x) == IF c.xerox_composition THEN decode_flag(x) ELSE x

\* Symbols that are nobody's code.
Plain(c) == {x \in Symbols : c.xerox_composition => \A f \in Flags : Code[f] # x}

EncArc(c, a) == Relabelled(a, Enc(c, a.in), Enc(c, a.out))
CodedArcs(c, arcs) == {EncArc(c, a) : a \in arcs}
CodedSet(c, M) == {Enc(c, k) : k \in M}

\* An arc is its five parts.
IsArc(a) == a = Relabelled(a, a.in, a.out)
PlainArc(c, a) == IsArc(a) /\ a.in \in Plain(c) /\ a.out \in Plain(c)

LEMMA BasicIsPlain ==
  ASSUME NEW c, NEW x \in {EPSILON, IDENTITY, UNKNOWN}
  PROVE  x \in Plain(c) /\ Enc(c, x) = x /\ Dec(c, x) = x
<1>1. x \in Symbols /\ x \notin Flags /\ x \notin Letters
  BY SymbolsApart DEF Symbols
<1>2. \A f \in Flags : Code[f] # x
  BY <1>1, CodeIsALetter
<1> QED  BY <1>1, <1>2 DEF Plain, Enc, Dec, encode_flag, decode_flag

\* Decoding undoes encoding.
LEMMA DecodeEncoded ==
  ASSUME NEW c, NEW x \in Plain(c)
  PROVE  Dec(c, Enc(c, x)) = x
<1>1. CASE ~c.xerox_composition
  BY <1>1 DEF Dec, Enc
<1>2. CASE c.xerox_composition /\ x \in Flags
  <2>1. \A f \in Flags : Code[f] = Code[x] => f = x
    BY <1>2, CodeIsInjective
  <2>2. (CHOOSE f \in Flags : Code[f] = Code[x]) = x
    BY <1>2, <2>1
  <2> QED  BY <1>2, <2>2 DEF Dec, Enc, encode_flag, decode_flag
<1>3. CASE c.xerox_composition /\ x \notin Flags
  BY <1>3 DEF Dec, Enc, encode_flag, decode_flag, Plain
<1> QED  BY <1>1, <1>2, <1>3

\* So two symbols are encoded alike only if they are one, and special symbols are
\* told apart as before.
LEMMA EncodedApart ==
  ASSUME NEW c
  PROVE  /\ \A x, y \in Plain(c) : Enc(c, x) = Enc(c, y) => x = y
         /\ \A x \in Plain(c) : /\ Enc(c, x) = EPSILON <=> x = EPSILON
                                /\ Enc(c, x) = IDENTITY <=> x = IDENTITY
                                /\ Enc(c, x) = UNKNOWN <=> x = UNKNOWN
<1>1. \A x \in Plain(c) : Dec(c, Enc(c, x)) = x
  BY DecodeEncoded
<1>2. \A x, y \in Plain(c) : Enc(c, x) = Enc(c, y) => x = y
  BY <1>1
<1>3. \A x \in {EPSILON, IDENTITY, UNKNOWN} : x \in Plain(c) /\ Enc(c, x) = x
  BY BasicIsPlain
<1> QED  BY <1>2, <1>3

LEMMA EncodedArc ==
  ASSUME NEW c, NEW a, PlainArc(c, a)
  PROVE  /\ EncArc(c, a).in = Enc(c, a.in) /\ EncArc(c, a).out = Enc(c, a.out)
         /\ EncArc(c, a).in = UNKNOWN <=> a.in = UNKNOWN
         /\ EncArc(c, a).out = UNKNOWN <=> a.out = UNKNOWN
         /\ EncArc(c, a).in = IDENTITY <=> a.in = IDENTITY
         /\ \A u, v : EncArc(c, Relabelled(a, u, v))
                        = Relabelled(EncArc(c, a), Enc(c, u), Enc(c, v))
<1>1. EncArc(c, a).in = Enc(c, a.in) /\ EncArc(c, a).out = Enc(c, a.out)
  BY DEF EncArc, Relabelled
<1>2. a.in \in Plain(c) /\ a.out \in Plain(c)
  BY DEF PlainArc
<1>3. \A u, v : EncArc(c, Relabelled(a, u, v))
                  = Relabelled(EncArc(c, a), Enc(c, u), Enc(c, v))
  BY DEF EncArc, Relabelled
<1> QED  BY <1>1, <1>2, <1>3, EncodedApart
LEMMA CodedIdentities ==
  ASSUME NEW c, NEW arcs, \A a \in arcs : PlainArc(c, a), NEW M
  PROVE  IdentityArcs(CodedArcs(c, arcs), CodedSet(c, M)) = CodedArcs(c, IdentityArcs(arcs, M))
<1> DEFINE coded == IdentityArcs(CodedArcs(c, arcs), CodedSet(c, M))
           plain == IdentityArcs(arcs, M)
<1>1. ASSUME NEW a \in arcs, a.in = IDENTITY, NEW k \in M
      PROVE  /\ Relabelled(EncArc(c, a), Enc(c, k), Enc(c, k)) = EncArc(c, Relabelled(a, k, k))
             /\ Relabelled(a, k, k) \in plain
             /\ Relabelled(EncArc(c, a), Enc(c, k), Enc(c, k)) \in coded
  <2>1. EncArc(c, a) \in CodedArcs(c, arcs) /\ Enc(c, k) \in CodedSet(c, M)
    BY DEF CodedArcs, CodedSet
  <2>2. EncArc(c, a).in = IDENTITY
    BY <1>1, EncodedArc
  <2>3. Relabelled(a, k, k) \in plain
    BY <1>1 DEF IdentityArcs
  <2>4. Relabelled(EncArc(c, a), Enc(c, k), Enc(c, k)) \in coded
    BY <2>1, <2>2 DEF IdentityArcs
  <2> QED  BY <2>3, <2>4, EncodedArc
<1>2. ASSUME NEW h \in coded PROVE h \in CodedArcs(c, plain)
  <2>1. PICK d \in CodedArcs(c, arcs), j \in CodedSet(c, M) :
               d.in = IDENTITY /\ h = Relabelled(d, j, j)
    BY DEF IdentityArcs
  <2>2. PICK a \in arcs : d = EncArc(c, a)
    BY DEF CodedArcs
  <2>3. PICK k \in M : j = Enc(c, k)
    BY DEF CodedSet
  <2>4. a.in = IDENTITY
    BY <2>1, <2>2, EncodedArc
  <2> HIDE DEF plain
  <2> QED  BY <1>1, <2>1, <2>2, <2>3, <2>4 DEF CodedArcs
<1>3. ASSUME NEW h \in CodedArcs(c, plain) PROVE h \in coded
  <2>1. PICK b \in plain : h = EncArc(c, b)
    BY DEF CodedArcs
  <2>2. PICK a \in arcs, k \in M : a.in = IDENTITY /\ b = Relabelled(a, k, k)
    BY <2>1 DEF IdentityArcs
  <2> HIDE DEF coded
  <2> QED  BY <1>1, <2>1, <2>2
<1> HIDE DEF coded, plain
<1>4. coded = CodedArcs(c, plain)
  BY <1>2, <1>3
<1> QED  BY <1>4 DEF coded, plain

LEMMA CodedFrom ==
  ASSUME NEW c, NEW arcs, \A a \in arcs : PlainArc(c, a), NEW M
  PROVE  FromMissing(CodedArcs(c, arcs), CodedSet(c, M)) = CodedArcs(c, FromMissing(arcs, M))
<1> DEFINE coded == FromMissing(CodedArcs(c, arcs), CodedSet(c, M))
           plain == FromMissing(arcs, M)
<1>1. ASSUME NEW a \in arcs, a.in = UNKNOWN, NEW k \in M
      PROVE  /\ Relabelled(EncArc(c, a), Enc(c, k), EncArc(c, a).out) = EncArc(c, Relabelled(a, k, a.out))
             /\ Relabelled(a, k, a.out) \in plain
             /\ Relabelled(EncArc(c, a), Enc(c, k), EncArc(c, a).out) \in coded
  <2>1. EncArc(c, a) \in CodedArcs(c, arcs) /\ Enc(c, k) \in CodedSet(c, M)
    BY DEF CodedArcs, CodedSet
  <2>2. EncArc(c, a).in = UNKNOWN
    BY <1>1, EncodedArc
  <2>3. Relabelled(a, k, a.out) \in plain
    BY <1>1 DEF FromMissing
  <2>4. Relabelled(EncArc(c, a), Enc(c, k), EncArc(c, a).out) \in coded
    BY <2>1, <2>2 DEF FromMissing
  <2> QED  BY <2>3, <2>4, EncodedArc
<1>2. ASSUME NEW h \in coded PROVE h \in CodedArcs(c, plain)
  <2>1. PICK d \in CodedArcs(c, arcs), j \in CodedSet(c, M) :
               d.in = UNKNOWN /\ h = Relabelled(d, j, d.out)
    BY DEF FromMissing
  <2>2. PICK a \in arcs : d = EncArc(c, a)
    BY DEF CodedArcs
  <2>3. PICK k \in M : j = Enc(c, k)
    BY DEF CodedSet
  <2>4. a.in = UNKNOWN
    BY <2>1, <2>2, EncodedArc
  <2> HIDE DEF plain
  <2> QED  BY <1>1, <2>1, <2>2, <2>3, <2>4 DEF CodedArcs
<1>3. ASSUME NEW h \in CodedArcs(c, plain) PROVE h \in coded
  <2>1. PICK b \in plain : h = EncArc(c, b)
    BY DEF CodedArcs
  <2>2. PICK a \in arcs, k \in M : a.in = UNKNOWN /\ b = Relabelled(a, k, a.out)
    BY <2>1 DEF FromMissing
  <2> HIDE DEF coded
  <2> QED  BY <1>1, <2>1, <2>2
<1> HIDE DEF coded, plain
<1>4. coded = CodedArcs(c, plain)
  BY <1>2, <1>3
<1> QED  BY <1>4 DEF coded, plain

LEMMA CodedTo ==
  ASSUME NEW c, NEW arcs, \A a \in arcs : PlainArc(c, a), NEW M
  PROVE  ToMissing(CodedArcs(c, arcs), CodedSet(c, M)) = CodedArcs(c, ToMissing(arcs, M))
<1> DEFINE coded == ToMissing(CodedArcs(c, arcs), CodedSet(c, M))
           plain == ToMissing(arcs, M)
<1>1. ASSUME NEW a \in arcs, a.out = UNKNOWN, NEW k \in M
      PROVE  /\ Relabelled(EncArc(c, a), EncArc(c, a).in, Enc(c, k)) = EncArc(c, Relabelled(a, a.in, k))
             /\ Relabelled(a, a.in, k) \in plain
             /\ Relabelled(EncArc(c, a), EncArc(c, a).in, Enc(c, k)) \in coded
  <2>1. EncArc(c, a) \in CodedArcs(c, arcs) /\ Enc(c, k) \in CodedSet(c, M)
    BY DEF CodedArcs, CodedSet
  <2>2. EncArc(c, a).out = UNKNOWN
    BY <1>1, EncodedArc
  <2>3. Relabelled(a, a.in, k) \in plain
    BY <1>1 DEF ToMissing
  <2>4. Relabelled(EncArc(c, a), EncArc(c, a).in, Enc(c, k)) \in coded
    BY <2>1, <2>2 DEF ToMissing
  <2> QED  BY <2>3, <2>4, EncodedArc
<1>2. ASSUME NEW h \in coded PROVE h \in CodedArcs(c, plain)
  <2>1. PICK d \in CodedArcs(c, arcs), j \in CodedSet(c, M) :
               d.out = UNKNOWN /\ h = Relabelled(d, d.in, j)
    BY DEF ToMissing
  <2>2. PICK a \in arcs : d = EncArc(c, a)
    BY DEF CodedArcs
  <2>3. PICK k \in M : j = Enc(c, k)
    BY DEF CodedSet
  <2>4. a.out = UNKNOWN
    BY <2>1, <2>2, EncodedArc
  <2> HIDE DEF plain
  <2> QED  BY <1>1, <2>1, <2>2, <2>3, <2>4 DEF CodedArcs
<1>3. ASSUME NEW h \in CodedArcs(c, plain) PROVE h \in coded
  <2>1. PICK b \in plain : h = EncArc(c, b)
    BY DEF CodedArcs
  <2>2. PICK a \in arcs, k \in M : a.out = UNKNOWN /\ b = Relabelled(a, a.in, k)
    BY <2>1 DEF ToMissing
  <2> HIDE DEF coded
  <2> QED  BY <1>1, <2>1, <2>2
<1> HIDE DEF coded, plain
<1>4. coded = CodedArcs(c, plain)
  BY <1>2, <1>3
<1> QED  BY <1>4 DEF coded, plain
\* Here two symbols that differ must do so encoded, too.
LEMMA CodedBetween ==
  ASSUME NEW c, NEW arcs, \A a \in arcs : PlainArc(c, a), NEW M, M \subseteq Plain(c)
  PROVE  BetweenMissing(CodedArcs(c, arcs), CodedSet(c, M)) = CodedArcs(c, BetweenMissing(arcs, M))
<1> DEFINE coded == BetweenMissing(CodedArcs(c, arcs), CodedSet(c, M))
           plain == BetweenMissing(arcs, M)
<1>1. ASSUME NEW a \in arcs, a.in = UNKNOWN, a.out = UNKNOWN,
             NEW k \in M, NEW j \in M, k # j
      PROVE  /\ Relabelled(EncArc(c, a), Enc(c, k), Enc(c, j)) = EncArc(c, Relabelled(a, k, j))
             /\ Relabelled(a, k, j) \in plain
             /\ Relabelled(EncArc(c, a), Enc(c, k), Enc(c, j)) \in coded
  <2>1. /\ EncArc(c, a) \in CodedArcs(c, arcs)
        /\ Enc(c, k) \in CodedSet(c, M) /\ Enc(c, j) \in CodedSet(c, M)
    BY DEF CodedArcs, CodedSet
  <2>2. EncArc(c, a).in = UNKNOWN /\ EncArc(c, a).out = UNKNOWN
    BY <1>1, EncodedArc
  <2>3. Enc(c, k) # Enc(c, j)
    BY <1>1, EncodedApart
  <2>4. <<k, j>> \in {p \in M \X M : p[1] # p[2]}
    BY <1>1
  <2>5. <<Enc(c, k), Enc(c, j)>> \in
           {p \in CodedSet(c, M) \X CodedSet(c, M) : p[1] # p[2]}
    BY <2>1, <2>3
  <2>6. Relabelled(a, k, j) \in plain
    BY <1>1, <2>4 DEF BetweenMissing
  <2>7. Relabelled(EncArc(c, a), Enc(c, k), Enc(c, j)) \in coded
    BY <2>1, <2>2, <2>5 DEF BetweenMissing
  <2> QED  BY <2>6, <2>7, EncodedArc
<1>2. ASSUME NEW h \in coded PROVE h \in CodedArcs(c, plain)
  <2>1. PICK d \in CodedArcs(c, arcs), u \in CodedSet(c, M), v \in CodedSet(c, M) :
               d.in = UNKNOWN /\ d.out = UNKNOWN /\ u # v /\ h = Relabelled(d, u, v)
    BY DEF BetweenMissing
  <2>2. PICK a \in arcs : d = EncArc(c, a)
    BY DEF CodedArcs
  <2>3. PICK k \in M, j \in M : u = Enc(c, k) /\ v = Enc(c, j)
    BY DEF CodedSet
  <2>4. a.in = UNKNOWN /\ a.out = UNKNOWN /\ k # j
    BY <2>1, <2>2, <2>3, EncodedArc
  <2>5. h = Relabelled(EncArc(c, a), Enc(c, k), Enc(c, j))
    BY <2>1, <2>2, <2>3
  <2>6. h = EncArc(c, Relabelled(a, k, j)) /\ Relabelled(a, k, j) \in plain
    BY <1>1, <2>4, <2>5
  <2> HIDE DEF plain
  <2> QED  BY <2>6 DEF CodedArcs
<1>3. ASSUME NEW h \in CodedArcs(c, plain) PROVE h \in coded
  <2>1. PICK b \in plain : h = EncArc(c, b)
    BY DEF CodedArcs
  <2>2. PICK a \in arcs, k \in M, j \in M :
               a.in = UNKNOWN /\ a.out = UNKNOWN /\ k # j /\ b = Relabelled(a, k, j)
    BY <2>1 DEF BetweenMissing
  <2> HIDE DEF coded
  <2> QED  BY <1>1, <2>1, <2>2
<1> HIDE DEF coded, plain
<1>4. coded = CodedArcs(c, plain)
  BY <1>2, <1>3
<1> QED  BY <1>4 DEF coded, plain

LEMMA CodedUnion ==
  ASSUME NEW c, NEW S, NEW T
  PROVE  CodedArcs(c, S) \union CodedArcs(c, T) = CodedArcs(c, S \union T)
  BY DEF CodedArcs

LEMMA PlainCopies ==
  ASSUME NEW c, NEW arcs, \A a \in arcs : PlainArc(c, a), NEW M, M \subseteq Plain(c)
  PROVE  /\ \A a \in WithIdentities(arcs, M) : PlainArc(c, a)
         /\ \A a \in Harmonized(arcs, M) : PlainArc(c, a)
<1> DEFINE Fits(a) == PlainArc(c, a)
           Id == WithIdentities(arcs, M)
<1>1. \A a : \A u, v \in Plain(c) : Fits(Relabelled(a, u, v))
  BY DEF PlainArc, IsArc, Relabelled
<1>2. \A a : Fits(a) => a.in \in Plain(c) /\ a.out \in Plain(c)
  BY DEF PlainArc
<1>3. \A a \in arcs : Fits(a)
  OBVIOUS
<1> HIDE DEF Fits
<1>4. \A a \in Id : Fits(a)
  BY <1>1, <1>3 DEF WithIdentities, IdentityArcs
<1> HIDE DEF Id
<1>5. \A a \in FromMissing(Id, M) : Fits(a)
  BY <1>1, <1>2, <1>4 DEF FromMissing
<1>6. \A a \in ToMissing(Id, M) : Fits(a)
  BY <1>1, <1>2, <1>4 DEF ToMissing
<1>7. \A a \in BetweenMissing(Id, M) : Fits(a)
  BY <1>1 DEF BetweenMissing
<1>8. \A a \in Harmonized(arcs, M) : Fits(a)
  BY <1>4, <1>5, <1>6, <1>7 DEF Harmonized, UnknownArcs, Id
<1> QED  BY <1>4, <1>8 DEF Fits, Id

\* Harmonizing coded transducers gives the coded ones of what harmonizing gives where
\* flags are letters.
LEMMA CodedHarmonized ==
  ASSUME NEW c, NEW arcs, \A a \in arcs : PlainArc(c, a), NEW M, M \subseteq Plain(c)
  PROVE  Harmonized(CodedArcs(c, arcs), CodedSet(c, M)) = CodedArcs(c, Harmonized(arcs, M))
<1> DEFINE Id == WithIdentities(arcs, M)
<1>1. \A a \in Id : PlainArc(c, a)
  BY PlainCopies
<1>2. WithIdentities(CodedArcs(c, arcs), CodedSet(c, M)) = CodedArcs(c, Id)
  BY CodedIdentities, CodedUnion DEF WithIdentities
<1> HIDE DEF Id
<1>3. /\ FromMissing(CodedArcs(c, Id), CodedSet(c, M)) = CodedArcs(c, FromMissing(Id, M))
      /\ ToMissing(CodedArcs(c, Id), CodedSet(c, M)) = CodedArcs(c, ToMissing(Id, M))
      /\ BetweenMissing(CodedArcs(c, Id), CodedSet(c, M)) = CodedArcs(c, BetweenMissing(Id, M))
  BY <1>1, CodedFrom, CodedTo, CodedBetween
<1> DEFINE from == FromMissing(Id, M)
           to == ToMissing(Id, M)
           both == BetweenMissing(Id, M)
<1>4. UnknownArcs(CodedArcs(c, Id), CodedSet(c, M)) = CodedArcs(c, UnknownArcs(Id, M))
  <2>1. UnknownArcs(Id, M) = (from \union to) \union both
    BY DEF UnknownArcs
  <2>2. UnknownArcs(CodedArcs(c, Id), CodedSet(c, M))
          = (CodedArcs(c, from) \union CodedArcs(c, to)) \union CodedArcs(c, both)
    BY <1>3 DEF UnknownArcs
  <2> HIDE DEF from, to, both
  <2>3. CodedArcs(c, from) \union CodedArcs(c, to) = CodedArcs(c, from \union to)
    BY CodedUnion
  <2>4. CodedArcs(c, from \union to) \union CodedArcs(c, both)
          = CodedArcs(c, (from \union to) \union both)
    BY CodedUnion
  <2> QED  BY <2>1, <2>2, <2>3, <2>4
<1> QED  BY <1>2, <1>4, CodedUnion DEF Harmonized, Id
-----------------------------------------------------------------------------
(***************************************************************************)
(* The transducers on their way, as functions of the call c.               *)
(***************************************************************************)
Sil(c, x) == IF c.flag_is_epsilon THEN FlagAsEpsilon(x) ELSE x
Heard1(c) == {Relabelled(a, a.in, Sil(c, a.out)) : a \in c.first.arcs}
Heard2(c) == {Relabelled(a, Sil(c, a.in), a.out) : a \in c.second.arcs}

\* What a transducer over A is told of the symbols of one over B.
Told(c, A, B) == A \union (IF c.harmonize THEN B \intersect Specials ELSE B)
Known1(c) == Told(c, c.first.alphabet, c.second.alphabet)
Known2(c) == Told(c, c.second.alphabet, c.first.alphabet)
Known(c) == Known1(c) \union Known2(c)

\* Any, for the call c.
AnyIn(c) == IF c.xerox_composition
            THEN Letters \union (Flags \intersect (c.first.alphabet \union c.second.alphabet))
            ELSE Letters

Ready1(c) == Harmonized(Heard1(c), AnyIn(c) \intersect (Known2(c) \ Known1(c)))
Ready2(c) == Harmonized(Heard2(c), AnyIn(c) \intersect (Known1(c) \ Known2(c)))

Coded(c, A, arcs) == Transducer(CodedSet(c, A), CodedArcs(c, arcs))

\* The arcs as the back-end gets them: identity is matched with unknown.
Outward(t) == WithOutputs(t, IdentityAsUnknown).arcs
Inward(t) == WithInputs(t, IdentityAsUnknown).arcs

Composition(c) ==
    Transducer(CodedSet(c, Known(c)),
               ComposedArcs(Outward(Coded(c, Known(c), Ready1(c))),
                            Inward(Coded(c, Known(c), Ready2(c)))))

Decoded(c) == IF c.xerox_composition THEN Recoded(Composition(c), decode_flag)
              ELSE Composition(c)
Voiced(c) == IF c.flag_is_epsilon THEN EveryArc(Decoded(c), FlagOnBothSides) ELSE Decoded(c)
Result(c) == EveryArc(Voiced(c), SingleIdentityReplaced)

\* No symbol looks like an encoded flag.
NoneReserved(c) ==
    c.xerox_composition =>
        \A f \in Flags : Code[f] \notin c.first.alphabet \union c.second.alphabet

CInv ==
    /\ call \in Calls
    /\ pc = "called" => t1 = call.first /\ t2 = call.second
    /\ pc = "encode" => /\ t1 = Transducer(call.first.alphabet, Heard1(call))
                        /\ t2 = Transducer(call.second.alphabet, Heard2(call))
    /\ pc \notin {"called", "encode", "thrown"} => NoneReserved(call)
    /\ pc = "insert" => /\ t1 = Coded(call, call.first.alphabet, Heard1(call))
                        /\ t2 = Coded(call, call.second.alphabet, Heard2(call))
    /\ pc \in {"identities", "unknowns", "alphabets"} =>
                        /\ given1 = Coded(call, Known1(call), Heard1(call))
                        /\ given2 = Coded(call, Known2(call), Heard2(call))
    /\ pc = "harmonized" => /\ t1 = Coded(call, Known(call), Ready1(call))
                            /\ t2 = Coded(call, Known(call), Ready2(call))
    /\ pc = "revert" => t1 = Composition(call)
    /\ pc = "done" => t1 = Result(call)

\* What is known of the arcs and alphabets of a call.
LEMMA CallFacts ==
  ASSUME NEW c \in Calls
  PROVE  /\ c.first.alphabet \subseteq Symbols /\ c.second.alphabet \subseteq Symbols
         /\ {EPSILON, IDENTITY, UNKNOWN} \subseteq c.first.alphabet
         /\ {EPSILON, IDENTITY, UNKNOWN} \subseteq c.second.alphabet
         /\ c.first = Transducer(c.first.alphabet, c.first.arcs)
         /\ c.second = Transducer(c.second.alphabet, c.second.arcs)
         /\ \A a \in c.first.arcs : /\ IsArc(a) /\ a \in Arcs
                                    /\ a.in \in c.first.alphabet /\ a.out \in c.first.alphabet
                                    /\ a.in = IDENTITY <=> a.out = IDENTITY
         /\ \A a \in c.second.arcs : /\ IsArc(a) /\ a \in Arcs
                                     /\ a.in \in c.second.alphabet /\ a.out \in c.second.alphabet
                                     /\ a.in = IDENTITY <=> a.out = IDENTITY
<1>1. IsTransducer(c.first) /\ IsTransducer(c.second)
  BY CallsAreOfTransducers
<1>2. \A a \in Arcs : IsArc(a)
  BY DEF Arcs, IsArc, Relabelled
<1> QED  BY <1>1, <1>2 DEF IsTransducer, Transducer

LEMMA KnownFacts ==
  ASSUME NEW c \in Calls
  PROVE  /\ c.first.alphabet \subseteq Known1(c) /\ c.second.alphabet \subseteq Known2(c)
         /\ Known(c) = c.first.alphabet \union c.second.alphabet
  BY DEF Known1, Known2, Told, Known

\* Every arc that is composed is of the alphabet of its transducer.
LEMMA HeardFacts ==
  ASSUME NEW c \in Calls
  PROVE  /\ \A a \in Heard1(c) : /\ IsArc(a)
                                 /\ a.in \in c.first.alphabet /\ a.out \in c.first.alphabet
                                 /\ a.in = IDENTITY <=> a.out = IDENTITY
         /\ \A a \in Heard2(c) : /\ IsArc(a)
                                 /\ a.in \in c.second.alphabet /\ a.out \in c.second.alphabet
                                 /\ a.in = IDENTITY <=> a.out = IDENTITY
<1>1. \A x : /\ Sil(c, x) = x \/ Sil(c, x) = EPSILON
             /\ Sil(c, x) = IDENTITY <=> x = IDENTITY
  BY BasicSymbols, SymbolsApart DEF Sil, FlagAsEpsilon, Wild
<1>2. \A a : \A u, v : LET b == Relabelled(a, u, v) IN IsArc(b) /\ b.in = u /\ b.out = v
  BY DEF Relabelled, IsArc
<1>3. ASSUME NEW a \in c.first.arcs
      PROVE  LET b == Relabelled(a, a.in, Sil(c, a.out))
             IN  /\ IsArc(b) /\ b.in \in c.first.alphabet /\ b.out \in c.first.alphabet
                 /\ b.in = IDENTITY <=> b.out = IDENTITY
  BY <1>1, <1>2, CallFacts
<1>4. ASSUME NEW a \in c.second.arcs
      PROVE  LET b == Relabelled(a, Sil(c, a.in), a.out)
             IN  /\ IsArc(b) /\ b.in \in c.second.alphabet /\ b.out \in c.second.alphabet
                 /\ b.in = IDENTITY <=> b.out = IDENTITY
  BY <1>1, <1>2, CallFacts
<1> QED  BY <1>3, <1>4 DEF Heard1, Heard2

LEMMA AlphabetsArePlain ==
  ASSUME NEW c \in Calls, NoneReserved(c)
  PROVE  c.first.alphabet \union c.second.alphabet \subseteq Plain(c)
  BY CallFacts DEF NoneReserved, Plain

LEMMA HeardIsPlain ==
  ASSUME NEW c \in Calls, NoneReserved(c)
  PROVE  /\ \A a \in Heard1(c) : PlainArc(c, a)
         /\ \A a \in Heard2(c) : PlainArc(c, a)
  BY HeardFacts, AlphabetsArePlain DEF PlainArc
-----------------------------------------------------------------------------
(* The steps of compose *)

LEMMA SilencedIsHeard ==
  ASSUME CInv
  PROVE  /\ FlagsSilenced(call.first, "output") = Transducer(call.first.alphabet, Heard1(call))
         /\ FlagsSilenced(call.second, "input") = Transducer(call.second.alphabet, Heard2(call))
<1> DEFINE c == call
<1>0. c \in Calls
  BY DEF CInv
<1> HIDE DEF c
<1>1. CASE c.flag_is_epsilon
  <2>1. \A x : Sil(c, x) = FlagAsEpsilon(x)
    BY <1>1 DEF Sil
  <2>2. /\ Heard1(c) = {Relabelled(a, a.in, FlagAsEpsilon(a.out)) : a \in c.first.arcs}
        /\ Heard2(c) = {Relabelled(a, FlagAsEpsilon(a.in), a.out) : a \in c.second.arcs}
    BY <2>1 DEF Heard1, Heard2
  <2> QED  BY <1>1, <2>2 DEF FlagsSilenced, WithOutputs, WithInputs, c
<1>2. CASE ~c.flag_is_epsilon
  <2>1. \A a \in c.first.arcs : Relabelled(a, a.in, Sil(c, a.out)) = a
    BY <1>0, <1>2, CallFacts DEF Sil, IsArc
  <2>2. \A a \in c.second.arcs : Relabelled(a, Sil(c, a.in), a.out) = a
    BY <1>0, <1>2, CallFacts DEF Sil, IsArc
  <2>3. Heard1(c) = c.first.arcs /\ Heard2(c) = c.second.arcs
    BY <2>1, <2>2 DEF Heard1, Heard2
  <2>4. /\ c.first = Transducer(c.first.alphabet, Heard1(c))
        /\ c.second = Transducer(c.second.alphabet, Heard2(c))
    BY <1>0, <2>3, CallFacts
  <2> QED  BY <1>2, <2>4 DEF FlagsSilenced, c
<1> QED  BY <1>1, <1>2 DEF c

LEMMA CSilence == CInv /\ SilenceFlags => CInv'
<1> SUFFICES ASSUME CInv, SilenceFlags PROVE CInv'
  OBVIOUS
<1>1. /\ call' = call /\ call \in Calls /\ pc' = "encode"
      /\ t1 = call.first /\ t2 = call.second
      /\ t1' = FlagsSilenced(t1, "output") /\ t2' = FlagsSilenced(t2, "input")
  BY DEF CInv, SilenceFlags
<1>2. /\ t1' = Transducer(call.first.alphabet, Heard1(call))
      /\ t2' = Transducer(call.second.alphabet, Heard2(call))
  BY <1>1, SilencedIsHeard
<1> QED  BY <1>1, <1>2 DEF CInv

LEMMA CEncode == CInv /\ EncodeFlags => CInv'
<1> SUFFICES ASSUME CInv, EncodeFlags PROVE CInv'
  OBVIOUS
<1> DEFINE c == call
           S1 == Transducer(c.first.alphabet, Heard1(c))
           S2 == Transducer(c.second.alphabet, Heard2(c))
<1>1. /\ call' = c /\ c \in Calls /\ t1 = S1 /\ t2 = S2 /\ pc' \in {"insert", "thrown"}
  BY DEF CInv, EncodeFlags
<1>2. /\ S1.alphabet = c.first.alphabet /\ S1.arcs = Heard1(c)
      /\ S2.alphabet = c.second.alphabet /\ S2.arcs = Heard2(c)
  BY DEF Transducer
<1>3. CASE c.xerox_composition
  <2>1. \A x : Enc(c, x) = encode_flag(x)
    BY <1>3 DEF Enc
  <2> HIDE DEF S1, S2
  <2>2. /\ Recoded(S1, encode_flag) = Coded(c, c.first.alphabet, Heard1(c))
        /\ Recoded(S2, encode_flag) = Coded(c, c.second.alphabet, Heard2(c))
    BY <1>2, <2>1 DEF Recoded, Coded, CodedSet, CodedArcs, EncArc
  <2>3. pc' = "insert" => ~Reserved(S1) /\ ~Reserved(S2)
    BY <1>1, <1>3 DEF EncodeFlags
  <2>4. pc' = "insert" => NoneReserved(c)
    BY <1>2, <2>3 DEF Reserved, NoneReserved
  <2>5. pc' = "insert" => t1' = Recoded(S1, encode_flag) /\ t2' = Recoded(S2, encode_flag)
    BY <1>1, <1>3, <2>3 DEF EncodeFlags
  <2> QED  BY <1>1, <2>2, <2>4, <2>5 DEF CInv
<1>4. CASE ~c.xerox_composition
  <2>1. NoneReserved(c) /\ pc' = "insert" /\ t1' = S1 /\ t2' = S2
    BY <1>1, <1>4 DEF NoneReserved, EncodeFlags
  <2>2. \A x : Enc(c, x) = x
    BY <1>4 DEF Enc
  <2>3. \A A : CodedSet(c, A) = A
    BY <2>2 DEF CodedSet
  <2>4. \A a \in Heard1(c) \union Heard2(c) : EncArc(c, a) = a
    BY <1>1, <2>2, HeardFacts DEF EncArc, IsArc
  <2>5. CodedArcs(c, Heard1(c)) = Heard1(c) /\ CodedArcs(c, Heard2(c)) = Heard2(c)
    BY <2>4 DEF CodedArcs
  <2>6. /\ t1' = Coded(c, c.first.alphabet, Heard1(c))
        /\ t2' = Coded(c, c.second.alphabet, Heard2(c))
    BY <2>1, <2>3, <2>5 DEF Coded
  <2> QED  BY <1>1, <2>1, <2>6 DEF CInv
<1> QED  BY <1>3, <1>4

\* Special symbols are not encoded, and no code is one.
LEMMA CodedTold ==
  ASSUME NEW c \in Calls, NEW A, NEW B, B \subseteq Symbols
  PROVE  CodedSet(c, A) \union (IF c.harmonize THEN CodedSet(c, B) \intersect Specials
                                ELSE CodedSet(c, B))
           = CodedSet(c, Told(c, A, B))
<1>1. \A x \in B : Enc(c, x) \in Specials <=> x \in Specials
  BY CodeIsALetter, FlagsAreNotSpecial, SymbolsApart DEF Enc, encode_flag
<1>2. CodedSet(c, B) \intersect Specials = CodedSet(c, B \intersect Specials)
  BY <1>1 DEF CodedSet
<1>3. \A X : CodedSet(c, A) \union CodedSet(c, X) = CodedSet(c, A \union X)
  BY DEF CodedSet
<1> QED  BY <1>2, <1>3 DEF Told

LEMMA CInsert == CInv /\ InsertSymbols => CInv'
<1> SUFFICES ASSUME CInv, InsertSymbols PROVE CInv'
  OBVIOUS
<1> DEFINE c == call
           A1 == c.first.alphabet
           A2 == c.second.alphabet
<1>1. /\ call' = c /\ c \in Calls /\ NoneReserved(c) /\ pc' = "identities"
      /\ t1 = Coded(c, A1, Heard1(c)) /\ t2 = Coded(c, A2, Heard2(c))
      /\ given1' = Shared(t1, t2) /\ given2' = Shared(t2, t1)
  BY DEF CInv, InsertSymbols
<1>2. A1 \subseteq Symbols /\ A2 \subseteq Symbols
  BY <1>1, CallFacts
<1> HIDE DEF A1, A2
<1>3. \A A, B, arcs, other :
        Shared(Coded(c, A, arcs), Coded(c, B, other))
          = Transducer(CodedSet(c, A) \union
                         (IF c.harmonize THEN CodedSet(c, B) \intersect Specials
                          ELSE CodedSet(c, B)), CodedArcs(c, arcs))
  BY DEF Shared, insert_missing_symbols, WithAlphabet, Transducer, Coded
<1>4. /\ given1' = Coded(c, Told(c, A1, A2), Heard1(c))
      /\ given2' = Coded(c, Told(c, A2, A1), Heard2(c))
  BY <1>1, <1>2, <1>3, CodedTold DEF Coded
<1> QED  BY <1>1, <1>4 DEF CInv, Known1, Known2, A1, A2
\* The letters one coded alphabet lacks are the codes of what the plain one lacks.
LEMMA CodedLacking ==
  ASSUME NEW c \in Calls, NoneReserved(c),
         NEW A, A \subseteq c.first.alphabet \union c.second.alphabet,
         NEW B, B \subseteq c.first.alphabet \union c.second.alphabet
  PROVE  /\ Lacking(CodedSet(c, A), CodedSet(c, B)) = CodedSet(c, AnyIn(c) \intersect (B \ A))
         /\ AnyIn(c) \intersect (B \ A) \subseteq Plain(c)
<1>1. A \subseteq Plain(c) /\ B \subseteq Plain(c)
  BY AlphabetsArePlain
<1>2. \A x, y \in Plain(c) : Enc(c, x) = Enc(c, y) => x = y
  BY EncodedApart
<1>3. \A x \in B : Enc(c, x) \in CodedSet(c, A) <=> x \in A
  BY <1>1, <1>2 DEF CodedSet
<1>4. \A x \in B : Enc(c, x) \in Letters <=> x \in AnyIn(c)
  <2>1. \A x \in B : x \in Symbols /\ x \in c.first.alphabet \union c.second.alphabet
    BY CallFacts
  <2>2. CASE c.xerox_composition
    BY <2>1, <2>2, CodeIsALetter, SymbolsApart DEF Enc, encode_flag, AnyIn
  <2>3. CASE ~c.xerox_composition
    BY <2>3 DEF Enc, AnyIn
  <2> QED  BY <2>2, <2>3
<1>5. Lacking(CodedSet(c, A), CodedSet(c, B)) = CodedSet(c, AnyIn(c) \intersect (B \ A))
  BY <1>3, <1>4 DEF Lacking, CodedSet
<1> QED  BY <1>1, <1>5

LEMMA CHarmonize == IInv /\ CInv /\ harmonize => CInv'
<1> SUFFICES ASSUME IInv, CInv, harmonize PROVE CInv'
  OBVIOUS
<1> DEFINE c == call
<1>1. /\ call' = c /\ c \in Calls /\ NoneReserved(c)
      /\ given1' = given1 /\ given2' = given2
      /\ given1 = Coded(c, Known1(c), Heard1(c))
      /\ given2 = Coded(c, Known2(c), Heard2(c))
  BY DEF CInv, harmonize, harmonize_identity_symbols, harmonize_unknown_symbols,
         add_symbols_to_alphabet
<1>2. CASE harmonize_identity_symbols \/ harmonize_unknown_symbols
  BY <1>1, <1>2 DEF CInv, harmonize_identity_symbols, harmonize_unknown_symbols
<1>3. CASE add_symbols_to_alphabet
  <2>1. /\ pc' = "harmonized"
        /\ t1 = Transducer(given1.alphabet, Harmonized(given1.arcs, Missing1))
        /\ t2 = Transducer(given2.alphabet, Harmonized(given2.arcs, Missing2))
        /\ t1' = WithAlphabet(t1, t2.alphabet)
        /\ t2' = WithAlphabet(t2, t1.alphabet)
    BY <1>3 DEF IInv, add_symbols_to_alphabet
  <2>2. /\ given1.alphabet = CodedSet(c, Known1(c)) /\ given1.arcs = CodedArcs(c, Heard1(c))
        /\ given2.alphabet = CodedSet(c, Known2(c)) /\ given2.arcs = CodedArcs(c, Heard2(c))
    BY <1>1 DEF Coded, Transducer
  <2> DEFINE M1 == AnyIn(c) \intersect (Known2(c) \ Known1(c))
             M2 == AnyIn(c) \intersect (Known1(c) \ Known2(c))
  <2>3. /\ Known1(c) \subseteq c.first.alphabet \union c.second.alphabet
        /\ Known2(c) \subseteq c.first.alphabet \union c.second.alphabet
    BY <1>1, KnownFacts DEF Known
  <2>4. /\ Missing1 = CodedSet(c, M1) /\ M1 \subseteq Plain(c)
        /\ Missing2 = CodedSet(c, M2) /\ M2 \subseteq Plain(c)
    BY <1>1, <2>2, <2>3, CodedLacking DEF Missing1, Missing2
  <2> HIDE DEF M1, M2, c
  <2>5. /\ Harmonized(given1.arcs, Missing1) = CodedArcs(c, Harmonized(Heard1(c), M1))
        /\ Harmonized(given2.arcs, Missing2) = CodedArcs(c, Harmonized(Heard2(c), M2))
    BY <1>1, <2>2, <2>4, HeardIsPlain, CodedHarmonized
  <2>6. /\ t1'.alphabet = given1.alphabet \union given2.alphabet
        /\ t1' = Transducer(given1.alphabet \union given2.alphabet, Harmonized(given1.arcs, Missing1))
        /\ t2' = Transducer(given2.alphabet \union given1.alphabet, Harmonized(given2.arcs, Missing2))
    BY <2>1 DEF WithAlphabet, Transducer
  <2>7. /\ CodedSet(c, Known1(c)) \union CodedSet(c, Known2(c)) = CodedSet(c, Known(c))
        /\ CodedSet(c, Known2(c)) \union CodedSet(c, Known1(c)) = CodedSet(c, Known(c))
    BY DEF CodedSet, Known
  <2>8. /\ t1' = Coded(c, Known(c), Ready1(c))
        /\ t2' = Coded(c, Known(c), Ready2(c))
    BY <2>2, <2>5, <2>6, <2>7 DEF Coded, Ready1, Ready2, M1, M2
  <2> QED  BY <1>1, <2>1, <2>8 DEF CInv, c
<1> QED  BY <1>2, <1>3 DEF harmonize

LEMMA CComposeArcs == CInv /\ ComposeArcs => CInv'
<1> SUFFICES ASSUME CInv, ComposeArcs PROVE CInv'
  OBVIOUS
<1>1. /\ call' = call /\ call \in Calls /\ NoneReserved(call) /\ pc' = "revert"
      /\ t1 = Coded(call, Known(call), Ready1(call))
      /\ t2 = Coded(call, Known(call), Ready2(call))
      /\ t1' = Transducer(t1.alphabet, ComposedArcs(WithOutputs(t1, IdentityAsUnknown).arcs,
                                                    WithInputs(t2, IdentityAsUnknown).arcs))
  BY DEF CInv, ComposeArcs
<1>2. t1.alphabet = CodedSet(call, Known(call))
  BY <1>1 DEF Coded, Transducer
<1>3. t1' = Composition(call)
  BY <1>1, <1>2 DEF Composition, Outward, Inward
<1> QED  BY <1>1, <1>3 DEF CInv

LEMMA CRevert == CInv /\ Revert => CInv'
<1> SUFFICES ASSUME CInv, Revert PROVE CInv'
  OBVIOUS
<1>1. /\ call' = call /\ call \in Calls /\ NoneReserved(call) /\ pc' = "done"
      /\ t1 = Composition(call)
      /\ t1' = EveryArc(FlagsVoiced(FlagsDecoded(t1)), SingleIdentityReplaced)
  BY DEF CInv, Revert
<1>2. FlagsDecoded(t1) = Decoded(call)
  BY <1>1 DEF FlagsDecoded, Decoded
<1>3. FlagsVoiced(Decoded(call)) = Voiced(call)
  BY DEF FlagsVoiced, Voiced
<1>4. t1' = Result(call)
  BY <1>1, <1>2, <1>3 DEF Result
<1> QED  BY <1>1, <1>4 DEF CInv

LEMMA NextKeepsCInv == IInv /\ CInv /\ [Next]_vars => CInv'
<1> SUFFICES ASSUME IInv, CInv, [Next]_vars PROVE CInv'
  OBVIOUS
<1>1. CASE UNCHANGED vars
  BY <1>1 DEF CInv, vars
<1> QED  BY <1>1, CSilence, CEncode, CInsert, CHarmonize, CComposeArcs, CRevert DEF Next
-----------------------------------------------------------------------------
(***************************************************************************)
(* What harmonization makes of the arcs, and which of them composing       *)
(* joins.                                                                  *)
(***************************************************************************)
ProperFor(A, a) ==
    /\ IsArc(a)
    /\ a.in \in A /\ a.out \in A
    /\ a.in = IDENTITY <=> a.out = IDENTITY

\* No flag is left on an arc that is to be joined, at its end or beyond.
FirstUnflagged(a) == a.out \notin Flags /\ (a.in \in Flags => a.out = EPSILON)
SecondUnflagged(a) == a.in \notin Flags /\ (a.out \in Flags => a.in = EPSILON)

\* A property that every copy of an arc inherits.
LEMMA CopiesInherit ==
  ASSUME NEW A, NEW B, NEW arcs, \A a \in arcs : ProperFor(A, a),
         NEW M, M \subseteq B, IDENTITY \notin M
  PROVE  \A a \in Harmonized(arcs, M) : ProperFor(A \union B, a)
<1> DEFINE C == A \union B
           Fits(a) == ProperFor(C, a)
           Id == WithIdentities(arcs, M)
<1>1. \A a : \A u, v \in C : (u = IDENTITY <=> v = IDENTITY) => Fits(Relabelled(a, u, v))
  BY DEF ProperFor, IsArc, Relabelled
<1>2. \A a : Fits(a) => /\ a.in \in C /\ a.out \in C
                        /\ a.in = IDENTITY <=> a.out = IDENTITY
  BY DEF ProperFor
<1>3. \A a \in arcs : Fits(a)
  BY DEF ProperFor
<1>4. M \subseteq C /\ IDENTITY \notin M
  OBVIOUS
<1> HIDE DEF Fits, C
<1>5. \A a \in Id : Fits(a)
  BY <1>1, <1>3, <1>4 DEF WithIdentities, IdentityArcs
<1> HIDE DEF Id
<1>6. \A a \in FromMissing(Id, M) : Fits(a)
  <2> SUFFICES ASSUME NEW a \in Id, a.in = UNKNOWN, NEW k \in M
               PROVE  Fits(Relabelled(a, k, a.out))
    BY DEF FromMissing
  <2> QED  BY <1>1, <1>2, <1>4, <1>5, WildApart
<1>7. \A a \in ToMissing(Id, M) : Fits(a)
  <2> SUFFICES ASSUME NEW a \in Id, a.out = UNKNOWN, NEW k \in M
               PROVE  Fits(Relabelled(a, a.in, k))
    BY DEF ToMissing
  <2> QED  BY <1>1, <1>2, <1>4, <1>5, WildApart
<1>8. \A a \in BetweenMissing(Id, M) : Fits(a)
  <2> SUFFICES ASSUME NEW a \in Id, NEW u \in M, NEW v \in M
               PROVE  Fits(Relabelled(a, u, v))
    BY DEF BetweenMissing
  <2> QED  BY <1>1, <1>4
<1> QED  BY <1>5, <1>6, <1>7, <1>8 DEF Harmonized, UnknownArcs, Fits, C, Id

LEMMA FirstCopiesUnflagged ==
  ASSUME NEW arcs, \A a \in arcs : FirstUnflagged(a), NEW M, M \intersect Flags = {}
  PROVE  \A a \in Harmonized(arcs, M) : FirstUnflagged(a)
<1> DEFINE Id == WithIdentities(arcs, M)
<1>1. \A a, u, v : Relabelled(a, u, v).in = u /\ Relabelled(a, u, v).out = v
  BY DEF Relabelled
<1>2. \A a \in Id : FirstUnflagged(a)
  BY <1>1 DEF WithIdentities, IdentityArcs, FirstUnflagged
<1> HIDE DEF Id
<1>3. \A a \in FromMissing(Id, M) : FirstUnflagged(a)
  BY <1>1, <1>2 DEF FromMissing, FirstUnflagged
<1>4. \A a \in ToMissing(Id, M) : FirstUnflagged(a)
  BY <1>1, <1>2, SymbolsApart DEF ToMissing, FirstUnflagged, Wild
<1>5. \A a \in BetweenMissing(Id, M) : FirstUnflagged(a)
  BY <1>1 DEF BetweenMissing, FirstUnflagged
<1> QED  BY <1>2, <1>3, <1>4, <1>5 DEF Harmonized, UnknownArcs, Id

LEMMA SecondCopiesUnflagged ==
  ASSUME NEW arcs, \A a \in arcs : SecondUnflagged(a), NEW M, M \intersect Flags = {}
  PROVE  \A a \in Harmonized(arcs, M) : SecondUnflagged(a)
<1> DEFINE Id == WithIdentities(arcs, M)
<1>1. \A a, u, v : Relabelled(a, u, v).in = u /\ Relabelled(a, u, v).out = v
  BY DEF Relabelled
<1>2. \A a \in Id : SecondUnflagged(a)
  BY <1>1 DEF WithIdentities, IdentityArcs, SecondUnflagged
<1> HIDE DEF Id
<1>3. \A a \in FromMissing(Id, M) : SecondUnflagged(a)
  BY <1>1, <1>2, SymbolsApart DEF FromMissing, SecondUnflagged, Wild
<1>4. \A a \in ToMissing(Id, M) : SecondUnflagged(a)
  BY <1>1, <1>2 DEF ToMissing, SecondUnflagged
<1>5. \A a \in BetweenMissing(Id, M) : SecondUnflagged(a)
  BY <1>1 DEF BetweenMissing, SecondUnflagged
<1> QED  BY <1>2, <1>3, <1>4, <1>5 DEF Harmonized, UnknownArcs, Id

LEMMA AnyFacts ==
  ASSUME OptionsAreApart, NEW c \in Calls
  PROVE  /\ IDENTITY \notin AnyIn(c) /\ UNKNOWN \notin AnyIn(c) /\ EPSILON \notin AnyIn(c)
         /\ AnyIn(c) \ Known(c) = Letters \ Known(c)
         /\ c.flag_is_epsilon => AnyIn(c) \intersect Flags = {}
<1>1. c.flag_is_epsilon => ~c.xerox_composition
  BY DEF OptionsAreApart
<1> QED  BY <1>1, KnownFacts, SymbolsApart DEF AnyIn, Wild

LEMMA ReadyFacts ==
  ASSUME OptionsAreApart, NEW c \in Calls
  PROVE  /\ \A a \in Ready1(c) : /\ ProperFor(Known(c), a)
                                 /\ c.flag_is_epsilon => FirstUnflagged(a)
         /\ \A a \in Ready2(c) : /\ ProperFor(Known(c), a)
                                 /\ c.flag_is_epsilon => SecondUnflagged(a)
<1> DEFINE M1 == AnyIn(c) \intersect (Known2(c) \ Known1(c))
           M2 == AnyIn(c) \intersect (Known1(c) \ Known2(c))
<1>1. /\ M1 \subseteq Known2(c) /\ IDENTITY \notin M1
      /\ M2 \subseteq Known1(c) /\ IDENTITY \notin M2
      /\ c.flag_is_epsilon => M1 \intersect Flags = {} /\ M2 \intersect Flags = {}
  BY AnyFacts
<1>2. /\ \A a \in Heard1(c) : ProperFor(Known1(c), a)
      /\ \A a \in Heard2(c) : ProperFor(Known2(c), a)
  BY HeardFacts, KnownFacts DEF ProperFor
<1> HIDE DEF M1, M2
<1>3. /\ \A a \in Harmonized(Heard1(c), M1) : ProperFor(Known1(c) \union Known2(c), a)
      /\ \A a \in Harmonized(Heard2(c), M2) : ProperFor(Known2(c) \union Known1(c), a)
  BY <1>1, <1>2, CopiesInherit
<1>4. ASSUME c.flag_is_epsilon
      PROVE  /\ \A a \in Harmonized(Heard1(c), M1) : FirstUnflagged(a)
             /\ \A a \in Harmonized(Heard2(c), M2) : SecondUnflagged(a)
  <2>1. \A x : Sil(c, x) = IF x \in Flags THEN EPSILON ELSE x
    BY <1>4 DEF Sil, FlagAsEpsilon
  <2>2. \A a, u, v : Relabelled(a, u, v).in = u /\ Relabelled(a, u, v).out = v
    BY DEF Relabelled
  <2>3. \A a \in c.first.arcs \union c.second.arcs :
           a.in \in Flags \/ a.out \in Flags => a.in = a.out
    BY <1>4, FlagsAreIdentities
  <2>4. EPSILON \notin Flags
    BY SymbolsApart
  <2>5. \A a \in Heard1(c) : FirstUnflagged(a)
    BY <2>1, <2>2, <2>3, <2>4 DEF Heard1, FirstUnflagged
  <2>6. \A a \in Heard2(c) : SecondUnflagged(a)
    BY <2>1, <2>2, <2>3, <2>4 DEF Heard2, SecondUnflagged
  <2> QED  BY <1>1, <1>4, <2>5, <2>6, FirstCopiesUnflagged, SecondCopiesUnflagged
<1> QED  BY <1>3, <1>4 DEF Ready1, Ready2, M1, M2, Known
\* Two arcs taken together.
Join(a, b) ==
    [from |-> <<a.from, b.from>>, in |-> a.in, out |-> b.out,
     to |-> <<a.to, b.to>>, weight |-> a.weight + b.weight]

Meet(a, b) ==
    a.out # EPSILON /\ b.in # EPSILON /\ IdentityAsUnknown(a.out) = IdentityAsUnknown(b.in)

LEMMA JoinedIsJoin ==
  ASSUME NEW P, NEW Q, NEW g
  PROVE  g \in Joined(P, Q) <=> \E p \in P, q \in Q : p.out = q.in /\ g = Join(p, q)
<1>1. ASSUME g \in Joined(P, Q)
      PROVE  \E p \in P, q \in Q : p.out = q.in /\ g = Join(p, q)
  <2>1. PICK r \in {s \in P \X Q : s[1].out = s[2].in} : g = Join(r[1], r[2])
    BY <1>1 DEF Joined, Join
  <2> QED  BY <2>1
<1>2. ASSUME NEW p \in P, NEW q \in Q, p.out = q.in, g = Join(p, q)
      PROVE  g \in Joined(P, Q)
  <2>1. <<p, q>> \in {s \in P \X Q : s[1].out = s[2].in}
    BY <1>2
  <2>2. <<p, q>>[1] = p /\ <<p, q>>[2] = q
    OBVIOUS
  <2> DEFINE r == <<p, q>>
  <2>3. g = Join(r[1], r[2])
    BY <1>2, <2>2
  <2>4. r \in {s \in P \X Q : s[1].out = s[2].in}
    BY <2>1
  <2> HIDE DEF r
  <2> QED  BY <2>3, <2>4 DEF Joined, Join
<1> QED  BY <1>1, <1>2

\* g is one of the arcs that composing makes of the coded ones of P and Q.
OfCoded(c, P, Q, g) ==
    \/ \E a \in P, b \in Q : Meet(a, b) /\ g = Join(EncArc(c, a), EncArc(c, b))
    \/ \E a \in P, s \in States :
          a.out = EPSILON /\ g = Between(<<a.from, s>>, EncArc(c, a), <<a.to, s>>)
    \/ \E b \in Q, s \in States :
          b.in = EPSILON /\ g = Between(<<s, b.from>>, EncArc(c, b), <<s, b.to>>)

\* The arcs of what back-end and substitutions make of two sets of coded arcs, as
\* seen without the code.
LEMMA ComposedOfCoded ==
  ASSUME NEW c, NEW A, NEW arcs, \A a \in arcs : PlainArc(c, a),
         NEW others, \A a \in others : PlainArc(c, a), NEW g
  PROVE  g \in ComposedArcs(Outward(Coded(c, A, arcs)),
                            Inward(Coded(c, A, others)))
           <=> OfCoded(c, arcs, others, g)
<1> DEFINE First(a) == Relabelled(a, Enc(c, a.in), IdentityAsUnknown(Enc(c, a.out)))
           Second(b) == Relabelled(b, IdentityAsUnknown(Enc(c, b.in)), Enc(c, b.out))
           one == Outward(Coded(c, A, arcs))
           two == Inward(Coded(c, A, others))
<1>1. one = {First(a) : a \in arcs}
  <2>1. one = {Relabelled(d, d.in, IdentityAsUnknown(d.out)) : d \in CodedArcs(c, arcs)}
    BY DEF Outward, WithOutputs, Coded, Transducer
  <2>2. \A a : Relabelled(EncArc(c, a), EncArc(c, a).in, IdentityAsUnknown(EncArc(c, a).out))
               = First(a)
    BY DEF EncArc, Relabelled
  <2> HIDE DEF one, First
  <2> QED  BY <2>1, <2>2 DEF CodedArcs
<1>2. two = {Second(b) : b \in others}
  <2>1. two = {Relabelled(d, IdentityAsUnknown(d.in), d.out) : d \in CodedArcs(c, others)}
    BY DEF Inward, WithInputs, Coded, Transducer
  <2>2. \A b : Relabelled(EncArc(c, b), IdentityAsUnknown(EncArc(c, b).in), EncArc(c, b).out)
               = Second(b)
    BY DEF EncArc, Relabelled
  <2> HIDE DEF two, Second
  <2> QED  BY <2>1, <2>2 DEF CodedArcs
<1>3. \A a \in arcs : a.in \in Plain(c) /\ a.out \in Plain(c)
  BY DEF PlainArc
<1>4. \A b \in others : b.in \in Plain(c) /\ b.out \in Plain(c)
  BY DEF PlainArc
<1>5. /\ EPSILON # UNKNOWN /\ EPSILON # IDENTITY
      /\ \A x, y \in Plain(c) : Enc(c, x) = Enc(c, y) => x = y
      /\ \A x \in Plain(c) : /\ Enc(c, x) = EPSILON <=> x = EPSILON
                             /\ Enc(c, x) = IDENTITY <=> x = IDENTITY
                             /\ Enc(c, x) = UNKNOWN <=> x = UNKNOWN
  BY BasicIsPlain, EncodedApart, SymbolsApart DEF Wild
<1>6. \A x \in Plain(c) : /\ IdentityAsUnknown(Enc(c, x)) = EPSILON <=> x = EPSILON
                          /\ x = EPSILON => IdentityAsUnknown(Enc(c, x)) = Enc(c, x)
  BY <1>5 DEF IdentityAsUnknown
<1>7. \A x, y \in Plain(c) : IdentityAsUnknown(Enc(c, x)) = IdentityAsUnknown(Enc(c, y))
                               <=> IdentityAsUnknown(x) = IdentityAsUnknown(y)
  BY <1>5 DEF IdentityAsUnknown
<1>8. /\ \A a : /\ First(a).out = IdentityAsUnknown(Enc(c, a.out))
                /\ First(a).from = a.from /\ First(a).to = a.to
      /\ \A b : /\ Second(b).in = IdentityAsUnknown(Enc(c, b.in))
                /\ Second(b).from = b.from /\ Second(b).to = b.to
      /\ \A a, b : Join(First(a), Second(b)) = Join(EncArc(c, a), EncArc(c, b))
  BY DEF Relabelled, Join, EncArc
<1>9. \A a : IdentityAsUnknown(Enc(c, a.out)) = Enc(c, a.out) => First(a) = EncArc(c, a)
  BY DEF EncArc
<1>10. \A b : IdentityAsUnknown(Enc(c, b.in)) = Enc(c, b.in) => Second(b) = EncArc(c, b)
  BY DEF EncArc
<1> HIDE DEF one, two, First, Second
<1>11. g \in Joined({a \in one : a.out # EPSILON}, {b \in two : b.in # EPSILON})
         <=> \E a \in arcs, b \in others :
                Meet(a, b) /\ g = Join(EncArc(c, a), EncArc(c, b))
  <2> DEFINE P == {a \in one : a.out # EPSILON}
             Q == {b \in two : b.in # EPSILON}
  <2>1. \A a \in arcs, b \in others :
           (/\ First(a).out # EPSILON /\ Second(b).in # EPSILON
            /\ First(a).out = Second(b).in) <=> Meet(a, b)
    BY <1>3, <1>4, <1>6, <1>7, <1>8 DEF Meet
  <2>2. g \in Joined(P, Q) <=> \E p \in P, q \in Q : p.out = q.in /\ g = Join(p, q)
    BY JoinedIsJoin
  <2>3. (\E p \in P, q \in Q : p.out = q.in /\ g = Join(p, q))
          <=> \E a \in arcs, b \in others :
                 /\ First(a).out # EPSILON /\ Second(b).in # EPSILON
                 /\ First(a).out = Second(b).in
                 /\ g = Join(First(a), Second(b))
    BY <1>1, <1>2
  <2> QED  BY <1>8, <2>1, <2>2, <2>3
<1>12. g \in FirstAlone({a \in one : a.out = EPSILON})
         <=> \E a \in arcs, s \in States :
                a.out = EPSILON /\ g = Between(<<a.from, s>>, EncArc(c, a), <<a.to, s>>)
  <2> DEFINE P == {a \in one : a.out = EPSILON}
  <2>0. g \in FirstAlone(P) <=> g \in FirstAlone({a \in one : a.out = EPSILON})
    OBVIOUS
  <2>1. g \in FirstAlone(P)
          <=> \E p \in P, s \in States : g = Between(<<p.from, s>>, p, <<p.to, s>>)
    BY DEF FirstAlone, Between
  <2>2. \A p : p \in P <=> \E a \in arcs : a.out = EPSILON /\ p = First(a)
    BY <1>1, <1>3, <1>6, <1>8
  <2>3. \A a \in arcs : a.out = EPSILON => First(a) = EncArc(c, a)
    BY <1>3, <1>6, <1>9
  <2> HIDE DEF P
  <2>4. ASSUME NEW p \in P, NEW s \in States, g = Between(<<p.from, s>>, p, <<p.to, s>>)
        PROVE  \E a \in arcs : a.out = EPSILON /\ g = Between(<<a.from, s>>, EncArc(c, a), <<a.to, s>>)
    <3>1. PICK a \in arcs : a.out = EPSILON /\ p = First(a)
      BY <2>2
    <3> QED  BY <1>8, <2>3, <2>4, <3>1
  <2>5. ASSUME NEW a \in arcs, NEW s \in States, a.out = EPSILON,
               g = Between(<<a.from, s>>, EncArc(c, a), <<a.to, s>>)
        PROVE  \E p \in P : g = Between(<<p.from, s>>, p, <<p.to, s>>)
    BY <1>8, <2>2, <2>3, <2>5
  <2> QED  BY <2>0, <2>1, <2>4, <2>5
<1>13. g \in SecondAlone({b \in two : b.in = EPSILON})
         <=> \E b \in others, s \in States :
                b.in = EPSILON /\ g = Between(<<s, b.from>>, EncArc(c, b), <<s, b.to>>)
  <2> DEFINE Q == {b \in two : b.in = EPSILON}
  <2>0. g \in SecondAlone(Q) <=> g \in SecondAlone({b \in two : b.in = EPSILON})
    OBVIOUS
  <2>1. g \in SecondAlone(Q)
          <=> \E q \in Q, s \in States : g = Between(<<s, q.from>>, q, <<s, q.to>>)
    BY DEF SecondAlone, Between
  <2>2. \A q : q \in Q <=> \E b \in others : b.in = EPSILON /\ q = Second(b)
    BY <1>2, <1>4, <1>6, <1>8
  <2>3. \A b \in others : b.in = EPSILON => Second(b) = EncArc(c, b)
    BY <1>4, <1>6, <1>10
  <2> HIDE DEF Q
  <2>4. ASSUME NEW q \in Q, NEW s \in States, g = Between(<<s, q.from>>, q, <<s, q.to>>)
        PROVE  \E b \in others : b.in = EPSILON /\ g = Between(<<s, b.from>>, EncArc(c, b), <<s, b.to>>)
    <3>1. PICK b \in others : b.in = EPSILON /\ q = Second(b)
      BY <2>2
    <3> QED  BY <1>8, <2>3, <2>4, <3>1
  <2>5. ASSUME NEW b \in others, NEW s \in States, b.in = EPSILON,
               g = Between(<<s, b.from>>, EncArc(c, b), <<s, b.to>>)
        PROVE  \E q \in Q : g = Between(<<s, q.from>>, q, <<s, q.to>>)
    BY <1>8, <2>2, <2>3, <2>5
  <2> QED  BY <2>0, <2>1, <2>4, <2>5
<1> QED  BY <1>11, <1>12, <1>13 DEF ComposedArcs, OfCoded, one, two
\* Plain again: what the decoded composition has for arcs.
Combined(c, g) ==
    \/ \E a \in Ready1(c), b \in Ready2(c) : Meet(a, b) /\ g = Join(a, b)
    \/ \E a \in Ready1(c), s \in States :
          a.out = EPSILON /\ g = Between(<<a.from, s>>, a, <<a.to, s>>)
    \/ \E b \in Ready2(c), s \in States :
          b.in = EPSILON /\ g = Between(<<s, b.from>>, b, <<s, b.to>>)

LEMMA ReadyIsPlain ==
  ASSUME OptionsAreApart, NEW c \in Calls, NoneReserved(c)
  PROVE  /\ \A a \in Ready1(c) : PlainArc(c, a)
         /\ \A a \in Ready2(c) : PlainArc(c, a)
<1>1. Known(c) \subseteq Plain(c)
  BY KnownFacts, AlphabetsArePlain
<1> QED  BY <1>1, ReadyFacts DEF ProperFor, PlainArc

LEMMA DecodedArcs ==
  ASSUME OptionsAreApart, NEW c \in Calls, NoneReserved(c)
  PROVE  /\ Decoded(c).alphabet = Known(c)
         /\ \A g : g \in Decoded(c).arcs <=> Combined(c, g)
<1> DEFINE arcs == Composition(c).arcs
           Dec1(d) == Relabelled(d, Dec(c, d.in), Dec(c, d.out))
<1>1. /\ \A a \in Ready1(c) : PlainArc(c, a)
      /\ \A a \in Ready2(c) : PlainArc(c, a)
  BY ReadyIsPlain
<1>2. \A d : d \in arcs
         <=> \/ \E a \in Ready1(c), b \in Ready2(c) :
                   Meet(a, b) /\ d = Join(EncArc(c, a), EncArc(c, b))
             \/ \E a \in Ready1(c), s \in States :
                   a.out = EPSILON /\ d = Between(<<a.from, s>>, EncArc(c, a), <<a.to, s>>)
             \/ \E b \in Ready2(c), s \in States :
                   b.in = EPSILON /\ d = Between(<<s, b.from>>, EncArc(c, b), <<s, b.to>>)
  <2>1. arcs = ComposedArcs(Outward(Coded(c, Known(c), Ready1(c))),
                            Inward(Coded(c, Known(c), Ready2(c))))
    BY DEF Composition, Transducer
  <2> HIDE DEF arcs
  <2>2. \A d : d \in ComposedArcs(Outward(Coded(c, Known(c), Ready1(c))),
                                 Inward(Coded(c, Known(c), Ready2(c))))
           <=> OfCoded(c, Ready1(c), Ready2(c), d)
    BY <1>1, ComposedOfCoded
  <2> QED  BY <2>1, <2>2 DEF OfCoded
<1>3. \A x \in Plain(c) : Dec(c, Enc(c, x)) = x
  BY DecodeEncoded
<1>4. \A a \in Ready1(c), b \in Ready2(c) : Dec1(Join(EncArc(c, a), EncArc(c, b))) = Join(a, b)
  BY <1>1, <1>3 DEF Join, EncArc, Relabelled, PlainArc
<1>5. \A a \in Ready1(c) \union Ready2(c) : \A u, v :
         Dec1(Between(u, EncArc(c, a), v)) = Between(u, a, v)
  BY <1>1, <1>3 DEF Between, EncArc, Relabelled, PlainArc
<1> HIDE DEF arcs, Dec1
<1>6. ASSUME NEW g
      PROVE  (\E d \in arcs : g = Dec1(d)) <=> Combined(c, g)
  <2>1. ASSUME NEW d \in arcs, g = Dec1(d) PROVE Combined(c, g)
    <3>1. CASE \E a \in Ready1(c), b \in Ready2(c) :
                  Meet(a, b) /\ d = Join(EncArc(c, a), EncArc(c, b))
      BY <1>4, <2>1, <3>1 DEF Combined
    <3>2. CASE \E a \in Ready1(c), s \in States :
                  a.out = EPSILON /\ d = Between(<<a.from, s>>, EncArc(c, a), <<a.to, s>>)
      BY <1>5, <2>1, <3>2 DEF Combined
    <3>3. CASE \E b \in Ready2(c), s \in States :
                  b.in = EPSILON /\ d = Between(<<s, b.from>>, EncArc(c, b), <<s, b.to>>)
      BY <1>5, <2>1, <3>3 DEF Combined
    <3> QED  BY <1>2, <3>1, <3>2, <3>3
  <2>2. ASSUME Combined(c, g) PROVE \E d \in arcs : g = Dec1(d)
    <3>1. CASE \E a \in Ready1(c), b \in Ready2(c) : Meet(a, b) /\ g = Join(a, b)
      BY <1>2, <1>4, <3>1
    <3>2. CASE \E a \in Ready1(c), s \in States :
                  a.out = EPSILON /\ g = Between(<<a.from, s>>, a, <<a.to, s>>)
      <4>1. PICK a \in Ready1(c), s \in States :
                  a.out = EPSILON /\ g = Between(<<a.from, s>>, a, <<a.to, s>>)
        BY <3>2
      <4> DEFINE d == Between(<<a.from, s>>, EncArc(c, a), <<a.to, s>>)
      <4>2. d \in arcs
        BY <1>2, <4>1
      <4>3. g = Dec1(d)
        BY <1>5, <4>1
      <4> QED  BY <4>2, <4>3
    <3>3. CASE \E b \in Ready2(c), s \in States :
                  b.in = EPSILON /\ g = Between(<<s, b.from>>, b, <<s, b.to>>)
      <4>1. PICK b \in Ready2(c), s \in States :
                  b.in = EPSILON /\ g = Between(<<s, b.from>>, b, <<s, b.to>>)
        BY <3>3
      <4> DEFINE d == Between(<<s, b.from>>, EncArc(c, b), <<s, b.to>>)
      <4>2. d \in arcs
        BY <1>2, <4>1
      <4>3. g = Dec1(d)
        BY <1>5, <4>1
      <4> QED  BY <4>2, <4>3
    <3> QED  BY <2>2, <3>1, <3>2, <3>3 DEF Combined
  <2> QED  BY <2>1, <2>2
<1>7. {Dec(c, x) : x \in CodedSet(c, Known(c))} = Known(c)
  <2>1. \A x \in Known(c) : Dec(c, Enc(c, x)) = x
    BY <1>3, KnownFacts, AlphabetsArePlain
  <2> QED  BY <2>1 DEF CodedSet
<1>8. CASE c.xerox_composition
  <2>1. \A x : Dec(c, x) = decode_flag(x)
    BY <1>8 DEF Dec
  <2>2. /\ Decoded(c).alphabet = {Dec(c, x) : x \in CodedSet(c, Known(c))}
        /\ Decoded(c).arcs = {Dec1(d) : d \in arcs}
    BY <1>8, <2>1 DEF Decoded, Recoded, Transducer, Composition, arcs, Dec1
  <2> QED  BY <1>6, <1>7, <2>2
<1>9. CASE ~c.xerox_composition
  <2>1. \A x : Dec(c, x) = x
    BY <1>9 DEF Dec
  <2>3. \A d \in arcs : Dec1(d) = d
    <3>1. \A a, b : LET d == Join(a, b) IN d = Relabelled(d, d.in, d.out)
      BY DEF Join, Relabelled
    <3>2. \A u, a, v : LET d == Between(u, a, v) IN d = Relabelled(d, d.in, d.out)
      BY DEF Between, Relabelled
    <3> SUFFICES ASSUME NEW d \in arcs PROVE d = Relabelled(d, d.in, d.out)
      BY <2>1 DEF Dec1
    <3>3. CASE \E a \in Ready1(c), b \in Ready2(c) :
                  Meet(a, b) /\ d = Join(EncArc(c, a), EncArc(c, b))
      BY <3>1, <3>3
    <3>4. CASE \E a \in Ready1(c), s \in States :
                  a.out = EPSILON /\ d = Between(<<a.from, s>>, EncArc(c, a), <<a.to, s>>)
      BY <3>2, <3>4
    <3>5. CASE \E b \in Ready2(c), s \in States :
                  b.in = EPSILON /\ d = Between(<<s, b.from>>, EncArc(c, b), <<s, b.to>>)
      BY <3>2, <3>5
    <3> QED  BY <1>2, <3>3, <3>4, <3>5
  <2>4. Decoded(c).alphabet = {Dec(c, x) : x \in CodedSet(c, Known(c))}
    <3>1. Decoded(c).alphabet = CodedSet(c, Known(c))
      BY <1>9 DEF Decoded, Composition, Transducer
    <3> QED  BY <2>1, <3>1
  <2>5. Decoded(c).arcs = arcs
    BY <1>9 DEF Decoded, arcs
  <2>6. \A g : g \in arcs <=> \E d \in arcs : g = Dec1(d)
    BY <2>3
  <2> QED  BY <1>6, <1>7, <2>4, <2>5, <2>6
<1> QED  BY <1>8, <1>9
\* A flag that was silenced on one side is heard on both.
Vo(c, a) == IF c.flag_is_epsilon THEN FlagOnBothSides(a) ELSE a

Joining(c, a, b, g) ==
    a \in Ready1(c) /\ b \in Ready2(c) /\ Meet(a, b) /\ g = SingleIdentityReplaced(Join(a, b))
FirstOnly(c, a, s, g) ==
    /\ a \in Ready1(c) /\ s \in States /\ a.out = EPSILON
    /\ g = Between(<<a.from, s>>, Vo(c, a), <<a.to, s>>)
SecondOnly(c, b, s, g) ==
    /\ b \in Ready2(c) /\ s \in States /\ b.in = EPSILON
    /\ g = Between(<<s, b.from>>, Vo(c, b), <<s, b.to>>)

\* The arcs of the result, one by one.
LEMMA ResultArcs ==
  ASSUME OptionsAreApart, NEW c \in Calls, NoneReserved(c)
  PROVE  /\ Result(c).alphabet = Known(c)
         /\ \A g : g \in Result(c).arcs
                     <=> \/ \E a, b : Joining(c, a, b, g)
                         \/ \E a, s : FirstOnly(c, a, s, g)
                         \/ \E b, s : SecondOnly(c, b, s, g)
<1>1. /\ EPSILON # IDENTITY /\ EPSILON \notin Flags /\ IDENTITY \notin Flags
  BY SymbolsApart DEF Wild
<1>2. /\ \A u, a, v : Vo(c, Between(u, a, v)) = Between(u, Vo(c, a), v)
  BY DEF Vo, FlagOnBothSides, Between, Relabelled
<1>3. ASSUME NEW a \in Ready1(c), NEW b \in Ready2(c), Meet(a, b)
      PROVE  Vo(c, Join(a, b)) = Join(a, b)
  <2>1. CASE c.flag_is_epsilon
    <3>1. FirstUnflagged(a) /\ SecondUnflagged(b)
      BY <2>1, ReadyFacts
    <3>2. a.in \notin Flags /\ b.out \notin Flags
      BY <1>3, <3>1 DEF Meet, FirstUnflagged, SecondUnflagged
    <3>3. Join(a, b).in = a.in /\ Join(a, b).out = b.out
      BY DEF Join
    <3> QED  BY <3>2, <3>3 DEF Vo, FlagOnBothSides
  <2>2. CASE ~c.flag_is_epsilon
    BY <2>2 DEF Vo
  <2> QED  BY <2>1, <2>2
<1>4. ASSUME NEW a, ProperFor(Known(c), a), a.in = EPSILON \/ a.out = EPSILON
      PROVE  \A u, v : SingleIdentityReplaced(Between(u, Vo(c, a), v)) = Between(u, Vo(c, a), v)
  <2>1. a.in # IDENTITY /\ a.out # IDENTITY
    BY <1>1, <1>4 DEF ProperFor
  <2>2. Vo(c, a).in # IDENTITY /\ Vo(c, a).out # IDENTITY
    BY <1>1, <2>1 DEF Vo, FlagOnBothSides, Relabelled
  <2>3. \A u, v : /\ Between(u, Vo(c, a), v).in = Vo(c, a).in
                  /\ Between(u, Vo(c, a), v).out = Vo(c, a).out
    BY DEF Between
  <2> QED  BY <2>2, <2>3 DEF SingleIdentityReplaced
<1>5. /\ \A a \in Ready1(c) : ProperFor(Known(c), a)
      /\ \A a \in Ready2(c) : ProperFor(Known(c), a)
  BY ReadyFacts
<1>6. /\ Voiced(c).alphabet = Known(c)
      /\ \A g : g \in Voiced(c).arcs <=> \E d : Combined(c, d) /\ g = Vo(c, d)
  <2>1. /\ Decoded(c).alphabet = Known(c)
        /\ \A g : g \in Decoded(c).arcs <=> Combined(c, g)
    BY DecodedArcs
  <2>2. CASE c.flag_is_epsilon
    <3>1. /\ Voiced(c).alphabet = Decoded(c).alphabet
          /\ Voiced(c).arcs = {FlagOnBothSides(d) : d \in Decoded(c).arcs}
      BY <2>2 DEF Voiced, EveryArc, Transducer
    <3>2. \A d : Vo(c, d) = FlagOnBothSides(d)
      BY <2>2 DEF Vo
    <3> QED  BY <2>1, <3>1, <3>2
  <2>3. CASE ~c.flag_is_epsilon
    BY <2>1, <2>3 DEF Voiced, Vo
  <2> QED  BY <2>2, <2>3
<1>7. /\ Result(c).alphabet = Known(c)
      /\ \A g : g \in Result(c).arcs
                  <=> \E d : Combined(c, d) /\ g = SingleIdentityReplaced(Vo(c, d))
  <2>1. /\ Result(c).alphabet = Voiced(c).alphabet
        /\ Result(c).arcs = {SingleIdentityReplaced(d) : d \in Voiced(c).arcs}
    BY DEF Result, EveryArc, Transducer
  <2> QED  BY <1>6, <2>1
<1>8. ASSUME NEW d, Combined(c, d), NEW g, g = SingleIdentityReplaced(Vo(c, d))
      PROVE  \/ \E a, b : Joining(c, a, b, g)
             \/ \E a, s : FirstOnly(c, a, s, g)
             \/ \E b, s : SecondOnly(c, b, s, g)
  <2>1. CASE \E a \in Ready1(c), b \in Ready2(c) : Meet(a, b) /\ d = Join(a, b)
    <3>1. PICK a \in Ready1(c), b \in Ready2(c) : Meet(a, b) /\ d = Join(a, b)
      BY <2>1
    <3>2. Joining(c, a, b, g)
      BY <1>3, <1>8, <3>1 DEF Joining
    <3> QED  BY <3>2
  <2>2. CASE \E a \in Ready1(c), s \in States :
                a.out = EPSILON /\ d = Between(<<a.from, s>>, a, <<a.to, s>>)
    <3>1. PICK a \in Ready1(c), s \in States :
                a.out = EPSILON /\ d = Between(<<a.from, s>>, a, <<a.to, s>>)
      BY <2>2
    <3>2. FirstOnly(c, a, s, g)
      BY <1>2, <1>4, <1>5, <1>8, <3>1 DEF FirstOnly
    <3> QED  BY <3>2
  <2>3. CASE \E b \in Ready2(c), s \in States :
                b.in = EPSILON /\ d = Between(<<s, b.from>>, b, <<s, b.to>>)
    <3>1. PICK b \in Ready2(c), s \in States :
                b.in = EPSILON /\ d = Between(<<s, b.from>>, b, <<s, b.to>>)
      BY <2>3
    <3>2. SecondOnly(c, b, s, g)
      BY <1>2, <1>4, <1>5, <1>8, <3>1 DEF SecondOnly
    <3> QED  BY <3>2
  <2> QED  BY <1>8, <2>1, <2>2, <2>3 DEF Combined
<1>9. ASSUME NEW g, NEW a, NEW b, Joining(c, a, b, g)
      PROVE  \E d : Combined(c, d) /\ g = SingleIdentityReplaced(Vo(c, d))
  <2>1. Combined(c, Join(a, b))
    BY <1>9 DEF Combined, Joining
  <2>2. g = SingleIdentityReplaced(Vo(c, Join(a, b)))
    BY <1>3, <1>9 DEF Joining
  <2> QED  BY <2>1, <2>2
<1>10. ASSUME NEW g, NEW a, NEW s, FirstOnly(c, a, s, g)
       PROVE  \E d : Combined(c, d) /\ g = SingleIdentityReplaced(Vo(c, d))
  <2> DEFINE d == Between(<<a.from, s>>, a, <<a.to, s>>)
  <2>1. Combined(c, d)
    BY <1>10 DEF Combined, FirstOnly
  <2>2. g = SingleIdentityReplaced(Vo(c, d))
    BY <1>2, <1>4, <1>5, <1>10 DEF FirstOnly
  <2> QED  BY <2>1, <2>2
<1>11. ASSUME NEW g, NEW b, NEW s, SecondOnly(c, b, s, g)
       PROVE  \E d : Combined(c, d) /\ g = SingleIdentityReplaced(Vo(c, d))
  <2> DEFINE d == Between(<<s, b.from>>, b, <<s, b.to>>)
  <2>1. Combined(c, d)
    BY <1>11 DEF Combined, SecondOnly
  <2>2. g = SingleIdentityReplaced(Vo(c, d))
    BY <1>2, <1>4, <1>5, <1>11 DEF SecondOnly
  <2> QED  BY <2>1, <2>2
<1> QED  BY <1>7, <1>8, <1>9, <1>10, <1>11
-----------------------------------------------------------------------------
(***************************************************************************)
(* What a joined arc reads over A, where the symbols are those of U.       *)
(***************************************************************************)

\* There is always a third symbol that is unknown.
Plenty(U, A) == \A u, v : \E m \in U \ A : m # u /\ m # v

\* The labels of SingleIdentityReplaced(Join(a, b)).
LEMMA JoinLabels ==
  ASSUME NEW a, NEW b
  PROVE  LET g == SingleIdentityReplaced(Join(a, b))
         IN  /\ g.in = IF a.in = IDENTITY /\ b.out # IDENTITY THEN UNKNOWN ELSE a.in
             /\ g.out = IF b.out = IDENTITY /\ a.in # IDENTITY THEN UNKNOWN ELSE b.out
             /\ g.from = <<a.from, b.from>> /\ g.to = <<a.to, b.to>>
             /\ g.weight = a.weight + b.weight
  BY DEF SingleIdentityReplaced, Join, Relabelled

\* What it reads, the two arcs read by way of some symbol.
LEMMA JoinSound ==
  ASSUME NEW U, IDENTITY \notin U, UNKNOWN \notin U, EPSILON \notin U,
         NEW A, Plenty(U, A),
         NEW a, ProperFor(A, a), NEW b, ProperFor(A, b), Meet(a, b),
         NEW x, ArcReads(U, SingleIdentityReplaced(Join(a, b)), A, x)
  PROVE  \E p, q : /\ ArcReads(U, a, A, p) /\ ArcReads(U, b, A, q)
                   /\ p.out = q.in /\ p.out # EPSILON /\ x = Join(p, q)
<1> DEFINE g == SingleIdentityReplaced(Join(a, b))
<1>0. /\ IDENTITY # UNKNOWN /\ EPSILON # IDENTITY /\ EPSILON # UNKNOWN
  BY SymbolsApart DEF Wild
<1>1. /\ g.in = IF a.in = IDENTITY /\ b.out # IDENTITY THEN UNKNOWN ELSE a.in
      /\ g.out = IF b.out = IDENTITY /\ a.in # IDENTITY THEN UNKNOWN ELSE b.out
      /\ g.from = <<a.from, b.from>> /\ g.to = <<a.to, b.to>>
      /\ g.weight = a.weight + b.weight
  BY JoinLabels
<1> HIDE DEF g
<1>2. /\ x = Relabelled(g, x.in, x.out)
      /\ x.in \in Stands(U, A, g.in) /\ x.out \in Stands(U, A, g.out)
      /\ g.in = IDENTITY => x.in = x.out
      /\ g.in = UNKNOWN /\ g.out = UNKNOWN => x.in # x.out
  BY DEF ArcReads, g
<1>3. /\ a.in = IDENTITY <=> a.out = IDENTITY
      /\ b.in = IDENTITY <=> b.out = IDENTITY
      /\ a.out # EPSILON /\ b.in # EPSILON
      /\ a.out \in Wild <=> b.in \in Wild
      /\ a.out \notin Wild => a.out = b.in
  BY <1>0 DEF ProperFor, Meet, IdentityAsUnknown, Wild
<1>4. x.in \in Stands(U, A, a.in) /\ x.out \in Stands(U, A, b.out)
  BY <1>1, <1>2 DEF Stands, Wild
<1>5. ASSUME NEW m, m \in Stands(U, A, a.out), m \in Stands(U, A, b.in), m # EPSILON,
             a.in = IDENTITY => x.in = m,
             a.in = UNKNOWN /\ a.out = UNKNOWN => x.in # m,
             b.in = IDENTITY => m = x.out,
             b.in = UNKNOWN /\ b.out = UNKNOWN => m # x.out
      PROVE  \E p, q : /\ ArcReads(U, a, A, p) /\ ArcReads(U, b, A, q)
                       /\ p.out = q.in /\ p.out # EPSILON /\ x = Join(p, q)
  <2> DEFINE p == Relabelled(a, x.in, m)
             q == Relabelled(b, m, x.out)
  <2>1. /\ p.in = x.in /\ p.out = m /\ q.in = m /\ q.out = x.out
        /\ p = Relabelled(a, p.in, p.out) /\ q = Relabelled(b, q.in, q.out)
    BY DEF Relabelled
  <2>2. x = Join(p, q)
    BY <1>1, <1>2 DEF Relabelled, Join
  <2> HIDE DEF p, q
  <2>3. ArcReads(U, a, A, p) /\ ArcReads(U, b, A, q)
    BY <1>4, <1>5, <2>1 DEF ArcReads
  <2> QED  BY <1>5, <2>1, <2>2, <2>3
<1>6. CASE a.out \notin Wild
  <2>1. a.out \in Stands(U, A, a.out) /\ a.out \in Stands(U, A, b.in)
    BY <1>3, <1>6 DEF Stands
  <2> QED  BY <1>3, <1>5, <1>6, <2>1 DEF Wild
<1>7. CASE a.out \in Wild
  <2>1. /\ Stands(U, A, a.out) = U \ A /\ Stands(U, A, b.in) = U \ A
        /\ EPSILON \notin U \ A
    BY <1>3, <1>7 DEF Stands
  <2>2. CASE a.in = IDENTITY
    <3>1. x.in \in U \ A
      BY <1>4, <2>2 DEF Stands, Wild
    <3>2. b.in = IDENTITY => x.in = x.out
      BY <1>1, <1>2, <1>3, <2>2
    <3>3. b.in = UNKNOWN /\ b.out = UNKNOWN => x.in # x.out
      BY <1>0, <1>1, <1>2, <1>3, <2>2
    <3> QED  BY <1>0, <1>5, <2>1, <2>2, <3>1, <3>2, <3>3
  <2>3. CASE a.in # IDENTITY /\ b.in = IDENTITY
    <3>1. x.out \in U \ A
      BY <1>3, <1>4, <2>3 DEF Stands, Wild
    <3>2. a.in = UNKNOWN => x.in # x.out
      BY <1>0, <1>1, <1>2, <1>3, <2>3
    <3> QED  BY <1>0, <1>5, <2>1, <2>3, <3>1, <3>2
  <2>4. CASE a.in # IDENTITY /\ b.in # IDENTITY
    <3>1. PICK m \in U \ A : m # x.in /\ m # x.out
      BY DEF Plenty
    <3> QED  BY <1>5, <2>1, <2>4, <3>1
  <2> QED  BY <2>2, <2>3, <2>4
<1> QED  BY <1>6, <1>7

\* What the two read by way of a symbol, the joined arc reads, or it is one and the
\* same symbol that is unknown.
LEMMA JoinComplete ==
  ASSUME NEW U, IDENTITY \notin U, UNKNOWN \notin U, EPSILON \notin U,
         NEW A, NEW a, ProperFor(A, a), NEW b, ProperFor(A, b),
         NEW p, ArcReads(U, a, A, p), NEW q, ArcReads(U, b, A, q),
         p.out = q.in, p.out # EPSILON
  PROVE  /\ Meet(a, b)
         /\ \/ ArcReads(U, SingleIdentityReplaced(Join(a, b)), A, Join(p, q))
            \/ p.in = q.out /\ p.in \notin A
<1> DEFINE g == SingleIdentityReplaced(Join(a, b))
           x == Join(p, q)
<1>0. /\ IDENTITY # UNKNOWN /\ EPSILON # IDENTITY /\ EPSILON # UNKNOWN
  BY SymbolsApart DEF Wild
<1>1. /\ g.in = IF a.in = IDENTITY /\ b.out # IDENTITY THEN UNKNOWN ELSE a.in
      /\ g.out = IF b.out = IDENTITY /\ a.in # IDENTITY THEN UNKNOWN ELSE b.out
      /\ g.from = <<a.from, b.from>> /\ g.to = <<a.to, b.to>>
      /\ g.weight = a.weight + b.weight
  BY JoinLabels
<1>2. /\ p = Relabelled(a, p.in, p.out) /\ q = Relabelled(b, q.in, q.out)
      /\ p.in \in Stands(U, A, a.in) /\ p.out \in Stands(U, A, a.out)
      /\ q.in \in Stands(U, A, b.in) /\ q.out \in Stands(U, A, b.out)
      /\ a.in = IDENTITY => p.in = p.out
      /\ a.in = UNKNOWN /\ a.out = UNKNOWN => p.in # p.out
      /\ b.in = IDENTITY => q.in = q.out
      /\ b.in = UNKNOWN /\ b.out = UNKNOWN => q.in # q.out
  BY DEF ArcReads
<1>3. /\ a.in = IDENTITY <=> a.out = IDENTITY
      /\ b.in = IDENTITY <=> b.out = IDENTITY
      /\ a.in \in A /\ a.out \in A /\ b.in \in A /\ b.out \in A
  BY DEF ProperFor
<1>4. Meet(a, b)
  <2>1. a.out # EPSILON /\ b.in # EPSILON
    BY <1>0, <1>2 DEF Stands, Wild
  <2>2. CASE a.out \in Wild
    <3>1. p.out \notin A
      BY <1>2, <2>2 DEF Stands
    <3>2. b.in \in Wild
      BY <1>2, <1>3, <3>1 DEF Stands
    <3> QED  BY <2>1, <2>2, <3>2 DEF Meet, IdentityAsUnknown, Wild
  <2>3. CASE a.out \notin Wild
    <3>1. p.out = a.out
      BY <1>2, <2>3 DEF Stands
    <3>2. b.in = a.out
      BY <1>2, <1>3, <3>1 DEF Stands
    <3> QED  BY <2>1, <3>2 DEF Meet
  <2> QED  BY <2>2, <2>3
<1>5. /\ x.in = p.in /\ x.out = q.out /\ x = Relabelled(g, x.in, x.out)
  <2>1. /\ p.from = a.from /\ p.to = a.to /\ p.weight = a.weight
        /\ q.from = b.from /\ q.to = b.to /\ q.weight = b.weight
    BY <1>2 DEF Relabelled
  <2>2. x.in = p.in /\ x.out = q.out
    BY DEF Join
  <2> HIDE DEF g
  <2>3. x = [from |-> g.from, in |-> p.in, out |-> q.out, to |-> g.to, weight |-> g.weight]
    BY <1>1, <2>1 DEF Join
  <2> QED  BY <2>2, <2>3 DEF Relabelled
<1> HIDE DEF g, x
<1>6. x.in \in Stands(U, A, g.in) /\ x.out \in Stands(U, A, g.out)
  BY <1>1, <1>2, <1>5 DEF Stands, Wild
<1>7. g.in = IDENTITY => x.in = x.out
  BY <1>0, <1>1, <1>2, <1>3, <1>5
<1>8. g.in = UNKNOWN /\ g.out = UNKNOWN => x.in # x.out \/ (p.in = q.out /\ p.in \notin A)
  <2>1. g.in = UNKNOWN => p.in \notin A
    BY <1>1, <1>2 DEF Stands, Wild
  <2> QED  BY <1>5, <2>1
<1> QED  BY <1>4, <1>5, <1>6, <1>7, <1>8 DEF ArcReads, g, x
-----------------------------------------------------------------------------
(***************************************************************************)
(* What the given transducers read is what the harmonized ones do.         *)
(***************************************************************************)
SilentIn(c) == {EPSILON} \union (IF c.flag_is_epsilon THEN Flags ELSE {})

LoudFirst(c, p) ==
    \E a \in c.first.arcs : a.out \notin SilentIn(c) /\ ArcReads(AnyIn(c), a, Known1(c), p)
QuietFirst(c, p) ==
    \E a \in c.first.arcs : a.out \in SilentIn(c) /\ ArcReads(AnyIn(c), a, Known1(c), p)
LoudSecond(c, q) ==
    \E b \in c.second.arcs : b.in \notin SilentIn(c) /\ ArcReads(AnyIn(c), b, Known2(c), q)
QuietSecond(c, q) ==
    \E b \in c.second.arcs : b.in \in SilentIn(c) /\ ArcReads(AnyIn(c), b, Known2(c), q)

LEMMA InitCInv == Init => CInv
  BY DEF Init, CInv

LEMMA PlentyRemains ==
  ASSUME OptionsAreApart, NEW c \in Calls
  PROVE  Plenty(AnyIn(c), Known(c))
<1>1. PICK x, y, z \in Letters \ (c.first.alphabet \union c.second.alphabet) :
             x # y /\ y # z /\ x # z
  BY LettersRemain
<1>2. x \in AnyIn(c) \ Known(c) /\ y \in AnyIn(c) \ Known(c) /\ z \in AnyIn(c) \ Known(c)
  BY <1>1, KnownFacts, AnyFacts
<1> QED  BY <1>1, <1>2 DEF Plenty

\* An unknown symbol is a letter, or a flag where flags are symbols like others; all
\* those are known by the time the arcs are read.
LEMMA LettersAreEnough ==
  ASSUME OptionsAreApart, NEW c \in Calls, NEW a, NEW x
  PROVE  ArcReads(Letters, a, Known(c), x) <=> ArcReads(AnyIn(c), a, Known(c), x)
  BY AnyFacts DEF ArcReads, Stands

LEMMA ReadyReads ==
  ASSUME OptionsAreApart, NEW c \in Calls, NEW p
  PROVE  /\ (\E y \in Ready1(c) : ArcReads(AnyIn(c), y, Known(c), p))
              <=> \E b \in Heard1(c) : ArcReads(AnyIn(c), b, Known1(c), p)
         /\ (\E y \in Ready2(c) : ArcReads(AnyIn(c), y, Known(c), p))
              <=> \E b \in Heard2(c) : ArcReads(AnyIn(c), b, Known2(c), p)
<1> DEFINE U == AnyIn(c)
           A == Known1(c)
           B == Known2(c)
           one == Heard1(c)
           two == Heard2(c)
<1>1. /\ Ready1(c) = Harmonized(one, U \intersect (B \ A))
      /\ Ready2(c) = Harmonized(two, U \intersect (A \ B))
      /\ Known(c) = A \union B /\ Known(c) = B \union A
  BY DEF Ready1, Ready2, Known
<1>2. IDENTITY \notin U /\ UNKNOWN \notin U
  BY AnyFacts
<1>3. ProperArcs(one) /\ ProperArcs(two)
  BY HeardFacts DEF ProperArcs
<1> HIDE DEF U, A, B, one, two
<1>4. (\E y \in Ready1(c) : ArcReads(U, y, A \union B, p))
        <=> \E b \in one : ArcReads(U, b, A, p)
  <2> DEFINE M == U \intersect (B \ A)
  <2> HIDE DEF M
  <2>1. M = U \intersect (B \ A) /\ Ready1(c) = Harmonized(one, M)
    BY <1>1 DEF M
  <2>2. ASSUME NEW y \in Harmonized(one, M), ArcReads(U, y, A \union B, p)
        PROVE  \E b \in one : ArcReads(U, b, A, p)
    BY <1>2, <1>3, <2>1, <2>2, NothingIsAdded
  <2>3. ASSUME NEW b \in one, ArcReads(U, b, A, p)
        PROVE  \E y \in Harmonized(one, M) : ArcReads(U, y, A \union B, p)
    BY <1>2, <1>3, <2>1, <2>3, NothingIsLost
  <2> QED  BY <2>1, <2>2, <2>3
<1>5. (\E y \in Ready2(c) : ArcReads(U, y, B \union A, p))
        <=> \E b \in two : ArcReads(U, b, B, p)
  <2> DEFINE M == U \intersect (A \ B)
  <2> HIDE DEF M
  <2>1. M = U \intersect (A \ B) /\ Ready2(c) = Harmonized(two, M)
    BY <1>1 DEF M
  <2>2. ASSUME NEW y \in Harmonized(two, M), ArcReads(U, y, B \union A, p)
        PROVE  \E b \in two : ArcReads(U, b, B, p)
    BY <1>2, <1>3, <2>1, <2>2, NothingIsAdded
  <2>3. ASSUME NEW b \in two, ArcReads(U, b, B, p)
        PROVE  \E y \in Harmonized(two, M) : ArcReads(U, y, B \union A, p)
    BY <1>2, <1>3, <2>1, <2>3, NothingIsLost
  <2> QED  BY <2>1, <2>2, <2>3
<1> QED  BY <1>1, <1>4, <1>5 DEF U, A, B, one, two

\* An arc that something is to be matched with is heard as it is.
LEMMA LoudReads ==
  ASSUME OptionsAreApart, NEW c \in Calls, NEW p
  PROVE  /\ LoudFirst(c, p) <=> /\ p.out # EPSILON
                                /\ \E y \in Ready1(c) : ArcReads(AnyIn(c), y, Known(c), p)
         /\ LoudSecond(c, p) <=> /\ p.in # EPSILON
                                 /\ \E y \in Ready2(c) : ArcReads(AnyIn(c), y, Known(c), p)
<1> DEFINE U == AnyIn(c)
<1>0. /\ EPSILON \notin U /\ EPSILON \notin Wild /\ EPSILON \notin Flags
      /\ \A a \in c.first.arcs \union c.second.arcs : a = Relabelled(a, a.in, a.out)
  BY AnyFacts, SymbolsApart, CallFacts DEF IsArc
<1>1. \A x : /\ x \notin SilentIn(c) => Sil(c, x) = x /\ x # EPSILON
             /\ x \in SilentIn(c) => Sil(c, x) = EPSILON
  BY DEF SilentIn, Sil, FlagAsEpsilon
<1>2. \A a, u, v : Relabelled(a, u, v).in = u /\ Relabelled(a, u, v).out = v
  BY DEF Relabelled
<1>3. \A A, a : ArcReads(U, a, A, p) => /\ p.out = EPSILON <=> a.out = EPSILON
                                        /\ p.in = EPSILON <=> a.in = EPSILON
  BY <1>0 DEF ArcReads, Stands
<1> HIDE DEF U
<1>4. LoudFirst(c, p) <=> /\ p.out # EPSILON
                          /\ \E b \in Heard1(c) : ArcReads(U, b, Known1(c), p)
  <2>1. ASSUME NEW a \in c.first.arcs, a.out \notin SilentIn(c), ArcReads(U, a, Known1(c), p)
        PROVE  p.out # EPSILON /\ a \in Heard1(c)
    BY <1>0, <1>1, <1>3, <2>1 DEF Heard1
  <2>2. ASSUME NEW b \in Heard1(c), ArcReads(U, b, Known1(c), p), p.out # EPSILON
        PROVE  b \in c.first.arcs /\ b.out \notin SilentIn(c)
    <3>1. PICK a \in c.first.arcs : b = Relabelled(a, a.in, Sil(c, a.out))
      BY DEF Heard1
    <3>2. b.out = Sil(c, a.out) /\ b.out # EPSILON
      BY <1>2, <1>3, <2>2, <3>1
    <3> QED  BY <1>0, <1>1, <3>1, <3>2
  <2> QED  BY <2>1, <2>2 DEF LoudFirst, U
<1>5. LoudSecond(c, p) <=> /\ p.in # EPSILON
                           /\ \E b \in Heard2(c) : ArcReads(U, b, Known2(c), p)
  <2>1. ASSUME NEW a \in c.second.arcs, a.in \notin SilentIn(c), ArcReads(U, a, Known2(c), p)
        PROVE  p.in # EPSILON /\ a \in Heard2(c)
    BY <1>0, <1>1, <1>3, <2>1 DEF Heard2
  <2>2. ASSUME NEW b \in Heard2(c), ArcReads(U, b, Known2(c), p), p.in # EPSILON
        PROVE  b \in c.second.arcs /\ b.in \notin SilentIn(c)
    <3>1. PICK a \in c.second.arcs : b = Relabelled(a, Sil(c, a.in), a.out)
      BY DEF Heard2
    <3>2. b.in = Sil(c, a.in) /\ b.in # EPSILON
      BY <1>2, <1>3, <2>2, <3>1
    <3> QED  BY <1>0, <1>1, <3>1, <3>2
  <2> QED  BY <2>1, <2>2 DEF LoudSecond, U
<1> QED  BY <1>4, <1>5, ReadyReads DEF U
\* An arc of the first that nothing is matched with is heard as it is, or it is a flag
\* that is put back on both sides.
LEMMA QuietFirstReads ==
  ASSUME OptionsAreApart, NEW c \in Calls, NEW p
  PROVE  QuietFirst(c, p)
           <=> \E y \in Ready1(c) : y.out = EPSILON /\ ArcReads(AnyIn(c), Vo(c, y), Known(c), p)
<1> DEFINE U == AnyIn(c)
           A == Known1(c)
           K == Known(c)
           arcs == c.first.arcs
<1>0. /\ EPSILON \notin U /\ EPSILON \notin Wild /\ EPSILON \notin Flags
      /\ Wild \intersect Flags = {}
      /\ \A a \in arcs : a = Relabelled(a, a.in, a.out)
      /\ c.flag_is_epsilon => U \intersect Flags = {}
  BY AnyFacts, SymbolsApart, CallFacts DEF IsArc, Wild
<1>1. ASSUME c.flag_is_epsilon
      PROVE  \A a \in arcs : a.in \in Flags \/ a.out \in Flags => a.in = a.out
  BY <1>1, FlagsAreIdentities
<1>2. \A a, u, v : /\ Relabelled(a, u, v).in = u /\ Relabelled(a, u, v).out = v
                   /\ \A w, z : Relabelled(Relabelled(a, u, v), w, z) = Relabelled(a, w, z)
  BY DEF Relabelled
<1>3. \A C, a, r : ArcReads(U, a, C, r) => /\ r = Relabelled(a, r.in, r.out)
                                           /\ r.out = EPSILON <=> a.out = EPSILON
                                           /\ r.in = EPSILON <=> a.in = EPSILON
  BY <1>0 DEF ArcReads, Stands
<1>4. ASSUME c.flag_is_epsilon
      PROVE  \A C, a, r : ArcReads(U, a, C, r)
                            => /\ \A f \in Flags : r.in = f <=> a.in = f
                               /\ \A f \in Flags : r.out = f <=> a.out = f
  BY <1>0, <1>4 DEF ArcReads, Stands
<1>5. \A a \in Ready1(c) : IsArc(a) /\ (a.in = IDENTITY <=> a.out = IDENTITY)
  BY ReadyFacts DEF ProperFor
<1>6. Heard1(c) \subseteq Ready1(c)
  BY DEF Ready1, Harmonized, WithIdentities
<1>7. \A y : y.out = EPSILON /\ (c.flag_is_epsilon => y.in \notin Flags) => Vo(c, y) = y
  BY <1>0 DEF Vo, FlagOnBothSides
<1>8. \A y : c.flag_is_epsilon /\ y.out = EPSILON /\ y.in \in Flags
               => Vo(c, y) = Relabelled(y, y.in, y.in)
  BY <1>0 DEF Vo, FlagOnBothSides
<1> HIDE DEF U, A, K, arcs
<1>9. \A a, C : \A f \in Flags : f \notin Wild => ArcReads(U, Relabelled(a, f, f), C, Relabelled(a, f, f))
  BY <1>0, <1>2 DEF ArcReads, Stands, Wild
<1>10. ASSUME NEW a \in arcs, a.out \in SilentIn(c), ArcReads(U, a, A, p)
       PROVE  \E y \in Ready1(c) : y.out = EPSILON /\ ArcReads(U, Vo(c, y), K, p)
  <2>1. CASE a.out = EPSILON
    <3>1. c.flag_is_epsilon => a.in \notin Flags
      BY <1>0, <1>1, <2>1
    <3>2. a \in Heard1(c)
      <4>1. Sil(c, EPSILON) = EPSILON
        BY <1>0 DEF Sil, FlagAsEpsilon
      <4> QED  BY <1>0, <1>10, <2>1, <4>1 DEF Heard1, arcs
    <3>3. PICK y \in Ready1(c) : ArcReads(U, y, K, p)
      BY <1>10, <3>2, ReadyReads DEF U, A, K
    <3>4. y.out = EPSILON
      BY <1>3, <1>10, <2>1, <3>3
    <3>5. c.flag_is_epsilon => y.in \notin Flags
      BY <1>4, <1>10, <3>1, <3>3
    <3> QED  BY <1>7, <3>3, <3>4, <3>5
  <2>2. CASE a.out # EPSILON
    <3>1. c.flag_is_epsilon /\ a.out \in Flags
      BY <1>10, <2>2 DEF SilentIn
    <3>2. a.in = a.out
      BY <1>1, <3>1
    <3> DEFINE f == a.in
               b == Relabelled(a, f, EPSILON)
    <3>3. f \in Flags /\ p = Relabelled(a, f, f)
      BY <1>3, <1>4, <1>10, <3>1, <3>2
    <3>4. b \in Ready1(c)
      <4>1. Sil(c, a.out) = EPSILON
        BY <3>1 DEF Sil, FlagAsEpsilon
      <4>2. b \in Heard1(c)
        BY <1>10, <4>1 DEF Heard1, arcs
      <4> QED  BY <1>6, <4>2
    <3>5. b.out = EPSILON /\ b.in = f
      BY <1>2
    <3>6. Vo(c, b) = Relabelled(a, f, f)
      BY <1>2, <1>8, <3>1, <3>3, <3>5
    <3> QED  BY <1>0, <1>9, <3>3, <3>4, <3>5, <3>6
  <2> QED  BY <2>1, <2>2
<1>11. ASSUME NEW y \in Ready1(c), y.out = EPSILON, ArcReads(U, Vo(c, y), K, p)
       PROVE  \E a \in arcs : a.out \in SilentIn(c) /\ ArcReads(U, a, A, p)
  <2>1. CASE c.flag_is_epsilon /\ y.in \in Flags
    <3> DEFINE f == y.in
    <3>1. Vo(c, y) = Relabelled(y, f, f)
      BY <1>8, <1>11, <2>1
    <3>2. p = Relabelled(y, f, f)
      BY <1>2, <1>3, <1>4, <1>11, <2>1, <3>1
    <3>3. ArcReads(U, y, K, y)
      <4>1. y = Relabelled(y, y.in, y.out) /\ y.in \notin Wild /\ y.out \notin Wild
        BY <1>0, <1>5, <1>11, <2>1 DEF IsArc
      <4> QED  BY <4>1 DEF ArcReads, Stands, Wild
    <3>4. PICK b \in Heard1(c) : ArcReads(U, b, A, y)
      BY <3>3, ReadyReads DEF U, A, K
    <3>5. PICK a \in arcs : b = Relabelled(a, a.in, Sil(c, a.out))
      BY DEF Heard1, arcs
    <3>6. a.in = f
      BY <1>2, <1>4, <2>1, <3>4, <3>5
    <3>7. a.in = f /\ a.out = f
      BY <1>1, <2>1, <3>6
    <3>8. y = Relabelled(a, y.in, y.out) /\ a = Relabelled(a, f, f)
      BY <1>0, <1>2, <1>3, <3>4, <3>5, <3>7
    <3>9. p = a
      BY <1>2, <3>2, <3>8
    <3>10. ArcReads(U, a, A, p)
      BY <1>0, <1>9, <2>1, <3>8, <3>9
    <3> QED  BY <2>1, <3>7, <3>10 DEF SilentIn
  <2>2. CASE ~(c.flag_is_epsilon /\ y.in \in Flags)
    <3>1. ArcReads(U, y, K, p)
      BY <1>7, <1>11, <2>2
    <3>2. PICK b \in Heard1(c) : ArcReads(U, b, A, p)
      BY <3>1, ReadyReads DEF U, A, K
    <3>3. PICK a \in arcs : b = Relabelled(a, a.in, Sil(c, a.out))
      BY DEF Heard1, arcs
    <3>4. b.out = EPSILON
      BY <1>3, <1>11, <3>1, <3>2
    <3>5. Sil(c, a.out) = EPSILON /\ b.in = a.in
      BY <1>2, <3>3, <3>4
    <3>6. ~(c.flag_is_epsilon /\ a.out \in Flags)
      <4> SUFFICES ASSUME c.flag_is_epsilon, a.out \in Flags PROVE FALSE
        OBVIOUS
      <4>1. b.in \in Flags
        BY <1>1, <3>5
      <4>2. y.in \in Flags
        BY <1>4, <3>1, <3>2, <4>1
      <4> QED  BY <2>2, <4>2
    <3>7. a.out = EPSILON
      BY <3>5, <3>6 DEF Sil, FlagAsEpsilon
    <3>8. b = a
      BY <1>0, <3>3, <3>5, <3>7
    <3> QED  BY <3>2, <3>7, <3>8 DEF SilentIn
  <2> QED  BY <2>1, <2>2
<1> QED  BY <1>10, <1>11 DEF QuietFirst, U, A, K, arcs

\* An arc of the second that nothing is matched with is heard as it is, or it is a flag
\* that is put back on both sides.
LEMMA QuietSecondReads ==
  ASSUME OptionsAreApart, NEW c \in Calls, NEW p
  PROVE  QuietSecond(c, p)
           <=> \E y \in Ready2(c) : y.in = EPSILON /\ ArcReads(AnyIn(c), Vo(c, y), Known(c), p)
<1> DEFINE U == AnyIn(c)
           A == Known2(c)
           K == Known(c)
           arcs == c.second.arcs
<1>0. /\ EPSILON \notin U /\ EPSILON \notin Wild /\ EPSILON \notin Flags
      /\ Wild \intersect Flags = {}
      /\ \A a \in arcs : a = Relabelled(a, a.in, a.out)
      /\ c.flag_is_epsilon => U \intersect Flags = {}
  BY AnyFacts, SymbolsApart, CallFacts DEF IsArc, Wild
<1>1. ASSUME c.flag_is_epsilon
      PROVE  \A a \in arcs : a.in \in Flags \/ a.out \in Flags => a.in = a.out
  BY <1>1, FlagsAreIdentities
<1>2. \A a, u, v : /\ Relabelled(a, u, v).in = u /\ Relabelled(a, u, v).out = v
                   /\ \A w, z : Relabelled(Relabelled(a, u, v), w, z) = Relabelled(a, w, z)
  BY DEF Relabelled
<1>3. \A C, a, r : ArcReads(U, a, C, r) => /\ r = Relabelled(a, r.in, r.out)
                                           /\ r.out = EPSILON <=> a.out = EPSILON
                                           /\ r.in = EPSILON <=> a.in = EPSILON
  BY <1>0 DEF ArcReads, Stands
<1>4. ASSUME c.flag_is_epsilon
      PROVE  \A C, a, r : ArcReads(U, a, C, r)
                            => /\ \A f \in Flags : r.in = f <=> a.in = f
                               /\ \A f \in Flags : r.out = f <=> a.out = f
  BY <1>0, <1>4 DEF ArcReads, Stands
<1>5. \A a \in Ready2(c) : IsArc(a) /\ (a.in = IDENTITY <=> a.out = IDENTITY)
  BY ReadyFacts DEF ProperFor
<1>6. Heard2(c) \subseteq Ready2(c)
  BY DEF Ready2, Harmonized, WithIdentities
<1>7. \A y : y.in = EPSILON /\ (c.flag_is_epsilon => y.out \notin Flags) => Vo(c, y) = y
  BY <1>0 DEF Vo, FlagOnBothSides
<1>8. \A y : c.flag_is_epsilon /\ y.in = EPSILON /\ y.out \in Flags
               => Vo(c, y) = Relabelled(y, y.out, y.out)
  BY <1>0 DEF Vo, FlagOnBothSides
<1> HIDE DEF U, A, K, arcs
<1>9. \A a, C : \A f \in Flags : f \notin Wild => ArcReads(U, Relabelled(a, f, f), C, Relabelled(a, f, f))
  BY <1>0, <1>2 DEF ArcReads, Stands, Wild
<1>10. ASSUME NEW a \in arcs, a.in \in SilentIn(c), ArcReads(U, a, A, p)
       PROVE  \E y \in Ready2(c) : y.in = EPSILON /\ ArcReads(U, Vo(c, y), K, p)
  <2>1. CASE a.in = EPSILON
    <3>1. c.flag_is_epsilon => a.out \notin Flags
      BY <1>0, <1>1, <2>1
    <3>2. a \in Heard2(c)
      <4>1. Sil(c, EPSILON) = EPSILON
        BY <1>0 DEF Sil, FlagAsEpsilon
      <4> QED  BY <1>0, <1>10, <2>1, <4>1 DEF Heard2, arcs
    <3>3. PICK y \in Ready2(c) : ArcReads(U, y, K, p)
      BY <1>10, <3>2, ReadyReads DEF U, A, K
    <3>4. y.in = EPSILON
      BY <1>3, <1>10, <2>1, <3>3
    <3>5. c.flag_is_epsilon => y.out \notin Flags
      BY <1>4, <1>10, <3>1, <3>3
    <3> QED  BY <1>7, <3>3, <3>4, <3>5
  <2>2. CASE a.in # EPSILON
    <3>1. c.flag_is_epsilon /\ a.in \in Flags
      BY <1>10, <2>2 DEF SilentIn
    <3>2. a.in = a.out
      BY <1>1, <3>1
    <3> DEFINE f == a.in
               b == Relabelled(a, EPSILON, f)
    <3>3. f \in Flags /\ p = Relabelled(a, f, f)
      BY <1>3, <1>4, <1>10, <3>1, <3>2
    <3>4. b \in Ready2(c)
      <4>1. Sil(c, a.in) = EPSILON
        BY <3>1 DEF Sil, FlagAsEpsilon
      <4>2. b \in Heard2(c)
        BY <1>10, <3>2, <4>1 DEF Heard2, arcs
      <4> QED  BY <1>6, <4>2
    <3>5. b.in = EPSILON /\ b.out = f
      BY <1>2
    <3>6. Vo(c, b) = Relabelled(a, f, f)
      BY <1>2, <1>8, <3>1, <3>3, <3>5
    <3> QED  BY <1>0, <1>9, <3>3, <3>4, <3>5, <3>6
  <2> QED  BY <2>1, <2>2
<1>11. ASSUME NEW y \in Ready2(c), y.in = EPSILON, ArcReads(U, Vo(c, y), K, p)
       PROVE  \E a \in arcs : a.in \in SilentIn(c) /\ ArcReads(U, a, A, p)
  <2>1. CASE c.flag_is_epsilon /\ y.out \in Flags
    <3> DEFINE f == y.out
    <3>1. Vo(c, y) = Relabelled(y, f, f)
      BY <1>8, <1>11, <2>1
    <3>2. p = Relabelled(y, f, f)
      BY <1>2, <1>3, <1>4, <1>11, <2>1, <3>1
    <3>3. ArcReads(U, y, K, y)
      <4>1. y = Relabelled(y, y.in, y.out) /\ y.in \notin Wild /\ y.out \notin Wild
        BY <1>0, <1>5, <1>11, <2>1 DEF IsArc
      <4> QED  BY <4>1 DEF ArcReads, Stands, Wild
    <3>4. PICK b \in Heard2(c) : ArcReads(U, b, A, y)
      BY <3>3, ReadyReads DEF U, A, K
    <3>5. PICK a \in arcs : b = Relabelled(a, Sil(c, a.in), a.out)
      BY DEF Heard2, arcs
    <3>6. a.out = f
      BY <1>2, <1>4, <2>1, <3>4, <3>5
    <3>7. a.in = f /\ a.out = f
      BY <1>1, <2>1, <3>6
    <3>8. y = Relabelled(a, y.in, y.out) /\ a = Relabelled(a, f, f)
      BY <1>0, <1>2, <1>3, <3>4, <3>5, <3>7
    <3>9. p = a
      BY <1>2, <3>2, <3>8
    <3>10. ArcReads(U, a, A, p)
      BY <1>0, <1>9, <2>1, <3>8, <3>9
    <3> QED  BY <2>1, <3>7, <3>10 DEF SilentIn
  <2>2. CASE ~(c.flag_is_epsilon /\ y.out \in Flags)
    <3>1. ArcReads(U, y, K, p)
      BY <1>7, <1>11, <2>2
    <3>2. PICK b \in Heard2(c) : ArcReads(U, b, A, p)
      BY <3>1, ReadyReads DEF U, A, K
    <3>3. PICK a \in arcs : b = Relabelled(a, Sil(c, a.in), a.out)
      BY DEF Heard2, arcs
    <3>4. b.in = EPSILON
      BY <1>3, <1>11, <3>1, <3>2
    <3>5. Sil(c, a.in) = EPSILON /\ b.out = a.out
      BY <1>2, <3>3, <3>4
    <3>6. ~(c.flag_is_epsilon /\ a.in \in Flags)
      <4> SUFFICES ASSUME c.flag_is_epsilon, a.in \in Flags PROVE FALSE
        OBVIOUS
      <4>1. b.out \in Flags
        BY <1>1, <3>5
      <4>2. y.out \in Flags
        BY <1>4, <3>1, <3>2, <4>1
      <4> QED  BY <2>2, <4>2
    <3>7. a.in = EPSILON
      BY <3>5, <3>6 DEF Sil, FlagAsEpsilon
    <3>8. b = a
      BY <1>0, <3>3, <3>5, <3>7
    <3> QED  BY <3>2, <3>7, <3>8 DEF SilentIn
  <2> QED  BY <2>1, <2>2
<1> QED  BY <1>10, <1>11 DEF QuietSecond, U, A, K, arcs
-----------------------------------------------------------------------------
(* The result and the promise *)

\* What Composes promises, one by one.
PromisedOf(c, x) ==
    \/ \E p, q : LoudFirst(c, p) /\ LoudSecond(c, q) /\ p.out = q.in /\ x = Join(p, q)
    \/ \E p : \E s \in States : QuietFirst(c, p) /\ x = Between(<<p.from, s>>, p, <<p.to, s>>)
    \/ \E q : \E s \in States : QuietSecond(c, q) /\ x = Between(<<s, q.from>>, q, <<s, q.to>>)

LEMMA PromisedIs ==
  ASSUME CInv, NEW x
  PROVE  x \in Promised <=> PromisedOf(call, x)
<1> DEFINE U == AnyIn(call)
           one == KnownTo(call.first, call.second)
           two == KnownTo(call.second, call.first)
           P1 == Spelled(Any, Transducer(one.alphabet, {a \in one.arcs : ~(a.out \in Silent)}))
           Q1 == Spelled(Any, Transducer(one.alphabet, {a \in one.arcs : a.out \in Silent}))
           P2 == Spelled(Any, Transducer(two.alphabet, {a \in two.arcs : ~(a.in \in Silent)}))
           Q2 == Spelled(Any, Transducer(two.alphabet, {a \in two.arcs : a.in \in Silent}))
<1>1. Any = U /\ Silent = SilentIn(call)
  BY DEF Any, AnyIn, Silent, SilentIn
<1>2. /\ one = Transducer(Known1(call), call.first.arcs)
      /\ two = Transducer(Known2(call), call.second.arcs)
  BY DEF KnownTo, Known1, Known2, Told
<1>3. /\ \A A, arcs : Transducer(A, arcs).alphabet = A /\ Transducer(A, arcs).arcs = arcs
      /\ one.alphabet = Known1(call) /\ one.arcs = call.first.arcs
      /\ two.alphabet = Known2(call) /\ two.arcs = call.second.arcs
  BY <1>2 DEF Transducer
<1>4. Promised = Joined(P1, P2) \union FirstAlone(Q1) \union SecondAlone(Q2)
  BY DEF Promised
<1> HIDE DEF one, two
<1>0. \A t, p : p \in Spelled(Any, t) <=> \E a \in t.arcs : ArcReads(Any, a, t.alphabet, p)
  BY SpelledIsRead
<1>5. \A p : p \in P1 <=> LoudFirst(call, p)
  BY <1>0, <1>1, <1>3 DEF LoudFirst
<1>6. \A p : p \in Q1 <=> QuietFirst(call, p)
  BY <1>0, <1>1, <1>3 DEF QuietFirst
<1>7. \A p : p \in P2 <=> LoudSecond(call, p)
  BY <1>0, <1>1, <1>3, SMTT(30) DEF LoudSecond
<1>8. \A p : p \in Q2 <=> QuietSecond(call, p)
  BY <1>0, <1>1, <1>3 DEF QuietSecond
<1> HIDE DEF P1, P2, Q1, Q2
<1>9. x \in Joined(P1, P2) <=> \E p \in P1, q \in P2 : p.out = q.in /\ x = Join(p, q)
  BY JoinedIsJoin
<1>10. x \in FirstAlone(Q1) <=> \E p \in Q1, s \in States : x = Between(<<p.from, s>>, p, <<p.to, s>>)
  BY DEF FirstAlone
<1>11. x \in SecondAlone(Q2) <=> \E q \in Q2, s \in States : x = Between(<<s, q.from>>, q, <<s, q.to>>)
  BY DEF SecondAlone
<1> QED  BY <1>4, <1>5, <1>6, <1>7, <1>8, <1>9, <1>10, <1>11 DEF PromisedOf

\* What an arc taken alone reads.
LEMMA AloneReads ==
  ASSUME NEW U, NEW A, NEW a, NEW u, NEW v, NEW x
  PROVE  ArcReads(U, Between(u, a, v), A, x)
           <=> \E p : ArcReads(U, a, A, p) /\ x = Between(u, p, v)
<1>1. /\ Between(u, a, v).in = a.in /\ Between(u, a, v).out = a.out
      /\ \A i, o : Relabelled(Between(u, a, v), i, o) = Between(u, Relabelled(a, i, o), v)
      /\ \A i, o : Relabelled(a, i, o).in = i /\ Relabelled(a, i, o).out = o
      /\ \A p : Between(u, p, v).in = p.in /\ Between(u, p, v).out = p.out
  BY DEF Between, Relabelled
<1>2. ASSUME ArcReads(U, Between(u, a, v), A, x)
      PROVE  \E p : ArcReads(U, a, A, p) /\ x = Between(u, p, v)
  <2> DEFINE p == Relabelled(a, x.in, x.out)
  <2>1. x = Between(u, p, v)
    BY <1>1, <1>2 DEF ArcReads
  <2>2. p.in = x.in /\ p.out = x.out
    BY <1>1
  <2>3. ArcReads(U, a, A, p)
    BY <1>1, <1>2, <2>2 DEF ArcReads
  <2> QED  BY <2>1, <2>3
<1>3. ASSUME NEW p, ArcReads(U, a, A, p), x = Between(u, p, v)
      PROVE  ArcReads(U, Between(u, a, v), A, x)
  <2>1. x.in = p.in /\ x.out = p.out
    BY <1>1, <1>3
  <2>2. p = Relabelled(a, p.in, p.out)
    BY <1>3 DEF ArcReads
  <2>3. x = Relabelled(Between(u, a, v), x.in, x.out)
    BY <1>1, <1>3, <2>1, <2>2
  <2> QED  BY <1>1, <1>3, <2>1, <2>3 DEF ArcReads
<1> QED  BY <1>2, <1>3
LEMMA ResultReads ==
  ASSUME OptionsAreApart, NEW c \in Calls, NoneReserved(c), NEW x
  PROVE  x \in Spelled(Letters, Result(c))
           <=> \E g \in Result(c).arcs : ArcReads(AnyIn(c), g, Known(c), x)
<1>1. x \in Spelled(Letters, Result(c))
        <=> \E g \in Result(c).arcs : ArcReads(Letters, g, Known(c), x)
  BY SpelledIsRead, ResultArcs
<1> QED  BY <1>1, LettersAreEnough

LEMMA ResultIsSound ==
  ASSUME OptionsAreApart, NEW c \in Calls, NoneReserved(c), NEW x \in Spelled(Letters, Result(c))
  PROVE  PromisedOf(c, x)
<1> DEFINE U == AnyIn(c)
           K == Known(c)
<1>1. PICK g \in Result(c).arcs : ArcReads(U, g, K, x)
  BY ResultReads
<1>2. IDENTITY \notin U /\ UNKNOWN \notin U /\ EPSILON \notin U /\ Plenty(U, K)
  BY AnyFacts, PlentyRemains
<1>3. /\ \A a \in Ready1(c) : ProperFor(K, a)
      /\ \A b \in Ready2(c) : ProperFor(K, b)
  BY ReadyFacts
<1> HIDE DEF U, K
<1>4. CASE \E a, b : Joining(c, a, b, g)
  <2>1. PICK a \in Ready1(c), b \in Ready2(c) :
               Meet(a, b) /\ g = SingleIdentityReplaced(Join(a, b))
    BY <1>4 DEF Joining
  <2>2. PICK p, q : /\ ArcReads(U, a, K, p) /\ ArcReads(U, b, K, q)
                    /\ p.out = q.in /\ p.out # EPSILON /\ x = Join(p, q)
    <3>1. ProperFor(K, a) /\ ProperFor(K, b)
      BY <1>3
    <3>2. ArcReads(U, SingleIdentityReplaced(Join(a, b)), K, x)
      BY <1>1, <2>1
    <3> QED  BY <1>2, <2>1, <3>1, <3>2, JoinSound
  <2>3. LoudFirst(c, p) /\ LoudSecond(c, q)
    BY <2>2, LoudReads DEF U, K
  <2> QED  BY <2>2, <2>3 DEF PromisedOf
<1>5. CASE \E a, s : FirstOnly(c, a, s, g)
  <2>1. PICK a \in Ready1(c), s \in States :
               a.out = EPSILON /\ g = Between(<<a.from, s>>, Vo(c, a), <<a.to, s>>)
    BY <1>5 DEF FirstOnly
  <2>2. PICK p : ArcReads(U, Vo(c, a), K, p) /\ x = Between(<<a.from, s>>, p, <<a.to, s>>)
    BY <1>1, <2>1, AloneReads
  <2>3. QuietFirst(c, p)
    BY <2>1, <2>2, QuietFirstReads DEF U, K
  <2>4. p.from = a.from /\ p.to = a.to
    <3>1. Vo(c, a).from = a.from /\ Vo(c, a).to = a.to
      BY DEF Vo, FlagOnBothSides, Relabelled
    <3> QED  BY <2>2, <3>1 DEF ArcReads, Relabelled
  <2> QED  BY <2>2, <2>3, <2>4 DEF PromisedOf
<1>6. CASE \E b, s : SecondOnly(c, b, s, g)
  <2>1. PICK b \in Ready2(c), s \in States :
               b.in = EPSILON /\ g = Between(<<s, b.from>>, Vo(c, b), <<s, b.to>>)
    BY <1>6 DEF SecondOnly
  <2>2. PICK q : ArcReads(U, Vo(c, b), K, q) /\ x = Between(<<s, b.from>>, q, <<s, b.to>>)
    BY <1>1, <2>1, AloneReads
  <2>3. QuietSecond(c, q)
    BY <2>1, <2>2, QuietSecondReads DEF U, K
  <2>4. q.from = b.from /\ q.to = b.to
    <3>1. Vo(c, b).from = b.from /\ Vo(c, b).to = b.to
      BY DEF Vo, FlagOnBothSides, Relabelled
    <3> QED  BY <2>2, <3>1 DEF ArcReads, Relabelled
  <2> QED  BY <2>2, <2>3, <2>4 DEF PromisedOf
<1>7. \/ \E a, b : Joining(c, a, b, g)
      \/ \E a, s : FirstOnly(c, a, s, g)
      \/ \E b, s : SecondOnly(c, b, s, g)
  BY ResultArcs
<1> QED  BY <1>4, <1>5, <1>6, <1>7

LEMMA ResultIsComplete ==
  ASSUME OptionsAreApart, NEW c \in Calls, NoneReserved(c), NEW x, PromisedOf(c, x)
  PROVE  x \in Spelled(Letters, Result(c)) \/ (x.in = x.out /\ x.in \notin Known(c))
<1> DEFINE U == AnyIn(c)
           K == Known(c)
<1>1. \A g : g \in Result(c).arcs /\ ArcReads(U, g, K, x) => x \in Spelled(Letters, Result(c))
  BY ResultReads
<1>2. IDENTITY \notin U /\ UNKNOWN \notin U /\ EPSILON \notin U
  BY AnyFacts
<1>3. /\ \A a \in Ready1(c) : ProperFor(K, a)
      /\ \A b \in Ready2(c) : ProperFor(K, b)
  BY ReadyFacts
<1>4. /\ \A g, a, b : Joining(c, a, b, g) => g \in Result(c).arcs
      /\ \A g, a, s : FirstOnly(c, a, s, g) => g \in Result(c).arcs
      /\ \A g, b, s : SecondOnly(c, b, s, g) => g \in Result(c).arcs
  BY ResultArcs
<1>5. \A a, p, A : ArcReads(U, Vo(c, a), A, p) => p.from = a.from /\ p.to = a.to
  <2>1. \A a : Vo(c, a).from = a.from /\ Vo(c, a).to = a.to
    BY DEF Vo, FlagOnBothSides, Relabelled
  <2> QED  BY <2>1 DEF ArcReads, Relabelled
<1> HIDE DEF U, K
<1>6. ASSUME NEW p, NEW q, LoudFirst(c, p), LoudSecond(c, q), p.out = q.in, x = Join(p, q)
      PROVE  x \in Spelled(Letters, Result(c)) \/ (x.in = x.out /\ x.in \notin K)
  <2>1. PICK a \in Ready1(c) : ArcReads(U, a, K, p)
    BY <1>6, LoudReads DEF U, K
  <2>2. PICK b \in Ready2(c) : ArcReads(U, b, K, q)
    BY <1>6, LoudReads DEF U, K
  <2>3. p.out # EPSILON /\ ProperFor(K, a) /\ ProperFor(K, b)
    BY <1>3, <1>6, LoudReads
  <2> DEFINE g == SingleIdentityReplaced(Join(a, b))
  <2>4. Meet(a, b) /\ (ArcReads(U, g, K, x) \/ (p.in = q.out /\ p.in \notin K))
    BY <1>2, <1>6, <2>1, <2>2, <2>3, JoinComplete
  <2>5. g \in Result(c).arcs
    <3>1. Joining(c, a, b, g)
      BY <2>4 DEF Joining
    <3> QED  BY <1>4, <3>1
  <2>6. x.in = p.in /\ x.out = q.out
    BY <1>6 DEF Join
  <2> HIDE DEF g
  <2> QED  BY <1>1, <2>4, <2>5, <2>6
<1>7. ASSUME NEW p, NEW s \in States, QuietFirst(c, p), x = Between(<<p.from, s>>, p, <<p.to, s>>)
      PROVE  x \in Spelled(Letters, Result(c))
  <2>1. PICK a \in Ready1(c) : a.out = EPSILON /\ ArcReads(U, Vo(c, a), K, p)
    BY <1>7, QuietFirstReads DEF U, K
  <2> DEFINE g == Between(<<a.from, s>>, Vo(c, a), <<a.to, s>>)
  <2>2. FirstOnly(c, a, s, g)
    BY <2>1 DEF FirstOnly
  <2>3. x = Between(<<a.from, s>>, p, <<a.to, s>>)
    BY <1>5, <1>7, <2>1
  <2>4. ArcReads(U, g, K, x)
    BY <2>1, <2>3, AloneReads
  <2> HIDE DEF g
  <2> QED  BY <1>1, <1>4, <2>2, <2>4
<1>8. ASSUME NEW q, NEW s \in States, QuietSecond(c, q), x = Between(<<s, q.from>>, q, <<s, q.to>>)
      PROVE  x \in Spelled(Letters, Result(c))
  <2>1. PICK b \in Ready2(c) : b.in = EPSILON /\ ArcReads(U, Vo(c, b), K, q)
    BY <1>8, QuietSecondReads DEF U, K
  <2> DEFINE g == Between(<<s, b.from>>, Vo(c, b), <<s, b.to>>)
  <2>2. SecondOnly(c, b, s, g)
    BY <2>1 DEF SecondOnly
  <2>3. x = Between(<<s, b.from>>, q, <<s, b.to>>)
    BY <1>5, <1>8, <2>1
  <2>4. ArcReads(U, g, K, x)
    BY <2>1, <2>3, AloneReads
  <2> HIDE DEF g
  <2> QED  BY <1>1, <1>4, <2>2, <2>4
<1> QED  BY <1>6, <1>7, <1>8 DEF PromisedOf, K

\* For every two transducers, finite or not, that the assumptions of HfstCompose admit,
\* and all three options, but not both of those for flags at once: when compose returns,
\* its result relates what the given ones relate by way of a common symbol and nothing else, but for pairs of one and the same
\* symbol that neither knows.  (HfstTransducer::compose, harmonize_, encode_flag_diacritics)
THEOREM ComposesRight ==
  ASSUME OptionsAreApart
  PROVE  Spec => []Composes
<1>1. CInv => Composes
  <2> SUFFICES ASSUME CInv, pc = "done"
               PROVE  /\ Spelled(Letters, t1) \subseteq Promised
                      /\ \A p \in Promised \ Spelled(Letters, t1) :
                            p.in = p.out /\ p.in \notin t1.alphabet
    BY DEF Composes
  <2>1. call \in Calls /\ NoneReserved(call) /\ t1 = Result(call)
    BY DEF CInv
  <2>2. t1.alphabet = Known(call)
    BY <2>1, ResultArcs
  <2>3. ASSUME NEW x \in Spelled(Letters, t1) PROVE x \in Promised
    <3>1. PromisedOf(call, x)
      BY <2>1, ResultIsSound
    <3> QED  BY <3>1, PromisedIs
  <2>4. ASSUME NEW p \in Promised, p \notin Spelled(Letters, t1)
        PROVE  p.in = p.out /\ p.in \notin t1.alphabet
    <3>1. PromisedOf(call, p)
      BY PromisedIs
    <3> QED  BY <2>1, <2>2, <2>4, <3>1, ResultIsComplete
  <2> QED  BY <2>3, <2>4
<1>2. Init => IInv /\ CInv
  BY InitIInv, InitCInv
<1>3. IInv /\ CInv /\ [Next]_vars => (IInv /\ CInv)'
  BY NextKeepsIInv, NextKeepsCInv
<1> QED  BY <1>1, <1>2, <1>3, PTL DEF Spec
==============================================================================
