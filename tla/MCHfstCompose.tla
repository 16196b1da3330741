---------------------------- MODULE MCHfstCompose ----------------------------
(***************************************************************************)
(* Small instances of HfstCompose: two states, the letters a, b, three     *)
(* letters nobody knows and the letter a flag is encoded as.               *)
(***************************************************************************)
EXTENDS HfstCompose

MCLetters == {"a", "b", "x", "y", "z", "%F%"}
MCFlags == {"@F@"}
MCCode == [f \in MCFlags |-> "%F%"]
Basic == {EPSILON, IDENTITY, UNKNOWN}

Arc(i, o, w) == [from |-> 1, in |-> i, out |-> o, to |-> 2, weight |-> w]

\* Every kind of arc: known and unknown symbols, identity, epsilon on either side, a
\* flag, a symbol that is never harmonized and one of pmatch.
Firsts == {<<"a", "a">>, <<"a", "b">>, <<"a", UNKNOWN>>, <<UNKNOWN, "a">>,
           <<UNKNOWN, UNKNOWN>>, <<IDENTITY, IDENTITY>>, <<EPSILON, UNKNOWN>>,
           <<UNKNOWN, EPSILON>>, <<"@F@", "@F@">>, <<"@_S_@", "@_S_@">>, <<"@PM@", "@PM@">>}
Seconds == {<<p[2], p[1]>> : p \in Firsts}

Of(pairs, more, w) ==
    [alphabet |-> Basic \union {p[1] : p \in pairs} \union {p[2] : p \in pairs} \union more,
     arcs |-> {Arc(p[1], p[2], w) : p \in pairs}]

\* Single arcs, over alphabets with and without symbols that no arc uses, and all arcs
\* at once.
FirstOnes ==
    {Of({p}, more, 1) : p \in Firsts, more \in SUBSET {"b", "@F@"}}
        \union {Of(Firsts, {}, 1), Of({<<UNKNOWN, UNKNOWN>>, <<IDENTITY, IDENTITY>>}, {}, 1)}
SecondOnes ==
    {Of({p}, more, 2) : p \in Seconds, more \in SUBSET {"a", "@_S_@"}}
        \union {Of(Seconds, {}, 2), Of({<<IDENTITY, IDENTITY>>}, {"%F%"}, 2)}

AllCalls == [first : FirstOnes, second : SecondOnes, harmonize : BOOLEAN,
             xerox_composition : BOOLEAN, flag_is_epsilon : BOOLEAN]

\* At most one of the options for flags.
MCCalls == {c \in AllCalls : ~(c.xerox_composition /\ c.flag_is_epsilon)}

\* Both of them, where an unknown symbol meets a transducer that knows the flag.
MCBothOptions ==
    {[first |-> Of({<<UNKNOWN, EPSILON>>}, {}, 1), second |-> Of({p}, {"@F@"}, 2),
      harmonize |-> TRUE, xerox_composition |-> TRUE, flag_is_epsilon |-> TRUE] :
        p \in Seconds}
==============================================================================
