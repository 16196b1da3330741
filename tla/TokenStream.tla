----------------------------- MODULE TokenStream -----------------------------
(***************************************************************************)
(* The input side of hfst-proc:                                            *)
(*   tools/src/hfst-proc/tokenizer.cc, buffer.h, alphabet.cc (Symbolizer). *)
(*                                                                         *)
(* TokenIOStream cuts a stream of characters into tokens (symbols of the   *)
(* transducer, other characters, superblanks, reserved characters) and     *)
(* keeps the latest of them in a circular buffer, so that its user can go  *)
(* back.  Characters are model values; the reader of the buffer is         *)
(* HfstProc.                                                               *)
(***************************************************************************)
EXTENDS OlGraph

CONSTANTS
    SymbolText,         \* the characters of each symbol that has any
    BLANK,              \* get_blank_symbol: the symbol superblanks are read as
    Tags,               \* symbols of the form <...>
    EscapedChars,       \* characters that are reserved unless escaped
    LBRACKET, RBRACKET, BACKSLASH, LESS, \* the reserved ones the reader treats by name
    NUL,
    AlphabeticSymbols, AlphabeticChars,
    BufferSize          \* 1024 in the constructor of TokenIOStream

ASSUME StreamAssumption ==
    /\ BufferSize \in Nat \ {0}
    /\ DOMAIN SymbolText \subseteq 1 .. ORIG_SYMBOL_COUNT /\ BLANK \in DOMAIN SymbolText
    /\ Tags \cup AlphabeticSymbols \subseteq DOMAIN SymbolText
    /\ NUL \notin EscapedChars \cup AlphabeticChars

VARIABLES
    text,               \* the whole input
    pos,                \* how many of its characters have been read
    buf, currentpos, lastpos  \* Buffer<Token>

stream == <<text, pos, buf, currentpos, lastpos>>

-----------------------------------------------------------------------------
\* Tokens remember the characters they were made of.
Token(type, symbol, chars) == [type |-> type, symbol |-> symbol, text |-> chars]
None == Token("None", NO_SYMBOL, << >>)
Character(c) == Token("Character", NO_SYMBOL, <<c>>)
ReservedCharacter(c) == Token("Reserved", NO_SYMBOL, <<c>>)
Superblank(chars) == Token("Superblank", BLANK, chars)

to_symbol(t) == t.symbol

is_alphabetic(t) ==
    IF t.symbol # NO_SYMBOL THEN t.symbol \in AlphabeticSymbols
    ELSE t.type = "Character" /\ t.text[Len(t.text)] \in AlphabeticChars

-----------------------------------------------------------------------------
Chars(from, n) == SubSeq(text, from + 1, from + n)
AtEof(p) == p = Len(text)

\* LetterTrie: the proper prefixes of symbols are its inner nodes.
Stems == UNION {{SubSeq(s, 1, n) : n \in 1 .. Len(s) - 1} : s \in Range(SymbolText)}

\* LetterTrie::extract_symbol descends as far as it can before it looks back for
\* the longest symbol passed.  The end of the stream on the way gives 0, and what
\* has been read is gone.
Extracted(p) ==
    LET left == SubSeq(text, p + 1, Len(text))
        known == {x \in DOMAIN SymbolText : IsPrefix(SymbolText[x], left)}
    IN  IF left \in Stems \cup {<< >>} THEN 0
        ELSE IF known = {} THEN NO_SYMBOL
        ELSE CHOOSE x \in known :
               \A y \in known : Len(SymbolText[y]) <= Len(SymbolText[x])

\* What a call of read_token gives: a token, the position after it, the NULs it
\* writes out, and whether it ended the program with stream_error.
Result(t, p) == [token |-> t, pos |-> p, flushes |-> 0, error |-> FALSE]

\* make_token: the symbol at p, or else the character.  start is where the token
\* begins; a backslash may lie before p.
MakeToken(start, p) ==
    LET x == Extracted(p)
    IN  CASE x = 0 -> Result(None, Len(text))
          [] x = NO_SYMBOL /\ (p = start => text[p + 1] \notin EscapedChars) ->
               Result(Token("Character", NO_SYMBOL, Chars(start, p + 1 - start)), p + 1)
          [] x = NO_SYMBOL /\ p = start /\ text[p + 1] \in EscapedChars ->
               Result(ReservedCharacter(text[p + 1]), p + 1)
          [] OTHER -> LET q == p + Len(SymbolText[x])
                      IN  Result(Token("Symbol", x, Chars(start, q - start)), q)

\* read_delimited(']'): up to the next bracket that is not escaped; [[ needs ]],
\* and only reserved characters may be escaped.  NULs inside are flushed on the
\* way; those before an error are left out.
Escaped(p, q) ==
    LET run == Max({n \in 0 .. q - p : \A k \in q - n + 1 .. q : text[k] = BACKSLASH})
    IN  run % 2 = 1
ReadSuperblank(p) ==
    LET closing == {q \in p + 1 .. Len(text) : text[q] = RBRACKET /\ ~Escaped(p, q - 1)}
        wblank == p + 2 <= Len(text) /\ text[p + 2] = LBRACKET
        q == Min(closing) + IF wblank THEN 1 ELSE 0
        misused == \E k \in p + 2 .. q : Escaped(p, k - 1) /\ text[k] \notin EscapedChars
    IN  IF closing = {} \/ q > Len(text) \/ text[q] # RBRACKET \/ misused
        THEN [Result(None, Len(text)) EXCEPT !.error = TRUE]
        ELSE [Result(Superblank(Chars(p, q - p)), q) EXCEPT
                !.flushes = Cardinality({k \in p + 1 .. q : text[k] = NUL})]

\* read_token.  Without null-flushing NUL does not occur, and with it a backslash does
\* not stand before one: there the stream would fail.
ReadToken(p) ==
    IF AtEof(p) THEN Result(None, p)
    ELSE LET c == text[p + 1]
         IN  CASE c = NUL -> [Result(Character(c), p + 1) EXCEPT !.flushes = 1]
               [] c = LBRACKET /\ c \in EscapedChars -> ReadSuperblank(p)
               [] c = BACKSLASH /\ c \in EscapedChars -> MakeToken(p, p + 1)
               [] c = LESS /\ c \in EscapedChars ->
                    LET r == MakeToken(p, p)
                    IN  IF r.token.symbol \in Tags THEN r
                        ELSE [r EXCEPT !.token = ReservedCharacter(c)]
               [] c \in EscapedChars \ {LBRACKET, BACKSLASH, LESS} ->
                    Result(ReservedCharacter(c), p + 1)
               [] OTHER -> MakeToken(p, p)

-----------------------------------------------------------------------------
\* Buffer: positions run from 0 to BufferSize, the latter standing for 0 where
\* the next token is written or read.
StreamInit ==
    /\ pos = 0 /\ currentpos = 0 /\ lastpos = 0
    /\ buf = [i \in 0 .. BufferSize - 1 |-> None]

isEmpty == currentpos = lastpos

\* add, next
SlotAt(p) == IF p = BufferSize THEN 0 ELSE p

\* back(n)
BackFrom(n, p) == IF p > n THEN p - n ELSE BufferSize - (n - p)

\* diffPrevPos(prev)
DiffPrev(prev) ==
    IF prev <= currentpos THEN currentpos - prev ELSE currentpos + BufferSize - prev

\* get_token: the next buffered token, or one that is read and buffered; the end
\* of the stream is not.  The caller then moves back by n.
Fetched == IF isEmpty THEN ReadToken(pos) ELSE Result(buf[SlotAt(currentpos)], pos)

GetTokenAndBack(r, n) ==
    /\ pos' = r.pos
    /\ IF ~isEmpty
       THEN currentpos' = BackFrom(n, SlotAt(currentpos) + 1) /\ UNCHANGED <<buf, lastpos>>
       ELSE IF r.token.type = "None"
       THEN currentpos' = BackFrom(n, currentpos) /\ UNCHANGED <<buf, lastpos>>
       ELSE /\ buf' = [buf EXCEPT ![SlotAt(lastpos)] = r.token]
            /\ lastpos' = SlotAt(lastpos) + 1
            /\ currentpos' = BackFrom(n, lastpos')
    /\ UNCHANGED text

\* move_back(n)
MoveBack(n) ==
    currentpos' = BackFrom(n, currentpos) /\ UNCHANGED <<text, pos, buf, lastpos>>
==============================================================================
