---------------------------- MODULE MCMthToken ----------------------------
(***************************************************************************)
(* mthtoken with small tables: tokens inside tokens, tokens that overlap    *)
(* themselves and each other, a token of one character, and a file that is  *)
(* no table; with all lines of up to five bytes, and short ones with a       *)
(* backslash.                                                               *)
(***************************************************************************)
EXTENDS MthToken

\* The file of a table with these tokens.
File(tokens) ==
    LET start == 2 + 2 * (Len(tokens) + 1) IN
    [boundary |-> 128,
     offsets |-> [k \in 1..(Len(tokens) + 1) |-> start + Len(FlattenSeq(SubSeq(tokens, 1, k - 1)))],
     text |-> FlattenSeq(tokens)]

a == 97
b == 98
MCTables == {
    File(<<<<a, b>>, <<128, a>>, <<b>>>>),          \* ab, aba, b
    File(<<<<a, a>>, <<128, 128>>, <<b, 129>>>>),   \* aa, aaaa, baaaa
    File(<<<<a, 34, 13>>, <<13>>>>),
    [boundary |-> 128, offsets |-> <<8, 9, 30>>, text |-> <<a, b>>]}

MCSequences == {<<>>, <<129, 128>>, <<130, 129, 128>>}

MCLines ==
    SeqOf({a, b, Quote, 13}, 4) \union SeqOf({a, b, 128}, 5) \union SeqOf({a, Backslash, Quote}, 3)
============================================================================
