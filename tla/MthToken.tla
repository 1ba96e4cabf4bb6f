----------------------------- MODULE MthToken -----------------------------
(***************************************************************************)
(* mthtoken: the texts of menus, topics and help pages are made shorter with *)
(* the tokens of a table.  The program reads DEFM lines, replaces the text   *)
(* of tokens by their codes, a token of the scan sequence after the other,   *)
(* and prints DEFM lines; with -r it reads those, and prints the text in     *)
(* clear.  Here one line goes through both.  Tokens may contain the codes of *)
(* other tokens.                                                             *)
(***************************************************************************)
EXTENDS Integers, SequencesExt

CONSTANTS
    Tables,      \* token table files: [boundary, offsets, text]
    Sequences,   \* scan sequences: codes of tokens; <<>> when there is none
    Lines        \* bytes of the lines of the source

Quote == 34
IsToken(b) == b >= 128

\* A file has two numbers in front, the offsets of the tokens, one more for the
\* end, and their text.
TextStart(f) == 2 + 2 * Len(f.offsets)
Size(f) == TextStart(f) + Len(f.text)
TotalTokens(f) == Len(f.offsets) - 1

VARIABLES
    table,     \* tokentable
    order,     \* codes of the tokens to scan for
    source,    \* the line as it was read
    line,      \* sourcelines: the line as it is now
    i,         \* the token of the order in hand
    out,       \* what has been printed
    phase      \* what the program does

vars == <<table, order, source, line, i, out, phase>>

----------------------------------------------------------------------------
\* Token tables.

\* LoadTokenTable: offsets are compared with the size, and with nothing else.
LoadsTokenTable(f) ==
    /\ Size(f) \in 5..16384
    /\ f.boundary <= 128 /\ TotalTokens(f) <= 128
    /\ \A k \in DOMAIN f.offsets : f.offsets[k] <= Size(f)

\* AllocRawToken; ids count from 0.
RawToken(f, id) ==
    SubSeq(f.text, f.offsets[id + 1] - TextStart(f) + 1, f.offsets[id + 2] - TextStart(f))

\* Codes in a text are replaced by their tokens.
Replaced(s, tokens) ==
    LET upto[k \in 0..Len(s)] ==
            IF k = 0 THEN <<>>
            ELSE upto[k - 1] \o (IF IsToken(s[k]) THEN tokens[s[k] % 128] ELSE <<s[k]>>)
    IN  upto[Len(s)]

\* AllocExpandedToken: the tokens in a token, and those in these.
ExpandedTokens(f) ==
    LET expanded[id \in 0..(TotalTokens(f) - 1)] == Replaced(RawToken(f, id), expanded)
    IN  expanded

ExpandedToken(f, code) == ExpandedTokens(f)[code % 128]

\* AllocTokenInstance
KnownToken(f, code) == code % 128 < TotalTokens(f)

\* What a line stands for.
InClear(f, s) == Replaced(s, ExpandedTokens(f))

\* What LoadTokenTable takes for granted: tokens are in the text and have a length, what
\* follows an empty one in another would not be expanded; and they are made of known
\* tokens, not of themselves, whose expansion would never end.
Sound(f) ==
    /\ f.offsets \in Seq(Nat) /\ f.text \in Seq(0..255)
    /\ \A k \in DOMAIN f.offsets : f.offsets[k] >= TextStart(f)
    /\ \A k \in 1..TotalTokens(f) : f.offsets[k] < f.offsets[k + 1]
    /\ LET Ids == 0..(TotalTokens(f) - 1) IN
       \E rank \in [Ids -> Ids] : \A id \in Ids :
           \A k \in DOMAIN RawToken(f, id) :
               LET b == RawToken(f, id)[k] IN
               IsToken(b) => KnownToken(f, b) /\ rank[b % 128] < rank[id]

ASSUME TableAssumption ==
    /\ \A f \in Tables : LoadsTokenTable(f) => Sound(f)
    /\ Sequences \subseteq Seq(Nat) /\ Lines \subseteq Seq(0..255)

----------------------------------------------------------------------------
\* Tokenizing a line.

\* A bug: the last place is not looked at.
MatchesTokenShort(s, token) ==
    {q \in 1..(Len(s) - Len(token)) : SubSeq(s, q, q + Len(token) - 1) = token}

\* MatchToken: the places where the text of a token is; the first is taken.
MatchesToken(s, token) ==
    {q \in 1..(Len(s) - Len(token) + 1) : SubSeq(s, q, q + Len(token) - 1) = token}

\* A bug: the rest is moved one byte too far to the left.
InsertTokenIdTooFar(s, token, code, q) ==
    SubSeq(s, 1, q - 1) \o <<code>> \o SubSeq(s, q + Len(token) + 1, Len(s))

\* A bug: the code is not written, the rest is moved all the same.
InsertTokenIdNot(s, token, code, q) ==
    SubSeq(s, 1, q) \o SubSeq(s, q + Len(token), Len(s))

InsertTokenId(s, token, code, q) ==
    SubSeq(s, 1, q - 1) \o <<code>> \o SubSeq(s, q + Len(token), Len(s))

----------------------------------------------------------------------------
\* DEFM lines are sequences of lexical elements.
Mark == <<"mark">>              \* begin or end of a string
QuoteChar == <<"quote">>        \* '"'
Comma == <<"comma">>
Character(b) == <<"char", b>>   \* in a string
Constant(b) == <<"$", b>>
Error == -1

\* GetChar: a backslash, in a string too, is read with the character behind it.
Backslash == 92
HasEscape(s) == \E k \in DOMAIN s : s[k] = Backslash

Control(b) == b < 32 \/ b >= 127

\* What the printing of byte k finds: the flags ascii and hex are set by the last
\* byte that is not a quotation mark; none is set at the start of the line.
Mode(s, k) ==
    LET before == {j \in 1..(k - 1) : s[j] # Quote} IN
    IF before = {} THEN "start"
    ELSE IF Control(s[CHOOSE j \in before : \A x \in before : x <= j]) THEN "hex" ELSE "ascii"

\* A bug: a string behind a constant is not separated from it.
PrintByteUnseparated(s, k) ==
    IF Control(s[k])
    THEN (IF Mode(s, k) = "ascii" THEN <<Mark, Comma>> ELSE <<>>) \o <<Constant(s[k])>>
    ELSE IF Mode(s, k) = "ascii" THEN <<Character(s[k])>> ELSE <<Mark, Character(s[k])>>

\* A quotation mark in a string ends it; at the start of the line nothing separates
\* it from what follows.
PrintByte(s, k) ==
    LET mode == Mode(s, k)
        inMode(ascii, hex, start) ==
            CASE mode = "ascii" -> ascii [] mode = "hex" -> hex [] mode = "start" -> start
    IN
    CASE Control(s[k]) -> inMode(<<Mark, Comma>>, <<Comma>>, <<>>) \o <<Constant(s[k])>>
      [] s[k] = Quote ->
             inMode(<<Mark, Comma, QuoteChar, Comma, Mark>>, <<Comma, QuoteChar>>, <<QuoteChar>>)
      [] ~Control(s[k]) /\ s[k] # Quote ->
             inMode(<<>>, <<Comma, Mark>>, <<Mark>>) \o <<Character(s[k])>>

\* OutputRawString
RawString(s) ==
    LET upto[k \in 0..Len(s)] == IF k = 0 THEN <<>> ELSE upto[k - 1] \o PrintByte(s, k)
    IN  upto[Len(s)] \o (IF Mode(s, Len(s) + 1) = "ascii" THEN <<Mark>> ELSE <<>>)

\* OutputTokenizedString: tokens are printed in the middle of it, in clear.
TokenizedString(f, s) == RawString(InClear(f, s))

\* defm: the bytes of a line; an element has to be followed by a comma or the end.
\* The program stops at an error.  This is for a text without a backslash.
Elements(text) ==
    LET read[n \in Nat] ==
            LET ended(k, bytes) ==
                    IF k > Len(text) THEN bytes
                    ELSE IF text[k] = Comma THEN bytes \o read[k + 1]
                    ELSE <<Error>>
                marks == {k \in (n + 1)..Len(text) : text[k] = Mark}
                close == CHOOSE k \in marks : \A x \in marks : k <= x
            IN
            CASE n > Len(text) -> <<Error>>
              [] n <= Len(text) /\ text[n] = QuoteChar -> ended(n + 1, <<Quote>>)
              [] n <= Len(text) /\ text[n] = Mark ->
                     IF marks = {} THEN <<Error>>
                     ELSE ended(close + 1, [k \in 1..(close - n - 1) |-> text[n + k][2]])
              [] n <= Len(text) /\ text[n] \notin {QuoteChar, Mark} ->
                     ended(n + 1, <<text[n][2]>>)
    IN  read[1]

----------------------------------------------------------------------------
Init ==
    /\ table \in Tables
    /\ order = <<>>
    /\ source = <<>> /\ line = <<>> /\ i = 1
    /\ out = <<>>
    /\ phase = "load"

\* A table that is not valid ends the program; without a sequence the tokens are
\* taken in the order of the table.
Load ==
    /\ phase = "load"
    /\ IF LoadsTokenTable(table)
       THEN /\ \E s \in Sequences :
                  order' = IF s = <<>> THEN [k \in 1..TotalTokens(table) |-> k + 127] ELSE s
            /\ phase' = "read"
       ELSE phase' = "failed" /\ UNCHANGED order
    /\ UNCHANGED <<table, source, line, i, out>>

ParseLine ==
    /\ phase = "read"
    /\ \E s \in Lines : source' = s /\ line' = s
    /\ phase' = "tokenize"
    /\ UNCHANGED <<table, order, i, out>>

Tokenizing == phase = "tokenize" /\ i <= Len(order)

\* An unknown token is reported, and then its text is asked for: there is none.
UnknownToken ==
    /\ Tokenizing /\ ~KnownToken(table, order[i])
    /\ phase' = "crashed"
    /\ UNCHANGED <<table, order, source, line, i, out>>

ReplaceToken ==
    LET token == ExpandedToken(table, order[i])
        places == MatchesToken(line, token)
    IN
    /\ Tokenizing /\ KnownToken(table, order[i]) /\ places # {}
    /\ line' = InsertTokenId(line, token, 128 + (order[i] % 128),
                             CHOOSE q \in places : \A x \in places : q <= x)
    /\ UNCHANGED <<table, order, source, i, out, phase>>

NextToken ==
    /\ Tokenizing /\ KnownToken(table, order[i])
    /\ MatchesToken(line, ExpandedToken(table, order[i])) = {}
    /\ i' = i + 1
    /\ UNCHANGED <<table, order, source, line, out, phase>>

OutputTextFile ==
    /\ phase = "tokenize" /\ i > Len(order)
    /\ out' = RawString(line)
    /\ phase' = "printed"
    /\ UNCHANGED <<table, order, source, line, i>>

\* The second time, with -r.  A line with codes that are not in the table is not
\* printed to its end.  What is made of escape sequences, which the printed text has
\* where the line has a backslash, is left open.
ReadBack ==
    /\ phase = "printed"
    /\ \/ HasEscape(line) /\ phase' = "escaped" /\ UNCHANGED line
       \/ /\ ~HasEscape(line)
          /\ IF Contains(Elements(out), Error) THEN phase' = "failed" /\ UNCHANGED line
             ELSE phase' = "detokenize" /\ line' = Elements(out)
    /\ UNCHANGED <<table, order, source, i, out>>

OutputDeTokenizedTextFile ==
    /\ phase = "detokenize"
    /\ IF \A k \in DOMAIN line : IsToken(line[k]) => KnownToken(table, line[k])
       THEN phase' = "done" /\ out' = TokenizedString(table, line)
       ELSE phase' = "crashed" /\ UNCHANGED out
    /\ UNCHANGED <<table, order, source, line, i>>

Next ==
    \/ Load
    \/ ParseLine
    \/ UnknownToken
    \/ ReplaceToken
    \/ NextToken
    \/ OutputTextFile
    \/ ReadBack
    \/ OutputDeTokenizedTextFile

Spec == Init /\ [][Next]_vars /\ WF_vars(Next)

----------------------------------------------------------------------------
\* MeaningKept: whatever has been replaced in whatever order, the line stands for
\* the text it stood for.  Codes that are there from the start are left alone.
MeaningKept == phase \notin {"load", "failed"} => InClear(table, line) = InClear(table, source)

\* NothingLeft: behind a token its text is nowhere in the line, also when other
\* tokens, which may begin or end like it, have been replaced since.
NothingLeft ==
    phase = "tokenize" =>
        \A k \in 1..(i - 1) : ~\E q \in 1..Len(line) :
            LET token == ExpandedToken(table, order[k]) IN
            q + Len(token) - 1 <= Len(line) /\ SubSeq(line, q, q + Len(token) - 1) = token

\* ReadsBack: what is printed in clear reads as the text of the source.  Excepted
\* are lines that begin with a quotation mark and go on, and empty ones: what is
\* printed of them is no DEFM line; and lines with a backslash: it is printed as it
\* is, and read as an escape.
Printable(s) == s # <<>> /\ (s[1] = Quote => Len(s) = 1) /\ ~HasEscape(s)
ReadsBack ==
    /\ phase = "done" /\ Printable(InClear(table, source)) =>
           Elements(out) = InClear(table, source)
    /\ phase = "failed" /\ LoadsTokenTable(table) => ~Printable(line)

\* TokenizingEnds: replacing comes to an end, for tokens of one character too.
TokenizingEnds == phase = "tokenize" ~> phase # "tokenize"
============================================================================
