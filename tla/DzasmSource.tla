--------------------------- MODULE DzasmSource ---------------------------
(***************************************************************************)
(* Pass 2 of DZasm (genasm.c): the assembler source of a session, as far as *)
(* it matters for assembling it again: the addresses whose bytes a line     *)
(* stands for, in the order of the file, the labels that are set, those     *)
(* that operands use, and the include files the names of calls come from.   *)
(* And what must be true of a session and its source.                       *)
(***************************************************************************)
EXTENDS Dzasm

\* Source text: bytes are addresses, sets the labels defined, uses those in
\* operands, needs the include files; rubbish are the addresses whose text the
\* assembler cannot take.
Text == [bytes |-> <<>>, sets |-> {}, uses |-> {}, needs |-> {}, starts |-> {}, rubbish |-> {}]

Then(a, b) ==
    [bytes |-> a.bytes \o b.bytes, sets |-> a.sets \union b.sets, uses |-> a.uses \union b.uses,
     needs |-> a.needs \union b.needs, starts |-> a.starts \union b.starts,
     rubbish |-> a.rubbish \union b.rubbish]

Range1(first, last) == [k \in 1..(IF last < first THEN 0 ELSE last - first + 1) |-> first + k - 1]

Labelled(addresses) == addresses \intersect DOMAIN labels

\* A bug: labels of extern addresses are printed, declared or not.
LabelAddrExtern(operand, a) ==
    IF operand \in DOMAIN exprs THEN "expression"
    ELSE IF a \in DOMAIN labels THEN "label" ELSE "number"

\* LabelAddr: how an address is printed at an operand.
LabelAddr(operand, a) ==
    CASE operand \in DOMAIN exprs -> "expression"
      [] operand \notin DOMAIN exprs /\ a \notin DOMAIN labels ->
             IF a \in DOMAIN consts THEN "constant" ELSE "number"
      [] operand \notin DOMAIN exprs /\ a \in DOMAIN labels ->
             IF ~labels[a].addrref /\ a \in DOMAIN consts THEN "constant"
             ELSE IF Extern(a) /\ ~labels[a].xref
                  THEN IF a \in DOMAIN consts THEN "constant" ELSE "number"
                  ELSE "label"

\* The address an instruction prints as a label.
LabelOperand(i) ==
    LET word == Word(mem, i.operand)
        near == RelativeTarget(mem, i.operand)
    IN  CASE i.args = 2 -> IF LabelAddr(i.operand, word) = "label" THEN {word} ELSE {}
          [] i.args = Relative -> {near}
          [] OTHER -> {}

Line(pc) ==
    LET i == Disassemble(mem, pc) IN
    [bytes |-> Range1(pc, i.next - 1), sets |-> Labelled({pc}), uses |-> LabelOperand(i),
     needs |-> {i.include} \ {"none"}, starts |-> {pc},
     rubbish |-> IF i.printed THEN {} ELSE {pc}]

\* The last instruction may go on behind the area.
Z80Asm(start, end) ==
    LET from[pc \in start..(end + 4)] ==
            IF pc > end THEN Text ELSE Then(Line(pc), from[Disassemble(mem, pc).next])
    IN  from[start]

VoidOutput(start, end) ==
    [Text EXCEPT !.bytes = Range1(start, end), !.sets = Labelled(start..end)]

\* Rows of 8 bytes.  A remark behind a line ends its row: pc is set to the next
\* byte, and then the columns before it are added.  A remark before a byte in the
\* middle of a row ends the line, and the row goes on with a comma, to the next label.
DefbOutput(start, end) ==
    LET broken(first, o) == \E r \in (first + 1)..o :
            r \in DOMAIN remarks /\ remarks[r] = "<" /\ Labelled(r..o) = {}
        stops(pc) == {o \in pc..(pc + 7) : o <= end /\ o \in DOMAIN remarks /\ remarks[o] = ">"}
        row(first, last) ==
            [Text EXCEPT !.bytes = Range1(first, last), !.sets = Labelled(first..last),
                         !.rubbish = {o \in first..last : broken(first, o)}]
        from[pc \in start..(end + 9)] ==
            IF pc > end THEN Text
            ELSE IF stops(pc) # {}
                 THEN LET o == CHOOSE x \in stops(pc) : \A y \in stops(pc) : x <= y
                      IN  Then(row(pc, o), from[o + 1 + (o - pc)])
                 ELSE Then(row(pc, IF pc + 7 < end THEN pc + 7 ELSE end), from[pc + 8])
    IN  from[start]

DefStorageOutput(start, end) ==
    [Text EXCEPT !.bytes = Range1(start, end), !.sets = Labelled({start})]

\* A bug: the loop stops a word early.
DefwOutputShort(start, end) ==
    [Text EXCEPT !.bytes = Range1(start, end - 2), !.sets = Labelled(start..end)]

\* Two bytes a line; the last byte of an odd area is not printed.
DefwOutput(start, end) ==
    LET lines == {start + 2 * k : k \in {n \in 0..Codesize : start + 2 * n < end}} IN
    [Text EXCEPT !.bytes = Range1(start, start + 2 * Cardinality(lines) - 1),
                 !.sets = Labelled(lines),
                 !.uses = {a \in {Word(mem, l) : l \in lines} :
                              \E l \in lines : Word(mem, l) = a /\ LabelAddr(l, a) = "label"}]

Quote == 34

\* Text behind a quotation mark that begins a line is taken for text of the string,
\* which has not been opened.  Lines end at labels, behind a NUL, and when they are
\* long, before a byte that is not printed.
DefmOutput(start, end) ==
    LET begins(q) == q = start \/ q \in DOMAIN labels \/ GetByte(mem, q - 1) = 0
        ended(q, a) == \E x \in (q + 1)..a :
            \/ x \in DOMAIN labels \/ GetByte(mem, x - 1) = 0
            \/ x - q > 15 /\ GetByte(mem, x) \notin (32..126) \union {0}
    IN  [Text EXCEPT !.bytes = Range1(start, end), !.sets = Labelled(start..end),
                     !.rubbish = {a \in start..end : \E q \in start..a :
                                      GetByte(mem, q) = Quote /\ begins(q) /\ ~ended(q, a)}]

AreaSource(a) ==
    CASE a.type = "program" -> Z80Asm(a.start, a.end)
      [] a.type = "vacuum" -> VoidOutput(a.start, a.end)
      [] a.type = "defb" -> DefbOutput(a.start, a.end)
      [] a.type = "defs" -> DefStorageOutput(a.start, a.end)
      [] a.type \in {"defw", "addrtable"} -> DefwOutput(a.start, a.end)
      [] a.type = "string" -> DefmOutput(a.start, a.end)

\* DZpass2
Source ==
    LET upto[k \in 0..Len(areas)] ==
            IF k = 0 THEN Text ELSE Then(upto[k - 1], AreaSource(areas[k]))
    IN  upto[Len(areas)]

\* XREF declarations: extern labels the user wants, in one list or the other.
Declared == {a \in DOMAIN labels : ~labels[a].local /\ labels[a].xref}

----------------------------------------------------------------------------
AtPrompt == job = Idle

\* TypeOK: the state of a session is what the structures of dzasm.h can hold.
TypeOK ==
    /\ mem \in Images
    /\ areas \in Seq([start : Int, end : Int, type : Types])
    /\ \A a \in DOMAIN labels : a \in Int /\ labels[a] \in Label
    /\ \A a \in DOMAIN remarks : a \in Code /\ remarks[a] \in {"<", ">"}
    /\ stack \in Seq(Int) /\ changed \in BOOLEAN /\ parsed \subseteq Code
    /\ job \in Jobs \union {Idle, Down}

\* AreasPartition: unless the program has crashed, the areas cover the code from
\* its first to its last address, in order, without a gap and without an empty
\* range (ValidateAreas), whatever has been inserted and joined in what order.
AreasPartition == job = Down \/ Partition(areas, Org, gEndOfCode)

\* SessionInv: what holds between any two steps of a session.
SessionInv == TypeOK /\ AreasPartition

\* TargetsTraced: when pass 1 is done, every jump and call address in the code
\* that an instruction it met refers to has been parsed too: the scan ends when
\* the last reference is resolved, not before.
TargetsTraced ==
    AtPrompt => \A pc \in parsed : Instr(mem, pc).targets \intersect Code \subseteq parsed

\* PassesAgree: pass 2 splits the program areas into the very instructions pass 1
\* met: two sets of tables and two decoders cut the bytes at the same addresses.
PassesAgree == AtPrompt => Source.starts = parsed

\* Where the source is known to be wrong: in a row of bytes, behind a remark before one
\* of them that no label follows; and in a string that begins with a quotation mark.
InBrokenRow(start, a) ==
    \E r \in (start + 1)..a :
        /\ r \in DOMAIN remarks /\ remarks[r] = "<"
        /\ a - r < 7 /\ Labelled(r..a) = {}
InQuotedString(start, a) ==
    \E q \in start..a :
        /\ GetByte(mem, q) = Quote
        /\ q = start \/ q \in DOMAIN labels \/ GetByte(mem, q - 1) = 0
        /\ Labelled((q + 1)..a) = {} /\ \A x \in q..(a - 1) : GetByte(mem, x) # 0

Misprints ==
    {a \in Code : \E k \in DOMAIN areas :
        /\ a \in areas[k].start..areas[k].end
        /\ \/ areas[k].type = "defb" /\ InBrokenRow(areas[k].start, a)
           \/ areas[k].type = "string" /\ InQuotedString(areas[k].start, a)}

\* SourceComplete: the source has a place for every byte of the code, once and in order,
\* and the assembler can take what is printed there, in every instruction, word, void
\* and storage area, and in bytes and strings but for the two kinds of Misprints.
SourceComplete ==
    AtPrompt => Source.bytes = Range1(Org, gEndOfCode) /\ Source.rubbish \subseteq Misprints

\* LabelsDefined: a label used in an operand is set by a line of the source, or
\* declared XREF.
LabelsDefined == AtPrompt => Source.uses \subseteq Source.sets \union Declared

\* IncludesListed: the include files of the calls in the source are in the list
\* pass 1 makes, also after the list has been through the collect file.
IncludesListed == AtPrompt => Source.needs \subseteq includes

\* SourceAssembles: the assembler will know every name in the source.
SourceAssembles == LabelsDefined /\ IncludesListed

\* UnsavedIsFlagged: when the program does not think that the collect file is out
\* of date, the file holds the work: what each address is, the labels, the remarks,
\* and the addresses and values that have an expression or the name of a constant.
UnsavedIsFlagged ==
    AtPrompt /\ available /\ ~changed =>
        /\ \A a \in Code : SearchArea(areas, a) = SearchArea(file.areas, a)
        /\ <<Kept(labels), remarks, DOMAIN exprs, DOMAIN consts>> =
               <<file.labels, file.remarks, DOMAIN file.exprs, DOMAIN file.consts>>

\* StaysResolved: no command and no step of pass 1 makes a known address unknown
\* again, except those that take the work from the collect file.
Unknowns == {a \in Code : SearchArea(areas, a) = "vacuum"}
StaysResolved ==
    [][Start \/ ReloadCollectFile \/ Unknowns' \subseteq Unknowns]_vars

\* ScanEnds: a parsing command comes to its end, loops and jumps back or not.
Scanning == job \notin {Idle, Down}
ScanEnds == Scanning ~> ~Scanning
============================================================================
