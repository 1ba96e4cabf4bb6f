----------------------------- MODULE Z80Code -----------------------------
(***************************************************************************)
(* One instruction as the two passes of DZasm see it.  Pass 1 follows       *)
(* program flow (ParseArea of parse.c); pass 2 prints the instruction       *)
(* (Disassemble of dz.c).  mem is the loaded code file, a function from its *)
(* addresses to bytes.                                                      *)
(***************************************************************************)
EXTENDS Z80Tables

MAXCODESIZE == 65536

\* Memory that is not loaded holds FFh, and so does what is outside of it.
GetByte(mem, pc) == IF pc \in DOMAIN mem THEN mem[pc] ELSE 255

Word(mem, pc) == GetByte(mem, pc) + 256 * GetByte(mem, pc + 1)

Signed(b) == IF b < 128 THEN b ELSE b - 256

----------------------------------------------------------------------------
\* Pass 1.  What an instruction does to the parsing of an area: it goes on at
\* next, or the area ends at the address in ends; targets are jump and call
\* addresses, data the address operands, includes the include files it needs.
Plain(next) == [next |-> next, ends |-> {}, targets |-> {}, data |-> {}, includes |-> {}]
Ends(end) == [Plain(end + 1) EXCEPT !.ends = {end}]
LoadsWord(mem, pc) == [Plain(pc + 2) EXCEPT !.data = {Word(mem, pc)}]

Calls(mem, pc) == [Plain(pc + 2) EXCEPT !.targets = {Word(mem, pc)}]
RelativeTarget(mem, pc) == Signed(GetByte(mem, pc)) + pc + 1

\* In each of these pc is the address behind the prefix, or the opcode. An
\* unknown instruction ends the area with the prefix in it and no more.
EdInstr(mem, pc) ==
    LET i == GetByte(mem, pc) IN
    CASE i \in {77, 69} -> Ends(pc)
      [] i \in {75, 91, 107, 123, 115, 67, 83, 99} -> LoadsWord(mem, pc + 1)
      [] i \notin {77, 69, 75, 91, 107, 123, 115, 67, 83, 99} ->
             IF edlookup[i] = Unknown THEN Ends(pc - 1) ELSE Plain(pc + 1 + edlookup[i])

IndexInstr(mem, pc) ==
    LET i == GetByte(mem, pc)
        bit == cbindexlookup[GetByte(mem, pc + 2)]
    IN
    CASE i = 203 -> IF bit = Unknown THEN Ends(pc - 1) ELSE Plain(pc + 3)
      [] i = 233 -> Ends(pc)
      [] i \in {33, 42, 34} -> LoadsWord(mem, pc + 1)
      [] i \notin {203, 233, 33, 42, 34} ->
             IF indexlookup[i] = Unknown THEN Ends(pc - 1)
             ELSE Plain(pc + 1 + (indexlookup[i] % 16))

\* RST 20h with a one or two byte code; codes below 21h that are no prefix
\* read outside the table.  OS_BYE, DC_BYE and DC_ENT do not return.
OzInstr(mem, pc) ==
    LET i == GetByte(mem, pc)
        k == GetByte(mem, pc + 1)
        entry(table, n) == IF n \in DOMAIN table THEN {table[n]} ELSE {}
        code(next, end, file) ==
            [IF end THEN Ends(next - 1) ELSE Plain(next) EXCEPT !.includes = file]
    IN
    CASE i = 6  -> code(pc + 2, FALSE, entry(os2, (k \div 2) - 101))
      [] i = 9  -> code(pc + 2, FALSE, entry(gn, (k \div 2) - 3))
      [] i = 12 -> code(pc + 2, k \in {8, 10}, entry(dc, (k \div 2) - 3))
      [] i \notin {6, 9, 12} -> code(pc + 1, i = 33, entry(os1, (i \div 3) - 11))

MainInstr(mem, pc) ==
    LET i == GetByte(mem, pc)
        jr == [Plain(pc + 2) EXCEPT !.targets = {RelativeTarget(mem, pc + 1)}]
    IN
    CASE i \in {201, 233} -> Ends(pc)
      [] i = 24 -> [jr EXCEPT !.ends = {pc + 1}]
      [] i \in {40, 32, 56, 48, 16} -> jr
      [] i = 195 -> [Calls(mem, pc + 1) EXCEPT !.ends = {pc + 2}]
      [] i \in {194, 202, 210, 218, 242, 250, 234, 226}
           \union {196, 204, 212, 220, 244, 252, 236, 205, 228} -> Calls(mem, pc + 1)
      [] i \in {1, 17, 33, 49, 42, 34, 58, 50} -> LoadsWord(mem, pc + 1)
      [] OTHER -> Plain(pc + 1 + mainlookup[i])

\* One turn of the loop of ParseArea.
Instr(mem, pc) ==
    LET i == GetByte(mem, pc) IN
    CASE i = 203 -> Plain(pc + 2)
      [] i = 237 -> EdInstr(mem, pc + 1)
      [] i \in {221, 253} -> IndexInstr(mem, pc + 1)
      [] i = 223 -> [Plain(pc + 2) EXCEPT !.includes = {"floatp"}]
      [] i = 231 -> OzInstr(mem, pc + 1)
      [] i \notin {203, 237, 221, 253, 223, 231} -> MainInstr(mem, pc)

----------------------------------------------------------------------------
\* Pass 2.  next follows the instruction; word and near are the 16 bit operand
\* and the jump address that are printed, at operand; include is the file the
\* name of a call comes from; printed says that there is a mnemonic at all.
Printed(args, pc) ==
    [next |-> pc + OperandBytes(args), args |-> args, operand |-> pc,
     include |-> "none", printed |-> args # Unknown]

\* The index of a call in its table, the last entry when it has none.
CallIndex(code, step, first, last, base, unknown) ==
    IF code % step = 0 /\ code \in first..last THEN (code \div step) - base ELSE unknown

\* A bug: the second byte of a code is printed as an instruction of its own.
OzCallShort(mem, pc) ==
    LET i == GetByte(mem, pc) IN
    [Printed(0, pc + 1) EXCEPT !.include =
        CASE i = 6 -> os2[26] [] i = 9 -> gn[58] [] i = 12 -> dc[16]
          [] i \notin {6, 9, 12} -> os1[CallIndex(i, 3, 33, 141, 11, 37)]]

OzCall(mem, pc) ==
    LET i == GetByte(mem, pc)
        k == GetByte(mem, pc + 1)
        call(next, file) == [Printed(0, next) EXCEPT !.include = file]
    IN
    CASE i = 6  -> call(pc + 2, os2[CallIndex(k, 2, 202, 254, 101, 26)])
      [] i = 9  -> call(pc + 2, gn[CallIndex(k, 2, 6, 120, 3, 58)])
      [] i = 12 -> call(pc + 2, dc[CallIndex(k, 2, 6, 36, 3, 16)])
      [] i \notin {6, 9, 12} -> call(pc + 1, os1[CallIndex(i, 3, 33, 141, 11, 37)])

\* With DD CB and FD CB the opcode is behind the displacement; the program
\* counter is left at the displacement.
IndexPrinted(mem, pc, table, bittable) ==
    LET i == GetByte(mem, pc) IN
    IF i = 203 THEN Printed(bittable[GetByte(mem, pc + 2)], pc + 1)
    ELSE Printed(table[i], pc + 1)

Disassemble(mem, pc) ==
    LET i == GetByte(mem, pc)
        k == GetByte(mem, pc + 1)
    IN
    CASE i = 203 -> Printed(cb[k], pc + 2)
      [] i = 237 -> Printed(edArgs[k], pc + 2)
      [] i = 221 -> IndexPrinted(mem, pc + 1, dd, ddcb)
      [] i = 253 -> IndexPrinted(mem, pc + 1, fd, fdcb)
      [] i = 223 -> [Printed(0, pc + 2) EXCEPT !.include = fpp[CallIndex(k, 3, 33, 162, 11, 44)]]
      [] i = 231 -> OzCall(mem, pc + 1)
      [] OTHER -> Printed(mn[i], pc + 1)
============================================================================
