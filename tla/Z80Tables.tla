---------------------------- MODULE Z80Tables ----------------------------
(***************************************************************************)
(* The opcode tables of DZasm.  Pass 1 has tables of its own (parse.c: how  *)
(* many operand bytes follow an opcode, and whether it is known at all);    *)
(* pass 2 has the tables of the disassembler (dz.c: how the operand is      *)
(* printed, which says how many bytes it takes).  Nothing in the code ties  *)
(* the two together.  Each table is kept in two halves, opcodes 00h-7Fh and *)
(* 80h-FFh; mnemonics are left out.                                         *)
(***************************************************************************)
EXTENDS Integers

Byte == 0..255
Unknown == 32          \* bit of a lookup entry: no such instruction
Undocumented == 16     \* bit of a lookup entry: only worth a warning

Halves(low, high) == [o \in Byte |-> IF o < 128 THEN low[o] ELSE high[o]]

----------------------------------------------------------------------------
\* Pass 1.

mainLow == [o \in 0..127 |->
    CASE o \in {1, 17, 33, 34, 42, 49, 50, 58} -> 2
      [] o \in {16, 24, 32, 40, 48, 56} \union {6, 14, 22, 30, 38, 46, 54, 62} -> 1
      [] OTHER -> 0]

mainHigh == [o \in 128..255 |->
    CASE o \in {194, 195, 196, 202, 204, 205, 210, 212, 218, 220, 226, 228, 234, 236, 242,
                244, 250, 252} -> 2
      [] o \in {198, 206, 211, 214, 219, 222, 230, 238, 246, 254} -> 1
      [] OTHER -> 0]

mainlookup == Halves(mainLow, mainHigh)

indexLow == [o \in 0..127 |->
    CASE o \in {33, 34, 42, 54} -> 2
      [] o \in {52, 53, 126} \union {70, 78, 86, 94, 102, 110} \union (112..117 \union {119}) -> 1
      [] o \in {38, 46} -> Undocumented + 1
      [] o \in {9, 25, 35, 41, 43, 57} -> 0
      [] o \in {36, 37, 44, 45, 68, 69, 76, 77, 84, 85, 92, 93, 124, 125}
             \union (96..109 \ {102}) \union {111} -> Undocumented
      [] OTHER -> Unknown]

indexHigh == [o \in 128..255 |->
    CASE o < 192 /\ o % 8 \in {4, 5} -> Undocumented
      [] o < 192 /\ o % 8 = 6 -> 1
      [] o \in {225, 227, 229, 233, 249} -> 0
      [] OTHER -> Unknown]

indexlookup == Halves(indexLow, indexHigh)

cbindexLow == [o \in 0..127 |->
    CASE o = 54 -> Undocumented [] o % 8 = 6 /\ o # 54 -> 0 [] OTHER -> Unknown]

cbindexHigh == [o \in 128..255 |-> IF o % 8 = 6 THEN 0 ELSE Unknown]

cbindexlookup == Halves(cbindexLow, cbindexHigh)

edLow == [o \in 0..127 |->
    CASE o \in {67, 75, 83, 91, 115, 123} -> 2
      [] o \in (64..66) \union (68..74) \union {77} \union (79..82) \union (86..90)
             \union (94..98) \union (103..106) \union {111, 112, 114} \union (120..122) -> 0
      [] OTHER -> Unknown]

edHigh == [o \in 128..255 |->
    IF o \in (160..163) \union (168..171) \union (176..179) \union (184..187)
    THEN 0 ELSE Unknown]

edlookup == Halves(edLow, edHigh)

----------------------------------------------------------------------------
\* Pass 2.  An entry is the kind of operand, and Unknown is "unknown opcode".
Relative == -1         \* a displacement that is printed as an address
Bit == -2              \* the displacement of an instruction DD CB d opcode
OffsetAndByte == -3    \* LD (IX+d),n
Offset == -4           \* (IX+d)

\* Bytes of an operand that come after those read to find the entry.
OperandBytes(args) ==
    CASE args \in {Relative, Offset} -> 1
      [] args \in {Bit, OffsetAndByte} -> 2
      [] args = Unknown -> 0
      [] OTHER -> args

mnLow == [o \in 0..127 |->
    CASE o \in {1, 17, 33, 34, 42, 49, 50, 58} -> 2
      [] o \in {6, 14, 22, 30, 38, 46, 54, 62} -> 1
      [] o \in {16, 24, 32, 40, 48, 56} -> Relative
      [] OTHER -> 0]

mnHigh == [o \in 128..255 |->
    CASE o \in {194, 195, 196, 202, 204, 205, 210, 212, 218, 220, 226, 228, 234, 236, 242,
                244, 250, 252} -> 2
      [] o \in {198, 206, 211, 214, 219, 222, 230, 238, 246, 254} -> 1
      [] o \in {203, 221, 237, 253} -> Unknown
      [] OTHER -> 0]

mn == Halves(mnLow, mnHigh)

cbLow == [o \in 0..127 |-> 0]
cbHigh == [o \in 128..255 |-> 0]
cb == Halves(cbLow, cbHigh)

ddcbLow == [o \in 0..127 |-> IF o % 8 = 6 THEN Bit ELSE Unknown]
ddcbHigh == [o \in 128..255 |-> IF o % 8 = 6 THEN Bit ELSE Unknown]
ddcb == Halves(ddcbLow, ddcbHigh)

\* The same with IY.
fdcbLow == ddcbLow
fdcbHigh == ddcbHigh
fdcb == Halves(fdcbLow, fdcbHigh)

ddLow == [o \in 0..127 |->
    CASE o \in {33, 34, 42} -> 2
      [] o \in {38, 46} -> 1
      [] o = 54 -> OffsetAndByte
      [] o \in {52, 53, 126} \union {70, 78, 86, 94, 102, 110} \union (112..117 \union {119})
             -> Offset
      [] o \in {9, 25, 35, 36, 37, 41, 43, 44, 45, 57, 68, 69, 76, 77, 84, 85, 92, 93}
             \union (96..109 \ {102}) \union {111, 124, 125} -> 0
      [] OTHER -> Unknown]

ddHigh == [o \in 128..255 |->
    CASE o < 192 /\ o % 8 = 6 -> Offset
      [] (o < 192 /\ o % 8 \in {4, 5}) \/ o \in {225, 227, 229, 233, 249} -> 0
      [] OTHER -> Unknown]

dd == Halves(ddLow, ddHigh)

\* The same with IY.
fdLow == ddLow
fdHigh == ddHigh
fd == Halves(fdLow, fdHigh)

edArgsLow == [o \in 0..127 |->
    CASE o \in {67, 75, 83, 91, 115, 123} -> 2
      [] o \in (64..66) \union (68..74) \union {77} \union (79..82) \union (86..90)
             \union (94..98) \union (103..106) \union {111, 112, 114} \union (120..122) -> 0
      [] OTHER -> Unknown]

edArgsHigh == [o \in 128..255 |->
    IF o \in (160..163) \union (168..171) \union (176..179) \union (184..187)
    THEN 0 ELSE Unknown]

edArgs == Halves(edArgsLow, edArgsHigh)

----------------------------------------------------------------------------
\* The OZ and floating point calls, which take no operand after the code: the
\* include file that defines the name of each.  The last entry of a table is
\* printed for codes that are not in it.

dc == [i \in 0..16 |-> IF i < 16 THEN "director" ELSE "none"]

os1 == [i \in 0..37 |->
    CASE i \in {0, 31, 33} -> "director"
      [] i = 1 -> "printer"
      [] i \in 2..6 -> "stdio"
      [] i \in 7..14 -> "fileio"
      [] i \in (15..22) \union {35} -> "memory"
      [] i \in 23..24 -> "syspar"
      [] i = 25 -> "saverestore"
      [] i \in 26..28 -> "error"
      [] i = 29 -> "timedate"
      [] i = 30 -> "handle"
      [] i = 32 -> "alarm"
      [] i = 34 -> "dor"
      [] i = 36 -> "serinterface"
      [] i = 37 -> "none"]

os2 == [i \in 0..27 |->
    CASE i \in 0..1 -> "tokens"
      [] i \in 2..3 -> "printer"
      [] i \in {4, 8, 9} -> "memory"
      [] i \in {5, 17} -> "screen"
      [] i \in {6, 20} -> "timedate"
      [] i = 7 -> "stdio"
      [] i \in {10, 11, 12, 18} \union (22..26) -> "director"
      [] i \in (13..16) \union {19} -> "fileio"
      [] i = 21 -> "map"
      [] i = 27 -> "none"]

gn == [i \in 0..58 |->
    CASE i \in (0..4) \union (7..13) -> "timedate"
      [] i \in (5..6) \union (54..57) -> "integer"
      [] i \in 14..19 -> "filter"
      [] i = 20 \/ i \in 25..27 -> "stdio"
      [] i \in 21..24 -> "chars"
      [] i \in 28..33 -> "memory"
      [] i \in 34..35 -> "error"
      [] i \in 36..48 -> "fileio"
      [] i \in 49..53 -> "alarm"
      [] i = 58 -> "none"]

fpp == [i \in 0..44 |-> IF i < 44 THEN "floatp" ELSE "none"]
============================================================================
