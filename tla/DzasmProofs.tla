---------------------------- MODULE DzasmProofs ----------------------------
(***************************************************************************)
(* Proofs about DZasm.  Its two decoders, for every memory and address:    *)
(* they cut the bytes alike.  The list of areas, for any number of areas: a*)
(* range that lies in one area is inserted without a crash, the list goes  *)
(* on covering the code, and only the range changes its type.  Pass 1, for *)
(* any code file, any origin and any sequence of commands: no jump or call *)
(* address of the code gets lost, whatever the stack, the labels and the   *)
(* collect file go through.                                                *)
(***************************************************************************)
EXTENDS DzasmSource, FiniteSetTheorems, SequenceTheorems, WellFoundedInduction, TLAPS

----------------------------------------------------------------------------
(* The tables of the two passes against each other *)

LEMMA OperandSizes ==
    /\ OperandBytes(0) = 0 /\ OperandBytes(1) = 1 /\ OperandBytes(2) = 2
    /\ OperandBytes(Relative) = 1 /\ OperandBytes(Offset) = 1
    /\ OperandBytes(Bit) = 2 /\ OperandBytes(OffsetAndByte) = 2
  BY DEF OperandBytes, Relative, Bit, OffsetAndByte, Offset, Unknown

\* Both passes know the operand bytes of the instructions without a prefix.
LEMMA MainTables ==
    \A o \in Byte : mainlookup[o] \in 0..2 /\ mainlookup[o] = OperandBytes(mn[o])
<1>1. ASSUME NEW o \in Byte, o < 128
      PROVE  mainlookup[o] = mainLow[o] /\ mn[o] = mnLow[o]
  BY <1>1 DEF mainlookup, mn, Halves
<1>2. ASSUME NEW o \in Byte, ~(o < 128)
      PROVE  mainlookup[o] = mainHigh[o] /\ mn[o] = mnHigh[o]
  BY <1>2 DEF mainlookup, mn, Halves
<1>3. \A o \in 0..127 : \/ mainLow[o] \in 0..2 /\ mnLow[o] = mainLow[o]
                        \/ mainLow[o] = 1 /\ mnLow[o] = Relative
  BY DEF mainLow, mnLow
<1>4. \A o \in 128..255 : \/ mainHigh[o] \in 0..2 /\ mnHigh[o] = mainHigh[o]
                          \/ mainHigh[o] = 0 /\ mnHigh[o] = Unknown
  BY DEF mainHigh, mnHigh
<1>5. OperandBytes(Unknown) = 0
  BY DEF OperandBytes, Relative, Bit, OffsetAndByte, Offset, Unknown
<1>6. ASSUME NEW o \in Byte
      PROVE  \/ mainlookup[o] \in 0..2 /\ mn[o] = mainlookup[o]
             \/ mainlookup[o] = 1 /\ mn[o] = Relative
             \/ mainlookup[o] = 0 /\ mn[o] = Unknown
  <2>1. CASE o < 128
    <3>1. o \in 0..127  BY <2>1 DEF Byte
    <3> QED  BY <1>1, <1>3, <2>1, <3>1
  <2>2. CASE ~(o < 128)
    <3>1. o \in 128..255  BY <2>2 DEF Byte
    <3> QED  BY <1>2, <1>4, <2>2, <3>1
  <2> QED  BY <2>1, <2>2
<1>7. ASSUME NEW o \in Byte
      PROVE  mainlookup[o] \in 0..2 /\ mainlookup[o] = OperandBytes(mn[o])
  <2>1. \A n \in 0..2 : OperandBytes(n) = n
    BY DEF OperandBytes, Relative, Bit, OffsetAndByte, Offset, Unknown
  <2>2. CASE mainlookup[o] \in 0..2 /\ mn[o] = mainlookup[o]
    BY <2>1, <2>2
  <2>3. CASE mainlookup[o] = 1 /\ mn[o] = Relative
    BY <2>3, OperandSizes
  <2>4. CASE mainlookup[o] = 0 /\ mn[o] = Unknown
    BY <2>4, <1>5
  <2> QED  BY <1>6, <2>2, <2>3, <2>4
<1> QED  BY <1>7

\* Behind EDh they know the same instructions, with the same operand bytes.
LEMMA EdTables ==
    \A o \in Byte : /\ edlookup[o] \in {0, 2, Unknown}
                    /\ edArgs[o] = edlookup[o]
<1>1. edArgs = edlookup
  <2>1. edArgsLow = edLow  BY DEF edArgsLow, edLow
  <2>2. edArgsHigh = edHigh  BY DEF edArgsHigh, edHigh
  <2> QED  BY <2>1, <2>2 DEF edArgs, edlookup
<1>2. \A o \in 0..127 : edLow[o] \in {0, 2, Unknown}
  BY DEF edLow, Unknown
<1>3. \A o \in 128..255 : edHigh[o] \in {0, 2, Unknown}
  BY DEF edHigh, Unknown
<1>4. ASSUME NEW o \in Byte
      PROVE  edlookup[o] \in {0, 2, Unknown}
  <2>1. CASE o < 128
    <3>1. o \in 0..127 /\ edlookup[o] = edLow[o]  BY <2>1 DEF Byte, edlookup, Halves
    <3> QED  BY <1>2, <3>1
  <2>2. CASE ~(o < 128)
    <3>1. o \in 128..255 /\ edlookup[o] = edHigh[o]  BY <2>2 DEF Byte, edlookup, Halves
    <3> QED  BY <1>3, <3>1
  <2> QED  BY <2>1, <2>2
<1> QED  BY <1>1, <1>4

\* Behind DDh and FDh they do too; pass 1 marks the undocumented instructions.
LEMMA IndexTables ==
    \A o \in Byte :
        /\ indexlookup[o] \in 0..Unknown
        /\ fd[o] = dd[o]
        /\ indexlookup[o] = Unknown <=> dd[o] = Unknown
        /\ dd[o] # Unknown => indexlookup[o] % 16 = OperandBytes(dd[o])
<1>1. fd = dd
  BY DEF fd, dd, fdLow, fdHigh
<1>2. ASSUME NEW o \in Byte, o < 128
      PROVE  indexlookup[o] = indexLow[o] /\ dd[o] = ddLow[o]
  BY <1>2 DEF indexlookup, dd, Halves
<1>3. ASSUME NEW o \in Byte, ~(o < 128)
      PROVE  indexlookup[o] = indexHigh[o] /\ dd[o] = ddHigh[o]
  BY <1>3 DEF indexlookup, dd, Halves
<1> DEFINE Agree(i, args) == \/ i = 32 /\ args = 32
                             \/ i = 2 /\ args \in {2, OffsetAndByte}
                             \/ i = 1 /\ args = Offset
                             \/ i = 17 /\ args = 1
                             \/ i \in {0, 16} /\ args = 0
<1>4. \A o \in 0..127 : Agree(indexLow[o], ddLow[o])
  BY DEF indexLow, ddLow, Unknown, Undocumented
<1>5. \A o \in 128..255 : Agree(indexHigh[o], ddHigh[o])
  BY DEF indexHigh, ddHigh, Unknown, Undocumented
<1>6. ASSUME NEW o \in Byte
      PROVE  Agree(indexlookup[o], dd[o])
  <2>1. CASE o < 128
    <3>1. o \in 0..127  BY <2>1 DEF Byte
    <3> QED  BY <1>2, <1>4, <2>1, <3>1
  <2>2. CASE ~(o < 128)
    <3>1. o \in 128..255  BY <2>2 DEF Byte
    <3> QED  BY <1>3, <1>5, <2>2, <3>1
  <2> QED  BY <2>1, <2>2
<1>7. ASSUME NEW i, NEW args, Agree(i, args)
      PROVE  /\ i \in 0..Unknown
             /\ i = Unknown <=> args = Unknown
             /\ args # Unknown => i % 16 = OperandBytes(args)
  BY <1>7 DEF OperandBytes, Relative, Bit, OffsetAndByte, Offset, Unknown
<1> HIDE DEF Agree
<1>8. ASSUME NEW o \in Byte
      PROVE  /\ indexlookup[o] \in 0..Unknown
             /\ indexlookup[o] = Unknown <=> dd[o] = Unknown
             /\ dd[o] # Unknown => indexlookup[o] % 16 = OperandBytes(dd[o])
  BY <1>6, <1>7
<1> QED  BY <1>1, <1>8

\* And so they do behind DDh CBh d and FDh CBh d.
LEMMA BitTables ==
    \A o \in Byte : /\ fdcb[o] = ddcb[o]
                    /\ cbindexlookup[o] = Unknown <=> ddcb[o] = Unknown
                    /\ ddcb[o] # Unknown => ddcb[o] = Bit
<1> SUFFICES ASSUME NEW o \in Byte
             PROVE  /\ fdcb[o] = ddcb[o]
                    /\ cbindexlookup[o] = Unknown <=> ddcb[o] = Unknown
                    /\ ddcb[o] # Unknown => ddcb[o] = Bit
  OBVIOUS
<1>0. fdcb = ddcb
  BY DEF fdcb, ddcb, fdcbLow, fdcbHigh
<1>1. CASE o < 128
  <2>1. o \in 0..127  BY <1>1 DEF Byte
  <2>2. ddcb[o] = IF o % 8 = 6 THEN Bit ELSE Unknown
    BY <1>1, <2>1 DEF ddcb, Halves, ddcbLow
  <2>3. cbindexlookup[o] = cbindexLow[o]
    BY <1>1 DEF cbindexlookup, Halves
  <2>4. cbindexLow[o] = Unknown <=> o % 8 # 6
    BY <2>1 DEF cbindexLow, Unknown, Undocumented
  <2> QED  BY <1>0, <2>2, <2>3, <2>4 DEF Unknown, Bit
<1>2. CASE ~(o < 128)
  <2>1. o \in 128..255  BY <1>2 DEF Byte
  <2>2. ddcb[o] = IF o % 8 = 6 THEN Bit ELSE Unknown
    BY <1>2, <2>1 DEF ddcb, Halves, ddcbHigh
  <2>3. cbindexlookup[o] = cbindexHigh[o]
    BY <1>2 DEF cbindexlookup, Halves
  <2>4. cbindexHigh[o] = Unknown <=> o % 8 # 6
    BY <2>1 DEF cbindexHigh, Unknown
  <2> QED  BY <1>0, <2>2, <2>3, <2>4 DEF Unknown, Bit
<1> QED  BY <1>1, <1>2

----------------------------------------------------------------------------
(* One instruction *)

LEMMA BytesAreBytes ==
    ASSUME NEW S, NEW m \in [S -> Byte], NEW pc
    PROVE  GetByte(m, pc) \in Byte /\ GetByte(m, pc) \in Int
  BY DEF GetByte, Byte

LEMMA AddressesAreNumbers ==
    ASSUME NEW S, NEW m \in [S -> Byte], NEW pc \in Int
    PROVE  Word(m, pc) \in Int /\ RelativeTarget(m, pc) \in Int
<1>1. GetByte(m, pc) \in Int /\ GetByte(m, pc + 1) \in Int
  BY BytesAreBytes
<1> QED  BY <1>1 DEF Word, RelativeTarget, Signed

\* What every turn of ParseArea is like: it goes forward, an area that ends ends
\* with the instruction, and there is one jump address at most.
Turn(i, pc) ==
    /\ i.next \in Int /\ i.next >= pc
    /\ i.ends = {} \/ i.ends = {i.next - 1}
    /\ i.targets = {} \/ \E x \in Int : i.targets = {x}

LEMMA Turns ==
    ASSUME NEW S, NEW m \in [S -> Byte], NEW pc \in Int, NEW n \in Int, pc <= n
    PROVE  /\ Turn(Plain(n), pc) /\ Plain(n).next = n
           /\ Turn(LoadsWord(m, n), pc) /\ LoadsWord(m, n).next = n + 2
           /\ Turn(Calls(m, n), pc) /\ Calls(m, n).next = n + 2
<1>1. Turn(Plain(n), pc) /\ Plain(n).next = n
  BY DEF Turn, Plain
<1>2. Turn(LoadsWord(m, n), pc) /\ LoadsWord(m, n).next = n + 2
  BY DEF Turn, Plain, LoadsWord
<1>3. Turn(Calls(m, n), pc) /\ Calls(m, n).next = n + 2
  BY AddressesAreNumbers DEF Turn, Plain, Calls
<1> QED  BY <1>1, <1>2, <1>3

LEMMA LastTurn ==
    ASSUME NEW pc \in Int, NEW n \in Int, pc <= n + 1
    PROVE  Turn(Ends(n), pc) /\ Ends(n).next = n + 1
  BY DEF Turn, Plain, Ends

LEMMA EdTurn ==
    ASSUME NEW S, NEW m \in [S -> Byte], NEW pc \in Int
    PROVE  LET i == EdInstr(m, pc)
               args == edArgs[GetByte(m, pc)]
           IN  Turn(i, pc) /\ (args # Unknown => i.next = pc + 1 + args)
<1> DEFINE o == GetByte(m, pc)
<1>1. o \in Byte
  BY BytesAreBytes
<1>2. edlookup[o] \in {0, 2, Unknown} /\ edArgs[o] = edlookup[o]
  BY <1>1, EdTables
<1>3. o \in {77, 69} => edlookup[o] = 0
  BY <1>1 DEF edlookup, Halves, edLow
<1>4. o \in {75, 91, 107, 123, 115, 67, 83, 99} => edlookup[o] \in {2, Unknown}
  BY <1>1 DEF edlookup, Halves, edLow
<1> SUFFICES LET i == EdInstr(m, pc)
             IN  Turn(i, pc) /\ (edlookup[o] # Unknown => i.next = pc + 1 + edlookup[o])
  BY <1>2
<1>5. CASE o \in {77, 69}
  <2>1. EdInstr(m, pc) = Ends(pc)
    BY <1>5 DEF EdInstr
  <2> QED  BY <1>3, <1>5, <2>1, LastTurn
<1>6. CASE o \in {75, 91, 107, 123, 115, 67, 83, 99}
  <2>1. EdInstr(m, pc) = LoadsWord(m, pc + 1)
    BY <1>6 DEF EdInstr
  <2> QED  BY <1>4, <1>6, <2>1, Turns
<1>7. CASE o \notin {77, 69, 75, 91, 107, 123, 115, 67, 83, 99}
  <2>1. EdInstr(m, pc) = IF edlookup[o] = Unknown THEN Ends(pc - 1)
                           ELSE Plain(pc + 1 + edlookup[o])
    BY <1>7 DEF EdInstr
  <2> QED  BY <1>2, <2>1, Turns, LastTurn
<1> QED  BY <1>5, <1>6, <1>7

\* DDh and FDh: the byte behind CBh is skipped to find the entry.
LEMMA IndexTurn ==
    ASSUME NEW S, NEW m \in [S -> Byte], NEW pc \in Int
    PROVE  LET i == IndexInstr(m, pc)
               p == IndexPrinted(m, pc, dd, ddcb)
           IN  /\ Turn(i, pc)
               /\ p.printed => p.next = i.next
               /\ IndexPrinted(m, pc, fd, fdcb) = p
<1> DEFINE o == GetByte(m, pc)
           b == GetByte(m, pc + 2)
<1>1. o \in Byte /\ b \in Byte
  BY BytesAreBytes
<1>2. CASE o = 203
  <2>1. cbindexlookup[b] = Unknown <=> ddcb[b] = Unknown
    BY <1>1, BitTables
  <2>2. IndexInstr(m, pc) = IF cbindexlookup[b] = Unknown THEN Ends(pc - 1) ELSE Plain(pc + 3)
    BY <1>2 DEF IndexInstr
  <2>3. IndexPrinted(m, pc, dd, ddcb) = Printed(ddcb[b], pc + 1)
    BY <1>2 DEF IndexPrinted
  <2>4. IndexPrinted(m, pc, fd, fdcb) = Printed(ddcb[b], pc + 1)
    BY <1>1, <1>2, BitTables DEF IndexPrinted
  <2>5. ddcb[b] # Unknown => Printed(ddcb[b], pc + 1).next = pc + 3
    BY <1>1, BitTables, OperandSizes DEF Printed
  <2>6. Printed(ddcb[b], pc + 1).printed <=> ddcb[b] # Unknown
    BY DEF Printed
  <2> QED  BY <2>1, <2>2, <2>3, <2>4, <2>5, <2>6, Turns, LastTurn
<1>3. CASE o # 203
  <2>1. /\ indexlookup[o] \in 0..Unknown
        /\ indexlookup[o] = Unknown <=> dd[o] = Unknown
        /\ dd[o] # Unknown => indexlookup[o] % 16 = OperandBytes(dd[o])
    BY <1>1, IndexTables
  <2>2. /\ o = 233 => dd[o] = 0
        /\ o \in {33, 42, 34} => dd[o] = 2
    BY <1>1 DEF dd, Halves, ddLow, ddHigh
  <2>3. IndexPrinted(m, pc, dd, ddcb) = Printed(dd[o], pc + 1)
    BY <1>3 DEF IndexPrinted
  <2>4. IndexPrinted(m, pc, fd, fdcb) = Printed(dd[o], pc + 1)
    BY <1>1, <1>3, IndexTables DEF IndexPrinted
  <2>5. Printed(dd[o], pc + 1).next = pc + 1 + OperandBytes(dd[o])
    BY DEF Printed
  <2>6. Printed(dd[o], pc + 1).printed <=> dd[o] # Unknown
    BY DEF Printed
  <2>7. CASE o = 233
    <3>1. IndexInstr(m, pc) = Ends(pc)
      BY <2>7 DEF IndexInstr
    <3> QED  BY <2>2, <2>3, <2>4, <2>5, <2>7, <3>1, OperandSizes, LastTurn
  <2>8. CASE o \in {33, 42, 34}
    <3>1. IndexInstr(m, pc) = LoadsWord(m, pc + 1)
      BY <2>8 DEF IndexInstr
    <3> QED  BY <2>2, <2>3, <2>4, <2>5, <2>8, <3>1, OperandSizes, Turns
  <2>9. CASE o \notin {203, 233, 33, 42, 34}
    <3>1. IndexInstr(m, pc) = IF indexlookup[o] = Unknown THEN Ends(pc - 1)
                                ELSE Plain(pc + 1 + (indexlookup[o] % 16))
      BY <2>9 DEF IndexInstr
    <3>2. indexlookup[o] % 16 \in Int /\ indexlookup[o] % 16 >= 0
      BY <2>1 DEF Unknown
    <3>3. Turn(IndexInstr(m, pc), pc)
      BY <3>1, <3>2, Turns, LastTurn
    <3>4. dd[o] # Unknown => IndexInstr(m, pc).next = pc + 1 + OperandBytes(dd[o])
      BY <2>1, <3>1, <3>2, Turns
    <3> QED  BY <2>3, <2>4, <2>5, <2>6, <3>3, <3>4
  <2> QED  BY <1>3, <2>7, <2>8, <2>9
<1> QED  BY <1>2, <1>3

\* OZ calls: a code of one byte, or of two.
LEMMA OzTurn ==
    ASSUME NEW S, NEW m \in [S -> Byte], NEW pc \in Int
    PROVE  Turn(OzInstr(m, pc), pc) /\ OzCall(m, pc).next = OzInstr(m, pc).next
<1> DEFINE o == GetByte(m, pc)
           k == GetByte(m, pc + 1)
           entry(table, n) == IF n \in DOMAIN table THEN {table[n]} ELSE {}
           code(next, end, needed) ==
               [IF end THEN Ends(next - 1) ELSE Plain(next) EXCEPT !.includes = needed]
           call(next, needed) == [Printed(0, next) EXCEPT !.include = needed]
<1>1. ASSUME NEW next \in Int, next > pc, NEW needed, NEW end
      PROVE  Turn(code(next, end, needed), pc) /\ code(next, end, needed).next = next
  <2>1. CASE end
    BY <1>1, <2>1 DEF Turn, Plain, Ends
  <2>2. CASE ~end
    BY <1>1, <2>2 DEF Turn, Plain, Ends
  <2> QED  BY <2>1, <2>2
<1>2. ASSUME NEW next \in Int, NEW needed
      PROVE  call(next, needed).next = next
  BY OperandSizes DEF Printed
<1>3. pc + 1 \in Int /\ pc + 2 \in Int /\ pc + 1 > pc /\ pc + 2 > pc
  OBVIOUS
<1> HIDE DEF code, call, entry
<1>4. CASE o = 6
  <2>1. OzInstr(m, pc) = code(pc + 2, FALSE, entry(os2, (k \div 2) - 101))
    BY <1>4 DEF OzInstr, code, entry
  <2>2. OzCall(m, pc) = call(pc + 2, os2[CallIndex(k, 2, 202, 254, 101, 26)])
    BY <1>4 DEF OzCall, call
  <2>3. /\ Turn(code(pc + 2, FALSE, entry(os2, (k \div 2) - 101)), pc)
        /\ code(pc + 2, FALSE, entry(os2, (k \div 2) - 101)).next = pc + 2
    BY <1>1, <1>3
  <2>4. OzCall(m, pc).next = pc + 2
    BY <2>2, <1>2, <1>3
  <2> QED  BY <2>1, <2>3, <2>4
<1>5. CASE o = 9
  <2>1. OzInstr(m, pc) = code(pc + 2, FALSE, entry(gn, (k \div 2) - 3))
    BY <1>5 DEF OzInstr, code, entry
  <2>2. OzCall(m, pc) = call(pc + 2, gn[CallIndex(k, 2, 6, 120, 3, 58)])
    BY <1>5 DEF OzCall, call
  <2>3. /\ Turn(code(pc + 2, FALSE, entry(gn, (k \div 2) - 3)), pc)
        /\ code(pc + 2, FALSE, entry(gn, (k \div 2) - 3)).next = pc + 2
    BY <1>1, <1>3
  <2>4. OzCall(m, pc).next = pc + 2
    BY <2>2, <1>2, <1>3
  <2> QED  BY <2>1, <2>3, <2>4
<1>6. CASE o = 12
  <2>1. OzInstr(m, pc) = code(pc + 2, k \in {8, 10}, entry(dc, (k \div 2) - 3))
    BY <1>6 DEF OzInstr, code, entry
  <2>2. OzCall(m, pc) = call(pc + 2, dc[CallIndex(k, 2, 6, 36, 3, 16)])
    BY <1>6 DEF OzCall, call
  <2>3. /\ Turn(code(pc + 2, k \in {8, 10}, entry(dc, (k \div 2) - 3)), pc)
        /\ code(pc + 2, k \in {8, 10}, entry(dc, (k \div 2) - 3)).next = pc + 2
    BY <1>1, <1>3
  <2>4. OzCall(m, pc).next = pc + 2
    BY <2>2, <1>2, <1>3
  <2> QED  BY <2>1, <2>3, <2>4
<1>7. CASE o \notin {6, 9, 12}
  <2>1. OzInstr(m, pc) = code(pc + 1, o = 33, entry(os1, (o \div 3) - 11))
    BY <1>7 DEF OzInstr, code, entry
  <2>2. OzCall(m, pc) = call(pc + 1, os1[CallIndex(o, 3, 33, 141, 11, 37)])
    BY <1>7 DEF OzCall, call
  <2>3. /\ Turn(code(pc + 1, o = 33, entry(os1, (o \div 3) - 11)), pc)
        /\ code(pc + 1, o = 33, entry(os1, (o \div 3) - 11)).next = pc + 1
    BY <1>1, <1>3
  <2>4. OzCall(m, pc).next = pc + 1
    BY <2>2, <1>2, <1>3
  <2> QED  BY <2>1, <2>3, <2>4
<1> QED  BY <1>4, <1>5, <1>6, <1>7

LEMMA MainTurn ==
    ASSUME NEW S, NEW m \in [S -> Byte], NEW pc \in Int
    PROVE  /\ Turn(MainInstr(m, pc), pc)
           /\ MainInstr(m, pc).next = pc + 1 + mainlookup[GetByte(m, pc)]
<1> DEFINE o == GetByte(m, pc)
           jr == [Plain(pc + 2) EXCEPT !.targets = {RelativeTarget(m, pc + 1)}]
           short == {24, 40, 32, 56, 48, 16}
           jumps == {194, 202, 210, 218, 242, 250, 234, 226}
                    \union {196, 204, 212, 220, 244, 252, 236, 205, 228}
           loads == {1, 17, 33, 49, 42, 34, 58, 50}
<1>1. o \in Byte /\ mainlookup[o] \in 0..2
  BY BytesAreBytes, MainTables
<1>2. /\ o \in {201, 233} => mainlookup[o] = 0
      /\ o \in short => mainlookup[o] = 1
      /\ o \in jumps \union loads \union {195} => mainlookup[o] = 2
  BY <1>1 DEF mainlookup, Halves, mainLow, mainHigh
<1>3. RelativeTarget(m, pc + 1) \in Int /\ Word(m, pc + 1) \in Int
  BY AddressesAreNumbers
<1>4. CASE o \in {201, 233}
  <2>1. MainInstr(m, pc) = Ends(pc)  BY <1>4 DEF MainInstr
  <2> QED  BY <1>2, <1>4, <2>1, LastTurn
<1>5. CASE o \in short
  <2>1. MainInstr(m, pc) = jr \/ MainInstr(m, pc) = [jr EXCEPT !.ends = {pc + 1}]
    BY <1>5 DEF MainInstr
  <2>2. Turn(jr, pc) /\ jr.next = pc + 2
    BY <1>3 DEF Turn, Plain
  <2>3. Turn([jr EXCEPT !.ends = {pc + 1}], pc) /\ [jr EXCEPT !.ends = {pc + 1}].next = pc + 2
    BY <1>3 DEF Turn, Plain
  <2> HIDE DEF jr
  <2>4. Turn(MainInstr(m, pc), pc) /\ MainInstr(m, pc).next = pc + 2
    BY <2>1, <2>2, <2>3
  <2> QED  BY <1>2, <1>5, <2>4
<1>6. CASE o = 195
  <2>1. MainInstr(m, pc) = [Calls(m, pc + 1) EXCEPT !.ends = {pc + 2}]
    BY <1>6 DEF MainInstr
  <2> QED  BY <1>2, <1>3, <1>6, <2>1 DEF Turn, Calls, Plain
<1>7. CASE o \in jumps
  <2>1. MainInstr(m, pc) = Calls(m, pc + 1)  BY <1>7 DEF MainInstr
  <2> QED  BY <1>2, <1>7, <2>1, Turns
<1>8. CASE o \in loads
  <2>1. MainInstr(m, pc) = LoadsWord(m, pc + 1)  BY <1>8 DEF MainInstr
  <2> QED  BY <1>2, <1>8, <2>1, Turns
<1>9. CASE o \notin {201, 233, 195} \union short \union jumps \union loads
  <2>1. MainInstr(m, pc) = Plain(pc + 1 + mainlookup[o])  BY <1>9 DEF MainInstr
  <2> QED  BY <1>1, <2>1, Turns
<1> QED  BY <1>4, <1>5, <1>6, <1>7, <1>8, <1>9

----------------------------------------------------------------------------
(* The theorems *)

\* Pass 1 always goes forward, by a byte at least, whatever the bytes are, an area
\* ends with its last instruction, and an instruction has one jump address at most.
THEOREM InstrForward ==
    ASSUME NEW S, NEW m \in [S -> Byte], NEW pc \in Int
    PROVE  Turn(Instr(m, pc), pc + 1)
<1> DEFINE o == GetByte(m, pc)
<1>1. o \in Byte
  BY BytesAreBytes
<1>2. CASE o \in {203, 223}
  BY <1>2 DEF Instr, Turn, Plain
<1>3. CASE o = 237
  <2>1. Instr(m, pc) = EdInstr(m, pc + 1)  BY <1>3 DEF Instr
  <2> QED  BY <2>1, EdTurn
<1>4. CASE o \in {221, 253}
  <2>1. Instr(m, pc) = IndexInstr(m, pc + 1)  BY <1>4 DEF Instr
  <2> QED  BY <2>1, IndexTurn
<1>5. CASE o = 231
  <2>1. Instr(m, pc) = OzInstr(m, pc + 1)  BY <1>5 DEF Instr
  <2> QED  BY <2>1, OzTurn
<1>6. CASE o \notin {203, 237, 221, 253, 223, 231}
  <2>1. Instr(m, pc) = MainInstr(m, pc)  BY <1>6 DEF Instr
  <2>2. mainlookup[o] \in 0..2  BY <1>1, MainTables
  <2> QED  BY <2>1, <2>2, MainTurn DEF Turn
<1> QED  BY <1>2, <1>3, <1>4, <1>5, <1>6

\* The two decoders cut the bytes alike: what pass 2 has a mnemonic for is as long
\* for pass 2 (dz.c) as it is for pass 1 (parse.c).
THEOREM DecodersAgree ==
    ASSUME NEW S, NEW m \in [S -> Byte], NEW pc \in Int, Disassemble(m, pc).printed
    PROVE  Disassemble(m, pc).next = Instr(m, pc).next
<1> DEFINE o == GetByte(m, pc)
           k == GetByte(m, pc + 1)
           d == Disassemble(m, pc)
<1>1. o \in Byte /\ k \in Byte
  BY BytesAreBytes
<1>2. CASE o = 203
  <2>1. d = Printed(cb[k], pc + 2)  BY <1>2 DEF Disassemble
  <2>2. cb[k] = 0  BY <1>1 DEF cb, cbLow, cbHigh, Halves, Byte
  <2>3. Instr(m, pc) = Plain(pc + 2)  BY <1>2 DEF Instr
  <2> QED  BY <2>1, <2>2, <2>3, OperandSizes DEF Printed, Plain
<1>3. CASE o = 237
  <2>1. d = Printed(edArgs[k], pc + 2)  BY <1>3 DEF Disassemble
  <2>2. edArgs[k] # Unknown
    <3>1. Printed(edArgs[k], pc + 2).printed <=> edArgs[k] # Unknown  BY DEF Printed
    <3> QED  BY <2>1, <3>1
  <2>3. edArgs[k] \in {0, 2}  BY <1>1, <2>2, EdTables
  <2>4. Instr(m, pc) = EdInstr(m, pc + 1)  BY <1>3 DEF Instr
  <2>5. Instr(m, pc).next = pc + 2 + edArgs[k]
    BY <2>2, <2>3, <2>4, EdTurn
  <2> QED  BY <2>1, <2>3, <2>5, OperandSizes DEF Printed
<1>4. CASE o \in {221, 253}
  <2>1. d = IndexPrinted(m, pc + 1, dd, ddcb)
    BY <1>4, IndexTurn DEF Disassemble
  <2>2. Instr(m, pc) = IndexInstr(m, pc + 1)  BY <1>4 DEF Instr
  <2> QED  BY <2>1, <2>2, IndexTurn
<1>5. CASE o = 223
  <2>1. d = [Printed(0, pc + 2) EXCEPT !.include = fpp[CallIndex(k, 3, 33, 162, 11, 44)]]
    BY <1>5 DEF Disassemble
  <2>2. Instr(m, pc).next = pc + 2  BY <1>5 DEF Instr, Plain
  <2> QED  BY <2>1, <2>2, OperandSizes DEF Printed
<1>6. CASE o = 231
  <2>1. d = OzCall(m, pc + 1)  BY <1>6 DEF Disassemble
  <2>2. Instr(m, pc) = OzInstr(m, pc + 1)  BY <1>6 DEF Instr
  <2> QED  BY <2>1, <2>2, OzTurn
<1>7. CASE o \notin {203, 237, 221, 253, 223, 231}
  <2>1. d = Printed(mn[o], pc + 1)  BY <1>7 DEF Disassemble
  <2>2. Instr(m, pc) = MainInstr(m, pc)  BY <1>7 DEF Instr
  <2>3. d.next = pc + 1 + OperandBytes(mn[o])  BY <2>1 DEF Printed
  <2>4. mainlookup[o] = OperandBytes(mn[o])  BY <1>1, MainTables
  <2> QED  BY <2>2, <2>3, <2>4, MainTurn
<1> QED  BY <1>2, <1>3, <1>4, <1>5, <1>6, <1>7

----------------------------------------------------------------------------
(* The list of areas *)

Areas == [start : Int, end : Int, type : Types]

----------------------------------------------------------------------------
(* Order *)

Less == {ss \in Nat \X Nat : ss[1] < ss[2]}

LEMMA LessWellFounded == IsWellFoundedOn(Less, Nat)
  BY NatLessThanWellFounded DEF OpToRel, Less

LEMMA LeastNumber ==
    ASSUME NEW T, T \subseteq Nat, T # {}
    PROVE  \E x \in T : \A y \in T : x <= y
<1>1. PICK x \in T : \A y \in T : ~ (<<y, x>> \in Less)
  BY LessWellFounded, WFMin
<1>2. \A y \in T : y < x => <<y, x>> \in Less
  BY DEF Less
<1>3. \A y \in T : ~ (y < x)
  BY <1>1, <1>2
<1> QED  BY <1>3

\* An area ends before the next ones start, however far behind they are.
LEMMA Ordered ==
    ASSUME NEW list \in Seq(Areas), ValidAreas(list),
           NEW i \in 1..Len(list), NEW k \in 1..Len(list), i < k
    PROVE  list[i].end < list[k].start
<1> DEFINE Wrong == {n \in (i + 1)..Len(list) : ~(list[i].end < list[n].start)}
<1> SUFFICES ASSUME Wrong # {} PROVE FALSE
  OBVIOUS
<1>1. PICK n \in Wrong : \A m \in Wrong : n <= m
  <2>1. Wrong \subseteq Nat  OBVIOUS
  <2> QED  BY <2>1, LeastNumber
<1>2. /\ n \in 2..Len(list) /\ n - 1 \in 1..Len(list)
      /\ list[n] \in Areas /\ list[n - 1] \in Areas /\ list[i] \in Areas
  OBVIOUS
<1>3. list[n].start = list[n - 1].end + 1 /\ list[n - 1].start <= list[n - 1].end
  BY <1>2 DEF ValidAreas
<1>4. CASE n = i + 1
  BY SMTT(30), <1>2, <1>3, <1>4 DEF Areas
<1>5. CASE n # i + 1
  <2>1. n - 1 \in (i + 1)..Len(list) /\ n - 1 \notin Wrong
    BY <1>1, <1>5
  <2>2. list[i].end < list[n - 1].start
    BY <2>1
  <2>3. /\ list[i].end \in Int /\ list[n - 1].start \in Int
        /\ list[n - 1].end \in Int /\ list[n].start \in Int
    BY <1>2 DEF Areas
  <2> QED  BY <1>3, <2>2, <2>3
<1> QED  BY <1>4, <1>5

\* In a valid list one area holds an address at most, and it is found.
LEMMA Found ==
    ASSUME NEW list \in Seq(Areas), ValidAreas(list),
           NEW k \in 1..Len(list), NEW a \in Int, Holds(list[k], a)
    PROVE  SearchArea(list, a) = list[k].type
<1> DEFINE hits == {i \in DOMAIN list : Holds(list[i], a)}
<1>1. ASSUME NEW i \in hits PROVE i = k
  <2>1. i \in 1..Len(list) /\ Holds(list[i], a) /\ list[i] \in Areas /\ list[k] \in Areas
    OBVIOUS
  <2>2. list[i].end \in Int /\ list[k].start \in Int /\ list[k].end \in Int /\ list[i].start \in Int
    BY <2>1 DEF Areas
  <2>3. ~(list[i].end < list[k].start) /\ ~(list[k].end < list[i].start)
    BY <2>1, <2>2 DEF Holds
  <2>4. ~(i < k) /\ ~(k < i)
    BY <2>1, <2>3, Ordered
  <2> QED  BY <2>1, <2>4
<1>2. hits = {k}
  BY <1>1
<1> QED  BY <1>2 DEF SearchArea

\* The search for a place stops at the area that holds the start.
LEMMA PlaceFound ==
    ASSUME NEW list \in Seq(Areas), ValidAreas(list), NEW start \in Int,
           NEW k \in 1..Len(list), Holds(list[k], start)
    PROVE  Reached(list, start) # {} /\ Place(list, start) = k
<1>1. k \in Reached(list, start)
  BY DEF Reached, Holds
<1>2. ASSUME NEW i \in Reached(list, start) PROVE k <= i
  <2>1. i \in 1..Len(list) /\ start <= list[i].end /\ list[i] \in Areas /\ list[k] \in Areas
    BY DEF Reached
  <2>2. list[i].end \in Int /\ list[k].start \in Int
    BY <2>1 DEF Areas
  <2>3. ~(list[i].end < list[k].start)
    BY <2>1, <2>2 DEF Holds
  <2>4. ~(i < k)
    BY <2>1, <2>3, Ordered
  <2> QED  BY <2>1, <2>4
<1>3. \A i \in Reached(list, start) : i \in Int
  BY DEF Reached
<1>4. \A i \in Reached(list, start) :
          (\A n \in Reached(list, start) : i <= n) => i = k
  BY <1>1, <1>2, <1>3
<1> QED  BY <1>1, <1>2, <1>4 DEF Place

\* A list that covers low..high has an area for every address of it.
LEMMA Covered ==
    ASSUME NEW list \in Seq(Areas), NEW low \in Int, NEW high \in Int,
           Partition(list, low, high), NEW x \in low..high
    PROVE  \E k \in 1..Len(list) : Holds(list[k], x)
<1> DEFINE ends == {k \in 1..Len(list) : x <= list[k].end}
<1>1. Len(list) \in ends
  BY DEF Partition
<1>2. PICK k \in ends : \A n \in ends : k <= n
  <2>1. ends \subseteq Nat  OBVIOUS
  <2> QED  BY <1>1, <2>1, LeastNumber
<1>3. k \in 1..Len(list) /\ list[k] \in Areas
  OBVIOUS
<1>4. CASE k = 1
  BY <1>2, <1>4 DEF Partition, Holds
<1>5. CASE k # 1
  <2>1. k - 1 \in 1..Len(list) /\ k - 1 \notin ends /\ k \in 2..Len(list)
    BY <1>2, <1>3, <1>5
  <2>2. list[k - 1].end \in Int /\ list[k].start \in Int
    <3>1. list[k - 1] \in Areas  BY <2>1
    <3> QED  BY <1>3, <3>1 DEF Areas
  <2>3. list[k].start = list[k - 1].end + 1
    BY <2>1 DEF Partition, ValidAreas
  <2>4. list[k - 1].end < x
    BY <2>1, <2>2
  <2> QED  BY <1>2, <1>3, <2>2, <2>3, <2>4 DEF Holds
<1> QED  BY <1>4, <1>5

----------------------------------------------------------------------------
(* One area is replaced by several *)

LEMMA Part ==
    ASSUME NEW s \in Seq(Areas), NEW m \in Nat \ {0}, NEW n \in Nat, m <= n + 1, n <= Len(s)
    PROVE  /\ SubSeq(s, m, n) \in Seq(Areas) /\ Len(SubSeq(s, m, n)) = n - m + 1
           /\ \A k \in 1..(n - m + 1) : SubSeq(s, m, n)[k] = s[m - 1 + k]
<1>1. \A k \in m..n : s[k] \in Areas
  OBVIOUS
<1>2. /\ SubSeq(s, m, n) \in Seq(Areas)
      /\ Len(SubSeq(s, m, n)) = IF m <= n THEN n - m + 1 ELSE 0
      /\ \A k \in 1..(n - m + 1) : SubSeq(s, m, n)[k] = s[m + k - 1]
  BY <1>1, SubSeqProperties
<1>3. (IF m <= n THEN n - m + 1 ELSE 0) = n - m + 1
  OBVIOUS
<1>4. \A k \in Int : m + k - 1 = m - 1 + k
  OBVIOUS
<1> QED  BY <1>2, <1>3, <1>4

LEMMA Joined ==
    ASSUME NEW s \in Seq(Areas), NEW t \in Seq(Areas)
    PROVE  /\ s \o t \in Seq(Areas) /\ Len(s \o t) = Len(s) + Len(t)
           /\ \A k \in 1..Len(s) : (s \o t)[k] = s[k]
           /\ \A k \in (Len(s) + 1)..(Len(s) + Len(t)) : (s \o t)[k] = t[k - Len(s)]
  OBVIOUS

\* The elements i to j of a list are replaced by those of new.
LEMMA Spliced ==
    ASSUME NEW list \in Seq(Areas), NEW i \in 1..Len(list), NEW j \in i..Len(list),
           NEW new \in Seq(Areas)
    PROVE  LET s == Splice(list, i, j, new) IN
           /\ s \in Seq(Areas) /\ Len(s) = i - 1 + Len(new) + (Len(list) - j)
           /\ \A k \in 1..(i - 1) : s[k] = list[k]
           /\ \A k \in 1..Len(new) : s[i - 1 + k] = new[k]
           /\ \A k \in (j + 1)..Len(list) : s[k - j + (i - 1 + Len(new))] = list[k]
<1> DEFINE front == SubSeq(list, 1, i - 1)
           back == SubSeq(list, j + 1, Len(list))
           middle == front \o new
           s == middle \o back
<1>1. /\ front \in Seq(Areas) /\ Len(front) = i - 1
      /\ \A k \in 1..(i - 1) : front[k] = list[k]
  <2>1. 1 \in Nat \ {0} /\ i - 1 \in Nat /\ 1 <= (i - 1) + 1 /\ i - 1 <= Len(list)
        /\ (i - 1) - 1 + 1 = i - 1 /\ \A k \in Int : 1 - 1 + k = k
    OBVIOUS
  <2> QED  BY <2>1, Part
<1>2. /\ back \in Seq(Areas) /\ Len(back) = Len(list) - j
      /\ \A k \in 1..(Len(list) - j) : back[k] = list[j + k]
  <2> DEFINE m == j + 1
             n == Len(list)
  <2>1. m \in Nat \ {0} /\ n \in Nat /\ m <= n + 1 /\ n <= Len(list)
    OBVIOUS
  <2>2. m = j + 1 /\ n = Len(list) /\ back = SubSeq(list, m, n)
    OBVIOUS
  <2> HIDE DEF m, n, back
  <2>3. /\ back \in Seq(Areas) /\ Len(back) = n - m + 1
        /\ \A k \in 1..(n - m + 1) : back[k] = list[m - 1 + k]
    BY <2>1, <2>2, Part
  <2> QED  BY <2>2, <2>3
<1>3. Splice(list, i, j, new) = s
  BY DEF Splice
<1> HIDE DEF front, back
<1>4. /\ middle \in Seq(Areas) /\ Len(middle) = i - 1 + Len(new)
      /\ \A k \in 1..(i - 1) : middle[k] = list[k]
      /\ \A k \in 1..Len(new) : middle[i - 1 + k] = new[k]
  <2>1. /\ middle \in Seq(Areas) /\ Len(middle) = Len(front) + Len(new)
        /\ \A k \in 1..Len(front) : middle[k] = front[k]
        /\ \A k \in (Len(front) + 1)..(Len(front) + Len(new)) : middle[k] = new[k - Len(front)]
    BY <1>1, Joined
  <2> HIDE DEF middle
  <2>2. ASSUME NEW k \in 1..Len(new) PROVE middle[i - 1 + k] = new[k]
    <3>1. i - 1 + k \in (Len(front) + 1)..(Len(front) + Len(new)) /\ (i - 1 + k) - Len(front) = k
      BY <1>1
    <3> QED  BY <2>1, <3>1
  <2> QED  BY <1>1, <2>1, <2>2
<1> HIDE DEF middle
<1>5. /\ s \in Seq(Areas) /\ Len(s) = Len(middle) + Len(back)
      /\ \A k \in 1..Len(middle) : s[k] = middle[k]
      /\ \A k \in (Len(middle) + 1)..(Len(middle) + Len(back)) : s[k] = back[k - Len(middle)]
  BY <1>2, <1>4, Joined
<1> HIDE DEF s
<1>6. Len(s) = i - 1 + Len(new) + (Len(list) - j)
  BY <1>2, <1>4, <1>5
<1>7. \A k \in 1..(i - 1) : s[k] = list[k]
  BY <1>4, <1>5
<1>8. ASSUME NEW k \in 1..Len(new) PROVE s[i - 1 + k] = new[k]
  <2>1. i - 1 + k \in 1..Len(middle)
    BY <1>4
  <2> QED  BY <1>4, <1>5, <2>1
<1>9. ASSUME NEW k \in (j + 1)..Len(list) PROVE s[k - j + (i - 1 + Len(new))] = list[k]
  <2>1. /\ k - j + (i - 1 + Len(new)) \in (Len(middle) + 1)..(Len(middle) + Len(back))
        /\ (k - j + (i - 1 + Len(new))) - Len(middle) = k - j
        /\ k - j \in 1..(Len(list) - j) /\ j + (k - j) = k
    BY <1>2, <1>4
  <2> QED  BY <1>2, <1>5, <2>1
<1> QED  BY <1>3, <1>5, <1>6, <1>7, <1>8, <1>9

LEMMA AreaFields ==
    ASSUME NEW list \in Seq(Areas), NEW k \in 1..Len(list)
    PROVE  list[k] \in Areas /\ list[k].start \in Int /\ list[k].end \in Int
<1>1. list[k] \in Areas
  OBVIOUS
<1> QED  BY <1>1 DEF Areas

\* What a list consists of when some of its areas have been replaced.
LEMMA SplicedMember ==
    ASSUME NEW list \in Seq(Areas), NEW i \in 1..Len(list), NEW j \in i..Len(list),
           NEW new \in Seq(Areas), NEW m \in 1..Len(Splice(list, i, j, new))
    PROVE  LET s == Splice(list, i, j, new)
               n == Len(new)
           IN  \/ m \in 1..(i - 1) /\ m \in 1..Len(list) /\ s[m] = list[m]
               \/ \E k \in 1..n : m = i - 1 + k /\ s[m] = new[k]
               \/ \E k \in (j + 1)..Len(list) : m = k - j + (i - 1 + n) /\ s[m] = list[k]
<1> DEFINE s == Splice(list, i, j, new)
           n == Len(new)
<1>1. /\ s \in Seq(Areas) /\ Len(s) = i - 1 + n + (Len(list) - j)
      /\ \A k \in 1..(i - 1) : s[k] = list[k]
      /\ \A k \in 1..n : s[i - 1 + k] = new[k]
      /\ \A k \in (j + 1)..Len(list) : s[k - j + (i - 1 + n)] = list[k]
  BY Spliced
<1>6. n \in Nat
  OBVIOUS
<1> HIDE DEF s, n
<1>2. m \in 1..Len(s)
  BY DEF s
<1>3. CASE m \in 1..(i - 1)
  BY <1>1, <1>3 DEF s
<1>4. CASE m \in i..(i - 1 + n)
  <2>1. m - i + 1 \in 1..n /\ m = i - 1 + (m - i + 1)
    BY <1>1, <1>4, <1>6
  <2>2. s[m] = new[m - i + 1]
    BY <1>1, <2>1
  <2> QED  BY <2>1, <2>2 DEF s, n
<1>5. CASE m \in (i + n)..Len(s)
  <2> DEFINE k == m - (i - 1 + n) + j
  <2>1. k \in (j + 1)..Len(list) /\ m = k - j + (i - 1 + n)
    BY <1>1, <1>5, <1>6
  <2> HIDE DEF k
  <2>2. s[m] = list[k]
    BY <1>1, <2>1
  <2> QED  BY <2>1, <2>2 DEF s, n
<1> QED  BY <1>1, <1>2, <1>3, <1>4, <1>5, <1>6

\* The list still covers the code when the areas in the place of some cover them.
LEMMA SplicedPartition ==
    ASSUME NEW list \in Seq(Areas), NEW low, NEW high, Partition(list, low, high),
           NEW i \in 1..Len(list), NEW j \in i..Len(list), NEW new \in Seq(Areas),
           Partition(new, list[i].start, list[j].end)
    PROVE  /\ Splice(list, i, j, new) \in Seq(Areas)
           /\ Partition(Splice(list, i, j, new), low, high)
<1> DEFINE s == Splice(list, i, j, new)
           n == Len(new)
<1>1. /\ n \in Nat \ {0} /\ new[1].start = list[i].start /\ new[n].end = list[j].end
      /\ Len(list) \in Nat \ {0} /\ list[1].start = low /\ list[Len(list)].end = high
  BY DEF Partition
<1>2. /\ \A k \in 1..Len(list) : list[k].start <= list[k].end
      /\ \A k \in 2..Len(list) : list[k].start = list[k - 1].end + 1
      /\ \A k \in 1..n : new[k].start <= new[k].end
      /\ \A k \in 2..n : new[k].start = new[k - 1].end + 1
  <2>1. \A k \in 2..Len(list) : k \in DOMAIN list \ {1}
    OBVIOUS
  <2>2. \A k \in 2..n : k \in DOMAIN new \ {1}
    OBVIOUS
  <2>3. ValidAreas(list) /\ ValidAreas(new)
    BY DEF Partition
  <2>4. /\ \A k \in 1..Len(list) : list[k].start <= list[k].end
        /\ \A k \in 1..n : new[k].start <= new[k].end
    BY <2>3 DEF ValidAreas
  <2>5. \A k \in 2..Len(list) : list[k].start = list[k - 1].end + 1
    BY <2>1, <2>3 DEF ValidAreas
  <2>6. \A k \in 2..n : new[k].start = new[k - 1].end + 1
    BY <2>2, <2>3 DEF ValidAreas
  <2> QED  BY <2>4, <2>5, <2>6
<1>3. /\ s \in Seq(Areas) /\ Len(s) = i - 1 + n + (Len(list) - j)
      /\ \A k \in 1..(i - 1) : s[k] = list[k]
      /\ \A k \in 1..n : s[i - 1 + k] = new[k]
      /\ \A k \in (j + 1)..Len(list) : s[k - j + (i - 1 + n)] = list[k]
  BY Spliced
<1>4. \A m \in 1..Len(s) :
          \/ m \in 1..(i - 1) /\ m \in 1..Len(list) /\ s[m] = list[m]
          \/ \E k \in 1..n : m = i - 1 + k /\ s[m] = new[k]
          \/ \E k \in (j + 1)..Len(list) : m = k - j + (i - 1 + n) /\ s[m] = list[k]
  BY SplicedMember
<1> HIDE DEF s, n
<1>5. Len(s) \in Nat \ {0} /\ DOMAIN s = 1..Len(s)
  BY <1>1, <1>3
<1>6. s[1].start = low
  <2>1. CASE i = 1
    <3>1. 1 \in 1..n /\ i - 1 + 1 = 1  BY <1>1, <2>1
    <3> QED  BY <1>1, <1>3, <2>1, <3>1
  <2>2. CASE i # 1
    <3>1. 1 \in 1..(i - 1)  BY <2>2
    <3> QED  BY <1>1, <1>3, <3>1
  <2> QED  BY <2>1, <2>2
<1>7. s[Len(s)].end = high
  <2>1. CASE j = Len(list)
    <3>1. n \in 1..n /\ i - 1 + n = Len(s)  BY <1>1, <1>3, <2>1
    <3> QED  BY <1>1, <1>3, <2>1, <3>1
  <2>2. CASE j # Len(list)
    <3>1. Len(list) \in (j + 1)..Len(list)
      BY <1>1, <2>2
    <3>3. Len(list) - j + (i - 1 + n) = Len(s)
      BY <1>1, <1>3
    <3> QED  BY <1>1, <1>3, <3>1, <3>3
  <2> QED  BY <2>1, <2>2
<1>8. ASSUME NEW m \in 1..Len(s) PROVE s[m].start <= s[m].end
  <2>1. \A k \in (j + 1)..Len(list) : k \in 1..Len(list)
    OBVIOUS
  <2> QED  BY <1>2, <1>4, <2>1
<1>9. ASSUME NEW m \in 2..Len(s) PROVE s[m].start = s[m - 1].end + 1
  <2>1. CASE m \in 1..(i - 1)
    <3>1. m \in 2..Len(list) /\ m \in 1..(i - 1) /\ m - 1 \in 1..(i - 1)  BY <2>1
    <3> QED  BY <1>2, <1>3, <3>1
  <2>2. ASSUME NEW k \in 1..n, m = i - 1 + k PROVE s[m].start = s[m - 1].end + 1
    <3>1. s[m] = new[k]
      BY <1>3, <2>2
    <3>2. CASE k = 1
      <4>1. m - 1 \in 1..(i - 1) /\ i \in 2..Len(list) /\ m - 1 = i - 1
        BY <1>1, <2>2, <3>2
      <4>2. s[m - 1] = list[i - 1] /\ list[i].start = list[i - 1].end + 1
        BY <1>2, <1>3, <4>1
      <4> QED  BY <1>1, <3>1, <3>2, <4>2
    <3>3. CASE k # 1
      <4>1. k \in 2..n /\ k - 1 \in 1..n /\ m - 1 = i - 1 + (k - 1)
        BY <1>1, <2>2, <3>3
      <4>2. s[m - 1] = new[k - 1]
        BY <1>3, <4>1
      <4> QED  BY <1>2, <3>1, <4>1, <4>2
    <3> QED  BY <3>2, <3>3
  <2>3. ASSUME NEW k \in (j + 1)..Len(list), m = k - j + (i - 1 + n)
        PROVE  s[m].start = s[m - 1].end + 1
    <3>1. s[m] = list[k] /\ k \in 2..Len(list)
      BY <1>3, <2>3
    <3>2. CASE k = j + 1
      <4>1. n \in 1..n /\ m - 1 = i - 1 + n /\ k - 1 = j
        BY <1>1, <2>3, <3>2
      <4>2. s[m - 1] = new[n]
        BY <1>3, <4>1
      <4> QED  BY <1>1, <1>2, <3>1, <4>1, <4>2
    <3>3. CASE k # j + 1
      <4>1. k - 1 \in (j + 1)..Len(list) /\ m - 1 = (k - 1) - j + (i - 1 + n)
        BY <1>1, <2>3, <3>3
      <4>2. s[m - 1] = list[k - 1]
        BY <1>3, <4>1
      <4> QED  BY <1>2, <3>1, <4>2
    <3> QED  BY <3>2, <3>3
  <2>4. m \in 1..Len(s)
    OBVIOUS
  <2> QED  BY <1>4, <2>1, <2>2, <2>3, <2>4
<1>10. ValidAreas(s)
  <2>1. \A k \in DOMAIN s \ {1} : k \in 2..Len(s)
    BY <1>5
  <2> QED  BY <1>5, <1>8, <1>9, <2>1 DEF ValidAreas
<1> QED  BY <1>3, <1>5, <1>6, <1>7, <1>10 DEF Partition, s

----------------------------------------------------------------------------
(* A range inside one area *)

\* What an area c becomes when start..end in it gets a type.
Lower(c, start) == [c EXCEPT !.end = start - 1]
Upper(c, end) == [c EXCEPT !.start = end + 1]
Cut(c, start, end, type) ==
    IF start = c.start
    THEN IF end = c.end THEN <<[c EXCEPT !.type = type]>>
         ELSE <<Area(start, end, type), Upper(c, end)>>
    ELSE IF end = c.end THEN <<Lower(c, start), Area(start, end, type)>>
         ELSE <<Lower(c, start), Area(start, end, type), Upper(c, end)>>

\* The areas of new cover those of c, and say of each address what they should.
Cuts(c, start, end, type, new) ==
    /\ new \in Seq(Areas) /\ Partition(new, c.start, c.end)
    /\ \A x \in c.start..c.end : \E k \in 1..Len(new) :
          Holds(new[k], x) /\ new[k].type = (IF x \in start..end THEN type ELSE c.type)

LEMMA CutPieces ==
    ASSUME NEW c \in Areas, NEW start \in Int, NEW end \in Int, NEW type \in Types,
           c.start <= start, start <= end, end <= c.end
    PROVE  Cuts(c, start, end, type, Cut(c, start, end, type))
<1> DEFINE l == Lower(c, start)
           r == Area(start, end, type)
           u == Upper(c, end)
<1>1. c.start \in Int /\ c.end \in Int /\ c.type \in Types
  BY DEF Areas
<1>2. /\ l \in Areas /\ l.start = c.start /\ l.end = start - 1 /\ l.type = c.type
      /\ r \in Areas /\ r.start = start /\ r.end = end /\ r.type = type
      /\ u \in Areas /\ u.start = end + 1 /\ u.end = c.end /\ u.type = c.type
  BY <1>1 DEF Areas, Lower, Upper, Area
<1> HIDE DEF l, r, u
<1>3. CASE start = c.start /\ end = c.end
  <2> DEFINE w == [c EXCEPT !.type = type]
  <2>1. w \in Areas /\ w.start = c.start /\ w.end = c.end /\ w.type = type
    BY DEF Areas
  <2>2. Cut(c, start, end, type) = <<w>>
    BY <1>3 DEF Cut
  <2> HIDE DEF w
  <2>3. <<w>> \in Seq(Areas) /\ Len(<<w>>) = 1 /\ <<w>>[1] = w /\ DOMAIN <<w>> = 1..1
    BY <2>1
  <2>4. Partition(<<w>>, c.start, c.end)
    BY <1>1, <1>3, <2>1, <2>3 DEF Partition, ValidAreas
  <2> QED  BY <1>1, <1>3, <2>1, <2>2, <2>3, <2>4 DEF Cuts, Holds
<1>4. CASE start = c.start /\ end # c.end
  <2>1. Cut(c, start, end, type) = <<r, u>>
    BY <1>4 DEF Cut, r, u
  <2>2. /\ <<r, u>> \in Seq(Areas) /\ Len(<<r, u>>) = 2 /\ DOMAIN <<r, u>> = 1..2
        /\ <<r, u>>[1] = r /\ <<r, u>>[2] = u
    BY <1>2
  <2>3. Partition(<<r, u>>, c.start, c.end)
    BY <1>1, <1>2, <1>4, <2>2 DEF Partition, ValidAreas
  <2> QED  BY <1>1, <1>2, <1>4, <2>1, <2>2, <2>3 DEF Cuts, Holds
<1>5. CASE start # c.start /\ end = c.end
  <2>1. Cut(c, start, end, type) = <<l, r>>
    BY <1>5 DEF Cut, l, r
  <2>2. /\ <<l, r>> \in Seq(Areas) /\ Len(<<l, r>>) = 2 /\ DOMAIN <<l, r>> = 1..2
        /\ <<l, r>>[1] = l /\ <<l, r>>[2] = r
    BY <1>2
  <2>3. Partition(<<l, r>>, c.start, c.end)
    BY <1>1, <1>2, <1>5, <2>2 DEF Partition, ValidAreas
  <2> QED  BY <1>1, <1>2, <1>5, <2>1, <2>2, <2>3 DEF Cuts, Holds
<1>6. CASE start # c.start /\ end # c.end
  <2>1. Cut(c, start, end, type) = <<l, r, u>>
    BY <1>6 DEF Cut, l, r, u
  <2>2. /\ <<l, r, u>> \in Seq(Areas) /\ Len(<<l, r, u>>) = 3 /\ DOMAIN <<l, r, u>> = 1..3
        /\ <<l, r, u>>[1] = l /\ <<l, r, u>>[2] = r /\ <<l, r, u>>[3] = u
    BY <1>2
  <2>3. Partition(<<l, r, u>>, c.start, c.end)
    BY <1>1, <1>2, <1>6, <2>2 DEF Partition, ValidAreas
  <2> QED  BY <1>1, <1>2, <1>6, <2>1, <2>2, <2>3 DEF Cuts, Holds
<1> QED  BY <1>3, <1>4, <1>5, <1>6

\* InsertArea cuts the area it finds.
LEMMA InsertIsCut ==
    ASSUME NEW list \in Seq(Areas), ValidAreas(list), NEW i \in 1..Len(list),
           NEW start \in Int, NEW end \in Int, NEW type \in Types,
           list[i].start <= start, start <= end, end <= list[i].end
    PROVE  /\ ~InsertCrashes(list, start, end)
           /\ InsertArea(list, start, end, type) =
                  Splice(list, i, i, Cut(list[i], start, end, type))
<1>1. list[i].start \in Int /\ list[i].end \in Int
  BY AreaFields
<1>2. Holds(list[i], start)
  BY <1>1 DEF Holds
<1>3. Reached(list, start) # {} /\ Place(list, start) = i
  BY <1>2, PlaceFound
<1>4. ~InsertCrashes(list, start, end)
  BY <1>1, <1>3 DEF InsertCrashes
<1>5. CASE start = list[i].start
  <2>1. InsertArea(list, start, end, type) = InsertAtStart(list, i, start, end, type)
    BY <1>1, <1>3, <1>5 DEF InsertArea
  <2> QED  BY <1>1, <1>4, <1>5, <2>1 DEF InsertAtStart, Cut, Upper
<1>6. CASE start # list[i].start
  <2>1. InsertArea(list, start, end, type) = InsertInside(list, i, start, end, type)
    BY <1>1, <1>3, <1>6 DEF InsertArea
  <2> QED  BY <1>1, <1>4, <1>6, <2>1 DEF InsertInside, Cut, Lower, Upper
<1> QED  BY <1>5, <1>6

----------------------------------------------------------------------------
(* The theorems *)

\* A range inside one area is inserted without a crash, and the list covers the
\* code as before: no gap, no overlap, no empty area.
THEOREM InsertKeepsPartition ==
    ASSUME NEW list \in Seq(Areas), NEW low \in Int, NEW high \in Int,
           Partition(list, low, high),
           NEW start \in Int, NEW end \in Int, NEW type \in Types,
           start <= end, Fits(list, start, end)
    PROVE  /\ ~InsertCrashes(list, start, end)
           /\ InsertArea(list, start, end, type) \in Seq(Areas)
           /\ Partition(InsertArea(list, start, end, type), low, high)
<1>1. PICK i \in 1..Len(list) : list[i].start <= start /\ end <= list[i].end
  BY DEF Fits
<1>2. list[i] \in Areas /\ ValidAreas(list)
  BY DEF Partition
<1>3. Cuts(list[i], start, end, type, Cut(list[i], start, end, type))
  BY <1>1, <1>2, CutPieces
<1>4. /\ ~InsertCrashes(list, start, end)
      /\ InsertArea(list, start, end, type) = Splice(list, i, i, Cut(list[i], start, end, type))
  BY <1>1, <1>2, InsertIsCut
<1> QED  BY <1>3, <1>4, SplicedPartition DEF Cuts

\* It is only the range that changes its type: what is known of every other
\* address stays known.
THEOREM InsertChangesRange ==
    ASSUME NEW list \in Seq(Areas), NEW low \in Int, NEW high \in Int,
           Partition(list, low, high),
           NEW start \in Int, NEW end \in Int, NEW type \in Types,
           start <= end, Fits(list, start, end), NEW x \in low..high
    PROVE  SearchArea(InsertArea(list, start, end, type), x) =
               IF x \in start..end THEN type ELSE SearchArea(list, x)
<1>1. PICK i \in 1..Len(list) : list[i].start <= start /\ end <= list[i].end
  BY DEF Fits
<1>2. list[i] \in Areas /\ list[i].start \in Int /\ list[i].end \in Int /\ ValidAreas(list)
  BY AreaFields DEF Partition
<1> DEFINE new == Cut(list[i], start, end, type)
           s == Splice(list, i, i, new)
           n == Len(new)
<1>3. Cuts(list[i], start, end, type, new)
  BY <1>1, <1>2, CutPieces
<1>4. InsertArea(list, start, end, type) = s
  BY <1>1, <1>2, InsertIsCut
<1> HIDE DEF new
<1>5. s \in Seq(Areas) /\ ValidAreas(s)
  <2>1. Partition(s, low, high) /\ s \in Seq(Areas)
    BY <1>3, SplicedPartition DEF Cuts
  <2> QED  BY <2>1 DEF Partition
<1>11. new \in Seq(Areas) /\ i \in i..Len(list) /\ n \in Nat
  BY <1>3 DEF Cuts
<1>6. /\ Len(s) = i - 1 + n + (Len(list) - i)
      /\ \A k \in 1..(i - 1) : s[k] = list[k]
      /\ \A k \in 1..n : s[i - 1 + k] = new[k]
      /\ \A k \in (i + 1)..Len(list) : s[k - i + (i - 1 + n)] = list[k]
  BY <1>11, Spliced
<1> HIDE DEF s, n
<1>7. PICK k \in 1..Len(list) : Holds(list[k], x)
  BY Covered
<1>8. SearchArea(list, x) = list[k].type
  BY <1>2, <1>7, Found
<1>9. CASE k = i
  <2>1. x \in list[i].start..list[i].end
    BY <1>2, <1>7, <1>9 DEF Holds
  <2>2. PICK j \in 1..Len(new) :
            Holds(new[j], x) /\ new[j].type = (IF x \in start..end THEN type ELSE list[i].type)
    BY <1>3, <2>1 DEF Cuts
  <2>3. j \in 1..n /\ i - 1 + j \in 1..Len(s)
    BY <1>6, <1>11 DEF n
  <2>4. PICK m \in 1..Len(s) : s[m] = new[j]
    BY <1>6, <2>3
  <2>5. SearchArea(s, x) = new[j].type
    BY <1>5, <2>2, <2>4, Found
  <2> QED  BY <1>4, <1>8, <1>9, <2>2, <2>5
<1>10. CASE k # i
  <2>1. x \notin start..end
    <3>1. list[k].start \in Int /\ list[k].end \in Int /\ k \in Int
      BY AreaFields
    <3>2. list[k].end < list[i].start \/ list[i].end < list[k].start
      BY <1>2, <1>10, <3>1, Ordered
    <3> QED  BY <1>1, <1>2, <1>7, <3>1, <3>2 DEF Holds
  <2>2. \E m \in 1..Len(s) : s[m] = list[k]
    <3>1. CASE k < i
      <4>1. k \in 1..(i - 1) /\ k \in 1..Len(s)  BY <1>6, <1>11, <3>1
      <4> QED  BY <1>6, <4>1
    <3>2. CASE k > i
      <4>1. k \in (i + 1)..Len(list) /\ k - i + (i - 1 + n) \in 1..Len(s)
        BY <1>6, <1>11, <3>2
      <4> QED  BY <1>6, <4>1
    <3> QED  BY <1>10, <3>1, <3>2
  <2>3. SearchArea(s, x) = list[k].type
    BY <1>5, <1>7, <2>2, Found
  <2> QED  BY <1>4, <1>8, <2>1, <2>3
<1> QED  BY <1>9, <1>10

----------------------------------------------------------------------------
(* The induction hypothesis *)

\* The elements of a stack.
Elements(s) == {s[k] : k \in 1..Len(s)}

\* An address is accounted for when it has been parsed, is the next to be parsed,
\* or waits on the stack, where it has a label.
InHand == IF job.pc = "parse" THEN {job.next} ELSE {}
Accounted == parsed \union (Elements(stack) \intersect DOMAIN labels) \union InHand

Targets(pc) == Instr(mem, pc).targets \intersect Code

\* A label of the code is local: popping its address does not drop it.
LabelsLocal(table) ==
    \A a \in DOMAIN table : table[a] \in Label /\ (~Extern(a) => table[a].local)

JobShape ==
    /\ job.pc \in {"idle", "down", "entry", "pass", "parse"}
    /\ job.pc \in {"entry", "pass", "parse"} =>
           job = [pc |-> job.pc, cmd |-> job.cmd, start |-> job.start, end |-> job.end,
                  at |-> job.at, area |-> job.area, next |-> job.next, found |-> job.found]
    /\ job.pc \in {"entry", "pass", "parse"} => job.at \in Int
    /\ job.pc = "parse" => job.next \in Int
    /\ job.pc = "idle" => job = Idle
    /\ job.pc = "down" => job = Down

\* What the collect file remembers is closed: it is written at the prompt only.
FileClosed ==
    available =>
        /\ \A pc \in file.parsed : Targets(pc) \subseteq file.parsed
        /\ LabelsLocal(file.labels)

TraceInv ==
    /\ mem \in Images
    /\ stack \in Seq(Int)
    /\ LabelsLocal(labels)
    /\ JobShape
    /\ job.pc \in {"idle", "entry"} => stack = <<>> /\ visited = {}
    /\ job.pc # "down" => /\ \A pc \in parsed : Targets(pc) \subseteq Accounted
                          /\ visited \intersect Code \subseteq Accounted
    /\ FileClosed

----------------------------------------------------------------------------
(* Labels *)

LEMMA CodeNotExtern == \A a \in Code : a \in Int /\ ~Extern(a)
  BY SessionAssumption DEF Code, gEndOfCode, Extern, MAXCODESIZE

\* Storing references adds labels, and those of the code are local.
LEMMA StoreKeeps ==
    ASSUME NEW table, LabelsLocal(table), NEW addresses, NEW addrref \in BOOLEAN
    PROVE  /\ LabelsLocal(StoreRefs(table, addresses, addrref))
           /\ DOMAIN StoreRefs(table, addresses, addrref) = DOMAIN table \union addresses
<1> DEFINE t == StoreRefs(table, addresses, addrref)
<1>1. DOMAIN t = DOMAIN table \union addresses
  BY DEF StoreRefs
<1>2. ASSUME NEW a \in DOMAIN t
      PROVE  t[a] \in Label /\ (~Extern(a) => t[a].local)
  <2>1. CASE a \in DOMAIN table
    <3>1. t[a] = table[a]  BY <1>1, <2>1 DEF StoreRefs
    <3> QED  BY <2>1, <3>1 DEF LabelsLocal
  <2>2. CASE a \notin DOMAIN table
    <3>1. t[a] = NewLabel(a, addrref)  BY <1>1, <2>2 DEF StoreRefs
    <3>2. ASSUME NEW e \in BOOLEAN
          PROVE  LET l == [addrref |-> addrref, local |-> e, name |-> NoName,
                           xref |-> FALSE, xdef |-> FALSE]
                 IN  l \in Label /\ l.local = e
      BY DEF Label
    <3>3. (~Extern(a)) \in BOOLEAN  BY DEF Extern
    <3> QED  BY <3>1, <3>2, <3>3, Zenon DEF NewLabel
  <2> QED  BY <2>1, <2>2
<1> QED  BY <1>1, <1>2 DEF LabelsLocal

\* Naming a label and changing its scope leave it local.
LEMMA NameKeeps ==
    ASSUME NEW table, LabelsLocal(table), NEW a, NEW name \in Names
    PROVE  LabelsLocal([table EXCEPT ![a].name = name])
  BY DEF LabelsLocal, Label

LEMMA ScopeKeeps ==
    ASSUME NEW table, LabelsLocal(table), NEW a, NEW xref \in BOOLEAN, NEW xdef \in BOOLEAN
    PROVE  LabelsLocal([table EXCEPT ![a].xref = xref, ![a].xdef = xdef])
  BY DEF LabelsLocal, Label

\* An address of the code keeps a local label when addresses are cut to 16 bits:
\* only extern labels share one with an address beyond.
LEMMA KeptKeeps ==
    ASSUME NEW table, LabelsLocal(table)
    PROVE  LabelsLocal(Kept(table))
<1> DEFINE addresses == {a % MAXCODESIZE : a \in DOMAIN table}
           of(b) == table[CHOOSE a \in DOMAIN table : a % MAXCODESIZE = b]
           kept(b) == [of(b) EXCEPT !.xref = FALSE, !.xdef = @ /\ of(b).local]
<1>1. Kept(table) = [b \in addresses |-> kept(b)]
  BY DEF Kept
<1>2. ASSUME NEW b \in addresses
      PROVE  kept(b) \in Label /\ (~Extern(b) => kept(b).local)
  <2>1. PICK a \in DOMAIN table : of(b) = table[a] /\ a % MAXCODESIZE = b
    OBVIOUS
  <2>2. of(b) \in Label
    BY <2>1 DEF LabelsLocal
  <2>3. Extern(a) => a % MAXCODESIZE = a
    BY SessionAssumption DEF Extern, MAXCODESIZE, gEndOfCode
  <2>4. ~Extern(b) => of(b).local
    BY <2>1, <2>3 DEF LabelsLocal
  <2> HIDE DEF of
  <2> QED  BY <2>2, <2>4 DEF Label
<1> HIDE DEF kept, addresses
<1> QED  BY <1>1, <1>2 DEF LabelsLocal

----------------------------------------------------------------------------
(* The stack *)

LEMMA AtMostOne ==
    ASSUME NEW T, T = {} \/ \E x \in Int : T = {x}
    PROVE  SetToSeq(T) \in Seq(Int) /\ Elements(SetToSeq(T)) = T
<1>1. CASE T = {}
  <2>1. Cardinality(T) = 0  BY <1>1, FS_EmptySet
  <2>2. <<>> \in [1..Cardinality(T) -> T] /\ IsInjective(<<>>)
    BY <1>1, <2>1 DEF IsInjective
  <2>3. SetToSeq(T) \in [1..0 -> T]
    BY <2>1, <2>2 DEF SetToSeq
  <2> QED  BY <1>1, <2>3 DEF Elements
<1>2. CASE \E x \in Int : T = {x}
  <2>1. PICK x \in Int : T = {x}  BY <1>2
  <2>2. Cardinality(T) = 1  BY <2>1, FS_Singleton
  <2>3. <<x>> \in [1..Cardinality(T) -> T] /\ IsInjective(<<x>>)
    BY <2>1, <2>2 DEF IsInjective
  <2>4. SetToSeq(T) \in [1..1 -> T]
    BY <2>2, <2>3 DEF SetToSeq
  <2>5. SetToSeq(T) = <<x>>
    BY <2>1, <2>4
  <2>6. <<x>> \in Seq(Int) /\ Len(<<x>>) = 1 /\ <<x>>[1] = x
    BY <2>1
  <2>7. Elements(<<x>>) = {x}
    BY <2>6 DEF Elements
  <2> QED  BY <2>1, <2>5, <2>6, <2>7
<1> QED  BY <1>1, <1>2

LEMMA Pushed ==
    ASSUME NEW s \in Seq(Int), NEW t \in Seq(Int)
    PROVE  s \o t \in Seq(Int) /\ Elements(s \o t) = Elements(s) \union Elements(t)
<1>1. s \o t \in Seq(Int) /\ Len(s \o t) = Len(s) + Len(t)
  OBVIOUS
<1>2. \A k \in 1..Len(s) : (s \o t)[k] = s[k]
  OBVIOUS
<1>3. \A k \in 1..Len(t) : (s \o t)[Len(s) + k] = t[k]
  OBVIOUS
<1>4. ASSUME NEW k \in 1..Len(s) PROVE s[k] \in Elements(s \o t)
  <2>1. k \in 1..Len(s \o t)  BY <1>1
  <2> QED  BY <1>2, <2>1 DEF Elements
<1>5. ASSUME NEW k \in 1..Len(t) PROVE t[k] \in Elements(s \o t)
  <2>1. Len(s) + k \in 1..Len(s \o t)  BY <1>1
  <2> QED  BY <1>3, <2>1 DEF Elements
<1>6. ASSUME NEW k \in 1..Len(s \o t)
      PROVE  (s \o t)[k] \in Elements(s) \union Elements(t)
  <2>1. CASE k <= Len(s)
    <3>1. k \in 1..Len(s)  BY <1>1, <2>1
    <3> QED  BY <1>2, <3>1 DEF Elements
  <2>2. CASE ~(k <= Len(s))
    <3>1. k - Len(s) \in 1..Len(t) /\ k = Len(s) + (k - Len(s))  BY <1>1, <2>2
    <3> QED  BY <1>3, <3>1 DEF Elements
  <2> QED  BY <2>1, <2>2
<1> QED  BY <1>1, <1>4, <1>5, <1>6 DEF Elements

LEMMA Shortened ==
    ASSUME NEW s \in Seq(Int), NEW n \in Nat, n <= Len(s)
    PROVE  /\ SubSeq(s, 1, n) \in Seq(Int) /\ Len(SubSeq(s, 1, n)) = n
           /\ \A k \in 1..n : SubSeq(s, 1, n)[k] = s[k]
<1>1. 1 \in Int /\ n \in Int /\ \A i \in 1..n : s[i] \in Int
  OBVIOUS
<1>2. /\ SubSeq(s, 1, n) \in Seq(Int)
      /\ Len(SubSeq(s, 1, n)) = IF 1 <= n THEN n - 1 + 1 ELSE 0
      /\ \A i \in 1..(n - 1 + 1) : SubSeq(s, 1, n)[i] = s[1 + i - 1]
  BY <1>1, SubSeqProperties
<1>3. Len(SubSeq(s, 1, n)) = n
  BY <1>2
<1> QED  BY <1>2, <1>3

LEMMA Popped ==
    ASSUME NEW s \in Seq(Int), s # <<>>
    PROVE  /\ Front(s) \in Seq(Int) /\ Last(s) \in Int
           /\ Elements(s) = Elements(Front(s)) \union {Last(s)}
<1>1. Len(s) \in Nat \ {0}
  OBVIOUS
<1>2. /\ Front(s) \in Seq(Int) /\ Len(Front(s)) = Len(s) - 1
      /\ \A k \in 1..(Len(s) - 1) : Front(s)[k] = s[k]
  <2>1. Len(s) - 1 \in Nat /\ Len(s) - 1 <= Len(s)
    BY <1>1
  <2> QED  BY <2>1, Shortened DEF Front
<1>3. Last(s) = s[Len(s)] /\ Last(s) \in Int
  BY <1>1 DEF Last
<1>4. ASSUME NEW k \in 1..Len(s)
      PROVE  s[k] \in Elements(Front(s)) \union {Last(s)}
  <2>1. CASE k = Len(s)  BY <1>3, <2>1
  <2>2. CASE k # Len(s)
    <3>1. k \in 1..(Len(s) - 1)  BY <1>1, <2>2
    <3> QED  BY <1>2, <3>1 DEF Elements
  <2> QED  BY <2>1, <2>2
<1>5. ASSUME NEW k \in 1..Len(Front(s)) PROVE Front(s)[k] \in Elements(s)
  <2>1. k \in 1..(Len(s) - 1) /\ k \in 1..Len(s)  BY <1>1, <1>2
  <2> QED  BY <1>2, <2>1 DEF Elements
<1>6. Last(s) \in Elements(s)
  BY <1>1, <1>3 DEF Elements
<1> QED  BY <1>2, <1>3, <1>4, <1>5, <1>6 DEF Elements

----------------------------------------------------------------------------
(* Steps *)

\* With nothing on the stack and nothing in hand, what is accounted for is parsed.
LEMMA AtRest ==
    ASSUME TraceInv, job.pc \in {"idle", "entry"}
    PROVE  /\ Accounted = parsed
           /\ \A pc \in parsed : Targets(pc) \subseteq parsed
<1>1. Elements(stack) = {} /\ InHand = {}
  BY DEF TraceInv, Elements, InHand
<1> QED  BY <1>1 DEF TraceInv, Accounted

\* A step at the prompt or between the entries of a table: it may start a parse.
Calm ==
    /\ mem' = mem /\ parsed' = parsed /\ file' = file
    /\ visited' = {}
    /\ stack' \in Seq(Int)
    /\ job'.pc \in {"idle", "entry"} => stack' = <<>>

LEMMA CalmKeeps ==
    ASSUME TraceInv, job.pc \in {"idle", "entry"}, Calm, JobShape', LabelsLocal(labels')
    PROVE  TraceInv'
<1>1. \A pc : Targets(pc)' = Targets(pc)
  BY DEF Calm, Targets
<1>2. parsed' \subseteq Accounted'
  BY DEF Accounted
<1>3. /\ \A pc \in parsed' : Targets(pc)' \subseteq Accounted'
      /\ visited' \intersect Code \subseteq Accounted'
  BY <1>1, <1>2, AtRest DEF Calm
<1>4. FileClosed'
  BY <1>1 DEF TraceInv, Calm, FileClosed, available
<1> QED  BY <1>3, <1>4 DEF TraceInv, Calm

\* A step of pass 1: what was accounted for in the code stays so, and what the
\* instruction refers to is accounted for, unless the program crashes.
Walk ==
    /\ mem' = mem /\ file' = file
    /\ stack' \in Seq(Int)
    /\ job'.pc \in {"idle", "entry"} => stack' = <<>> /\ visited' = {}
    /\ job'.pc # "down" =>
           /\ Accounted \intersect Code \subseteq Accounted'
           /\ \A pc \in parsed' \ parsed : Targets(pc) \subseteq Accounted'
           /\ visited' \intersect Code \subseteq Accounted'

LEMMA WalkKeeps ==
    ASSUME TraceInv, job.pc \in {"pass", "parse"}, Walk, JobShape', LabelsLocal(labels')
    PROVE  TraceInv'
<1>1. \A pc : Targets(pc)' = Targets(pc) /\ Targets(pc) \subseteq Code
  BY DEF Walk, Targets
<1>2. ASSUME job'.pc # "down", NEW pc \in parsed'
      PROVE  Targets(pc)' \subseteq Accounted'
  <2>1. CASE pc \in parsed
    <3>1. Targets(pc) \subseteq Accounted
      BY <2>1 DEF TraceInv
    <3> QED  BY <1>1, <1>2, <3>1 DEF Walk
  <2>2. CASE pc \notin parsed
    BY <1>1, <1>2, <2>2 DEF Walk
  <2> QED  BY <2>1, <2>2
<1>3. FileClosed'
  BY <1>1 DEF TraceInv, Walk, FileClosed, available
<1> QED  BY <1>2, <1>3 DEF TraceInv, Walk

\* The collect file is written at the prompt.
LEMMA WrittenClosed ==
    ASSUME TraceInv, job.pc = "idle", mem' = mem, GenCollectFile
    PROVE  FileClosed'
<1>1. \A pc : Targets(pc)' = Targets(pc)
  BY DEF Targets
<1>2. file'.parsed = parsed /\ file'.labels = Kept(labels)
  BY DEF GenCollectFile, Collected
<1>3. LabelsLocal(file'.labels)
  BY <1>2, KeptKeeps DEF TraceInv
<1> QED  BY <1>1, <1>2, <1>3, AtRest DEF FileClosed

\* Reading it brings its work back.
LEMMA ReadKeeps ==
    ASSUME TraceInv, available, NEW kept, ReadCollectFile(kept), mem' = mem, file' = file,
           job' = Idle, stack' = <<>>, visited' = {}
    PROVE  TraceInv'
<1>1. \A pc : Targets(pc)' = Targets(pc)
  BY DEF Targets
<1>2. labels' = file.labels /\ parsed' = file.parsed
  BY DEF ReadCollectFile
<1>3. /\ \A pc \in parsed' : Targets(pc)' \subseteq parsed'
      /\ LabelsLocal(labels')
  BY <1>1, <1>2 DEF TraceInv, FileClosed
<1>4. FileClosed'
  BY <1>1 DEF TraceInv, FileClosed, available
<1>5. JobShape'
  BY DEF JobShape, Idle
<1>6. parsed' \subseteq Accounted'
  BY DEF Accounted
<1> QED  BY <1>3, <1>4, <1>5, <1>6 DEF TraceInv

----------------------------------------------------------------------------
(* The commands *)

LEMMA StartsParsing ==
    ASSUME NEW cmd, NEW start \in Int, NEW end, job' = Pass(cmd, start, end)
    PROVE  JobShape' /\ job'.pc = (IF cmd = "pp" THEN "pass" ELSE "entry")
  BY DEF JobShape, Pass

LEMMA StopsOrNot ==
    ASSUME job' \in {Idle, Down}
    PROVE  JobShape'
  BY DEF JobShape, Idle, Down

LEMMA AtPromptShape == job = Idle => job.pc = "idle"
  BY DEF Idle

LEMMA DefineKeepsJob ==
    ASSUME NEW start, NEW end, NEW type, NEW otherwise, Define(start, end, type, otherwise)
    PROVE  job' \in {Down, otherwise}
  BY DEF Define

LEMMA ParsingCommands ==
    ASSUME TraceInv, NEW start \in Code, NEW end \in Code,
           ParseDZ(start) \/ ParseLookupTable(start, end) \/ ParseVectorTable(start)
    PROVE  TraceInv'
<1>1. /\ job = Idle /\ mem' = mem /\ parsed' = parsed /\ file' = file
      /\ \/ job' = Pass("pp", start, start) /\ stack' = <<start>> /\ visited' = {}
         \/ /\ job' \in {Pass("pl", start, end), Pass("pv", start, gEndOfCode)}
            /\ stack' = stack /\ visited' = visited
  BY DEF ParseDZ, ParseLookupTable, ParseVectorTable, Command
<1>2. job.pc = "idle" /\ stack = <<>> /\ stack \in Seq(Int) /\ visited = {}
  BY <1>1, AtPromptShape DEF TraceInv
<1>3. JobShape'
  BY <1>1, StartsParsing, CodeNotExtern
<1>4. Calm
  <2>1. <<start>> \in Seq(Int)  BY CodeNotExtern
  <2>2. Pass("pp", start, start).pc = "pass"  BY DEF Pass
  <2> QED  BY <1>1, <1>2, <2>1, <2>2 DEF Calm
<1>5. PICK addrref \in BOOLEAN : labels' = StoreRefs(labels, {start}, addrref)
  BY DEF ParseDZ, ParseLookupTable, ParseVectorTable
<1>6. LabelsLocal(labels)
  BY DEF TraceInv
<1>7. LabelsLocal(labels')
  BY <1>5, <1>6, StoreKeeps
<1> QED  BY <1>2, <1>3, <1>4, <1>7, CalmKeeps

\* The others leave pass 1 alone; they store labels, change them, or neither.
LEMMA QuietKeeps ==
    ASSUME TraceInv, job = Idle, mem' = mem, parsed' = parsed, file' = file,
           stack' = stack, visited' = visited, job' \in {Idle, Down}, LabelsLocal(labels')
    PROVE  TraceInv'
<1>1. job.pc = "idle" /\ stack = <<>> /\ visited = {} /\ stack \in Seq(Int)
  BY AtPromptShape DEF TraceInv
<1>2. Calm
  BY <1>1 DEF Calm
<1> QED  BY <1>1, <1>2, StopsOrNot, CalmKeeps

LEMMA DefiningCommands ==
    ASSUME TraceInv, NEW start \in Code, NEW end \in Code, NEW type,
           ParsePointerTable(start, end) \/ DefineMemory(type, start, end)
    PROVE  TraceInv'
<1>1. /\ job = Idle /\ mem' = mem /\ parsed' = parsed /\ file' = file
      /\ stack' = stack /\ visited' = visited /\ job' \in {Idle, Down}
  BY DefineKeepsJob DEF ParsePointerTable, DefineMemory, Command
<1>2. LabelsLocal(labels)
  BY DEF TraceInv
<1>3. CASE ParsePointerTable(start, end)
  <2>1. \E pointers : labels' = StoreRefs(StoreRefs(labels, {start}, FALSE), pointers, TRUE)
    BY <1>3 DEF ParsePointerTable
  <2> QED  BY <1>1, <1>2, <2>1, StoreKeeps, QuietKeeps
<1>4. CASE DefineMemory(type, start, end)
  <2>1. (type = "program") \in BOOLEAN
    OBVIOUS
  <2> DEFINE entry == StoreRefs(labels, {start}, type = "program")
  <2>2. LabelsLocal(entry)
    BY <1>2, <2>1, StoreKeeps
  <2>3. \/ \E words : labels' = StoreRefs(entry, words, FALSE)
        \/ labels' \in {entry, labels}
    BY <1>4 DEF DefineMemory
  <2> HIDE DEF entry
  <2> QED  BY <1>1, <1>2, <2>2, <2>3, StoreKeeps, QuietKeeps
<1> QED  BY <1>3, <1>4

LEMMA NotingCommands ==
    ASSUME TraceInv,
           \/ \E a \in Known, name \in Names : DefineLabel(a, name)
           \/ \E a \in Code, scope \in {"xref", "xdef"} : DefineScope(a, scope)
           \/ \E a \in Known, position \in Positions : RemarkOutput(a, position)
           \/ \E a \in Known, text \in Texts : DefineExpression(a, text)
           \/ \E a \in Known, text \in Texts : DefineConstant(a, text)
    PROVE  TraceInv'
<1>1. /\ job = Idle /\ mem' = mem /\ parsed' = parsed /\ file' = file
      /\ stack' = stack /\ visited' = visited /\ job' = job
  BY DEF DefineLabel, DefineScope, RemarkOutput, DefineExpression, DefineConstant, Command, Same
<1>2. LabelsLocal(labels)
  BY DEF TraceInv
<1>3. LabelsLocal(labels')
  <2>1. CASE \E a \in Known, name \in Names : DefineLabel(a, name)
    <3>1. PICK a \in Known, name \in Names : DefineLabel(a, name)
      BY <2>1
    <3>2. labels' = [StoreRefs(labels, {a}, TRUE) EXCEPT ![a].name = name]
      BY <3>1 DEF DefineLabel
    <3>3. LabelsLocal(StoreRefs(labels, {a}, TRUE))
      BY <1>2, StoreKeeps
    <3> QED  BY <3>2, <3>3, NameKeeps
  <2>2. CASE \E a \in Code, scope \in {"xref", "xdef"} : DefineScope(a, scope)
    <3>1. PICK a \in Code, scope \in {"xref", "xdef"} : DefineScope(a, scope)
      BY <2>2
    <3>2. labels' = [labels EXCEPT ![a].xref = (scope = "xref"), ![a].xdef = (scope = "xdef")]
      BY <3>1 DEF DefineScope
    <3>3. (scope = "xref") \in BOOLEAN /\ (scope = "xdef") \in BOOLEAN
      OBVIOUS
    <3> QED  BY <1>2, <3>2, <3>3, ScopeKeeps
  <2>3. CASE \/ \E a \in Known, position \in Positions : RemarkOutput(a, position)
             \/ \E a \in Known, text \in Texts : DefineExpression(a, text)
             \/ \E a \in Known, text \in Texts : DefineConstant(a, text)
    <3>1. labels' = labels
      BY <2>3 DEF RemarkOutput, DefineExpression, DefineConstant
    <3> QED  BY <1>2, <3>1
  <2> QED  BY <2>1, <2>2, <2>3
<1> QED  BY <1>1, <1>3, QuietKeeps

LEMMA FileCommands ==
    ASSUME TraceInv, CreateCollectFile \/ ReloadCollectFile \/ (\E yes \in BOOLEAN : Quit(yes))
    PROVE  TraceInv'
<1>1. /\ job = Idle /\ mem' = mem /\ stack' = stack /\ visited' = visited
      /\ job.pc = "idle" /\ stack = <<>> /\ stack \in Seq(Int) /\ visited = {}
  BY AtPromptShape DEF TraceInv, CreateCollectFile, ReloadCollectFile, Quit, Command
<1>2. CASE ReloadCollectFile /\ available
  BY <1>1, <1>2, ReadKeeps DEF ReloadCollectFile
<1>3. CASE ReloadCollectFile /\ ~available
  <2>1. job' = Down /\ parsed' = parsed /\ file' = file /\ labels' = labels
    BY <1>3 DEF ReloadCollectFile, work
  <2> QED  BY <1>1, <2>1, QuietKeeps DEF TraceInv
<1>4. CASE CreateCollectFile \/ \E yes \in BOOLEAN : Quit(yes)
  <2>1. /\ parsed' = parsed /\ labels' = labels /\ job' \in {Idle, Down}
        /\ file' = file \/ GenCollectFile
    BY <1>1, <1>4 DEF CreateCollectFile, Quit, work
  <2>2. CASE file' = file
    BY <1>1, <2>1, <2>2, QuietKeeps DEF TraceInv
  <2>3. CASE GenCollectFile
    <3>1. FileClosed'
      BY <1>1, <2>3, WrittenClosed
    <3>2. \A pc : Targets(pc)' = Targets(pc)
      BY <1>1 DEF Targets
    <3>3. parsed' \subseteq Accounted'
      BY DEF Accounted
    <3>4. \A pc \in parsed' : Targets(pc)' \subseteq Accounted'
      BY <1>1, <2>1, <3>2, <3>3, AtRest
    <3>5. JobShape'
      BY <2>1, StopsOrNot
    <3> QED  BY <1>1, <2>1, <3>1, <3>4, <3>5 DEF TraceInv
  <2> QED  BY <2>1, <2>2, <2>3
<1> QED  BY <1>2, <1>3, <1>4

----------------------------------------------------------------------------
(* The program starts *)

LEMMA InitTrace == Init => TraceInv
<1> SUFFICES ASSUME Init PROVE TraceInv
  OBVIOUS
<1>1. JobShape
  BY DEF Init, JobShape, Idle
<1>2. LabelsLocal(labels) /\ FileClosed
  BY DEF Init, LabelsLocal, FileClosed, available
<1> QED  BY <1>1, <1>2 DEF Init, TraceInv

LEMMA StartKeeps ==
    ASSUME TraceInv, Start
    PROVE  TraceInv'
<1>1. /\ mem' = mem /\ file' = file /\ job' = Idle /\ stack' = <<>> /\ visited' = {}
  BY DEF Start
<1>2. CASE available
  BY <1>1, <1>2, ReadKeeps DEF Start
<1>3. CASE ~available
  <2>1. labels' = <<>> /\ parsed' = {}
    BY <1>3 DEF Start
  <2>2. LabelsLocal(labels') /\ FileClosed'
    BY <1>1, <1>3, <2>1 DEF LabelsLocal, FileClosed, available
  <2>3. JobShape'
    BY <1>1, StopsOrNot
  <2> QED  BY <1>1, <2>1, <2>2, <2>3 DEF TraceInv
<1> QED  BY <1>2, <1>3

----------------------------------------------------------------------------
(* Pass 1 *)

LEMMA BytesLoaded == TraceInv => mem \in [Code -> Byte]
  BY SessionAssumption DEF TraceInv

\* A job in progress that goes on differently is one in progress.
GoOn(pc, at, area, next, found) ==
    [job EXCEPT !.pc = pc, !.at = at, !.area = area, !.next = next, !.found = found]

LEMMA GoesOn ==
    ASSUME JobShape, job.pc \in {"entry", "pass", "parse"},
           NEW pc \in {"entry", "pass", "parse"}, NEW at \in Int, NEW area, NEW next, NEW found,
           pc = "parse" => next \in Int,
           job' = GoOn(pc, at, area, next, found)
    PROVE  JobShape' /\ job'.pc = pc /\ job'.next = next
<1>1. job' = [pc |-> pc, cmd |-> job.cmd, start |-> job.start, end |-> job.end,
              at |-> at, area |-> area, next |-> next, found |-> found]
  BY DEF JobShape, GoOn
<1> QED  BY <1>1 DEF JobShape

LEMMA NextEntryKeeps ==
    ASSUME TraceInv, NextEntry
    PROVE  TraceInv'
<1> DEFINE pointer == IF job.cmd = "pl" THEN Word(mem, job.at) ELSE job.at
           more == IF job.cmd = "pl" THEN job.at < job.end ELSE GetByte(mem, job.at) = 195
<1>1. /\ job.pc = "entry" /\ mem' = mem /\ file' = file /\ parsed' = parsed
      /\ stack = <<>> /\ visited = {} /\ LabelsLocal(labels) /\ JobShape
  BY DEF NextEntry, TraceInv
<1>2. CASE ~more
  <2>1. labels' = labels /\ stack' = stack /\ visited' = visited /\ job' \in {Idle, Down}
    BY <1>2, DefineKeepsJob DEF NextEntry
  <2>2. JobShape' /\ Calm
    BY <1>1, <2>1, StopsOrNot DEF Calm
  <2> QED  BY <1>1, <2>1, <2>2, CalmKeeps
<1>3. CASE more
  <2>1. /\ stack' = <<pointer>> /\ visited' = {}
        /\ labels' = IF job.cmd = "pl" THEN StoreRefs(labels, {pointer}, TRUE) ELSE labels
        /\ job' = [job EXCEPT !.pc = "pass",
                              !.at = @ + (IF job.cmd = "pl" THEN 2 ELSE 3)]
    BY <1>3 DEF NextEntry
  <2>2. LabelsLocal(labels')
    BY <1>1, <2>1, StoreKeeps
  <2>3. JobShape' /\ job'.pc = "pass"
    <3>1. job.at + (IF job.cmd = "pl" THEN 2 ELSE 3) \in Int
      BY <1>1 DEF JobShape
    <3> QED  BY <1>1, <2>1, <3>1 DEF JobShape
  <2>4. pointer \in Int
    BY <1>1, BytesLoaded, AddressesAreNumbers DEF JobShape
  <2>5. Calm
    BY <1>1, <2>1, <2>3, <2>4 DEF Calm
  <2> QED  BY <1>1, <2>2, <2>3, <2>5, CalmKeeps
<1> QED  BY <1>2, <1>3

LEMMA PopKeeps ==
    ASSUME TraceInv, PopItem
    PROVE  TraceInv'
<1> DEFINE pc == Last(stack)
<1>1. /\ job.pc = "pass" /\ stack # <<>> /\ stack' = Front(stack)
      /\ mem' = mem /\ file' = file /\ labels' = labels /\ parsed' = parsed /\ visited' = visited
  BY DEF PopItem, work
<1>2. /\ stack \in Seq(Int) /\ LabelsLocal(labels) /\ JobShape
      /\ visited \intersect Code \subseteq Accounted
  BY <1>1 DEF TraceInv
<1>3. /\ stack' \in Seq(Int) /\ pc \in Int
      /\ Elements(stack) = Elements(stack') \union {pc}
  BY <1>1, <1>2, Popped
<1>4. InHand = {}
  BY <1>1 DEF InHand
<1>5. CASE LocalLabel(pc)
  <2>1. job' = [job EXCEPT !.pc = "parse", !.area = pc, !.next = pc,
                           !.found = SearchArea(areas, pc)]
    BY <1>5 DEF PopItem
  <2>2. JobShape' /\ job'.pc = "parse" /\ job'.next = pc
    BY <1>1, <1>2, <1>3, <2>1 DEF JobShape
  <2>3. InHand' = {pc}
    BY <2>2 DEF InHand
  <2>4. Accounted \subseteq Accounted'
    BY <1>1, <1>3, <1>4, <2>3 DEF Accounted
  <2>5. Walk
    BY <1>1, <1>2, <1>3, <2>2, <2>4 DEF Walk
  <2> QED  BY <1>1, <1>2, <2>2, <2>5, WalkKeeps
<1>6. CASE ~LocalLabel(pc)
  <2>1. job' = job
    BY <1>6 DEF PopItem
  <2>2. pc \in Code => pc \notin DOMAIN labels
    BY <1>2, <1>6, CodeNotExtern DEF LocalLabel, LabelsLocal
  <2>3. InHand' = {}
    BY <1>1, <2>1 DEF InHand
  <2>4. Accounted \intersect Code \subseteq Accounted'
    BY <1>1, <1>3, <1>4, <2>2, <2>3 DEF Accounted
  <2>5. Walk
    BY <1>1, <1>2, <1>3, <2>1, <2>4 DEF Walk
  <2>6. JobShape'
    BY <1>2, <2>1 DEF JobShape
  <2> QED  BY <1>1, <1>2, <2>5, <2>6, WalkKeeps
<1> QED  BY <1>5, <1>6

LEMMA PassDoneKeeps ==
    ASSUME TraceInv, PassDone
    PROVE  TraceInv'
<1>1. /\ job.pc = "pass" /\ stack = <<>> /\ stack' = stack /\ visited' = {}
      /\ mem' = mem /\ file' = file /\ labels' = labels /\ parsed' = parsed
      /\ job' = IF job.cmd = "pp" THEN Idle ELSE [job EXCEPT !.pc = "entry"]
  BY DEF PassDone
<1>2. LabelsLocal(labels) /\ JobShape /\ stack \in Seq(Int)
  BY DEF TraceInv
<1>3. JobShape' /\ job'.pc \in {"idle", "entry"}
  <2>1. CASE job.cmd = "pp"
    BY <1>1, <2>1, StopsOrNot DEF Idle
  <2>2. CASE job.cmd # "pp"
    BY <1>1, <1>2, <2>2 DEF JobShape
  <2> QED  BY <2>1, <2>2
<1>4. InHand = {} /\ InHand' = {}
  BY <1>1, <1>3 DEF InHand
<1>5. Accounted' = Accounted
  BY <1>1, <1>4 DEF Accounted
<1>6. Walk
  BY <1>1, <1>2, <1>5 DEF Walk
<1> QED  BY <1>1, <1>2, <1>3, <1>6, WalkKeeps

\* An instruction that has been met is parsed, and its jump address is on the
\* stack with a label, unless it has been visited: then it is accounted for.
LEMMA MeetAccounts ==
    ASSUME TraceInv, job.pc = "parse", mem' = mem, Meet(Instr(mem, job.next))
    PROVE  /\ stack' \in Seq(Int) /\ LabelsLocal(labels')
           /\ Accounted \subseteq Accounted'
           /\ \A pc \in parsed' \ parsed : Targets(pc) \subseteq Accounted'
           /\ visited' \intersect Code \subseteq Accounted'
<1> DEFINE i == Instr(mem, job.next)
           new == i.targets \ visited
<1>1. job.next \in Int /\ stack \in Seq(Int) /\ LabelsLocal(labels)
  BY DEF TraceInv, JobShape
<1>2. i.targets = {} \/ \E x \in Int : i.targets = {x}
  BY SMTT(30), <1>1, BytesLoaded, InstrForward DEF Turn
<1>3. SetToSeq(new) \in Seq(Int) /\ Elements(SetToSeq(new)) = new
  <2>1. new = {} \/ \E x \in Int : new = {x}
    BY <1>2
  <2> QED  BY <2>1, AtMostOne
<1>4. /\ labels' = StoreRefs(StoreRefs(labels, i.targets, TRUE), i.data, FALSE)
      /\ stack' = stack \o SetToSeq(new) /\ visited' = visited \union i.targets
      /\ parsed' = parsed \union {job.next}
  BY DEF Meet
<1> HIDE DEF i, new
<1>5. stack' \in Seq(Int) /\ Elements(stack') = Elements(stack) \union new
  BY <1>1, <1>3, <1>4, Pushed
<1>6. LabelsLocal(labels') /\ DOMAIN labels' = DOMAIN labels \union i.targets \union i.data
  <2> DEFINE t == StoreRefs(labels, i.targets, TRUE)
  <2>1. LabelsLocal(t) /\ DOMAIN t = DOMAIN labels \union i.targets
    BY <1>1, StoreKeeps
  <2> HIDE DEF t
  <2>2. /\ LabelsLocal(StoreRefs(t, i.data, FALSE))
        /\ DOMAIN StoreRefs(t, i.data, FALSE) = DOMAIN t \union i.data
    BY <2>1, StoreKeeps
  <2> QED  BY <1>4, <2>1, <2>2 DEF t
<1>7. InHand = {job.next}
  BY DEF InHand
<1>8. Accounted \subseteq Accounted'
  BY <1>4, <1>5, <1>6, <1>7 DEF Accounted
<1>9. new \subseteq Accounted'
  BY <1>5, <1>6 DEF Accounted, new
<1>10. visited \intersect Code \subseteq Accounted'
  BY <1>8 DEF TraceInv
<1>11. i.targets \intersect Code \subseteq Accounted'
  BY <1>9, <1>10 DEF new
<1>12. \A pc \in parsed' \ parsed : Targets(pc) = i.targets \intersect Code
  BY <1>4 DEF Targets, i
<1> QED  BY <1>4, <1>5, <1>6, <1>8, <1>10, <1>11, <1>12

LEMMA ParseKeeps ==
    ASSUME TraceInv, ParseInstruction
    PROVE  TraceInv'
<1> DEFINE i == Instr(mem, job.next)
<1>1. /\ job.pc = "parse" /\ mem' = mem /\ file' = file /\ Meet(i)
      /\ job' = [job EXCEPT !.next = i.next]
  BY DEF ParseInstruction, Parsing
<1>2. job.next \in Int /\ JobShape
  BY <1>1 DEF TraceInv, JobShape
<1>3. i.next \in Int
  BY <1>2, BytesLoaded, InstrForward DEF Turn
<1> HIDE DEF i
<1>4. JobShape' /\ job'.pc = "parse"
  BY <1>1, <1>2, <1>3 DEF JobShape
<1>5. Walk /\ LabelsLocal(labels')
  BY <1>1, <1>4, MeetAccounts DEF Walk, i
<1> QED  BY <1>1, <1>4, <1>5, WalkKeeps

\* The end of an area: back to the stack, or a crash.
LEMMA AreaParsedJob ==
    ASSUME JobShape, job.pc = "parse", NEW end, NEW flag, AreaParsed(end, flag)
    PROVE  JobShape' /\ job'.pc \in {"pass", "down"}
<1> DEFINE again == [job EXCEPT !.pc = "pass", !.area = job.start, !.next = job.start,
                                !.found = "notfound"]
<1>1. job' \in {Down, again}
  BY DefineKeepsJob DEF AreaParsed
<1>2. CASE job' = Down
  BY <1>2, StopsOrNot DEF Down
<1>3. CASE job' = again
  BY <1>3 DEF JobShape
<1> QED  BY <1>1, <1>2, <1>3

LEMMA EndOfAreaKeeps ==
    ASSUME TraceInv, EndOfArea
    PROVE  TraceInv'
<1> DEFINE i == Instr(mem, job.next)
<1>1. /\ job.pc = "parse" /\ mem' = mem /\ file' = file /\ Meet(i)
      /\ \E end \in i.ends : AreaParsed(end, changed \/ DOMAIN labels' # DOMAIN labels)
  BY DEF EndOfArea, Parsing
<1>2. JobShape' /\ job'.pc \in {"pass", "down"}
  BY <1>1, AreaParsedJob DEF TraceInv
<1>3. Walk /\ LabelsLocal(labels')
  BY <1>1, <1>2, MeetAccounts DEF Walk
<1> QED  BY <1>1, <1>2, <1>3, WalkKeeps

\* What is in hand is behind the code.
LEMMA EndOfCodeKeeps ==
    ASSUME TraceInv, EndOfCode
    PROVE  TraceInv'
<1>1. /\ job.pc = "parse" /\ job.next > gEndOfCode /\ AreaParsed(gEndOfCode, changed)
      /\ mem' = mem /\ file' = file /\ labels' = labels /\ stack' = stack
      /\ visited' = visited /\ parsed' = parsed
  BY DEF EndOfCode
<1>2. /\ JobShape' /\ job'.pc \in {"pass", "down"}
      /\ stack \in Seq(Int) /\ LabelsLocal(labels) /\ job.next \in Int
  BY <1>1, AreaParsedJob DEF TraceInv, JobShape
<1>3. job.next \notin Code
  BY <1>1, <1>2, SessionAssumption DEF Code, gEndOfCode
<1>4. Accounted \intersect Code \subseteq Accounted'
  BY <1>1, <1>3 DEF Accounted, InHand
<1>5. visited \intersect Code \subseteq Accounted
  BY <1>1 DEF TraceInv
<1>6. Walk
  BY <1>1, <1>2, <1>4, <1>5 DEF Walk
<1> QED  BY <1>1, <1>2, <1>6, WalkKeeps

----------------------------------------------------------------------------
(* The theorems *)

LEMMA StutterKeeps ==
    ASSUME TraceInv, UNCHANGED vars
    PROVE  TraceInv'
<1>1. /\ mem' = mem /\ labels' = labels /\ file' = file /\ stack' = stack
      /\ visited' = visited /\ job' = job /\ parsed' = parsed
  BY DEF vars, work
<1>2. \A pc : Targets(pc)' = Targets(pc)
  BY <1>1 DEF Targets
<1>3. Accounted' = Accounted /\ JobShape' /\ FileClosed'
  BY <1>1, <1>2 DEF TraceInv, Accounted, InHand, JobShape, FileClosed, available
<1> QED  BY <1>1, <1>2, <1>3 DEF TraceInv

LEMMA NextKeeps == TraceInv /\ [Next]_vars => TraceInv'
<1> SUFFICES ASSUME TraceInv, [Next]_vars PROVE TraceInv'
  OBVIOUS
<1>1. CASE \/ \E a \in Code : ParseDZ(a)
           \/ \E start, end \in Code : ParseLookupTable(start, end)
           \/ \E a \in Code : ParseVectorTable(a)
  BY <1>1, ParsingCommands
<1>2. CASE \/ \E start, end \in Code : ParsePointerTable(start, end)
           \/ \E type \in DataTypes, start, end \in Code : DefineMemory(type, start, end)
  BY <1>2, DefiningCommands
<1>3. CASE \/ \E a \in Known, name \in Names : DefineLabel(a, name)
           \/ \E a \in Code, scope \in {"xref", "xdef"} : DefineScope(a, scope)
           \/ \E a \in Known, position \in Positions : RemarkOutput(a, position)
           \/ \E a \in Known, text \in Texts : DefineExpression(a, text)
           \/ \E a \in Known, text \in Texts : DefineConstant(a, text)
  BY <1>3, NotingCommands
<1>4. CASE CreateCollectFile \/ ReloadCollectFile \/ \E yes \in BOOLEAN : Quit(yes)
  BY <1>4, FileCommands
<1>5. CASE Start  BY <1>5, StartKeeps
<1>6. CASE NextEntry  BY <1>6, NextEntryKeeps
<1>7. CASE PopItem  BY <1>7, PopKeeps
<1>8. CASE PassDone  BY <1>8, PassDoneKeeps
<1>9. CASE ParseInstruction  BY <1>9, ParseKeeps
<1>10. CASE EndOfArea  BY <1>10, EndOfAreaKeeps
<1>11. CASE EndOfCode  BY <1>11, EndOfCodeKeeps
<1>12. CASE UNCHANGED vars  BY <1>12, StutterKeeps
<1> QED
  BY <1>1, <1>2, <1>3, <1>4, <1>5, <1>6, <1>7, <1>8, <1>9, <1>10, <1>11, <1>12 DEF Next

\* The induction hypothesis is an invariant of every session.
THEOREM TraceInvariant == Spec => []TraceInv
  BY InitTrace, NextKeeps, PTL DEF Spec

\* No reference gets lost: when DZasm is back at its prompt, every jump and call
\* address in the code that an instruction pass 1 met refers to has been parsed,
\* whatever commands were given and how often the work went through the file.
THEOREM AllTargetsTraced == Spec => []TargetsTraced
<1>1. TraceInv => TargetsTraced
  <2> SUFFICES ASSUME TraceInv, AtPrompt
               PROVE  \A pc \in parsed : Instr(mem, pc).targets \intersect Code \subseteq parsed
    BY DEF TargetsTraced
  <2>1. job.pc = "idle"
    BY AtPromptShape DEF AtPrompt
  <2> QED  BY <2>1, AtRest DEF Targets
<1> QED  BY <1>1, TraceInvariant, PTL
============================================================================
