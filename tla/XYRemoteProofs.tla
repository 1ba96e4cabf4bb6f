--------------------------- MODULE XYRemoteProofs ---------------------------
(***************************************************************************)
(* Proofs about XYRemote, for files, blocks and numbers of any size, any    *)
(* number of tries and of faults.                                           *)
(***************************************************************************)
EXTENDS XYRemote, TLAPS

\* What the line and the programs hold.
Heads == {NoHead, EndHead} \cup [is : {"file"}, size : Nat]
Blocks == [kind : {"block"}, num : Int, long : BOOLEAN, check : {"sum", "crc"},
           head : Heads, data : Int, flaw : Flaws \cup {"none"}]
Controls == [kind : {"EOT", "CAN", "noise"}, data : Int]
Items == Blocks \cup Controls
Bytes == {"NAK", "C", "ACK", "CAN", "noise"}
Pieces == [data : Int, keep : Int]

RxType == [pc : RxPcs, ymodem : BOOLEAN, check : {"crc", "sum"}, blk : Int, retries : Int,
           open : BOOLEAN, blocks : Int, bytes : Int, nest : Int]
RoType == [pc : {"ready", "wait", "done"}, idx : Nat, num : Int, check : {"sum", "crc"},
           size : Nat, tries : Int, can : BOOLEAN, hasty : BOOLEAN]

TypeOK ==
    /\ rx \in RxType /\ ro \in RoType
    /\ file \in Seq(Pieces) /\ saved \in Seq(Seq(Pieces))
    /\ back \in Seq(Bytes)
    /\ started \in BOOLEAN /\ taken \in Int

\* An item on the line, of a sender that is at item hi with number num and has p parts:
\* the block before item hi has the number before num, and a block that comes after the
\* file ends the batch.
ItemOK(m, lo, hi, num, p) ==
    /\ m \in Items
    /\ lo <= m.data /\ m.data <= hi
    /\ m.kind = "EOT" => m.data = p + 1
    /\ m.kind = "block" /\ m.data > p => m.data # p + 1 /\ m.head = EndHead
    /\ m.kind = "block" /\ m.data <= p =>
            (m.data = hi /\ m.num = num) \/ (m.data # hi /\ NextNum(m.num) = num)

\* The line keeps the order of the items, and none is older than lo.
LineOK(q, lo, hi, num, p) ==
    /\ q \in Seq(Items)
    /\ \A k \in 1..Len(q) : ItemOK(q[k], lo, hi, num, p)
    /\ \A j, k \in 1..Len(q) : j <= k => q[j].data <= q[k].data

Over == taken > Parts
Oldest == IF Over THEN Parts + 1 ELSE taken
LineInv == LineOK(fwd, Oldest, ro.idx, ro.num, Parts)

\* The sender is at the item that was acknowledged last, or at the next one; only in
\* the first case an ACK may be on its way, and only one.
NoAck == \A k \in 1..Len(back) : back[k] # "ACK"
SenderInv ==
    /\ ro.idx = 0 => ro.num = 0
    /\ ~Over => /\ ro.idx = taken \/ (ro.idx = taken + 1 /\ NoAck)
                /\ \A j, k \in 1..Len(back) : back[j] = "ACK" /\ back[k] = "ACK" => j = k
                /\ saved = <<>>
    /\ Over => ro.idx >= Parts + 1

\* A receiver at work expects the number of the item after the last it took.
Working == rx.pc \in {"purge", "block", "can"}
ReceiverInv ==
    Working =>
        /\ Over => ~rx.open
        /\ ~Over => rx.blk = IF ro.idx = taken THEN NextNum(ro.num) ELSE ro.num
        /\ rx.open => Len(file) = taken
        /\ ~rx.open /\ ~Over => taken = -1

BeforeStart ==
    ~started => /\ rx.pc = "menu" /\ ~rx.open /\ file = <<>> /\ saved = <<>>
                /\ ro.idx = First /\ ro.num = First /\ taken = First - 1 /\ NoAck

IInv == /\ TypeOK /\ LineInv /\ SenderInv /\ ReceiverInv /\ BeforeStart
        /\ InOrder /\ SavedWhole

----------------------------------------------------------------------------
(* Block numbers and items *)

LEMMA NextNumType == \A n \in Int : NextNum(n) \in Int /\ NextNum(n) # n
  BY LineAssumption DEF NextNum

LEMMA PartsType == ro \in RoType => Parts \in Nat
<1> SUFFICES ASSUME ro \in RoType PROVE Parts \in Nat
  OBVIOUS
<1> DEFINE n == ro.size + Short - 1
<1>1. n \in Nat /\ Short \in Nat /\ Short > 0
  BY LineAssumption DEF RoType
<1> HIDE DEF n
<1>2. n \div Short \in Nat
  BY <1>1, Z3
<1> QED  BY <1>2 DEF n, Parts

\* What the sender has in hand fits the line.
LEMMA ItemFits ==
    ASSUME NEW r \in RoType, ro \in RoType, r.size = ro.size, r.idx = 0 => r.num = 0
    PROVE  ItemOK(Item(r), r.idx, r.idx, r.num, Parts)
<1>1. Parts \in Nat /\ r.idx \in Nat /\ r.num \in Int /\ r.check \in {"sum", "crc"}
      /\ r.size \in Nat
  BY PartsType DEF RoType
<1>2. CASE r.idx = 0
  <2>1. Item(r) = Block(0, FALSE, r.check, FileHead(r.size), 0)
    BY <1>1, <1>2 DEF Item, Block
  <2>2. FileHead(r.size) \in Heads
    BY <1>1 DEF FileHead, Heads
  <2> QED  BY <1>1, <1>2, <2>1, <2>2 DEF Block, ItemOK, Items, Blocks
<1>3. CASE r.idx \in 1..Parts
  <2>1. Item(r) = Block(r.num, FALSE, r.check, NoHead, r.idx)
    BY <1>1, <1>3 DEF Item, Block
  <2>2. NoHead \in Heads
    BY DEF Heads
  <2> QED  BY <1>1, <1>3, <2>1, <2>2 DEF Block, ItemOK, Items, Blocks
<1>4. CASE r.idx = Parts + 1
  <2>1. Item(r) = Control("EOT", r.idx)
    BY <1>1, <1>4 DEF Item
  <2> QED  BY <1>1, <1>4, <2>1 DEF Control, ItemOK, Items, Controls
<1>5. CASE r.idx > Parts + 1
  <2>1. Item(r) = Block(0, FALSE, r.check, EndHead, r.idx)
    BY <1>1, <1>5 DEF Item, Block
  <2>2. EndHead \in Heads
    BY DEF Heads
  <2> QED  BY <1>1, <1>5, <2>1, <2>2 DEF Block, ItemOK, Items, Blocks
<1> QED  BY <1>1, <1>2, <1>3, <1>4, <1>5

----------------------------------------------------------------------------
(* The line: what programs and faults do to it *)

\* The receiver reads an item, and may take it for the oldest.
LEMMA LineTail ==
    ASSUME NEW q, NEW lo \in Int, NEW hi \in Int, NEW num, NEW p,
           LineOK(q, lo, hi, num, p), q # <<>>
    PROVE  /\ ItemOK(Head(q), lo, hi, num, p)
           /\ LineOK(Tail(q), lo, hi, num, p)
           /\ LineOK(Tail(q), Head(q).data, hi, num, p)
<1>1. q \in Seq(Items) /\ Len(q) >= 1 /\ Head(q) = q[1] /\ Tail(q) \in Seq(Items)
      /\ Len(Tail(q)) = Len(q) - 1 /\ Len(q) \in Nat
  BY DEF LineOK
<1>2. \A k \in 1..(Len(q) - 1) : Tail(q)[k] = q[k + 1]
  BY <1>1
<1>3. \A k \in 1..Len(q) : ItemOK(q[k], lo, hi, num, p)
  BY DEF LineOK
<1>4. \A j, k \in 1..Len(q) : j <= k => q[j].data <= q[k].data
  BY DEF LineOK
<1>5. \A k \in 1..Len(Tail(q)) : /\ ItemOK(Tail(q)[k], lo, hi, num, p)
                                 /\ q[1].data <= Tail(q)[k].data
  <2> SUFFICES ASSUME NEW k \in 1..Len(Tail(q))
               PROVE  ItemOK(Tail(q)[k], lo, hi, num, p) /\ q[1].data <= Tail(q)[k].data
    OBVIOUS
  <2>1. k + 1 \in 1..Len(q) /\ 1 \in 1..Len(q) /\ Tail(q)[k] = q[k + 1] /\ 1 <= k + 1
    BY <1>1, <1>2
  <2> QED  BY <2>1, <1>3, <1>4
<1>6. \A j, k \in 1..Len(Tail(q)) : j <= k => Tail(q)[j].data <= Tail(q)[k].data
  <2> SUFFICES ASSUME NEW j \in 1..Len(Tail(q)), NEW k \in 1..Len(Tail(q)), j <= k
               PROVE  Tail(q)[j].data <= Tail(q)[k].data
    OBVIOUS
  <2>1. k + 1 \in 1..Len(q) /\ j + 1 \in 1..Len(q) /\ j + 1 <= k + 1
        /\ Tail(q)[k] = q[k + 1] /\ Tail(q)[j] = q[j + 1]
    BY <1>1, <1>2
  <2> QED  BY <2>1, <1>4
<1>7. \A k \in 1..Len(Tail(q)) : ItemOK(Tail(q)[k], q[1].data, hi, num, p)
  BY <1>5 DEF ItemOK
<1>8. ItemOK(q[1], lo, hi, num, p)
  BY <1>1, <1>3
<1> QED  BY <1>1, <1>5, <1>6, <1>7, <1>8 DEF LineOK

\* The sender sends what it has in hand.
LEMMA LineAppend ==
    ASSUME NEW q, NEW lo \in Int, NEW hi \in Int, NEW num, NEW p, NEW m, lo <= hi,
           LineOK(q, lo, hi, num, p), ItemOK(m, hi, hi, num, p)
    PROVE  LineOK(Append(q, m), lo, hi, num, p)
<1>1. q \in Seq(Items) /\ Len(q) \in Nat /\ m \in Items
  BY DEF LineOK, ItemOK
<1>2. Append(q, m) \in Seq(Items) /\ Len(Append(q, m)) = Len(q) + 1
  BY <1>1
<1>3. \A k \in 1..(Len(q) + 1) : Append(q, m)[k] = IF k = Len(q) + 1 THEN m ELSE q[k]
  BY <1>1
<1>4. \A x \in Items : x.data \in Int
  BY DEF Items, Blocks, Controls
<1>5. ItemOK(m, lo, hi, num, p) /\ m.data = hi
  BY <1>1, <1>4 DEF ItemOK
<1>6. \A k \in 1..Len(q) : ItemOK(q[k], lo, hi, num, p) /\ q[k].data <= hi
  BY DEF LineOK, ItemOK
<1>7. \A j, k \in 1..Len(q) : j <= k => q[j].data <= q[k].data
  BY DEF LineOK
<1>8. \A k \in 1..(Len(q) + 1) : ItemOK(Append(q, m)[k], lo, hi, num, p)
  <2> SUFFICES ASSUME NEW k \in 1..(Len(q) + 1)
               PROVE  ItemOK(Append(q, m)[k], lo, hi, num, p)
    OBVIOUS
  <2>1. CASE k = Len(q) + 1
    BY <1>3, <1>5, <2>1
  <2>2. CASE k # Len(q) + 1
    <3>1. k \in 1..Len(q) /\ Append(q, m)[k] = q[k]
      BY <1>1, <1>3, <2>2
    <3> QED  BY <1>6, <3>1
  <2> QED  BY <2>1, <2>2
<1>9. \A j, k \in 1..(Len(q) + 1) : j <= k => Append(q, m)[j].data <= Append(q, m)[k].data
  <2> SUFFICES ASSUME NEW j \in 1..(Len(q) + 1), NEW k \in 1..(Len(q) + 1), j <= k
               PROVE  Append(q, m)[j].data <= Append(q, m)[k].data
    OBVIOUS
  <2>1. CASE k = Len(q) + 1
    <3>1. CASE j = Len(q) + 1
      BY <1>3, <1>5, <2>1, <3>1
    <3>2. CASE j # Len(q) + 1
      <4>1. j \in 1..Len(q) /\ Append(q, m)[j] = q[j]
        BY <1>1, <1>3, <3>2
      <4>2. Append(q, m)[k] = m
        BY <1>3, <2>1
      <4> QED  BY <1>5, <1>6, <4>1, <4>2
    <3> QED  BY <3>1, <3>2
  <2>2. CASE k # Len(q) + 1
    <3>1. j \in 1..Len(q) /\ k \in 1..Len(q)
      BY <1>1, <2>2
    <3>2. Append(q, m)[j] = q[j] /\ Append(q, m)[k] = q[k]
      BY <1>1, <1>3, <3>1
    <3> QED  BY <1>7, <3>1, <3>2
  <2> QED  BY <2>1, <2>2
<1> QED  BY <1>2, <1>8, <1>9 DEF LineOK

\* The sender gives up.
LEMMA LineRepeat ==
    ASSUME NEW q, NEW lo \in Int, NEW hi \in Int, NEW num, NEW p, lo <= hi,
           LineOK(q, lo, hi, num, p)
    PROVE  LineOK(q \o Repeat(Control("CAN", hi)), lo, hi, num, p)
<1> DEFINE m == Control("CAN", hi)
           r == Repeat(m)
<1>1. q \in Seq(Items) /\ Len(q) \in Nat /\ Cans \in Nat
  BY LineAssumption DEF LineOK
<1>2. m \in Items /\ ItemOK(m, lo, hi, num, p) /\ m.data = hi
  BY DEF Control, Items, Controls, ItemOK
<1> HIDE DEF m
<1>3. r \in Seq(Items) /\ Len(r) = Cans /\ \A k \in 1..Cans : r[k] = m
  BY <1>1, <1>2 DEF Repeat
<1> HIDE DEF r
<1>4. /\ q \o r \in Seq(Items)
      /\ Len(q \o r) = Len(q) + Cans
      /\ \A k \in 1..(Len(q) + Cans) : (q \o r)[k] = IF k <= Len(q) THEN q[k] ELSE r[k - Len(q)]
  BY <1>1, <1>3
<1>5. \A k \in 1..(Len(q) + Cans) : ~(k <= Len(q)) => (q \o r)[k] = m
  <2> SUFFICES ASSUME NEW k \in 1..(Len(q) + Cans), ~(k <= Len(q)) PROVE (q \o r)[k] = m
    OBVIOUS
  <2>1. k - Len(q) \in 1..Cans
    BY <1>1
  <2> QED  BY <1>3, <1>4, <2>1
<1>6. \A k \in 1..(Len(q) + Cans) : k <= Len(q) => (q \o r)[k] = q[k] /\ k \in 1..Len(q)
  BY <1>1, <1>4
<1>7. \A k \in 1..Len(q) : ItemOK(q[k], lo, hi, num, p) /\ q[k].data <= hi
  BY DEF LineOK, ItemOK
<1>8. \A k \in 1..(Len(q) + Cans) : ItemOK((q \o r)[k], lo, hi, num, p)
  <2> SUFFICES ASSUME NEW k \in 1..(Len(q) + Cans) PROVE ItemOK((q \o r)[k], lo, hi, num, p)
    OBVIOUS
  <2>1. CASE k <= Len(q)
    BY <1>6, <1>7, <2>1
  <2>2. CASE ~(k <= Len(q))
    BY <1>2, <1>5, <2>2
  <2> QED  BY <2>1, <2>2
<1>9. \A j, k \in 1..(Len(q) + Cans) : j <= k => (q \o r)[j].data <= (q \o r)[k].data
  <2> SUFFICES ASSUME NEW j \in 1..(Len(q) + Cans), NEW k \in 1..(Len(q) + Cans), j <= k
               PROVE  (q \o r)[j].data <= (q \o r)[k].data
    OBVIOUS
  <2>1. CASE ~(k <= Len(q))
    <3>1. (q \o r)[k].data = hi
      BY <1>2, <1>5, <2>1
    <3>2. CASE ~(j <= Len(q))
      <4>1. (q \o r)[j].data = hi
        BY <1>2, <1>5, <3>2
      <4> QED  BY <3>1, <4>1
    <3>3. CASE j <= Len(q)
      BY <1>6, <1>7, <3>1, <3>3
    <3> QED  BY <3>2, <3>3
  <2>2. CASE k <= Len(q)
    <3>1. j <= Len(q)
      BY <1>1, <2>2
    <3>2. (q \o r)[j] = q[j] /\ (q \o r)[k] = q[k] /\ j \in 1..Len(q) /\ k \in 1..Len(q)
      BY <1>6, <2>2, <3>1
    <3> QED  BY <3>2 DEF LineOK
  <2> QED  BY <2>1, <2>2
<1> QED  BY <1>4, <1>8, <1>9 DEF LineOK, r, m

\* Something is lost.
LEMMA WithoutSeq ==
    ASSUME NEW S, NEW q \in Seq(S), NEW n \in 1..Len(q)
    PROVE  /\ Without(q, n) \in Seq(S)
           /\ Len(Without(q, n)) = Len(q) - 1
           /\ \A k \in 1..(Len(q) - 1) : /\ k \in 1..Len(q) /\ k + 1 \in 1..Len(q)
                                         /\ Without(q, n)[k] = IF k < n THEN q[k] ELSE q[k + 1]
<1>1. Len(q) - 1 \in Nat /\ \A k \in 1..(Len(q) - 1) : k \in 1..Len(q) /\ k + 1 \in 1..Len(q)
  OBVIOUS
<1>2. \A k \in 1..Len(q) : q[k] \in S
  OBVIOUS
<1>3. \A k \in 1..(Len(q) - 1) : (IF k < n THEN q[k] ELSE q[k + 1]) \in S
  BY <1>1, <1>2
<1> QED  BY <1>1, <1>3 DEF Without

LEMMA LineWithout ==
    ASSUME NEW q, NEW lo \in Int, NEW hi \in Int, NEW num, NEW p, NEW n \in 1..Len(q),
           LineOK(q, lo, hi, num, p)
    PROVE  LineOK(Without(q, n), lo, hi, num, p)
<1> DEFINE w == Without(q, n)
<1>1. q \in Seq(Items)
  BY DEF LineOK
<1>2. /\ w \in Seq(Items) /\ Len(w) = Len(q) - 1 /\ Len(q) \in Nat
      /\ \A k \in 1..Len(w) : /\ k \in 1..Len(q) /\ k + 1 \in 1..Len(q)
                              /\ w[k] = IF k < n THEN q[k] ELSE q[k + 1]
  <2>1. w \in Seq(Items) /\ Len(w) = Len(q) - 1
    BY <1>1, WithoutSeq
  <2>2. \A k \in 1..(Len(q) - 1) : /\ k \in 1..Len(q) /\ k + 1 \in 1..Len(q)
                                   /\ w[k] = IF k < n THEN q[k] ELSE q[k + 1]
    BY <1>1, WithoutSeq
  <2> HIDE DEF w
  <2> QED  BY <1>1, <2>1, <2>2
<1> HIDE DEF w
<1>3. \A k \in 1..Len(q) : ItemOK(q[k], lo, hi, num, p)
  BY DEF LineOK
<1>4. \A j, k \in 1..Len(q) : j <= k => q[j].data <= q[k].data
  BY DEF LineOK
<1>5. \A k \in 1..Len(w) : ItemOK(w[k], lo, hi, num, p)
  <2> SUFFICES ASSUME NEW k \in 1..Len(w) PROVE ItemOK(w[k], lo, hi, num, p)
    OBVIOUS
  <2>1. CASE k < n
    BY <1>2, <1>3, <2>1
  <2>2. CASE ~(k < n)
    BY <1>2, <1>3, <2>2
  <2> QED  BY <2>1, <2>2
<1>6. \A j, k \in 1..Len(w) : j <= k => w[j].data <= w[k].data
  <2> SUFFICES ASSUME NEW j \in 1..Len(w), NEW k \in 1..Len(w), j <= k
               PROVE  w[j].data <= w[k].data
    OBVIOUS
  <2>1. PICK i \in 1..Len(q) : w[j] = q[i] /\ i = IF j < n THEN j ELSE j + 1
    BY <1>2
  <2>2. PICK l \in 1..Len(q) : w[k] = q[l] /\ l = IF k < n THEN k ELSE k + 1
    BY <1>2
  <2>3. i <= l
    BY <2>1, <2>2
  <2> QED  BY <1>4, <2>1, <2>2, <2>3
<1> QED  BY <1>2, <1>5, <1>6 DEF LineOK, w

\* Something becomes something else that stands for the same.
LEMMA LineExcept ==
    ASSUME NEW q, NEW lo \in Int, NEW hi \in Int, NEW num, NEW p, NEW n \in 1..Len(q), NEW m,
           LineOK(q, lo, hi, num, p), ItemOK(m, lo, hi, num, p), m.data = q[n].data
    PROVE  LineOK([q EXCEPT ![n] = m], lo, hi, num, p)
<1> DEFINE w == [q EXCEPT ![n] = m]
<1>1. q \in Seq(Items) /\ m \in Items
  BY DEF LineOK, ItemOK
<1>2. w \in Seq(Items) /\ Len(w) = Len(q) /\ \A k \in 1..Len(q) : w[k] = IF k = n THEN m ELSE q[k]
  BY <1>1
<1> HIDE DEF w
<1>3. \A k \in 1..Len(q) : w[k].data = q[k].data /\ ItemOK(w[k], lo, hi, num, p)
  BY <1>2 DEF LineOK
<1> QED  BY <1>2, <1>3 DEF LineOK, w

\* The sender goes on to the next item: all that is on the line is older.
LEMMA LineAdvance ==
    ASSUME NEW q, NEW lo \in Int, NEW hi \in Int, NEW num, NEW new, NEW p \in Int,
           LineOK(q, lo, hi, num, p), lo <= hi,
           lo > p \/ (lo = hi /\ new = NextNum(num))
    PROVE  LineOK(q, lo, hi + 1, new, p)
<1>1. q \in Seq(Items)
  BY DEF LineOK
<1>2. \A x \in Items : x.data \in Int
  BY DEF Items, Blocks, Controls
<1> SUFFICES ASSUME NEW k \in 1..Len(q) PROVE ItemOK(q[k], lo, hi + 1, new, p)
  BY DEF LineOK
<1>3. ItemOK(q[k], lo, hi, num, p) /\ q[k] \in Items /\ q[k].data \in Int
  BY <1>1, <1>2 DEF LineOK
<1>4. CASE lo > p
  BY <1>3, <1>4 DEF ItemOK
<1>5. CASE lo = hi /\ new = NextNum(num)
  <2>1. q[k].data = hi
    BY <1>3, <1>5 DEF ItemOK
  <2> QED  BY <1>3, <1>5, <2>1 DEF ItemOK
<1> QED  BY <1>4, <1>5

----------------------------------------------------------------------------
(* The invariant holds at the beginning *)

LEMMA InitIInv == Init => IInv
<1> SUFFICES ASSUME Init PROVE IInv
  OBVIOUS
<1>1. PICK s \in Settings, size \in Sizes, hasty \in Hastes :
        /\ RxInit(s.ymodem, s.crc)
        /\ ro = [pc |-> "ready", idx |-> IF s.ymodem THEN 0 ELSE 1,
                 num |-> IF s.ymodem THEN 0 ELSE 1, check |-> "sum", size |-> size,
                 tries |-> Tries, can |-> FALSE, hasty |-> hasty]
        /\ taken = IF s.ymodem THEN -1 ELSE 0
  BY DEF Init
<1>2. s.ymodem \in BOOLEAN /\ s.crc \in BOOLEAN /\ size \in Nat /\ Tries \in Nat
      /\ hasty \in BOOLEAN
  BY RemoteAssumption
<1>3. fwd = <<>> /\ back = <<>> /\ started = FALSE /\ file = <<>> /\ saved = <<>>
      /\ rx = RxStart(s.ymodem, s.crc)
  BY <1>1 DEF Init, RxInit
<1>4. ro \in RoType
  BY <1>1, <1>2 DEF RoType
<1>5. rx \in RxType /\ rx.pc = "menu" /\ rx.ymodem = s.ymodem /\ ~rx.open
  BY <1>2, <1>3 DEF RxStart, RxType, RxPcs
<1>6. Parts \in Nat
  BY <1>4, PartsType
<1>7. TypeOK
  <2>1. taken \in Int
    BY <1>1, <1>2
  <2>2. file \in Seq(Pieces) /\ saved \in Seq(Seq(Pieces)) /\ back \in Seq(Bytes)
    BY <1>3
  <2> QED  BY <1>3, <1>4, <1>5, <2>1, <2>2 DEF TypeOK
<1>8. LineInv
  BY <1>3 DEF LineInv, LineOK
<1>9. BeforeStart
  BY <1>1, <1>2, <1>3, <1>5 DEF BeforeStart, First, NoAck
<1>10. SenderInv /\ ReceiverInv
  BY <1>1, <1>2, <1>3, <1>5, <1>6 DEF SenderInv, ReceiverInv, Working, Over, NoAck
<1>11. InOrder /\ SavedWhole
  BY <1>3 DEF InOrder, SavedWhole
<1> QED  BY <1>7, <1>8, <1>9, <1>10, <1>11 DEF IInv

----------------------------------------------------------------------------
(* Steps of the sender *)

LEMMA TailType ==
    ASSUME NEW S, NEW q \in Seq(S), q # <<>>
    PROVE  /\ Tail(q) \in Seq(S) /\ Head(q) \in S /\ Head(q) = q[1]
           /\ Len(Tail(q)) = Len(q) - 1 /\ Len(q) \in Nat /\ Len(q) >= 1
           /\ \A k \in 1..(Len(q) - 1) : Tail(q)[k] = q[k + 1]
  OBVIOUS

\* While the file is not over, at most one ACK is in back; after it is read there is none.
LEMMA FewerAcks ==
    ASSUME TypeOK, back # <<>>, back' = Tail(back)
    PROVE  /\ back' \in Seq(Bytes)
           /\ NoAck => NoAck'
           /\ (\A j, k \in 1..Len(back) : back[j] = "ACK" /\ back[k] = "ACK" => j = k) =>
                 /\ \A j, k \in 1..Len(back') : back'[j] = "ACK" /\ back'[k] = "ACK" => j = k
                 /\ Head(back) = "ACK" => NoAck'
<1>1. back \in Seq(Bytes)
  BY DEF TypeOK
<1>2. /\ back' \in Seq(Bytes) /\ Head(back) = back[1]
      /\ Len(back') = Len(back) - 1 /\ Len(back) \in Nat /\ Len(back) >= 1
      /\ \A k \in 1..(Len(back) - 1) : back'[k] = back[k + 1]
  BY <1>1, TailType
<1>3. \A k \in 1..Len(back') : k + 1 \in 1..Len(back) /\ back'[k] = back[k + 1] /\ k + 1 # 1
  BY <1>2
<1>4. NoAck => NoAck'
  BY <1>3 DEF NoAck
<1>5. ASSUME \A j, k \in 1..Len(back) : back[j] = "ACK" /\ back[k] = "ACK" => j = k
      PROVE  /\ \A j, k \in 1..Len(back') : back'[j] = "ACK" /\ back'[k] = "ACK" => j = k
             /\ Head(back) = "ACK" => NoAck'
  <2>1. ASSUME NEW j \in 1..Len(back'), NEW k \in 1..Len(back'), back'[j] = "ACK", back'[k] = "ACK"
        PROVE  j = k
    <3>1. j + 1 = k + 1
      BY <1>3, <1>5, <2>1
    <3> QED  BY <1>2, <3>1
  <2>2. ASSUME Head(back) = "ACK" PROVE NoAck'
    <3>1. 1 \in 1..Len(back) /\ back[1] = "ACK"
      BY <1>2, <2>2
    <3> QED  BY <1>3, <1>5, <3>1 DEF NoAck
  <2> QED  BY <2>1, <2>2
<1> QED  BY <1>2, <1>4, <1>5

\* A step after which the sender is at the same item.
LEMMA SenderStays ==
    ASSUME IInv, UNCHANGED <<rxVars, started, taken>>,
           ro' \in RoType, ro'.idx = ro.idx, ro'.num = ro.num, ro'.size = ro.size,
           UNCHANGED back \/ (back # <<>> /\ back' = Tail(back)),
           LineOK(fwd', Oldest, ro.idx, ro.num, Parts)
    PROVE  IInv'
<1>1. rx' = rx /\ file' = file /\ saved' = saved /\ started' = started /\ taken' = taken
  BY DEF rxVars
<1>2. Parts' = Parts /\ Over' = Over /\ Oldest' = Oldest /\ First' = First /\ Working' = Working
  BY <1>1 DEF Parts, Over, Oldest, First, Working
<1>3. back' \in Seq(Bytes) /\ (NoAck => NoAck')
      /\ ((\A j, k \in 1..Len(back) : back[j] = "ACK" /\ back[k] = "ACK" => j = k) =>
            (\A j, k \in 1..Len(back') : back'[j] = "ACK" /\ back'[k] = "ACK" => j = k))
  <2>1. CASE UNCHANGED back
    BY <2>1 DEF IInv, TypeOK, NoAck
  <2>2. CASE back # <<>> /\ back' = Tail(back)
    BY <2>2, FewerAcks DEF IInv
  <2> QED  BY <2>1, <2>2
<1>4. TypeOK'
  BY <1>1, <1>3 DEF IInv, TypeOK
<1>5. LineInv'
  BY <1>2 DEF LineInv
<1>6. SenderInv'
  BY <1>1, <1>2, <1>3 DEF IInv, SenderInv
<1>7. ReceiverInv'
  BY <1>1, <1>2 DEF IInv, ReceiverInv
<1>8. BeforeStart'
  BY <1>1, <1>2, <1>3 DEF IInv, BeforeStart
<1>9. InOrder' /\ SavedWhole'
  BY <1>1, <1>2 DEF IInv, InOrder, SavedWhole
<1> QED  BY <1>4, <1>5, <1>6, <1>7, <1>8, <1>9 DEF IInv

\* A step after which it is at the next one.
LEMMA SenderAdvances ==
    ASSUME IInv, UNCHANGED <<rxVars, started, taken>>, Hears("ACK"),
           ro' \in RoType, ro'.size = ro.size, ro'.idx = ro.idx + 1,
           ro'.num = IF ro.idx <= Parts THEN NextNum(ro.num) ELSE 0,
           LineOK(fwd', Oldest, ro'.idx, ro'.num, Parts)
    PROVE  IInv'
<1>1. rx' = rx /\ file' = file /\ saved' = saved /\ started' = started /\ taken' = taken
  BY DEF rxVars
<1>2. Parts' = Parts /\ Over' = Over /\ Oldest' = Oldest /\ First' = First /\ Working' = Working
  BY <1>1 DEF Parts, Over, Oldest, First, Working
<1>3. back # <<>> /\ Head(back) = "ACK" /\ back' = Tail(back)
  BY DEF Hears
<1>4. back \in Seq(Bytes) /\ ro \in RoType /\ Parts \in Nat /\ taken \in Int
  BY PartsType DEF IInv, TypeOK
<1>5. ~NoAck
  <2>1. 1 \in 1..Len(back) /\ back[1] = "ACK"
    BY <1>3, <1>4, TailType
  <2> QED  BY <2>1 DEF NoAck
<1>6. started
  BY <1>5 DEF IInv, BeforeStart
<1>7. ~Over => ro.idx = taken /\ NoAck'
  BY <1>3, <1>5, FewerAcks DEF IInv, SenderInv
<1>8. back' \in Seq(Bytes)
      /\ ((\A j, k \in 1..Len(back) : back[j] = "ACK" /\ back[k] = "ACK" => j = k) =>
            (\A j, k \in 1..Len(back') : back'[j] = "ACK" /\ back'[k] = "ACK" => j = k))
  BY <1>3, FewerAcks DEF IInv
<1>9. TypeOK'
  BY <1>1, <1>8 DEF IInv, TypeOK
<1>10. LineInv'
  BY <1>2 DEF LineInv
<1>11. SenderInv'
  <2>1. ro'.idx # 0
    BY <1>4 DEF RoType
  <2>2. ~Over => ro'.idx = taken + 1 /\ NoAck' /\ saved = <<>>
    BY <1>7 DEF IInv, SenderInv
  <2>3. Over => ro'.idx >= Parts + 1
    BY <1>4 DEF IInv, SenderInv, RoType
  <2> QED  BY <1>1, <1>2, <1>8, <2>1, <2>2, <2>3 DEF IInv, SenderInv
<1>12. ReceiverInv'
  <2>1. ASSUME Working, ~Over
        PROVE  ro.idx = taken /\ ro'.idx # taken /\ rx.blk = ro'.num
    <3>1. ro.idx = taken /\ rx.blk = NextNum(ro.num)
      BY <1>7, <2>1 DEF IInv, ReceiverInv
    <3>2. taken <= Parts
      BY <1>4, <2>1 DEF Over
    <3> QED  BY <1>4, <3>1, <3>2
  <2> QED  BY <1>1, <1>2, <2>1 DEF IInv, ReceiverInv
<1>13. BeforeStart'
  BY <1>1, <1>6 DEF BeforeStart
<1>14. InOrder' /\ SavedWhole'
  BY <1>1, <1>2 DEF IInv, InOrder, SavedWhole
<1> QED  BY <1>9, <1>10, <1>11, <1>12, <1>13, <1>14 DEF IInv

LEMMA RemoteStep == IInv /\ Remote => IInv'
<1> SUFFICES ASSUME IInv, Remote PROVE IInv'
  OBVIOUS
<1>1. /\ ro \in RoType /\ Parts \in Nat /\ taken \in Int /\ Oldest \in Int /\ ro.idx \in Int
      /\ Oldest <= ro.idx /\ ro.idx >= 0
  <2>1. ro \in RoType /\ Parts \in Nat /\ taken \in Int /\ ro.idx \in Nat
    BY PartsType DEF IInv, TypeOK, RoType
  <2> QED  BY <2>1 DEF IInv, SenderInv, Oldest, Over
<1>2. LineOK(fwd, Oldest, ro.idx, ro.num, Parts) /\ (ro.idx = 0 => ro.num = 0)
  BY DEF IInv, LineInv, SenderInv
<1>3. ASSUME NEW r \in RoType, Sends(r), r.size = ro.size, r.idx = ro.idx, r.num = ro.num
      PROVE  /\ ro' \in RoType /\ ro'.idx = ro.idx /\ ro'.num = ro.num /\ ro'.size = ro.size
             /\ LineOK(fwd', Oldest, ro.idx, ro.num, Parts)
  <2>1. ro' = [r EXCEPT !.pc = "wait"] /\ fwd' = Append(fwd, Item(r))
    BY <1>3 DEF Sends
  <2>2. ItemOK(Item(r), ro.idx, ro.idx, ro.num, Parts)
    BY <1>1, <1>2, <1>3, ItemFits
  <2>3. LineOK(fwd', Oldest, ro.idx, ro.num, Parts)
    BY <1>1, <1>2, <2>1, <2>2, LineAppend
  <2> QED  BY <1>3, <2>1, <2>3 DEF RoType
<1>4. ASSUME RemoteGivesUp
      PROVE  /\ ro' \in RoType /\ ro'.idx = ro.idx /\ ro'.num = ro.num /\ ro'.size = ro.size
             /\ LineOK(fwd', Oldest, ro.idx, ro.num, Parts)
  <2>1. ro' = [ro EXCEPT !.pc = "done"] /\ fwd' = fwd \o Repeat(Control("CAN", ro.idx))
    BY <1>4 DEF RemoteGivesUp
  <2>2. LineOK(fwd', Oldest, ro.idx, ro.num, Parts)
    BY <1>1, <1>2, <2>1, LineRepeat
  <2> QED  BY <1>1, <2>1, <2>2 DEF RoType
<1>5. ASSUME SendAgain
      PROVE  /\ ro' \in RoType /\ ro'.idx = ro.idx /\ ro'.num = ro.num /\ ro'.size = ro.size
             /\ LineOK(fwd', Oldest, ro.idx, ro.num, Parts)
  <2> DEFINE left == ro.tries - 1
             r == [ro EXCEPT !.tries = left, !.can = FALSE]
  <2>1. r \in RoType /\ r.size = ro.size /\ r.idx = ro.idx /\ r.num = ro.num
    <3>1. left \in Int
      BY <1>1 DEF RoType
    <3> HIDE DEF left
    <3> QED  BY <1>1, <3>1 DEF RoType
  <2> HIDE DEF r
  <2>2. CASE ro.tries = 1
    BY <1>4, <1>5, <2>2 DEF SendAgain
  <2>3. CASE ro.tries # 1
    <3>1. Sends(r)
      BY <1>5, <2>3 DEF SendAgain, r
    <3> QED  BY <1>3, <2>1, <3>1
  <2> QED  BY <2>2, <2>3
<1>6. ASSUME NEW r \in RoType, Waits(r), r.size = ro.size, r.idx = ro.idx, r.num = ro.num
      PROVE  /\ ro' \in RoType /\ ro'.idx = ro.idx /\ ro'.num = ro.num /\ ro'.size = ro.size
             /\ LineOK(fwd', Oldest, ro.idx, ro.num, Parts)
  BY <1>2, <1>6 DEF Waits
<1>7. ASSUME NEW byte, Hears(byte)
      PROVE  /\ UNCHANGED <<rxVars, started, taken>>
             /\ back # <<>> /\ back' = Tail(back)
  BY <1>7 DEF Hears, RemoteVars
<1>8. CASE RemoteStart
  <2>1. PICK byte \in {"NAK", "C"} :
            /\ Hears(byte)
            /\ Sends([ro EXCEPT !.check = IF byte = "C" THEN "crc" ELSE "sum", !.can = FALSE])
    BY <1>8 DEF RemoteStart
  <2> DEFINE check == IF byte = "C" THEN "crc" ELSE "sum"
             r == [ro EXCEPT !.check = check, !.can = FALSE]
  <2>2. r \in RoType /\ r.size = ro.size /\ r.idx = ro.idx /\ r.num = ro.num
    <3>1. check \in {"sum", "crc"}
      OBVIOUS
    <3> HIDE DEF check
    <3> QED  BY <1>1, <3>1 DEF RoType
  <2>3. Sends(r)
    BY <2>1
  <2> HIDE DEF r
  <2> QED  BY <1>3, <1>7, <2>1, <2>2, <2>3, SenderStays
<1>9. CASE RemoteNak
  BY <1>5, <1>7, <1>9, SenderStays DEF RemoteNak
<1>10. CASE RemoteAck
  <2>1. Hears("ACK")
    BY <1>10 DEF RemoteAck
  <2> DEFINE wait == [ro EXCEPT !.can = FALSE]
             done == [ro EXCEPT !.pc = "done"]
  <2>2. CASE Waits(wait)
    <3>1. wait \in RoType /\ wait.size = ro.size /\ wait.idx = ro.idx /\ wait.num = ro.num
      BY <1>1 DEF RoType
    <3> HIDE DEF wait
    <3> QED  BY <1>6, <1>7, <2>1, <2>2, <3>1, SenderStays
  <2>3. CASE Waits(done)
    <3>1. done \in RoType /\ done.size = ro.size /\ done.idx = ro.idx /\ done.num = ro.num
      BY <1>1 DEF RoType
    <3> HIDE DEF done
    <3> QED  BY <1>6, <1>7, <2>1, <2>3, <3>1, SenderStays
  <2>4. /\ NextItem \in RoType /\ NextItem.size = ro.size /\ NextItem.idx = ro.idx + 1
        /\ NextItem.num = IF ro.idx <= Parts THEN NextNum(ro.num) ELSE 0
    <3> DEFINE num == IF ro.idx <= Parts THEN NextNum(ro.num) ELSE 0
    <3>1. NextNum(ro.num) \in Int /\ Tries \in Int /\ ro.idx + 1 \in Nat
      BY <1>1, NextNumType, RemoteAssumption DEF RoType
    <3>2. num \in Int
      BY <3>1
    <3>3. NextItem = [ro EXCEPT !.idx = ro.idx + 1, !.tries = Tries, !.can = FALSE, !.num = num]
      BY <1>1 DEF NextItem, RoType
    <3> HIDE DEF num
    <3>4. /\ NextItem \in RoType /\ NextItem.size = ro.size /\ NextItem.idx = ro.idx + 1
          /\ NextItem.num = num
      BY <1>1, <3>1, <3>2, <3>3 DEF RoType
    <3> QED  BY <3>4 DEF num
  <2>5. LineOK(fwd, Oldest, NextItem.idx, NextItem.num, Parts)
    <3>1. Over \/ ro.idx = taken
      <4>1. ~NoAck
        <5>1. back \in Seq(Bytes) /\ back # <<>> /\ Head(back) = "ACK"
          BY <2>1 DEF IInv, TypeOK, Hears
        <5>2. 1 \in 1..Len(back) /\ back[1] = "ACK"
          BY <5>1, TailType
        <5> QED  BY <5>2 DEF NoAck
      <4> QED  BY <4>1 DEF IInv, SenderInv
    <3>2. Oldest > Parts \/ (Oldest = ro.idx /\ NextItem.num = NextNum(ro.num))
      BY <1>1, <2>4, <3>1 DEF Oldest, Over
    <3>3. LineOK(fwd, Oldest, ro.idx + 1, NextItem.num, Parts)
      BY <1>1, <1>2, <3>2, LineAdvance
    <3> QED  BY <2>4, <3>3
  <2>6. CASE Waits([NextItem EXCEPT !.pc = "ready"])
    <3>1. /\ ro' \in RoType /\ ro'.size = ro.size /\ ro'.idx = NextItem.idx
          /\ ro'.num = NextItem.num /\ fwd' = fwd
      BY <2>4, <2>6 DEF Waits, RoType
    <3> QED  BY <1>7, <2>1, <2>4, <2>5, <3>1, SenderAdvances
  <2>7. CASE Sends(NextItem)
    <3>1. /\ ro' \in RoType /\ ro'.size = ro.size /\ ro'.idx = NextItem.idx
          /\ ro'.num = NextItem.num /\ fwd' = Append(fwd, Item(NextItem))
      BY <2>4, <2>7 DEF Sends, RoType
    <3>2. ItemOK(Item(NextItem), NextItem.idx, NextItem.idx, NextItem.num, Parts)
      <4>1. NextItem.idx # 0
        BY <1>1, <2>4
      <4> QED  BY <1>1, <2>4, <4>1, ItemFits
    <3>3. Oldest <= NextItem.idx /\ NextItem.idx \in Int
      BY <1>1, <2>4
    <3>4. LineOK(fwd', Oldest, NextItem.idx, NextItem.num, Parts)
      BY <1>1, <2>5, <3>1, <3>2, <3>3, LineAppend
    <3> QED  BY <1>7, <2>1, <2>4, <3>1, <3>4, SenderAdvances
  <2> QED  BY <1>10, <2>2, <2>3, <2>6, <2>7 DEF RemoteAck
<1>11. CASE RemoteCan
  <2> DEFINE r == IF ro.can THEN [ro EXCEPT !.pc = "done"] ELSE [ro EXCEPT !.can = TRUE]
  <2>1. r \in RoType /\ r.size = ro.size /\ r.idx = ro.idx /\ r.num = ro.num
    BY <1>1 DEF RoType
  <2>2. Hears("CAN") /\ Waits(r)
    BY <1>11 DEF RemoteCan
  <2> HIDE DEF r
  <2> QED  BY <1>6, <1>7, <2>1, <2>2, SenderStays
<1>12. CASE RemoteNoise
  <2> DEFINE r == [ro EXCEPT !.can = FALSE]
  <2>1. r \in RoType /\ r.size = ro.size /\ r.idx = ro.idx /\ r.num = ro.num
    BY <1>1 DEF RoType
  <2>2. Hears("noise") /\ Waits(r)
    BY <1>12 DEF RemoteNoise
  <2> HIDE DEF r
  <2> QED  BY <1>6, <1>7, <2>1, <2>2, SenderStays
<1>13. CASE RemoteTimeout
  <2>1. UNCHANGED <<rxVars, started, taken>> /\ UNCHANGED back
    BY <1>13 DEF RemoteTimeout, RemoteVars
  <2>2. SendAgain \/ RemoteGivesUp
    BY <1>13 DEF RemoteTimeout
  <2> QED  BY <1>4, <1>5, <2>1, <2>2, SenderStays
<1> QED  BY <1>8, <1>9, <1>10, <1>11, <1>12, <1>13 DEF Remote

----------------------------------------------------------------------------
(* Steps of the receiver that take nothing *)

\* What the program does when it refuses something or gives up.
LEMMA RxMoves ==
    ASSUME NEW r \in RxType
    PROVE  /\ SendNak(r) \in RxType /\ SendNak(r).pc \in {"purge", "cancel"}
           /\ SendNak(r).blk = r.blk /\ SendNak(r).open = r.open /\ SendNak(r).ymodem = r.ymodem
           /\ SendNaks(r) \in RxType /\ SendNaks(r).pc = "purge"
           /\ SendNaks(r).blk = r.blk /\ SendNaks(r).open = r.open /\ SendNaks(r).ymodem = r.ymodem
           /\ MainMenu(r) \in RxType /\ MainMenu(r).pc = "menu" /\ ~MainMenu(r).open
           /\ GiveUp(r) \in RxType /\ GiveUp(r).pc = "cancel"
<1>1. \A x \in RxType : /\ SendNak(x) \in RxType
                        /\ SendNak(x).pc = IF x.retries = 1 THEN "cancel" ELSE "purge"
                        /\ SendNak(x).blk = x.blk /\ SendNak(x).open = x.open
                        /\ SendNak(x).ymodem = x.ymodem
  <2> SUFFICES ASSUME NEW x \in RxType
               PROVE  /\ SendNak(x) \in RxType
                      /\ SendNak(x).pc = IF x.retries = 1 THEN "cancel" ELSE "purge"
                      /\ SendNak(x).blk = x.blk /\ SendNak(x).open = x.open
                      /\ SendNak(x).ymodem = x.ymodem
    OBVIOUS
  <2> DEFINE left == x.retries - 1
             pc == IF x.retries = 1 THEN "cancel" ELSE "purge"
  <2>1. left \in Int /\ pc \in RxPcs
    BY DEF RxType, RxPcs
  <2>2. SendNak(x) = [x EXCEPT !.retries = left, !.pc = pc]
    BY DEF SendNak, RxType
  <2> HIDE DEF left, pc
  <2>3. SendNak(x) \in RxType /\ SendNak(x).pc = pc /\ SendNak(x).blk = x.blk
        /\ SendNak(x).open = x.open /\ SendNak(x).ymodem = x.ymodem
    BY <2>1, <2>2 DEF RxType
  <2> QED  BY <2>3 DEF pc
<1>2. Retries \in Int /\ Retries # 1
  BY ReceiveAssumption
<1> DEFINE s == [r EXCEPT !.retries = Retries]
<1>3. s \in RxType /\ s.retries = Retries /\ s.blk = r.blk /\ s.open = r.open
      /\ s.ymodem = r.ymodem
  BY <1>2 DEF RxType
<1>4. SendNaks(r) = SendNak(s)
  BY DEF SendNaks
<1> HIDE DEF s
<1>5. MainMenu(r) \in RxType /\ MainMenu(r).pc = "menu" /\ ~MainMenu(r).open
  BY DEF MainMenu, RxType, RxPcs
<1>6. GiveUp(r) \in RxType /\ GiveUp(r).pc = "cancel"
  BY DEF GiveUp, RxType, RxPcs
<1> QED  BY <1>1, <1>2, <1>3, <1>4, <1>5, <1>6

\* Bytes other than ACK may follow those in back.
LEMMA OtherBytes ==
    ASSUME Len(back) \in Nat, Len(back') \in Nat,
           \A k \in 1..Len(back') : k <= Len(back) => back'[k] = back[k],
           \A k \in 1..Len(back') : ~(k <= Len(back)) => back'[k] # "ACK"
    PROVE  /\ NoAck => NoAck'
           /\ (\A j, k \in 1..Len(back) : back[j] = "ACK" /\ back[k] = "ACK" => j = k) =>
                 \A j, k \in 1..Len(back') : back'[j] = "ACK" /\ back'[k] = "ACK" => j = k
<1>1. \A k \in 1..Len(back') : back'[k] = "ACK" => k \in 1..Len(back) /\ back[k] = "ACK"
  OBVIOUS
<1> QED  BY <1>1 DEF NoAck

LEMMA ReceiverStays ==
    ASSUME IInv, started, UNCHANGED <<saved, ro, started, taken>>,
           rx' \in RxType, file' \in Seq(Pieces), back' \in Seq(Bytes),
           \A k \in 1..Len(back') : k <= Len(back) => back'[k] = back[k],
           \A k \in 1..Len(back') : ~(k <= Len(back)) => back'[k] # "ACK",
           LineOK(fwd', Oldest, ro.idx, ro.num, Parts),
           Working' => Working /\ rx'.blk = rx.blk /\ rx'.open = rx.open /\ file' = file,
           InOrder'
    PROVE  IInv'
<1>1. ro' = ro /\ saved' = saved /\ started' = started /\ taken' = taken
  OBVIOUS
<1>2. Parts' = Parts /\ Over' = Over /\ Oldest' = Oldest
  BY <1>1 DEF Parts, Over, Oldest
<1>3. TypeOK'
  BY <1>1 DEF IInv, TypeOK
<1>4. LineInv'
  BY <1>1, <1>2 DEF LineInv
<1>5. SenderInv'
  <2>1. Len(back) \in Nat /\ Len(back') \in Nat
    BY DEF IInv, TypeOK
  <2>2. /\ NoAck => NoAck'
        /\ (\A j, k \in 1..Len(back) : back[j] = "ACK" /\ back[k] = "ACK" => j = k) =>
              \A j, k \in 1..Len(back') : back'[j] = "ACK" /\ back'[k] = "ACK" => j = k
    BY <2>1, OtherBytes
  <2> QED  BY <1>1, <1>2, <2>2 DEF IInv, SenderInv
<1>6. ReceiverInv'
  BY <1>1, <1>2 DEF IInv, ReceiverInv
<1>7. BeforeStart'
  BY <1>1 DEF BeforeStart
<1>8. SavedWhole'
  BY <1>1, <1>2 DEF IInv, SavedWhole
<1> QED  BY <1>3, <1>4, <1>5, <1>6, <1>7, <1>8 DEF IInv

\* What IInv says of the line and the program, for steps that read an item.
LEMMA ReadFacts ==
    ASSUME IInv
    PROVE  /\ rx \in RxType /\ file \in Seq(Pieces) /\ back \in Seq(Bytes) /\ fwd \in Seq(Items)
           /\ Oldest \in Int /\ ro.idx \in Int /\ Parts \in Nat /\ taken \in Int
           /\ LineOK(fwd, Oldest, ro.idx, ro.num, Parts)
           /\ fwd # <<>> => /\ ItemOK(Head(fwd), Oldest, ro.idx, ro.num, Parts)
                            /\ LineOK(Tail(fwd), Oldest, ro.idx, ro.num, Parts)
                            /\ LineOK(Tail(fwd), Head(fwd).data, ro.idx, ro.num, Parts)
           /\ rx.pc # "menu" => started
<1>1. /\ rx \in RxType /\ file \in Seq(Pieces) /\ back \in Seq(Bytes)
      /\ ro.idx \in Int /\ Parts \in Nat /\ taken \in Int
  BY PartsType DEF IInv, TypeOK, RoType
<1>2. Oldest \in Int
  BY <1>1 DEF Oldest
<1>3. LineOK(fwd, Oldest, ro.idx, ro.num, Parts) /\ fwd \in Seq(Items)
  BY DEF IInv, LineInv, LineOK
<1>4. rx.pc # "menu" => started
  BY DEF IInv, BeforeStart, TypeOK
<1> QED  BY <1>1, <1>2, <1>3, <1>4, LineTail

\* A step that reads an item at most, and sends nothing.
LEMMA ReceiverReads ==
    ASSUME IInv, rx.pc # "menu", UNCHANGED <<file, saved, back, ro, started, taken>>,
           rx' \in RxType,
           UNCHANGED fwd \/ (fwd # <<>> /\ fwd' = Tail(fwd)),
           Working' => Working /\ rx'.blk = rx.blk /\ rx'.open = rx.open
    PROVE  IInv'
<1>1. started /\ file' = file /\ back' = back /\ back \in Seq(Bytes) /\ file \in Seq(Pieces)
  BY ReadFacts
<1>2. LineOK(fwd', Oldest, ro.idx, ro.num, Parts)
  BY ReadFacts
<1>3. InOrder'
  BY <1>1 DEF IInv, InOrder
<1> QED  BY <1>1, <1>2, <1>3, ReceiverStays

LEMMA ReadSteps ==
    ASSUME IInv, RxReads \/ RxTimeout, UNCHANGED <<ro, started, taken>>
    PROVE  IInv'
<1>1. rx \in RxType
  BY ReadFacts
<1>2. /\ SendNak(rx) \in RxType /\ SendNak(rx).blk = rx.blk /\ SendNak(rx).open = rx.open
      /\ MainMenu(rx) \in RxType /\ MainMenu(rx).pc = "menu"
      /\ GiveUp(rx) \in RxType /\ GiveUp(rx).pc = "cancel"
  BY <1>1, RxMoves
<1>3. CASE PurgeByte
  <2>1. rx' = rx /\ Working' = Working
    BY <1>3 DEF PurgeByte, rxVars, Working
  <2> QED  BY <1>1, <1>3, <2>1, ReceiverReads DEF PurgeByte, rxVars
<1>4. CASE RefuseBlock \/ RefuseNoise
  <2>1. /\ rx.pc = "block" /\ fwd # <<>> /\ fwd' = Tail(fwd) /\ rx' = SendNak(rx)
        /\ UNCHANGED <<file, saved, back>>
    BY <1>4 DEF RefuseBlock, RefuseNoise, Reads
  <2>2. Working
    BY <2>1 DEF Working
  <2> QED  BY <1>2, <2>1, <2>2, ReceiverReads
<1>5. CASE OutOfSync
  <2>1. /\ rx.pc = "block" /\ fwd # <<>> /\ fwd' = Tail(fwd) /\ rx' = GiveUp(rx)
        /\ UNCHANGED <<file, saved, back>>
    BY <1>5 DEF OutOfSync, Reads
  <2>2. ~Working'
    BY <1>2, <2>1 DEF Working
  <2> QED  BY <1>2, <2>1, <2>2, ReceiverReads
<1>6. CASE LoseCrcByte
  <2> DEFINE nest == rx.nest + 1
  <2>1. /\ rx.pc = "block" /\ fwd # <<>> /\ fwd' = Tail(fwd)
        /\ rx' = [rx EXCEPT !.pc = "menu", !.nest = nest]
        /\ UNCHANGED <<file, saved, back>>
    BY <1>1, <1>6 DEF LoseCrcByte, Reads, RxType
  <2>2. nest \in Int
    BY <1>1 DEF RxType
  <2> HIDE DEF nest
  <2>3. rx' \in RxType /\ ~Working'
    BY <1>1, <2>1, <2>2 DEF Working, RxType, RxPcs
  <2> QED  BY <2>1, <2>3, ReceiverReads
<1>7. CASE TakeCan
  <2>1. /\ rx.pc = "block" /\ fwd # <<>> /\ fwd' = Tail(fwd) /\ rx' = [rx EXCEPT !.pc = "can"]
        /\ UNCHANGED <<file, saved, back>>
    BY <1>7 DEF TakeCan, Reads
  <2>2. rx' \in RxType /\ Working /\ rx'.blk = rx.blk /\ rx'.open = rx.open
    BY <1>1, <2>1 DEF Working, RxType, RxPcs
  <2> QED  BY <2>1, <2>2, ReceiverReads
<1>8. CASE SecondByte
  <2>1. /\ rx.pc = "can" /\ fwd # <<>> /\ fwd' = Tail(fwd)
        /\ rx' = MainMenu(rx) \/ rx' = SendNak(rx)
        /\ UNCHANGED <<file, saved, back>>
    BY <1>8 DEF SecondByte
  <2>2. Working /\ (rx' = MainMenu(rx) => ~Working')
    BY <1>2, <2>1 DEF Working
  <2> QED  BY <1>2, <2>1, <2>2, ReceiverReads
<1>9. CASE RxTimeout
  <2>1. Working
    BY <1>9 DEF RxTimeout, Working
  <2>2. rx.pc # "menu"
    BY <1>9 DEF RxTimeout
  <2> QED  BY <1>2, <1>9, <2>1, <2>2, ReceiverReads DEF RxTimeout, line
<1> QED  BY <1>3, <1>4, <1>5, <1>6, <1>7, <1>8, <1>9 DEF RxReads

\* What goes out when the line is silent.
LEMMA SilentSteps ==
    ASSUME IInv, NEW sent \in BOOLEAN, TransmitNak(sent) \/ TransmitCans(sent),
           UNCHANGED <<ro, started, taken>>
    PROVE  IInv'
<1>1. /\ rx \in RxType /\ back \in Seq(Bytes) /\ file \in Seq(Pieces) /\ rx.pc # "menu"
      /\ LineOK(fwd', Oldest, ro.idx, ro.num, Parts)
  BY ReadFacts DEF TransmitNak, TransmitCans
<1>2. file' = file /\ saved' = saved /\ started
  BY <1>1, ReadFacts DEF TransmitNak, TransmitCans
<1>3. rx' \in RxType /\ (Working' => Working /\ rx'.blk = rx.blk /\ rx'.open = rx.open)
  <2>1. CASE TransmitNak(sent)
    <3>1. CASE sent
      <4>1. rx' = [rx EXCEPT !.pc = "block"] /\ rx.pc = "purge"
        BY <2>1, <3>1 DEF TransmitNak
      <4> QED  BY <1>1, <4>1 DEF RxType, RxPcs, Working
    <3>2. CASE ~sent
      <4>1. rx' = GiveUp(rx)
        BY <2>1, <3>2 DEF TransmitNak
      <4> QED  BY <1>1, <4>1, RxMoves DEF Working
    <3> QED  BY <3>1, <3>2
  <2>2. CASE TransmitCans(sent)
    <3>1. rx' = MainMenu(rx)
      BY <2>2 DEF TransmitCans
    <3> QED  BY <1>1, <3>1, RxMoves DEF Working
  <2> QED  BY <2>1, <2>2
<1>4. /\ back' \in Seq(Bytes)
      /\ \A k \in 1..Len(back') : k <= Len(back) => back'[k] = back[k]
      /\ \A k \in 1..Len(back') : ~(k <= Len(back)) => back'[k] # "ACK"
  <2>1. CASE back' = back
    BY <1>1, <2>1
  <2>2. CASE back' = Append(back, "C") \/ back' = Append(back, "NAK")
    <3>1. PICK b \in {"C", "NAK"} : back' = Append(back, b)
      BY <2>2
    <3>2. b \in Bytes /\ b # "ACK"
      BY DEF Bytes
    <3> QED  BY <1>1, <3>1, <3>2
  <2>3. CASE back' = back \o Repeat("CAN")
    <3> DEFINE r == Repeat("CAN")
    <3>1. Cans \in Nat /\ "CAN" \in Bytes
      BY LineAssumption DEF Bytes
    <3>2. r \in Seq(Bytes) /\ Len(r) = Cans /\ \A k \in 1..Cans : r[k] = "CAN"
      BY <3>1 DEF Repeat
    <3> HIDE DEF r
    <3>3. /\ back \o r \in Seq(Bytes) /\ Len(back \o r) = Len(back) + Cans
          /\ \A k \in 1..(Len(back) + Cans) :
                (back \o r)[k] = IF k <= Len(back) THEN back[k] ELSE r[k - Len(back)]
      BY <1>1, <3>1, <3>2
    <3>4. \A k \in 1..(Len(back) + Cans) : ~(k <= Len(back)) => k - Len(back) \in 1..Cans
      BY <1>1, <3>1
    <3>5. back' = back \o r
      BY <2>3 DEF r
    <3> QED  BY <3>2, <3>3, <3>4, <3>5
  <2>4. back' = back \/ back' = Append(back, "C") \/ back' = Append(back, "NAK")
        \/ back' = back \o Repeat("CAN")
    BY DEF TransmitNak, TransmitCans
  <2> QED  BY <2>1, <2>2, <2>3, <2>4
<1>5. InOrder'
  BY <1>2 DEF IInv, InOrder
<1> QED  BY <1>1, <1>2, <1>3, <1>4, <1>5, ReceiverStays

\* A key in the menu, other than R.
LEMMA MenuSteps == IInv /\ Menu => IInv'
<1> SUFFICES ASSUME IInv, Menu PROVE IInv'
  OBVIOUS
<1>1. /\ rx \in RxType /\ back \in Seq(Bytes) /\ file \in Seq(Pieces)
      /\ LineOK(fwd, Oldest, ro.idx, ro.num, Parts)
  BY ReadFacts
<1>2. started /\ UNCHANGED <<file, saved, fwd, back, ro, started, taken>>
  BY DEF Menu, KeyOther, KeyShiftEnter, line
<1>3. rx' \in RxType /\ rx'.pc \in {"menu", "closed"}
  <2>1. MainMenu(rx) \in RxType /\ MainMenu(rx).pc = "menu"
    BY <1>1, RxMoves
  <2>2. [MainMenu(rx) EXCEPT !.pc = "closed"] \in RxType
    BY <2>1 DEF RxType, RxPcs
  <2>3. [MainMenu(rx) EXCEPT !.nest = @ - 1] \in RxType
    <3> DEFINE nest == MainMenu(rx).nest - 1
    <3>1. nest \in Int
      BY <2>1 DEF RxType
    <3> HIDE DEF nest
    <3>2. [MainMenu(rx) EXCEPT !.nest = nest] \in RxType
      BY <2>1, <3>1 DEF RxType
    <3> QED  BY <3>2 DEF nest
  <2>4. \/ rx' = MainMenu(rx)
        \/ rx' = [MainMenu(rx) EXCEPT !.pc = "closed"]
        \/ rx' = [MainMenu(rx) EXCEPT !.nest = @ - 1]
    BY DEF Menu, KeyOther, KeyShiftEnter
  <2>5. [MainMenu(rx) EXCEPT !.pc = "closed"].pc = "closed"
        /\ [MainMenu(rx) EXCEPT !.nest = @ - 1].pc = "menu"
    BY <2>1 DEF RxType
  <2> QED  BY <2>1, <2>2, <2>3, <2>4, <2>5
<1>4. ~Working'
  BY <1>3 DEF Working
<1>5. InOrder'
  BY <1>2 DEF IInv, InOrder
<1> QED  BY <1>1, <1>2, <1>3, <1>4, <1>5, ReceiverStays

----------------------------------------------------------------------------
(* Steps of the receiver that take something *)

\* The block that the program takes is the one after the last it took: with that one's
\* number it would not have been taken.
LEMMA BlockIsNext ==
    ASSUME IInv, rx.pc = "block", rx.open, fwd # <<>>, Head(fwd).kind = "block",
           Head(fwd).num = rx.blk
    PROVE  /\ ~Over /\ ro.idx = taken + 1 /\ rx.blk = ro.num
           /\ Head(fwd).data = taken + 1 /\ taken + 1 <= Parts /\ Len(file) = taken
<1> DEFINE m == Head(fwd)
<1>1. /\ ItemOK(m, Oldest, ro.idx, ro.num, Parts)
      /\ ro.idx \in Int /\ Parts \in Nat /\ taken \in Int
  BY ReadFacts
<1>2. ~Over /\ Len(file) = taken /\ rx.blk = IF ro.idx = taken THEN NextNum(ro.num) ELSE ro.num
  BY DEF IInv, ReceiverInv, Working
<1>3. taken <= Parts /\ Oldest = taken /\ (ro.idx = taken \/ ro.idx = taken + 1)
  BY <1>1, <1>2 DEF Over, Oldest, IInv, SenderInv
<1>4. m \in Items /\ ro \in RoType /\ rx \in RxType
  BY <1>1 DEF ItemOK, IInv, TypeOK
<1>5. m.data \in Int /\ m.num \in Int /\ ro.num \in Int /\ m.kind = "block" /\ m.num = rx.blk
  BY <1>4 DEF Items, Blocks, Controls, RoType
<1> HIDE DEF m
<1>6. taken <= m.data /\ m.data <= ro.idx
  BY <1>1, <1>3 DEF ItemOK
<1>7. m.data <= Parts
  BY <1>1, <1>3, <1>5, <1>6 DEF ItemOK
<1>8. (m.data = ro.idx /\ m.num = ro.num) \/ (m.data # ro.idx /\ NextNum(m.num) = ro.num)
  BY <1>1, <1>5, <1>7 DEF ItemOK
<1>9. ro.idx # taken
  <2> SUFFICES ASSUME ro.idx = taken PROVE FALSE
    OBVIOUS
  <2>1. m.num = ro.num /\ m.num = NextNum(ro.num)
    BY <1>2, <1>5, <1>6, <1>8
  <2> QED  BY <1>5, <2>1, NextNumType
<1>10. ro.idx = taken + 1 /\ rx.blk = ro.num
  BY <1>2, <1>3, <1>9
<1>11. m.data = ro.idx
  <2> SUFFICES ASSUME m.data # ro.idx PROVE FALSE
    OBVIOUS
  <2>1. NextNum(m.num) = m.num
    BY <1>5, <1>8, <1>10
  <2> QED  BY <1>5, <2>1, NextNumType
<1> QED  BY <1>2, <1>7, <1>10, <1>11 DEF m

\* The blocks that are left, and the bytes that are kept.
LEMMA KeptType ==
    ASSUME NEW m \in Blocks, rx \in RxType
    PROVE  Left(m) \in Int /\ Kept(m) \in Int
<1>1. rx.blocks \in Int /\ rx.bytes \in Int /\ Short \in Nat /\ Ratio \in Nat
  BY LineAssumption DEF RxType
<1>2. Units(m.long) \in Nat
  BY <1>1 DEF Units
<1>3. Width(m.long) \in Int /\ Left(m) \in Int
  BY <1>1, <1>2 DEF Width, Left
<1>4. rx.blocks % 256 \in Int
  BY <1>1
<1>5. (rx.blocks % 256) * Short \in Int
  BY <1>1, <1>4
<1> QED  BY <1>1, <1>3, <1>5 DEF Kept

\* A block is written, in its place, or not.
LEMMA BlockTypes ==
    ASSUME IInv, NEW sent \in BOOLEAN, NEW room \in BOOLEAN, TakeBlock(sent, room)
    PROVE  /\ rx.pc = "block" /\ rx.open /\ fwd # <<>> /\ fwd' = Tail(fwd) /\ saved' = saved
           /\ Head(fwd).kind = "block" /\ Head(fwd).num = rx.blk
           /\ file' \in Seq(Pieces) /\ InOrder' /\ rx' \in RxType
           /\ ~(sent /\ room) => rx'.pc = "cancel" /\ back' = back
           /\ sent /\ room => /\ Len(file') = Len(file) + 1
                              /\ rx'.pc = "block" /\ rx'.open /\ rx'.blk = NextNum(rx.blk)
                              /\ back' = Append(back, "ACK")
<1> DEFINE m == Head(fwd)
           blocks == IF Left(m) >= 0 THEN Left(m) ELSE Kept(m)
           piece == [data |-> m.data, keep |-> Kept(m)]
<1>1. /\ rx.pc = "block" /\ rx.open /\ fwd # <<>> /\ fwd' = Tail(fwd) /\ saved' = saved
      /\ m.kind = "block" /\ m.num = rx.blk
  BY DEF TakeBlock, Reads, Good, IsNext
<1>2. rx \in RxType /\ file \in Seq(Pieces) /\ m \in Items
  BY <1>1, ReadFacts DEF ItemOK
<1>3. m \in Blocks
  BY <1>1, <1>2 DEF Items, Controls
<1>4. m.data \in Int /\ m.data = Len(file) + 1
  BY <1>1, <1>3, BlockIsNext DEF Blocks
<1>5. blocks \in Int /\ piece \in Pieces
  BY <1>2, <1>3, <1>4, KeptType DEF Pieces
<1>6. file' = IF room THEN Append(file, piece) ELSE file
  BY DEF TakeBlock
<1>7. rx' = IF ~(room /\ sent) THEN GiveUp([rx EXCEPT !.blocks = blocks])
            ELSE [rx EXCEPT !.blocks = blocks, !.blk = NextNum(@), !.retries = Retries]
  BY DEF TakeBlock
<1>8. back' = IF room /\ sent THEN Append(back, "ACK") ELSE back
  BY DEF TakeBlock
<1>9. piece.data = Len(file) + 1
  BY <1>4
<1> HIDE DEF m, blocks, piece
<1>10. file' \in Seq(Pieces) /\ (room => Len(file') = Len(file) + 1)
  BY <1>2, <1>5, <1>6
<1>11. InOrder'
  <2>1. CASE room
    <3>1. \A k \in 1..Len(file) : file[k].data = k
      BY <1>2 DEF IInv, InOrder
    <3>2. \A k \in 1..(Len(file) + 1) : file'[k] = IF k = Len(file) + 1 THEN piece ELSE file[k]
      BY <1>2, <1>6, <2>1
    <3>3. \A k \in 1..(Len(file) + 1) : file'[k].data = k
      BY <1>2, <1>9, <3>1, <3>2
    <3>4. DOMAIN file' = 1..(Len(file) + 1)
      BY <1>10, <2>1
    <3> QED  BY <3>3, <3>4 DEF InOrder
  <2>2. CASE ~room
    BY <1>6, <2>2 DEF IInv, InOrder
  <2> QED  BY <2>1, <2>2
<1>12. CASE sent /\ room
  <2>1. NextNum(rx.blk) \in Int /\ Retries \in Int
    BY <1>2, NextNumType, ReceiveAssumption DEF RxType
  <2>2. rx' = [rx EXCEPT !.blocks = blocks, !.blk = NextNum(rx.blk), !.retries = Retries]
    BY <1>2, <1>7, <1>12 DEF RxType
  <2>3. rx' \in RxType /\ rx'.pc = "block" /\ rx'.open /\ rx'.blk = NextNum(rx.blk)
    BY <1>1, <1>2, <1>5, <2>1, <2>2 DEF RxType
  <2> QED  BY <1>1, <1>8, <1>10, <1>11, <1>12, <2>3 DEF m
<1>13. CASE ~(sent /\ room)
  <2>1. [rx EXCEPT !.blocks = blocks] \in RxType
    BY <1>2, <1>5 DEF RxType
  <2>2. rx' \in RxType /\ rx'.pc = "cancel"
    BY <1>7, <1>13, <2>1, RxMoves
  <2> QED  BY <1>1, <1>8, <1>10, <1>11, <1>13, <2>2 DEF m
<1> QED  BY <1>12, <1>13

\* At most one ACK in back, after one is sent where there was none.
LEMMA OneAck ==
    ASSUME back \in Seq(Bytes), back' = Append(back, "ACK")
    PROVE  /\ back' \in Seq(Bytes)
           /\ NoAck => \A j, k \in 1..Len(back') : back'[j] = "ACK" /\ back'[k] = "ACK" => j = k
<1>1. "ACK" \in Bytes
  BY DEF Bytes
<1>2. back' \in Seq(Bytes) /\ Len(back') = Len(back) + 1 /\ Len(back) \in Nat
      /\ \A k \in 1..(Len(back) + 1) : back'[k] = IF k = Len(back) + 1 THEN "ACK" ELSE back[k]
  BY <1>1
<1>3. ASSUME NoAck, NEW k \in 1..Len(back'), back'[k] = "ACK" PROVE k = Len(back) + 1
  <2> SUFFICES ASSUME k # Len(back) + 1 PROVE FALSE
    OBVIOUS
  <2>1. k \in 1..Len(back) /\ back[k] = "ACK"
    BY <1>2, <1>3
  <2> QED  BY <1>3, <2>1 DEF NoAck
<1> QED  BY <1>2, <1>3

LEMMA TakeBlockStep ==
    ASSUME IInv, TakeBlock(TRUE, TRUE), taken' = Head(fwd).data, UNCHANGED <<ro, started>>
    PROVE  IInv'
<1>1. /\ rx.pc = "block" /\ rx.open /\ fwd # <<>> /\ fwd' = Tail(fwd) /\ saved' = saved
      /\ Head(fwd).kind = "block" /\ Head(fwd).num = rx.blk
      /\ file' \in Seq(Pieces) /\ InOrder' /\ rx' \in RxType
      /\ Len(file') = Len(file) + 1
      /\ rx'.pc = "block" /\ rx'.open /\ rx'.blk = NextNum(rx.blk)
      /\ back' = Append(back, "ACK")
  BY BlockTypes
<1>2. /\ ~Over /\ ro.idx = taken + 1 /\ rx.blk = ro.num
      /\ taken' = taken + 1 /\ taken + 1 <= Parts /\ Len(file) = taken
  BY <1>1, BlockIsNext
<1>3. /\ back \in Seq(Bytes) /\ ro.idx \in Int /\ Parts \in Nat /\ taken \in Int /\ started
      /\ LineOK(fwd', taken', ro.idx, ro.num, Parts)
  BY <1>1, ReadFacts
<1>4. Parts' = Parts /\ ~Over' /\ Oldest' = taken'
  BY <1>2, <1>3 DEF Parts, Over, Oldest
<1>5. NoAck /\ saved = <<>>
  BY <1>2, <1>3 DEF IInv, SenderInv
<1>6. TypeOK'
  BY <1>1, <1>2, <1>3, OneAck DEF IInv, TypeOK
<1>7. LineInv'
  BY <1>3, <1>4 DEF LineInv
<1>8. SenderInv'
  BY <1>1, <1>2, <1>3, <1>4, <1>5, OneAck DEF IInv, SenderInv
<1>9. ReceiverInv'
  BY <1>1, <1>2, <1>4 DEF ReceiverInv
<1>10. BeforeStart'
  BY <1>3 DEF BeforeStart
<1>11. SavedWhole'
  BY <1>1, <1>5 DEF SavedWhole
<1> QED  BY <1>1, <1>6, <1>7, <1>8, <1>9, <1>10, <1>11 DEF IInv

\* The end of a file.
LEMMA ReceiveYmodemMoves ==
    ASSUME NEW r \in RxType
    PROVE  /\ ReceiveYmodem(r) \in RxType /\ ReceiveYmodem(r).pc = "purge"
           /\ ReceiveYmodem(r).open = r.open /\ ReceiveYmodem(r).blk = 0
<1> DEFINE x == [r EXCEPT !.blk = 0]
<1>1. x \in RxType /\ x.open = r.open /\ x.blk = 0
  BY DEF RxType
<1>2. ReceiveYmodem(r) = SendNaks(x)
  BY DEF ReceiveYmodem
<1> HIDE DEF x
<1> QED  BY <1>1, <1>2, RxMoves

LEMMA TakeEotStep ==
    ASSUME IInv, TakeEot(TRUE), taken' = Head(fwd).data, UNCHANGED <<ro, started>>
    PROVE  IInv'
<1>1. /\ rx.pc = "block" /\ fwd # <<>> /\ fwd' = Tail(fwd) /\ Head(fwd).kind = "EOT"
      /\ file' = file /\ back' = Append(back, "ACK")
      /\ saved' = IF rx.open THEN Append(saved, file) ELSE saved
      /\ rx' = IF rx.ymodem THEN ReceiveYmodem([rx EXCEPT !.open = FALSE]) ELSE MainMenu(rx)
  BY DEF TakeEot, Reads
<1>2. /\ rx \in RxType /\ file \in Seq(Pieces) /\ back \in Seq(Bytes) /\ started
      /\ ro.idx \in Int /\ Parts \in Nat /\ taken \in Int
      /\ ItemOK(Head(fwd), Oldest, ro.idx, ro.num, Parts)
      /\ LineOK(fwd', Oldest, ro.idx, ro.num, Parts)
      /\ LineOK(fwd', taken', ro.idx, ro.num, Parts)
  BY <1>1, ReadFacts
<1>3. taken' = Parts + 1 /\ Oldest <= Parts + 1 /\ Parts + 1 <= ro.idx
  BY <1>1, <1>2 DEF ItemOK
<1>4. Parts' = Parts /\ Over' /\ Oldest' = Parts + 1
  BY <1>2, <1>3 DEF Parts, Over, Oldest
<1>5. rx' \in RxType /\ ~rx'.open
  <2>1. CASE rx.ymodem
    <3> DEFINE r == [rx EXCEPT !.open = FALSE]
    <3>1. r \in RxType /\ ~r.open
      BY <1>2 DEF RxType
    <3>2. rx' = ReceiveYmodem(r)
      BY <1>1, <2>1
    <3> HIDE DEF r
    <3> QED  BY <3>1, <3>2, ReceiveYmodemMoves
  <2>2. CASE ~rx.ymodem
    BY <1>1, <1>2, <2>2, RxMoves
  <2> QED  BY <2>1, <2>2
<1>6. saved' \in Seq(Seq(Pieces)) /\ SavedWhole'
  <2>1. CASE rx.open
    <3>1. ~Over /\ Len(file) = taken /\ saved = <<>>
      BY <1>1, <2>1 DEF IInv, ReceiverInv, SenderInv, Working
    <3>2. taken = Parts
      <4>1. ro.idx <= taken + 1
        BY <1>2, <3>1 DEF IInv, SenderInv
      <4> QED  BY <1>2, <1>3, <3>1, <4>1 DEF Over
    <3>3. saved' = <<file>>
      BY <1>1, <2>1, <3>1
    <3>4. \A k \in DOMAIN file : file[k].data = k
      BY DEF IInv, InOrder
    <3> QED  BY <1>2, <1>4, <3>1, <3>2, <3>3, <3>4 DEF SavedWhole
  <2>2. CASE ~rx.open
    BY <1>1, <1>4, <2>2 DEF IInv, TypeOK, SavedWhole
  <2> QED  BY <2>1, <2>2
<1>7. TypeOK'
  BY <1>1, <1>2, <1>3, <1>5, <1>6, OneAck DEF IInv, TypeOK
<1>8. LineInv'
  BY <1>2, <1>3, <1>4 DEF LineInv
<1>9. SenderInv'
  BY <1>2, <1>3, <1>4 DEF IInv, SenderInv
<1>10. ReceiverInv'
  BY <1>4, <1>5 DEF ReceiverInv
<1>11. BeforeStart'
  BY <1>2 DEF BeforeStart
<1>12. InOrder'
  BY <1>1 DEF IInv, InOrder
<1> QED  BY <1>6, <1>7, <1>8, <1>9, <1>10, <1>11, <1>12 DEF IInv

\* The name of a file is known.
LEMMA ReceiveFileMoves ==
    ASSUME NEW r \in RxType, NEW blocks \in Int, NEW bytes \in Int, NEW opens \in BOOLEAN
    PROVE  /\ ReceiveFile(r, blocks, bytes, opens) \in RxType
           /\ opens => /\ ReceiveFile(r, blocks, bytes, opens).pc = "purge"
                       /\ ReceiveFile(r, blocks, bytes, opens).open
                       /\ ReceiveFile(r, blocks, bytes, opens).blk = 1
           /\ ~opens => ReceiveFile(r, blocks, bytes, opens).pc = "cancel"
<1>1. CASE opens
  <2> DEFINE z == [r EXCEPT !.open = TRUE]
             y == [z EXCEPT !.blk = 1]
             x == [y EXCEPT !.blocks = blocks, !.bytes = bytes]
  <2>1. z \in RxType /\ z.open
    BY DEF RxType
  <2>2. ReceiveFile(r, blocks, bytes, opens) = SendNaks(x)
    BY <1>1 DEF ReceiveFile
  <2> HIDE DEF z
  <2>3. y \in RxType /\ y.open /\ y.blk = 1
    BY <2>1 DEF RxType
  <2> HIDE DEF y
  <2>4. x \in RxType /\ x.open /\ x.blk = 1
    BY <2>3 DEF RxType
  <2> HIDE DEF x
  <2>5. /\ SendNaks(x) \in RxType /\ SendNaks(x).pc = "purge"
        /\ SendNaks(x).blk = 1 /\ SendNaks(x).open
    BY <2>4, RxMoves
  <2> QED  BY <1>1, <2>2, <2>5
<1>2. CASE ~opens
  <2> DEFINE x == [r EXCEPT !.blocks = blocks, !.bytes = bytes]
  <2>1. x \in RxType
    BY DEF RxType
  <2>2. ReceiveFile(r, blocks, bytes, opens) = GiveUp(x)
    BY <1>2 DEF ReceiveFile
  <2> HIDE DEF x
  <2> QED  BY <1>2, <2>1, <2>2, RxMoves
<1> QED  BY <1>1, <1>2

\* A header opens a file only when nothing has been taken; after the file there are only
\* headers that end the batch.
LEMMA TakeHeaderStep ==
    ASSUME IInv, NEW opens \in BOOLEAN, TakeHeader(TRUE, opens), taken' = Head(fwd).data,
           UNCHANGED <<ro, started>>
    PROVE  IInv'
<1> DEFINE m == Head(fwd)
           head == m.head
<1>1. /\ rx.pc = "block" /\ ~rx.open /\ fwd # <<>> /\ fwd' = Tail(fwd) /\ m.kind = "block"
      /\ m.num = rx.blk /\ saved' = saved /\ back' = Append(back, "ACK")
      /\ rx' = IF head.is = "end" THEN MainMenu(rx)
               ELSE IF head.is = "file"
               THEN ReceiveFile(rx, head.size \div Short, head.size % Short, opens)
               ELSE ReceiveFile(rx, MaxBlocks, 0, opens)
      /\ file' = IF opens /\ head.is # "end" THEN <<>> ELSE file
  BY DEF TakeHeader, Reads, Good, IsNext
<1>2. /\ rx \in RxType /\ file \in Seq(Pieces) /\ back \in Seq(Bytes) /\ started
      /\ ro.idx \in Int /\ Parts \in Nat /\ taken \in Int
      /\ ItemOK(m, Oldest, ro.idx, ro.num, Parts)
      /\ LineOK(fwd', Oldest, ro.idx, ro.num, Parts)
      /\ LineOK(fwd', taken', ro.idx, ro.num, Parts)
  BY <1>1, ReadFacts
<1>3. m \in Blocks
  BY <1>1, <1>2 DEF ItemOK, Items, Controls
<1>4. m.data \in Int /\ m.num \in Int /\ head \in Heads /\ taken' = m.data
  BY <1>3 DEF Blocks
<1>5. Parts' = Parts
  BY DEF Parts
<1>6. back' \in Seq(Bytes)
  BY <1>1, <1>2, OneAck
<1>7. file' \in Seq(Pieces)
  BY <1>1, <1>2
<1>8. InOrder' /\ SavedWhole'
  BY <1>1, <1>5 DEF IInv, InOrder, SavedWhole
<1>9. BeforeStart'
  BY <1>2 DEF BeforeStart
<1> HIDE DEF m
<1>10. CASE Over
  <2>1. Parts + 1 <= m.data /\ m.data <= ro.idx
    BY <1>2, <1>4, <1>10 DEF ItemOK, Oldest
  <2>2. head = EndHead
    BY <1>1, <1>2, <1>4, <2>1 DEF ItemOK
  <2>3. head.is = "end"
    BY <2>2 DEF EndHead
  <2>4. rx' = MainMenu(rx)
    BY <1>1, <2>3 DEF m
  <2>5. rx' \in RxType /\ rx'.pc = "menu"
    BY <1>2, <2>4, RxMoves
  <2>6. Over' /\ Oldest' = Oldest
    BY <1>2, <1>4, <1>5, <1>10, <2>1 DEF Over, Oldest
  <2>7. TypeOK'
    BY <1>1, <1>2, <1>4, <1>6, <1>7, <2>5 DEF IInv, TypeOK
  <2>8. LineInv' /\ SenderInv' /\ ReceiverInv'
    BY <1>2, <1>4, <1>5, <2>1, <2>5, <2>6 DEF IInv, LineInv, SenderInv, ReceiverInv, Working
  <2> QED  BY <1>8, <1>9, <2>7, <2>8 DEF IInv
<1>11. CASE ~Over
  <2>1. taken = -1 /\ rx.blk = IF ro.idx = taken THEN NextNum(ro.num) ELSE ro.num
    BY <1>1, <1>11 DEF IInv, ReceiverInv, Working
  <2>2. ro.idx = 0 /\ NoAck /\ ro.num = 0 /\ saved = <<>>
    <3>1. ro.idx = taken \/ (ro.idx = taken + 1 /\ NoAck)
      BY <1>11 DEF IInv, SenderInv
    <3>2. ro.idx \in Nat
      BY DEF IInv, TypeOK, RoType
    <3>3. ro.idx = 0 /\ NoAck
      BY <2>1, <3>1, <3>2
    <3> QED  BY <1>11, <3>3 DEF IInv, SenderInv
  <2>3. m.num = 0 /\ m.data <= 0
    BY <1>1, <1>2, <2>1, <2>2 DEF ItemOK, m
  <2>4. m.data = 0
    <3> SUFFICES ASSUME m.data # 0 PROVE FALSE
      OBVIOUS
    <3>1. NextNum(m.num) = 0
      BY <1>1, <1>2, <1>4, <2>2, <2>3 DEF ItemOK, m
    <3> QED  BY <1>4, <2>3, <3>1, NextNumType
  <2>5. ~Over' /\ Oldest' = 0 /\ taken' = 0
    BY <1>2, <1>4, <1>5, <2>4 DEF Over, Oldest
  <2>6. rx' \in RxType /\ (Working' => rx'.open /\ rx'.blk = 1 /\ file' = <<>>)
    <3>1. CASE head.is = "end"
      <4>1. rx' = MainMenu(rx)
        BY <1>1, <3>1 DEF m
      <4> QED  BY <1>2, <4>1, RxMoves DEF Working
    <3>2. CASE head.is = "file"
      <4>1. head.size \in Nat
        BY <1>4, <3>2 DEF Heads, NoHead, EndHead
      <4>2. head.size \div Short \in Int /\ head.size % Short \in Int
        BY <4>1, LineAssumption
      <4>3. rx' = ReceiveFile(rx, head.size \div Short, head.size % Short, opens)
        BY <1>1, <3>2 DEF m
      <4>4. opens => file' = <<>>
        BY <1>1, <3>2 DEF m
      <4> QED  BY <1>2, <4>2, <4>3, <4>4, ReceiveFileMoves DEF Working
    <3>3. CASE head.is # "end" /\ head.is # "file"
      <4>1. rx' = ReceiveFile(rx, MaxBlocks, 0, opens) /\ MaxBlocks \in Int
        BY <1>1, <3>3, ReceiveAssumption DEF m
      <4>2. opens => file' = <<>>
        BY <1>1, <3>3 DEF m
      <4> QED  BY <1>2, <4>1, <4>2, ReceiveFileMoves DEF Working
    <3> QED  BY <3>1, <3>2, <3>3
  <2>7. TypeOK'
    BY <1>1, <1>2, <1>4, <1>6, <1>7, <2>6 DEF IInv, TypeOK
  <2>8. LineInv'
    BY <1>2, <1>5, <2>5 DEF LineInv
  <2>9. SenderInv'
    BY <1>1, <1>2, <2>2, <2>5, OneAck DEF SenderInv
  <2>10. ReceiverInv'
    <3>1. NextNum(0) = 1
      BY LineAssumption DEF NextNum
    <3>2. Working' => rx'.open /\ rx'.blk = 1 /\ Len(file') = 0
      BY <2>6
    <3> QED  BY <2>2, <2>5, <3>1, <3>2 DEF ReceiverInv
  <2> QED  BY <1>8, <1>9, <2>7, <2>8, <2>9, <2>10 DEF IInv
<1> QED  BY <1>10, <1>11

\* A call fails after something was read.
LEMMA FailSteps ==
    ASSUME IInv, RxFails, UNCHANGED <<ro, started, taken>>
    PROVE  IInv'
<1>1. /\ rx \in RxType /\ back \in Seq(Bytes) /\ file \in Seq(Pieces)
      /\ GiveUp(rx) \in RxType /\ GiveUp(rx).pc = "cancel"
  BY ReadFacts, RxMoves
<1>2. CASE TakeHeader(FALSE, TRUE) \/ TakeEot(FALSE)
  <2>1. /\ rx.pc = "block" /\ fwd # <<>> /\ fwd' = Tail(fwd) /\ rx' = GiveUp(rx)
        /\ UNCHANGED <<file, saved, back>>
    BY <1>2 DEF TakeHeader, TakeEot, Reads
  <2>2. ~Working'
    BY <1>1, <2>1 DEF Working
  <2> QED  BY <1>1, <2>1, <2>2, ReceiverReads
<1>3. ASSUME NEW sent \in BOOLEAN, NEW room \in BOOLEAN, ~(sent /\ room), TakeBlock(sent, room)
      PROVE  IInv'
  <2>1. /\ rx.pc = "block" /\ fwd # <<>> /\ fwd' = Tail(fwd) /\ saved' = saved
        /\ file' \in Seq(Pieces) /\ InOrder' /\ rx' \in RxType
        /\ rx'.pc = "cancel" /\ back' = back
    BY <1>3, BlockTypes
  <2>2. started /\ LineOK(fwd', Oldest, ro.idx, ro.num, Parts) /\ ~Working'
    BY <2>1, ReadFacts DEF Working
  <2>3. back' \in Seq(Bytes)
        /\ (\A k \in 1..Len(back') : k <= Len(back) => back'[k] = back[k])
        /\ (\A k \in 1..Len(back') : ~(k <= Len(back)) => back'[k] # "ACK")
    BY <1>1, <2>1
  <2> QED  BY <2>1, <2>2, <2>3, ReceiverStays
<1> QED  BY <1>2, <1>3 DEF RxFails

\* The key R: the program expects the first item, and none has been sent.
LEMMA KeyReceiveStep ==
    ASSUME IInv, NEW opens \in BOOLEAN, ~started, KeyReceive(opens), started' = TRUE,
           UNCHANGED <<ro, taken>>
    PROVE  IInv'
<1>1. /\ ~rx.open /\ file = <<>> /\ saved = <<>>
      /\ ro.idx = First /\ ro.num = First /\ taken = First - 1
      /\ rx \in RxType /\ Parts \in Nat /\ ro \in RoType /\ taken \in Int
  BY PartsType DEF IInv, BeforeStart, TypeOK
<1>2. /\ rx' = IF rx.ymodem THEN ReceiveYmodem(rx) ELSE ReceiveFile(rx, MaxBlocks, 0, opens)
      /\ file' = <<>> /\ saved' = saved /\ fwd' = fwd /\ back' = back
  BY <1>1 DEF KeyReceive, line
<1>3. MaxBlocks \in Int
  BY ReceiveAssumption
<1>4. First = IF rx.ymodem THEN 0 ELSE 1
  BY DEF First
<1>5. Parts' = Parts /\ Over' = Over /\ ~Over /\ Oldest' = Oldest
  BY <1>1, <1>2, <1>4 DEF Parts, Over, Oldest
<1>6. rx' \in RxType /\ (Working' => rx'.blk = First /\ (rx'.open => ~rx.ymodem)
                                  /\ (~rx'.open => rx.ymodem))
  <2>1. CASE rx.ymodem
    <3>1. rx' = ReceiveYmodem(rx)
      BY <1>2, <2>1
    <3>2. rx' \in RxType /\ rx'.blk = 0 /\ ~rx'.open
      BY <1>1, <3>1, ReceiveYmodemMoves
    <3> QED  BY <1>4, <2>1, <3>2
  <2>2. CASE ~rx.ymodem
    <3> DEFINE r == ReceiveFile(rx, MaxBlocks, 0, opens)
    <3>1. rx' = r
      BY <1>2, <2>2
    <3>2. r \in RxType /\ (opens => r.open /\ r.blk = 1) /\ (~opens => r.pc = "cancel")
      BY <1>1, <1>3, ReceiveFileMoves
    <3> HIDE DEF r
    <3> QED  BY <1>4, <2>2, <3>1, <3>2 DEF Working
  <2> QED  BY <2>1, <2>2
<1>7. TypeOK'
  BY <1>1, <1>2, <1>6 DEF IInv, TypeOK
<1>8. LineInv'
  BY <1>2, <1>5 DEF IInv, LineInv
<1>9. SenderInv'
  BY <1>1, <1>2, <1>5 DEF IInv, SenderInv, NoAck
<1>10. ReceiverInv'
  <2>1. ro.idx # taken /\ (~rx.ymodem => taken = 0) /\ (rx.ymodem => taken = -1)
    BY <1>1, <1>4
  <2> QED  BY <1>1, <1>2, <1>5, <1>6, <2>1 DEF ReceiverInv
<1>11. BeforeStart'
  BY DEF BeforeStart
<1>12. InOrder' /\ SavedWhole'
  BY <1>1, <1>2 DEF InOrder, SavedWhole
<1> QED  BY <1>7, <1>8, <1>9, <1>10, <1>11, <1>12 DEF IInv

----------------------------------------------------------------------------
(* Damage *)

LEMMA DamageForwardStep ==
    ASSUME IInv, NEW kind \in Faults, DamageForward(kind)
    PROVE  LineOK(fwd', Oldest, ro.idx, ro.num, Parts)
<1>1. /\ fwd \in Seq(Items) /\ Oldest \in Int /\ ro.idx \in Int
      /\ LineOK(fwd, Oldest, ro.idx, ro.num, Parts)
  BY ReadFacts
<1>2. kind # "eot"
  BY RemoteAssumption
<1>3. PICK n \in 1..Len(fwd) :
        \/ fwd' = Without(fwd, n)
        \/ /\ fwd[n].kind = "block" /\ kind \in Flaws
           /\ fwd' = [fwd EXCEPT ![n].flaw = kind]
        \/ /\ fwd[n].kind \in {"EOT", "CAN"}
           /\ fwd' = [fwd EXCEPT ![n].kind = "noise"]
  BY <1>1, <1>2 DEF DamageForward
<1>4. ItemOK(fwd[n], Oldest, ro.idx, ro.num, Parts) /\ fwd[n] \in Items
  BY <1>1 DEF LineOK, ItemOK
<1>5. CASE fwd' = Without(fwd, n)
  BY <1>1, <1>5, LineWithout
<1>6. CASE /\ fwd[n].kind = "block" /\ kind \in Flaws
           /\ fwd' = [fwd EXCEPT ![n].flaw = kind]
  <2> DEFINE m == [fwd[n] EXCEPT !.flaw = kind]
  <2>1. fwd[n] \in Blocks
    BY <1>4, <1>6 DEF Items, Controls
  <2>2. /\ m \in Blocks /\ m.kind = "block" /\ m.data = fwd[n].data /\ m.num = fwd[n].num
        /\ m.head = fwd[n].head
    BY <1>6, <2>1 DEF Blocks
  <2>3. fwd' = [fwd EXCEPT ![n] = m]
    BY <1>6
  <2> HIDE DEF m
  <2>4. ItemOK(m, Oldest, ro.idx, ro.num, Parts)
    BY <1>4, <1>6, <2>2 DEF ItemOK, Items
  <2> QED  BY <1>1, <2>2, <2>3, <2>4, LineExcept
<1>7. CASE /\ fwd[n].kind \in {"EOT", "CAN"}
           /\ fwd' = [fwd EXCEPT ![n].kind = "noise"]
  <2> DEFINE m == [fwd[n] EXCEPT !.kind = "noise"]
  <2>1. fwd[n] \in Controls
    BY <1>4, <1>7 DEF Items, Blocks
  <2>2. m \in Controls /\ m.kind = "noise" /\ m.data = fwd[n].data
    BY <2>1 DEF Controls
  <2>3. fwd' = [fwd EXCEPT ![n] = m]
    BY <1>7
  <2> HIDE DEF m
  <2>4. ItemOK(m, Oldest, ro.idx, ro.num, Parts)
    BY <1>4, <2>2 DEF ItemOK, Items
  <2> QED  BY <1>1, <2>2, <2>3, <2>4, LineExcept
<1> QED  BY <1>3, <1>5, <1>6, <1>7

\* Damage to answers makes no ACK.
LEMMA DamageBackStep ==
    ASSUME IInv, NEW kind, DamageBack(kind)
    PROVE  /\ back' \in Seq(Bytes) /\ (NoAck => NoAck')
           /\ (\A j, k \in 1..Len(back) : back[j] = "ACK" /\ back[k] = "ACK" => j = k) =>
                 \A j, k \in 1..Len(back') : back'[j] = "ACK" /\ back'[k] = "ACK" => j = k
<1>1. back \in Seq(Bytes)
  BY ReadFacts
<1>2. PICK n \in 1..Len(back) : back' = Without(back, n) \/ back' = [back EXCEPT ![n] = "noise"]
  <2>1. DOMAIN back = 1..Len(back)
    BY <1>1
  <2>2. \E n \in DOMAIN back : back' = Without(back, n) \/ back' = [back EXCEPT ![n] = "noise"]
    BY Zenon DEF DamageBack
  <2> QED  BY <2>1, <2>2
<1>3. CASE back' = Without(back, n)
  <2>1. /\ back' \in Seq(Bytes) /\ Len(back') = Len(back) - 1
        /\ \A k \in 1..(Len(back) - 1) :
              /\ k \in 1..Len(back) /\ k + 1 \in 1..Len(back)
              /\ back'[k] = IF k < n THEN back[k] ELSE back[k + 1]
    <3>1. Without(back, n) \in Seq(Bytes) /\ Len(Without(back, n)) = Len(back) - 1
      BY <1>1, WithoutSeq
    <3>2. \A k \in 1..(Len(back) - 1) :
              /\ k \in 1..Len(back) /\ k + 1 \in 1..Len(back)
              /\ Without(back, n)[k] = IF k < n THEN back[k] ELSE back[k + 1]
      BY <1>1, WithoutSeq
    <3> QED  BY <1>3, <3>1, <3>2
  <2>2. NoAck => NoAck'
    BY <2>1 DEF NoAck
  <2>3. ASSUME \A j, k \in 1..Len(back) : back[j] = "ACK" /\ back[k] = "ACK" => j = k,
               NEW j \in 1..Len(back'), NEW k \in 1..Len(back'), back'[j] = "ACK", back'[k] = "ACK"
        PROVE  j = k
    <3>1. PICK i \in 1..Len(back) : back[i] = "ACK" /\ i = IF j < n THEN j ELSE j + 1
      BY <2>1, <2>3
    <3>2. PICK l \in 1..Len(back) : back[l] = "ACK" /\ l = IF k < n THEN k ELSE k + 1
      BY <2>1, <2>3
    <3>3. i = l
      BY <2>3, <3>1, <3>2
    <3>4. j \in Int /\ k \in Int
      BY <1>1, <2>1
    <3> QED  BY <3>1, <3>2, <3>3, <3>4
  <2> QED  BY <2>1, <2>2, <2>3
<1>4. CASE back' = [back EXCEPT ![n] = "noise"]
  <2>1. "noise" \in Bytes
    BY DEF Bytes
  <2>2. /\ back' \in Seq(Bytes) /\ Len(back') = Len(back)
        /\ \A k \in 1..Len(back) : back'[k] = IF k = n THEN "noise" ELSE back[k]
    BY <1>1, <1>4, <2>1
  <2>3. \A k \in 1..Len(back') : back'[k] = "ACK" => k \in 1..Len(back) /\ back[k] = "ACK"
    BY <2>2
  <2> QED  BY <2>2, <2>3 DEF NoAck
<1> QED  BY <1>2, <1>3, <1>4

LEMMA DamageStep == IInv /\ Damage => IInv'
<1> SUFFICES ASSUME IInv, Damage PROVE IInv'
  OBVIOUS
<1>1. PICK kind \in Faults : DamageForward(kind) \/ DamageBack(kind)
  BY DEF Damage
<1>2. rx' = rx /\ file' = file /\ saved' = saved /\ ro' = ro /\ started' = started /\ taken' = taken
  BY DEF Damage, rxVars
<1>3. LineOK(fwd', Oldest, ro.idx, ro.num, Parts)
  BY <1>1, ReadFacts, DamageForwardStep DEF DamageBack
<1>4. /\ back' \in Seq(Bytes) /\ (NoAck => NoAck')
      /\ (\A j, k \in 1..Len(back) : back[j] = "ACK" /\ back[k] = "ACK" => j = k) =>
            \A j, k \in 1..Len(back') : back'[j] = "ACK" /\ back'[k] = "ACK" => j = k
  <2>1. CASE DamageForward(kind)
    <3>1. back' = back
      BY <2>1 DEF DamageForward
    <3> QED  BY <3>1, ReadFacts DEF NoAck
  <2>2. CASE DamageBack(kind)
    BY <2>2, DamageBackStep
  <2> QED  BY <1>1, <2>1, <2>2
<1>5. Parts' = Parts /\ Over' = Over /\ Oldest' = Oldest /\ First' = First /\ Working' = Working
  BY <1>2 DEF Parts, Over, Oldest, First, Working
<1>6. TypeOK' /\ LineInv'
  BY <1>2, <1>3, <1>4, <1>5 DEF IInv, TypeOK, LineInv
<1>7. SenderInv'
  BY <1>2, <1>4, <1>5 DEF IInv, SenderInv
<1>8. ReceiverInv' /\ BeforeStart'
  BY <1>2, <1>4, <1>5 DEF IInv, ReceiverInv, BeforeStart
<1>9. InOrder' /\ SavedWhole'
  BY <1>2, <1>5 DEF IInv, InOrder, SavedWhole
<1> QED  BY <1>6, <1>7, <1>8, <1>9 DEF IInv

----------------------------------------------------------------------------
(* The invariant in every step *)

LEMMA StepIInv == IInv /\ [Next]_vars => IInv'
<1> SUFFICES ASSUME IInv, [Next]_vars PROVE IInv'
  OBVIOUS
<1>1. CASE Remote
  BY <1>1, RemoteStep
<1>2. CASE Receive
  BY <1>2, KeyReceiveStep DEF Receive
<1>3. CASE Menu
  BY <1>3, MenuSteps
<1>4. CASE Receiver
  <2>1. UNCHANGED <<ro, started>>
    BY <1>4 DEF Receiver
  <2>2. CASE (RxReads \/ RxSilent(TRUE)) /\ taken' = taken
    BY <2>1, <2>2, ReadSteps, SilentSteps DEF RxSilent
  <2>3. CASE RxTakes /\ taken' = Head(fwd).data
    BY <2>1, <2>3, TakeHeaderStep, TakeBlockStep, TakeEotStep DEF RxTakes
  <2> QED  BY <1>4, <2>2, <2>3 DEF Receiver
<1>5. CASE CallFails
  <2>1. UNCHANGED <<ro, started>>
    BY <1>5 DEF CallFails
  <2>2. CASE (RxFails \/ TransmitNak(FALSE) \/ TransmitCans(FALSE)) /\ taken' = taken
    BY <2>1, <2>2, FailSteps, SilentSteps
  <2>3. CASE TakeHeader(TRUE, FALSE) /\ taken' = Head(fwd).data
    BY <2>1, <2>3, TakeHeaderStep
  <2> QED  BY <1>5, <2>2, <2>3 DEF CallFails
<1>6. CASE OpenFails
  BY <1>6, KeyReceiveStep DEF OpenFails
<1>7. CASE Damage
  BY <1>7, DamageStep
<1>8. CASE UNCHANGED vars
  <2>1. /\ rx' = rx /\ file' = file /\ saved' = saved /\ fwd' = fwd /\ back' = back
        /\ ro' = ro /\ started' = started /\ taken' = taken
    BY <1>8 DEF vars, rxVars, line
  <2>2. Parts' = Parts /\ Over' = Over /\ Oldest' = Oldest /\ First' = First
        /\ Working' = Working /\ NoAck' = NoAck
    BY <2>1 DEF Parts, Over, Oldest, First, Working, NoAck
  <2> QED  BY <2>1, <2>2 DEF IInv, TypeOK, LineInv, SenderInv, ReceiverInv, BeforeStart,
                             InOrder, SavedWhole
<1> QED  BY <1>1, <1>2, <1>3, <1>4, <1>5, <1>6, <1>7, <1>8 DEF Next

\* Whatever happens to the line, to calls and to patience, the receiver never writes a
\* block twice, leaves one out, or takes one for another; block numbers may wrap around at
\* any modulus from three on.
THEOREM ReceivesInOrder == Spec => []InOrder
<1>1. IInv => InOrder
  BY DEF IInv
<1> QED  BY <1>1, InitIInv, StepIInv, PTL DEF Spec

\* And a file that it reports as received has all the blocks that were sent.
THEOREM SavesWholeFiles == Spec => []SavedWhole
<1>1. IInv => SavedWhole
  BY DEF IInv
<1> QED  BY <1>1, InitIInv, StepIInv, PTL DEF Spec
=============================================================================
