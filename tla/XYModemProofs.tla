---------------------------- MODULE XYModemProofs ----------------------------
(***************************************************************************)
(* What TLAPS proves about XYModem: for files and blocks of any size, any   *)
(* number of files, tries and faults, a file that the receiver reports as   *)
(* received is the file that was sent, with CRC on a line that loses and    *)
(* damages what it likes, with checksums on a line that does neither        *)
(* (FileWhole).                                                             *)
(*                                                                          *)
(* The inductive invariant, LineInv, says for each place of the sender what *)
(* is under way and what the receiver has of the file (AtNak0 ... AtEot).   *)
(* The order: what the programs do with their own variables, then types,    *)
(* then the time before R and after the end of the session, then a file     *)
(* under way, action by action, and last the theorems.                      *)
(***************************************************************************)
EXTENDS XYModem, TLAPS

----------------------------------------------------------------------------
(* What is assumed *)

\* What the theorem is about.  Both sides are set to the same protocol; the line makes
\* no EOT out of a block, and a byte holds the short blocks of a long one.  Where more
\* files follow, not every EOT of one of them gets lost: the header of the next may be
\* taken for a block.  The length of a file that comes without a size is limited.
Fits(s, size) == s.txYmodem \/ size + Short * Ratio <= MaxBlocks * Short

SettingFits(s) ==
    /\ s.txYmodem \in BOOLEAN /\ s.rxYmodem = s.txYmodem
    /\ s.crc \in BOOLEAN /\ s.block1k \in BOOLEAN /\ s.maxFaults \in Nat
    /\ \A b \in s.batches :
        /\ b \in Seq({n \in Nat : Fits(s, n)}) /\ b # <<>>
        /\ s.crc /\ Len(b) > 1 => s.maxFaults < Eots

LineFits ==
    /\ \A s \in Settings : SettingFits(s)
    /\ Ratio <= 256 /\ "eot" \notin Faults

\* What the user may send: with XModem no file is longer than the receiver has room for.
Sizes == {n \in Nat : Fits(setting, n)}

----------------------------------------------------------------------------
(* The invariant *)

\* What the line and the programs hold.
Datum == [of : Nat, from : Nat, n : Nat]
Heads == {NoHead, EndHead} \cup [is : {"file"}, size : Nat]
BlockMsg == [kind : {"block"}, num : Nat, long : BOOLEAN, check : {"sum", "crc", "both"},
             head : Heads, data : Datum, flaw : Flaws \cup {"none"}]
ByteMsg == [kind : {"EOT", "CAN", "noise"}, data : Nat]
Msg == BlockMsg \cup ByteMsg
Answers == {"C", "NAK", "ACK", "CAN", "noise"}
Piece == [data : Datum, keep : Int]

\* The records of the sender and of the receiver.
TxType == [pc : TxPcs, ymodem : BOOLEAN, block1k : BOOLEAN, long : BOOLEAN,
           check : {"sum", "crc"}, header : BOOLEAN, eof : BOOLEAN,
           blk : 0..(BlkMod - 1), blocks : Int, size : Nat, pos : Nat, eots : Nat,
           next : Seq(Nat)]
RxType == [pc : RxPcs, ymodem : BOOLEAN, check : {"sum", "crc"}, blk : 0..(BlkMod - 1),
           retries : Int, open : BOOLEAN, blocks : Int, bytes : Int, nest : Int]

RxState(r) == /\ r \in RxType /\ r.ymodem = setting.rxYmodem
              /\ r.check = IF setting.crc THEN "crc" ELSE "sum"
RxFine == RxState(rx) /\ file \in Seq(Piece) /\ fwd \in Seq(Msg) /\ back \in Seq(Answers)

Types ==
    /\ setting \in Settings
    /\ faults \in Nat /\ faults <= setting.maxFaults
    /\ received \in {"no", "before", "after"}
    /\ RxFine

\* The sender's place in the file.
Rest(t) == t.size - t.pos
Counted(t) == t.blocks * Short - Rest(t) \in 0..(Short - 1)
Fresh(t) == t.pos = 0 /\ ~t.eof

\* The type of the variables of the sender and what is known of them in any case.
TxState(t) ==
    /\ t \in TxType
    /\ t.pos <= t.size
    /\ t.eof => t.pos = t.size
    /\ t.long => Counted(t)

TxFine(t) ==
    /\ TxState(t) /\ t.ymodem = setting.txYmodem
    /\ t.pc = "nak0" => t.ymodem /\ t.header /\ t.blk = 0 /\ Fresh(t)
    /\ t.pc \in {"nak1", "can1"} => ~t.header /\ t.blk = 1
    /\ t.pc \in {"answer", "can"} /\ t.header => t.ymodem /\ t.blk = 0
    /\ t.pc = "eot" => t.eots \in 1..Eots
    /\ t.pc \in TxPcs \ {"menu", "cancel", "purge"} => t.size \in Sizes
    /\ t.next \in Seq(Sizes)
    /\ t.next # <<>> /\ setting.crc => setting.maxFaults < Eots

\* Nothing is on the line before S, and no file is left when the sender is back in the menu.
TxOrder ==
    /\ TxFine(tx)
    /\ sent = <<>> => tx.pc = "menu" /\ fwd = <<>>
    /\ sent # <<>> /\ tx.pc \in {"menu", "purge"} => tx.next = <<>>

\* Ended: nothing of a file comes any more.
Ended == sent # <<>> /\ tx.next = <<>> /\ tx.pc \in {"menu", "purge", "cancel"}

\* What is on its way to the receiver.
OnlyKinds(kinds) == \A k \in 1..Len(fwd) : fwd[k].kind \in kinds
NoEot == OnlyKinds({"block", "CAN", "noise"})
Junk == OnlyKinds({"CAN", "noise"})

\* Before the key R.
Before ==
    received = "no" =>
        /\ rx = RxStart(setting.rxYmodem, setting.crc)
        /\ back = <<>>
        /\ tx.pc \in {"menu", "nak0", "nak1", "cancel", "purge"}
        /\ NoEot
        /\ ~Ended => Junk
        /\ tx.pc = "nak1" => Fresh(tx) /\ ~tx.ymodem

\* The line is one on which nothing goes wrong unseen; the receiver is at work; the byte
\* that asks for the first block.
Sound == setting.crc \/ (faults = 0 /\ received # "before")
Working == received # "no" /\ rx.pc \in {"purge", "block", "can"}

Ask == IF setting.crc THEN "C" ELSE "NAK"

\* What the pieces of the file are: all of it up to a place.
Covers(pieces, size, upTo, exact) ==
    /\ \A k \in DOMAIN pieces :
        LET p == pieces[k]
        IN  /\ p.data.of = size
            /\ p.data.from = IF k = 1 THEN 0
                             ELSE pieces[k - 1].data.from + pieces[k - 1].keep
    /\ IF pieces = <<>> THEN upTo = 0
       ELSE LET p == pieces[Len(pieces)]
            IN  /\ p.data.from + p.data.n = upTo
                /\ exact \/ upTo < size => p.keep = p.data.n
                /\ ~exact => p.keep - p.data.n \in 0..(Short - 1)

\* What the receiver has counted of what is to come.
Expects(size, upTo) ==
    upTo < size =>
        IF rx.ymodem THEN /\ rx.bytes \in 0..(Short - 1) /\ rx.blocks \in Nat
                          /\ rx.blocks * Short + rx.bytes = size - upTo
        ELSE rx.blocks * Short + upTo = MaxBlocks * Short

\* XModem: nothing of a file has come yet, whichever it is.
Listens == /\ ~rx.ymodem /\ rx.open /\ rx.blk = 1 /\ file = <<>>
           /\ rx.blocks = MaxBlocks /\ rx.bytes = 0

\* YModem: a header may come.
AwaitsHead == rx.ymodem /\ ~rx.open /\ rx.blk = 0

\* The receiver has the file up to a place and waits for a block of that number.
Has(size, upTo, blk) ==
    /\ rx.open /\ rx.blk = blk
    /\ Covers(file, size, upTo, rx.ymodem)
    /\ Expects(size, upTo)

\* The file is open and nothing of it has come.
Opened == (~rx.ymodem => Listens) /\ Has(tx.size, 0, 1)

\* The two never both have something under way; the receiver waits for a block.
OneSided == fwd = <<>> \/ back = <<>>
InBlock == rx.pc = "block"

\* On a line without damage: something is under way, and expected.
Sum(m) == m.flaw = "none" /\ m.check = "sum"
AskedOnce == \/ rx.pc = "purge" /\ back = <<>>
             \/ InBlock /\ fwd = <<>> /\ back = <<"NAK">>
Answered == \/ InBlock /\ Len(fwd) = 1 /\ back = <<>>
            \/ fwd = <<>> /\ back = <<"ACK">>

\* The sender is in the menu, S not pressed yet, or gives up a batch.
AtMenu ==
    /\ setting.crc /\ (AwaitsHead \/ Listens)
    /\ fwd = <<>> /\ rx.pc # "can"
AtCancel ==
    /\ setting.crc /\ (AwaitsHead \/ Listens)
    /\ Junk /\ OneSided

\* It waits for the byte that asks for a header, or for block 1.
AtNak0 ==
    /\ AwaitsHead /\ Junk
    /\ ~setting.crc => AskedOnce
AtNak1 ==
    /\ Fresh(tx) /\ Opened /\ Junk
    /\ ~setting.crc => AskedOnce
    /\ rx.ymodem /\ back # <<>> => InBlock

\* It waits for the answer to a header: the file is open when ACK comes.
AtHeader ==
    /\ Fresh(tx)
    /\ fwd # <<>> =>
        LET m == fwd[1]
        IN  /\ m.kind = "block" /\ m.num = 0 /\ m.head = FileHead(tx.size)
            /\ ~setting.crc => Sum(m)
            /\ AwaitsHead
    /\ back = <<"ACK">> => Opened
    /\ ~setting.crc => Answered /\ (back = <<"ACK">> => rx.pc = "purge")

\* It waits for the answer to a block: the receiver has the file up to this block, or with
\* it when ACK comes.
AtBlock ==
    /\ fwd # <<>> =>
        LET m == fwd[1]
            d == m.data
        IN  /\ m.kind = "block" /\ m.num = tx.blk
            /\ ~setting.crc => Sum(m)
            /\ d.of = tx.size /\ d.from + d.n = tx.pos /\ d.n > 0
            /\ Width(m.long) - d.n \in 0..(Short - 1)
            /\ d.n < Width(m.long) => tx.pos = tx.size
            /\ Has(tx.size, d.from, tx.blk)
    /\ back = <<"ACK">> => Has(tx.size, tx.pos, NextNum(tx.blk)) /\ InBlock
    /\ ~setting.crc => Answered /\ tx.check = "sum"

\* It waits for the answer to EOT: the receiver has the whole file and has closed it when
\* ACK comes.  A file can still be open only if each EOT so far was hit by a fault, so that
\* with fewer faults than EOTs the sender does not give up on an open file.
AtEot ==
    /\ fwd # <<>> =>
        LET m == fwd[1]
        IN  \/ m.kind = "noise" /\ setting.crc
            \/ m.kind = "EOT" /\ m.data = tx.size
    /\ back = <<"ACK">> => ~rx.open
    /\ ~rx.open => AwaitsHead
    /\ rx.open =>
        /\ Whole(file, tx.size, rx.ymodem)
        /\ \/ Listens
           \/ /\ fwd # <<>> \/ back # <<>> => InBlock
              /\ faults + tx.eots >= IF fwd # <<>> /\ fwd[1].kind = "EOT" THEN Eots ELSE Eots + 1
    /\ ~setting.crc => Answered /\ (back = <<"ACK">> => rx.pc = "purge")

\* What is under way and what both sides take for granted.
Live ==
    /\ Len(back) <= 1 \/ tx.pc = "menu"
    /\ \A k \in DOMAIN back : back[k] \in {Ask, "ACK", "noise"}
    /\ tx.pc \in {"menu", "nak0", "nak1", "cancel"} => \A k \in DOMAIN back : back[k] # "ACK"
    /\ rx.pc = "can" => back = <<>> /\ tx.pc \in {"nak0", "nak1", "cancel"}
    /\ tx.pc \in {"menu", "cancel", "nak0", "nak1", "answer", "eot"}
    /\ tx.pc \in {"answer", "eot"} => Len(fwd) <= 1
    /\ OneSided
    /\ tx.pc = "menu" => AtMenu
    /\ tx.pc = "cancel" => AtCancel
    /\ tx.pc = "nak0" => AtNak0
    /\ tx.pc = "nak1" => AtNak1
    /\ tx.pc = "answer" /\ tx.header => AtHeader
    /\ tx.pc = "answer" /\ ~tx.header => AtBlock
    /\ tx.pc = "eot" => AtEot

\* Nothing ends a file any more once the session has ended.
AtWork ==
    Working /\ Sound => IF Ended THEN NoEot ELSE Live

\* The files received.
SavedFine == saved \in Seq(Seq(Piece))

LineInv == Types /\ TxOrder /\ Before /\ AtWork /\ SavedFine

----------------------------------------------------------------------------
(* Numbers *)

LEMMA MinOfTwo ==
    ASSUME NEW a \in Int, NEW b \in Int
    PROVE  Min({a, b}) = IF a <= b THEN a ELSE b
<1> DEFINE m == IF a <= b THEN a ELSE b
<1>1. m \in {a, b} /\ \A y \in {a, b} : m <= y
  OBVIOUS
<1>2. \A x \in {a, b} : (\A y \in {a, b} : x <= y) => x = m
  OBVIOUS
<1> QED  BY <1>1, <1>2 DEF Min

LEMMA NextNumType == \A n \in 0..(BlkMod - 1) : NextNum(n) \in 0..(BlkMod - 1)
  BY LineAssumption DEF NextNum

\* The bytes of whole blocks, and of a number of blocks rounded up.
LEMMA Division ==
    ASSUME NEW a \in Nat, NEW b \in Nat \ {0}
    PROVE  /\ a \div b \in Nat /\ a % b \in 0..(b - 1)
           /\ (a \div b) * b + (a % b) = a
<1>1. a = b * (a \div b) + (a % b) /\ a % b \in 0..(b - 1) /\ a \div b \in Nat
  BY Z3
<1> QED  BY <1>1, Z3

LEMMA RoundedUp ==
    ASSUME NEW a \in Nat, NEW b \in Nat \ {0}
    PROVE  /\ (a + b - 1) \div b \in Nat
           /\ ((a + b - 1) \div b) * b - a \in 0..(b - 1)
<1> DEFINE c == a + b - 1
<1>1. c \in Nat /\ c = a + b - 1
  OBVIOUS
<1> HIDE DEF c
<1>2. c \div b \in Nat /\ c % b \in 0..(b - 1) /\ (c \div b) * b + (c % b) = c
  BY <1>1, Division
<1> DEFINE x == (c \div b) * b
<1>3. x \in Nat
  BY <1>2, Z3
<1> HIDE DEF x
<1>4. x + (c % b) = c
  BY <1>2 DEF x
<1>5. x - a \in 0..(b - 1)
  BY <1>1, <1>2, <1>3, <1>4
<1> QED  BY <1>2, <1>5 DEF x, c

LEMMA Widths ==
    /\ Width(FALSE) = Short
    /\ Width(TRUE) = Short * Ratio
    /\ \A long \in BOOLEAN : Width(long) \in Nat /\ Width(long) >= Short /\ Width(long) > 0
                             /\ Units(long) \in Nat \ {0}
<1>1. Short \in Nat /\ Short > 0 /\ Ratio \in Nat /\ Ratio > 0
  BY LineAssumption
<1>2. Short * 1 = Short /\ Short * Ratio \in Nat /\ Short * Ratio >= Short
  BY <1>1, Z3
<1> QED  BY <1>1, <1>2 DEF Width, Units

\* Counting a long block leaves the count right, and only the end of the file can make
\* the block longer than what is left, by less than a short block.
LEMMA CountLong ==
    ASSUME NEW blocks \in Int, NEW rest \in Nat, NEW n \in Nat, blocks >= Ratio,
           blocks * Short - rest \in 0..(Short - 1),
           n = IF Short * Ratio <= rest THEN Short * Ratio ELSE rest
    PROVE  /\ (blocks - Ratio) * Short - (rest - n) \in 0..(Short - 1)
           /\ Short * Ratio - n \in 0..(Short - 1)
           /\ n > 0
<1>1. Short \in Nat /\ Short > 0 /\ Ratio \in Nat /\ Ratio > 0
  BY LineAssumption
<1> DEFINE x == blocks * Short
           y == Short * Ratio
<1>2. x \in Int /\ y \in Nat /\ y > 0 /\ (blocks - Ratio) * Short = x - y /\ x >= y
  BY <1>1, Z3
<1>3. blocks >= Ratio + 1 => x >= y + Short
  BY <1>1, Z3
<1>4. blocks = Ratio => x = y
  BY <1>1, Z3
<1>5. x - rest \in 0..(Short - 1) /\ n = IF y <= rest THEN y ELSE rest
  OBVIOUS
<1> HIDE DEF x, y
<1>6. x = y \/ x >= y + Short
  BY <1>1, <1>3, <1>4
<1>7. /\ x - y - (rest - n) \in 0..(Short - 1)
      /\ y - n \in 0..(Short - 1) /\ n > 0
  BY <1>1, <1>2, <1>5, <1>6
<1> QED  BY <1>2, <1>7 DEF x, y

----------------------------------------------------------------------------
(* What the sender does next *)

\* t is as old, but for pc and where it is in the file.
SameFile(t, old) ==
    /\ t.size = old.size /\ t.next = old.next /\ t.ymodem = old.ymodem

LEMMA SendFileFacts ==
    ASSUME NEW old \in TxType, NEW size \in Nat
    PROVE  LET t == SendFile(old, size)
           IN  /\ TxState(t) /\ Fresh(t) /\ t.size = size
               /\ t.next = old.next /\ t.ymodem = old.ymodem
               /\ t.pc = IF old.ymodem THEN "nak0" ELSE "nak1"
               /\ old.ymodem => t.header /\ t.blk = 0
               /\ ~old.ymodem => ~t.header /\ t.blk = 1
<1> DEFINE b == (size + Short - 1) \div Short
           u == [old EXCEPT !.size = size, !.pos = 0, !.eof = FALSE,
                            !.blocks = b, !.long = old.block1k]
<1>1. b \in Int /\ b * Short - size \in 0..(Short - 1)
  BY RoundedUp, LineAssumption
<1>2. SendFile(old, size) = IF u.ymodem THEN [u EXCEPT !.pc = "nak0", !.header = TRUE, !.blk = 0]
                            ELSE [u EXCEPT !.pc = "nak1", !.header = FALSE, !.blk = 1]
  BY DEF SendFile, NotYmodemHeader
<1> HIDE DEF b
<1>3. /\ u \in TxType /\ u.size = size /\ u.pos = 0 /\ u.eof = FALSE /\ u.blocks = b
      /\ u.next = old.next /\ u.ymodem = old.ymodem
  BY <1>1 DEF TxType
<1> HIDE DEF u
<1> DEFINE v == [u EXCEPT !.pc = "nak0", !.header = TRUE, !.blk = 0]
           w == [u EXCEPT !.pc = "nak1", !.header = FALSE, !.blk = 1]
<1>4. 0 \in 0..(BlkMod - 1) /\ 1 \in 0..(BlkMod - 1)
  BY LineAssumption
<1>5. /\ v \in TxType /\ v.size = size /\ v.pos = 0 /\ v.eof = FALSE /\ v.blocks = b
      /\ v.next = old.next /\ v.ymodem = old.ymodem /\ v.pc = "nak0" /\ v.header
      /\ v.blk = 0
  BY <1>3, <1>4 DEF TxType, TxPcs
<1>6. /\ w \in TxType /\ w.size = size /\ w.pos = 0 /\ w.eof = FALSE /\ w.blocks = b
      /\ w.next = old.next /\ w.ymodem = old.ymodem /\ w.pc = "nak1" /\ ~w.header
      /\ w.blk = 1
  BY <1>3, <1>4 DEF TxType, TxPcs
<1>7. SendFile(old, size) = IF old.ymodem THEN v ELSE w
  BY <1>2, <1>3
<1> HIDE DEF v, w
<1>8. old.ymodem \in BOOLEAN /\ b * Short - (size - 0) \in 0..(Short - 1)
  BY <1>1 DEF TxType
<1>9. CASE old.ymodem
  <2>1. SendFile(old, size) = v
    BY <1>7, <1>9
  <2>2. TxState(v) /\ Fresh(v)
    BY <1>5, <1>8 DEF TxState, Fresh, Counted, Rest
  <2> QED  BY <1>5, <1>9, <2>1, <2>2
<1>10. CASE ~old.ymodem
  <2>1. SendFile(old, size) = w
    BY <1>7, <1>10
  <2>2. TxState(w) /\ Fresh(w)
    BY <1>6, <1>8 DEF TxState, Fresh, Counted, Rest
  <2> QED  BY <1>6, <1>10, <2>1, <2>2
<1> QED  BY <1>8, <1>9, <1>10

LEMMA EndFileFacts ==
    ASSUME NEW old, TxState(old)
    PROVE  LET t == EndFile(old)
           IN  /\ TxState(t) /\ t.ymodem = old.ymodem
               /\ old.next = <<>> => t = [old EXCEPT !.pc = "menu"] /\ t.pc = "menu"
                                     /\ t.next = <<>>
               /\ old.next # <<>> =>
                    /\ t.size = Head(old.next) /\ t.next = Tail(old.next) /\ Fresh(t)
                    /\ t.pc = IF old.ymodem THEN "nak0" ELSE "nak1"
                    /\ old.ymodem => t.header /\ t.blk = 0
                    /\ ~old.ymodem => ~t.header /\ t.blk = 1
<1>1. old \in TxType
  BY DEF TxState
<1>2. CASE old.next = <<>>
  <2> DEFINE t == [old EXCEPT !.pc = "menu"]
  <2>1. /\ t \in TxType /\ t.pc = "menu" /\ t.next = <<>> /\ t.ymodem = old.ymodem
        /\ t.pos = old.pos /\ t.size = old.size /\ t.eof = old.eof /\ t.long = old.long
        /\ t.blocks = old.blocks
    BY <1>1, <1>2 DEF TxType, TxPcs
  <2>2. EndFile(old) = t
    BY <1>2 DEF EndFile
  <2> HIDE DEF t
  <2>3. TxState(t)
    BY <2>1 DEF TxState, Counted, Rest
  <2> QED  BY <1>2, <2>1, <2>2, <2>3 DEF t
<1>3. CASE old.next # <<>>
  <2> DEFINE u == [old EXCEPT !.next = Tail(@)]
             h == Head(old.next)
  <2>1. old.next \in Seq(Nat)
    BY <1>1 DEF TxType
  <2>2. h \in Nat /\ Tail(old.next) \in Seq(Nat)
    BY <1>3, <2>1
  <2>3. u \in TxType /\ u.next = Tail(old.next) /\ u.ymodem = old.ymodem
    BY <1>1, <2>2 DEF TxType
  <2>4. EndFile(old) = SendFile(u, h)
    BY <1>3 DEF EndFile
  <2> HIDE DEF u, h
  <2>5. LET t == SendFile(u, h)
        IN  /\ TxState(t) /\ Fresh(t) /\ t.size = h
            /\ t.next = u.next /\ t.ymodem = u.ymodem
            /\ t.pc = IF u.ymodem THEN "nak0" ELSE "nak1"
            /\ u.ymodem => t.header /\ t.blk = 0
            /\ ~u.ymodem => ~t.header /\ t.blk = 1
    BY <2>2, <2>3, SendFileFacts
  <2> QED  BY <1>3, <2>3, <2>4, <2>5 DEF h
<1> QED  BY <1>2, <1>3

\* What a step of the sender may be: the next part of the file, which is not the end of
\* it unless the block is short of bytes; or the first EOT after its end.
Carries(m, t, upTo) ==
    /\ m \in BlockMsg /\ m.num = t.blk /\ m.check = t.check /\ m.flaw = "none"
    /\ m.data.of = t.size /\ m.data.from = t.pos
    /\ m.data.n > 0 /\ t.pos + m.data.n = upTo
    /\ Width(m.long) - m.data.n \in 0..(Short - 1)
    /\ m.data.n < Width(m.long) => upTo = t.size

SendsBlock(step, t) ==
    /\ TxState(step.t) /\ SameFile(step.t, t)
    /\ step.t.pc = "answer" /\ step.t.header = t.header /\ step.t.blk = t.blk
    /\ step.t.check = t.check
    /\ \E m \in BlockMsg : step.out = <<m>> /\ Carries(m, t, step.t.pos)

StartsEots(step, t) ==
    /\ TxState(step.t) /\ SameFile(step.t, t)
    /\ step.t.pc = "eot" /\ step.t.eots = Eots
    /\ t.pos = t.size /\ step.out = <<Control("EOT", t.size)>>

LEMMA SendEotsFacts ==
    ASSUME NEW t, TxState(t), t.pos = t.size PROVE StartsEots(SendEots(t), t)
<1> DEFINE u == [t EXCEPT !.pc = "eot", !.eots = Eots]
           o == <<Control("EOT", t.size)>>
<1>1. t \in TxType /\ Eots \in Nat
  BY SendAssumption DEF TxState
<1>2. /\ u \in TxType /\ u.pc = "eot" /\ u.eots = Eots /\ u.pos = t.pos /\ u.size = t.size
      /\ u.eof = t.eof /\ u.long = t.long /\ u.blocks = t.blocks /\ u.next = t.next
      /\ u.ymodem = t.ymodem
  BY <1>1 DEF TxType, TxPcs
<1>3. SendEots(t).t = u /\ SendEots(t).out = o
  BY DEF SendEots
<1> HIDE DEF u
<1>4. TxState(u)
  BY <1>2 DEF TxState, Counted, Rest
<1> QED  BY <1>2, <1>3, <1>4 DEF StartsEots, SameFile, o

\* What is read for a block, once it is decided how long the block is.
LEMMA ReadFacts ==
    ASSUME NEW t \in TxType, t.pos <= t.size,
           NEW d, d = BlockData(t)
    PROVE  /\ d \in Datum /\ d.of = t.size /\ d.from = t.pos
           /\ d.n = IF Width(t.long) <= t.size - t.pos THEN Width(t.long) ELSE t.size - t.pos
           /\ t.pos + d.n <= t.size
           /\ d.n < Width(t.long) => t.pos + d.n = t.size
           /\ d.n = 0 => t.pos = t.size
<1>1. t.size \in Nat /\ t.pos \in Nat /\ t.long \in BOOLEAN
  BY DEF TxType
<1>2. Width(t.long) \in Nat /\ Width(t.long) > 0
  BY <1>1, Widths
<1> DEFINE w == Width(t.long)
           r == t.size - t.pos
<1>3. w \in Nat /\ w > 0 /\ r \in Nat /\ r = t.size - t.pos
  BY <1>1, <1>2
<1>4. d = [of |-> t.size, from |-> t.pos, n |-> Min({w, r})]
  BY DEF BlockData
<1> HIDE DEF w, r
<1>5. Min({w, r}) = IF w <= r THEN w ELSE r
  BY <1>3, MinOfTwo
<1>6. d.of = t.size /\ d.from = t.pos /\ d.n = IF w <= r THEN w ELSE r
  BY <1>4, <1>5
<1>7. d.n \in Nat
  BY <1>3, <1>6
<1>8. d \in Datum
  BY <1>1, <1>4, <1>6, <1>7 DEF Datum
<1>9. /\ t.pos + d.n <= t.size
      /\ d.n < w => t.pos + d.n = t.size
      /\ d.n = 0 => t.pos = t.size
  BY <1>1, <1>3, <1>6
<1> QED  BY <1>6, <1>8, <1>9 DEF w, r

LEMMA PrepareBlockFacts ==
    ASSUME NEW old, TxState(old), NEW t, t = PrepareBlock(old)
    PROVE  /\ t \in TxType /\ SameFile(t, old) /\ t.pos = old.pos /\ t.eof = old.eof
           /\ t.header = old.header /\ t.blk = old.blk /\ t.check = old.check
           /\ t.long => /\ old.blocks >= Ratio /\ old.blocks * Short - Rest(old) \in 0..(Short - 1)
                        /\ t.blocks = old.blocks - Ratio
<1>1. old \in TxType /\ old.long \in BOOLEAN /\ old.blocks \in Int /\ Ratio \in Nat
  BY LineAssumption DEF TxState, TxType
<1>2. CASE ~old.long
  BY <1>1, <1>2 DEF PrepareBlock, SameFile
<1>3. CASE old.long
  <2> DEFINE b == old.blocks - Ratio
             l == old.blocks >= Ratio
             u == [old EXCEPT !.blocks = b, !.long = l]
  <2>1. b \in Int /\ l \in BOOLEAN
    BY <1>1
  <2>2. t = u
    BY <1>3 DEF PrepareBlock
  <2>3. b = old.blocks - Ratio /\ (l => old.blocks >= Ratio)
    OBVIOUS
  <2> HIDE DEF b, l
  <2>4. /\ u \in TxType /\ u.size = old.size /\ u.next = old.next /\ u.ymodem = old.ymodem
        /\ u.pos = old.pos /\ u.eof = old.eof /\ u.header = old.header /\ u.blk = old.blk
        /\ u.check = old.check /\ u.long = l /\ u.blocks = b
    BY <1>1, <2>1 DEF TxType
  <2> HIDE DEF u
  <2>5. old.blocks * Short - Rest(old) \in 0..(Short - 1)
    BY <1>3 DEF TxState, Counted
  <2> QED  BY <2>2, <2>3, <2>4, <2>5 DEF SameFile
<1> QED  BY <1>1, <1>2, <1>3

LEMMA SendBlockFacts ==
    ASSUME NEW old, TxState(old)
    PROVE  \/ SendsBlock(SendBlock(old), old)
           \/ StartsEots(SendBlock(old), old)
<1> DEFINE t == PrepareBlock(old)
           d == BlockData(t)
           p == t.pos + d.n
           e == t.eof \/ d.n < Width(t.long)
           read == [t EXCEPT !.pos = p, !.eof = e]
           next == [read EXCEPT !.pc = "answer"]
           m == Block(t.blk, t.long, t.check, NoHead, d)
<1>1. SendBlock(old) = IF d.n = 0 THEN SendEots(read) ELSE [t |-> next, out |-> <<m>>]
  <2>1. read.pos = p /\ t.blk = read.blk
    BY DEF SendBlock
  <2> QED  BY DEF SendBlock
<1>2. /\ t \in TxType /\ SameFile(t, old) /\ t.pos = old.pos /\ t.eof = old.eof
      /\ t.header = old.header /\ t.blk = old.blk /\ t.check = old.check
      /\ t.long => /\ old.blocks >= Ratio /\ old.blocks * Short - Rest(old) \in 0..(Short - 1)
                   /\ t.blocks = old.blocks - Ratio
  BY PrepareBlockFacts
<1>3. /\ old \in TxType /\ old.pos <= old.size /\ old.pos \in Nat /\ old.size \in Nat
      /\ old.blocks \in Int /\ (old.eof => old.pos = old.size)
  BY DEF TxState, TxType
<1> HIDE DEF t
<1>4. t.size = old.size /\ t.pos \in Nat /\ t.size \in Nat /\ t.long \in BOOLEAN
      /\ t.eof \in BOOLEAN /\ t.blk \in Nat /\ t.check \in {"sum", "crc"} /\ t.blocks \in Int
  BY <1>2, LineAssumption DEF SameFile, TxType
<1>5. /\ d \in Datum /\ d.of = t.size /\ d.from = t.pos /\ d.n \in Nat
      /\ d.n = IF Width(t.long) <= t.size - t.pos THEN Width(t.long) ELSE t.size - t.pos
      /\ t.pos + d.n <= t.size
      /\ d.n < Width(t.long) => t.pos + d.n = t.size
      /\ d.n = 0 => t.pos = t.size
  <2>1. /\ d \in Datum /\ d.of = t.size /\ d.from = t.pos
        /\ d.n = IF Width(t.long) <= t.size - t.pos THEN Width(t.long) ELSE t.size - t.pos
        /\ t.pos + d.n <= t.size
        /\ d.n < Width(t.long) => t.pos + d.n = t.size
        /\ d.n = 0 => t.pos = t.size
    BY <1>2, <1>3, <1>4, ReadFacts
  <2>2. d.n \in Nat
    BY <2>1 DEF Datum
  <2> QED  BY <2>1, <2>2
<1> HIDE DEF d
<1>6. p \in Nat /\ p <= t.size /\ e \in BOOLEAN /\ (e => p = t.size) /\ p = t.pos + d.n
  <2>1. e => p = t.size
    BY <1>2, <1>3, <1>4, <1>5
  <2> QED  BY <1>4, <1>5, <2>1
<1>7. Width(FALSE) = Short /\ Width(TRUE) = Short * Ratio /\ Width(t.long) \in Nat
      /\ Width(t.long) > 0 /\ Short \in Nat /\ Short > 0
  BY <1>4, Widths, LineAssumption
<1>8. /\ Width(t.long) - d.n \in 0..(Short - 1) \/ d.n = 0
      /\ t.long => t.blocks * Short - (t.size - p) \in 0..(Short - 1)
  <2>1. CASE t.long
    <3>1. Rest(old) = t.size - t.pos /\ Rest(old) \in Nat
      BY <1>2, <1>3, <1>4 DEF Rest
    <3>2. d.n = IF Short * Ratio <= Rest(old) THEN Short * Ratio ELSE Rest(old)
      BY <1>4, <1>5, <1>7, <2>1, <3>1
    <3>3. /\ (old.blocks - Ratio) * Short - (Rest(old) - d.n) \in 0..(Short - 1)
          /\ Short * Ratio - d.n \in 0..(Short - 1)
      BY <1>2, <1>3, <1>5, <2>1, <3>1, <3>2, CountLong
    <3>4. Rest(old) - d.n = t.size - p
      BY <1>4, <1>5, <1>6, <3>1
    <3> QED  BY <1>2, <1>4, <1>7, <2>1, <3>3, <3>4
  <2>2. CASE ~t.long
    <3>1. Width(t.long) = Short
      BY <1>4, <1>7, <2>2
    <3>2. Short - d.n \in 0..(Short - 1) \/ d.n = 0
      BY <1>4, <1>5, <1>7, <3>1
    <3> QED  BY <2>2, <3>1, <3>2
  <2> QED  BY <2>1, <2>2
<1> HIDE DEF p, e
<1>9. /\ read \in TxType /\ read.pos = p /\ read.eof = e /\ read.size = t.size
      /\ read.long = t.long /\ read.blocks = t.blocks /\ read.next = t.next
      /\ read.ymodem = t.ymodem /\ read.header = t.header /\ read.blk = t.blk
      /\ read.check = t.check
  BY <1>2, <1>6 DEF TxType
<1> HIDE DEF read
<1>10. TxState(read) /\ SameFile(read, old)
  BY <1>2, <1>4, <1>6, <1>8, <1>9 DEF TxState, SameFile, Counted, Rest
<1>11. CASE d.n = 0
  <2>1. read.pos = read.size /\ old.pos = old.size /\ read.size = old.size
    BY <1>2, <1>4, <1>5, <1>6, <1>9, <1>11
  <2>2. StartsEots(SendEots(read), read)
    BY <1>10, <2>1, SendEotsFacts
  <2>3. SendBlock(old) = SendEots(read)
    BY <1>1, <1>11
  <2> QED  BY <1>10, <2>1, <2>2, <2>3 DEF StartsEots, SameFile
<1>12. CASE d.n # 0
  <2>1. SendBlock(old).t = next /\ SendBlock(old).out = <<m>>
    BY <1>1, <1>12
  <2>2. /\ next \in TxType /\ next.pos = p /\ next.eof = e /\ next.size = t.size
        /\ next.long = t.long /\ next.blocks = t.blocks /\ next.next = t.next
        /\ next.ymodem = t.ymodem /\ next.header = t.header /\ next.blk = t.blk
        /\ next.check = t.check /\ next.pc = "answer"
    BY <1>9 DEF TxType, TxPcs
  <2>3. /\ m \in BlockMsg /\ m.num = t.blk /\ m.check = t.check /\ m.flaw = "none"
        /\ m.data = d /\ m.long = t.long
    BY <1>4, <1>5 DEF Block, BlockMsg, NoHead, Heads
  <2> HIDE DEF next, m
  <2>4. TxState(next) /\ SameFile(next, old)
    BY <1>2, <1>4, <1>6, <1>8, <2>2 DEF TxState, SameFile, Counted, Rest
  <2>5. Width(m.long) - m.data.n \in 0..(Short - 1)
    BY <1>8, <1>12, <2>3
  <2>6. Carries(m, old, next.pos)
    BY <1>2, <1>4, <1>5, <1>6, <1>12, <2>2, <2>3, <2>5 DEF Carries
  <2> QED  BY <1>2, <2>1, <2>2, <2>3, <2>4, <2>6 DEF SendsBlock
<1> QED  BY <1>11, <1>12

----------------------------------------------------------------------------
(* The sender's variables *)

LEMMA SizesType == Sizes \subseteq Nat
  BY DEF Sizes

LEMMA WiderSeq ==
    ASSUME NEW S, NEW T, S \subseteq T, NEW q \in Seq(S)
    PROVE  q \in Seq(T)
<1>1. \A k \in 1..Len(q) : q[k] \in T
  OBVIOUS
<1>2. q = [k \in 1..Len(q) |-> q[k]] /\ Len(q) \in Nat
  OBVIOUS
<1> QED  BY <1>1, <1>2

LEMMA HeadTail ==
    ASSUME NEW S, NEW q \in Seq(S), q # <<>>
    PROVE  /\ Head(q) \in S /\ Tail(q) \in Seq(S) /\ Head(q) = q[1]
           /\ Len(Tail(q)) = Len(q) - 1 /\ Len(q) \in Nat /\ Len(q) >= 1
           /\ \A k \in 1..(Len(q) - 1) : Tail(q)[k] = q[k + 1]
  OBVIOUS

\* A step, with what it sends.
FineStep(step) ==
    /\ TxFine(step.t) /\ step.out \in Seq(Msg)
    /\ step.t.pc \in {"menu", "purge"} => step.t.next = <<>>

LEMMA EndFileFine ==
    ASSUME NEW old, TxFine(old)
    PROVE  FineStep(Only(EndFile(old)))
<1> DEFINE t == EndFile(old)
<1>1. TxState(old) /\ old.ymodem = setting.txYmodem /\ old.next \in Seq(Sizes)
      /\ (old.next # <<>> /\ setting.crc => setting.maxFaults < Eots)
  BY DEF TxFine
<1>2. /\ TxState(t) /\ t.ymodem = old.ymodem
      /\ old.next = <<>> => t.pc = "menu" /\ t.next = <<>>
      /\ old.next # <<>> =>
           /\ t.size = Head(old.next) /\ t.next = Tail(old.next) /\ Fresh(t)
           /\ t.pc = IF old.ymodem THEN "nak0" ELSE "nak1"
           /\ old.ymodem => t.header /\ t.blk = 0
           /\ ~old.ymodem => ~t.header /\ t.blk = 1
  BY <1>1, EndFileFacts
<1>3. t.next \in Seq(Sizes) /\ (old.next # <<>> => t.size \in Sizes)
  BY <1>1, <1>2, HeadTail
<1>4. <<>> \in Seq(Msg) /\ Only(t).t = t /\ Only(t).out = <<>>
  BY DEF Only
<1> HIDE DEF t
<1>5. TxFine(t) /\ (t.pc \in {"menu", "purge"} => t.next = <<>>)
  BY <1>1, <1>2, <1>3 DEF TxFine
<1> QED  BY <1>4, <1>5 DEF FineStep, t

LEMMA MsgTypes ==
    /\ BlockMsg \subseteq Msg
    /\ \A size \in Nat : /\ Control("EOT", size) \in Msg
                         /\ Control("CAN", size) \in Msg
  BY DEF Msg, ByteMsg, Control

LEMMA OneMsg == \A m \in Msg : <<m>> \in Seq(Msg)
  OBVIOUS

LEMMA StartsEotsFine ==
    ASSUME NEW step, NEW t, StartsEots(step, t), t.size \in Sizes,
           t.next \in Seq(Sizes), t.ymodem = setting.txYmodem,
           t.next # <<>> /\ setting.crc => setting.maxFaults < Eots
    PROVE  FineStep(step)
<1>1. /\ TxState(step.t) /\ step.t.size = t.size /\ step.t.next = t.next
      /\ step.t.ymodem = t.ymodem /\ step.t.pc = "eot" /\ step.t.eots = Eots
      /\ step.out = <<Control("EOT", t.size)>>
  BY DEF StartsEots, SameFile
<1>2. Eots \in 1..Eots
  BY SendAssumption
<1>3. step.out \in Seq(Msg)
  BY <1>1, MsgTypes, OneMsg, SizesType
<1> QED  BY <1>1, <1>2, <1>3 DEF FineStep, TxFine

LEMMA SendBlockFine ==
    ASSUME NEW t, TxState(t), t.size \in Sizes,
           t.next \in Seq(Sizes), t.ymodem = setting.txYmodem,
           t.next # <<>> /\ setting.crc => setting.maxFaults < Eots,
           t.header => t.ymodem /\ t.blk = 0
    PROVE  FineStep(SendBlock(t))
<1>1. CASE StartsEots(SendBlock(t), t)
  BY <1>1, StartsEotsFine
<1>2. CASE SendsBlock(SendBlock(t), t)
  <2> DEFINE step == SendBlock(t)
  <2>1. /\ TxState(step.t) /\ step.t.size = t.size /\ step.t.next = t.next
        /\ step.t.ymodem = t.ymodem /\ step.t.pc = "answer" /\ step.t.header = t.header
        /\ step.t.blk = t.blk
    BY <1>2 DEF SendsBlock, SameFile
  <2>2. step.out \in Seq(Msg)
    BY <1>2, MsgTypes, OneMsg DEF SendsBlock
  <2> HIDE DEF step
  <2>3. FineStep(step)
    BY <2>1, <2>2 DEF FineStep, TxFine
  <2> QED  BY <2>3 DEF step
<1> QED  BY <1>1, <1>2, SendBlockFacts

\* Another byte of the same wait, or the one that asks for the first block.
LEMMA CheckFine ==
    ASSUME NEW old, TxFine(old), NEW byte, NEW t, t = [old EXCEPT !.check = CheckOf(byte)]
    PROVE  /\ TxState(t) /\ SameFile(t, old) /\ t.header = old.header /\ t.blk = old.blk
           /\ t.pos = old.pos /\ t.eof = old.eof /\ t.pc = old.pc
           /\ t.check = CheckOf(byte)
<1>1. CheckOf(byte) \in {"sum", "crc"}
  BY DEF CheckOf
<1>2. old \in TxType
  BY DEF TxFine, TxState
<1>3. t \in TxType /\ t.check = CheckOf(byte) /\ SameFile(t, old) /\ t.header = old.header
      /\ t.blk = old.blk /\ t.pos = old.pos /\ t.eof = old.eof /\ t.pc = old.pc
      /\ t.long = old.long /\ t.blocks = old.blocks /\ t.size = old.size
  BY <1>1, <1>2 DEF TxType, SameFile
<1> QED  BY <1>3 DEF TxFine, TxState, Counted, Rest

LEMMA PcFine ==
    ASSUME NEW old, TxFine(old), NEW pc \in TxPcs, NEW t, t = [old EXCEPT !.pc = pc]
    PROVE  /\ TxState(t) /\ SameFile(t, old) /\ t.header = old.header /\ t.blk = old.blk
           /\ t.pos = old.pos /\ t.eof = old.eof /\ t.pc = pc /\ t.eots = old.eots
<1>1. old \in TxType
  BY DEF TxFine, TxState
<1>2. t \in TxType /\ SameFile(t, old) /\ t.header = old.header
      /\ t.blk = old.blk /\ t.pos = old.pos /\ t.eof = old.eof /\ t.pc = pc
      /\ t.long = old.long /\ t.blocks = old.blocks /\ t.size = old.size
      /\ t.eots = old.eots
  BY <1>1 DEF TxType, SameFile
<1> QED  BY <1>2 DEF TxFine, TxState, Counted, Rest

LEMMA OnlyFacts == \A t : Only(t).t = t /\ Only(t).out = <<>> /\ <<>> \in Seq(Msg)
  BY DEF Only

LEMMA FineAnswer ==
    ASSUME NEW old, TxFine(old), NEW t, TxState(t), SameFile(t, old),
           t.pc \in {"answer", "can"}, old.pc \in TxPcs \ {"menu", "cancel", "purge"},
           t.header => t.ymodem /\ t.blk = 0
    PROVE  TxFine(t)
<1> USE DEF SameFile
<1>1. /\ t.ymodem = setting.txYmodem /\ t.size \in Sizes /\ t.next \in Seq(Sizes)
      /\ t.next # <<>> /\ setting.crc => setting.maxFaults < Eots
  BY DEF TxFine
<1> QED  BY <1>1 DEF TxFine

LEMMA FineNak1 ==
    ASSUME NEW old, TxFine(old), NEW t, TxState(t), SameFile(t, old),
           t.pc \in {"nak1", "can1"}, old.pc \in TxPcs \ {"menu", "cancel", "purge"},
           ~t.header, t.blk = 1
    PROVE  TxFine(t)
<1> USE DEF SameFile
<1>1. /\ t.ymodem = setting.txYmodem /\ t.size \in Sizes /\ t.next \in Seq(Sizes)
      /\ t.next # <<>> /\ setting.crc => setting.maxFaults < Eots
  BY DEF TxFine
<1> QED  BY <1>1 DEF TxFine

LEMMA FineCancel ==
    ASSUME NEW old, TxFine(old), NEW t, t = Cancel(old)
    PROVE  TxFine(t) /\ t.pc = "cancel" /\ t.next = old.next /\ SameFile(t, old)
<1>1. TxState(t) /\ SameFile(t, old) /\ t.pc = "cancel"
  BY PcFine DEF Cancel, TxPcs
<1>2. /\ old.ymodem = setting.txYmodem /\ old.next \in Seq(Sizes)
      /\ old.next # <<>> /\ setting.crc => setting.maxFaults < Eots
  BY DEF TxFine
<1> QED  BY <1>1, <1>2 DEF TxFine, SameFile

\* The header goes out.
HeaderOut(step, t) ==
    /\ TxState(step.t) /\ SameFile(step.t, t) /\ step.t.pc = "answer"
    /\ step.t.header = t.header /\ step.t.blk = t.blk
    /\ step.t.pos = t.pos /\ step.t.eof = t.eof
    /\ \E m \in BlockMsg :
        /\ step.out = <<m>>
        /\ m.num = 0 /\ m.check = t.check /\ m.flaw = "none" /\ m.head = FileHead(t.size)

LEMMA HeaderFacts ==
    ASSUME NEW t, TxState(t)
    PROVE  HeaderOut(Header(t), t)
<1> DEFINE u == [t EXCEPT !.pc = "answer"]
           m == Block(0, FALSE, t.check, FileHead(t.size), NoData(t.size))
<1>1. t \in TxType
  BY DEF TxState
<1>2. /\ u \in TxType /\ u.pc = "answer" /\ SameFile(u, t) /\ u.header = t.header
      /\ u.blk = t.blk /\ u.pos = t.pos /\ u.eof = t.eof /\ u.size = t.size
      /\ u.long = t.long /\ u.blocks = t.blocks
  BY <1>1 DEF TxType, TxPcs, SameFile
<1>3. t.size \in Nat /\ t.check \in {"sum", "crc"}
  BY <1>1 DEF TxType
<1>4. NoData(t.size) \in Datum /\ FileHead(t.size) \in Heads
  BY <1>3 DEF NoData, Datum, FileHead, Heads
<1>5. /\ m \in BlockMsg /\ m.num = 0 /\ m.check = t.check /\ m.flaw = "none"
      /\ m.head = FileHead(t.size)
  BY <1>3, <1>4 DEF Block, BlockMsg
<1>6. Header(t).t = u /\ Header(t).out = <<m>>
  BY DEF Header
<1> HIDE DEF u, m
<1>7. TxState(u)
  BY <1>2 DEF TxState, Counted, Rest
<1> QED  BY <1>2, <1>5, <1>6, <1>7 DEF HeaderOut

LEMMA WaitForNak0Fine ==
    ASSUME TxFine(tx), tx.pc = "nak0", NEW byte
    PROVE  FineStep(WaitForNak0(byte))
<1>1. CASE byte \in {"NAK", "C"}
  <2> DEFINE u == [tx EXCEPT !.check = CheckOf(byte)]
             step == Header(u)
  <2>1. TxState(u) /\ SameFile(u, tx) /\ u.header = tx.header /\ u.blk = tx.blk
        /\ u.pos = tx.pos /\ u.eof = tx.eof
    BY CheckFine
  <2>2. WaitForNak0(byte) = step
    BY <1>1 DEF WaitForNak0
  <2> HIDE DEF u
  <2>3. HeaderOut(step, u)
    BY <2>1, HeaderFacts
  <2> HIDE DEF step
  <2>4. tx.ymodem /\ tx.header /\ tx.blk = 0
    BY DEF TxFine
  <2>5. TxFine(step.t)
    <3>1. SameFile(step.t, tx) /\ TxState(step.t) /\ step.t.pc = "answer"
          /\ step.t.blk = tx.blk
      BY <2>1, <2>3 DEF HeaderOut, SameFile
    <3>2. step.t.ymodem
      BY <2>4, <3>1 DEF SameFile
    <3> QED  BY <2>4, <3>1, <3>2, FineAnswer DEF TxPcs
  <2> QED  BY <2>2, <2>3, <2>5, MsgTypes, OneMsg DEF FineStep, HeaderOut
<1>2. CASE byte \notin {"NAK", "C"}
  BY <1>2, OnlyFacts DEF WaitForNak0, FineStep
<1> QED  BY <1>1, <1>2

LEMMA IsNak1Fine ==
    ASSUME TxFine(tx), tx.pc \in {"nak1", "can1"}, NEW byte
    PROVE  FineStep(IsNak1(byte))
<1>0. /\ tx.ymodem = setting.txYmodem /\ tx.size \in Sizes /\ tx.next \in Seq(Sizes)
      /\ (tx.next # <<>> /\ setting.crc => setting.maxFaults < Eots)
      /\ ~tx.header /\ tx.blk = 1
  BY DEF TxFine, TxPcs
<1>1. CASE byte \in {"NAK", "C"}
  <2> DEFINE u == [tx EXCEPT !.check = CheckOf(byte)]
  <2>1. TxState(u) /\ SameFile(u, tx) /\ u.header = tx.header /\ u.blk = tx.blk
    BY CheckFine
  <2>2. IsNak1(byte) = SendBlock(u)
    BY <1>1 DEF IsNak1
  <2> HIDE DEF u
  <2>3. FineStep(SendBlock(u))
    BY <1>0, <2>1, SendBlockFine DEF SameFile
  <2> QED  BY <2>2, <2>3
<1>2. CASE byte \notin {"NAK", "C"}
  <2> DEFINE u == [tx EXCEPT !.pc = "nak1"]
  <2>1. TxState(u) /\ SameFile(u, tx) /\ u.header = tx.header /\ u.blk = tx.blk
        /\ u.pc = "nak1"
    BY PcFine DEF TxPcs
  <2>2. IsNak1(byte) = Only(u)
    BY <1>2 DEF IsNak1
  <2> HIDE DEF u
  <2>3. TxFine(u)
    BY <1>0, <2>1, FineNak1 DEF TxPcs
  <2> QED  BY <2>1, <2>2, <2>3, OnlyFacts DEF FineStep
<1> QED  BY <1>1, <1>2

LEMMA WaitForNak1Fine ==
    ASSUME TxFine(tx), tx.pc = "nak1", NEW byte
    PROVE  FineStep(WaitForNak1(byte))
<1>1. CASE byte = "CAN"
  <2> DEFINE u == [tx EXCEPT !.pc = "can1"]
  <2>1. TxState(u) /\ SameFile(u, tx) /\ u.header = tx.header /\ u.blk = tx.blk
        /\ u.pc = "can1"
    BY PcFine DEF TxPcs
  <2>2. WaitForNak1(byte) = Only(u)
    BY <1>1 DEF WaitForNak1
  <2> HIDE DEF u
  <2>3. ~tx.header /\ tx.blk = 1
    BY DEF TxFine
  <2>4. TxFine(u)
    BY <2>1, <2>3, FineNak1 DEF TxPcs
  <2> QED  BY <2>1, <2>2, <2>4, OnlyFacts DEF FineStep
<1>2. CASE byte # "CAN"
  BY <1>2, IsNak1Fine DEF WaitForNak1
<1> QED  BY <1>1, <1>2

LEMMA SecondCan1Fine ==
    ASSUME TxFine(tx), tx.pc = "can1", NEW byte
    PROVE  FineStep(SecondCan1(byte))
  BY IsNak1Fine, EndFileFine DEF SecondCan1

LEMMA NotYmodemHeaderFacts ==
    ASSUME NEW old, TxState(old), NEW t, t = NotYmodemHeader(old)
    PROVE  /\ TxState(t) /\ SameFile(t, old) /\ t.pc = "nak1" /\ ~t.header /\ t.blk = 1
           /\ t.pos = old.pos /\ t.eof = old.eof
<1>1. old \in TxType /\ 1 \in 0..(BlkMod - 1)
  BY LineAssumption DEF TxState
<1>2. /\ t \in TxType /\ SameFile(t, old) /\ t.pc = "nak1" /\ ~t.header /\ t.blk = 1
      /\ t.pos = old.pos /\ t.eof = old.eof /\ t.size = old.size /\ t.long = old.long
      /\ t.blocks = old.blocks
  BY <1>1 DEF NotYmodemHeader, TxType, TxPcs, SameFile
<1> QED  BY <1>2 DEF TxState, Counted, Rest

\* The next block is the next by its number.
LEMMA SendNextBlockFacts ==
    ASSUME NEW old, TxState(old), NEW t, t = [old EXCEPT !.blk = NextNum(@)],
           NEW step, step = SendNextBlock(old)
    PROVE  /\ TxState(t) /\ SameFile(t, old) /\ t.header = old.header
           /\ t.blk = NextNum(old.blk) /\ t.pos = old.pos /\ t.check = old.check
           /\ SendsBlock(step, t) \/ StartsEots(step, old)
<1>1. old \in TxType /\ old.blk \in 0..(BlkMod - 1)
  BY DEF TxState, TxType
<1>2. NextNum(old.blk) \in 0..(BlkMod - 1)
  BY <1>1, NextNumType
<1>3. /\ t \in TxType /\ SameFile(t, old) /\ t.header = old.header /\ t.pos = old.pos
      /\ t.blk = NextNum(old.blk) /\ t.eof = old.eof /\ t.size = old.size
      /\ t.long = old.long /\ t.blocks = old.blocks /\ t.check = old.check
  BY <1>1, <1>2 DEF TxType, SameFile
<1>4. TxState(t)
  BY <1>3 DEF TxState, Counted, Rest
<1>5. CASE old.eof
  <2>1. old.pos = old.size /\ step = SendEots(old)
    BY <1>5 DEF TxState, SendNextBlock
  <2> QED  BY <1>3, <1>4, <2>1, SendEotsFacts
<1>6. CASE ~old.eof
  <2>1. step = SendBlock(t)
    BY <1>6 DEF SendNextBlock
  <2>2. SendsBlock(step, t) \/ StartsEots(step, t)
    BY <1>4, <2>1, SendBlockFacts
  <2>3. StartsEots(step, t) => StartsEots(step, old)
    BY <1>3 DEF StartsEots, SameFile
  <2> QED  BY <1>3, <1>4, <2>2, <2>3
<1> QED  BY <1>5, <1>6

LEMMA SendsBlockFine ==
    ASSUME NEW old, TxFine(old), NEW t, SameFile(t, old),
           old.pc \in TxPcs \ {"menu", "cancel", "purge"},
           NEW step, SendsBlock(step, t), t.header => t.ymodem /\ t.blk = 0
    PROVE  FineStep(step)
<1>1. TxState(step.t) /\ SameFile(step.t, old) /\ step.t.pc = "answer"
      /\ step.t.header = t.header /\ step.t.blk = t.blk
      /\ step.t.ymodem = t.ymodem
  BY DEF SendsBlock, SameFile
<1>2. TxFine(step.t)
  BY <1>1, FineAnswer
<1>3. step.out \in Seq(Msg)
  BY MsgTypes, OneMsg DEF SendsBlock
<1> QED  BY <1>1, <1>2, <1>3 DEF FineStep

LEMMA WaitToSendFine ==
    ASSUME TxFine(tx), tx.pc = "answer", NEW byte
    PROVE  FineStep(WaitToSend(byte))
<1>0. /\ TxState(tx) /\ tx.ymodem = setting.txYmodem /\ tx.size \in Sizes
      /\ tx.next \in Seq(Sizes)
      /\ (tx.next # <<>> /\ setting.crc => setting.maxFaults < Eots)
      /\ (tx.header => tx.ymodem /\ tx.blk = 0)
  BY DEF TxFine, TxPcs
<1>1. CASE byte = "CAN"
  <2> DEFINE u == [tx EXCEPT !.pc = "can"]
  <2>1. TxState(u) /\ SameFile(u, tx) /\ u.header = tx.header /\ u.blk = tx.blk
        /\ u.pc = "can" /\ u.ymodem = tx.ymodem
    BY PcFine DEF TxPcs, SameFile
  <2>2. WaitToSend(byte) = Only(u)
    BY <1>1 DEF WaitToSend
  <2> HIDE DEF u
  <2>3. TxFine(u)
    BY <1>0, <2>1, FineAnswer DEF TxPcs
  <2> QED  BY <2>1, <2>2, <2>3, OnlyFacts DEF FineStep
<1>2. CASE byte = "NAK"
  <2>1. WaitToSend(byte) = SendBlock(tx)
    BY <1>2 DEF WaitToSend
  <2> QED  BY <1>0, <2>1, SendBlockFine
<1>3. CASE byte = "ACK" /\ tx.header
  <2> DEFINE u == NotYmodemHeader(tx)
  <2>1. WaitToSend(byte) = Only(u)
    BY <1>3 DEF WaitToSend
  <2>2. TxState(u) /\ SameFile(u, tx) /\ u.pc = "nak1" /\ ~u.header /\ u.blk = 1
    BY <1>0, NotYmodemHeaderFacts
  <2> HIDE DEF u
  <2>3. TxFine(u)
    BY <2>2, FineNak1 DEF TxPcs
  <2> QED  BY <2>1, <2>2, <2>3, OnlyFacts DEF FineStep
<1>4. CASE byte = "ACK" /\ ~tx.header
  <2> DEFINE u == [tx EXCEPT !.blk = NextNum(@)]
             step == SendNextBlock(tx)
  <2>1. WaitToSend(byte) = step
    BY <1>4 DEF WaitToSend
  <2>2. /\ TxState(u) /\ SameFile(u, tx) /\ u.header = tx.header
        /\ SendsBlock(step, u) \/ StartsEots(step, tx)
    BY <1>0, SendNextBlockFacts
  <2> HIDE DEF u, step
  <2>3. CASE SendsBlock(step, u)
    BY <1>4, <2>1, <2>2, <2>3, SendsBlockFine DEF TxPcs
  <2>4. CASE StartsEots(step, tx)
    BY <1>0, <2>1, <2>4, StartsEotsFine
  <2> QED  BY <2>2, <2>3, <2>4
<1>5. CASE byte \notin {"CAN", "NAK", "ACK"}
  BY <1>5, OnlyFacts DEF WaitToSend, FineStep
<1> QED  BY <1>1, <1>2, <1>3, <1>4, <1>5

LEMMA BackToAnswer ==
    ASSUME TxFine(tx), tx.pc = "can"
    PROVE  FineStep(Only([tx EXCEPT !.pc = "answer"]))
<1> DEFINE u == [tx EXCEPT !.pc = "answer"]
<1>1. TxState(u) /\ SameFile(u, tx) /\ u.header = tx.header /\ u.blk = tx.blk
      /\ u.pc = "answer" /\ u.ymodem = tx.ymodem
  BY PcFine DEF TxPcs, SameFile
<1> HIDE DEF u
<1>2. tx.header => tx.ymodem /\ tx.blk = 0
  BY DEF TxFine
<1>3. TxFine(u)
  BY <1>1, <1>2, FineAnswer DEF TxPcs
<1>4. FineStep(Only(u))
  BY <1>1, <1>3, OnlyFacts DEF FineStep
<1> QED  BY <1>4 DEF u

LEMMA BackToNak1 ==
    ASSUME TxFine(tx), tx.pc = "can1"
    PROVE  FineStep(Only([tx EXCEPT !.pc = "nak1"]))
<1> DEFINE u == [tx EXCEPT !.pc = "nak1"]
<1>1. TxState(u) /\ SameFile(u, tx) /\ u.header = tx.header /\ u.blk = tx.blk
      /\ u.pc = "nak1"
  BY PcFine DEF TxPcs, SameFile
<1> HIDE DEF u
<1>2. ~tx.header /\ tx.blk = 1
  BY DEF TxFine
<1>3. TxFine(u)
  BY <1>1, <1>2, FineNak1 DEF TxPcs
<1>4. FineStep(Only(u))
  BY <1>1, <1>3, OnlyFacts DEF FineStep
<1> QED  BY <1>4 DEF u

LEMMA SecondCanFine ==
    ASSUME TxFine(tx), tx.pc = "can", NEW byte
    PROVE  FineStep(SecondCan(byte))
  BY EndFileFine, BackToAnswer DEF SecondCan

\* The tries of an EOT.
AgainEot(step, t) ==
    /\ TxState(step.t) /\ SameFile(step.t, t) /\ step.t.pc = "eot"
    /\ step.t.eots = t.eots - 1 /\ step.out = <<Control("EOT", t.size)>>

LEMMA SendEotAgainFacts ==
    ASSUME TxFine(tx), tx.pc = "eot"
    PROVE  /\ tx.eots = 1 => SendEotAgain = Only(EndFile(tx))
           /\ tx.eots # 1 => AgainEot(SendEotAgain, tx)
           /\ tx.eots \in 1..Eots
<1>1. TxState(tx) /\ tx.eots \in 1..Eots /\ Eots \in Nat
  BY SendAssumption DEF TxFine
<1>2. CASE tx.eots # 1
  <2> DEFINE e == tx.eots - 1
             u == [tx EXCEPT !.eots = e]
  <2>1. e \in Nat /\ e = tx.eots - 1
    BY <1>1
  <2>2. SendEotAgain.t = u /\ SendEotAgain.out = <<Control("EOT", tx.size)>>
    BY <1>2 DEF SendEotAgain
  <2> HIDE DEF e
  <2>3. u \in TxType /\ SameFile(u, tx) /\ u.pc = tx.pc /\ u.eots = e
        /\ u.pos = tx.pos /\ u.eof = tx.eof /\ u.size = tx.size /\ u.long = tx.long
        /\ u.blocks = tx.blocks
    BY <1>1, <2>1 DEF TxState, TxType, SameFile
  <2> HIDE DEF u
  <2>4. TxState(u)
    BY <1>1, <2>3 DEF TxState, Counted, Rest
  <2> QED  BY <1>1, <1>2, <2>1, <2>2, <2>3, <2>4 DEF AgainEot
<1>3. CASE tx.eots = 1
  BY <1>1, <1>3 DEF SendEotAgain
<1> QED  BY <1>1, <1>2, <1>3

LEMMA SendEotAgainFine ==
    ASSUME TxFine(tx), tx.pc = "eot"
    PROVE  FineStep(SendEotAgain)
<1>1. CASE tx.eots = 1
  BY <1>1, SendEotAgainFacts, EndFileFine
<1>2. CASE tx.eots # 1
  <2> DEFINE step == SendEotAgain
  <2>1. /\ TxState(step.t) /\ SameFile(step.t, tx) /\ step.t.pc = "eot"
        /\ step.t.eots = tx.eots - 1 /\ step.out = <<Control("EOT", tx.size)>>
        /\ tx.eots \in 1..Eots
    BY <1>2, SendEotAgainFacts DEF AgainEot
  <2> HIDE DEF step
  <2>2. step.t.eots \in 1..Eots
    BY <1>2, <2>1, SendAssumption
  <2>3. /\ tx.ymodem = setting.txYmodem /\ tx.size \in Sizes
        /\ tx.next \in Seq(Sizes)
        /\ (tx.next # <<>> /\ setting.crc => setting.maxFaults < Eots)
    BY DEF TxFine, TxPcs
  <2>4. TxFine(step.t)
    BY <2>1, <2>2, <2>3 DEF TxFine, SameFile
  <2>5. step.out \in Seq(Msg)
    BY <2>1, <2>3, MsgTypes, OneMsg, SizesType
  <2>6. FineStep(step)
    BY <2>1, <2>4, <2>5 DEF FineStep
  <2> QED  BY <2>6 DEF step
<1> QED  BY <1>1, <1>2

LEMMA AnswerToEotFine ==
    ASSUME TxFine(tx), tx.pc = "eot", NEW byte
    PROVE  FineStep(AnswerToEot(byte))
  BY EndFileFine, SendEotAgainFine DEF AnswerToEot

\* What is done when a byte is read, or when none comes.
ReadStep(byte) ==
    CASE tx.pc = "nak0"   -> WaitForNak0(byte)
      [] tx.pc = "nak1"   -> WaitForNak1(byte)
      [] tx.pc = "can1"   -> SecondCan1(byte)
      [] tx.pc = "answer" -> WaitToSend(byte)
      [] tx.pc = "can"    -> SecondCan(byte)
      [] tx.pc = "eot"    -> AnswerToEot(byte)

\* What the sender does when it waits in vain.
TimeoutStep ==
    CASE tx.pc = "can1" -> Only([tx EXCEPT !.pc = "nak1"])
      [] tx.pc = "can"  -> Only([tx EXCEPT !.pc = "answer"])
      [] tx.pc = "eot"  -> SendEotAgain
      [] OTHER          -> Only(Cancel(tx))

\* The sender does a step of its program.
Does(step) == tx' = step.t /\ fwd' = fwd \o step.out

LEMMA TxReadFacts ==
    ASSUME TxFine(tx), TxRead
    PROVE  /\ Does(ReadStep(Head(back))) /\ FineStep(ReadStep(Head(back)))
           /\ back # <<>> /\ back' = Tail(back)
           /\ tx.pc \in {"nak0", "nak1", "can1", "answer", "can", "eot"}
<1>1. /\ Does(ReadStep(Head(back))) /\ back # <<>> /\ back' = Tail(back)
      /\ tx.pc \in {"nak0", "nak1", "can1", "answer", "can", "eot"}
  BY DEF TxRead, Goes, Does, ReadStep
<1>2. FineStep(ReadStep(Head(back)))
  <2>1. CASE tx.pc = "nak0"
    BY <2>1, WaitForNak0Fine DEF ReadStep
  <2>2. CASE tx.pc = "nak1"
    BY <2>2, WaitForNak1Fine DEF ReadStep
  <2>3. CASE tx.pc = "can1"
    BY <2>3, SecondCan1Fine DEF ReadStep
  <2>4. CASE tx.pc = "answer"
    BY <2>4, WaitToSendFine DEF ReadStep
  <2>5. CASE tx.pc = "can"
    BY <2>5, SecondCanFine DEF ReadStep
  <2>6. CASE tx.pc = "eot"
    BY <2>6, AnswerToEotFine DEF ReadStep
  <2> QED  BY <1>1, <2>1, <2>2, <2>3, <2>4, <2>5, <2>6
<1> QED  BY <1>1, <1>2

LEMMA TxTimeoutFacts ==
    ASSUME TxFine(tx), TxTimeout
    PROVE  /\ Does(TimeoutStep) /\ FineStep(TimeoutStep) /\ back' = back
           /\ tx.pc \in {"nak0", "nak1", "can1", "answer", "can", "eot"}
<1>1. /\ Does(TimeoutStep) /\ back' = back
      /\ tx.pc \in {"nak0", "nak1", "can1", "answer", "can", "eot"}
  BY DEF TxTimeout, Goes, Does, TimeoutStep
<1>2. FineStep(TimeoutStep)
  <2>1. CASE tx.pc = "can1"
    BY <2>1, BackToNak1 DEF TimeoutStep
  <2>2. CASE tx.pc = "can"
    BY <2>2, BackToAnswer DEF TimeoutStep
  <2>3. CASE tx.pc = "eot"
    BY <2>3, SendEotAgainFine DEF TimeoutStep
  <2>4. CASE tx.pc \notin {"can1", "can", "eot"}
    <3>1. TimeoutStep = Only(Cancel(tx))
      BY <2>4 DEF TimeoutStep
    <3>2. TxFine(Cancel(tx)) /\ Cancel(tx).pc = "cancel"
      BY FineCancel
    <3> QED  BY <3>1, <3>2, OnlyFacts DEF FineStep
  <2> QED  BY <2>1, <2>2, <2>3, <2>4
<1> QED  BY <1>1, <1>2

LEMMA RepeatType ==
    ASSUME NEW S, NEW x \in S
    PROVE  /\ Repeat(x) \in Seq(S) /\ Len(Repeat(x)) = Cans
           /\ \A k \in 1..Cans : Repeat(x)[k] = x
  BY LineAssumption DEF Repeat

\* Joining two sequences.
LEMMA Joined ==
    ASSUME NEW S, NEW q \in Seq(S), NEW r \in Seq(S)
    PROVE  /\ q \o r \in Seq(S) /\ Len(q \o r) = Len(q) + Len(r)
           /\ \A k \in 1..Len(q) : (q \o r)[k] = q[k]
           /\ \A k \in 1..(Len(q) + Len(r)) : k > Len(q) => (q \o r)[k] = r[k - Len(q)]
  OBVIOUS

LEMMA WithoutType ==
    ASSUME NEW S, NEW q \in Seq(S), NEW n \in 1..Len(q)
    PROVE  /\ Without(q, n) \in Seq(S)
           /\ Len(Without(q, n)) = Len(q) - 1
           /\ \A k \in 1..(Len(q) - 1) : \E i \in 1..Len(q) : Without(q, n)[k] = q[i]
<1>1. Len(q) - 1 \in Nat /\ \A k \in 1..(Len(q) - 1) : k \in 1..Len(q) /\ k + 1 \in 1..Len(q)
  OBVIOUS
<1>2. \A k \in 1..(Len(q) - 1) : (IF k < n THEN q[k] ELSE q[k + 1]) \in S
  BY <1>1
<1>3. \A k \in 1..(Len(q) - 1) :
        Without(q, n)[k] = IF k < n THEN q[k] ELSE q[k + 1]
  BY DEF Without
<1> QED  BY <1>1, <1>2, <1>3 DEF Without

----------------------------------------------------------------------------
(* Types: the line *)

LEMMA DamageType ==
    ASSUME fwd \in Seq(Msg), back \in Seq(Answers), NEW kind \in Faults, LineFits,
           DamageForward(kind) \/ DamageBack(kind)
    PROVE  fwd' \in Seq(Msg) /\ back' \in Seq(Answers)
<1>1. CASE DamageForward(kind)
  <2>1. back' = back
    BY <1>1 DEF DamageForward
  <2>2. PICK n \in 1..Len(fwd) :
            \/ kind = "lost" /\ fwd' = Without(fwd, n)
            \/ /\ fwd[n].kind = "block" /\ fwd[n].flaw = "none" /\ kind \in Flaws
               /\ fwd' = [fwd EXCEPT ![n].flaw = kind]
            \/ /\ fwd[n].kind = "block" /\ kind = "eot"
               /\ fwd' = [fwd EXCEPT ![n] = Control("EOT", fwd[n].data)]
            \/ /\ fwd[n].kind \in {"EOT", "CAN"} /\ kind = "noise"
               /\ fwd' = [fwd EXCEPT ![n].kind = "noise"]
    BY <1>1 DEF DamageForward
  <2>3. fwd[n] \in Msg /\ kind # "eot"
    BY DEF LineFits
  <2>4. CASE kind = "lost" /\ fwd' = Without(fwd, n)
    BY <2>1, <2>4, WithoutType
  <2>5. CASE /\ fwd[n].kind = "block" /\ fwd[n].flaw = "none" /\ kind \in Flaws
             /\ fwd' = [fwd EXCEPT ![n].flaw = kind]
    <3> DEFINE m == [fwd[n] EXCEPT !.flaw = kind]
    <3>1. fwd[n] \in BlockMsg
      BY <2>3, <2>5 DEF Msg, ByteMsg
    <3>2. m \in BlockMsg
      BY <2>5, <3>1 DEF BlockMsg
    <3>3. m \in Msg /\ fwd' = [fwd EXCEPT ![n] = m]
      BY <2>5, <3>2 DEF Msg
    <3> HIDE DEF m
    <3> QED  BY <2>1, <3>3
  <2>6. CASE /\ fwd[n].kind \in {"EOT", "CAN"} /\ kind = "noise"
             /\ fwd' = [fwd EXCEPT ![n].kind = "noise"]
    <3> DEFINE m == [fwd[n] EXCEPT !.kind = "noise"]
    <3>1. fwd[n] \in ByteMsg
      BY <2>3, <2>6 DEF Msg, BlockMsg
    <3>2. m \in ByteMsg
      BY <3>1 DEF ByteMsg
    <3>3. m \in Msg /\ fwd' = [fwd EXCEPT ![n] = m]
      BY <2>6, <3>2 DEF Msg
    <3> HIDE DEF m
    <3> QED  BY <2>1, <3>3
  <2> QED  BY <2>2, <2>3, <2>4, <2>5, <2>6
<1>2. CASE DamageBack(kind)
  <2>1. fwd' = fwd
    BY <1>2 DEF DamageBack
  <2>2. PICK n \in 1..Len(back) :
            \/ back' = Without(back, n)
            \/ back' = [back EXCEPT ![n] = "noise"]
    <3>1. DOMAIN back = 1..Len(back)
      OBVIOUS
    <3> QED  BY <1>2, <3>1 DEF DamageBack
  <2>3. CASE back' = Without(back, n)
    BY <2>1, <2>3, WithoutType
  <2>4. CASE back' = [back EXCEPT ![n] = "noise"]
    BY <2>1, <2>4 DEF Answers
  <2> QED  BY <2>2, <2>3, <2>4
<1> QED  BY <1>1, <1>2

----------------------------------------------------------------------------
(* Types: the receiver *)

\* All but pc, the number of tries and the nested calls is as it was.
SameRx(r, old) ==
    /\ r.ymodem = old.ymodem /\ r.check = old.check /\ r.blk = old.blk
    /\ r.open = old.open /\ r.blocks = old.blocks /\ r.bytes = old.bytes

LEMMA SendNakFacts ==
    ASSUME NEW old \in RxType, NEW r, r = SendNak(old)
    PROVE  /\ r \in RxType /\ SameRx(r, old)
           /\ r.pc = IF old.retries = 1 THEN "cancel" ELSE "purge"
<1> DEFINE n == old.retries - 1
           q == IF old.retries = 1 THEN "cancel" ELSE "purge"
<1>1. n \in Int /\ q \in RxPcs
  BY DEF RxType, RxPcs
<1>2. r = [old EXCEPT !.retries = n, !.pc = q]
  BY DEF SendNak
<1> HIDE DEF n
<1>3. r \in RxType /\ SameRx(r, old) /\ r.pc = q
  BY <1>1, <1>2 DEF RxType, SameRx
<1> QED  BY <1>3

LEMMA SendNaksFacts ==
    ASSUME NEW old \in RxType, NEW r, r = SendNaks(old)
    PROVE  /\ r \in RxType /\ SameRx(r, old) /\ r.pc = "purge"
<1> DEFINE u == [old EXCEPT !.retries = Retries]
<1>1. u \in RxType /\ SameRx(u, old) /\ u.retries = Retries /\ Retries # 1
  BY ReceiveAssumption DEF RxType, SameRx
<1>2. r = SendNak(u)
  BY DEF SendNaks
<1> HIDE DEF u
<1> QED  BY <1>1, <1>2, SendNakFacts DEF SameRx

LEMMA RxPcFacts ==
    ASSUME NEW old \in RxType, NEW pc \in RxPcs, NEW r, r = [old EXCEPT !.pc = pc]
    PROVE  r \in RxType /\ SameRx(r, old) /\ r.pc = pc /\ r.nest = old.nest
  BY DEF RxType, SameRx

LEMMA MainMenuFacts ==
    ASSUME NEW old \in RxType, NEW r, r = MainMenu(old)
    PROVE  /\ r \in RxType /\ r.ymodem = old.ymodem /\ r.check = old.check /\ r.pc = "menu"
           /\ r.nest = old.nest
  BY DEF RxType, RxPcs, MainMenu

LEMMA ReceiveYmodemFacts ==
    ASSUME NEW old \in RxType, NEW r, r = ReceiveYmodem(old)
    PROVE  /\ r \in RxType /\ r.ymodem = old.ymodem /\ r.check = old.check /\ r.pc = "purge"
           /\ r.blk = 0 /\ r.open = old.open
<1> DEFINE u == [old EXCEPT !.blk = 0]
<1>0. 0 \in 0..(BlkMod - 1)
  BY LineAssumption
<1>1. u \in RxType /\ u.ymodem = old.ymodem /\ u.check = old.check /\ u.blk = 0
      /\ u.open = old.open
  BY <1>0 DEF RxType
<1>2. r = SendNaks(u)
  BY DEF ReceiveYmodem
<1> HIDE DEF u
<1> QED  BY <1>1, <1>2, SendNaksFacts DEF SameRx

\* A file is opened.
OpenFile(r, blocks, bytes) ==
    SendNaks([r EXCEPT !.open = TRUE, !.blk = 1, !.blocks = blocks, !.bytes = bytes])

LEMMA ReceiveFileFacts ==
    ASSUME NEW old \in RxType, NEW blocks \in Int, NEW bytes \in Int, NEW r,
           r = OpenFile(old, blocks, bytes)
    PROVE  /\ r \in RxType /\ r.ymodem = old.ymodem /\ r.check = old.check /\ r.pc = "purge"
           /\ r.blk = 1 /\ r.open /\ r.blocks = blocks /\ r.bytes = bytes
<1> DEFINE u == [old EXCEPT !.open = TRUE, !.blk = 1, !.blocks = blocks, !.bytes = bytes]
<1>0. 1 \in 0..(BlkMod - 1)
  BY LineAssumption
<1>1. u \in RxType /\ u.ymodem = old.ymodem /\ u.check = old.check /\ u.blk = 1
      /\ u.open /\ u.blocks = blocks /\ u.bytes = bytes
  BY <1>0 DEF RxType
<1>2. r = SendNaks(u)
  BY DEF OpenFile
<1> HIDE DEF u
<1> QED  BY <1>1, <1>2, SendNaksFacts DEF SameRx

LEMMA SameRxState ==
    ASSUME NEW old, RxState(old), NEW r \in RxType, r.ymodem = old.ymodem, r.check = old.check
    PROVE  RxState(r)
  BY DEF RxState

LEMMA ReadsFacts ==
    ASSUME fwd \in Seq(Msg), NEW kind, Reads(kind)
    PROVE  /\ rx.pc = "block" /\ fwd # <<>> /\ fwd' = Tail(fwd) /\ fwd' \in Seq(Msg)
           /\ Head(fwd) = fwd[1] /\ fwd[1] \in Msg /\ fwd[1].kind = kind
           /\ kind = "block" => fwd[1] \in BlockMsg
           /\ kind # "block" => fwd[1] \in ByteMsg
           /\ Len(fwd') = Len(fwd) - 1 /\ Len(fwd) >= 1
<1>1. rx.pc = "block" /\ fwd # <<>> /\ fwd' = Tail(fwd) /\ Head(fwd).kind = kind
  BY DEF Reads
<1>2. /\ Head(fwd) \in Msg /\ Tail(fwd) \in Seq(Msg) /\ Head(fwd) = fwd[1]
      /\ Len(Tail(fwd)) = Len(fwd) - 1 /\ Len(fwd) >= 1
  BY <1>1, HeadTail
<1>3. \A m \in Msg : /\ m.kind = "block" => m \in BlockMsg
                     /\ m.kind # "block" => m \in ByteMsg
  BY DEF Msg, BlockMsg, ByteMsg
<1> QED  BY <1>1, <1>2, <1>3

\* The steps in which the receiver answers nothing: it goes on with a NAK to come, or
\* gives up, or is at the menu.
Quiet ==
    /\ rx' \in RxType /\ rx'.ymodem = rx.ymodem /\ rx'.check = rx.check
    /\ UNCHANGED <<file, saved, back>>
    /\ rx'.pc \in {"purge", "block", "can"} => SameRx(rx', rx)

LEMMA QuietFine ==
    ASSUME RxFine, Quiet, fwd' \in Seq(Msg), setting' = setting
    PROVE  RxFine'
<1>1. RxState(rx)'
  BY DEF RxState, RxFine, Quiet
<1> QED  BY <1>1 DEF RxFine, Quiet

LEMMA GiveUpFacts ==
    ASSUME NEW old \in RxType, NEW r, r = GiveUp(old)
    PROVE  r \in RxType /\ SameRx(r, old) /\ r.pc = "cancel"
  BY RxPcFacts DEF GiveUp, RxPcs

\* Reading without an answer.
LEMMA RxReadsQuiet ==
    ASSUME RxFine, RxReads
    PROVE  /\ Quiet /\ fwd # <<>> /\ fwd' = Tail(fwd) /\ fwd' \in Seq(Msg)
           /\ rx'.pc = "can" => rx.pc = "block" /\ fwd[1].kind = "CAN"
           /\ rx'.pc = "block" => FALSE
           /\ rx.pc \in {"purge", "cancel", "block", "can"}
           /\ rx.pc = "cancel" => rx'.pc \notin {"purge", "block", "can"}
           /\ rx.pc = "block" => Head(fwd) = fwd[1]
           /\ rx.pc = "block" /\ rx'.pc \in {"purge", "can"} =>
                /\ fwd[1].kind \in {"block", "noise", "CAN"}
                /\ fwd[1].kind = "block" => ~(Good(fwd[1]))
           /\ rx.pc = "purge" => rx'.pc = "purge"
<1>0. rx \in RxType /\ fwd \in Seq(Msg) /\ back \in Seq(Answers)
  BY DEF RxFine, RxState
<1>1. CASE PurgeByte
  <2>1. rx.pc \in {"purge", "cancel"} /\ fwd # <<>> /\ fwd' = Tail(fwd)
        /\ rx' = rx /\ UNCHANGED <<file, saved, back>>
    BY <1>1 DEF PurgeByte, rxVars
  <2>2. Tail(fwd) \in Seq(Msg)
    BY <1>0, <2>1, HeadTail
  <2> QED  BY <1>0, <2>1, <2>2 DEF Quiet, SameRx
<1>2. CASE RefuseBlock
  <2>1. Reads("block") /\ rx' = SendNak(rx) /\ UNCHANGED <<file, saved, back>>
    BY <1>2 DEF RefuseBlock
  <2>2. rx' \in RxType /\ SameRx(rx', rx) /\ rx'.pc \in {"cancel", "purge"}
    BY <1>0, <2>1, SendNakFacts
  <2>3. ~Good(Head(fwd))
    <3>1. NextNum(Head(fwd).num) = rx.blk /\ ~IsNext(Head(fwd)) => ~Good(Head(fwd))
      BY DEF Good
    <3> QED  BY <1>2 DEF RefuseBlock, Good, Intact
  <2> QED  BY <1>0, <2>1, <2>2, <2>3, ReadsFacts DEF Quiet, SameRx
<1>3. CASE OutOfSync
  <2>1. Reads("block") /\ rx' = GiveUp(rx) /\ UNCHANGED <<file, saved, back>>
    BY <1>3 DEF OutOfSync
  <2>2. rx' \in RxType /\ SameRx(rx', rx) /\ rx'.pc = "cancel"
    BY <1>0, <2>1, GiveUpFacts
  <2> QED  BY <1>0, <2>1, <2>2, ReadsFacts DEF Quiet, SameRx
<1>4. CASE LoseCrcByte
  <2> DEFINE n == rx.nest + 1
  <2>1. Reads("block") /\ rx' = [rx EXCEPT !.pc = "menu", !.nest = n]
        /\ UNCHANGED <<file, saved, back>>
    BY <1>4 DEF LoseCrcByte
  <2>2. n \in Int
    BY <1>0 DEF RxType
  <2> HIDE DEF n
  <2>3. rx' \in RxType /\ rx'.ymodem = rx.ymodem /\ rx'.check = rx.check /\ rx'.pc = "menu"
    BY <1>0, <2>1, <2>2 DEF RxType, RxPcs
  <2> QED  BY <1>0, <2>1, <2>3, ReadsFacts DEF Quiet
<1>5. CASE RefuseNoise
  <2>1. Reads("noise") /\ rx' = SendNak(rx) /\ UNCHANGED <<file, saved, back>>
    BY <1>5 DEF RefuseNoise
  <2>2. rx' \in RxType /\ SameRx(rx', rx) /\ rx'.pc \in {"cancel", "purge"}
    BY <1>0, <2>1, SendNakFacts
  <2> QED  BY <1>0, <2>1, <2>2, ReadsFacts DEF Quiet, SameRx
<1>6. CASE TakeCan
  <2>1. Reads("CAN") /\ rx' = [rx EXCEPT !.pc = "can"] /\ UNCHANGED <<file, saved, back>>
    BY <1>6 DEF TakeCan
  <2>2. rx' \in RxType /\ SameRx(rx', rx) /\ rx'.pc = "can"
    BY <1>0, <2>1, RxPcFacts DEF RxPcs
  <2> QED  BY <1>0, <2>1, <2>2, ReadsFacts DEF Quiet, SameRx
<1>7. CASE SecondByte
  <2>1. rx.pc = "can" /\ fwd # <<>> /\ fwd' = Tail(fwd) /\ UNCHANGED <<file, saved, back>>
        /\ (rx' = MainMenu(rx) \/ rx' = SendNak(rx))
    BY <1>7 DEF SecondByte
  <2>2. Tail(fwd) \in Seq(Msg)
    BY <1>0, <2>1, HeadTail
  <2>3. CASE rx' = MainMenu(rx)
    <3>1. rx' \in RxType /\ rx'.ymodem = rx.ymodem /\ rx'.check = rx.check /\ rx'.pc = "menu"
      BY <1>0, <2>3, MainMenuFacts
    <3> QED  BY <1>0, <2>1, <2>2, <3>1 DEF Quiet
  <2>4. CASE rx' = SendNak(rx)
    <3>1. rx' \in RxType /\ SameRx(rx', rx) /\ rx'.pc \in {"cancel", "purge"}
      BY <1>0, <2>4, SendNakFacts
    <3> QED  BY <1>0, <2>1, <2>2, <3>1 DEF Quiet, SameRx
  <2> QED  BY <2>1, <2>3, <2>4
<1> QED  BY <1>1, <1>2, <1>3, <1>4, <1>5, <1>6, <1>7 DEF RxReads

\* What follows silence.
LEMMA RxTimeoutQuiet ==
    ASSUME RxFine, RxTimeout
    PROVE  /\ Quiet /\ fwd' = fwd /\ rx'.pc \in {"purge", "cancel"}
           /\ rx.pc \in {"block", "can"}
<1>0. rx \in RxType
  BY DEF RxFine, RxState
<1>1. rx' = SendNak(rx) /\ UNCHANGED <<file, saved, back, fwd>> /\ rx.pc \in {"block", "can"}
  BY DEF RxTimeout, line
<1>2. rx' \in RxType /\ SameRx(rx', rx) /\ rx'.pc \in {"cancel", "purge"}
  BY <1>0, <1>1, SendNakFacts
<1> QED  BY <1>1, <1>2 DEF Quiet, SameRx

LEMMA TransmitNakFacts ==
    ASSUME RxFine, TransmitNak(TRUE)
    PROVE  /\ rx.pc = "purge" /\ rx'.pc = "block" /\ rx' \in RxType /\ SameRx(rx', rx)
           /\ fwd = <<>> /\ fwd' = <<>> /\ UNCHANGED <<file, saved>>
           /\ back' = Append(back, Ask) /\ Ask \in Answers
<1>0. rx \in RxType /\ rx.check = IF setting.crc THEN "crc" ELSE "sum"
  BY DEF RxFine, RxState
<1>1. /\ rx.pc = "purge" /\ rx' = [rx EXCEPT !.pc = "block"] /\ fwd = <<>>
      /\ UNCHANGED <<file, saved, fwd>>
      /\ back' = Append(back, IF rx.check = "crc" THEN "C" ELSE "NAK")
  BY DEF TransmitNak
<1>2. rx' \in RxType /\ SameRx(rx', rx) /\ rx'.pc = "block"
  BY <1>0, <1>1, RxPcFacts DEF RxPcs
<1>3. (IF rx.check = "crc" THEN "C" ELSE "NAK") = Ask
  BY <1>0 DEF Ask
<1>4. Ask \in Answers
  BY DEF Ask, Answers
<1> QED  BY <1>1, <1>2, <1>3, <1>4

LEMMA TransmitCansFacts ==
    ASSUME RxFine, TransmitCans(TRUE)
    PROVE  /\ rx' \in RxType /\ rx'.ymodem = rx.ymodem /\ rx'.check = rx.check
           /\ rx'.pc = "menu" /\ UNCHANGED <<file, saved, fwd>>
           /\ back' \in Seq(Answers)
<1>0. rx \in RxType /\ back \in Seq(Answers)
  BY DEF RxFine, RxState
<1>1. rx' = MainMenu(rx) /\ UNCHANGED <<file, saved, fwd>> /\ back' = back \o Repeat("CAN")
  BY DEF TransmitCans
<1>2. Repeat("CAN") \in Seq(Answers)
  BY RepeatType DEF Answers
<1>3. back' \in Seq(Answers)
  BY <1>0, <1>1, <1>2, Joined
<1> QED  BY <1>0, <1>1, <1>3, MainMenuFacts

\* Taking what is right.
LEMMA TakeHeaderFacts ==
    ASSUME RxFine, TakeHeader(TRUE, TRUE), NEW m, m = fwd[1]
    PROVE  /\ rx.pc = "block" /\ ~rx.open /\ fwd # <<>> /\ m \in BlockMsg /\ Good(m)
           /\ fwd' = Tail(fwd) /\ fwd' \in Seq(Msg) /\ back' = Append(back, "ACK")
           /\ UNCHANGED saved /\ file' \in Seq(Piece)
           /\ rx' \in RxType /\ rx'.ymodem = rx.ymodem /\ rx'.check = rx.check
           /\ rx'.pc \in {"menu", "purge"}
           /\ \A size \in Nat : m.head = FileHead(size) =>
                /\ rx'.pc = "purge" /\ rx'.open /\ rx'.blk = 1 /\ file' = <<>>
                /\ rx'.blocks = size \div Short /\ rx'.bytes = size % Short
<1>0. rx \in RxType /\ fwd \in Seq(Msg) /\ back \in Seq(Answers) /\ file \in Seq(Piece)
  BY DEF RxFine, RxState
<1>1. /\ Reads("block") /\ ~rx.open /\ Good(Head(fwd)) /\ back' = Append(back, "ACK")
      /\ UNCHANGED saved
      /\ file' = IF Head(fwd).head.is # "end" THEN <<>> ELSE file
      /\ rx' = IF Head(fwd).head.is = "end" THEN MainMenu(rx)
               ELSE IF Head(fwd).head.is = "file"
               THEN OpenFile(rx, Head(fwd).head.size \div Short, Head(fwd).head.size % Short)
               ELSE OpenFile(rx, MaxBlocks, 0)
  BY DEF TakeHeader, ReceiveFile, OpenFile
<1>2. /\ rx.pc = "block" /\ fwd # <<>> /\ fwd' = Tail(fwd) /\ fwd' \in Seq(Msg)
      /\ Head(fwd) = m /\ m \in BlockMsg
  BY <1>0, <1>1, ReadsFacts
<1>3. m.head \in Heads
  BY <1>2 DEF BlockMsg
<1>4. /\ Good(m)
      /\ file' = IF m.head.is # "end" THEN <<>> ELSE file
      /\ rx' = IF m.head.is = "end" THEN MainMenu(rx)
               ELSE IF m.head.is = "file"
               THEN OpenFile(rx, m.head.size \div Short, m.head.size % Short)
               ELSE OpenFile(rx, MaxBlocks, 0)
  BY <1>1, <1>2
<1>5. file' \in Seq(Piece)
  BY <1>0, <1>4
<1>6. CASE m.head.is = "end"
  <2>1. rx' = MainMenu(rx)
    BY <1>4, <1>6
  <2>2. \A size \in Nat : m.head # FileHead(size)
    BY <1>6 DEF FileHead
  <2> QED  BY <1>0, <1>1, <1>2, <1>4, <1>5, <2>1, <2>2, MainMenuFacts
<1>7. CASE m.head.is = "none"
  <2>1. rx' = OpenFile(rx, MaxBlocks, 0)
    BY <1>4, <1>7
  <2>2. \A size \in Nat : m.head # FileHead(size)
    BY <1>7 DEF FileHead
  <2>3. MaxBlocks \in Int
    BY ReceiveAssumption
  <2>4. rx' \in RxType /\ rx'.ymodem = rx.ymodem /\ rx'.check = rx.check /\ rx'.pc = "purge"
    BY <1>0, <2>1, <2>3, ReceiveFileFacts
  <2> QED  BY <1>1, <1>2, <1>4, <1>5, <2>2, <2>4
<1>8. CASE m.head.is = "file"
  <2>1. m.head.size \in Nat
    BY <1>3, <1>8 DEF Heads, NoHead, EndHead
  <2> DEFINE a == m.head.size \div Short
             b == m.head.size % Short
  <2>2. a \in Int /\ b \in Int
    BY <2>1, Division, LineAssumption
  <2>3. rx' = OpenFile(rx, a, b) /\ file' = <<>>
    BY <1>4, <1>8
  <2>4. \A size \in Nat : m.head = FileHead(size) => a = size \div Short /\ b = size % Short
    BY DEF FileHead
  <2> HIDE DEF a, b
  <2>5. /\ rx' \in RxType /\ rx'.ymodem = rx.ymodem /\ rx'.check = rx.check /\ rx'.pc = "purge"
        /\ rx'.blk = 1 /\ rx'.open /\ rx'.blocks = a /\ rx'.bytes = b
    BY <1>0, <2>2, <2>3, ReceiveFileFacts
  <2> QED  BY <1>1, <1>2, <1>4, <1>5, <2>3, <2>4, <2>5
<1>9. m.head.is \in {"end", "none", "file"}
  BY <1>3 DEF Heads, NoHead, EndHead
<1> QED  BY <1>6, <1>7, <1>8, <1>9

LEMMA KeptType ==
    ASSUME rx \in RxType, NEW m \in BlockMsg
    PROVE  Left(m) \in Int /\ Kept(m) \in Int
<1>1. rx.blocks \in Int /\ rx.bytes \in Int /\ m.long \in BOOLEAN /\ Short \in Nat
  BY LineAssumption DEF RxType, BlockMsg
<1>2. Units(m.long) \in Nat /\ Width(m.long) \in Nat
  BY <1>1, Widths
<1> DEFINE c == rx.blocks % 256
<1>3. c \in Int
  BY <1>1, Z3
<1> HIDE DEF c
<1>4. c * Short + rx.bytes \in Int
  BY <1>1, <1>3, Z3
<1>5. Kept(m) = IF Left(m) >= 0 THEN Width(m.long) ELSE c * Short + rx.bytes
  BY DEF Kept, c
<1> QED  BY <1>1, <1>2, <1>4, <1>5 DEF Left

LEMMA TakeBlockFacts ==
    ASSUME RxFine, TakeBlock(TRUE, TRUE), NEW m, m = fwd[1]
    PROVE  /\ rx.pc = "block" /\ rx.open /\ fwd # <<>> /\ m \in BlockMsg /\ Good(m)
           /\ fwd' = Tail(fwd) /\ fwd' \in Seq(Msg) /\ back' = Append(back, "ACK")
           /\ UNCHANGED saved
           /\ Kept(m) \in Int /\ file' = Append(file, [data |-> m.data, keep |-> Kept(m)])
           /\ rx' \in RxType /\ rx'.ymodem = rx.ymodem /\ rx'.check = rx.check
           /\ rx'.pc = "block" /\ rx'.open /\ rx'.bytes = rx.bytes
           /\ rx'.blk = NextNum(rx.blk)
           /\ rx'.blocks = IF Left(m) >= 0 THEN Left(m) ELSE Kept(m)
<1>0. rx \in RxType /\ fwd \in Seq(Msg) /\ back \in Seq(Answers) /\ file \in Seq(Piece)
  BY DEF RxFine, RxState
<1> DEFINE b == IF Left(m) >= 0 THEN Left(m) ELSE Kept(m)
           n == NextNum(rx.blk)
<1>1. Reads("block") /\ rx.open
  BY DEF TakeBlock
<1>2. /\ rx.pc = "block" /\ fwd # <<>> /\ fwd' = Tail(fwd) /\ fwd' \in Seq(Msg)
      /\ Head(fwd) = m /\ m \in BlockMsg
  BY <1>0, <1>1, ReadsFacts
<1>3. /\ Good(m) /\ back' = Append(back, "ACK") /\ UNCHANGED saved
      /\ rx' = [rx EXCEPT !.blocks = b, !.blk = n, !.retries = Retries]
      /\ file' = Append(file, [data |-> m.data, keep |-> Kept(m)])
  BY <1>2 DEF TakeBlock
<1>4. b \in Int /\ Kept(m) \in Int
  BY <1>0, <1>2, KeptType
<1>5. n \in 0..(BlkMod - 1)
  BY <1>0, NextNumType DEF RxType
<1>6. b = IF Left(m) >= 0 THEN Left(m) ELSE Kept(m)
  OBVIOUS
<1>7. n = NextNum(rx.blk)
  OBVIOUS
<1> HIDE DEF b, n
<1>8. /\ rx' \in RxType /\ rx'.ymodem = rx.ymodem /\ rx'.check = rx.check
      /\ rx'.pc = rx.pc /\ rx'.open = rx.open /\ rx'.bytes = rx.bytes
      /\ rx'.blk = n /\ rx'.blocks = b
  <2>1. Retries \in Int
    BY ReceiveAssumption
  <2> QED  BY <1>0, <1>3, <1>4, <1>5, <2>1 DEF RxType
<1> QED  BY <1>1, <1>2, <1>3, <1>4, <1>6, <1>7, <1>8

LEMMA TakeEotFacts ==
    ASSUME RxFine, TakeEot(TRUE), NEW m, m = fwd[1]
    PROVE  /\ rx.pc = "block" /\ fwd # <<>> /\ m \in ByteMsg /\ m.kind = "EOT" /\ Head(fwd) = m
           /\ fwd' = Tail(fwd) /\ fwd' \in Seq(Msg) /\ back' = Append(back, "ACK")
           /\ saved' = IF rx.open THEN Append(saved, file) ELSE saved
           /\ file' = file
           /\ rx' \in RxType /\ rx'.ymodem = rx.ymodem /\ rx'.check = rx.check
           /\ rx.ymodem => rx'.pc = "purge" /\ ~rx'.open /\ rx'.blk = 0
           /\ ~rx.ymodem => rx'.pc = "menu"
<1>0. rx \in RxType /\ fwd \in Seq(Msg) /\ back \in Seq(Answers) /\ file \in Seq(Piece)
  BY DEF RxFine, RxState
<1>1. /\ Reads("EOT") /\ back' = Append(back, "ACK") /\ file' = file
      /\ saved' = IF rx.open THEN Append(saved, file) ELSE saved
      /\ rx' = IF rx.ymodem THEN ReceiveYmodem([rx EXCEPT !.open = FALSE]) ELSE MainMenu(rx)
  BY DEF TakeEot
<1>2. /\ rx.pc = "block" /\ fwd # <<>> /\ fwd' = Tail(fwd) /\ fwd' \in Seq(Msg)
      /\ Head(fwd) = m /\ m \in ByteMsg /\ m.kind = "EOT"
  BY <1>0, <1>1, ReadsFacts
<1>3. CASE ~rx.ymodem
  <2>1. rx' = MainMenu(rx)
    BY <1>1, <1>3
  <2>2. rx' \in RxType /\ rx'.ymodem = rx.ymodem /\ rx'.check = rx.check /\ rx'.pc = "menu"
    BY <1>0, <2>1, MainMenuFacts
  <2> QED  BY <1>1, <1>2, <1>3, <2>2
<1>4. CASE rx.ymodem
  <2> DEFINE u == [rx EXCEPT !.open = FALSE]
  <2>1. u \in RxType /\ u.ymodem = rx.ymodem /\ u.check = rx.check /\ u.open = FALSE
    BY <1>0 DEF RxType
  <2>2. rx' = ReceiveYmodem(u)
    BY <1>1, <1>4
  <2> HIDE DEF u
  <2>3. /\ rx' \in RxType /\ rx'.ymodem = u.ymodem /\ rx'.check = u.check /\ rx'.pc = "purge"
        /\ rx'.blk = 0 /\ rx'.open = u.open
    BY <2>1, <2>2, ReceiveYmodemFacts
  <2> QED  BY <1>1, <1>2, <1>4, <2>1, <2>3
<1> QED  BY <1>3, <1>4

\* Every step of the receiver, as to types.
LEMMA ReceiverFine ==
    ASSUME RxFine, Receiver, setting' = setting
    PROVE  RxFine'
<1>0. /\ rx \in RxType /\ fwd \in Seq(Msg) /\ back \in Seq(Answers) /\ file \in Seq(Piece)
      /\ RxState(rx)
  BY DEF RxFine, RxState
<1>1. Append(back, "ACK") \in Seq(Answers)
  BY <1>0 DEF Answers
<1>2. CASE RxReads
  BY <1>2, RxReadsQuiet, QuietFine
<1>3. CASE RxTimeout
  BY <1>0, <1>3, RxTimeoutQuiet, QuietFine
<1>4. ASSUME rx' \in RxType, rx'.ymodem = rx.ymodem, rx'.check = rx.check,
             fwd' \in Seq(Msg), back' \in Seq(Answers), file' \in Seq(Piece)
      PROVE  RxFine'
  <2>1. RxState(rx)'
    BY <1>0, <1>4 DEF RxState
  <2> QED  BY <1>4, <2>1 DEF RxFine
<1>5. CASE TransmitNak(TRUE)
  <2>1. /\ rx' \in RxType /\ SameRx(rx', rx) /\ fwd' = <<>> /\ file' = file
        /\ back' = Append(back, Ask) /\ Ask \in Answers
    BY <1>5, TransmitNakFacts
  <2> QED  BY <1>0, <1>4, <2>1 DEF SameRx
<1>6. CASE TransmitCans(TRUE)
  <2>1. /\ rx' \in RxType /\ rx'.ymodem = rx.ymodem /\ rx'.check = rx.check
        /\ UNCHANGED <<file, fwd>> /\ back' \in Seq(Answers)
    BY <1>6, TransmitCansFacts
  <2> QED  BY <1>0, <1>4, <2>1
<1>7. CASE TakeHeader(TRUE, TRUE)
  BY <1>0, <1>1, <1>4, <1>7, TakeHeaderFacts
<1>8. CASE TakeBlock(TRUE, TRUE)
  <2>1. /\ rx' \in RxType /\ rx'.ymodem = rx.ymodem /\ rx'.check = rx.check
        /\ fwd[1] \in BlockMsg /\ fwd' \in Seq(Msg) /\ back' = Append(back, "ACK")
        /\ Kept(fwd[1]) \in Int /\ file' = Append(file, [data |-> fwd[1].data, keep |-> Kept(fwd[1])])
    BY <1>8, TakeBlockFacts
  <2>2. [data |-> fwd[1].data, keep |-> Kept(fwd[1])] \in Piece
    BY <2>1 DEF Piece, BlockMsg
  <2>3. file' \in Seq(Piece)
    BY <1>0, <2>1, <2>2
  <2> QED  BY <1>0, <1>1, <1>4, <2>1, <2>3
<1>9. CASE TakeEot(TRUE)
  BY <1>0, <1>1, <1>4, <1>9, TakeEotFacts
<1> QED  BY <1>2, <1>3, <1>5, <1>6, <1>7, <1>8, <1>9 DEF Receiver, RxTakes, RxSilent

----------------------------------------------------------------------------
(* Types and order are kept *)

LEMMA TxFinePrime ==
    ASSUME NEW t, TxFine(t), setting' = setting, tx' = t
    PROVE  TxFine(tx)'
<1>1. Sizes' = Sizes
  BY DEF Sizes
<1> QED  BY <1>1 DEF TxFine

LEMMA SettingFacts ==
    ASSUME LineFits, setting \in Settings
    PROVE  /\ SettingFits(setting) /\ setting.txYmodem \in BOOLEAN
           /\ setting.rxYmodem = setting.txYmodem /\ setting.crc \in BOOLEAN
           /\ setting.block1k \in BOOLEAN /\ setting.maxFaults \in Nat
           /\ Ratio <= 256 /\ "eot" \notin Faults
  BY DEF LineFits, SettingFits

\* The files that the user sends.
LEMMA KeySendFacts ==
    ASSUME LineFits, setting \in Settings, TxFine(tx), back \in Seq(Answers),
           NEW sizes \in setting.batches, KeySend(sizes)
    PROVE  /\ tx.pc = "menu" /\ fwd' = fwd /\ TxFine(tx') /\ Fresh(tx') /\ sizes # <<>>
           /\ tx'.size \in Sizes
           /\ tx'.ymodem = setting.txYmodem
           /\ tx'.pc = IF setting.txYmodem THEN "nak0" ELSE "nak1"
           /\ back' \in Seq(Answers) /\ Len(back') <= 1
           /\ \A k \in 1..Len(back') : \E i \in 1..Len(back) : back'[k] = back[i]
<1>1. sizes \in Seq(Sizes) /\ sizes # <<>> /\ (setting.crc /\ Len(sizes) > 1 => setting.maxFaults < Eots)
  BY DEF LineFits, SettingFits, Sizes
<1>2. /\ Head(sizes) \in Sizes /\ Tail(sizes) \in Seq(Sizes) /\ Len(Tail(sizes)) = Len(sizes) - 1
      /\ Len(sizes) \in Nat /\ Len(sizes) >= 1
  BY <1>1, HeadTail
<1>3. Head(sizes) \in Nat /\ Tail(sizes) \in Seq(Nat)
  <2> DEFINE q == Tail(sizes)
  <2>1. q \in Seq(Sizes) /\ Sizes \subseteq Nat
    BY <1>2, SizesType
  <2> HIDE DEF q
  <2>2. q \in Seq(Nat)
    BY <2>1, WiderSeq
  <2> QED  BY <1>2, <2>1, <2>2 DEF q
<1>4. Tail(sizes) # <<>> => Len(sizes) > 1
  BY <1>2
<1> DEFINE u == [tx EXCEPT !.next = Tail(sizes)]
           h == Head(sizes)
<1>5. tx \in TxType /\ tx.ymodem = setting.txYmodem
  BY DEF TxFine, TxState
<1>6. u \in TxType /\ u.next = Tail(sizes) /\ u.ymodem = setting.txYmodem
  BY <1>3, <1>5 DEF TxType
<1>7. /\ tx.pc = "menu" /\ fwd' = fwd /\ tx' = SendFile(u, h)
      /\ back' \in {<<>>} \cup {<<back[n]>> : n \in {Len(back)} \ {0}}
  BY DEF KeySend
<1> HIDE DEF u
<1>8. h \in Nat
  BY <1>3
<1>9. LET t == SendFile(u, h)
      IN  /\ TxState(t) /\ Fresh(t) /\ t.size = h
          /\ t.next = u.next /\ t.ymodem = u.ymodem
          /\ t.pc = IF u.ymodem THEN "nak0" ELSE "nak1"
          /\ u.ymodem => t.header /\ t.blk = 0
          /\ ~u.ymodem => ~t.header /\ t.blk = 1
  BY <1>6, <1>8, SendFileFacts
<1>10. /\ TxState(tx') /\ Fresh(tx') /\ tx'.size = h /\ tx'.next = Tail(sizes)
       /\ tx'.ymodem = setting.txYmodem
       /\ tx'.pc = IF setting.txYmodem THEN "nak0" ELSE "nak1"
       /\ setting.txYmodem => tx'.header /\ tx'.blk = 0
       /\ ~setting.txYmodem => ~tx'.header /\ tx'.blk = 1
  BY <1>6, <1>7, <1>9
<1>11. TxFine(tx')
  BY <1>1, <1>2, <1>4, <1>10, SettingFacts DEF TxFine
<1>12. /\ back' \in Seq(Answers) /\ Len(back') <= 1
       /\ \A k \in 1..Len(back') : \E i \in 1..Len(back) : back'[k] = back[i]
  <2>1. CASE back' = <<>>
    BY <2>1
  <2>2. CASE back' # <<>>
    <3>1. back' = <<back[Len(back)]>> /\ Len(back) # 0
      BY <1>7, <2>2
    <3>2. Len(back) \in 1..Len(back)
      BY <3>1
    <3>3. back[Len(back)] \in Answers
      BY <3>2
    <3> QED  BY <3>1, <3>2, <3>3
  <2> QED  BY <2>1, <2>2
<1> QED  BY <1>1, <1>2, <1>7, <1>10, <1>11, <1>12

\* What the sender's program does, as to types: what it is at, and what is under way.
TxMoves ==
    /\ TxFine(tx') /\ fwd' \in Seq(Msg) /\ back' \in Seq(Answers)
    /\ tx'.pc \in {"menu", "purge"} => tx'.next = <<>>
    /\ tx.pc # "menu"

LEMMA SenderMoves ==
    ASSUME TxFine(tx), fwd \in Seq(Msg), back \in Seq(Answers), Sender,
           tx.pc = "purge" => tx.next = <<>>
    PROVE  TxMoves
<1>1. CASE TxRead
  <2> DEFINE step == ReadStep(Head(back))
  <2>1. /\ Does(step) /\ FineStep(step) /\ back # <<>> /\ back' = Tail(back) /\ tx.pc # "menu"
    BY <1>1, TxReadFacts
  <2> HIDE DEF step
  <2>2. back' \in Seq(Answers)
    BY <2>1, HeadTail
  <2>3. fwd' \in Seq(Msg)
    BY <2>1, Joined DEF Does, FineStep
  <2> QED  BY <2>1, <2>2, <2>3 DEF TxMoves, Does, FineStep
<1>2. CASE TxSilence
  <2> DEFINE step == TimeoutStep
  <2>1. Does(step) /\ FineStep(step) /\ back' = back /\ tx.pc # "menu"
    BY <1>2, TxTimeoutFacts DEF TxSilence
  <2> HIDE DEF step
  <2>2. fwd' \in Seq(Msg)
    BY <2>1, Joined DEF Does, FineStep
  <2> QED  BY <2>1, <2>2 DEF TxMoves, Does, FineStep
<1>3. CASE TxPurge
  <2>1. tx.pc \in {"cancel", "purge"} /\ back # <<>> /\ back' = Tail(back)
        /\ tx' = tx /\ fwd' = fwd
    BY <1>3 DEF TxPurge
  <2>2. back' \in Seq(Answers)
    BY <2>1, HeadTail
  <2> QED  BY <2>1, <2>2 DEF TxMoves
<1>4. CASE TxPurged
  <2>1. /\ tx.pc \in {"cancel", "purge"} /\ back' = back
        /\ tx' = IF tx.pc = "cancel" THEN EndFile(tx) ELSE [tx EXCEPT !.pc = "menu"]
        /\ fwd' = IF tx.pc = "cancel" THEN fwd \o Repeat(Control("CAN", 0)) ELSE fwd
    BY <1>4 DEF TxPurged
  <2>2. Repeat(Control("CAN", 0)) \in Seq(Msg)
    BY MsgTypes, RepeatType
  <2>3. fwd' \in Seq(Msg)
    BY <2>1, <2>2, Joined
  <2>4. CASE tx.pc = "cancel"
    <3>1. FineStep(Only(EndFile(tx)))
      BY EndFileFine
    <3>2. TxFine(tx') /\ (tx'.pc \in {"menu", "purge"} => tx'.next = <<>>)
      BY <2>1, <2>4, <3>1, OnlyFacts DEF FineStep
    <3> QED  BY <2>1, <2>3, <2>4, <3>2 DEF TxMoves
  <2>5. CASE tx.pc = "purge"
    <3>1. tx' = [tx EXCEPT !.pc = "menu"]
      BY <2>1, <2>5
    <3>2. TxState(tx') /\ SameFile(tx', tx) /\ tx'.pc = "menu"
      BY <3>1, PcFine DEF TxPcs
    <3>3. TxFine(tx')
      BY <3>2 DEF TxFine, SameFile
    <3> QED  BY <2>1, <2>3, <2>5, <3>2, <3>3 DEF TxMoves, SameFile
  <2> QED  BY <2>1, <2>4, <2>5
<1> QED  BY <1>1, <1>2, <1>3, <1>4 DEF Sender

LEMMA KeyReceiveFacts ==
    ASSUME RxFine, KeyReceive(TRUE)
    PROVE  /\ rx.pc = "menu" /\ rx' \in RxType /\ rx'.ymodem = rx.ymodem
           /\ rx'.check = rx.check /\ rx'.pc = "purge"
           /\ file' \in Seq(Piece) /\ UNCHANGED <<saved, fwd, back>>
           /\ rx.ymodem => rx'.blk = 0 /\ rx'.open = rx.open
           /\ ~rx.ymodem => /\ rx'.blk = 1 /\ rx'.open /\ rx'.blocks = MaxBlocks /\ rx'.bytes = 0
                            /\ file' = <<>>
<1>0. rx \in RxType /\ file \in Seq(Piece) /\ MaxBlocks \in Int
  BY ReceiveAssumption DEF RxFine, RxState
<1>1. /\ rx.pc = "menu" /\ UNCHANGED <<saved, fwd, back>>
      /\ rx' = IF rx.ymodem THEN ReceiveYmodem(rx) ELSE OpenFile(rx, MaxBlocks, 0)
      /\ file' = IF ~rx.ymodem THEN <<>> ELSE file
  BY DEF KeyReceive, line, ReceiveFile, OpenFile
<1>2. CASE rx.ymodem
  <2>1. rx' = ReceiveYmodem(rx)
    BY <1>1, <1>2
  <2> QED  BY <1>0, <1>1, <1>2, <2>1, ReceiveYmodemFacts
<1>3. CASE ~rx.ymodem
  <2>1. rx' = OpenFile(rx, MaxBlocks, 0)
    BY <1>1, <1>3
  <2> QED  BY <1>0, <1>1, <1>3, <2>1, ReceiveFileFacts
<1> QED  BY <1>2, <1>3

LEMMA RxFinePrime ==
    ASSUME RxFine, setting' = setting, rx' \in RxType, rx'.ymodem = rx.ymodem,
           rx'.check = rx.check, fwd' \in Seq(Msg), back' \in Seq(Answers),
           file' \in Seq(Piece)
    PROVE  RxFine'
<1>1. RxState(rx)'
  BY DEF RxFine, RxState
<1> QED  BY <1>1 DEF RxFine

LEMMA MenuFacts ==
    ASSUME RxFine, KeyOther \/ KeyShiftEnter
    PROVE  /\ rx' \in RxType /\ rx'.ymodem = rx.ymodem /\ rx'.check = rx.check
           /\ rx'.pc \in {"menu", "closed"} /\ UNCHANGED <<file, saved, fwd, back>>
<1> DEFINE u == MainMenu(rx)
<1>1. rx \in RxType
  BY DEF RxFine, RxState
<1>2. u \in RxType /\ u.ymodem = rx.ymodem /\ u.check = rx.check /\ u.pc = "menu"
  BY <1>1, MainMenuFacts
<1>3. CASE KeyOther
  BY <1>2, <1>3 DEF KeyOther, line
<1>4. CASE KeyShiftEnter
  <2> DEFINE n == u.nest - 1
  <2>1. n \in Int
    BY <1>2 DEF RxType
  <2>2. /\ rx' = IF rx.nest = 0 THEN [u EXCEPT !.pc = "closed"] ELSE [u EXCEPT !.nest = n]
        /\ UNCHANGED <<file, saved, fwd, back>>
    BY <1>4 DEF KeyShiftEnter, line
  <2> HIDE DEF u, n
  <2>3. CASE rx.nest = 0
    <3>1. rx' = [u EXCEPT !.pc = "closed"]
      BY <2>2, <2>3
    <3> QED  BY <1>2, <2>2, <3>1 DEF RxType, RxPcs
  <2>4. CASE rx.nest # 0
    <3>1. rx' = [u EXCEPT !.nest = n]
      BY <2>2, <2>4
    <3> QED  BY <1>2, <2>1, <2>2, <3>1 DEF RxType, RxPcs
  <2> QED  BY <2>3, <2>4
<1> QED  BY <1>3, <1>4

LEMMA EscapeFacts ==
    ASSUME TxFine(tx), TxEscape
    PROVE  /\ TxFine(tx') /\ tx'.pc = "cancel" /\ tx'.next = <<>> /\ UNCHANGED line
           /\ tx.pc \in {"nak0", "nak1", "answer"} /\ back = <<>>
<1> DEFINE u == [tx EXCEPT !.next = <<>>]
<1>1. tx \in TxType
  BY DEF TxFine, TxState
<1>2. <<>> \in Seq(Nat) /\ <<>> \in Seq(Sizes)
  OBVIOUS
<1>3. /\ u \in TxType /\ u.pos = tx.pos /\ u.size = tx.size /\ u.eof = tx.eof
      /\ u.long = tx.long /\ u.blocks = tx.blocks /\ u.ymodem = tx.ymodem
      /\ u.header = tx.header /\ u.blk = tx.blk /\ u.next = <<>> /\ u.pc = tx.pc
      /\ u.eots = tx.eots
  BY <1>1, <1>2 DEF TxType
<1>4. /\ tx' = Cancel(u) /\ UNCHANGED line
      /\ tx.pc \in {"nak0", "nak1", "answer"} /\ back = <<>>
  BY DEF TxEscape
<1> HIDE DEF u
<1>5. TxState(u)
  BY <1>3 DEF TxFine, TxState, Counted, Rest
<1>6. TxFine(u)
  BY <1>2, <1>3, <1>5 DEF TxFine, Fresh
<1> QED  BY <1>3, <1>4, <1>6, FineCancel

\* A receiver takes from an empty line nothing, and puts nothing on it.
LEMMA EmptyStays == Receiver /\ fwd = <<>> => fwd' = <<>>
<1> SUFFICES ASSUME Receiver, fwd = <<>> PROVE fwd' = <<>>
  OBVIOUS
<1>1. CASE RxReads
  BY <1>1 DEF RxReads, PurgeByte, RefuseBlock, OutOfSync, LoseCrcByte, RefuseNoise, TakeCan,
              SecondByte, Reads
<1>2. CASE RxTakes
  BY <1>2 DEF RxTakes, TakeHeader, TakeBlock, TakeEot, Reads
<1>3. CASE RxSilent(TRUE)
  BY <1>3 DEF RxSilent, RxTimeout, TransmitNak, TransmitCans, line
<1> QED  BY <1>1, <1>2, <1>3 DEF Receiver

LEMMA DamageEmpty ==
    ASSUME NEW kind, DamageForward(kind) \/ DamageBack(kind), fwd = <<>>
    PROVE  fwd' = <<>>
<1>1. ~ \E n \in DOMAIN fwd : TRUE
  OBVIOUS
<1> QED  BY <1>1 DEF DamageForward, DamageBack

\* The parts of the invariant, one on top of the other.
OrderInv == Types /\ TxOrder

LEMMA OrderInit == LineFits /\ Init => OrderInv
<1> SUFFICES ASSUME LineFits, Init PROVE OrderInv
  OBVIOUS
<1>1. /\ setting \in Settings /\ fwd = <<>> /\ back = <<>> /\ faults = 0 /\ received = "no"
      /\ sent = <<>> /\ file = <<>> /\ rx = RxStart(setting.rxYmodem, setting.crc)
      /\ tx = TxStart(setting.txYmodem, setting.block1k)
  BY DEF Init, RxInit, TxInit
<1>2. /\ setting.txYmodem \in BOOLEAN /\ setting.rxYmodem \in BOOLEAN
      /\ setting.crc \in BOOLEAN /\ setting.block1k \in BOOLEAN /\ setting.maxFaults \in Nat
  BY <1>1, SettingFacts
<1>3. 0 \in 0..(BlkMod - 1) /\ Short \in Nat /\ Short > 0
  BY LineAssumption
<1>4. tx \in TxType
  <2>1. <<>> \in Seq(Nat)
    OBVIOUS
  <2> QED  BY <1>1, <1>2, <1>3, <2>1 DEF TxStart, TxType, TxPcs
<1>5. /\ tx.pc = "menu" /\ tx.ymodem = setting.txYmodem /\ tx.pos = 0 /\ tx.size = 0
      /\ tx.eof = FALSE /\ tx.blocks = 0 /\ tx.next = <<>>
  BY <1>1 DEF TxStart
<1>6. 0 * Short = 0
  BY <1>3, Z3
<1>7. TxState(tx)
  BY <1>3, <1>4, <1>5, <1>6 DEF TxState, Counted, Rest
<1>8. <<>> \in Seq(Sizes)
  OBVIOUS
<1>9. TxFine(tx)
  BY <1>5, <1>7, <1>8 DEF TxFine
<1>10. RxState(rx)
  BY <1>1, <1>2, <1>3 DEF RxState, RxStart, RxType, RxPcs
<1>11. RxFine
  BY <1>1, <1>10 DEF RxFine
<1> QED  BY <1>1, <1>2, <1>5, <1>9, <1>11 DEF OrderInv, Types, TxOrder

\* A step that leaves the sender and what it sent alone.
LEMMA OrderOfRx ==
    ASSUME OrderInv, setting' = setting, faults' = faults, tx' = tx, sent' = sent,
           received' \in {"no", "before", "after"},
           fwd = <<>> => fwd' = <<>>, RxFine'
    PROVE  OrderInv'
<1>1. TxFine(tx)'
  BY TxFinePrime DEF OrderInv, TxOrder
<1> QED  BY <1>1 DEF OrderInv, Types, TxOrder

\* A step of the sender.
LEMMA OrderOfTx ==
    ASSUME OrderInv, setting' = setting, faults' = faults, UNCHANGED rxVars, TxFine(tx'),
           received' = received, fwd' \in Seq(Msg), back' \in Seq(Answers), sent' # <<>>,
           tx'.pc \in {"menu", "purge"} => tx'.next = <<>>
    PROVE  OrderInv'
<1>1. TxFine(tx)'
  BY TxFinePrime
<1>2. RxFine'
  BY RxFinePrime DEF OrderInv, Types, rxVars, RxFine, RxState
<1> QED  BY <1>1, <1>2 DEF OrderInv, Types, TxOrder

LEMMA OrderStep == ASSUME LineFits, OrderInv, [Next]_vars PROVE OrderInv'
<1>0. /\ setting \in Settings /\ RxFine /\ TxFine(tx) /\ fwd \in Seq(Msg)
      /\ back \in Seq(Answers) /\ rx \in RxType /\ received \in {"no", "before", "after"}
      /\ file \in Seq(Piece)
      /\ (sent = <<>> => tx.pc = "menu" /\ fwd = <<>>)
      /\ (sent # <<>> /\ tx.pc \in {"menu", "purge"} => tx.next = <<>>)
  BY DEF OrderInv, Types, TxOrder, RxFine, RxState
<1>1. CASE UNCHANGED vars
  <2>1. /\ setting' = setting /\ faults' = faults /\ tx' = tx /\ sent' = sent
        /\ received' = received /\ fwd' = fwd /\ UNCHANGED <<rx, file, back>>
    BY <1>1 DEF vars, rxVars, line
  <2>2. RxFine'
    BY <1>0, <2>1, RxFinePrime
  <2> QED  BY <1>0, <2>1, <2>2, OrderOfRx
<1>2. CASE Receive
  <2>1. /\ KeyReceive(TRUE) /\ UNCHANGED <<tx, setting, faults, sent>>
        /\ received' \in {"before", "after"}
    BY <1>2 DEF Receive
  <2>2. RxFine' /\ fwd' = fwd
    BY <1>0, <2>1, KeyReceiveFacts, RxFinePrime
  <2> QED  BY <2>1, <2>2, OrderOfRx
<1>3. CASE Send
  <2>1. PICK sizes \in setting.batches : KeySend(sizes) /\ sent' = sizes
    BY <1>3 DEF Send
  <2>2. UNCHANGED <<rxVars, setting, faults, received>>
    BY <1>3 DEF Send
  <2>3. /\ fwd' = fwd /\ TxFine(tx') /\ sizes # <<>> /\ back' \in Seq(Answers)
        /\ tx'.pc \in {"nak0", "nak1"}
    BY <1>0, <2>1, KeySendFacts
  <2> QED  BY <1>0, <2>1, <2>2, <2>3, OrderOfTx
<1>4. CASE EndBatch
  <2>1. /\ sent # <<>> /\ KeyEndBatch /\ UNCHANGED <<rxVars, setting, faults, received, sent>>
    BY <1>4 DEF EndBatch
  <2> DEFINE m == Block(0, FALSE, "both", EndHead, NoData(0))
  <2>2. tx.pc = "menu" /\ tx' = [tx EXCEPT !.pc = "purge"] /\ fwd' = Append(fwd, m)
        /\ back' = back
    BY <2>1 DEF KeyEndBatch
  <2>3. m \in Msg
    BY DEF Block, BlockMsg, Msg, EndHead, Heads, NoData, Datum
  <2> HIDE DEF m
  <2>4. TxState(tx') /\ SameFile(tx', tx) /\ tx'.pc = "purge"
    BY <1>0, <2>2, PcFine DEF TxPcs
  <2>5. TxFine(tx')
    BY <1>0, <2>4 DEF TxFine, SameFile
  <2>6. tx'.next = <<>>
    BY <1>0, <2>1, <2>2, <2>4 DEF SameFile
  <2>7. fwd' \in Seq(Msg)
    BY <1>0, <2>2, <2>3
  <2> QED  BY <1>0, <2>1, <2>2, <2>5, <2>6, <2>7, OrderOfTx
<1>5. CASE Menu
  <2>1. /\ KeyOther \/ KeyShiftEnter
        /\ UNCHANGED <<tx, faults, setting, received, sent>>
    BY <1>5 DEF Menu, users
  <2>2. RxFine' /\ fwd' = fwd
    BY <1>0, <2>1, MenuFacts, RxFinePrime
  <2> QED  BY <1>0, <2>1, <2>2, OrderOfRx
<1>6. CASE Escape
  <2>1. TxEscape /\ UNCHANGED <<rxVars, faults, setting, received, sent>>
    BY <1>6 DEF Escape, users
  <2>2. /\ TxFine(tx') /\ tx'.pc = "cancel" /\ fwd' = fwd /\ back' = back
        /\ tx.pc \in {"nak0", "nak1", "answer"}
    BY <1>0, <2>1, EscapeFacts DEF line
  <2> QED  BY <1>0, <2>1, <2>2, OrderOfTx
<1>7. CASE Receiver
  <2>1. UNCHANGED <<tx, faults, setting, received, sent>>
    BY <1>7 DEF Receiver, users
  <2>2. RxFine' /\ (fwd = <<>> => fwd' = <<>>)
    BY <1>0, <1>7, <2>1, ReceiverFine, EmptyStays
  <2> QED  BY <1>0, <2>1, <2>2, OrderOfRx
<1>8. CASE Sender
  <2>1. UNCHANGED <<rxVars, faults, setting, received, sent>>
    BY <1>8 DEF Sender, users
  <2>2. (tx.pc = "purge" => tx.next = <<>>)
    BY <1>0
  <2>3. TxMoves
    BY <1>0, <1>8, <2>2, SenderMoves
  <2> QED  BY <1>0, <2>1, <2>3, OrderOfTx DEF TxMoves
<1>9. CASE Damage
  <2>1. /\ faults < setting.maxFaults /\ faults' = faults + 1
        /\ UNCHANGED <<rxVars, tx, setting, received, sent>>
    BY <1>9 DEF Damage, users
  <2>2. PICK kind \in Faults : DamageForward(kind) \/ DamageBack(kind)
    BY <1>9 DEF Damage
  <2>3. fwd' \in Seq(Msg) /\ back' \in Seq(Answers)
    BY <1>0, <2>2, DamageType
  <2>4. fwd = <<>> => fwd' = <<>>
    BY <2>2, DamageEmpty
  <2>5. RxFine'
    BY <1>0, <2>1, <2>3, RxFinePrime DEF rxVars
  <2>6. TxFine(tx)'
    BY <1>0, <2>1, TxFinePrime
  <2>7. faults' \in Nat /\ faults' <= setting.maxFaults
    BY <1>0, <2>1, SettingFacts DEF OrderInv, Types
  <2> QED  BY <1>0, <2>1, <2>4, <2>5, <2>6, <2>7 DEF OrderInv, Types, TxOrder
<1> QED  BY <1>1, <1>2, <1>3, <1>4, <1>5, <1>6, <1>7, <1>8, <1>9 DEF Next

----------------------------------------------------------------------------
(* Before the receiver starts, and after the sender has ended *)

LEMMA KindsTail ==
    ASSUME fwd \in Seq(Msg), fwd # <<>>, fwd' = Tail(fwd), NEW kinds, OnlyKinds(kinds)
    PROVE  OnlyKinds(kinds)'
<1>1. /\ Len(fwd') = Len(fwd) - 1 /\ Len(fwd) \in Nat
      /\ \A k \in 1..(Len(fwd) - 1) : fwd'[k] = fwd[k + 1]
  BY HeadTail
<1>2. \A k \in 1..(Len(fwd) - 1) : k + 1 \in 1..Len(fwd)
  BY <1>1
<1> QED  BY <1>1, <1>2 DEF OnlyKinds

LEMMA KindsJoined ==
    ASSUME fwd \in Seq(Msg), NEW out \in Seq(Msg), fwd' = fwd \o out, NEW kinds,
           OnlyKinds(kinds), \A k \in 1..Len(out) : out[k].kind \in kinds
    PROVE  OnlyKinds(kinds)'
<1>1. /\ Len(fwd') = Len(fwd) + Len(out) /\ Len(fwd) \in Nat /\ Len(out) \in Nat
      /\ \A k \in 1..Len(fwd) : fwd'[k] = fwd[k]
      /\ \A k \in 1..(Len(fwd) + Len(out)) : k > Len(fwd) => fwd'[k] = out[k - Len(fwd)]
  BY Joined
<1> SUFFICES ASSUME NEW k \in 1..(Len(fwd) + Len(out)) PROVE fwd'[k].kind \in kinds
  BY <1>1 DEF OnlyKinds
<1>2. CASE k <= Len(fwd)
  BY <1>1, <1>2 DEF OnlyKinds
<1>3. CASE k > Len(fwd)
  <2>1. k - Len(fwd) \in 1..Len(out)
    BY <1>1, <1>3
  <2> QED  BY <1>1, <1>3, <2>1
<1> QED  BY <1>1, <1>2, <1>3

LEMMA KindsAppend ==
    ASSUME fwd \in Seq(Msg), NEW m \in Msg, fwd' = Append(fwd, m), NEW kinds,
           OnlyKinds(kinds), m.kind \in kinds
    PROVE  OnlyKinds(kinds)'
<1>1. /\ Len(fwd') = Len(fwd) + 1 /\ Len(fwd) \in Nat
      /\ \A k \in 1..(Len(fwd) + 1) : fwd'[k] = IF k = Len(fwd) + 1 THEN m ELSE fwd[k]
  OBVIOUS
<1> QED  BY <1>1 DEF OnlyKinds

LEMMA KindsCans ==
    ASSUME fwd \in Seq(Msg), fwd' = fwd \o Repeat(Control("CAN", 0)), NEW kinds,
           OnlyKinds(kinds), "CAN" \in kinds
    PROVE  OnlyKinds(kinds)'
<1> DEFINE out == Repeat(Control("CAN", 0))
<1>1. out \in Seq(Msg) /\ Len(out) = Cans /\ \A k \in 1..Cans : out[k] = Control("CAN", 0)
  BY MsgTypes, RepeatType
<1>2. \A k \in 1..Len(out) : out[k].kind = "CAN"
  BY <1>1 DEF Control
<1>3. fwd' = fwd \o out
  OBVIOUS
<1> HIDE DEF out
<1> QED  BY <1>1, <1>2, <1>3, KindsJoined

LEMMA KindsDamage ==
    ASSUME fwd \in Seq(Msg), back \in Seq(Answers), NEW kind, kind # "eot",
           DamageForward(kind) \/ DamageBack(kind), NEW kinds, OnlyKinds(kinds),
           "noise" \in kinds
    PROVE  OnlyKinds(kinds)'
<1>1. CASE DamageBack(kind)
  BY <1>1 DEF DamageBack, OnlyKinds
<1>2. CASE DamageForward(kind)
  <2>1. PICK n \in 1..Len(fwd) :
            \/ kind = "lost" /\ fwd' = Without(fwd, n)
            \/ /\ fwd[n].kind = "block" /\ fwd[n].flaw = "none" /\ kind \in Flaws
               /\ fwd' = [fwd EXCEPT ![n].flaw = kind]
            \/ /\ fwd[n].kind = "block" /\ kind = "eot"
               /\ fwd' = [fwd EXCEPT ![n] = Control("EOT", fwd[n].data)]
            \/ /\ fwd[n].kind \in {"EOT", "CAN"} /\ kind = "noise"
               /\ fwd' = [fwd EXCEPT ![n].kind = "noise"]
    BY <1>2 DEF DamageForward
  <2>2. CASE fwd' = Without(fwd, n)
    <3>1. /\ Len(fwd') = Len(fwd) - 1
          /\ \A k \in 1..(Len(fwd) - 1) : \E i \in 1..Len(fwd) : fwd'[k] = fwd[i]
      <4> PICK q \in Seq(Msg) : q = fwd
        OBVIOUS
      <4>1. /\ Len(Without(q, n)) = Len(q) - 1
            /\ \A k \in 1..(Len(q) - 1) : \E i \in 1..Len(q) : Without(q, n)[k] = q[i]
        BY ONLY WithoutType, q \in Seq(Msg), q = fwd, n \in 1..Len(fwd)
      <4> QED  BY ONLY <2>2, <4>1, q = fwd
    <3> QED  BY <3>1 DEF OnlyKinds
  <2>3. CASE /\ fwd[n].kind = "block" /\ fwd[n].flaw = "none" /\ kind \in Flaws
             /\ fwd' = [fwd EXCEPT ![n].flaw = kind]
    <3> DEFINE m == [fwd[n] EXCEPT !.flaw = kind]
    <3>1. fwd[n] \in BlockMsg
      BY <2>3 DEF Msg, ByteMsg
    <3>2. m.kind = fwd[n].kind /\ fwd' = [fwd EXCEPT ![n] = m]
      BY <2>3, <3>1 DEF BlockMsg
    <3> HIDE DEF m
    <3>3. Len(fwd') = Len(fwd) /\ \A k \in 1..Len(fwd) : fwd'[k] = IF k = n THEN m ELSE fwd[k]
      BY <3>2
    <3> QED  BY <3>2, <3>3 DEF OnlyKinds
  <2>4. CASE /\ fwd[n].kind \in {"EOT", "CAN"} /\ kind = "noise"
             /\ fwd' = [fwd EXCEPT ![n].kind = "noise"]
    <3> DEFINE m == [fwd[n] EXCEPT !.kind = "noise"]
    <3>1. fwd[n] \in ByteMsg
      BY <2>4 DEF Msg, BlockMsg
    <3>2. m.kind = "noise" /\ fwd' = [fwd EXCEPT ![n] = m]
      BY <2>4, <3>1 DEF ByteMsg
    <3> HIDE DEF m
    <3>3. Len(fwd') = Len(fwd) /\ \A k \in 1..Len(fwd) : fwd'[k] = IF k = n THEN m ELSE fwd[k]
      BY <3>2
    <3> QED  BY <3>2, <3>3 DEF OnlyKinds
  <2> QED  BY <2>1, <2>2, <2>3, <2>4
<1> QED  BY <1>1, <1>2

\* Whoever has ended stays so.
LEMMA EndedStays == ASSUME OrderInv, Ended, [Next]_vars PROVE Ended'
<1>0. /\ TxFine(tx) /\ sent # <<>> /\ tx.next = <<>> /\ tx.pc \in {"menu", "purge", "cancel"}
  BY DEF OrderInv, TxOrder, Ended
<1>1. CASE tx' = tx /\ sent' = sent
  BY <1>0, <1>1 DEF Ended
<1>2. CASE EndBatch
  <2>1. sent' = sent /\ tx' = [tx EXCEPT !.pc = "purge"]
    BY <1>2 DEF EndBatch, KeyEndBatch
  <2>2. SameFile(tx', tx) /\ tx'.pc = "purge"
    BY <1>0, <2>1, PcFine DEF TxPcs
  <2> QED  BY <1>0, <2>1, <2>2 DEF Ended, SameFile
<1>3. CASE Sender
  <2>1. sent' = sent
    BY <1>3 DEF Sender, users
  <2>2. ~TxRead /\ ~TxSilence
    BY <1>0 DEF TxRead, TxSilence, TxTimeout
  <2>3. CASE TxPurge
    BY <1>1, <2>1, <2>3 DEF TxPurge
  <2>4. CASE TxPurged
    <3>1. tx' = [tx EXCEPT !.pc = "menu"]
      BY <1>0, <2>4 DEF TxPurged, EndFile
    <3>2. SameFile(tx', tx) /\ tx'.pc = "menu"
      BY <1>0, <3>1, PcFine DEF TxPcs
    <3> QED  BY <1>0, <2>1, <3>1, <3>2 DEF Ended, SameFile
  <2> QED  BY <1>3, <2>2, <2>3, <2>4 DEF Sender
<1>4. ~Send /\ ~Escape
  BY <1>0 DEF Send, Escape, TxEscape
<1>5. Receive \/ Menu \/ Receiver \/ Damage \/ UNCHANGED vars => tx' = tx /\ sent' = sent
  BY DEF Receive, Menu, Receiver, Damage, users, vars
<1> QED  BY <1>1, <1>2, <1>3, <1>4, <1>5 DEF Next

\* With what is known before the key R.
BeforeInv == OrderInv /\ Before

LEMMA BeforeInit == LineFits /\ Init => BeforeInv
<1> SUFFICES ASSUME LineFits, Init PROVE BeforeInv
  OBVIOUS
<1>1. OrderInv
  BY OrderInit
<1>2. /\ fwd = <<>> /\ back = <<>> /\ rx = RxStart(setting.rxYmodem, setting.crc)
      /\ tx = TxStart(setting.txYmodem, setting.block1k)
  BY DEF Init, RxInit, TxInit
<1>3. Junk /\ NoEot
  BY <1>2 DEF Junk, NoEot, OnlyKinds
<1>4. tx.pc = "menu"
  BY <1>2 DEF TxStart
<1> QED  BY <1>1, <1>2, <1>3, <1>4 DEF BeforeInv, Before

\* A step before the start in which the sender does not start a file.
LEMMA BeforeOf ==
    ASSUME OrderInv, Before, received = "no", rx' = rx, setting' = setting, back' = <<>>,
           tx'.pc \in {"menu", "nak0", "nak1", "cancel", "purge"},
           NoEot', ~Ended' => Junk', tx'.pc = "nak1" => Fresh(tx') /\ ~tx'.ymodem
    PROVE  Before'
  BY DEF Before, Fresh

LEMMA BeforeStep == ASSUME LineFits, BeforeInv, [Next]_vars PROVE BeforeInv'
<1>1. OrderInv'
  BY OrderStep DEF BeforeInv
<1> SUFFICES ASSUME received' = "no" PROVE Before'
  BY <1>1 DEF BeforeInv, Before
<1>2. /\ OrderInv /\ Before /\ TxFine(tx) /\ fwd \in Seq(Msg) /\ back \in Seq(Answers) /\ RxFine
      /\ setting \in Settings
  BY DEF BeforeInv, OrderInv, Types, TxOrder, RxFine
<1>3. received = "no"
  BY DEF Next, Receive, Send, EndBatch, Menu, Escape, Receiver, Sender, Damage, users, vars
<1>4. /\ rx.pc = "menu" /\ back = <<>>
      /\ tx.pc \in {"menu", "nak0", "nak1", "cancel", "purge"} /\ NoEot
      /\ (~Ended => Junk) /\ (tx.pc = "nak1" => Fresh(tx) /\ ~tx.ymodem)
  BY <1>2, <1>3 DEF Before, RxStart
<1>5. ~Ended' => ~Ended
  BY <1>2, EndedStays
<1>6. CASE UNCHANGED vars
  <2>1. /\ rx' = rx /\ setting' = setting /\ back' = back /\ tx' = tx /\ fwd' = fwd
    BY <1>6 DEF vars, rxVars, line
  <2>2. NoEot' /\ (Junk => Junk')
    BY <1>4, <2>1 DEF NoEot, Junk, OnlyKinds
  <2> QED  BY <1>2, <1>3, <1>4, <1>5, <2>1, <2>2, BeforeOf
<1>7. ~Receive /\ ~Menu
  BY <1>3 DEF Receive, Menu
<1>8. CASE Send
  <2>1. PICK sizes \in setting.batches : KeySend(sizes)
    BY <1>8 DEF Send
  <2>2. UNCHANGED <<rxVars, setting>>
    BY <1>8 DEF Send
  <2>3. /\ fwd' = fwd /\ tx'.pc \in {"nak0", "nak1"} /\ Fresh(tx')
        /\ tx'.pc = "nak1" => ~tx'.ymodem
        /\ back' \in Seq(Answers)
        /\ \A k \in 1..Len(back') : \E i \in 1..Len(back) : back'[k] = back[i]
    BY <1>2, <2>1, KeySendFacts
  <2>4. back' = <<>>
    BY <1>4, <2>3
  <2>5. NoEot' /\ (Junk => Junk')
    BY <1>4, <2>3 DEF NoEot, Junk, OnlyKinds
  <2> QED  BY <1>2, <1>3, <1>4, <1>5, <2>2, <2>3, <2>4, <2>5, BeforeOf DEF rxVars
<1>9. CASE EndBatch
  <2> DEFINE m == Block(0, FALSE, "both", EndHead, NoData(0))
  <2>1. /\ UNCHANGED <<rxVars, setting>> /\ fwd' = Append(fwd, m) /\ back' = back
        /\ tx' = [tx EXCEPT !.pc = "purge"] /\ tx.pc = "menu" /\ sent # <<>>
    BY <1>9 DEF EndBatch, KeyEndBatch
  <2>2. m.kind = "block" /\ m \in Msg
    BY DEF Block, BlockMsg, Msg, EndHead, Heads, NoData, Datum
  <2> HIDE DEF m
  <2>3. tx'.pc = "purge"
    BY <1>2, <2>1, PcFine DEF TxPcs
  <2>4. Ended
    BY <1>2, <2>1 DEF Ended, OrderInv, TxOrder
  <2>6. NoEot'
    BY <1>2, <1>4, <2>1, <2>2, KindsAppend DEF NoEot
  <2> QED  BY <1>2, <1>3, <1>4, <1>5, <2>1, <2>3, <2>4, <2>6, BeforeOf DEF rxVars
<1>10. CASE Escape
  <2>1. TxEscape /\ UNCHANGED <<rxVars, setting>>
    BY <1>10 DEF Escape, users
  <2>2. tx'.pc = "cancel" /\ fwd' = fwd /\ back' = back
    BY <1>2, <2>1, EscapeFacts DEF line
  <2>3. NoEot' /\ (Junk => Junk')
    BY <1>4, <2>2 DEF NoEot, Junk, OnlyKinds
  <2> QED  BY <1>2, <1>3, <1>4, <1>5, <2>1, <2>2, <2>3, BeforeOf DEF rxVars
<1>11. ~Receiver
  <2>1. ~RxReads
    BY <1>2, <1>4, RxReadsQuiet
  <2>2. ~RxTakes
    BY <1>4 DEF RxTakes, TakeHeader, TakeBlock, TakeEot, Reads
  <2>3. ~RxSilent(TRUE)
    BY <1>4 DEF RxSilent, RxTimeout, TransmitNak, TransmitCans
  <2> QED  BY <2>1, <2>2, <2>3 DEF Receiver
<1>12. CASE Sender
  <2>1. UNCHANGED <<rxVars, setting>>
    BY <1>12 DEF Sender, users
  <2>2. ~TxRead /\ ~TxPurge
    BY <1>4 DEF TxRead, TxPurge
  <2>3. CASE TxSilence
    <3>1. tx.pc \in {"nak0", "nak1"}
      BY <1>4, <2>3 DEF TxSilence, TxTimeout
    <3>2. TimeoutStep = Only(Cancel(tx))
      BY <3>1 DEF TimeoutStep
    <3>3. Does(TimeoutStep) /\ back' = back
      BY <1>2, <2>3, TxTimeoutFacts DEF TxSilence
    <3>4. tx' = Cancel(tx) /\ fwd' = fwd \o <<>>
      BY <3>2, <3>3, OnlyFacts DEF Does
    <3>5. tx'.pc = "cancel" /\ fwd' = fwd
      BY <1>2, <3>4, FineCancel
    <3>6. NoEot' /\ (Junk => Junk')
      BY <1>4, <3>5 DEF NoEot, Junk, OnlyKinds
    <3> QED  BY <1>2, <1>3, <1>4, <1>5, <2>1, <3>3, <3>5, <3>6, BeforeOf DEF rxVars
  <2>4. CASE TxPurged
    <3>1. /\ tx.pc \in {"cancel", "purge"} /\ back' = back
          /\ tx' = IF tx.pc = "cancel" THEN EndFile(tx) ELSE [tx EXCEPT !.pc = "menu"]
          /\ fwd' = IF tx.pc = "cancel" THEN fwd \o Repeat(Control("CAN", 0)) ELSE fwd
      BY <2>4 DEF TxPurged
    <3>2. NoEot' /\ (Junk => Junk')
      <4>1. CASE tx.pc = "cancel"
        BY <1>2, <1>4, <3>1, <4>1, KindsCans DEF NoEot, Junk
      <4>2. CASE tx.pc = "purge"
        BY <1>4, <3>1, <4>2 DEF NoEot, Junk, OnlyKinds
      <4> QED  BY <3>1, <4>1, <4>2
    <3>3. /\ tx'.pc \in {"menu", "nak0", "nak1"}
          /\ tx'.pc = "nak1" => Fresh(tx') /\ ~tx'.ymodem
      <4>1. CASE tx.pc = "purge"
        <5>1. tx'.pc = "menu"
          BY <1>2, <3>1, <4>1, PcFine DEF TxPcs
        <5> QED  BY <5>1
      <4>2. CASE tx.pc = "cancel"
        <5>1. tx' = EndFile(tx) /\ TxState(tx)
          BY <1>2, <3>1, <4>2 DEF TxFine
        <5>2. /\ tx.next = <<>> => tx'.pc = "menu"
              /\ tx.next # <<>> => /\ Fresh(tx') /\ tx'.pc \in {"nak0", "nak1"}
                                   /\ tx'.pc = "nak1" => ~tx'.ymodem
          BY <5>1, EndFileFacts
        <5> QED  BY <5>2
      <4> QED  BY <3>1, <4>1, <4>2
    <3> QED  BY <1>2, <1>3, <1>4, <1>5, <2>1, <3>1, <3>2, <3>3, BeforeOf DEF rxVars
  <2> QED  BY <1>12, <2>2, <2>3, <2>4 DEF Sender
<1>13. CASE Damage
  <2>1. UNCHANGED <<rxVars, tx, setting>>
    BY <1>13 DEF Damage, users
  <2>2. PICK kind \in Faults : DamageForward(kind) \/ DamageBack(kind)
    BY <1>13 DEF Damage
  <2>3. kind # "eot"
    BY DEF LineFits
  <2>4. NoEot' /\ (Junk => Junk')
    BY <1>2, <1>4, <2>2, <2>3, KindsDamage DEF NoEot, Junk
  <2>5. back' = <<>>
    <3>1. ~ \E n \in DOMAIN back : TRUE
      BY <1>4
    <3> QED  BY <1>4, <2>2, <3>1 DEF DamageForward, DamageBack
  <2> QED  BY <1>2, <1>3, <1>4, <1>5, <2>1, <2>4, <2>5, BeforeOf DEF rxVars
<1> QED  BY <1>6, <1>7, <1>8, <1>9, <1>10, <1>11, <1>12, <1>13 DEF Next

----------------------------------------------------------------------------
(* A file under way *)

\* The receiver is at work and a file or a batch is under way.
Going == BeforeInv /\ Working /\ Sound /\ ~Ended /\ Live

\* What a step has to leave.
Went == IF Ended THEN NoEot ELSE Live

LEMMA GoingFacts ==
    ASSUME LineFits, Going
    PROVE  /\ RxFine /\ rx \in RxType /\ TxFine(tx) /\ TxState(tx) /\ tx \in TxType
           /\ fwd \in Seq(Msg) /\ back \in Seq(Answers)
           /\ setting \in Settings /\ setting.crc \in BOOLEAN /\ faults \in Nat
           /\ faults <= setting.maxFaults
           /\ rx.ymodem = tx.ymodem /\ tx.ymodem \in BOOLEAN
           /\ rx.check = IF setting.crc THEN "crc" ELSE "sum"
           /\ rx.pc \in {"purge", "block", "can"}
           /\ (~setting.crc => faults = 0)
           /\ Live
           /\ sent = <<>> <=> tx.pc = "menu"
<1>1. /\ RxFine /\ TxFine(tx) /\ setting \in Settings /\ faults \in Nat
      /\ faults <= setting.maxFaults /\ TxOrder
  BY DEF Going, BeforeInv, OrderInv, Types, TxOrder
<1>2. SettingFits(setting)
  BY <1>1 DEF LineFits
<1>3. /\ setting.rxYmodem = setting.txYmodem /\ setting.crc \in BOOLEAN
      /\ setting.txYmodem \in BOOLEAN
  BY <1>2 DEF SettingFits
<1>4. /\ TxState(tx) /\ tx \in TxType /\ tx.ymodem = setting.txYmodem
  BY <1>1 DEF TxFine, TxState
<1>5. /\ rx \in RxType /\ rx.ymodem = setting.rxYmodem /\ fwd \in Seq(Msg) /\ back \in Seq(Answers)
      /\ rx.check = IF setting.crc THEN "crc" ELSE "sum"
  BY <1>1 DEF RxFine, RxState
<1>6. sent = <<>> <=> tx.pc = "menu"
  BY <1>1 DEF TxOrder, Going, Ended
<1>7. rx.pc \in {"purge", "block", "can"} /\ (~setting.crc => faults = 0) /\ Live
  BY DEF Going, Working, Sound
<1> QED  BY <1>1, <1>3, <1>4, <1>5, <1>6, <1>7

\* The receiver keeps what it has.
LEMMA SameHeld ==
    ASSUME SameRx(rx', rx), file' = file, tx' = tx
    PROVE  /\ AwaitsHead' <=> AwaitsHead
           /\ Listens' <=> Listens
           /\ Opened' <=> Opened
           /\ \A size, upTo, blk : Has(size, upTo, blk)' <=> Has(size, upTo, blk)
<1>1. /\ rx'.ymodem = rx.ymodem /\ rx'.blk = rx.blk
      /\ rx'.open = rx.open /\ rx'.blocks = rx.blocks /\ rx'.bytes = rx.bytes
  BY DEF SameRx
<1>2. (AwaitsHead' <=> AwaitsHead) /\ (Listens' <=> Listens)
  BY <1>1 DEF AwaitsHead, Listens
<1>3. \A size, upTo : Expects(size, upTo)' <=> Expects(size, upTo)
  BY <1>1 DEF Expects
<1>4. \A size, upTo, blk : Has(size, upTo, blk)' <=> Has(size, upTo, blk)
  BY <1>1, <1>3 DEF Has
<1>5. Opened' <=> Opened
  BY <1>1, <1>2, <1>3 DEF Opened, Has
<1> QED  BY <1>2, <1>4, <1>5

\* Without anything under way.
LEMMA Silent ==
    ASSUME fwd = <<>> PROVE Junk /\ NoEot /\ OneSided
  BY DEF Junk, NoEot, OnlyKinds, OneSided

LEMMA EndedSame == (tx' = tx /\ sent' = sent) => (Ended' <=> Ended)
  BY DEF Ended

LEMMA ReadsGoing ==
    ASSUME LineFits, Going, RxReads, UNCHANGED <<tx, faults, users>>, Working'
    PROVE  Went'
<1>0. /\ RxFine /\ rx \in RxType /\ TxFine(tx) /\ fwd \in Seq(Msg) /\ back \in Seq(Answers)
      /\ setting.crc \in BOOLEAN /\ rx.check = (IF setting.crc THEN "crc" ELSE "sum")
      /\ Live
  BY GoingFacts
<1>1. /\ tx' = tx /\ faults' = faults /\ setting' = setting /\ sent' = sent /\ received' = received
  BY DEF users
<1>2. /\ Quiet /\ fwd # <<>> /\ fwd' = Tail(fwd) /\ fwd' \in Seq(Msg)
      /\ rx'.pc = "can" => rx.pc = "block" /\ fwd[1].kind = "CAN"
      /\ rx.pc = "block" /\ rx'.pc \in {"purge", "can"} =>
           /\ fwd[1].kind \in {"block", "noise", "CAN"}
           /\ fwd[1].kind = "block" => ~(Good(fwd[1]))
      /\ rx.pc = "purge" => rx'.pc = "purge"
  BY <1>0, RxReadsQuiet
<1>3. rx'.pc \in {"purge", "can"}
  BY <1>0, RxReadsQuiet DEF Working
<1>4. SameRx(rx', rx) /\ file' = file /\ back' = back
  BY <1>2, <1>3 DEF Quiet
<1>5. back = <<>> /\ back' = <<>>
  BY <1>0, <1>2, <1>4 DEF Live, OneSided
<1>6. ~Ended'
  BY <1>1, EndedSame DEF Going
<1>7. /\ AwaitsHead' <=> AwaitsHead
      /\ Listens' <=> Listens
      /\ Opened' <=> Opened
  BY <1>1, <1>4, SameHeld
<1>8. fwd[1] \in Msg /\ Len(fwd) >= 1 /\ Len(fwd) \in Nat /\ Len(fwd') = Len(fwd) - 1
  BY <1>0, <1>2, HeadTail
<1>9. Junk => Junk'
  BY <1>0, <1>2, KindsTail DEF Junk
<1>10. rx'.open = rx.open /\ rx'.ymodem = rx.ymodem /\ rx'.blk = rx.blk
  BY <1>4 DEF SameRx
<1>11. Len(fwd) <= 1 => fwd' = <<>>
  BY <1>2, <1>8
<1>12. OneSided'
  BY <1>5 DEF OneSided
<1>13. ASSUME ~setting.crc, fwd[1].kind = "block", Sum(fwd[1]), fwd[1].num = rx.blk, InBlock
       PROVE  FALSE
  <2>1. Good(fwd[1])
    BY <1>0, <1>13 DEF Good, IsNext, Intact, Sum
  <2> QED  BY <1>2, <1>3, <1>13, <2>1 DEF InBlock
<1>14. CASE tx.pc \in {"menu", "cancel"}
  <2>1. tx.pc = "cancel" /\ AtCancel
    BY <1>0, <1>2, <1>14 DEF Live, AtMenu
  <2>2. AtCancel'
    BY <1>1, <1>7, <1>9, <1>12, <2>1 DEF AtCancel
  <2> QED  BY <1>0, <1>1, <1>5, <1>6, <1>12, <2>1, <2>2 DEF Went, Live
<1>15. CASE tx.pc = "nak0"
  <2>1. AtNak0
    BY <1>0, <1>15 DEF Live
  <2>2. ~setting.crc => rx'.pc = "purge"
    BY <1>2, <2>1 DEF AtNak0, AskedOnce
  <2>3. AtNak0'
    BY <1>1, <1>5, <1>7, <1>9, <2>1, <2>2 DEF AtNak0, AskedOnce
  <2> QED  BY <1>0, <1>1, <1>5, <1>6, <1>12, <1>15, <2>3 DEF Went, Live
<1>16. CASE tx.pc = "nak1"
  <2>1. AtNak1
    BY <1>0, <1>16 DEF Live
  <2>2. ~setting.crc => rx'.pc = "purge"
    BY <1>2, <2>1 DEF AtNak1, AskedOnce
  <2>3. Fresh(tx)'
    BY <1>1, <2>1 DEF AtNak1, Fresh
  <2>4. AtNak1'
    BY <1>1, <1>5, <1>7, <1>9, <2>1, <2>2, <2>3 DEF AtNak1, AskedOnce
  <2> QED  BY <1>0, <1>1, <1>5, <1>6, <1>12, <1>16, <2>4 DEF Went, Live
<1>17. CASE tx.pc = "answer" /\ tx.header
  <2>1. AtHeader /\ Len(fwd) <= 1
    BY <1>0, <1>17 DEF Live
  <2>2. setting.crc
    <3> SUFFICES ASSUME ~setting.crc PROVE FALSE
      BY <1>0
    <3>1. InBlock
      BY <1>2, <2>1 DEF AtHeader, Answered
    <3>2. fwd[1].kind = "block" /\ Sum(fwd[1]) /\ fwd[1].num = rx.blk
      BY <1>2, <2>1 DEF AtHeader, AwaitsHead
    <3> QED  BY <1>13, <3>1, <3>2
  <2>3. Fresh(tx)' /\ fwd' = <<>>
    BY <1>1, <1>11, <2>1 DEF AtHeader, Fresh
  <2>4. AtHeader'
    BY <1>1, <1>5, <2>2, <2>3 DEF AtHeader
  <2>5. Len(fwd') <= 1
    BY <2>3
  <2>9. rx'.pc # "can"
    BY <1>2, <2>1 DEF AtHeader
  <2> QED  BY <1>0, <1>1, <1>5, <1>6, <1>12, <1>17, <2>4, <2>5, <2>9 DEF Went, Live
<1>18. CASE tx.pc = "answer" /\ ~tx.header
  <2>1. AtBlock /\ Len(fwd) <= 1
    BY <1>0, <1>18 DEF Live
  <2>2. setting.crc
    <3> SUFFICES ASSUME ~setting.crc PROVE FALSE
      BY <1>0
    <3>1. InBlock
      BY <1>2, <2>1 DEF AtBlock, Answered
    <3>2. fwd[1].kind = "block" /\ Sum(fwd[1]) /\ fwd[1].num = rx.blk
      BY <1>2, <2>1 DEF AtBlock, Has
    <3> QED  BY <1>13, <3>1, <3>2
  <2>3. fwd' = <<>>
    BY <1>11, <2>1
  <2>4. AtBlock'
    BY <1>1, <1>5, <2>2, <2>3 DEF AtBlock
  <2>5. Len(fwd') <= 1
    BY <2>3
  <2>9. rx'.pc # "can"
    BY <1>2, <2>1 DEF AtBlock
  <2> QED  BY <1>0, <1>1, <1>5, <1>6, <1>12, <1>18, <2>4, <2>5, <2>9 DEF Went, Live
<1>19. CASE tx.pc = "eot"
  <2>1. AtEot /\ Len(fwd) <= 1
    BY <1>0, <1>19 DEF Live
  <2>2. fwd' = <<>>
    BY <1>11, <2>1
  <2>3. fwd[1].kind = "EOT" => ~InBlock
    BY <1>2, <1>3 DEF InBlock
  <2>4. setting.crc
    <3> SUFFICES ASSUME ~setting.crc PROVE FALSE
      BY <1>0
    <3>1. InBlock /\ fwd[1].kind = "EOT"
      BY <1>2, <2>1 DEF AtEot, Answered
    <3> QED  BY <2>3, <3>1
  <2>5. fwd' # <<>> \/ back' # <<>> => FALSE
    BY <1>5, <2>2
  <2>6. rx.open /\ ~Listens => faults + tx.eots >= Eots + 1
    BY <1>2, <2>1, <2>3 DEF AtEot
  <2>7. AtEot'
    BY <1>1, <1>4, <1>5, <1>7, <1>10, <2>1, <2>2, <2>4, <2>6 DEF AtEot
  <2>8. Len(fwd') <= 1
    BY <2>2
  <2>9. rx'.pc # "can"
    BY <1>2, <2>1 DEF AtEot
  <2> QED  BY <1>0, <1>1, <1>5, <1>6, <1>12, <1>19, <2>7, <2>8, <2>9 DEF Went, Live
<1>20. tx.pc \in {"menu", "cancel", "nak0", "nak1", "answer", "eot"}
  BY <1>0 DEF Live
<1>21. tx.header \in BOOLEAN
  BY GoingFacts DEF TxType
<1> QED  BY <1>14, <1>15, <1>16, <1>17, <1>18, <1>19, <1>20, <1>21

\* On a silent line the receiver gets ready to ask, or asks.
LEMMA UnsentGoing ==
    ASSUME LineFits, Going, UNCHANGED <<tx, faults, users>>, SameRx(rx', rx), file' = file,
           fwd = <<>>, fwd' = <<>>, rx'.pc \in {"purge", "block"}, back' \in Seq(Answers),
           tx.pc # "menu" => Len(back') <= 1,
           \A k \in 1..Len(back') : back'[k] \in {Ask, "noise"},
           tx.pc # "menu" /\ back' # <<>> => rx'.pc = "block",
           ~setting.crc => tx.pc \in {"nak0", "nak1"} /\ AskedOnce'
    PROVE  Went'
<1>0. /\ TxFine(tx) /\ Live /\ setting.crc \in BOOLEAN /\ tx.header \in BOOLEAN
  BY GoingFacts DEF TxType
<1>1. /\ tx' = tx /\ faults' = faults /\ setting' = setting /\ sent' = sent
      /\ received' = received /\ Ask' = Ask
  BY DEF users, Ask
<1>2. ~Ended'
  BY <1>1, EndedSame DEF Going
<1>3. /\ AwaitsHead' <=> AwaitsHead
      /\ Listens' <=> Listens
      /\ Opened' <=> Opened
  BY <1>1, SameHeld
<1>4. Junk' /\ OneSided'
  BY DEF Junk, OnlyKinds, OneSided
<1>5. rx'.open = rx.open /\ rx'.ymodem = rx.ymodem /\ rx'.blk = rx.blk /\ rx'.pc # "can"
  BY DEF SameRx
<1>6. /\ \A k \in DOMAIN back' : back'[k] \in {Ask', "ACK", "noise"}
      /\ \A k \in DOMAIN back' : back'[k] # "ACK"
  BY <1>1 DEF Ask
<1>7. back' # <<"ACK">>
  <2>1. back' = <<"ACK">> => 1 \in DOMAIN back' /\ back'[1] = "ACK"
    OBVIOUS
  <2> QED  BY <1>6, <2>1
<1>8. /\ tx.pc \in {"menu", "nak0", "nak1", "cancel", "answer", "eot"}
      /\ Len(back') <= 1 \/ tx.pc = "menu"
      /\ Len(fwd') <= 1
  BY <1>0 DEF Live
<1>9. tx.pc = "menu" => AtMenu'
  BY <1>0, <1>1, <1>3, <1>5 DEF Live, AtMenu
<1>10. tx.pc = "cancel" => AtCancel'
  BY <1>0, <1>1, <1>3, <1>4 DEF Live, AtCancel
<1>11. tx.pc = "nak0" => AtNak0'
  BY <1>0, <1>1, <1>3, <1>4 DEF Live, AtNak0
<1>12. tx.pc = "nak1" => AtNak1'
  <2> SUFFICES ASSUME tx.pc = "nak1" PROVE AtNak1'
    OBVIOUS
  <2>1. AtNak1
    BY <1>0 DEF Live
  <2>2. Fresh(tx)'
    BY <1>1, <2>1 DEF AtNak1, Fresh
  <2> QED  BY <1>0, <1>1, <1>3, <1>4, <2>1, <2>2 DEF AtNak1, InBlock
<1>13. tx.pc = "answer" /\ tx.header => AtHeader'
  <2> SUFFICES ASSUME tx.pc = "answer", tx.header PROVE AtHeader'
    OBVIOUS
  <2>1. AtHeader /\ setting.crc
    BY <1>0 DEF Live
  <2>2. Fresh(tx)'
    BY <1>1, <2>1 DEF AtHeader, Fresh
  <2> QED  BY <1>1, <1>7, <2>1, <2>2 DEF AtHeader
<1>14. tx.pc = "answer" /\ ~tx.header => AtBlock'
  BY <1>0, <1>1, <1>7 DEF AtBlock
<1>15. tx.pc = "eot" => AtEot'
  <2> SUFFICES ASSUME tx.pc = "eot" PROVE AtEot'
    OBVIOUS
  <2>1. AtEot /\ setting.crc
    BY <1>0 DEF Live
  <2>2. rx.open /\ ~Listens => faults + tx.eots >= Eots + 1
    BY <2>1 DEF AtEot
  <2> QED  BY <1>1, <1>3, <1>5, <1>7, <2>1, <2>2 DEF AtEot, InBlock
<1> QED
  BY <1>1, <1>2, <1>4, <1>5, <1>6, <1>8, <1>9, <1>10, <1>11, <1>12, <1>13, <1>14, <1>15 DEF Went, Live

LEMMA SilentGoing ==
    ASSUME LineFits, Going, UNCHANGED <<tx, faults, users>>, Working',
           RxSilent(TRUE), Silence
    PROVE  Went'
<1>0. /\ RxFine /\ Live /\ setting.crc \in BOOLEAN /\ back \in Seq(Answers)
  BY GoingFacts
<1>1. fwd = <<>> /\ (tx.pc # "menu" => back = <<>>)
  BY DEF Silence
<1>2. /\ tx.pc \in {"menu", "nak0", "nak1", "cancel", "answer", "eot"}
      /\ \A k \in 1..Len(back) : back[k] \in {Ask, "ACK", "noise"}
      /\ tx.pc = "menu" => \A k \in 1..Len(back) : back[k] # "ACK"
  BY <1>0 DEF Live
<1>3. \A k \in 1..Len(back) : back[k] \in {Ask, "noise"}
  <2>1. CASE tx.pc = "menu"
    BY <1>2, <2>1
  <2>2. CASE tx.pc # "menu"
    BY <1>1, <2>2
  <2> QED  BY <2>1, <2>2
<1>4. ~setting.crc => tx.pc \in {"nak0", "nak1"} /\ rx.pc = "purge" /\ back = <<>>
  <2> SUFFICES ASSUME ~setting.crc
               PROVE  tx.pc \in {"nak0", "nak1"} /\ rx.pc = "purge" /\ back = <<>>
    OBVIOUS
  <2>1. tx.pc \notin {"menu", "cancel"}
    BY <1>0 DEF Live, AtMenu, AtCancel
  <2>2. ~Answered
    BY <1>1, <2>1 DEF Answered
  <2>3. tx.pc \in {"nak0", "nak1"}
    BY <1>0, <1>2, <2>1, <2>2, GoingFacts DEF Live, AtHeader, AtBlock, AtEot, TxType
  <2>4. AskedOnce /\ back = <<>>
    BY <1>0, <1>1, <2>3 DEF Live, AtNak0, AtNak1
  <2> QED  BY <2>3, <2>4 DEF AskedOnce
<1>5. CASE RxTimeout
  <2>1. /\ Quiet /\ fwd' = fwd /\ rx'.pc = "purge" /\ rx.pc \in {"block", "can"}
    BY <1>0, <1>5, RxTimeoutQuiet DEF Working
  <2>2. SameRx(rx', rx) /\ file' = file /\ back' = back
    BY <2>1 DEF Quiet
  <2>3. setting.crc
    BY <1>0, <1>4, <2>1
  <2> QED  BY <1>0, <1>1, <1>3, <2>1, <2>2, <2>3, UnsentGoing
<1>6. CASE TransmitNak(TRUE)
  <2>1. /\ rx.pc = "purge" /\ rx'.pc = "block" /\ SameRx(rx', rx)
        /\ fwd' = <<>> /\ file' = file /\ back' = Append(back, Ask) /\ Ask \in Answers
    BY <1>0, <1>6, TransmitNakFacts
  <2>2. /\ back' \in Seq(Answers) /\ Len(back') = Len(back) + 1
        /\ \A k \in 1..Len(back) : back'[k] = back[k]
        /\ back'[Len(back) + 1] = Ask
    BY <1>0, <2>1
  <2>3. \A k \in 1..Len(back') : back'[k] \in {Ask, "noise"}
    BY <1>0, <1>3, <2>2
  <2>4. tx.pc # "menu" => Len(back') <= 1
    BY <1>1, <2>2
  <2>5. ~setting.crc => AskedOnce'
    <3> SUFFICES ASSUME ~setting.crc PROVE AskedOnce'
      OBVIOUS
    <3>1. Ask = "NAK" /\ back = <<>>
      BY <1>4 DEF Ask
    <3>2. back' = <<"NAK">>
      BY <2>1, <3>1
    <3> QED  BY <2>1, <3>2 DEF AskedOnce, InBlock
  <2> QED  BY <1>1, <1>4, <2>1, <2>2, <2>3, <2>4, <2>5, UnsentGoing
<1>7. ~TransmitCans(TRUE)
  BY <1>0, TransmitCansFacts DEF Working
<1> QED  BY <1>5, <1>6, <1>7 DEF RxSilent

\* A block is the one under way: a header before the file is opened, a part of it after.
LEMMA BlockUnderWay ==
    ASSUME LineFits, Going, fwd # <<>>, fwd[1].kind = "block"
    PROVE  /\ tx.pc = "answer" /\ (tx.header => AtHeader /\ ~rx.open)
           /\ (~tx.header => AtBlock /\ rx.open) /\ Len(fwd) = 1 /\ back = <<>>
           /\ Tail(fwd) = <<>> /\ Append(back, "ACK") = <<"ACK">>
<1>0. /\ Live /\ fwd \in Seq(Msg) /\ tx.header \in BOOLEAN
  BY GoingFacts DEF TxType
<1>1. /\ tx.pc \in {"menu", "nak0", "nak1", "cancel", "answer", "eot"}
  BY <1>0 DEF Live
<1>2. ~Junk
  BY <1>0 DEF Junk, OnlyKinds
<1>3. tx.pc = "answer"
  BY <1>0, <1>1, <1>2 DEF Live, AtMenu, AtNak0, AtNak1, AtCancel, AtEot
<1>4. /\ tx.header => AtHeader
      /\ ~tx.header => AtBlock
      /\ Len(fwd) <= 1 /\ back = <<>>
  BY <1>0, <1>3 DEF Live, OneSided
<1>5. AtHeader => ~rx.open
  BY DEF AtHeader, AwaitsHead
<1>6. AtBlock => rx.open
  BY DEF AtBlock, Has
<1>7. Len(fwd) = 1 /\ Tail(fwd) = <<>>
  <2>1. Len(fwd) >= 1 /\ Len(fwd) \in Nat /\ Len(Tail(fwd)) = Len(fwd) - 1 /\ Tail(fwd) \in Seq(Msg)
    BY <1>0, HeadTail
  <2> QED  BY <1>4, <2>1
<1> QED  BY <1>3, <1>4, <1>5, <1>6, <1>7

LEMMA TakeHeaderGoing ==
    ASSUME LineFits, Going, UNCHANGED <<tx, faults, users>>,
           TakeHeader(TRUE, TRUE)
    PROVE  Went'
<1> DEFINE m == fwd[1]
<1> tx.size \in Nat
  BY GoingFacts DEF TxType
<1> PICK size \in Nat : size = tx.size
  OBVIOUS
<1>0. /\ RxFine /\ rx \in RxType /\ TxFine(tx) /\ Live /\ tx.header \in BOOLEAN
      /\ rx.ymodem = tx.ymodem
  BY GoingFacts DEF TxType
<1>1. /\ tx' = tx /\ faults' = faults /\ setting' = setting /\ sent' = sent
      /\ received' = received /\ Ask' = Ask
  BY DEF users, Ask
<1>2. /\ rx.pc = "block" /\ ~rx.open /\ fwd # <<>> /\ m \in BlockMsg
      /\ fwd' = Tail(fwd) /\ back' = Append(back, "ACK")
      /\ rx'.ymodem = rx.ymodem
      /\ \A n \in Nat : m.head = FileHead(n) =>
           /\ rx'.pc = "purge" /\ rx'.open /\ rx'.blk = 1 /\ file' = <<>>
           /\ rx'.blocks = n \div Short /\ rx'.bytes = n % Short
  BY <1>0, TakeHeaderFacts
<1>3. /\ tx.pc = "answer" /\ tx.header /\ AtHeader /\ fwd' = <<>> /\ back' = <<"ACK">>
  BY <1>0, <1>2, BlockUnderWay DEF BlockMsg
<1>4. m.head = FileHead(size) /\ AwaitsHead /\ rx.ymodem
  BY <1>2, <1>3 DEF AtHeader, AwaitsHead
<1>5. /\ rx'.pc = "purge" /\ rx'.open /\ rx'.blk = 1 /\ file' = <<>>
      /\ rx'.blocks = size \div Short /\ rx'.bytes = size % Short
  BY <1>0, <1>2, <1>4
<1>6. /\ size \div Short \in Nat /\ size % Short \in 0..(Short - 1)
      /\ (size \div Short) * Short + (size % Short) = size
  BY <1>0, Division, LineAssumption
<1>7. tx'.size = size
  BY <1>1
<1> HIDE DEF m
<1>8. Expects(size, 0)'
  <2>1. rx'.blocks * Short + rx'.bytes = size - 0
    BY <1>5, <1>6
  <2> QED  BY <1>2, <1>4, <1>5, <1>6, <2>1 DEF Expects
<1>9. Covers(file, size, 0, rx.ymodem)'
  BY <1>2, <1>4, <1>5 DEF Covers
<1>10. Opened'
  <2>1. Has(size, 0, 1)'
    BY <1>5, <1>8, <1>9 DEF Has
  <2>2. Has(tx.size, 0, 1)'
    BY <1>7, <2>1
  <2> QED  BY <1>2, <1>4, <2>2 DEF Opened
<1>11. Fresh(tx)'
  BY <1>1, <1>3 DEF AtHeader, Fresh
<1>12. AtHeader'
  BY <1>3, <1>5, <1>10, <1>11 DEF AtHeader, Answered
<1>13. ~Ended'
  BY <1>1, EndedSame DEF Going
<1>14. OneSided' /\ Len(fwd') <= 1 /\ Len(back') <= 1
  BY <1>3 DEF OneSided
<1>15. \A k \in DOMAIN back' : back'[k] \in {Ask', "ACK", "noise"}
  BY <1>3
<1> QED  BY <1>1, <1>3, <1>5, <1>12, <1>13, <1>14, <1>15 DEF Went, Live

\* What is written of a block, and what is counted after it.
Taking(blocks, bytes, from, n, size, long, exact) ==
    /\ blocks \in Int /\ bytes \in Int /\ from \in Nat /\ n \in Nat /\ size \in Nat
    /\ long \in BOOLEAN /\ exact \in BOOLEAN
    /\ from + n <= size /\ n > 0 /\ Width(long) - n \in 0..(Short - 1)
    /\ n < Width(long) => from + n = size
    /\ exact => /\ bytes \in 0..(Short - 1) /\ blocks \in Nat
                /\ blocks * Short + bytes = size - from
    /\ ~exact => /\ blocks * Short + from = MaxBlocks * Short
                 /\ size + Short * Ratio <= MaxBlocks * Short

\* A block is taken: the short blocks still expected, and the bytes written to the file.
LeftOf(blocks, long) == blocks - Units(long)
KeptOf(blocks, bytes, long) ==
    IF LeftOf(blocks, long) >= 0 THEN Width(long) ELSE (blocks % 256) * Short + bytes

\* A block of n bytes, taken after the first bytes of the file, leaves the counts right.
Taken(left, kept, bytes, from, n, size, exact) ==
    /\ exact \/ from + n < size => kept = n
    /\ ~exact => kept - n \in 0..(Short - 1)
    /\ from + n < size => left >= 0
    /\ from + n < size /\ exact => left * Short + bytes = size - (from + n)
    /\ from + n < size /\ ~exact => left * Short + (from + n) = MaxBlocks * Short

LEMMA TakenCount ==
    ASSUME Ratio <= 256, NEW blocks, NEW bytes, NEW from, NEW n, NEW size, NEW long, NEW ymodem,
           Taking(blocks, bytes, from, n, size, long, ymodem)
    PROVE  Taken(LeftOf(blocks, long), KeptOf(blocks, bytes, long), bytes, from, n, size, ymodem)
<1>0. /\ blocks \in Int /\ bytes \in Int /\ from \in Nat /\ n \in Nat /\ size \in Nat
      /\ long \in BOOLEAN /\ ymodem \in BOOLEAN
      /\ from + n <= size /\ n > 0 /\ Width(long) - n \in 0..(Short - 1)
      /\ n < Width(long) => from + n = size
      /\ ymodem => /\ bytes \in 0..(Short - 1) /\ blocks \in Nat
                   /\ blocks * Short + bytes = size - from
      /\ ~ymodem => /\ blocks * Short + from = MaxBlocks * Short
                    /\ size + Short * Ratio <= MaxBlocks * Short
  BY DEF Taking
<1> DEFINE left == LeftOf(blocks, long)
           kept == KeptOf(blocks, bytes, long)
<1>00. left = blocks - Units(long)
       /\ kept = IF left >= 0 THEN Width(long) ELSE (blocks % 256) * Short + bytes
  BY DEF LeftOf, KeptOf
<1> HIDE DEF left, kept
<1> SUFFICES Taken(left, kept, bytes, from, n, size, ymodem)
  BY DEF left, kept
<1>1. Short \in Nat /\ Short > 0 /\ Ratio \in Nat /\ Ratio > 0 /\ MaxBlocks \in Nat
  BY LineAssumption, ReceiveAssumption
<1> DEFINE u == Units(long)
           w == Width(long)
           x == blocks * Short
           y == MaxBlocks * Short
           z == Short * Ratio
<1>2. u \in Nat /\ u > 0 /\ u <= Ratio /\ w = Short * u
  BY <1>0, <1>1 DEF Units, Width
<1>3. x \in Int /\ y \in Int /\ z \in Nat /\ w \in Nat /\ w > 0 /\ left \in Int /\ left = blocks - u
  BY <1>0, <1>00, <1>1, <1>2, Z3
<1>4. left * Short = x - w
  BY <1>0, <1>1, <1>2, <1>3, Z3
<1>5. left >= 0 <=> x >= w
  BY <1>0, <1>1, <1>2, <1>3, <1>4, Z3
<1>6. left < 0 => x + Short <= w
  <2> SUFFICES ASSUME left < 0 PROVE x + Short <= w
    OBVIOUS
  <2>1. (left + 1) * Short <= 0
    BY <1>1, <1>3, Z3
  <2>2. (left + 1) * Short = left * Short + Short
    BY <1>1, <1>3, Z3
  <2> HIDE DEF x, w
  <2> DEFINE l == left * Short
  <2>3. l \in Int
    BY <1>1, <1>3, <1>4
  <2> HIDE DEF l
  <2>4. l + Short <= 0 /\ l = x - w
    BY <1>4, <2>1, <2>2 DEF l
  <2> QED  BY <1>1, <1>3, <2>3, <2>4
<1>7. z >= w
  BY <1>1, <1>2, Z3
<1>8. /\ w - n \in 0..(Short - 1)
      /\ n < w => from + n = size
      /\ ymodem => x + bytes = size - from
      /\ ~ymodem => x + from = y /\ size + z <= y
  BY <1>0
<1>9. left < 0 /\ ymodem => kept = x + bytes
  <2> SUFFICES ASSUME left < 0, ymodem PROVE kept = x + bytes
    OBVIOUS
  <2>1. blocks \in Nat /\ blocks < 256
    <3>1. blocks \in Nat
      BY <1>0
    <3>2. u \in Nat /\ u <= 256
      BY <1>1, <1>2
    <3>3. blocks - u < 0
      BY <1>3
    <3> HIDE DEF u, w, x, y, z
    <3> QED  BY <3>1, <3>2, <3>3
  <2>2. blocks % 256 = blocks
    BY <2>1
  <2> QED  BY <1>00, <1>3, <2>2
<1>10. left >= 0 => kept = w
  BY <1>00, <1>3
<1> HIDE DEF u, w, x, y, z
<1>11. CASE ymodem
  <2>1. bytes \in 0..(Short - 1) /\ x + bytes = size - from
    BY <1>0, <1>8, <1>11
  <2>2. CASE left >= 0
    <3>1. n = w
      BY <1>0, <1>1, <1>3, <1>5, <1>8, <2>1, <2>2
    <3>2. x - w + bytes = size - (from + n)
      BY <1>0, <1>3, <2>1, <3>1
    <3>3. left * Short + bytes = size - (from + n)
      BY <1>4, <3>2
    <3> QED  BY <1>0, <1>10, <1>11, <2>2, <3>1, <3>3 DEF Taken
  <2>3. CASE left < 0
    <3>1. kept = size - from
      BY <1>0, <1>9, <1>11, <2>1, <2>3
    <3>2. size - from < w
      BY <1>0, <1>1, <1>3, <1>6, <2>1, <2>3
    <3>3. from + n = size
      BY <1>0, <1>3, <1>8, <3>2
    <3> QED  BY <1>0, <1>11, <3>1, <3>3 DEF Taken
  <2> QED  BY <1>3, <2>2, <2>3
<1>12. CASE ~ymodem
  <2>1. x + from = y /\ size + z <= y
    BY <1>8, <1>12
  <2>2. left >= 0 /\ kept = w
    BY <1>0, <1>3, <1>5, <1>7, <1>10, <2>1
  <2>3. from + n < size => n = w
    BY <1>0, <1>1, <1>3, <1>8
  <2>4. from + n < size => x - w + (from + n) = y
    BY <1>0, <1>3, <2>1, <2>3
  <2>5. from + n < size => left * Short + (from + n) = y
    BY <1>4, <2>4
  <2> QED  BY <1>0, <1>8, <1>12, <2>2, <2>3, <2>5 DEF y, Taken
<1> QED  BY <1>0, <1>11, <1>12

\* One more piece.
LEMMA CoversMore ==
    ASSUME NEW pieces \in Seq(Piece), NEW p \in Piece, NEW exact \in BOOLEAN,
           NEW size \in Nat, NEW upTo \in Nat, Covers(pieces, size, upTo, exact), upTo < size,
           p.data.of = size, p.data.from = upTo,
           exact \/ upTo + p.data.n < size => p.keep = p.data.n,
           ~exact => p.keep - p.data.n \in 0..(Short - 1)
    PROVE  Covers(Append(pieces, p), size, upTo + p.data.n, exact)
<1> DEFINE q == Append(pieces, p)
           n == Len(pieces)
<1>1. /\ n \in Nat /\ q \in Seq(Piece) /\ Len(q) = n + 1 /\ q # <<>> /\ q[n + 1] = p
      /\ \A k \in 1..n : q[k] = pieces[k]
      /\ pieces = <<>> <=> n = 0
  OBVIOUS
<1>2. /\ \A k \in 1..n :
           /\ pieces[k].data.of = size
           /\ pieces[k].data.from = IF k = 1 THEN 0
                                    ELSE pieces[k - 1].data.from + pieces[k - 1].keep
      /\ IF pieces = <<>> THEN upTo = 0
         ELSE /\ pieces[n].data.from + pieces[n].data.n = upTo
              /\ pieces[n].keep = pieces[n].data.n
  BY DEF Covers
<1> HIDE DEF q, n
<1>3. \A k \in 1..(n + 1) :
           /\ q[k].data.of = size
           /\ q[k].data.from = IF k = 1 THEN 0 ELSE q[k - 1].data.from + q[k - 1].keep
  <2> SUFFICES ASSUME NEW k \in 1..(n + 1)
               PROVE  /\ q[k].data.of = size
                      /\ q[k].data.from = IF k = 1 THEN 0
                                          ELSE q[k - 1].data.from + q[k - 1].keep
    OBVIOUS
  <2>1. CASE k <= n
    <3>1. n \in Nat
      BY <1>1
    <3>2. k \in 1..n /\ (k # 1 => k - 1 \in 1..n)
      BY ONLY <2>1, <3>1, k \in 1..(n + 1)
    <3>3. q[k] = pieces[k] /\ (k # 1 => q[k - 1] = pieces[k - 1])
      BY <1>1, <3>2
    <3> QED  BY ONLY <1>2, <3>2, <3>3
  <2>2. CASE k = n + 1
    <3>1. CASE n = 0
      BY <1>1, <1>2, <2>2, <3>1
    <3>2. CASE n # 0
      <4>1. n \in Nat
        BY <1>1
      <4>2. k - 1 = n /\ n \in 1..n /\ k # 1
        BY ONLY <4>1, <2>2, <3>2
      <4> QED  BY <1>1, <1>2, <2>2, <3>2, <4>2
    <3> QED  BY <3>1, <3>2
  <2> QED  BY <1>1, <2>1, <2>2
<1>4. DOMAIN q = 1..(n + 1)
  BY <1>1
<1>5. /\ q[Len(q)] = p /\ p.data.from + p.data.n = upTo + p.data.n
      /\ exact \/ upTo + p.data.n < size => p.keep = p.data.n
      /\ ~exact => p.keep - p.data.n \in 0..(Short - 1)
  BY <1>1
<1>6. Covers(q, size, upTo + p.data.n, exact)
  BY <1>1, <1>3, <1>4, <1>5 DEF Covers
<1> QED  BY <1>6 DEF q

LEMMA TakeBlockGoing ==
    ASSUME LineFits, Going, UNCHANGED <<tx, faults, users>>,
           TakeBlock(TRUE, TRUE)
    PROVE  Went'
<1>0. /\ RxFine /\ rx \in RxType /\ TxFine(tx) /\ Live /\ tx.header \in BOOLEAN
      /\ rx.ymodem = tx.ymodem /\ file \in Seq(Piece) /\ rx.ymodem \in BOOLEAN
      /\ tx.blk \in 0..(BlkMod - 1) /\ TxState(tx) /\ rx.blocks \in Int /\ rx.bytes \in Int
  BY GoingFacts DEF TxType, RxType, RxFine
<1> PICK size \in Nat, m \in BlockMsg, pos \in Nat : size = tx.size /\ m = fwd[1] /\ pos = tx.pos
  <2>1. tx.size \in Nat /\ tx.pos \in Nat
    BY GoingFacts DEF TxType
  <2>2. fwd[1] \in BlockMsg
    BY <1>0, TakeBlockFacts
  <2> QED  BY <2>1, <2>2
<1>1. /\ tx' = tx /\ faults' = faults /\ setting' = setting /\ sent' = sent
      /\ received' = received /\ Ask' = Ask
  BY DEF users, Ask
<1>2. /\ rx.pc = "block" /\ rx.open /\ fwd # <<>>
      /\ fwd' = Tail(fwd) /\ back' = Append(back, "ACK")
      /\ Kept(m) \in Int /\ file' = Append(file, [data |-> m.data, keep |-> Kept(m)])
      /\ rx'.ymodem = rx.ymodem
      /\ rx'.pc = "block" /\ rx'.open /\ rx'.bytes = rx.bytes
      /\ rx'.blk = NextNum(rx.blk)
      /\ rx'.blocks = IF Left(m) >= 0 THEN Left(m) ELSE Kept(m)
  BY <1>0, TakeBlockFacts
<1>3. /\ tx.pc = "answer" /\ ~tx.header /\ AtBlock /\ fwd' = <<>> /\ back' = <<"ACK">>
  BY <1>0, <1>2, BlockUnderWay DEF BlockMsg
<1> PICK from \in Nat, n \in Nat : from = m.data.from /\ n = m.data.n
  BY DEF BlockMsg, Datum
<1>4. /\ m.data.of = size /\ from + n = pos /\ n > 0
      /\ Width(m.long) - n \in 0..(Short - 1)
      /\ n < Width(m.long) => pos = size
      /\ Has(size, from, tx.blk)
  BY <1>2, <1>3 DEF AtBlock
<1>5. rx.blk = tx.blk /\ Covers(file, size, from, rx.ymodem) /\ Expects(size, from)
  BY <1>4 DEF Has
<1>6. pos <= size /\ from < size
  <2>1. tx.pos <= tx.size
    BY <1>0 DEF TxState
  <2>2. pos <= size
    BY <2>1
  <2>3. from + n = pos /\ n > 0
    BY <1>4
  <2> QED  BY ONLY <2>2, <2>3, from \in Nat, n \in Nat, pos \in Nat, size \in Nat
<1>7. ~rx.ymodem => size + Short * Ratio <= MaxBlocks * Short
  <2>1. tx.size \in Sizes /\ tx.ymodem = setting.txYmodem
    BY <1>0, <1>3 DEF TxFine, TxPcs
  <2> QED  BY <1>0, <2>1 DEF Sizes, Fits
<1>8. /\ Left(m) = rx.blocks - Units(m.long)
      /\ Kept(m) = IF Left(m) >= 0 THEN Width(m.long) ELSE (rx.blocks % 256) * Short + rx.bytes
      /\ m.long \in BOOLEAN /\ Ratio <= 256
  BY DEF Left, Kept, BlockMsg, LineFits
<1>9. /\ rx.ymodem => /\ rx.bytes \in 0..(Short - 1) /\ rx.blocks \in Nat
                      /\ rx.blocks * Short + rx.bytes = size - from
      /\ ~rx.ymodem => /\ rx.blocks * Short + from = MaxBlocks * Short
                       /\ size + Short * Ratio <= MaxBlocks * Short
  BY <1>5, <1>6, <1>7 DEF Expects
<1>10. /\ rx.ymodem \/ from + n < size => Kept(m) = n
       /\ ~rx.ymodem => Kept(m) - n \in 0..(Short - 1)
       /\ from + n < size => Left(m) >= 0
       /\ from + n < size /\ rx.ymodem => Left(m) * Short + rx.bytes = size - (from + n)
       /\ from + n < size /\ ~rx.ymodem => Left(m) * Short + (from + n) = MaxBlocks * Short
  <2>1. from + n <= size /\ (n < Width(m.long) => from + n = size)
    BY <1>4, <1>6
  <2>2. /\ rx.blocks \in Int /\ rx.bytes \in Int /\ m.long \in BOOLEAN /\ rx.ymodem \in BOOLEAN
        /\ n > 0 /\ Width(m.long) - n \in 0..(Short - 1) /\ Ratio <= 256
    BY <1>0, <1>4, <1>8
  <2>3. Taking(rx.blocks, rx.bytes, from, n, size, m.long, rx.ymodem)
    BY <1>9, <2>1, <2>2 DEF Taking
  <2>4. Taken(Left(m), Kept(m), rx.bytes, from, n, size, rx.ymodem)
    <3>1. Left(m) = LeftOf(rx.blocks, m.long) /\ Kept(m) = KeptOf(rx.blocks, rx.bytes, m.long)
      BY DEF Left, Kept, LeftOf, KeptOf
    <3> QED  BY <2>2, <2>3, <3>1, TakenCount
  <2> QED  BY <2>4 DEF Taken
<1> DEFINE p == [data |-> m.data, keep |-> Kept(m)]
<1>11. p \in Piece /\ p.data.of = size /\ p.data.from = from /\ p.data.n = n /\ p.keep = Kept(m)
  BY <1>2, <1>4 DEF Piece, BlockMsg
<1>12. file' = Append(file, p)
  BY <1>2
<1> HIDE DEF p
<1>13. Covers(Append(file, p), size, from + n, rx.ymodem)
  BY <1>0, <1>5, <1>6, <1>10, <1>11, CoversMore
<1>14. Covers(file, size, pos, rx.ymodem)'
  <2>1. \A q, e : Covers(q, size, pos, e)' <=> Covers(q, size, pos, e)
    BY DEF Covers
  <2> PICK q, e : q = Append(file, p) /\ e = rx.ymodem
    OBVIOUS
  <2>2. Covers(q, size, pos, e)
    BY <1>4, <1>13
  <2>3. file' = q /\ rx'.ymodem = e
    BY <1>2, <1>12
  <2> QED  BY ONLY <2>2, <2>3 DEF Covers
<1>15. Expects(size, pos)'
  <2> SUFFICES ASSUME pos < size PROVE Expects(size, pos)'
    BY DEF Expects
  <2>1. Left(m) >= 0 /\ rx'.blocks = Left(m) /\ Left(m) \in Int
    BY <1>0, <1>2, <1>4, <1>10, KeptType
  <2>2. CASE rx.ymodem
    <3>1. Left(m) * Short + rx.bytes = size - pos /\ rx.bytes \in 0..(Short - 1)
      BY <1>4, <1>9, <1>10, <2>2
    <3> QED  BY <1>2, <2>1, <2>2, <3>1 DEF Expects
  <2>3. CASE ~rx.ymodem
    <3>1. Left(m) * Short + pos = MaxBlocks * Short
      BY <1>4, <1>10, <2>3
    <3> QED  BY <1>2, <2>1, <2>3, <3>1 DEF Expects
  <2> QED  BY <2>2, <2>3
<1>16. tx'.size = size /\ tx'.pos = pos /\ tx'.blk = tx.blk
  BY <1>1
<1>17. Has(tx.size, tx.pos, NextNum(tx.blk))'
  <2>1. rx'.open /\ rx'.blk = NextNum(tx.blk)
    BY <1>2, <1>5
  <2>2. NextNum(tx.blk)' = NextNum(tx.blk)
    BY <1>1 DEF NextNum
  <2> QED  BY <1>14, <1>15, <1>16, <2>1, <2>2 DEF Has
<1>18. AtBlock'
  BY <1>1, <1>2, <1>3, <1>17 DEF AtBlock, Answered, InBlock
<1>19. ~Ended'
  BY <1>1, EndedSame DEF Going
<1>20. OneSided' /\ Len(fwd') <= 1 /\ Len(back') <= 1
  BY <1>3 DEF OneSided
<1>21. \A k \in DOMAIN back' : back'[k] \in {Ask', "ACK", "noise"}
  BY <1>3
<1> QED  BY <1>1, <1>2, <1>3, <1>18, <1>19, <1>20, <1>21 DEF Went, Live

\* An EOT comes from a sender who has sent the whole file.
LEMMA EotUnderWay ==
    ASSUME LineFits, Going, fwd # <<>>, fwd[1].kind = "EOT"
    PROVE  /\ tx.pc = "eot" /\ AtEot /\ Len(fwd) = 1 /\ back = <<>>
           /\ Tail(fwd) = <<>> /\ Append(back, "ACK") = <<"ACK">>
<1>0. /\ Live /\ fwd \in Seq(Msg) /\ tx.header \in BOOLEAN
  BY GoingFacts DEF TxType
<1>1. /\ tx.pc \in {"menu", "nak0", "nak1", "cancel", "answer", "eot"}
  BY <1>0 DEF Live
<1>2. ~Junk
  BY <1>0 DEF Junk, OnlyKinds
<1>3. tx.pc = "eot"
  BY <1>0, <1>1, <1>2 DEF Live, AtMenu, AtNak0, AtNak1, AtCancel, AtHeader, AtBlock
<1>4. AtEot /\ Len(fwd) <= 1 /\ back = <<>>
  BY <1>0, <1>3 DEF Live, OneSided
<1>7. Len(fwd) = 1 /\ Tail(fwd) = <<>>
  <2>1. Len(fwd) >= 1 /\ Len(fwd) \in Nat /\ Len(Tail(fwd)) = Len(fwd) - 1 /\ Tail(fwd) \in Seq(Msg)
    BY <1>0, HeadTail
  <2> QED  BY <1>4, <2>1
<1> QED  BY <1>3, <1>4, <1>7

LEMMA TakeEotGoing ==
    ASSUME LineFits, Going, UNCHANGED <<tx, faults, users>>, Working',
           TakeEot(TRUE)
    PROVE  Went'
<1>0. /\ RxFine /\ Live /\ rx.ymodem \in BOOLEAN
  BY GoingFacts DEF RxType
<1>1. /\ tx' = tx /\ faults' = faults /\ setting' = setting /\ sent' = sent
      /\ received' = received /\ Ask' = Ask
  BY DEF users, Ask
<1>2. /\ rx.pc = "block" /\ fwd # <<>> /\ fwd[1].kind = "EOT"
      /\ fwd' = Tail(fwd) /\ back' = Append(back, "ACK")
      /\ rx'.ymodem = rx.ymodem
      /\ rx.ymodem => rx'.pc = "purge" /\ ~rx'.open /\ rx'.blk = 0
      /\ ~rx.ymodem => rx'.pc = "menu"
  BY <1>0, TakeEotFacts
<1>3. tx.pc = "eot" /\ fwd' = <<>> /\ back' = <<"ACK">>
  BY <1>2, EotUnderWay
<1>4. rx'.ymodem /\ rx'.pc = "purge" /\ ~rx'.open /\ rx'.blk = 0
  BY <1>0, <1>2 DEF Working
<1>5. AwaitsHead'
  BY <1>4 DEF AwaitsHead
<1>6. AtEot'
  BY <1>3, <1>4, <1>5 DEF AtEot, Answered
<1>13. ~Ended'
  BY <1>1, EndedSame DEF Going
<1>14. OneSided' /\ Len(fwd') <= 1 /\ Len(back') <= 1
  BY <1>3 DEF OneSided
<1>15. \A k \in DOMAIN back' : back'[k] \in {Ask', "ACK", "noise"}
  BY <1>3
<1> QED  BY <1>1, <1>3, <1>4, <1>6, <1>13, <1>14, <1>15 DEF Went, Live

LEMMA ReceiverGoing ==
    ASSUME LineFits, Going, Receiver, Working' PROVE Went'
<1>1. UNCHANGED <<tx, faults, users>>
  BY DEF Receiver
<1>2. CASE RxReads
  BY <1>1, <1>2, ReadsGoing
<1>3. CASE Silence /\ RxSilent(TRUE)
  BY <1>1, <1>3, SilentGoing
<1>4. CASE RxTakes
  BY <1>1, <1>4, TakeHeaderGoing, TakeBlockGoing, TakeEotGoing DEF RxTakes
<1> QED  BY <1>2, <1>3, <1>4 DEF Receiver

LEMMA Held ==
    ASSUME rx' = rx, file' = file
    PROVE  /\ AwaitsHead' <=> AwaitsHead
           /\ Listens' <=> Listens
           /\ \A size, upTo, blk : Has(size, upTo, blk)' <=> Has(size, upTo, blk)
<1>1. (AwaitsHead' <=> AwaitsHead) /\ (Listens' <=> Listens)
  BY DEF AwaitsHead, Listens
<1>2. \A size, upTo : Expects(size, upTo)' <=> Expects(size, upTo)
  BY DEF Expects
<1>3. \A size, upTo, blk : Has(size, upTo, blk)' <=> Has(size, upTo, blk)
  BY <1>2 DEF Has
<1> QED  BY <1>1, <1>3

\* XModem: any file may come.
LEMMA Listening == Listens => \A size : Has(size, 0, 1)
<1> SUFFICES ASSUME Listens, NEW size PROVE Has(size, 0, 1)
  OBVIOUS
<1>1. /\ ~rx.ymodem /\ rx.open /\ rx.blk = 1 /\ file = <<>>
      /\ rx.blocks = MaxBlocks /\ rx.bytes = 0
  BY DEF Listens
<1>2. MaxBlocks * Short + 0 = MaxBlocks * Short
  BY LineAssumption, ReceiveAssumption, Z3
<1>3. Expects(size, 0)
  BY <1>1, <1>2 DEF Expects
<1>4. Covers(file, size, 0, rx.ymodem)
  BY <1>1 DEF Covers
<1> QED  BY <1>1, <1>3, <1>4 DEF Has

\* The sender starts a file, and waits to be asked for it.
LEMMA FileStarts ==
    ASSUME LineFits, Going, rx' = rx, file' = file, setting' = setting, Fresh(tx'),
           tx'.pc = IF tx.ymodem THEN "nak0" ELSE "nak1",
           AwaitsHead \/ Listens, Junk', back' \in Seq(Answers), Len(back') <= 1,
           \A k \in 1..Len(back') : back'[k] \in {Ask, "noise"},
           fwd' = <<>> \/ back' = <<>>, rx.pc = "can" => back' = <<>>,
           ~setting.crc => AskedOnce'
    PROVE  Went'
<1>0. /\ rx.ymodem = tx.ymodem /\ tx.ymodem \in BOOLEAN
  BY GoingFacts
<1>1. AwaitsHead => rx.ymodem
  BY DEF AwaitsHead
<1>2. Listens => ~rx.ymodem
  BY DEF Listens
<1>3. /\ AwaitsHead' <=> AwaitsHead
      /\ Listens' <=> Listens
  BY Held
<1>4. ~Ended' /\ OneSided' /\ Ask' = Ask
  BY <1>0 DEF Ended, OneSided, Ask
<1>5. \A k \in DOMAIN back' : back'[k] \in {Ask', "noise"} /\ back'[k] # "ACK"
  BY <1>4 DEF Ask
<1>6. CASE tx.ymodem
  <2>1. tx'.pc = "nak0" /\ AwaitsHead'
    BY <1>0, <1>2, <1>3, <1>6
  <2>2. AtNak0'
    BY <2>1 DEF AtNak0
  <2> QED  BY <1>4, <1>5, <2>1, <2>2 DEF Went, Live
<1>7. CASE ~tx.ymodem
  <2>1. tx'.pc = "nak1" /\ Listens'
    BY <1>0, <1>1, <1>3, <1>7
  <2>2. \A size : Has(size, 0, 1)'
    BY <2>1, <1>3, Listening, Held
  <2>3. Has(tx.size, 0, 1)'
    BY <2>2 DEF Has
  <2>4. Opened'
    BY <2>1, <2>3 DEF Opened
  <2>5. ~rx'.ymodem /\ Fresh(tx)'
    BY <1>0, <1>7 DEF Fresh
  <2>6. AtNak1'
    BY <2>1, <2>4, <2>5 DEF AtNak1
  <2> QED  BY <1>4, <1>5, <2>1, <2>6 DEF Went, Live
<1> QED  BY <1>0, <1>6, <1>7

LEMMA SendGoing == ASSUME LineFits, Going, Send PROVE Went'
<1>0. /\ RxFine /\ TxFine(tx) /\ back \in Seq(Answers) /\ setting \in Settings /\ Live
      /\ tx.ymodem \in BOOLEAN
  BY GoingFacts
<1>1. PICK sizes \in setting.batches : KeySend(sizes)
  BY DEF Send
<1>2. UNCHANGED <<rx, file, setting, received>>
  BY DEF Send, rxVars
<1>3. /\ tx.pc = "menu" /\ fwd' = fwd /\ Fresh(tx')
      /\ tx'.pc = IF setting.txYmodem THEN "nak0" ELSE "nak1"
      /\ back' \in Seq(Answers) /\ Len(back') <= 1
      /\ \A k \in 1..Len(back') : \E i \in 1..Len(back) : back'[k] = back[i]
  BY <1>0, <1>1, KeySendFacts
<1>4. AtMenu /\ \A k \in 1..Len(back) : back[k] \in {Ask, "ACK", "noise"} /\ back[k] # "ACK"
  BY <1>0, <1>3 DEF Live
<1>5. setting.crc /\ (AwaitsHead \/ Listens) /\ fwd = <<>> /\ rx.pc # "can"
  BY <1>4 DEF AtMenu
<1>6. \A k \in 1..Len(back') : back'[k] \in {Ask, "noise"}
  BY <1>3, <1>4
<1>7. Junk'
  BY <1>3, <1>5 DEF Junk, OnlyKinds
<1>8. tx'.pc = IF tx.ymodem THEN "nak0" ELSE "nak1"
  BY <1>0, <1>3 DEF TxFine
<1> QED  BY <1>2, <1>3, <1>5, <1>6, <1>7, <1>8, FileStarts

LEMMA EscapeGoing == ASSUME LineFits, Going, Escape PROVE Went'
<1>0. /\ TxFine(tx) /\ Live /\ fwd \in Seq(Msg) /\ tx.header \in BOOLEAN
      /\ sent = <<>> <=> tx.pc = "menu"
  BY GoingFacts DEF TxType
<1>1. TxEscape /\ sent' = sent
  BY DEF Escape, users
<1>2. /\ tx'.pc = "cancel" /\ tx'.next = <<>> /\ fwd' = fwd
      /\ tx.pc \in {"nak0", "nak1", "answer"}
  BY <1>0, <1>1, EscapeFacts DEF line
<1>3. Ended'
  BY <1>0, <1>1, <1>2 DEF Ended
<1>4. NoEot
  <2>1. tx.pc \in {"nak0", "nak1"} => Junk
    BY <1>0 DEF Live, AtNak0, AtNak1
  <2>2. tx.pc = "answer" => Len(fwd) <= 1 /\ (fwd # <<>> => fwd[1].kind = "block")
    BY <1>0 DEF Live, AtHeader, AtBlock
  <2>3. CASE tx.pc = "answer"
    <3>1. \A k \in 1..Len(fwd) : k = 1 /\ fwd # <<>>
      BY <1>0, <2>2, <2>3
    <3> QED  BY <2>2, <2>3, <3>1 DEF NoEot, OnlyKinds
  <2> QED  BY <1>2, <2>1, <2>3 DEF Junk, NoEot, OnlyKinds
<1>5. NoEot'
  BY <1>2, <1>4 DEF NoEot, OnlyKinds
<1> QED  BY <1>3, <1>5 DEF Went

\* A file of which everything has come.
LEMMA CoversWhole ==
    \A pieces, size, exact : Covers(pieces, size, size, exact) => Whole(pieces, size, exact)
<1> SUFFICES ASSUME NEW pieces, NEW size, NEW exact, Covers(pieces, size, size, exact)
             PROVE  Whole(pieces, size, exact)
  OBVIOUS
<1> QED  BY DEF Covers, Whole

\* The sender reads the one byte that there is.
LEMMA ReadingFacts ==
    ASSUME LineFits, Going, TxRead
    PROVE  /\ tx.pc \in {"nak0", "nak1", "answer", "eot"} /\ fwd = <<>> /\ back' = <<>>
           /\ Len(back) = 1 /\ back = <<Head(back)>> /\ Head(back) \in {Ask, "ACK", "noise"}
           /\ tx.pc \in {"nak0", "nak1"} => Head(back) # "ACK"
           /\ rx.pc # "can"
           /\ tx' = ReadStep(Head(back)).t /\ fwd' = ReadStep(Head(back)).out
           /\ TxFine(tx')
<1>0. /\ TxFine(tx) /\ Live /\ back \in Seq(Answers)
  BY GoingFacts
<1>1. /\ Does(ReadStep(Head(back))) /\ FineStep(ReadStep(Head(back)))
      /\ back # <<>> /\ back' = Tail(back)
      /\ tx.pc \in {"nak0", "nak1", "can1", "answer", "can", "eot"}
  BY <1>0, TxReadFacts
<1>2. /\ tx.pc \in {"nak0", "nak1", "answer", "eot"} /\ Len(back) <= 1 /\ fwd = <<>>
      /\ rx.pc # "can"
      /\ \A k \in 1..Len(back) : back[k] \in {Ask, "ACK", "noise"}
      /\ tx.pc \in {"nak0", "nak1"} => \A k \in 1..Len(back) : back[k] # "ACK"
  BY <1>0, <1>1 DEF Live, OneSided
<1>3. Len(back) = 1 /\ Head(back) = back[1] /\ back' = <<>>
  <2>1. /\ Len(back) >= 1 /\ Len(back) \in Nat /\ Len(Tail(back)) = Len(back) - 1
        /\ Tail(back) \in Seq(Answers) /\ Head(back) = back[1]
    BY <1>0, <1>1, HeadTail
  <2> QED  BY <1>1, <1>2, <2>1
<1>4. back = <<Head(back)>>
  BY <1>0, <1>3
<1>5. 1 \in 1..Len(back)
  BY <1>3
<1>6. ReadStep(Head(back)).out \in Seq(Msg) /\ TxFine(tx')
  BY <1>1 DEF FineStep, Does
<1>7. fwd' = ReadStep(Head(back)).out
  BY <1>1, <1>2, <1>6 DEF Does
<1> QED  BY <1>1, <1>2, <1>3, <1>4, <1>5, <1>6, <1>7 DEF Does

LEMMA ReadNak0Going ==
    ASSUME LineFits, Going, TxRead, tx.pc = "nak0", UNCHANGED <<rxVars, faults, users>>
    PROVE  Went'
<1> DEFINE byte == Head(back)
           t == [tx EXCEPT !.check = CheckOf(byte)]
<1>0. /\ TxFine(tx) /\ Live /\ setting.crc \in BOOLEAN /\ AtNak0
  BY GoingFacts DEF Live
<1>1. /\ fwd = <<>> /\ back' = <<>> /\ back = <<byte>> /\ byte \in {Ask, "noise"}
      /\ rx.pc # "can" /\ tx' = WaitForNak0(byte).t /\ fwd' = WaitForNak0(byte).out
  BY ReadingFacts DEF ReadStep
<1>2. /\ rx' = rx /\ file' = file /\ setting' = setting /\ faults' = faults
      /\ sent' = sent /\ received' = received
  BY DEF rxVars, users
<1>3. AwaitsHead /\ AwaitsHead'
  BY <1>0, <1>2, Held DEF AtNak0
<1>4. ~setting.crc => byte = "NAK" /\ InBlock
  <2>1. ASSUME ~setting.crc PROVE back = <<"NAK">> /\ InBlock
    <3>1. AskedOnce
      BY <1>0, <2>1 DEF AtNak0
    <3>2. Len(back) = 1
      BY ReadingFacts
    <3>3. back # <<>>
      BY ONLY <3>2
    <3> QED  BY ONLY <3>1, <3>3 DEF AskedOnce
  <2> QED  BY <1>1, <2>1
<1>5. OneSided' /\ Ask' = Ask
  BY <1>1, <1>2 DEF OneSided, Ask
<1>6. CASE byte = "noise"
  <2>1. WaitForNak0(byte) = Only(tx)
    BY <1>6 DEF WaitForNak0
  <2>2. tx' = tx /\ fwd' = <<>>
    BY <1>1, <2>1, OnlyFacts
  <2>3. setting.crc
    BY <1>0, <1>4, <1>6
  <2>4. AtNak0'
    BY <1>2, <1>3, <2>2, <2>3 DEF AtNak0, Junk, OnlyKinds
  <2>5. ~Ended'
    BY <1>2, <2>2, EndedSame DEF Going
  <2> QED  BY <1>0, <1>1, <1>2, <1>5, <2>2, <2>4, <2>5 DEF Went, Live
<1>7. CASE byte # "noise"
  <2>1. byte = Ask /\ byte \in {"C", "NAK"}
    BY <1>1, <1>7 DEF Ask
  <2>2. WaitForNak0(byte) = Header(t)
    BY <2>1 DEF WaitForNak0
  <2>3. /\ TxState(t) /\ SameFile(t, tx) /\ t.header = tx.header /\ t.blk = tx.blk
        /\ t.pos = tx.pos /\ t.eof = tx.eof /\ t.check = CheckOf(byte)
    BY <1>0, CheckFine
  <2> HIDE DEF t
  <2>4. HeaderOut(Header(t), t)
    BY <2>3, HeaderFacts
  <2>5. /\ TxState(tx') /\ SameFile(tx', t) /\ tx'.pc = "answer"
        /\ tx'.header = t.header /\ tx'.pos = t.pos /\ tx'.eof = t.eof
        /\ \E m \in BlockMsg :
             /\ fwd' = <<m>>
             /\ m.num = 0 /\ m.check = t.check /\ m.flaw = "none" /\ m.head = FileHead(t.size)
    BY <1>1, <2>2, <2>4 DEF HeaderOut
  <2> PICK m \in BlockMsg : /\ fwd' = <<m>>
                            /\ m.num = 0 /\ m.check = t.check /\ m.flaw = "none"
                            /\ m.head = FileHead(t.size)
    BY <2>5
  <2>6. tx'.header /\ Fresh(tx') /\ tx'.size = t.size
    BY <1>0, <2>3, <2>5 DEF TxFine, Fresh, SameFile
  <2>7. m.kind = "block" /\ (~setting.crc => m.check = "sum")
    BY <1>4, <2>3 DEF BlockMsg, CheckOf
  <2>8. Len(fwd') = 1 /\ fwd'[1] = m
    OBVIOUS
  <2>9. AtHeader'
    <3>1. Fresh(tx)'
      BY <2>6 DEF Fresh
    <3>2. FileHead(tx'.size) = FileHead(t.size)
      BY <2>6
    <3>3. ~setting.crc => Sum(m) /\ Answered'
      BY <1>1, <1>2, <1>4, <2>7, <2>8 DEF Sum, Answered, InBlock
    <3> QED  BY <1>1, <1>2, <1>3, <2>7, <2>8, <3>1, <3>2, <3>3 DEF AtHeader, FileHead, Sum
  <2>10. ~Ended'
    BY <2>5 DEF Ended
  <2> QED  BY <1>1, <1>2, <1>5, <2>5, <2>6, <2>8, <2>9, <2>10 DEF Went, Live
<1> QED  BY <1>6, <1>7

\* A block goes to a receiver who has the file up to there.
LEMMA BlockGoes ==
    ASSUME LineFits, Going, UNCHANGED <<rxVars, faults, users>>, NEW t, NEW step,
           SendsBlock(step, t), tx' = step.t, fwd' = step.out, back' = <<>>,
           t \in TxType, ~t.header, SameFile(t, tx), rx.pc # "can",
           Has(tx.size, t.pos, t.blk), ~setting.crc => t.check = "sum" /\ InBlock
    PROVE  Went'
<1>1. /\ rx' = rx /\ file' = file /\ setting' = setting /\ faults' = faults
      /\ sent' = sent /\ received' = received
  BY DEF rxVars, users
<1>2. /\ TxState(tx') /\ SameFile(tx', t)
      /\ tx'.pc = "answer" /\ tx'.header = t.header /\ tx'.blk = t.blk
      /\ tx'.check = t.check
      /\ \E m \in BlockMsg : fwd' = <<m>> /\ Carries(m, t, tx'.pos)
  BY DEF SendsBlock
<1> PICK m \in BlockMsg : fwd' = <<m>> /\ Carries(m, t, tx'.pos)
  BY <1>2
<1>3. /\ m.num = t.blk /\ m.check = t.check /\ m.flaw = "none"
      /\ m.data.of = t.size /\ m.data.from = t.pos
      /\ m.data.n > 0 /\ t.pos + m.data.n = tx'.pos
      /\ Width(m.long) - m.data.n \in 0..(Short - 1)
      /\ m.data.n < Width(m.long) => tx'.pos = t.size
      /\ m.kind = "block"
  BY DEF Carries, BlockMsg
<1>4. tx'.size = tx.size /\ t.size = tx.size
  BY <1>2 DEF SameFile
<1>5. Has(tx.size, m.data.from, tx.blk)'
  <2>1. PICK size, pos, blk : size = tx.size /\ pos = t.pos /\ blk = t.blk
    OBVIOUS
  <2>2. Has(size, pos, blk)'
    BY <1>1, <2>1, Held
  <2>3. tx'.size = size /\ tx'.blk = blk /\ m.data.from = pos
    BY <1>2, <1>3, <1>4, <2>1
  <2> QED  BY <2>2, <2>3
<1>6. fwd'[1] = m /\ Len(fwd') = 1 /\ fwd' # <<>>
  OBVIOUS
<1>7. AtBlock'
  <2>1. ~setting.crc => Sum(m) /\ Answered' /\ tx'.check = "sum"
    BY <1>1, <1>2, <1>3, <1>6 DEF Sum, Answered, InBlock
  <2>2. /\ m.kind = "block" /\ m.num = tx'.blk
        /\ m.data.of = tx'.size /\ m.data.from + m.data.n = tx'.pos /\ m.data.n > 0
        /\ m.data.n < Width(m.long) => tx'.pos = tx'.size
    BY <1>2, <1>3, <1>4
  <2>3. back' # <<"ACK">>
    OBVIOUS
  <2> QED  BY <1>1, <1>3, <1>5, <1>6, <2>1, <2>2, <2>3 DEF AtBlock, Width, Units, Sum
<1>8. ~Ended' /\ OneSided' /\ ~tx'.header
  BY <1>2 DEF Ended, OneSided
<1> QED  BY <1>1, <1>2, <1>6, <1>7, <1>8 DEF Went, Live

\* The first EOT goes to a receiver who has the whole file.
LEMMA EotGoes ==
    ASSUME LineFits, Going, UNCHANGED <<rxVars, faults, users>>, NEW t, NEW step,
           StartsEots(step, t), tx' = step.t, fwd' = step.out, back' = <<>>,
           SameFile(t, tx), rx.pc # "can", NEW blk,
           Has(tx.size, t.pos, blk), Listens \/ InBlock, ~setting.crc => InBlock
    PROVE  Went'
<1>1. /\ rx' = rx /\ file' = file /\ setting' = setting /\ faults' = faults
      /\ sent' = sent /\ received' = received
  BY DEF rxVars, users
<1>2. /\ SameFile(tx', t) /\ tx'.pc = "eot" /\ tx'.eots = Eots
      /\ t.pos = t.size /\ fwd' = <<Control("EOT", t.size)>>
  BY DEF StartsEots
<1>3. tx'.size = tx.size /\ t.size = tx.size
  BY <1>2 DEF SameFile
<1>4. rx.open /\ Covers(file, tx.size, tx.size, rx.ymodem)
  BY <1>2, <1>3 DEF Has
<1>5. Whole(file, tx.size, rx.ymodem)'
  BY <1>1, <1>3, <1>4, CoversWhole
<1>6. (Listens' <=> Listens) /\ rx'.open
  BY <1>1, <1>4, Held
<1>7. /\ fwd' # <<>> /\ fwd'[1].kind = "EOT" /\ fwd'[1].data = tx'.size /\ Len(fwd') = 1
  BY <1>2, <1>3 DEF Control
<1>8. faults' + tx'.eots >= Eots
  BY <1>1, <1>2, GoingFacts, SendAssumption
<1>9. AtEot'
  BY <1>1, <1>5, <1>6, <1>7, <1>8 DEF AtEot, InBlock, Answered
<1>10. ~Ended' /\ OneSided'
  BY <1>2 DEF Ended, OneSided
<1> QED  BY <1>1, <1>2, <1>7, <1>9, <1>10 DEF Went, Live

LEMMA ReadNak1Going ==
    ASSUME LineFits, Going, TxRead, tx.pc = "nak1", UNCHANGED <<rxVars, faults, users>>
    PROVE  Went'
<1> DEFINE byte == Head(back)
           t == [tx EXCEPT !.check = CheckOf(byte)]
<1>0. /\ TxFine(tx) /\ Live /\ setting.crc \in BOOLEAN /\ AtNak1
  BY GoingFacts DEF Live
<1>1. /\ fwd = <<>> /\ back' = <<>> /\ back = <<byte>> /\ byte \in {Ask, "noise"}
      /\ rx.pc # "can" /\ tx' = WaitForNak1(byte).t /\ fwd' = WaitForNak1(byte).out
  BY ReadingFacts DEF ReadStep
<1>2. /\ rx' = rx /\ file' = file /\ setting' = setting /\ faults' = faults
      /\ sent' = sent /\ received' = received
  BY DEF rxVars, users
<1>3. Fresh(tx) /\ Opened
  BY <1>0 DEF AtNak1
<1>4. ~setting.crc => byte = "NAK" /\ InBlock
  <2>1. ~setting.crc => back = <<"NAK">> /\ InBlock
    BY <1>0, <1>1 DEF AtNak1, AskedOnce
  <2> QED  BY <1>1, <2>1
<1>5. WaitForNak1(byte) = IsNak1(byte)
  BY <1>1 DEF WaitForNak1, Ask
<1>6. CASE byte = "noise"
  <2> DEFINE u == [tx EXCEPT !.pc = "nak1"]
  <2>1. IsNak1(byte) = Only(u)
    BY <1>6 DEF IsNak1
  <2>2. tx' = u /\ fwd' = <<>>
    BY <1>1, <1>5, <2>1, OnlyFacts
  <2>3. SameFile(u, tx) /\ u.pc = "nak1" /\ u.pos = tx.pos /\ u.eof = tx.eof
    BY <1>0, PcFine DEF TxPcs
  <2>4. setting.crc
    BY <1>0, <1>4, <1>6
  <2>5. tx'.size = tx.size /\ Fresh(tx)' /\ tx'.pc = "nak1"
    BY <1>3, <2>2, <2>3 DEF SameFile, Fresh
  <2>6. Opened'
    <3>1. PICK size : size = tx.size
      OBVIOUS
    <3>2. Has(size, 0, 1)' /\ (~rx'.ymodem => Listens')
      BY <1>2, <1>3, <3>1, Held DEF Opened
    <3>3. tx'.size = size
      BY <2>5, <3>1
    <3> QED  BY <3>2, <3>3 DEF Opened
  <2>7. AtNak1'
    BY <1>1, <1>2, <2>2, <2>4, <2>5, <2>6 DEF AtNak1, Junk, OnlyKinds
  <2>8. ~Ended' /\ OneSided'
    BY <1>1, <2>5 DEF Ended, OneSided
  <2> QED  BY <1>1, <1>2, <2>5, <2>7, <2>8 DEF Went, Live
<1>7. CASE byte # "noise"
  <2>1. byte = Ask /\ byte \in {"C", "NAK"}
    BY <1>1, <1>7 DEF Ask
  <2>2. IsNak1(byte) = SendBlock(t)
    BY <2>1 DEF IsNak1
  <2>3. /\ TxState(t) /\ SameFile(t, tx) /\ t.header = tx.header /\ t.blk = tx.blk
        /\ t.pos = tx.pos /\ t.eof = tx.eof /\ t.check = CheckOf(byte)
    BY <1>0, CheckFine
  <2> HIDE DEF t
  <2>4. SendsBlock(SendBlock(t), t) \/ StartsEots(SendBlock(t), t)
    BY <2>3, SendBlockFacts
  <2>5. ~t.header /\ t.blk = 1 /\ t.pos = 0 /\ t \in TxType
    BY <1>0, <1>3, <2>3 DEF TxFine, Fresh, TxState
  <2>6. Has(tx.size, t.pos, t.blk)
    BY <1>3, <2>5 DEF Opened
  <2>7. ~setting.crc => t.check = "sum" /\ InBlock
    BY <1>4, <2>3 DEF CheckOf
  <2>8. tx' = SendBlock(t).t /\ fwd' = SendBlock(t).out
    BY <1>1, <1>5, <2>2
  <2>9. Listens \/ InBlock
    <3>1. back # <<>> /\ (~rx.ymodem => Listens)
      BY <1>3 DEF TxRead, Opened
    <3>2. rx.ymodem \in BOOLEAN
      BY GoingFacts
    <3> QED  BY <1>0, <3>1, <3>2 DEF AtNak1
  <2>10. CASE SendsBlock(SendBlock(t), t)
    BY <1>1, <2>3, <2>5, <2>6, <2>7, <2>8, <2>10, BlockGoes
  <2>11. CASE StartsEots(SendBlock(t), t)
    BY <1>1, <2>3, <2>6, <2>7, <2>8, <2>9, <2>11, EotGoes
  <2> QED  BY <2>4, <2>10, <2>11
<1> QED  BY <1>6, <1>7

LEMMA ReadAnswerGoing ==
    ASSUME LineFits, Going, TxRead, tx.pc = "answer", UNCHANGED <<rxVars, faults, users>>
    PROVE  Went'
<1> DEFINE byte == Head(back)
<1>0. /\ TxFine(tx) /\ Live /\ setting.crc \in BOOLEAN /\ tx.header \in BOOLEAN
      /\ TxState(tx) /\ tx \in TxType
      /\ tx.header => AtHeader
      /\ ~tx.header => AtBlock
  BY GoingFacts DEF Live, TxType
<1>1. /\ fwd = <<>> /\ back' = <<>> /\ back = <<byte>> /\ byte \in {Ask, "ACK", "noise"}
      /\ rx.pc # "can" /\ tx' = WaitToSend(byte).t /\ fwd' = WaitToSend(byte).out
  BY ReadingFacts DEF ReadStep
<1>2. /\ rx' = rx /\ file' = file /\ setting' = setting /\ faults' = faults
      /\ sent' = sent /\ received' = received
  BY DEF rxVars, users
<1>3. ~setting.crc => byte = "ACK"
  <2>1. ~setting.crc => Answered
    BY <1>0 DEF AtHeader, AtBlock
  <2>2. Answered => back = <<"ACK">>
    BY <1>1 DEF Answered
  <2> QED  BY <1>1, <2>1, <2>2
<1>4. CASE byte # "ACK"
  <2>1. setting.crc
    BY <1>0, <1>3, <1>4
  <2>2. byte \in {"C", "noise"}
    BY <1>1, <1>4, <2>1 DEF Ask
  <2>3. WaitToSend(byte) = Only(tx)
    BY <2>2 DEF WaitToSend
  <2>4. tx' = tx /\ fwd' = <<>>
    BY <1>1, <2>3, OnlyFacts
  <2>5. tx.header => AtHeader'
    <3> SUFFICES ASSUME tx.header PROVE AtHeader'
      OBVIOUS
    <3>1. Fresh(tx)'
      BY <1>0, <2>4 DEF AtHeader, Fresh
    <3> QED  BY <1>1, <1>2, <2>1, <2>4, <3>1 DEF AtHeader
  <2>6. AtBlock'
    BY <1>1, <1>2, <2>1, <2>4 DEF AtBlock
  <2>7. ~Ended' /\ OneSided'
    BY <1>1, <1>2, <2>4, EndedSame DEF Going, OneSided
  <2>8. Len(fwd') <= 1
    BY <2>4
  <2> QED  BY <1>0, <1>1, <1>2, <2>4, <2>5, <2>6, <2>7, <2>8 DEF Went, Live
<1>5. CASE byte = "ACK" /\ tx.header
  <2> DEFINE u == NotYmodemHeader(tx)
  <2>1. WaitToSend(byte) = Only(u)
    BY <1>5 DEF WaitToSend
  <2>2. tx' = u /\ fwd' = <<>>
    BY <1>1, <2>1, OnlyFacts
  <2>3. /\ SameFile(u, tx) /\ u.pc = "nak1" /\ u.pos = tx.pos /\ u.eof = tx.eof
    BY <1>0, NotYmodemHeaderFacts
  <2>4. AtHeader /\ back = <<"ACK">>
    BY <1>0, <1>1, <1>5
  <2>5. Fresh(tx) /\ Opened /\ (~setting.crc => rx.pc = "purge")
    BY <2>4 DEF AtHeader
  <2>6. tx'.size = tx.size /\ Fresh(tx)' /\ tx'.pc = "nak1"
    BY <2>2, <2>3, <2>5 DEF SameFile, Fresh
  <2>7. Opened'
    <3>1. PICK size : size = tx.size
      OBVIOUS
    <3>2. Has(size, 0, 1)' /\ (~rx'.ymodem => Listens')
      BY <1>2, <2>5, <3>1, Held DEF Opened
    <3>3. tx'.size = size
      BY <2>6, <3>1
    <3> QED  BY <3>2, <3>3 DEF Opened
  <2>8. AtNak1'
    BY <1>1, <1>2, <2>2, <2>5, <2>6, <2>7 DEF AtNak1, Junk, OnlyKinds, AskedOnce
  <2>9. ~Ended' /\ OneSided'
    BY <1>1, <2>6 DEF Ended, OneSided
  <2> QED  BY <1>1, <1>2, <2>6, <2>8, <2>9 DEF Went, Live
<1>6. CASE byte = "ACK" /\ ~tx.header
  <2> DEFINE t == [tx EXCEPT !.blk = NextNum(@)]
             step == SendNextBlock(tx)
  <2>1. WaitToSend(byte) = step
    BY <1>6 DEF WaitToSend
  <2>2. tx' = step.t /\ fwd' = step.out
    BY <1>1, <2>1
  <2>3. /\ TxState(t) /\ SameFile(t, tx) /\ t.header = tx.header
        /\ t.blk = NextNum(tx.blk) /\ t.pos = tx.pos /\ t.check = tx.check
        /\ SendsBlock(step, t) \/ StartsEots(step, tx)
    BY <1>0, SendNextBlockFacts
  <2> HIDE DEF t, step
  <2>4. AtBlock /\ back = <<"ACK">>
    BY <1>0, <1>1, <1>6
  <2>5. Has(tx.size, tx.pos, NextNum(tx.blk)) /\ InBlock /\ (~setting.crc => tx.check = "sum")
    BY <2>4 DEF AtBlock
  <2>6. CASE SendsBlock(step, t)
    <3>1. t \in TxType /\ Has(tx.size, t.pos, t.blk) /\ (~setting.crc => t.check = "sum")
      BY <2>3, <2>5 DEF TxState
    <3> QED  BY <1>1, <1>6, <2>2, <2>3, <2>5, <2>6, <3>1, BlockGoes
  <2>7. CASE StartsEots(step, tx)
    <3>1. SameFile(tx, tx)
      BY DEF SameFile
    <3> QED  BY <1>1, <2>2, <2>5, <2>7, <3>1, EotGoes
  <2> QED  BY <2>3, <2>6, <2>7
<1> QED  BY <1>0, <1>4, <1>5, <1>6

\* A file ends: another is started, or the sender is back at the menu.
LEMMA FileEnds ==
    ASSUME LineFits, Going, UNCHANGED <<rxVars, faults, users>>, tx' = EndFile(tx),
           tx.pc # "menu", Junk', back' = <<>>,
           tx.next # <<>> => AwaitsHead \/ Listens,
           tx.next # <<>> /\ ~setting.crc => rx.pc = "purge"
    PROVE  Went'
<1>0. /\ TxState(tx) /\ (sent = <<>> <=> tx.pc = "menu")
  BY GoingFacts
<1>1. UNCHANGED <<rx, file, setting, sent>>
  BY DEF rxVars, users
<1>2. /\ tx.next = <<>> => tx'.pc = "menu" /\ tx'.next = <<>>
      /\ tx.next # <<>> => /\ Fresh(tx')
                           /\ tx'.pc = IF tx.ymodem THEN "nak0" ELSE "nak1"
  BY <1>0, EndFileFacts
<1>3. CASE tx.next = <<>>
  <2>1. Ended' /\ NoEot'
    BY <1>0, <1>1, <1>2, <1>3 DEF Ended, NoEot, Junk, OnlyKinds
  <2> QED  BY <2>1 DEF Went
<1>4. CASE tx.next # <<>>
  <2>1. /\ back' \in Seq(Answers) /\ Len(back') <= 1
        /\ \A k \in 1..Len(back') : back'[k] \in {Ask, "noise"}
    OBVIOUS
  <2>2. ~setting.crc => AskedOnce'
    BY <1>1, <1>4 DEF AskedOnce
  <2> QED  BY <1>1, <1>2, <1>4, <2>1, <2>2, FileStarts
<1> QED  BY <1>3, <1>4

\* EOT is sent once more, or it was the last.
LEMMA EotAgainGoing ==
    ASSUME LineFits, Going, UNCHANGED <<rxVars, faults, users>>,
           tx.pc = "eot", fwd = <<>>, back' = <<>>, setting.crc, rx.pc # "can",
           tx' = SendEotAgain.t, fwd' = SendEotAgain.out,
           rx.open /\ ~Listens => InBlock
    PROVE  Went'
<1>0. /\ TxFine(tx) /\ Live /\ AtEot /\ rx \in RxType /\ setting.maxFaults \in Nat
      /\ faults \in Nat /\ faults <= setting.maxFaults
  BY GoingFacts DEF Live, LineFits, SettingFits
<1>1. /\ rx' = rx /\ file' = file /\ setting' = setting /\ faults' = faults
      /\ sent' = sent /\ received' = received
  BY DEF rxVars, users
<1>2. /\ ~rx.open => AwaitsHead
      /\ rx.open => Whole(file, tx.size, rx.ymodem)
      /\ rx.open /\ ~Listens => faults + tx.eots >= Eots + 1
  BY <1>0 DEF AtEot
<1>3. /\ tx.eots = 1 => SendEotAgain = Only(EndFile(tx))
      /\ tx.eots # 1 => AgainEot(SendEotAgain, tx)
      /\ tx.eots \in 1..Eots
  BY <1>0, SendEotAgainFacts
<1>4. CASE tx.eots = 1
  <2>1. tx' = EndFile(tx) /\ fwd' = <<>>
    BY <1>3, <1>4, OnlyFacts
  <2>2. Junk'
    BY <2>1 DEF Junk, OnlyKinds
  <2>3. tx.next # <<>> => AwaitsHead \/ Listens
    <3> SUFFICES ASSUME tx.next # <<>>, ~AwaitsHead, ~Listens PROVE FALSE
      OBVIOUS
    <3>1. faults + 1 >= Eots + 1
      BY <1>2, <1>4
    <3>2. setting.maxFaults < Eots
      BY <1>0 DEF TxFine
    <3> QED  BY <1>0, <3>1, <3>2, SendAssumption
  <2> QED  BY <2>1, <2>2, <2>3, FileEnds
<1>5. CASE tx.eots # 1
  <2>1. /\ SameFile(tx', tx) /\ tx'.pc = "eot" /\ tx'.eots = tx.eots - 1
        /\ fwd' = <<Control("EOT", tx.size)>>
    BY <1>3, <1>5 DEF AgainEot
  <2>2. tx'.size = tx.size
    BY <2>1 DEF SameFile
  <2>3. fwd' # <<>> /\ fwd'[1].kind = "EOT" /\ fwd'[1].data = tx'.size /\ Len(fwd') = 1
    BY <2>1, <2>2 DEF Control
  <2>4. rx.open /\ ~Listens => faults' + tx'.eots >= Eots
    BY <1>0, <1>1, <1>2, <1>3, <2>1, SendAssumption
  <2>5. /\ AwaitsHead' <=> AwaitsHead
        /\ Listens' <=> Listens
    BY <1>1, Held
  <2>6. Whole(file, tx.size, rx.ymodem)' <=> Whole(file, tx.size, rx.ymodem)
    BY <1>1, <2>2 DEF Whole
  <2>7. AtEot'
    BY <1>1, <1>2, <2>3, <2>4, <2>5, <2>6 DEF AtEot, InBlock
  <2>8. ~Ended' /\ OneSided'
    BY <2>1 DEF Ended, OneSided
  <2> QED  BY <1>1, <2>1, <2>3, <2>7, <2>8 DEF Went, Live
<1> QED  BY <1>4, <1>5

LEMMA ReadEotGoing ==
    ASSUME LineFits, Going, TxRead, tx.pc = "eot", UNCHANGED <<rxVars, faults, users>>
    PROVE  Went'
<1> DEFINE byte == Head(back)
<1>0. /\ TxFine(tx) /\ Live /\ setting.crc \in BOOLEAN /\ AtEot
  BY GoingFacts DEF Live
<1>1. /\ fwd = <<>> /\ back' = <<>> /\ back = <<byte>>
      /\ rx.pc # "can" /\ tx' = AnswerToEot(byte).t /\ fwd' = AnswerToEot(byte).out
      /\ back # <<>>
  BY ReadingFacts DEF ReadStep, TxRead
<1>2. CASE byte = "ACK"
  <2>1. AnswerToEot(byte) = Only(EndFile(tx))
    BY <1>2 DEF AnswerToEot
  <2>2. tx' = EndFile(tx) /\ fwd' = <<>>
    BY <1>1, <2>1, OnlyFacts
  <2>3. back = <<"ACK">>
    BY <1>1, <1>2
  <2>4. AwaitsHead /\ (~setting.crc => rx.pc = "purge")
    BY <1>0, <2>3 DEF AtEot
  <2>5. Junk'
    BY <2>2 DEF Junk, OnlyKinds
  <2> QED  BY <1>1, <2>2, <2>4, <2>5, FileEnds
<1>3. CASE byte # "ACK"
  <2>1. AnswerToEot(byte) = SendEotAgain
    BY <1>3 DEF AnswerToEot
  <2>2. setting.crc
    <3> SUFFICES ASSUME ~setting.crc PROVE FALSE
      BY <1>0
    <3>1. back = <<"ACK">>
      BY <1>0, <1>1 DEF AtEot, Answered
    <3> QED  BY <1>1, <1>3, <3>1
  <2>3. rx.open /\ ~Listens => InBlock
    BY <1>0, <1>1 DEF AtEot
  <2> QED  BY <1>1, <2>1, <2>2, <2>3, EotAgainGoing
<1> QED  BY <1>2, <1>3

LEMMA SilenceGoing ==
    ASSUME LineFits, Going, TxSilence, UNCHANGED <<rxVars, faults, users>>
    PROVE  Went'
<1>0. /\ TxFine(tx) /\ Live /\ setting.crc \in BOOLEAN /\ rx.pc \in {"purge", "block", "can"}
  BY GoingFacts
<1>1. /\ TxTimeout /\ back = <<>> /\ tx.pc \notin {"nak0", "nak1", "answer"}
      /\ fwd = <<>> /\ rx.pc \in {"block", "can"}
  BY <1>0 DEF TxSilence, RxIdle
<1>2. /\ Does(TimeoutStep) /\ FineStep(TimeoutStep) /\ back' = back
      /\ tx.pc \in {"nak0", "nak1", "can1", "answer", "can", "eot"}
  BY <1>0, <1>1, TxTimeoutFacts
<1>3. tx.pc = "eot" /\ rx.pc = "block" /\ AtEot
  BY <1>0, <1>1, <1>2 DEF Live
<1>4. TimeoutStep = SendEotAgain
  BY <1>3 DEF TimeoutStep
<1>5. SendEotAgain.out \in Seq(Msg)
  BY <1>2, <1>4 DEF FineStep
<1>6. tx' = SendEotAgain.t /\ fwd' = SendEotAgain.out
  BY <1>1, <1>2, <1>4, <1>5 DEF Does
<1>7. setting.crc
  BY <1>0, <1>1, <1>3 DEF AtEot, Answered
<1> QED  BY <1>1, <1>2, <1>3, <1>6, <1>7, EotAgainGoing DEF InBlock

LEMMA PurgeGoing ==
    ASSUME LineFits, Going, TxPurge \/ TxPurged, UNCHANGED <<rxVars, faults, users>>
    PROVE  Went'
<1>0. /\ TxFine(tx) /\ Live /\ back \in Seq(Answers) /\ fwd \in Seq(Msg)
      /\ sent = <<>> <=> tx.pc = "menu"
  BY GoingFacts
<1>1. /\ rx' = rx /\ file' = file /\ setting' = setting /\ faults' = faults
      /\ sent' = sent /\ received' = received
  BY DEF rxVars, users
<1>2. tx.pc = "cancel" /\ AtCancel /\ Len(back) <= 1
  BY <1>0 DEF Live, TxPurge, TxPurged
<1>3. setting.crc /\ (AwaitsHead \/ Listens) /\ Junk /\ OneSided
  BY <1>2 DEF AtCancel
<1>4. CASE TxPurge
  <2>1. back # <<>> /\ back' = Tail(back) /\ tx' = tx /\ fwd' = fwd
    BY <1>4 DEF TxPurge
  <2>2. back' = <<>>
    <3>1. /\ Len(back) >= 1 /\ Len(back) \in Nat /\ Len(Tail(back)) = Len(back) - 1
          /\ Tail(back) \in Seq(Answers)
      BY <1>0, <2>1, HeadTail
    <3> QED  BY <1>2, <2>1, <3>1
  <2>3. AtCancel'
    BY <1>1, <1>3, <2>1, <2>2, Held DEF AtCancel, Junk, OnlyKinds, OneSided
  <2>4. ~Ended' /\ OneSided'
    BY <1>1, <2>1, <2>2, EndedSame DEF Going, OneSided
  <2> QED  BY <1>1, <1>2, <2>1, <2>2, <2>3, <2>4 DEF Went, Live
<1>5. CASE TxPurged
  <2>1. tx' = EndFile(tx) /\ fwd' = fwd \o Repeat(Control("CAN", 0)) /\ back' = <<>>
    BY <1>2, <1>5 DEF TxPurged
  <2>2. Junk'
    BY <1>0, <1>3, <2>1, KindsCans DEF Junk
  <2> QED  BY <1>2, <1>3, <2>1, <2>2, FileEnds
<1> QED  BY <1>4, <1>5

LEMMA SenderGoing ==
    ASSUME LineFits, Going, Sender PROVE Went'
<1>1. UNCHANGED <<rxVars, faults, users>>
  BY DEF Sender
<1>2. CASE TxRead
  BY <1>1, <1>2, ReadingFacts, ReadNak0Going, ReadNak1Going, ReadAnswerGoing, ReadEotGoing
<1>3. CASE TxSilence \/ TxPurge \/ TxPurged
  BY <1>1, <1>3, SilenceGoing, PurgeGoing
<1> QED  BY <1>2, <1>3 DEF Sender

\* What the line does to the one thing that is under way.
LEMMA ForwardHit ==
    ASSUME fwd \in Seq(Msg), Len(fwd) <= 1, NEW kind, kind # "eot", DamageForward(kind)
    PROVE  /\ fwd # <<>> /\ back' = back /\ Len(fwd') <= 1
           /\ fwd' # <<>> =>
                \/ /\ fwd[1].kind = "block"
                   /\ \E flaw : fwd'[1] = [fwd[1] EXCEPT !.flaw = flaw]
                \/ /\ fwd[1].kind \in {"EOT", "CAN"} /\ fwd'[1].kind = "noise"
<1>1. PICK n \in DOMAIN fwd :
        \/ kind = "lost" /\ fwd' = Without(fwd, n)
        \/ /\ fwd[n].kind = "block" /\ fwd[n].flaw = "none" /\ kind \in Flaws
           /\ fwd' = [fwd EXCEPT ![n].flaw = kind]
        \/ /\ fwd[n].kind = "block" /\ kind = "eot"
           /\ fwd' = [fwd EXCEPT ![n] = Control("EOT", fwd[n].data)]
        \/ /\ fwd[n].kind \in {"EOT", "CAN"} /\ kind = "noise"
           /\ fwd' = [fwd EXCEPT ![n].kind = "noise"]
  BY DEF DamageForward
<1>2. n = 1 /\ Len(fwd) = 1 /\ n \in 1..Len(fwd) /\ fwd # <<>> /\ fwd[1] \in Msg
  OBVIOUS
<1>3. back' = back
  BY DEF DamageForward
<1>4. CASE fwd' = Without(fwd, n)
  <2>1. Len(fwd') = 0 /\ fwd' \in Seq(Msg)
    BY <1>2, <1>4, WithoutType
  <2>2. fwd' = <<>>
    BY <2>1
  <2> QED  BY <1>2, <1>3, <2>1, <2>2
<1>5. CASE fwd[n].kind = "block" /\ fwd' = [fwd EXCEPT ![n].flaw = kind]
  <2>1. Len(fwd') = 1 /\ fwd'[1] = [fwd[1] EXCEPT !.flaw = kind]
    BY <1>2, <1>5
  <2> QED  BY <1>2, <1>3, <1>5, <2>1
<1>6. CASE fwd[n].kind \in {"EOT", "CAN"} /\ fwd' = [fwd EXCEPT ![n].kind = "noise"]
  <2>1. Len(fwd') = 1 /\ fwd'[1] = [fwd[1] EXCEPT !.kind = "noise"]
    BY <1>2, <1>6
  <2>2. fwd'[1].kind = "noise"
    <3>1. fwd[1] \in ByteMsg
      BY <1>2, <1>6 DEF Msg, BlockMsg
    <3> QED  BY <2>1, <3>1 DEF ByteMsg
  <2> QED  BY <1>2, <1>3, <1>6, <2>1, <2>2
<1> QED  BY <1>1, <1>4, <1>5, <1>6

LEMMA BackHit ==
    ASSUME back \in Seq(Answers), NEW kind, DamageBack(kind)
    PROVE  /\ back # <<>> /\ fwd' = fwd /\ back' \in Seq(Answers)
           /\ Len(back) <= 1 => Len(back') <= 1 /\ (back' # <<>> => back'[1] = "noise")
           /\ \A k \in 1..Len(back') :
                back'[k] = "noise" \/ \E i \in 1..Len(back) : back'[k] = back[i]
<1>1. PICK n \in DOMAIN back :
        \/ kind = "answer lost" /\ back' = Without(back, n)
        \/ kind = "answer noise" /\ back[n] # "noise"
           /\ back' = [back EXCEPT ![n] = "noise"]
  BY DEF DamageBack
<1>2. n \in 1..Len(back) /\ back # <<>> /\ fwd' = fwd
  <2>1. fwd' = fwd
    BY DEF DamageBack
  <2>2. DOMAIN back = 1..Len(back) /\ (back = <<>> => DOMAIN back = {})
    OBVIOUS
  <2> QED  BY <2>1, <2>2
<1>3. CASE back' = Without(back, n)
  <2>1. /\ back' \in Seq(Answers) /\ Len(back') = Len(back) - 1
        /\ \A k \in 1..(Len(back) - 1) : \E i \in 1..Len(back) : back'[k] = back[i]
    <3>1. back \in Seq(Answers) /\ n \in 1..Len(back)
      BY <1>2
    <3>2. Without(back, n) \in Seq(Answers)
      BY ONLY <3>1, WithoutType
    <3>3. Len(Without(back, n)) = Len(back) - 1
      BY ONLY <3>1, WithoutType
    <3>4. ASSUME NEW k \in 1..(Len(back) - 1)
          PROVE  \E i \in 1..Len(back) : Without(back, n)[k] = back[i]
      <4>1. Without(back, n)[k] = IF k < n THEN back[k] ELSE back[k + 1]
        BY ONLY k \in 1..(Len(back) - 1) DEF Without
      <4>2. k \in 1..Len(back) /\ k + 1 \in 1..Len(back)
        BY ONLY <3>1, k \in 1..(Len(back) - 1)
      <4> QED  BY ONLY <4>1, <4>2
    <3> QED  BY ONLY <1>3, <3>2, <3>3, <3>4
  <2>2. Len(back) <= 1 => back' = <<>>
    BY <1>2, <2>1
  <2> QED  BY <1>2, <2>1, <2>2
<1>4. CASE back' = [back EXCEPT ![n] = "noise"]
  <2>1. back' \in Seq(Answers) /\ Len(back') = Len(back)
    BY <1>2, <1>4 DEF Answers
  <2>2. \A k \in 1..Len(back) : back'[k] = IF k = n THEN "noise" ELSE back[k]
    BY <1>2, <1>4
  <2>3. Len(back) <= 1 => n = 1
    BY <1>2
  <2> QED  BY <1>2, <2>1, <2>2, <2>3
<1> QED  BY <1>1, <1>3, <1>4

LEMMA DamageGoing ==
    ASSUME LineFits, Going, Damage, Sound' PROVE Went'
<1>0. /\ TxFine(tx) /\ Live /\ back \in Seq(Answers) /\ fwd \in Seq(Msg) /\ faults \in Nat
      /\ setting.crc \in BOOLEAN /\ tx.header \in BOOLEAN /\ tx.eots \in Nat
  BY GoingFacts DEF TxType
<1>1. /\ rx' = rx /\ file' = file /\ setting' = setting /\ faults' = faults + 1
      /\ sent' = sent /\ received' = received /\ tx' = tx
  BY DEF rxVars, users, Damage
<1>2. setting.crc
  BY <1>0, <1>1 DEF Sound
<1>3. PICK kind \in Faults : DamageForward(kind) \/ DamageBack(kind)
  BY DEF Damage
<1>4. kind # "eot"
  BY DEF LineFits
<1>5. ~Ended' /\ Ask' = Ask
  BY <1>1, EndedSame DEF Going, Ask
<1>6. Junk => Junk'
  BY <1>0, <1>3, <1>4, KindsDamage DEF Junk
<1>7. /\ AwaitsHead' <=> AwaitsHead
      /\ Listens' <=> Listens
      /\ Opened' <=> Opened
      /\ \A size, upTo, blk : Has(size, upTo, blk)' <=> Has(size, upTo, blk)
  BY <1>1, SameHeld, Held DEF SameRx
<1>8. Fresh(tx)' <=> Fresh(tx)
  BY <1>1 DEF Fresh
<1>9. Whole(file, tx.size, rx.ymodem)' <=> Whole(file, tx.size, rx.ymodem)
  BY <1>1 DEF Whole
<1>10. CASE DamageForward(kind)
  <2>1. fwd # <<>> /\ back' = back
    BY <1>10 DEF DamageForward
  <2>2. back = <<>> /\ back' = <<>> /\ OneSided'
    BY <1>0, <2>1 DEF Live, OneSided
  <2>3. tx.pc # "menu"
    BY <1>0, <2>1 DEF Live, AtMenu
  <2>4. tx.pc = "cancel" => AtCancel'
    BY <1>0, <1>1, <1>6, <1>7, <2>2 DEF Live, AtCancel
  <2>5. tx.pc = "nak0" => AtNak0'
    BY <1>0, <1>1, <1>2, <1>6, <1>7 DEF Live, AtNak0
  <2>6. tx.pc = "nak1" => AtNak1'
    BY <1>0, <1>1, <1>2, <1>6, <1>7, <1>8, <2>2 DEF Live, AtNak1
  <2>7. tx.pc \in {"answer", "eot"} =>
          /\ Len(fwd') <= 1
          /\ fwd' # <<>> =>
                \/ /\ fwd[1].kind = "block"
                   /\ \E flaw : fwd'[1] = [fwd[1] EXCEPT !.flaw = flaw]
                \/ /\ fwd[1].kind \in {"EOT", "CAN"} /\ fwd'[1].kind = "noise"
    BY <1>0, <1>4, <1>10, ForwardHit DEF Live
  <2>8. tx.pc = "answer" /\ fwd' # <<>> =>
          /\ fwd[1].kind = "block" /\ fwd'[1].kind = "block" /\ fwd'[1].num = fwd[1].num
          /\ fwd'[1].head = fwd[1].head /\ fwd'[1].data = fwd[1].data
          /\ fwd'[1].long = fwd[1].long
    <3> SUFFICES ASSUME tx.pc = "answer", fwd' # <<>>
                 PROVE  /\ fwd[1].kind = "block" /\ fwd'[1].kind = "block"
                        /\ fwd'[1].num = fwd[1].num
                        /\ fwd'[1].head = fwd[1].head /\ fwd'[1].data = fwd[1].data
                        /\ fwd'[1].long = fwd[1].long
      OBVIOUS
    <3>1. fwd[1].kind = "block"
      BY <1>0, <2>1 DEF Live, AtHeader, AtBlock
    <3>2. PICK flaw : fwd'[1] = [fwd[1] EXCEPT !.flaw = flaw]
      BY <2>7, <3>1
    <3>3. fwd[1] \in BlockMsg
      BY <1>0, <2>1, <3>1 DEF Msg, ByteMsg
    <3> QED  BY <3>1, <3>2, <3>3 DEF BlockMsg
  <2>9. tx.pc = "answer" /\ tx.header => AtHeader'
    <3> SUFFICES ASSUME tx.pc = "answer", tx.header PROVE AtHeader'
      OBVIOUS
    <3>1. AtHeader
      BY <1>0 DEF Live
    <3> QED  BY <1>1, <1>2, <1>7, <1>8, <2>1, <2>2, <2>8, <3>1 DEF AtHeader
  <2>10. tx.pc = "answer" /\ ~tx.header => AtBlock'
    <3> SUFFICES ASSUME tx.pc = "answer", ~tx.header PROVE AtBlock'
      OBVIOUS
    <3>1. AtBlock
      BY <1>0 DEF Live
    <3>2. CASE fwd' = <<>>
      BY <1>1, <1>2, <2>2, <3>2 DEF AtBlock
    <3>3. CASE fwd' # <<>>
      <4>1. PICK size, from, blk : size = tx.size /\ from = fwd[1].data.from /\ blk = tx.blk
        OBVIOUS
      <4>2. Has(size, from, blk)'
        BY <1>7, <2>1, <3>1, <4>1 DEF AtBlock
      <4>3. tx'.size = size /\ fwd'[1].data.from = from /\ tx'.blk = blk
        BY <1>1, <2>8, <3>3, <4>1
      <4>4. Has(tx.size, fwd[1].data.from, tx.blk)'
        BY <4>2, <4>3
      <4> QED  BY <1>1, <1>2, <2>1, <2>2, <2>8, <3>1, <3>3, <4>4 DEF AtBlock, Width, Units
    <3> QED  BY <3>2, <3>3
  <2>11. tx.pc = "eot" => AtEot'
    <3> SUFFICES ASSUME tx.pc = "eot" PROVE AtEot'
      OBVIOUS
    <3>1. AtEot
      BY <1>0 DEF Live
    <3>2. fwd' # <<>> => fwd'[1].kind = "noise"
      BY <2>1, <2>7, <3>1 DEF AtEot
    <3>3. rx.open /\ ~Listens => InBlock /\ faults' + tx'.eots >= Eots + 1
      BY <1>0, <1>1, <2>1, <3>1, SendAssumption DEF AtEot
    <3> QED  BY <1>1, <1>2, <1>7, <1>9, <2>2, <3>1, <3>2, <3>3 DEF AtEot, InBlock
  <2> QED
    BY <1>0, <1>1, <1>5, <2>2, <2>3, <2>4, <2>5, <2>6, <2>7, <2>9, <2>10, <2>11 DEF Went, Live
<1>11. CASE DamageBack(kind)
  <2>1. /\ back # <<>> /\ fwd' = fwd /\ back' \in Seq(Answers)
        /\ Len(back) <= 1 => Len(back') <= 1 /\ (back' # <<>> => back'[1] = "noise")
        /\ \A k \in 1..Len(back') :
             back'[k] = "noise" \/ \E i \in 1..Len(back) : back'[k] = back[i]
    BY <1>0, <1>11, BackHit
  <2>2. fwd = <<>> /\ fwd' = <<>> /\ OneSided' /\ rx.pc # "can"
    BY <1>0, <2>1 DEF Live, OneSided
  <2>3. /\ \A k \in 1..Len(back) : back[k] \in {Ask, "ACK", "noise"}
        /\ tx.pc \in {"menu", "nak0", "nak1", "cancel"} => \A k \in 1..Len(back) : back[k] # "ACK"
    BY <1>0 DEF Live
  <2>4. /\ \A k \in 1..Len(back') : back'[k] \in {Ask, "ACK", "noise"}
        /\ tx.pc \in {"menu", "nak0", "nak1", "cancel"} => \A k \in 1..Len(back') : back'[k] # "ACK"
    BY <2>1, <2>3
  <2>5. /\ Len(back') <= 1 \/ tx.pc = "menu"
        /\ tx.pc # "menu" => back' # <<"ACK">>
    <3>1. tx.pc # "menu" => Len(back) <= 1
      BY <1>0 DEF Live
    <3>2. back' = <<"ACK">> => back' # <<>> /\ back'[1] = "ACK"
      OBVIOUS
    <3> QED  BY <2>1, <3>1, <3>2
  <2>6. tx.pc = "menu" => AtMenu'
    BY <1>0, <1>1, <1>7, <2>2 DEF Live, AtMenu
  <2>7. tx.pc = "cancel" => AtCancel'
    BY <1>0, <1>1, <1>6, <1>7, <2>2 DEF Live, AtCancel
  <2>8. tx.pc = "nak0" => AtNak0'
    BY <1>0, <1>1, <1>2, <1>6, <1>7 DEF Live, AtNak0
  <2>9. tx.pc = "nak1" => AtNak1'
    BY <1>0, <1>1, <1>2, <1>6, <1>7, <1>8, <2>1 DEF Live, AtNak1, InBlock
  <2>10. tx.pc = "answer" /\ tx.header => AtHeader'
    BY <1>0, <1>1, <1>2, <1>7, <1>8, <2>2, <2>5 DEF Live, AtHeader
  <2>11. tx.pc = "answer" /\ ~tx.header => AtBlock'
    BY <1>0, <1>1, <1>2, <2>2, <2>5 DEF Live, AtBlock
  <2>12. tx.pc = "eot" => AtEot'
    <3> SUFFICES ASSUME tx.pc = "eot" PROVE AtEot'
      OBVIOUS
    <3>1. AtEot
      BY <1>0 DEF Live
    <3>2. rx.open /\ ~Listens => InBlock /\ faults' + tx'.eots >= Eots + 1
      BY <1>0, <1>1, <2>1, <2>2, <3>1, SendAssumption DEF AtEot
    <3> QED  BY <1>1, <1>2, <1>7, <1>9, <2>2, <2>5, <3>1, <3>2 DEF AtEot, InBlock
  <2>13. Len(fwd') <= 1 /\ DOMAIN back' = 1..Len(back')
    BY <2>1, <2>2
  <2> QED
    BY <1>0, <1>1, <1>5, <2>2, <2>4, <2>5, <2>6, <2>7, <2>8, <2>9, <2>10, <2>11, <2>12, <2>13
       DEF Went, Live
<1> QED  BY <1>3, <1>10, <1>11

----------------------------------------------------------------------------
(* The invariant is kept *)

\* The receiver starts.
LEMMA ReceiveGoes ==
    ASSUME LineFits, BeforeInv, Receive, Sound' PROVE Went'
<1>0. /\ RxFine /\ rx \in RxType /\ TxFine(tx) /\ fwd \in Seq(Msg) /\ Before /\ TxOrder
      /\ setting.crc \in BOOLEAN /\ setting.txYmodem \in BOOLEAN
      /\ rx.ymodem = tx.ymodem /\ tx.ymodem \in BOOLEAN
  <2>1. setting \in Settings /\ RxFine /\ TxFine(tx) /\ Before /\ TxOrder
    BY DEF BeforeInv, OrderInv, Types, TxOrder
  <2>2. SettingFits(setting)
    BY <2>1 DEF LineFits
  <2> QED  BY <2>1, <2>2 DEF RxFine, RxState, TxFine, SettingFits
<1>1. /\ received = "no" /\ KeyReceive(TRUE)
      /\ received' = IF tx.pc \in {"nak0", "nak1"} THEN "after" ELSE "before"
      /\ UNCHANGED <<tx, setting, faults, sent>>
  BY DEF Receive
<1>2. /\ rx'.ymodem = rx.ymodem /\ rx'.pc = "purge" /\ UNCHANGED <<fwd, back>>
      /\ rx.ymodem => rx'.blk = 0 /\ rx'.open = rx.open
      /\ ~rx.ymodem => /\ rx'.blk = 1 /\ rx'.open /\ rx'.blocks = MaxBlocks /\ rx'.bytes = 0
                       /\ file' = <<>>
  BY <1>0, <1>1, KeyReceiveFacts
<1>3. /\ rx = RxStart(setting.rxYmodem, setting.crc) /\ back = <<>>
      /\ tx.pc \in {"menu", "nak0", "nak1", "cancel", "purge"}
      /\ NoEot /\ (~Ended => Junk)
      /\ tx.pc = "nak1" => Fresh(tx) /\ ~tx.ymodem
  BY <1>0, <1>1 DEF Before
<1>4. ~rx.open
  BY <1>3 DEF RxStart
<1>5. Ended' <=> Ended
  BY <1>1, EndedSame
<1>6. CASE Ended
  <2>1. NoEot'
    BY <1>2, <1>3 DEF NoEot, OnlyKinds
  <2> QED  BY <1>5, <1>6, <2>1 DEF Went
<1>7. CASE ~Ended
  <2>1. sent # <<>> => tx.pc \notin {"menu", "purge"}
    BY <1>0, <1>7 DEF TxOrder, Ended
  <2>2. tx.pc # "purge" /\ (tx.pc = "menu" => fwd = <<>>)
    BY <1>0, <2>1 DEF TxOrder
  <2>3. ~setting.crc => tx.pc \in {"nak0", "nak1"}
    BY <1>1 DEF Sound
  <2>4. Junk' /\ OneSided' /\ back' = <<>>
    BY <1>2, <1>3, <1>7 DEF Junk, OnlyKinds, OneSided
  <2>5. rx.ymodem => AwaitsHead'
    BY <1>2, <1>4 DEF AwaitsHead
  <2>6. ~rx.ymodem => Listens'
    BY <1>2 DEF Listens
  <2>7. tx.pc = "menu" => AtMenu'
    BY <1>0, <1>1, <1>2, <2>2, <2>3, <2>5, <2>6 DEF AtMenu
  <2>8. tx.pc = "cancel" => AtCancel'
    BY <1>0, <1>1, <2>3, <2>4, <2>5, <2>6 DEF AtCancel
  <2>9. tx.pc = "nak0" => AtNak0'
    <3>1. tx.pc = "nak0" => rx.ymodem
      BY <1>0 DEF TxFine
    <3> QED  BY <1>2, <2>4, <2>5, <3>1 DEF AtNak0, AskedOnce
  <2>10. tx.pc = "nak1" => AtNak1'
    <3> SUFFICES ASSUME tx.pc = "nak1" PROVE AtNak1'
      OBVIOUS
    <3>1. ~rx.ymodem /\ Fresh(tx)' /\ Listens'
      BY <1>0, <1>1, <1>3, <2>6 DEF Fresh
    <3>2. MaxBlocks * Short + 0 = MaxBlocks * Short
      BY LineAssumption, ReceiveAssumption, Z3
    <3>3. Expects(tx.size, 0)'
      BY <1>2, <3>1, <3>2 DEF Expects
    <3>4. Covers(file, tx.size, 0, rx.ymodem)'
      BY <1>2, <3>1 DEF Covers
    <3>5. Opened'
      BY <1>2, <3>1, <3>3, <3>4 DEF Opened, Has
    <3> QED  BY <1>2, <2>4, <3>1, <3>5 DEF AtNak1, AskedOnce
  <2> QED
    BY <1>1, <1>2, <1>3, <1>5, <1>7, <2>2, <2>4, <2>7, <2>8, <2>9, <2>10 DEF Went, Live
<1> QED  BY <1>6, <1>7

\* After the end no EOT comes.
LEMMA NoEotStays ==
    ASSUME LineFits, BeforeInv, Ended, NoEot, Next PROVE NoEot'
<1>0. /\ TxFine(tx) /\ fwd \in Seq(Msg) /\ back \in Seq(Answers) /\ RxFine
      /\ sent # <<>> /\ tx.pc \in {"menu", "purge", "cancel"}
  BY DEF BeforeInv, OrderInv, Types, TxOrder, RxFine, Ended
<1>1. ASSUME fwd' = fwd PROVE NoEot'
  BY <1>1 DEF NoEot, OnlyKinds
<1>2. ASSUME fwd # <<>>, fwd' = Tail(fwd) PROVE NoEot'
  BY <1>0, <1>2, KindsTail DEF NoEot
<1>3. CASE Receive \/ Menu \/ Escape
  <2>1. fwd' = fwd
    BY <1>3 DEF Receive, KeyReceive, Menu, KeyOther, KeyShiftEnter, Escape, TxEscape, line
  <2> QED  BY <1>1, <2>1
<1>4. CASE Receiver
  <2>1. CASE RxReads
    BY <1>0, <1>2, <2>1, RxReadsQuiet
  <2>2. CASE RxTakes
    <3>1. fwd # <<>> /\ fwd' = Tail(fwd)
      BY <2>2 DEF RxTakes, TakeHeader, TakeBlock, TakeEot, Reads
    <3> QED  BY <1>2, <3>1
  <2>3. CASE RxSilent(TRUE)
    <3>1. fwd' = fwd
      BY <2>3 DEF RxSilent, RxTimeout, TransmitNak, TransmitCans, line
    <3> QED  BY <1>1, <3>1
  <2> QED  BY <1>4, <2>1, <2>2, <2>3 DEF Receiver
<1>5. CASE Sender
  <2>1. ~TxRead /\ ~TxSilence
    BY <1>0 DEF TxRead, TxSilence, TxTimeout
  <2>2. CASE TxPurge
    BY <1>1, <2>2 DEF TxPurge
  <2>3. CASE TxPurged
    <3>1. fwd' = fwd \/ fwd' = fwd \o Repeat(Control("CAN", 0))
      BY <2>3 DEF TxPurged
    <3>2. ASSUME fwd' = fwd \o Repeat(Control("CAN", 0)) PROVE NoEot'
      BY <1>0, <3>2, KindsCans DEF NoEot
    <3> QED  BY <1>1, <3>1, <3>2
  <2> QED  BY <1>5, <2>1, <2>2, <2>3 DEF Sender
<1>6. CASE Damage
  <2>1. PICK kind \in Faults : DamageForward(kind) \/ DamageBack(kind)
    BY <1>6 DEF Damage
  <2>2. kind # "eot"
    BY DEF LineFits
  <2> QED  BY <1>0, <2>1, <2>2, KindsDamage DEF NoEot
<1>7. CASE EndBatch
  <2> DEFINE m == Block(0, FALSE, "both", EndHead, NoData(0))
  <2>1. fwd' = Append(fwd, m)
    BY <1>7 DEF EndBatch, KeyEndBatch
  <2>2. m.kind = "block" /\ m \in Msg
    BY DEF Block, BlockMsg, Msg, EndHead, Heads, NoData, Datum
  <2> HIDE DEF m
  <2> QED  BY <1>0, <2>1, <2>2, KindsAppend DEF NoEot
<1>8. ~Send
  BY <1>0 DEF Send
<1> QED  BY <1>3, <1>4, <1>5, <1>6, <1>7, <1>8 DEF Next

\* A receiver at work was at work before, but for the key R.
LEMMA WorkedBefore ==
    ASSUME LineFits, BeforeInv, Next, ~Receive, Working', Sound' PROVE Working /\ Sound
<1>0. /\ RxFine /\ faults \in Nat
  BY DEF BeforeInv, OrderInv, Types
<1>1. setting' = setting /\ received' = received
  BY DEF Next, Send, EndBatch, Menu, Escape, Receiver, Sender, Damage, users
<1>2. faults' = faults \/ faults' = faults + 1
  BY DEF Next, Send, EndBatch, Menu, Escape, Receiver, Sender, Damage
<1>3. Sound
  BY <1>0, <1>1, <1>2 DEF Sound
<1>4. ~Menu
  BY <1>0, MenuFacts DEF Menu, Working
<1>5. CASE Receiver
  <2>1. CASE RxReads
    BY <1>0, <1>1, <1>3, <2>1, RxReadsQuiet DEF Working
  <2>2. CASE RxTakes
    BY <1>1, <1>3, <2>2 DEF RxTakes, TakeHeader, TakeBlock, TakeEot, Reads, Working
  <2>3. CASE RxSilent(TRUE)
    <3>1. ~TransmitCans(TRUE)
      BY <1>0, TransmitCansFacts DEF Working
    <3>2. rx.pc \in {"purge", "block", "can"}
      BY <2>3, <3>1 DEF RxSilent, RxTimeout, TransmitNak
    <3> QED  BY <1>1, <1>3, <3>2 DEF Working
  <2> QED  BY <1>3, <1>5, <2>1, <2>2, <2>3 DEF Receiver
<1>6. CASE Send \/ EndBatch \/ Escape \/ Sender \/ Damage
  <2>1. rx' = rx
    BY <1>6 DEF Send, EndBatch, Escape, Sender, Damage, rxVars
  <2> QED  BY <1>1, <1>3, <2>1 DEF Working
<1> QED  BY <1>3, <1>4, <1>5, <1>6 DEF Next

LEMMA AtWorkStep ==
    ASSUME LineFits, BeforeInv, AtWork, Next PROVE AtWork'
<1> SUFFICES ASSUME Working', Sound' PROVE Went'
  BY DEF AtWork, Went
<1>1. CASE Receive
  BY <1>1, ReceiveGoes
<1>2. CASE ~Receive
  <2>1. Working /\ Sound
    BY <1>2, WorkedBefore
  <2>2. CASE Ended
    <3>1. NoEot
      BY <2>1, <2>2 DEF AtWork
    <3>2. NoEot'
      BY <2>2, <3>1, NoEotStays
    <3>3. Ended'
      BY <2>2, EndedStays DEF BeforeInv
    <3> QED  BY <3>2, <3>3 DEF Went
  <2>3. CASE ~Ended
    <3>1. Going
      BY <2>1, <2>3 DEF AtWork, Going
    <3>2. CASE Send
      BY <3>1, <3>2, SendGoing
    <3>3. ~EndBatch
      <4>1. TxOrder
        BY DEF BeforeInv, OrderInv
      <4> QED  BY <2>3, <4>1 DEF EndBatch, KeyEndBatch, TxOrder, Ended
    <3>4. ~Menu
      <4>1. RxFine
        BY DEF BeforeInv, OrderInv, Types
      <4> QED  BY <4>1, MenuFacts DEF Menu, Working
    <3>5. CASE Escape
      BY <3>1, <3>5, EscapeGoing
    <3>6. CASE Receiver
      BY <3>1, <3>6, ReceiverGoing
    <3>7. CASE Sender
      BY <3>1, <3>7, SenderGoing
    <3>8. CASE Damage
      BY <3>1, <3>8, DamageGoing
    <3> QED  BY <1>2, <3>2, <3>3, <3>4, <3>5, <3>6, <3>7, <3>8 DEF Next
  <2> QED  BY <2>2, <2>3
<1> QED  BY <1>1, <1>2

LEMMA AtWorkStays == ASSUME AtWork, UNCHANGED vars PROVE AtWork'
<1>1. /\ rx' = rx /\ file' = file /\ tx' = tx /\ fwd' = fwd /\ back' = back
      /\ setting' = setting /\ faults' = faults /\ received' = received /\ sent' = sent
  BY DEF vars, rxVars, line
<1>2. /\ AwaitsHead' <=> AwaitsHead
      /\ Listens' <=> Listens
      /\ Opened' <=> Opened
      /\ \A size, upTo, blk : Has(size, upTo, blk)' <=> Has(size, upTo, blk)
  BY <1>1, SameHeld, Held DEF SameRx
<1>3. /\ Junk' <=> Junk
      /\ NoEot' <=> NoEot
      /\ OneSided' <=> OneSided
      /\ Fresh(tx)' <=> Fresh(tx)
      /\ Ask' = Ask
  BY <1>1 DEF Junk, NoEot, OnlyKinds, OneSided, Fresh, Ask
<1>4. /\ AtMenu' <=> AtMenu
      /\ AtCancel' <=> AtCancel
      /\ AtNak0' <=> AtNak0
      /\ AtNak1' <=> AtNak1
  BY <1>1, <1>2, <1>3 DEF AtMenu, AtCancel, AtNak0, AtNak1, AskedOnce, InBlock
<1>5. AtHeader' <=> AtHeader
  BY <1>1, <1>2, <1>3 DEF AtHeader, Answered, InBlock, Sum
<1>6. Has(tx.size, fwd[1].data.from, tx.blk)' <=> Has(tx.size, fwd[1].data.from, tx.blk)
  BY <1>1 DEF Has, Covers, Expects
<1>7. Has(tx.size, tx.pos, NextNum(tx.blk))' <=> Has(tx.size, tx.pos, NextNum(tx.blk))
  BY <1>1 DEF Has, Covers, Expects, NextNum
<1>8. AtBlock' <=> AtBlock
  BY <1>1, <1>6, <1>7 DEF AtBlock, Answered, InBlock, Sum, Width, Units
<1>9. AtEot' <=> AtEot
  BY <1>1, <1>2 DEF AtEot, Answered, InBlock, Whole
<1>10. Live' <=> Live
  BY <1>1, <1>3, <1>4, <1>5, <1>8, <1>9 DEF Live
<1> QED  BY <1>1, <1>3, <1>10 DEF AtWork, Working, Sound, Ended

LEMMA SavedStep == ASSUME RxFine, SavedFine, [Next]_vars PROVE SavedFine'
<1>1. CASE saved' = saved
  BY <1>1 DEF SavedFine
<1>2. CASE Receiver /\ saved' # saved
  <2>1. CASE RxReads \/ RxSilent(TRUE)
    BY <1>2, <2>1, RxReadsQuiet
       DEF Quiet, RxSilent, RxTimeout, TransmitNak, TransmitCans
  <2>2. CASE RxTakes
    <3>1. TakeEot(TRUE)
      BY <1>2, <2>2 DEF RxTakes, TakeHeader, TakeBlock
    <3>2. saved' = Append(saved, file) /\ file \in Seq(Piece)
      BY <1>2, <3>1, TakeEotFacts DEF RxFine
    <3> QED  BY <3>2 DEF SavedFine
  <2> QED  BY <1>2, <2>1, <2>2 DEF Receiver
<1>3. ~Receiver => saved' = saved
  BY DEF Next, Receive, KeyReceive, Send, EndBatch, Menu, KeyOther, KeyShiftEnter, Escape, Sender,
         Damage, rxVars, vars
<1> QED  BY <1>1, <1>2, <1>3

LEMMA LineInit == LineFits /\ Init => LineInv
<1> SUFFICES ASSUME LineFits, Init PROVE LineInv
  OBVIOUS
<1>1. BeforeInv
  BY BeforeInit
<1>2. received = "no" /\ saved = <<>>
  BY DEF Init, RxInit
<1> QED  BY <1>1, <1>2 DEF LineInv, BeforeInv, OrderInv, AtWork, Working, SavedFine

LEMMA LineStep == ASSUME LineFits, LineInv, [Next]_vars PROVE LineInv'
<1>1. BeforeInv /\ AtWork /\ SavedFine /\ RxFine
  BY DEF LineInv, BeforeInv, OrderInv, Types
<1>2. BeforeInv'
  BY <1>1, BeforeStep
<1>3. AtWork'
  BY <1>1, AtWorkStep, AtWorkStays
<1>4. SavedFine'
  BY <1>1, SavedStep
<1> QED  BY <1>2, <1>3, <1>4 DEF LineInv, BeforeInv, OrderInv

\* What holds at every step of the two programs and the line.
THEOREM LineInvariant == ASSUME LineFits PROVE Spec => []LineInv
<1>1. Init => LineInv
  BY LineInit
<1>2. LineInv /\ [Next]_vars => LineInv'
  BY LineStep
<1> QED  BY <1>1, <1>2, PTL DEF Spec

----------------------------------------------------------------------------
(* Files that are received are whole *)

LEMMA SavedIsWhole ==
    ASSUME LineFits, LineInv, Next, saved' # saved, setting.crc \/ Undisturbed
    PROVE  Whole(saved'[Len(saved')], Head(fwd).data, rx.ymodem)
<1>1. BeforeInv /\ AtWork /\ RxFine /\ SavedFine /\ Before
  BY DEF LineInv, BeforeInv, OrderInv, Types
<1>2. Receiver
  BY DEF Next, Receive, KeyReceive, Send, EndBatch, Menu, KeyOther, KeyShiftEnter, Escape, Sender,
         Damage, rxVars
<1>3. TakeEot(TRUE)
  <2>1. ~RxReads /\ ~RxSilent(TRUE)
    BY <1>1, RxReadsQuiet DEF Quiet, RxSilent, RxTimeout, TransmitNak, TransmitCans
  <2> QED  BY <1>2, <2>1 DEF Receiver, RxTakes, TakeHeader, TakeBlock
<1>4. /\ rx.pc = "block" /\ fwd # <<>> /\ fwd[1].kind = "EOT" /\ Head(fwd) = fwd[1]
      /\ saved' = IF rx.open THEN Append(saved, file) ELSE saved
  BY <1>1, <1>3, TakeEotFacts
<1>5. rx.open /\ saved' = Append(saved, file)
  BY <1>4
<1>6. saved'[Len(saved')] = file
  <2>1. saved \in Seq(Seq(Piece)) /\ file \in Seq(Piece)
    BY <1>1 DEF SavedFine, RxFine
  <2> QED  BY <1>5, <2>1
<1>7. received # "no"
  BY <1>1, <1>4 DEF Before, RxStart
<1>8. Working /\ Sound
  BY <1>4, <1>7 DEF Working, Sound, Undisturbed
<1>9. ~Ended
  <2>1. fwd \in Seq(Msg)
    BY <1>1 DEF RxFine
  <2>2. ~NoEot
    BY <1>4, <2>1 DEF NoEot, OnlyKinds
  <2> QED  BY <1>1, <1>8, <2>2 DEF AtWork
<1>10. Going
  BY <1>1, <1>8, <1>9 DEF AtWork, Going
<1>11. AtEot
  BY <1>4, <1>10, EotUnderWay
<1>12. Whole(file, tx.size, rx.ymodem) /\ Head(fwd).data = tx.size
  BY <1>4, <1>5, <1>11 DEF AtEot
<1> QED  BY <1>6, <1>12

\* With CRC, or on a line without damage to which the sender came first, a file that is
\* received is the file that was sent: all of it, each part in its place, with YModem to
\* the byte (buf_to_file, wait_to_send).
THEOREM ReceivedIsSent == ASSUME LineFits PROVE Spec => FileWhole
<1>1. LineInv /\ [Next]_vars =>
        [saved' # saved /\ (setting.crc \/ Undisturbed) =>
            Whole(saved'[Len(saved')], Head(fwd).data, rx.ymodem)]_vars
  <2> SUFFICES ASSUME LineInv, Next, saved' # saved, setting.crc \/ Undisturbed
               PROVE  Whole(saved'[Len(saved')], Head(fwd).data, rx.ymodem)
    OBVIOUS
  <2> QED  BY SavedIsWhole
<1> QED  BY <1>1, LineInvariant, PTL DEF Spec, FileWhole
=============================================================================
