------------------------------ MODULE XYSend ------------------------------
(***************************************************************************)
(* z88apps/xymodem: sending files.  One action per byte that the program    *)
(* waits for, with all it does up to the next wait: a block is read from    *)
(* the file and transmitted in one step.  The streaming mode, which a Z88   *)
(* never asks for as a receiver, is left out.                               *)
(***************************************************************************)
EXTENDS XYLine, FiniteSetsExt

CONSTANTS
    Eots      \* 10: how often EOT is sent

ASSUME SendAssumption == Eots \in Nat \ {0}

VARIABLES
    tx        \* pc and variables of the program

\* Where the program waits: nak0 (wait_for_NAK0, header), nak1 (wait_for_NAK1), answer
\* (wait_to_send), can1 and can (for the second CAN of these), eot (send_EOT), cancel
\* and purge (purge before CANs, and after an end of batch).
TxPcs == {"menu", "nak0", "nak1", "answer", "can1", "can", "eot", "cancel", "purge"}
InSession == tx.pc \notin {"menu", "purge"}

\* block1k is the setting, and long (block1k of state_tx) what is left of it; pos is the
\* place in the file.
TxStart(ymodem, block1k) ==
    [pc |-> "menu", ymodem |-> ymodem, block1k |-> block1k, long |-> block1k,
     check |-> "sum", header |-> FALSE, eof |-> FALSE, blk |-> 0, blocks |-> 0,
     size |-> 0, pos |-> 0, eots |-> 0, next |-> <<>>]

TxInit(ymodem, block1k) == tx = TxStart(ymodem, block1k)

Cancel(t) == [t EXCEPT !.pc = "cancel"]

\* not_ymodem_header: the first block of the file has number 1.
NotYmodemHeader(t) == [t EXCEPT !.pc = "nak1", !.header = FALSE, !.blk = 1]

\* send_file, up to the first byte it waits for.
SendFile(old, size) ==
    LET t == [old EXCEPT !.size = size, !.pos = 0, !.eof = FALSE,
                         !.blocks = (size + Short - 1) \div Short, !.long = old.block1k]
    IN  IF t.ymodem THEN [t EXCEPT !.pc = "nak0", !.header = TRUE, !.blk = 0]
                    ELSE NotYmodemHeader(t)

\* However a file ends, next_name goes on with the next one the wildcard finds.
EndFile(t) == IF t.next = <<>> THEN [t EXCEPT !.pc = "menu"]
              ELSE SendFile([t EXCEPT !.next = Tail(@)], Head(t.next))

----------------------------------------------------------------------------
\* send_block: what the program does next (t) and what it transmits (out).

SendEots(t) == [t |-> [t EXCEPT !.pc = "eot", !.eots = Eots],
                out |-> <<Control("EOT", t.size)>>]

\* A long block is sent while the file has one left; then blocks are short.
PrepareBlock(t) ==
    IF ~t.long THEN t
    ELSE [t EXCEPT !.blocks = @ - Ratio, !.long = t.blocks >= Ratio]

\* The next part of the file goes into the buffer, and is padded with zeros; at the
\* end of the file there is nothing to send.
BlockData(t) == [of |-> t.size, from |-> t.pos, n |-> Min({Width(t.long), t.size - t.pos})]

\* A block with no part of the file in it.
NoData(size) == [of |-> size, from |-> 0, n |-> 0]

SendBlock(old) ==
    LET t == PrepareBlock(old)
        d == BlockData(t)
        read == [t EXCEPT !.pos = @ + d.n, !.eof = @ \/ d.n < Width(t.long)]
    IN  IF d.n = 0 THEN SendEots(read)
        ELSE [t |-> [read EXCEPT !.pc = "answer"],
              out |-> <<Block(t.blk, t.long, t.check, NoHead, d)>>]

\* A bug: the block is not counted.
SendNextBlockUncounted(t) == IF t.eof THEN SendEots(t) ELSE SendBlock(t)

SendNextBlock(t) ==
    IF t.eof THEN SendEots(t) ELSE SendBlock([t EXCEPT !.blk = NextNum(@)])

Header(t) == [t |-> [t EXCEPT !.pc = "answer"],
              out |-> <<Block(0, FALSE, t.check, FileHead(t.size), NoData(t.size))>>]

Goes(step) == /\ tx' = step.t
              /\ fwd' = fwd \o step.out
Only(t) == [t |-> t, out |-> <<>>]

----------------------------------------------------------------------------
\* S) with a name or a wildcard: the files found.  Of the bytes that came before, the
\* port holds the last, at most.
KeySend(sizes) ==
    /\ tx.pc = "menu"
    /\ tx' = SendFile([tx EXCEPT !.next = Tail(sizes)], Head(sizes))
    /\ back' \in {<<>>} \cup {<<back[n]>> : n \in {Len(back)} \ {0}}
    /\ UNCHANGED fwd

\* E)nd batch: a block of zeros, whose check is right either way; then purge.
KeyEndBatch ==
    /\ tx.pc = "menu"
    /\ tx' = [tx EXCEPT !.pc = "purge"]
    /\ fwd' = Append(fwd, Block(0, FALSE, "both", EndHead, NoData(0)))
    /\ UNCHANGED back

----------------------------------------------------------------------------
\* What a byte does.

CheckOf(byte) == IF byte = "NAK" THEN "sum" ELSE "crc"

WaitForNak0(byte) ==
    IF byte \in {"NAK", "C"} THEN Header([tx EXCEPT !.check = CheckOf(byte)]) ELSE Only(tx)

IsNak1(byte) ==
    IF byte \in {"NAK", "C"} THEN SendBlock([tx EXCEPT !.check = CheckOf(byte)])
                             ELSE Only([tx EXCEPT !.pc = "nak1"])

WaitForNak1(byte) == IF byte = "CAN" THEN Only([tx EXCEPT !.pc = "can1"]) ELSE IsNak1(byte)

SecondCan1(byte) == IF byte = "CAN" THEN Only(EndFile(tx)) ELSE IsNak1(byte)

\* A bug: C is taken for a NAK.
WaitToSendOnC(byte) ==
    CASE byte = "CAN"          -> Only([tx EXCEPT !.pc = "can"])
      [] byte \in {"NAK", "C"} -> SendBlock(tx)
      [] byte = "ACK"          -> IF tx.header THEN Only(NotYmodemHeader(tx)) ELSE SendNextBlock(tx)
      [] OTHER                 -> Only(tx)

WaitToSend(byte) ==
    CASE byte = "CAN" -> Only([tx EXCEPT !.pc = "can"])
      [] byte = "NAK" -> SendBlock(tx)
      [] byte = "ACK" -> IF tx.header THEN Only(NotYmodemHeader(tx)) ELSE SendNextBlock(tx)
      [] OTHER        -> Only(tx)

SecondCan(byte) == Only(IF byte = "CAN" THEN EndFile(tx) ELSE [tx EXCEPT !.pc = "answer"])

\* A bug: the program goes on waiting for an answer.
SendEotOnce == Only(tx)

SendEotAgain ==
    IF tx.eots = 1 THEN Only(EndFile(tx))
    ELSE [t |-> [tx EXCEPT !.eots = @ - 1], out |-> <<Control("EOT", tx.size)>>]

AnswerToEot(byte) == IF byte = "ACK" THEN Only(EndFile(tx)) ELSE SendEotAgain

TxRead ==
    /\ back # <<>> /\ tx.pc \in {"nak0", "nak1", "can1", "answer", "can", "eot"}
    /\ LET byte == Head(back)
       IN  Goes(CASE tx.pc = "nak0"   -> WaitForNak0(byte)
                  [] tx.pc = "nak1"   -> WaitForNak1(byte)
                  [] tx.pc = "can1"   -> SecondCan1(byte)
                  [] tx.pc = "answer" -> WaitToSend(byte)
                  [] tx.pc = "can"    -> SecondCan(byte)
                  [] tx.pc = "eot"    -> AnswerToEot(byte))
    /\ back' = Tail(back)

----------------------------------------------------------------------------
\* Nothing comes: the program gives up, but for an EOT or a second CAN.
TxTimeout ==
    /\ tx.pc \in {"nak0", "nak1", "can1", "answer", "can", "eot"}
    /\ Goes(CASE tx.pc = "can1" -> Only([tx EXCEPT !.pc = "nak1"])
              [] tx.pc = "can"  -> Only([tx EXCEPT !.pc = "answer"])
              [] tx.pc = "eot"  -> SendEotAgain
              [] OTHER          -> Only(Cancel(tx)))
    /\ UNCHANGED back

\* A key: the same, and no other file is sent where the program gives up.
TxEscape ==
    /\ tx.pc \in {"nak0", "nak1", "answer"} /\ back = <<>>
    /\ tx' = Cancel([tx EXCEPT !.next = <<>>])
    /\ UNCHANGED line

TxPurge ==
    /\ tx.pc \in {"cancel", "purge"} /\ back # <<>>
    /\ back' = Tail(back)
    /\ UNCHANGED <<tx, fwd>>

TxPurged ==
    /\ tx.pc \in {"cancel", "purge"} /\ back = <<>>
    /\ tx' = IF tx.pc = "cancel" THEN EndFile(tx) ELSE [tx EXCEPT !.pc = "menu"]
    /\ fwd' = IF tx.pc = "cancel" THEN fwd \o Repeat(Control("CAN", 0)) ELSE fwd
    /\ UNCHANGED back
===========================================================================
