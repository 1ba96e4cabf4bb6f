----------------------------- MODULE XYReceive -----------------------------
(***************************************************************************)
(* z88apps/xymodem: receiving files.  One action per byte or block that the *)
(* program waits for, up to the next wait.  Arguments of an action say how  *)
(* calls in it end: sent, whether a byte could be transmitted in time;      *)
(* opens, whether the file could be opened; room, whether it could be       *)
(* written.                                                                 *)
(***************************************************************************)
EXTENDS XYLine

CONSTANTS
    Retries,     \* 11, counted down before a byte is sent
    MaxBlocks    \* $7FFF: the length of a file whose size is not known

ASSUME ReceiveAssumption ==
    /\ Retries \in Nat /\ Retries >= 2
    /\ MaxBlocks \in Nat

VARIABLES
    rx,       \* pc and variables of the program
    file,     \* what has been written to the open file: [data, keep]
    saved     \* files that were received to their end

rxVars == <<rx, file, saved>>

\* Where the program waits: menu (main_menu), purge (purge before a NAK), cancel
\* (purge before CANs), block (receive_block), can (file_receive_canceled).
RxPcs == {"menu", "purge", "cancel", "block", "can", "closed"}

\* nest counts return addresses that were left on the stack.
RxStart(ymodem, crc) ==
    [pc |-> "menu", ymodem |-> ymodem, check |-> IF crc THEN "crc" ELSE "sum",
     blk |-> 0, retries |-> 0, open |-> FALSE, blocks |-> 0, bytes |-> 0, nest |-> 0]

RxInit(ymodem, crc) == /\ rx = RxStart(ymodem, crc)
                       /\ file = <<>>
                       /\ saved = <<>>

\* send_NAK: one try less, and purge; without tries left the program gives up.
SendNak(r) == [r EXCEPT !.retries = @ - 1,
                        !.pc = IF r.retries = 1 THEN "cancel" ELSE "purge"]

\* send_NAKs, after update_retries.
SendNaks(r) == SendNak([r EXCEPT !.retries = Retries])

\* receive_ymodem: the next header has number 0.
ReceiveYmodem(r) == SendNaks([r EXCEPT !.blk = 0])

\* main_menu closes the file.
MainMenu(r) == [r EXCEPT !.pc = "menu", !.open = FALSE]

GiveUp(r) == [r EXCEPT !.pc = "cancel"]

\* receive_file, once the name is known.
ReceiveFile(r, blocks, bytes, opens) ==
    IF opens THEN SendNaks([r EXCEPT !.open = TRUE, !.blk = 1,
                                     !.blocks = blocks, !.bytes = bytes])
             ELSE GiveUp([r EXCEPT !.blocks = blocks, !.bytes = bytes])

----------------------------------------------------------------------------
\* The menu.

\* R) with a name for XModem, whose size is not known.
KeyReceive(opens) ==
    /\ rx.pc = "menu"
    /\ rx' = IF rx.ymodem THEN ReceiveYmodem(rx)
                          ELSE ReceiveFile(rx, MaxBlocks, 0, opens)
    /\ file' = IF ~rx.ymodem /\ opens THEN <<>> ELSE file
    /\ UNCHANGED <<saved, line>>

\* A key without a command goes to main_menu.
KeyOther ==
    /\ rx.pc = "menu" /\ rx.open
    /\ rx' = MainMenu(rx)
    /\ UNCHANGED <<file, saved, line>>

\* Shift+Enter returns: from app_main, or to main_menu when the stack has more.
KeyShiftEnter ==
    /\ rx.pc = "menu"
    /\ rx' = IF rx.nest = 0 THEN [MainMenu(rx) EXCEPT !.pc = "closed"]
                            ELSE [MainMenu(rx) EXCEPT !.nest = @ - 1]
    /\ UNCHANGED <<file, saved, line>>

----------------------------------------------------------------------------
\* purge, and what follows when the line is silent.

PurgeByte ==
    /\ rx.pc \in {"purge", "cancel"} /\ fwd # <<>>
    /\ fwd' = Tail(fwd)
    /\ UNCHANGED <<rxVars, back>>

TransmitNak(sent) ==
    /\ rx.pc = "purge" /\ fwd = <<>>
    /\ rx' = IF sent THEN [rx EXCEPT !.pc = "block"] ELSE GiveUp(rx)
    /\ back' = IF sent THEN Append(back, IF rx.check = "crc" THEN "C" ELSE "NAK")
                       ELSE back
    /\ UNCHANGED <<file, saved, fwd>>

\* cancel stops at the first byte that cannot be transmitted.
TransmitCans(sent) ==
    /\ rx.pc = "cancel" /\ fwd = <<>>
    /\ rx' = MainMenu(rx)
    /\ back' = IF sent THEN back \o Repeat("CAN") ELSE back
    /\ UNCHANGED <<file, saved, fwd>>

----------------------------------------------------------------------------
\* receive_block.

\* A bug: there is a timeout for a second CAN only.
RxTimeoutCan ==
    /\ rx.pc = "can"
    /\ rx' = SendNak(rx)
    /\ UNCHANGED <<file, saved, line>>

\* Nothing comes, or a key is pressed.
RxTimeout ==
    /\ rx.pc \in {"block", "can"}
    /\ rx' = SendNak(rx)
    /\ UNCHANGED <<file, saved, line>>

Reads(kind) == /\ rx.pc = "block" /\ fwd # <<>> /\ Head(fwd).kind = kind
               /\ fwd' = Tail(fwd)

\* A bug: the block before the expected one is taken as well.
IsNextOrPrevious(m) == m.num = rx.blk \/ NextNum(m.num) = rx.blk

IsNext(m) == m.num = rx.blk
IsPrevious(m) == NextNum(m.num) = rx.blk
Intact(m) == m.flaw \notin {"start", "number", "data"} /\ m.check \in {rx.check, "both"}

\* A bug: a block that is refused ends the transfer.
RefuseBlockForGood ==
    /\ Reads("block")
    /\ IsNext(Head(fwd)) /\ ~Intact(Head(fwd))
    /\ rx' = GiveUp(rx)
    /\ UNCHANGED <<file, saved, back>>

\* A bad first byte, number or check, and the block before this one: a NAK.
RefuseBlock ==
    /\ Reads("block")
    /\ LET m == Head(fwd)
       IN  \/ m.flaw \in {"start", "number"}
           \/ IsPrevious(m) /\ ~IsNext(m)
           \/ IsNext(m) /\ ~Intact(m)
           \/ IsNext(m) /\ m.flaw = "tail" /\ rx.check = "sum"
    /\ rx' = SendNak(rx)
    /\ UNCHANGED <<file, saved, back>>

\* A number that is neither, or one whose complement is another's.
OutOfSync ==
    /\ Reads("block")
    /\ LET m == Head(fwd)
       IN  /\ m.flaw # "start"
           /\ \/ m.flaw = "number"
              \/ ~IsNext(m) /\ ~IsPrevious(m)
              \/ ~IsNext(m) /\ IsPrevious(m) /\ m.flaw = "data"
    /\ rx' = GiveUp(rx)
    /\ UNCHANGED <<file, saved, back>>

\* The last byte of a CRC does not come: JP C,not_crc goes to a label of main_menu.
LoseCrcByte ==
    /\ Reads("block")
    /\ LET m == Head(fwd)
       IN  IsNext(m) /\ Intact(m) /\ m.flaw = "tail" /\ rx.check = "crc"
    /\ rx' = [rx EXCEPT !.pc = "menu", !.nest = @ + 1]
    /\ UNCHANGED <<file, saved, back>>

Good(m) == IsNext(m) /\ Intact(m) /\ m.flaw = "none"

\* receive_ymodem_header: a header without name ends the batch; calc_blocks_and_bytes
\* splits a size.  Any other contents are taken for a name without size.
TakeHeader(sent, opens) ==
    /\ Reads("block") /\ ~rx.open
    /\ LET head == Head(fwd).head
       IN  /\ Good(Head(fwd))
           /\ rx' = IF ~sent THEN GiveUp(rx)
                    ELSE IF head.is = "end" THEN MainMenu(rx)
                    ELSE IF head.is = "file"
                    THEN ReceiveFile(rx, head.size \div Short, head.size % Short, opens)
                    ELSE ReceiveFile(rx, MaxBlocks, 0, opens)
           /\ file' = IF sent /\ opens /\ head.is # "end" THEN <<>> ELSE file
    /\ back' = IF sent THEN Append(back, "ACK") ELSE back
    /\ UNCHANGED saved

\* buf_to_file: the last block is cut to the size.  blocks is then overwritten with
\* the number of bytes that were left.
Left(m) == rx.blocks - Units(m.long)

Kept(m) == IF Left(m) >= 0 THEN Width(m.long)
                           ELSE (rx.blocks % 256) * Short + rx.bytes

TakeBlock(sent, room) ==
    /\ Reads("block") /\ rx.open
    /\ LET m == Head(fwd)
           blocks == IF Left(m) >= 0 THEN Left(m) ELSE Kept(m)
       IN  /\ Good(m)
           /\ rx' = IF ~(room /\ sent) THEN GiveUp([rx EXCEPT !.blocks = blocks])
                    ELSE [rx EXCEPT !.blocks = blocks, !.blk = NextNum(@),
                                    !.retries = Retries]
           /\ file' = IF room THEN Append(file, [data |-> m.data, keep |-> Kept(m)])
                              ELSE file
           /\ back' = IF room /\ sent THEN Append(back, "ACK") ELSE back
    /\ UNCHANGED saved

\* file_received.
TakeEot(sent) ==
    /\ Reads("EOT")
    /\ rx' = IF ~sent THEN GiveUp(rx)
             ELSE IF rx.ymodem THEN ReceiveYmodem([rx EXCEPT !.open = FALSE])
             ELSE MainMenu(rx)
    /\ saved' = IF sent /\ rx.open THEN Append(saved, file) ELSE saved
    /\ back' = IF sent THEN Append(back, "ACK") ELSE back
    /\ UNCHANGED file

\* A byte that starts nothing.
RefuseNoise ==
    /\ Reads("noise")
    /\ rx' = SendNak(rx)
    /\ UNCHANGED <<file, saved, back>>

\* file_receive_canceled: only a second CAN stops the program.
TakeCan ==
    /\ Reads("CAN")
    /\ rx' = [rx EXCEPT !.pc = "can"]
    /\ UNCHANGED <<file, saved, back>>

\* A bug: a file that is canceled counts as received.
SecondByteSaves ==
    /\ rx.pc = "can" /\ fwd # <<>>
    /\ fwd' = Tail(fwd)
    /\ rx' = IF Head(fwd).kind = "CAN" THEN MainMenu(rx) ELSE SendNak(rx)
    /\ saved' = IF Head(fwd).kind = "CAN" /\ rx.open THEN Append(saved, file) ELSE saved
    /\ UNCHANGED <<file, back>>

SecondByte ==
    /\ rx.pc = "can" /\ fwd # <<>>
    /\ fwd' = Tail(fwd)
    /\ rx' = IF Head(fwd).kind = "CAN" THEN MainMenu(rx) ELSE SendNak(rx)
    /\ UNCHANGED <<file, saved, back>>

----------------------------------------------------------------------------
\* What follows silence on the line; what is read and not acknowledged; what is; and
\* what happens when a call fails in that.
RxSilent(sent) == RxTimeout \/ TransmitNak(sent) \/ TransmitCans(sent)

RxReads == PurgeByte \/ RefuseBlock \/ OutOfSync \/ LoseCrcByte \/ RefuseNoise
           \/ TakeCan \/ SecondByte

RxTakes == TakeHeader(TRUE, TRUE) \/ TakeBlock(TRUE, TRUE) \/ TakeEot(TRUE)

RxFails == TakeHeader(FALSE, TRUE) \/ TakeBlock(FALSE, TRUE) \/ TakeBlock(TRUE, FALSE)
           \/ TakeEot(FALSE)
===========================================================================
