------------------------------ MODULE XYModem ------------------------------
(***************************************************************************)
(* Two Z88 computers: XYSend on one and XYReceive on the other, with the    *)
(* line between them and the users at their keyboards.                      *)
(***************************************************************************)
EXTENDS XYReceive, XYSend

CONSTANTS
    Settings,     \* [rxYmodem, crc, txYmodem, block1k] of both sides, batches, the
                  \* files a user may send as sequences of sizes, and maxFaults
    Faults        \* kinds of damage on the line

VARIABLES
    setting,
    faults,       \* damage so far
    received,     \* the key R: "no", or pressed "before" or "after" the sender waits
    sent, ended   \* the files sent with the key S; the key E

vars == <<rxVars, tx, line, setting, faults, received, sent, ended>>
users == <<setting, received, sent, ended>>

Init ==
    /\ setting \in Settings
    /\ RxInit(setting.rxYmodem, setting.crc) /\ TxInit(setting.txYmodem, setting.block1k)
    /\ fwd = <<>> /\ back = <<>> /\ faults = 0
    /\ received = "no" /\ sent = <<>> /\ ended = FALSE

RxIdle == rx.pc \in {"menu", "closed"}

\* Each user does a thing once.
Receive ==
    /\ received = "no" /\ KeyReceive(TRUE)
    /\ received' = IF tx.pc \in {"nak0", "nak1"} THEN "after" ELSE "before"
    /\ UNCHANGED <<tx, setting, faults, sent, ended>>

Send ==
    /\ sent = <<>>
    /\ \E sizes \in setting.batches : KeySend(sizes) /\ sent' = sizes
    /\ UNCHANGED <<rxVars, setting, faults, received, ended>>

\* A batch is ended after it was sent.
EndBatch ==
    /\ ~ended /\ sent # <<>> /\ tx.ymodem /\ ended' = TRUE
    /\ KeyEndBatch
    /\ UNCHANGED <<rxVars, setting, faults, received, sent>>

Menu == /\ received # "no"
        /\ KeyOther \/ KeyShiftEnter
        /\ UNCHANGED <<tx, faults, users>>

Escape == /\ setting.maxFaults > 0 /\ TxEscape
          /\ UNCHANGED <<rxVars, faults, users>>

\* A sender who waits reads a byte and answers it in much less than the second of
\* silence that ends a purge, or the seconds that a receiver waits.
Silence == fwd = <<>> /\ (back = <<>> \/ tx.pc = "menu")

Receiver == /\ RxReads \/ RxTakes \/ (Silence /\ RxSilent(TRUE))
            /\ UNCHANGED <<tx, faults, users>>

\* A receiver at work sends a byte before the sender, who waits 31 seconds for an
\* answer, has waited too long; for an answer to EOT it waits 4 seconds, which is still
\* more than the receiver needs to purge.
TxSilence == /\ TxTimeout /\ back = <<>>
             /\ RxIdle \/ /\ tx.pc \notin {"nak0", "nak1", "answer"}
                          /\ fwd = <<>> /\ rx.pc \in {"block", "can"}

Sender == /\ TxRead \/ TxSilence \/ TxPurge \/ TxPurged
          /\ UNCHANGED <<rxVars, faults, users>>

Damage == /\ faults < setting.maxFaults /\ faults' = faults + 1
          /\ \E kind \in Faults : DamageForward(kind) \/ DamageBack(kind)
          /\ UNCHANGED <<rxVars, tx, users>>

Next == Receive \/ Send \/ EndBatch \/ Menu \/ Escape \/ Receiver \/ Sender \/ Damage

\* Programs run; users need not do anything.
Spec == Init /\ [][Next]_vars /\ WF_vars(Receiver) /\ WF_vars(Sender)

----------------------------------------------------------------------------
\* A file is what was sent: its pieces follow one another, from its beginning to its
\* end; with XModem, where no size is sent, up to a block.
Whole(pieces, size, exact) ==
    /\ \A k \in DOMAIN pieces :
        LET p == pieces[k]
        IN  /\ p.data.of = size
            /\ p.data.from = IF k = 1 THEN 0
                             ELSE pieces[k - 1].data.from + pieces[k - 1].keep
    /\ IF pieces = <<>> THEN size = 0
       ELSE LET p == pieces[Len(pieces)]
            IN  IF exact THEN p.data.from + p.keep = size
                ELSE p.data.from + p.data.n = size /\ p.keep - p.data.n \in 0..(Short - 1)

\* When the sender was started first, a file that the receiver reports as received is the
\* file that was sent.
EveryFileWhole ==
    [][saved' # saved /\ received = "after" =>
           Whole(saved'[Len(saved')], Head(fwd).data, rx.ymodem)]_vars

\* The same with CRC; with checksums only on a line without damage and when the sender
\* was started first, because a NAK makes the sender go on in the file.
Undisturbed == faults = 0 /\ received = "after"
FileWhole ==
    [][saved' # saved /\ (setting.crc \/ Undisturbed) =>
           Whole(saved'[Len(saved')], Head(fwd).data, rx.ymodem)]_vars

\* Whoever sends comes back to the menu, whatever happens to the line.
SendingEnds == InSession ~> ~InSession

\* On a line without damage, when nobody presses Esc, the file in hand arrives, once both
\* sides are at work, and with YModem the rest of the batch.
Delivered ==
    \A n \in 1..3 :
        (~RxIdle /\ InSession /\ saved = <<>> /\ Len(tx.next) = n - 1
         /\ setting.maxFaults = 0 /\ Undisturbed)
            ~> Len(saved) >= IF rx.ymodem THEN n ELSE 1
===========================================================================
