----------------------------- MODULE XYRemote -----------------------------
(***************************************************************************)
(* XYReceive with the sender of another computer, that keeps to the rules:  *)
(* a refused block is sent again, and the next one only after an ACK.  Line *)
(* and calls fail; either side may lose patience while the other is slow.   *)
(***************************************************************************)
EXTENDS XYReceive

CONSTANTS
    Sizes,       \* of the file that is sent
    Settings,    \* of both sides: [ymodem, crc]
    Tries,       \* how often the sender sends something before it gives up
    Hastes,      \* whether a side may give up waiting for one that is only slow
    Faults,      \* kinds of damage on the line, and "calls"
    MaxFaults

ASSUME RemoteAssumption ==
    /\ Sizes \subseteq Nat
    /\ \A s \in Settings : s.ymodem \in BOOLEAN /\ s.crc \in BOOLEAN
    /\ Tries \in Nat \ {0}
    /\ Hastes \subseteq BOOLEAN
    /\ MaxFaults \in Nat
    /\ "eot" \notin Faults

VARIABLES
    ro,        \* the sender: its item in hand, what it waits for, and its patience
    started,   \* the user has pressed R
    faults,    \* damage so far: of items, repairable, and others
    taken      \* the last item that was acknowledged

vars == <<rxVars, line, ro, started, faults, taken>>

\* The items of a transfer: 0 the header, 1..Parts the blocks, then EOT, and a header
\* that ends the batch.
Parts == (ro.size + Short - 1) \div Short
First == IF rx.ymodem THEN 0 ELSE 1

Item(r) ==
    CASE r.idx = 0             -> Block(0, FALSE, r.check, FileHead(r.size), 0)
      [] r.idx \in 1..Parts    -> Block(r.num, FALSE, r.check, NoHead, r.idx)
      [] r.idx = Parts + 1     -> Control("EOT", r.idx)
      [] OTHER                 -> Block(0, FALSE, r.check, EndHead, r.idx)

Init ==
    /\ \E s \in Settings, size \in Sizes, hasty \in Hastes :
        /\ RxInit(s.ymodem, s.crc)
        /\ ro = [pc |-> "ready", idx |-> IF s.ymodem THEN 0 ELSE 1,
                 num |-> IF s.ymodem THEN 0 ELSE 1, check |-> "sum", size |-> size,
                 tries |-> Tries, can |-> FALSE, hasty |-> hasty]
        /\ taken = IF s.ymodem THEN -1 ELSE 0
    /\ fwd = <<>> /\ back = <<>>
    /\ started = FALSE /\ faults = [items |-> 0, others |-> 0]

----------------------------------------------------------------------------
\* The sender of the other computer.

RemoteVars == <<rxVars, started, faults, taken>>

Sends(r) == /\ ro' = [r EXCEPT !.pc = "wait"]
            /\ fwd' = Append(fwd, Item(r))
Waits(r) == ro' = r /\ UNCHANGED fwd

RemoteGivesUp == /\ ro' = [ro EXCEPT !.pc = "done"]
                 /\ fwd' = fwd \o Repeat(Control("CAN", ro.idx))

SendAgain == IF ro.tries = 1 THEN RemoteGivesUp
                             ELSE Sends([ro EXCEPT !.tries = @ - 1, !.can = FALSE])

Hears(byte) == /\ ro.pc \in {"ready", "wait"} /\ back # <<>> /\ Head(back) = byte
               /\ back' = Tail(back)
               /\ UNCHANGED RemoteVars

\* The first NAK or C starts a transfer, and after its header the file.
RemoteStart == \E byte \in {"NAK", "C"} :
    /\ Hears(byte) /\ ro.pc = "ready"
    /\ Sends([ro EXCEPT !.check = IF byte = "C" THEN "crc" ELSE "sum", !.can = FALSE])

RemoteNak == /\ Hears("NAK") \/ Hears("C")
             /\ ro.pc = "wait" /\ SendAgain

\* The next item.  After a header the sender waits for another NAK or C.
NextItem == [ro EXCEPT !.idx = @ + 1, !.tries = Tries, !.can = FALSE,
                       !.num = IF ro.idx <= Parts THEN NextNum(@) ELSE 0]

RemoteAck ==
    /\ Hears("ACK")
    /\ IF ro.pc = "ready" THEN Waits([ro EXCEPT !.can = FALSE])
       ELSE IF ro.idx = 0 \/ (ro.idx = Parts + 1 /\ rx.ymodem)
       THEN Waits([NextItem EXCEPT !.pc = "ready"])
       ELSE IF ro.idx > Parts THEN Waits([ro EXCEPT !.pc = "done"])
       ELSE Sends(NextItem)

RemoteCan == /\ Hears("CAN")
             /\ Waits(IF ro.can THEN [ro EXCEPT !.pc = "done"] ELSE [ro EXCEPT !.can = TRUE])

RemoteNoise == Hears("noise") /\ Waits([ro EXCEPT !.can = FALSE])

RxIdle == rx.pc \in {"menu", "closed"}

RemoteTimeout ==
    /\ back = <<>>
    /\ \/ /\ ro.pc = "wait" /\ SendAgain
          /\ ro.hasty \/ RxIdle \/ (fwd = <<>> /\ rx.pc \in {"block", "can"})
       \/ ro.pc = "ready" /\ RemoteGivesUp /\ (ro.hasty \/ (started /\ RxIdle))
    /\ UNCHANGED <<back, RemoteVars>>

Remote == RemoteStart \/ RemoteNak \/ RemoteAck \/ RemoteCan \/ RemoteNoise \/ RemoteTimeout

----------------------------------------------------------------------------
\* The Z88.

\* The user receives once; another key, or Shift+Enter, follows when that is over.
Receive == /\ ~started /\ started' = TRUE
           /\ KeyReceive(TRUE)
           /\ UNCHANGED <<ro, faults, taken>>

Menu == /\ started /\ (KeyOther \/ KeyShiftEnter)
        /\ UNCHANGED <<ro, started, faults, taken>>

\* The receiver waits: for a sender that has nothing to answer, or that is slow.
Silence == fwd = <<>> /\ (ro.hasty \/ back = <<>> \/ ro.pc = "done")

Receiver == /\ \/ (RxReads \/ (Silence /\ RxSilent(TRUE))) /\ taken' = taken
               \/ RxTakes /\ taken' = Head(fwd).data
            /\ UNCHANGED <<ro, started, faults>>

Fault(of) == /\ faults.items + faults.others < MaxFaults
             /\ faults' = [faults EXCEPT ![of] = @ + 1]

\* A byte cannot be sent, the file cannot be opened or written.
CallFails ==
    /\ "calls" \in Faults /\ Fault("others")
    /\ \/ (RxFails \/ TransmitNak(FALSE) \/ TransmitCans(FALSE)) /\ taken' = taken
       \/ TakeHeader(TRUE, FALSE) /\ taken' = Head(fwd).data
    /\ UNCHANGED <<ro, started>>

OpenFails ==
    /\ "calls" \in Faults /\ Fault("others") /\ ~started /\ started' = TRUE
    /\ KeyReceive(FALSE)
    /\ UNCHANGED <<ro, taken>>

\* What a refusal and another try make good; a number that is garbled ends a transfer,
\* and so does a lost last byte.
Repairable == {"start", "data", "lost", "noise"}

Damage == /\ \E kind \in Faults :
                 \/ Fault(IF kind \in Repairable THEN "items" ELSE "others")
                    /\ DamageForward(kind)
                 \/ Fault("others") /\ DamageBack(kind)
          /\ UNCHANGED <<rxVars, ro, started, taken>>

Next == Remote \/ Receive \/ Menu \/ Receiver \/ CallFails \/ OpenFails \/ Damage

Spec == Init /\ [][Next]_vars
FairSpec == Spec /\ WF_vars(Receiver) /\ WF_vars(Remote)

----------------------------------------------------------------------------
\* Blocks are written once each and in order, though their numbers wrap around, blocks
\* are sent again and answers get lost.
InOrder == \A k \in DOMAIN file : file[k].data = k

\* A file that is reported as received has all blocks.
SavedWhole ==
    \A f \in DOMAIN saved :
        /\ Len(saved[f]) = Parts
        /\ \A k \in DOMAIN saved[f] : saved[f][k].data = k

\* A receiver at work comes back to the menu.
ReceivingEnds == ~RxIdle ~> RxIdle

\* Repairable damage on the way to the receiver, less often than the sender tries and with
\* patience on both sides, does not keep the file from arriving.
DamageRepaired ==
    started ~> (Len(saved) = 1 \/ ro.hasty \/ faults.others > 0 \/ faults.items >= Tries)
===========================================================================
