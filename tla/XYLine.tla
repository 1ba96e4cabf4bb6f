------------------------------ MODULE XYLine ------------------------------
(***************************************************************************)
(* The serial line between two programs that speak XModem or YModem, as     *)
(* z88apps/xymodem uses it.  What goes to the receiver is a block or one of *)
(* the bytes EOT and CAN; what comes back are single bytes.  A block carries *)
(* what its bytes stand for (data) and whether the line has damaged it.     *)
(***************************************************************************)
EXTENDS Integers, Sequences

CONSTANTS
    Short,    \* bytes of a short block: 128
    Ratio,    \* short blocks in a long one: 8
    BlkMod,   \* block numbers are taken modulo this: 256
    Cans      \* bytes CAN that a program sends when it gives up: 8

ASSUME LineAssumption ==
    /\ Short \in Nat \ {0} /\ Ratio \in Nat \ {0}
    /\ BlkMod \in Nat /\ BlkMod >= 3
    /\ Cans \in Nat /\ Cans >= 2

VARIABLES
    fwd,      \* under way to the receiver
    back      \* under way to the sender

line == <<fwd, back>>

Units(long) == IF long THEN Ratio ELSE 1
Width(long) == Short * Units(long)
\* INC of a byte.
NextNum(n) == IF n = BlkMod - 1 THEN 0 ELSE n + 1

\* What a header says: a file of so many bytes, or the end of the batch; blocks
\* of the file say neither.
NoHead  == [is |-> "none"]
EndHead == [is |-> "end"]
FileHead(size) == [is |-> "file", size |-> size]

\* Where the line hits a block: the first byte; the number; the bytes of the data,
\* the complement of the number or the check; the last byte, which gets lost.
Flaws == {"start", "number", "data", "tail"}

Block(num, long, check, head, data) ==
    [kind |-> "block", num |-> num, long |-> long, check |-> check,
     head |-> head, data |-> data, flaw |-> "none"]
Control(byte, data) == [kind |-> byte, data |-> data]

Repeat(x) == [i \in 1..Cans |-> x]

----------------------------------------------------------------------------
\* What the line does: something gets lost; a block is damaged, or its first byte
\* becomes EOT; a byte becomes another that means nothing.

Without(q, n) == [k \in 1..(Len(q) - 1) |-> IF k < n THEN q[k] ELSE q[k + 1]]

DamageForward(kind) ==
    /\ UNCHANGED back
    /\ \E n \in DOMAIN fwd :
        \/ kind = "lost" /\ fwd' = Without(fwd, n)
        \/ /\ fwd[n].kind = "block" /\ fwd[n].flaw = "none" /\ kind \in Flaws
           /\ fwd' = [fwd EXCEPT ![n].flaw = kind]
        \/ /\ fwd[n].kind = "block" /\ kind = "eot"
           /\ fwd' = [fwd EXCEPT ![n] = Control("EOT", fwd[n].data)]
        \/ /\ fwd[n].kind \in {"EOT", "CAN"} /\ kind = "noise"
           /\ fwd' = [fwd EXCEPT ![n].kind = "noise"]

DamageBack(kind) ==
    /\ UNCHANGED fwd
    /\ \E n \in DOMAIN back :
        \/ kind = "answer lost" /\ back' = Without(back, n)
        \/ kind = "answer noise" /\ back[n] # "noise"
           /\ back' = [back EXCEPT ![n] = "noise"]
===========================================================================
