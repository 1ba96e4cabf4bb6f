----------------------------- MODULE MCXYModem -----------------------------
(* Instances of XYModem: blocks of two and four bytes, numbers modulo three. *)
EXTENDS XYModem

\* Both sides are set to the same protocol.
Both(crcs, batches, maxFaults) ==
    {[rxYmodem |-> y, crc |-> c, txYmodem |-> y, block1k |-> k,
      batches |-> batches, maxFaults |-> maxFaults] :
         y \in BOOLEAN, c \in crcs, k \in BOOLEAN}

MCBatches == {<<size>> : size \in 0..11} \cup {<<3, 6>>, <<0, 5, 8>>}
MCTwo == {<<3, 5>>, <<6>>}

\* A line without damage, and one with two faults where CRC is used.
MCSettings == Both(BOOLEAN, MCBatches, 0) \cup Both({TRUE}, MCTwo, 2)
\* A fault where checksums are used.
MCSumSettings == Both({FALSE}, MCTwo, 1)
===========================================================================
