----------------------------- MODULE MCDzasm -----------------------------
(* Sessions with DZasm on code files of eight bytes, code first, data behind. *)
EXTENDS DzasmSource

\* begins: the addresses of the instructions.
Samples == {
    \* CALL 0004; JR 0006; data
    [bytes |-> <<205, 4, 0, 201, 24, 1, 0, 201>>, begins |-> {0, 3, 4, 7}],
    \* a loop, and a jump over data
    [bytes |-> <<16, 254, 24, 2, 6, 6, 201, 0>>, begins |-> {0, 2, 6}],
    \* LD HL,0006; RST 20h (GN_Sop); RET; a quotation mark
    [bytes |-> <<33, 6, 0, 231, 9, 60, 201, 34>>, begins |-> {0, 3, 6}],
    \* a table of two routines
    [bytes |-> <<4, 0, 6, 0, 40, 0, 201, 9>>, begins |-> {4, 6}],
    \* two JP instructions to one routine
    [bytes |-> <<195, 6, 0, 195, 6, 0, 201, 66>>, begins |-> {0, 3, 6}],
    \* a jump over a loop that nothing calls, and code to the very end
    [bytes |-> <<24, 4, 62, 1, 32, 252, 62, 0>>, begins |-> {0, 2, 4, 6}],
    \* a call that does not return, IX instructions
    [bytes |-> <<221, 54, 1, 2, 231, 12, 8, 0>>, begins |-> {0, 4}],
    \* two pointers of three bytes
    [bytes |-> <<201, 0, 0, 7, 7, 0, 7, 201>>, begins |-> {0, 7}]
    }

ImagesOf(samples) == {[a \in 0..7 |-> s.bytes[a + 1]] : s \in samples}
MCImages == ImagesOf(Samples)
MCBegins(m) ==
    UNION {s.begins : s \in {x \in Samples : \A a \in 0..7 : x.bytes[a + 1] = m[a]}}

\* The bytes taken for instructions have mnemonics.
ASSUME MnemonicsAssumption ==
    \A m \in MCImages : \A a \in MCBegins(m) : Disassemble(m, a).printed

CONSTANTS name, text
============================================================================
