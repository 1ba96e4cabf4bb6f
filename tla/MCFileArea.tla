------------------------------ MODULE MCFileArea -----------------------------
(***************************************************************************)
(* FileArea with bytes of three bits: names "/a" and "/b", images of zero   *)
(* and two bytes, entries of seven and nine bytes.  The area of 23 bytes in *)
(* a slot of 32 is filled to its last byte by two empty files and one of    *)
(* two bytes.                                                               *)
(***************************************************************************)
EXTENDS FileArea, Bitwise

MCBitAnd(a, b) == a & b

MCNames == {<<3, 1>>, <<3, 2>>}
MCContents == {<<>>, <<6, 2>>}
==============================================================================
