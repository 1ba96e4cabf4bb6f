---------------------------- MODULE MCXYRemote ----------------------------
(* Instances of XYRemote: blocks of two bytes, numbers modulo three. *)
EXTENDS XYRemote

MCSettings == [ymodem : BOOLEAN, crc : BOOLEAN]
===========================================================================
