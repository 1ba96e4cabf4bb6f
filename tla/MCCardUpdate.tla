---------------------------- MODULE MCCardUpdate ----------------------------
(***************************************************************************)
(* CardUpdate on a chip of few sectors.                                     *)
(***************************************************************************)
EXTENDS CardUpdate
=============================================================================
