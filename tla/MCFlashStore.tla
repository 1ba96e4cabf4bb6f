---------------------------- MODULE MCFlashStore ----------------------------
(***************************************************************************)
(* FlashStore with two slots and two names, where every entry takes one     *)
(* unit.  An area of two units holds both files, or two versions of one.    *)
(* With faults the second area holds one entry only.                        *)
(***************************************************************************)
EXTENDS FlashStore, TLC

CONSTANTS s1, s2

MCCapacity == s1 :> 2 @@ s2 :> 2
MCCapacityFaults == s1 :> 2 @@ s2 :> 1
MCEntrySize(n, d) == 1
MCSymmetry == Permutations(Names) \union Permutations(Contents)
=============================================================================
