----------------------------- MODULE MCCurDirRef -----------------------------
(***************************************************************************)
(* The reference count with the names and blocks of the cfg files.  A      *)
(* block more than names: each name may have a block of its own, and the   *)
(* process another.  Names are alike, and so are blocks.                   *)
(***************************************************************************)
EXTENDS CurDirRef, TLC

MCSymmetry == Permutations(Holder) \cup Permutations(Ref)
=============================================================================
