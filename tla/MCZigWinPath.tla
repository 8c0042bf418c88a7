---------------------------- MODULE MCZigWinPath ----------------------------
(***************************************************************************)
(* Every short path of names, dots and separators, and longer ones of      *)
(* names, ".." and separators.                                             *)
(***************************************************************************)
EXTENDS ZigTests

CONSTANTS
  MaxText,       \* the length of a path
  MaxSlashText,  \* the length of one with slashes
  MaxPieces      \* the pieces of a longer one

MCChar == {"a", Dot, BackSlash, Slash}

Pieces == {<<"a">>, <<BackSlash>>, <<Dot, Dot>>}

MCTexts ==
  BoundedSeq(MCChar \ {Slash}, MaxText)
    \cup BoundedSeq(MCChar, MaxSlashText)
    \cup {FoldLeft(\o, <<>>, pieces) : pieces \in BoundedSeq(Pieces, MaxPieces)}
=============================================================================
