--------------------------- MODULE MCFullPathNames ---------------------------
(***************************************************************************)
(* Pieces that make names of every type with every kind of component and   *)
(* with devices, on a drive's root, in a directory, and in a directory of  *)
(* a share.  (Two backslashes are a piece, so that four pieces reach the   *)
(* second name of a UNC prefix.)                                           *)
(***************************************************************************)
EXTENDS NtNames

MCChar == {"x", "C", "s", "d", "e", "c", "o", "m", "1",
           BackSlash, Slash, Dot, Space, Colon, QuestionMark}

MCPiece ==
  {<<c>> : c \in {"x", BackSlash, Slash, Dot, Space, Colon, QuestionMark}}
    \cup {<<BackSlash, BackSlash>>, <<Dot, Dot>>, <<"c", "o", "m", "1">>}

MCCurDir ==
  {<<"C", ":", "\\">>, <<"C", ":", "\\", "d", "\\">>,
   <<"\\", "\\", "s", "\\", "d", "\\", "e", "\\">>,
   <<"\\", "\\", "s", "\\", "d", ".", "\\">>}
=============================================================================
