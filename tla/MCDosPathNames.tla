--------------------------- MODULE MCDosPathNames ---------------------------
(***************************************************************************)
(* Pieces that make names of every type, with devices and what may stand   *)
(* around a device word.                                                   *)
(***************************************************************************)
EXTENDS DosPathNames

MCChar == {"n", "u", "l", "c", "o", "m", "C", "O", "N", "1", "x",
           BackSlash, Slash, Dot, Space, Colon, QuestionMark}

MCPiece ==
  {<<c>> : c \in {"x", BackSlash, Slash, Dot, Space, Colon, QuestionMark}}
    \cup {<<"n", "u", "l">>, <<"c", "o", "m", "1">>, <<"C", "O", "N">>}
=============================================================================
