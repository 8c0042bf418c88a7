------------------------------ MODULE PathChars ------------------------------
(***************************************************************************)
(* The characters of a path and the C strings they form.                   *)
(*                                                                         *)
(* A WCHAR is a one-character string; the terminator UNICODE_NULL, which   *)
(* has no glyph, is the empty one.  A C string is the sequence of the      *)
(* characters in front of its terminator.  A buffer is a function from     *)
(* C indices (from 0) to characters.                                       *)
(***************************************************************************)
EXTENDS Integers, Sequences

UNICODE_NULL == ""

BackSlash    == "\\"
Slash        == "/"
Dot          == "."
Space        == " "
Colon        == ":"
QuestionMark == "?"

IS_PATH_SEPARATOR(c) == c \in {BackSlash, Slash}

(***************************************************************************)
(* The character at C index i of the NUL-terminated string s: index Len(s) *)
(* is the terminator, and no index behind it may be read.                  *)
(***************************************************************************)
CharAt(s, i) == IF i = Len(s) THEN UNICODE_NULL ELSE s[i + 1]

(***************************************************************************)
(* The buffer that holds exactly the string s and its terminator.          *)
(***************************************************************************)
BufferOf(s) == [i \in 0..Len(s) |-> CharAt(s, i)]

(***************************************************************************)
(* The string made of the characters first..last-1 of a buffer.            *)
(***************************************************************************)
Between(buf, first, last) == [i \in 1..(last - first) |-> buf[first + i - 1]]
=============================================================================
