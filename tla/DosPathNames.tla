---------------------------- MODULE DosPathNames ----------------------------
(***************************************************************************)
(* The functions of DosPath on every name that pieces put together form.   *)
(* Next appends a piece, so that a name shorter than one that goes wrong   *)
(* is seen first.                                                          *)
(***************************************************************************)
EXTENDS DosPath

CONSTANTS
  Char,       \* the characters of a name
  Piece,      \* what names are put together from
  MaxPieces   \* how many pieces a name has at most

ASSUME PieceAssumption == Piece \subseteq Seq(Char)
ASSUME NameCharAssumption == UNICODE_NULL \notin Char

VARIABLES
  path,    \* the name
  pieces   \* how many pieces it was put together from

vars == <<path, pieces>>

Init == path = <<>> /\ pieces = 0

Next ==
  /\ pieces < MaxPieces
  /\ \E s \in Piece : path' = path \o s
  /\ pieces' = pieces + 1

Spec == Init /\ [][Next]_vars
-----------------------------------------------------------------------------
(***************************************************************************)
(* The buffers with path in them: what is behind the terminator is up to   *)
(* whoever filled the memory before.                                       *)
(***************************************************************************)
Buffers ==
  LET n == Len(path)
  IN  {[i \in 0..(n + 3) |-> IF i <= n THEN CharAt(path, i) ELSE behind[i - n]] :
         behind \in [1..3 -> {Dot, BackSlash, Colon, UNICODE_NULL}]}

(***************************************************************************)
(* "The algorithm is similar to RtlDetermineDosPathNameType_U": the two    *)
(* agree on every name, and the one that "assumes 4 characters" decides    *)
(* without the characters behind the terminator.                           *)
(***************************************************************************)
TypesAgree ==
  \A buf \in Buffers :
    RtlDetermineDosPathNameType_U(buf) = RtlDetermineDosPathNameType_Ustr(path)

(***************************************************************************)
(* A DOS device is named at C index i by l characters: they are a device   *)
(* word, no separator follows them, and only spaces come between them and  *)
(* the end, a dot or a colon.                                              *)
(***************************************************************************)
NamesDevice(s, i, l) ==
  LET word == SubSeq(s, i + 1, i + l)
      rest == SubSeq(s, i + l + 1, Len(s))
  IN  /\ i + l <= Len(s)
      /\ i = 0 \/ IS_PATH_SEPARATOR(s[i]) \/ (i = 2 /\ s[2] = Colon)
      /\ IsDevice(word) \/ IsPort(word)
      /\ \A j \in DOMAIN rest : ~IS_PATH_SEPARATOR(rest[j])
      /\ \E k \in 0..Len(rest) :
           /\ \A j \in 1..k : rest[j] = Space
           /\ k < Len(rest) => rest[k + 1] \in {Dot, Colon}

(***************************************************************************)
(* The search from the end, with its colon count and recomputed lengths,   *)
(* finds the device a name names, at its offset, and finds no other.       *)
(***************************************************************************)
DeviceFound ==
  RtlDetermineDosPathNameType_Ustr(path) \notin {"UncAbsolute", "LocalDevice"} =>
    LET at == {il \in (0..Len(path)) \X {3, 4} : NamesDevice(path, il[1], il[2])}
    IN  IF at = {} THEN RtlIsDosDeviceName_Ustr(path) = 0
        ELSE \E il \in at :
               RtlIsDosDeviceName_Ustr(path)
                 = MAKELONG(il[2] * SizeofWCHAR, il[1] * SizeofWCHAR)

(***************************************************************************)
(* The \\share\dir part of a UNC name is two names with separators between *)
(* them, and nothing of the second is left behind it.                      *)
(***************************************************************************)
PrefixIsShareAndDir ==
  RtlDetermineDosPathNameType_Ustr(path) = "UncAbsolute" =>
    LET n == RtlpSkipUNCPrefix(path)
        sep(i) == IS_PATH_SEPARATOR(CharAt(path, i))
    IN  /\ n = Len(path) \/ sep(n)
        /\ \E i \in 2..n : \E j \in i..n :
             /\ i = Len(path) \/ sep(i)
             /\ \A k \in 2..(i - 1) : ~sep(k)
             /\ \A k \in i..(j - 1) : sep(k)
             /\ \A k \in j..(n - 1) : ~sep(k)
             /\ j = n => n = Len(path)
-----------------------------------------------------------------------------
(***************************************************************************)
(* "This should return 0x80006" of \\.\CON: the offset, 4 characters, in   *)
(* the high word and the length, 3 characters, in the low word.            *)
(***************************************************************************)
SlashCONReturned ==
  path = RtlpDosSlashCONDevice =>
    /\ HIWORD(RtlIsDosDeviceName_Ustr(path)) = 4 * SizeofWCHAR
    /\ LOWORD(RtlIsDosDeviceName_Ustr(path)) = 3 * SizeofWCHAR
=============================================================================
