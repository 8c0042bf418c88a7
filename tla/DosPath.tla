------------------------------- MODULE DosPath -------------------------------
(***************************************************************************)
(* How path.c reads a DOS path: its type, the end of its \\share\dir part  *)
(* and the DOS device it may name.  A path is the sequence of its          *)
(* characters; lengths and offsets the code counts in bytes are bytes.     *)
(***************************************************************************)
EXTENDS PathChars, FiniteSetsExt

CONSTANT SizeofWCHAR  \* wchar_t: 4 where the project is built, 2 on Windows

ASSUME SizeofWCHARAssumption == SizeofWCHAR \in {2, 4}

LengthInBytes(s) == Len(s) * SizeofWCHAR

DeviceRootString      == <<"\\", "\\", ".", "\\">>
RtlpDosSlashCONDevice == DeviceRootString \o <<"C", "O", "N">>

RtlpDosPortDevices == {<<"L", "P", "T">>, <<"C", "O", "M">>}
RtlpDosDevices ==
  {<<"P", "R", "N">>, <<"A", "U", "X">>, <<"N", "U", "L">>, <<"C", "O", "N">>}
-----------------------------------------------------------------------------
(***************************************************************************)
(* The words and the characters of windows.h and unicode.c.                *)
(***************************************************************************)
\* The first argument lands in the high word.
MAKELONG(low, high) == low * 65536 + high

LOWORD(v) == v % 65536
HIWORD(v) == (v \div 65536) % 65536

UpperOf ==
  [a |-> "A", b |-> "B", c |-> "C", d |-> "D", e |-> "E", f |-> "F", g |-> "G",
   h |-> "H", i |-> "I", j |-> "J", k |-> "K", l |-> "L", m |-> "M", n |-> "N",
   o |-> "O", p |-> "P", q |-> "Q", r |-> "R", s |-> "S", t |-> "T", u |-> "U",
   v |-> "V", w |-> "W", x |-> "X", y |-> "Y", z |-> "Z"]

\* For the characters up to "z"; no table is loaded for those behind it.
RtlpUpcaseUnicodeChar(c) == IF c \in DOMAIN UpperOf THEN UpperOf[c] ELSE c

RtlEqualUnicodeString(s, t) ==
  /\ Len(s) = Len(t)
  /\ \A i \in DOMAIN s : RtlpUpcaseUnicodeChar(s[i]) = RtlpUpcaseUnicodeChar(t[i])
-----------------------------------------------------------------------------
(***************************************************************************)
(* The type of a path, from a counted string and from a terminated one.    *)
(***************************************************************************)
TypeOfCountedUnchecked(s) ==
  IF Len(s) = 0 THEN "Relative"
  ELSE IF IS_PATH_SEPARATOR(s[1]) THEN
    IF Len(s) < 2 \/ ~IS_PATH_SEPARATOR(s[2]) THEN "Rooted"
    ELSE IF Len(s) < 3 \/ s[3] \notin {Dot, QuestionMark} THEN "UncAbsolute"
    ELSE IF Len(s) >= 4 /\ IS_PATH_SEPARATOR(s[4]) THEN "LocalDevice"
    ELSE "RootLocalDevice"
  ELSE
    IF Len(s) < 2 \/ s[2] # Colon THEN "Relative"
    ELSE IF Len(s) < 3 \/ ~IS_PATH_SEPARATOR(s[3]) THEN "DriveRelative"
    ELSE "DriveAbsolute"

RtlDetermineDosPathNameType_Ustr(s) ==
  IF Len(s) = 0 THEN "Relative"
  ELSE IF IS_PATH_SEPARATOR(s[1]) THEN
    IF Len(s) < 2 \/ ~IS_PATH_SEPARATOR(s[2]) THEN "Rooted"
    ELSE IF Len(s) < 3 \/ s[3] \notin {Dot, QuestionMark} THEN "UncAbsolute"
    ELSE IF Len(s) >= 4 /\ IS_PATH_SEPARATOR(s[4]) THEN "LocalDevice"
    ELSE IF Len(s) # 3 THEN "UncAbsolute"
    ELSE "RootLocalDevice"
  ELSE
    IF Len(s) < 2 \/ s[2] # Colon THEN "Relative"
    ELSE IF Len(s) < 3 \/ ~IS_PATH_SEPARATOR(s[3]) THEN "DriveRelative"
    ELSE "DriveAbsolute"

\* Path is a buffer: it holds the string, its terminator and whatever follows.
RtlDetermineDosPathNameType_U(Path) ==
  IF IS_PATH_SEPARATOR(Path[0]) THEN
    IF ~IS_PATH_SEPARATOR(Path[1]) THEN "Rooted"
    ELSE IF Path[2] \notin {Dot, QuestionMark} THEN "UncAbsolute"
    ELSE IF IS_PATH_SEPARATOR(Path[3]) THEN "LocalDevice"
    ELSE IF Path[3] # UNICODE_NULL THEN "UncAbsolute"
    ELSE "RootLocalDevice"
  ELSE
    IF Path[0] = UNICODE_NULL \/ Path[1] # Colon THEN "Relative"
    ELSE IF IS_PATH_SEPARATOR(Path[2]) THEN "DriveAbsolute"
    ELSE "DriveRelative"

(***************************************************************************)
(* The index behind the \\share\dir part of s.                             *)
(***************************************************************************)
ComponentEnd(s, i) ==
  Min({j \in i..Len(s) : j = Len(s) \/ IS_PATH_SEPARATOR(CharAt(s, j))})

SeparatorsEndFirst(s, i) == Min({i + 1, Len(s)})

SeparatorsEnd(s, i) ==
  Min({j \in i..Len(s) : j = Len(s) \/ ~IS_PATH_SEPARATOR(CharAt(s, j))})

RtlpSkipUNCPrefix(s) == ComponentEnd(s, SeparatorsEnd(s, ComponentEnd(s, 2)))
-----------------------------------------------------------------------------
(***************************************************************************)
(* RtlIsDosDeviceName_Ustr: the length and the offset of the device word,  *)
(* 0 when there is none.                                                   *)
(***************************************************************************)
WithoutColon(s) == IF s # <<>> /\ s[Len(s)] = Colon THEN Len(s) - 1 ELSE Len(s)

\* The number of characters left once a colon, then dots and spaces are cut.
CharsLeft(s) == Max({0} \cup {n \in 1..WithoutColon(s) : s[n] \notin {Dot, Space}})

\* Where the name behind the last separator, or behind the drive, starts.
NameStart(s) ==
  Max({0} \cup {n \in 1..CharsLeft(s) :
                  IS_PATH_SEPARATOR(s[n]) \/ (s[n] = Colon /\ n = 2)})

\* Where its first dot or colon is, or its end; then where spaces in front start.
NameStop(s) ==
  Min({CharsLeft(s)} \cup
      {n \in NameStart(s)..(CharsLeft(s) - 1) : s[n + 1] \in {Dot, Colon}})

WordEndWithSpaces(s) == NameStop(s)

WordEnd(s) ==
  Max({NameStart(s)} \cup {n \in (NameStart(s) + 1)..NameStop(s) : s[n] # Space})

DeviceWord(s) == SubSeq(s, NameStart(s) + 1, WordEnd(s))

IsDevice(word) == \E d \in RtlpDosDevices : RtlEqualUnicodeString(word, d)

IsPort(word) ==
  /\ Len(word) = 4
  /\ word[4] \in {"1", "2", "3", "4", "5", "6", "7", "8", "9"}
  /\ \E d \in RtlpDosPortDevices : RtlEqualUnicodeString(SubSeq(word, 1, 3), d)

RtlIsDosDeviceName_Ustr(s) ==
  LET type == RtlDetermineDosPathNameType_Ustr(s)
      word == DeviceWord(s)
  IN  CASE type \in {"Unknown", "UncAbsolute"} -> 0
        [] type = "LocalDevice" ->
             IF RtlEqualUnicodeString(s, RtlpDosSlashCONDevice)
             THEN MAKELONG(3 * SizeofWCHAR, LengthInBytes(DeviceRootString))
             ELSE 0
        [] OTHER ->
             IF IsDevice(word) \/ IsPort(word)
             THEN MAKELONG(LengthInBytes(word), NameStart(s) * SizeofWCHAR)
             ELSE 0
=============================================================================
