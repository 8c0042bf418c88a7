------------------------------ MODULE FullPath ------------------------------
(***************************************************************************)
(* The path RtlGetFullPathName_Ustr puts together for a name that is not a *)
(* DOS device, and what it tells its caller of it.  s is the name, cd the  *)
(* current directory of the process; both are sequences of characters.     *)
(***************************************************************************)
EXTENDS DosPath, PathComponents

RtlpWin32NtRootSlash == <<"\\", "\\", "?", "\\">>

TypeOfString(s) == RtlDetermineDosPathNameType_U(BufferOf(s))

\* What is left of the name without its trailing spaces.
CharsKept(s) == Max({0} \cup {n \in 1..Len(s) : s[n] # Space})

SkipTrailingPathSeparators(s) == ~IS_PATH_SEPARATOR(s[Len(s)])

\* The backslash behind the drive left to "..".
CurDirMarkShort(cd) == IF cd[2] = Colon THEN 2 ELSE RtlpSkipUNCPrefix(cd)

\* The part of the current directory that no ".." may remove.
CurDirMark(cd) == IF cd[2] = Colon THEN 3 ELSE RtlpSkipUNCPrefix(cd)

OnCurrentDrive(s, cd) ==
  /\ RtlpUpcaseUnicodeChar(s[1]) = RtlpUpcaseUnicodeChar(cd[1])
  /\ cd[2] = Colon

(***************************************************************************)
(* Per type of the name: what is put in front, where the rest of the name  *)
(* starts, and where the path starts that may be collapsed.  The query for *)
(* the directory of another drive finds no variable: RtlGetCurrentPeb()    *)
(* gives it no environment to look in.                                     *)
(***************************************************************************)
From(prefix, source, cut) == [prefix |-> prefix, source |-> source, cut |-> cut]

RelativeFromCurDir(cd, source) == From(cd, source, CurDirMark(cd))

\* The part \\.\ of the path of a device.
DeviceMark == 4

\* The root of the devices, as it is or as \\.\ whichever way it is written.
DeviceRootAsWritten(s) == From(<<>>, 0, Len(s))
DeviceRoot(s)          == From(DeviceRootString, 3, DeviceMark)

\* Put together as if nothing of the prefix were marked.
PrefixedUnmarked(s, cd) ==
  CASE TypeOfString(s) = "Rooted"   -> From(SubSeq(cd, 1, CurDirMark(cd)), 0, 0)
    [] TypeOfString(s) = "Relative" -> From(cd, 0, 0)
    [] OTHER                        -> From(<<>>, 0, 0)

Prefixed(s, cd) ==
  LET type == TypeOfString(s)
  IN  CASE type = "UncAbsolute"     -> From(<<>>, 0, RtlpSkipUNCPrefix(s))
        [] type = "LocalDevice"     -> From(<<>>, 0, DeviceMark)
        [] type = "DriveAbsolute"   -> From(SubSeq(s, 1, 3), 3, 3)
        [] type = "Relative"        -> RelativeFromCurDir(cd, 0)
        [] type = "DriveRelative"   ->
             IF OnCurrentDrive(s, cd) THEN RelativeFromCurDir(cd, 2)
             ELSE From(<<RtlpUpcaseUnicodeChar(s[1]), Colon, BackSlash>>, 2, 3)
        [] type = "Rooted"          ->
             From(SubSeq(cd, 1, CurDirMark(cd)), 0, CurDirMark(cd))
        [] type = "RootLocalDevice" -> DeviceRoot(s)

(***************************************************************************)
(* The buffer RtlpCollapsePath is called on.  One character more than is   *)
(* kept of the name is copied: the terminator, or the first of the spaces. *)
(***************************************************************************)
Composed(s, cd) ==
  Prefixed(s, cd).prefix
    \o SubSeq(s, Prefixed(s, cd).source + 1, Min({CharsKept(s) + 1, Len(s)}))

\* The function's precondition, and its assertion when that does not hold.
CutInside(s, cd) == Prefixed(s, cd).cut <= Len(Composed(s, cd))

Full(s, cd) ==
  Collapsed(Composed(s, cd), Prefixed(s, cd).cut, SkipTrailingPathSeparators(s))

\* The file part with the separator in front of it.
FilePartAtSeparator(s, cd) ==
  LET full == Full(s, cd)
      ptr  == Max({0} \cup {i \in DOMAIN full : full[i] = BackSlash})
      cut  == IF TypeOfString(s) = "UncAbsolute" THEN Prefixed(s, cd).cut ELSE 3
  IN  IF ptr # 0 /\ ptr < Len(full) /\ ptr >= cut THEN ptr - 1 ELSE 0

(***************************************************************************)
(* Where the file part of the full path starts, 0 when it has none.        *)
(***************************************************************************)
FilePart(s, cd) ==
  LET full == Full(s, cd)
      ptr  == Max({0} \cup {i \in DOMAIN full : full[i] = BackSlash})
      cut  == IF TypeOfString(s) = "UncAbsolute" THEN Prefixed(s, cd).cut ELSE 3
  IN  IF ptr # 0 /\ ptr < Len(full) /\ ptr >= cut THEN ptr ELSE 0
-----------------------------------------------------------------------------
(***************************************************************************)
(* What the function returns, in bytes, to a caller that passes a buffer   *)
(* of Size bytes and no InvalidName: the length of the path it has put     *)
(* there, the size it asks for, or 0.                                      *)
(***************************************************************************)
AnswerDevice(dos, Size) ==
  LET FullLength == LOWORD(dos) + LengthInBytes(DeviceRootString)
  IN  IF FullLength < Size THEN FullLength ELSE FullLength + SizeofWCHAR

\* Without room for a terminator.
NeededUnterminated(s, cd) ==
  (Len(Prefixed(s, cd).prefix) + (CharsKept(s) - Prefixed(s, cd).source)) * SizeofWCHAR

\* The bytes the path needs, its terminator included.
Needed(s, cd) ==
  (Len(Prefixed(s, cd).prefix) + (CharsKept(s) - Prefixed(s, cd).source) + 1)
    * SizeofWCHAR

AnswerPathExactlyTooSmall(s, Size, cd) ==
  IF Needed(s, cd) >= Size THEN Needed(s, cd) ELSE LengthInBytes(Full(s, cd))

AnswerPath(s, Size, cd) ==
  IF Needed(s, cd) > Size THEN Needed(s, cd) ELSE LengthInBytes(Full(s, cd))

RtlGetFullPathName_Ustr(s, Size, cd) ==
  LET dos == RtlIsDosDeviceName_Ustr(s)
  IN  IF CharsKept(s) = 0 THEN 0
      ELSE IF dos # 0 THEN AnswerDevice(dos, Size)
      ELSE AnswerPath(s, Size, cd)

\* The device path it stores: offset and length have changed places.
DevicePath(s) ==
  LET offset == HIWORD(RtlIsDosDeviceName_Ustr(s)) \div SizeofWCHAR
      length == LOWORD(RtlIsDosDeviceName_Ustr(s)) \div SizeofWCHAR
  IN  DeviceRootString \o SubSeq(s, offset + 1, offset + length)

Stored(s, cd) ==
  IF RtlIsDosDeviceName_Ustr(s) # 0 THEN DevicePath(s) ELSE Full(s, cd)

\* The name RtlpCheckDeviceName asks for: cut at the "offset", with a dot.
CheckedName(s) ==
  Append(SubSeq(s, 1, HIWORD(RtlIsDosDeviceName_Ustr(s)) \div SizeofWCHAR), Dot)
-----------------------------------------------------------------------------
(***************************************************************************)
(* An NT name is made of a full path of these types; of others it is not.  *)
(***************************************************************************)
\* \\?\ alone is converted like any other name.
HasNtRootSlash(s) == Len(s) > 4 /\ SubSeq(s, 1, 4) = RtlpWin32NtRootSlash

HasNtName(full) == TypeOfString(full) \notin {"Unknown", "RootLocalDevice"}
=============================================================================
