------------------------------- MODULE NtName -------------------------------
(***************************************************************************)
(* The NT name that RtlpDosPathNameToRelativeNtPathName_Ustr makes of a    *)
(* name s that has a full path, with its part name, and the one that       *)
(* RtlpWin32NTNameToNtPathName_U makes of one that HasNtRootSlash.         *)
(* A part name is the index in front of its first character, 0 for none;   *)
(* so is file, the file part of the full path.                             *)
(***************************************************************************)
EXTENDS FullPath

RtlpDosDevicesPrefix    == <<"\\", "?", "?", "\\">>
RtlpDosDevicesUncPrefix == RtlpDosDevicesPrefix \o <<"U", "N", "C", "\\">>

\* What is put in front of a full path, and what is cut from it before.
PrefixBuffer(full) ==
  IF TypeOfString(full) = "UncAbsolute" THEN RtlpDosDevicesUncPrefix
  ELSE RtlpDosDevicesPrefix

\* A device would keep the separator in front of its name.
PrefixCutShort(full) ==
  CASE TypeOfString(full) = "UncAbsolute" -> 2
    [] TypeOfString(full) = "LocalDevice" -> 3
    [] OTHER                              -> 0

PrefixCut(full) ==
  CASE TypeOfString(full) = "UncAbsolute" -> 2
    [] TypeOfString(full) = "LocalDevice" -> 4
    [] OTHER                              -> 0

NtNameOf(full) == PrefixBuffer(full) \o SubSeq(full, PrefixCut(full) + 1, Len(full))

NtName(s, cd) == NtNameOf(Stored(s, cd))

\* The file part, counted from the start as in the full path.
PartNameFromStart(full, file) == file

\* The file part, as far from the end as in the full path.
PartName(full, file) ==
  IF file = 0 THEN 0 ELSE Len(NtNameOf(full)) - (Len(full) - file)
-----------------------------------------------------------------------------
(***************************************************************************)
(* The quick path.  The search for the part name goes back from the end,   *)
(* and stops at the prefix's own separator at the latest.                  *)
(***************************************************************************)
QuickName(s) == RtlpDosDevicesPrefix \o SubSeq(s, 5, Len(s))

QuickPartName(s) ==
  LET nt == QuickName(s)
      p  == Max({i \in 2..Len(s) : nt[i] = BackSlash})
  IN  IF p < Len(s) THEN p ELSE 0
=============================================================================
