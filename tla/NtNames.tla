------------------------------ MODULE NtNames ------------------------------
(***************************************************************************)
(* The NT name of every name FullPathNames forms.                          *)
(***************************************************************************)
EXTENDS FullPathNames, NtName

IsDevicePath(s) == RtlIsDosDeviceName_Ustr(s) # 0

\* The names that get an NT name.
Convertible(s, cd) == Storable(s, cd) /\ HasNtName(Stored(s, cd))

\* A device has no file part.
FilePartFound(s, cd) == IF IsDevicePath(s) THEN 0 ELSE FilePart(s, cd)

\* The name that takes the quick path to an NT name.
ToQuick(nt) == RtlpWin32NtRootSlash \o SubSeq(nt, 5, Len(nt))

\* Index n of the NT name of s is in the \\share\dir that s starts with.
InShareAndDir(s, n) ==
  /\ TypeOfString(s) = "UncAbsolute"
  /\ n - Len(RtlpDosDevicesUncPrefix) + 2 < RtlpSkipUNCPrefix(s)

HasThreeDots(s) == \E i \in 1..(Len(s) - 2) : SubSeq(s, i, i + 2) = <<Dot, Dot, Dot>>

Resolved(s) ==
  \A names \in {Split(s)} :
    /\ Range(Front(names)) \cap {<<>>, <<Dot>>, <<Dot, Dot>>} = {}
    /\ Last(names) \notin {<<Dot>>, <<Dot, Dot>>}

\* The \\share\dir that a current directory is in, which no collapse changes.
ShareResolved(cd) ==
  cd[2] # Colon => Resolved(SubSeq(Converted(cd), 3, CurDirMark(cd)))
-----------------------------------------------------------------------------
(***************************************************************************)
(* The quick path gives the name it stands for the same NT name, and finds *)
(* from the other end the same part name.  Only the long way knows that a  *)
(* share, its directory and a device are no files, and it knows so of the  *)
(* name it is given: of a relative name in a share, the part name may be   *)
(* the share's directory.  (\\?\ alone does not take the quick path.)      *)
(***************************************************************************)
QuickPathAgrees ==
  \A cd \in CurDir :
    Convertible(path, cd) =>
      \A full \in {Stored(path, cd)}, file \in {FilePartFound(path, cd)} :
        \A quick \in {ToQuick(NtNameOf(full))} :
          HasNtRootSlash(quick) =>
            \A part \in {QuickPartName(quick)} :
              /\ QuickName(quick) = NtNameOf(full)
              /\ PartName(full, file) =
                   IF IsDevicePath(path) \/ InShareAndDir(path, part) THEN 0 ELSE part

(***************************************************************************)
(* NT takes a name as it is: what the conversion leaves unresolved stays.  *)
(* No component of an NT name is empty, "." or "..", but the last one may  *)
(* be empty.  (Not so a \\share\dir, which is as it was written, by the    *)
(* caller or in the current directory, the path stored for a device, which *)
(* SlashCONReturned is about, and "...", which loses a dot.)               *)
(***************************************************************************)
NtNameResolved ==
  \A cd \in CurDir :
    /\ Convertible(path, cd) /\ ~IsDevicePath(path)
    /\ TypeOfString(path) # "UncAbsolute" /\ ShareResolved(cd)
    /\ ~HasThreeDots(path) /\ ~HasThreeDots(cd)
    => \A nt \in {NtName(path, cd)} : Resolved(SubSeq(nt, 5, Len(nt)))
=============================================================================
