--------------------------- MODULE MCCollapsePath ---------------------------
(***************************************************************************)
(* RtlpCollapsePath on every short path behind the marked parts its caller *)
(* RtlGetFullPathName_Ustr puts in front: none, a drive, the local device  *)
(* root, and \\share\dir, which a separator or nothing follows.            *)
(***************************************************************************)
EXTENDS CollapseReference

CONSTANTS
  RestChar,     \* the characters behind the marked part that separate nothing
  MaxRest,      \* how many of them there are at most
  MaxSlashRest  \* how many there are at most when slashes are among them

Rest == BoundedSeq(RestChar \cup {BackSlash}, MaxRest)
          \cup BoundedSeq(RestChar \cup {BackSlash, Slash}, MaxSlashRest)

NoPart == <<>>
Drive  == <<"C", ":", "\\">>
Device == <<"\\", "\\", ".", "\\">>
Share  == <<"\\", "\\", "s", "\\", "d">>

MCChar == RestChar \cup {"C", ":", "\\", "/", ".", " ", "s", "d"}

DottedShare == <<"\\", "\\", "s", "\\", "d", ".">>

CallsWith(part, rests) ==
  {[text |-> part \o r, mark |-> Len(part), skip |-> b] :
     r \in {r \in rests : part \o r # <<>>}, b \in BOOLEAN}

ShareRests == {r \in Rest : r = <<>> \/ IS_PATH_SEPARATOR(r[1])}

LocalCalls ==
  CallsWith(NoPart, Rest) \cup CallsWith(Drive, Rest) \cup CallsWith(Device, Rest)

ShareCalls == CallsWith(Share, ShareRests) \cup CallsWith(DottedShare, ShareRests)

MCCalls == LocalCalls \cup ShareCalls
=============================================================================
