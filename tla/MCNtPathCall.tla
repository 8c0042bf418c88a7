---------------------------- MODULE MCNtPathCall ----------------------------
(***************************************************************************)
(* A name for each way through the four functions: see the README.  The    *)
(* tests of the repository are evaluated with this module.                 *)
(***************************************************************************)
EXTENDS NtPathCall, RepositoryTests

MCCurDir == <<"C", ":", "\\", "d", "\\">>

\* Names that are not devices.
Paths ==
  {<<>>, <<Space>>, <<"x">>, <<Dot, BackSlash>>, <<"D", ":", "x">>,
   <<BackSlash, BackSlash>> \o <<"a", Space, Space>>, <<BackSlash, BackSlash>> \o <<QuestionMark, Dot>>,
   <<BackSlash, BackSlash>> \o <<QuestionMark, BackSlash, "x">>, [i \in 1..9 |-> "x"]}

\* Devices with something in front, so that the name checked is none.
OtherDevices ==
  {<<"c", ":", "n", "u", "l">>, <<"x", BackSlash, "n", "u", "l">>,
   RtlpDosSlashCONDevice}

\* Devices whose checked name is the same device.
RunawayDevices ==
  {<<"C", "O", "N">>, <<"n", "u", "l", BackSlash, "n", "u", "l">>}

WithChecked(names) == names \cup {CheckedName(s) : s \in names}

MCName == WithChecked(OtherDevices \cup RunawayDevices) \cup Paths

\* All that callers may ask for who agree (CallersAgree).
AgreedFlags == {{}, {"HaveRelative"}, NtFlags}
=============================================================================
