-------------------------- MODULE CollapseReference --------------------------
(***************************************************************************)
(* CollapsePath against its reference, PathComponents.                     *)
(***************************************************************************)
EXTENDS CollapsePath, PathComponents

(***************************************************************************)
(* The moves within the buffer compute what the list of components says,   *)
(* for every order of "." and "..", names and separators.                  *)
(***************************************************************************)
AgreesWithComponents ==
  pc = "done" =>
    Between(Path, 0, p) = Collapsed(call.text, mark, SkipTrailingPathSeparators)
=============================================================================
