------------------------------ MODULE ZigTests ------------------------------
(***************************************************************************)
(* The tests of zigwinpath.zig, and what the reference says of them: TLC   *)
(* evaluates the assumptions.                                              *)
(***************************************************************************)
EXTENDS ZigReference

L(str) == [i \in 1..Len(str) |-> SubSeq(str, i, i)]

\* With the backslash that toNtPath passes for the tests' slash.
CollapseRepeatsTests ==
  {<<"", "">>, <<"a", "a">>, <<"\\", "\\">>, <<"\\\\", "\\">>, <<"\\a", "\\a">>,
   <<"\\\\a", "\\a">>, <<"a\\", "a\\">>, <<"a\\\\", "a\\">>, <<"a\\a", "a\\a">>,
   <<"a\\\\a", "a\\a">>, <<"\\\\\\a\\\\\\a\\\\\\\\", "\\a\\a\\">>}

RemoveDotDirsTests ==
  {<<"", "">>, <<".", "">>, <<".\\", "">>, <<".\\.", "">>, <<".\\.\\", "">>,
   <<".\\.\\.", "">>, <<"a", "a">>, <<"a\\", "a\\">>, <<"a\\b", "a\\b">>,
   <<"a\\.", "a\\">>, <<"a\\b\\.", "a\\b\\">>, <<"a\\.\\b", "a\\b">>, <<".a", ".a">>,
   <<".a\\", ".a\\">>, <<".a\\.b", ".a\\.b">>, <<".a\\.", ".a\\">>, <<".a\\.\\.", ".a\\">>,
   <<".a\\.\\.\\.b", ".a\\.b">>, <<".a\\.\\.\\.b\\", ".a\\.b\\">>, <<"a\\..", "">>,
   <<"a\\..\\", "">>, <<"a\\..\\.", "">>, <<"a\\..\\.\\", "">>, <<"a\\..\\.\\.", "">>,
   <<"a\\..\\.\\.\\b", "b">>, <<"a\\..\\.\\.\\b\\", "b\\">>, <<"a\\..\\.\\.\\b\\.", "b\\">>,
   <<"a\\..\\.\\.\\b\\.\\", "b\\">>, <<"a\\..\\.\\.\\b\\.\\..", "">>,
   <<"a\\..\\.\\.\\b\\.\\..\\", "">>, <<"a\\..\\.\\.\\b\\.\\..\\.", "">>}

TooManyParentDirsTests ==
  {"..", "..\\", ".\\..\\", ".\\.\\..\\", "a\\..\\.\\.\\..",
   "a\\..\\.\\.\\b\\.\\..\\.\\.."}

LeadingParts == {<<>>, <<BackSlash>>}
-----------------------------------------------------------------------------
ASSUME CollapseRepeatsTestsPass ==
  \A t \in CollapseRepeatsTests : Sanitized(L(t[1])) = L(t[2])

ASSUME RemoveDotDirsTestsPass ==
  \A prefix \in LeadingParts :
    /\ \A t \in RemoveDotDirsTests :
         WithoutDotDirs(prefix \o L(t[1])) = prefix \o L(t[2])
    /\ \A s \in TooManyParentDirsTests : ~Walk(prefix \o L(s)).ok
=============================================================================
