-------------------------- MODULE RepositoryTests --------------------------
(***************************************************************************)
(* The tests of zigpaths.c, and what the operators of this project say of  *)
(* them: TLC evaluates the assumptions.  Rows that are commented out there *)
(* because a WCHAR has four bytes, and the table of full paths that is not *)
(* compiled, are checked as well.                                          *)
(***************************************************************************)
EXTENDS NtName

\* A string constant as the sequence of its characters.
L(str) == [i \in 1..Len(str) |-> SubSeq(str, i, i)]

\* The current directory that main() sets up.
TestCurDir == L("C:\\tmp\\")
-----------------------------------------------------------------------------
CollapseTests ==
  {<<".", "">>, <<"foo", "foo">>, <<"foo\\bar", "foo\\bar">>, <<"foo\\\\bar", "foo\\bar">>,
   <<"foo\\\\/bar", "foo\\bar">>, <<"foo/bar", "foo\\bar">>, <<"foo\\..", "">>,
   <<"foo\\\\..", "">>}

FullPathTests ==
  {<<"foo", "C:\\tmp\\foo">>, <<"foo\\.", "C:\\tmp\\foo">>, <<"foo\\..", "C:\\tmp">>}

NtNameTests ==
  {<<"foo", "\\??\\C:\\tmp\\foo">>, <<"foo*o", "\\??\\C:\\tmp\\foo*o">>,
   <<"foo\\.", "\\??\\C:\\tmp\\foo">>, <<"foo\\..", "\\??\\C:\\tmp">>}

TypeTests ==
  [UncAbsolute     |-> {"\\\\foo", "//foo", "\\/foo", "/\\foo", "\\\\", "//", "\\/", "/\\",
                        "\\\\.foo", "//.foo"},
   DriveAbsolute   |-> {"c:\\foo", "c:/foo", "c://foo", "c:\\", "c:/"},
   DriveRelative   |-> {"c:foo", "c:f\\oo", "c:foo/bar"},
   Rooted          |-> {"\\foo", "/foo", "\\", "/"},
   Relative        |-> {"foo", ""},
   LocalDevice     |-> {"\\\\.\\foo", "//./foo", "/\\./foo"},
   RootLocalDevice |-> {"\\\\.", "//."}]

\* Names of devices with the offset and length of the word, in characters.
DeviceTests ==
  {<<"c:\\nul:", 3, 3>>, <<"c:\\nul::", 3, 3>>, <<"c:\\nul::::::", 3, 3>>,
   <<"c:prn     ", 2, 3>>, <<"c:prn.......", 2, 3>>, <<"c:prn... ...", 2, 3>>,
   <<"c:NUL  ....  ", 2, 3>>, <<"c:nul. . . :", 2, 3>>, <<"c:nul . . :", 2, 3>>,
   <<"c:prn:aaa", 2, 3>>, <<"c:PRN:.txt", 2, 3>>, <<"c:aux:.txt...", 2, 3>>,
   <<"c:prn:.txt:", 2, 3>>, <<"c:nul:aaa", 2, 3>>, <<"con:", 0, 3>>, <<"lpt1:", 0, 4>>,
   <<"c:com5:", 2, 4>>, <<"CoM4:", 0, 4>>, <<"lpt9:", 0, 4>>, <<"c:\\nul", 3, 3>>,
   <<"\\\\.\\CON", 4, 3>>, <<"\\\\.\\con", 4, 3>>}

NoDeviceTests ==
  {"\\\\.\\CON2", "", "\\\\foo\\nul", "c:\\nul\\", "c:\\nul\\foo", "c: . . .", "c:",
   " . . . :", ":", "c:nul0", "c:\\lpt0.txt"}

\* A name, its full path and its file part.
FilePartTests ==
  {<<"c:/test", "c:\\test", "test">>, <<"c:/test     ", "c:\\test", "test">>,
   <<"c:/test.", "c:\\test", "test">>, <<"c:/test  ....   ..   ", "c:\\test", "test">>,
   <<"c:/test/  ....   ..   ", "c:\\test\\", "">>, <<"c:/test/..", "c:\\", "">>,
   <<"c:/test/.. ", "c:\\test\\", "">>, <<"c:/TEST", "c:\\TEST", "TEST">>,
   <<"c:/test/file", "c:\\test\\file", "file">>, <<"c:/test./file", "c:\\test\\file", "file">>,
   <<"c:/test.. /file", "c:\\test.. \\file", "file">>,
   <<"c:/test/././file", "c:\\test\\file", "file">>,
   <<"c:/test\\.\\.\\file", "c:\\test\\file", "file">>,
   <<"c:/test/\\.\\.\\file", "c:\\test\\file", "file">>,
   <<"c:/test\\\\.\\.\\file", "c:\\test\\file", "file">>,
   <<"c:/test\\test1\\..\\.\\file", "c:\\test\\file", "file">>,
   <<"c:///test\\.\\.\\file//", "c:\\test\\file\\", "">>,
   <<"c:///test\\..\\file\\..\\//", "c:\\", "">>,
   <<"c:/test../file", "c:\\test.\\file", "file">>, <<"c:\\test", "c:\\test", "test">>}
-----------------------------------------------------------------------------
ASSUME CollapseTestsPass ==
  \A t \in CollapseTests : Collapsed(L(t[1]), 0, FALSE) = L(t[2])

ASSUME FullPathTestsPass ==
  \A t \in FullPathTests : Stored(L(t[1]), TestCurDir) = L(t[2])

ASSUME NtNameTestsPass ==
  \A t \in NtNameTests : NtName(L(t[1]), TestCurDir) = L(t[2])

ASSUME TypeTestsPass ==
  /\ \A type \in DOMAIN TypeTests : \A s \in TypeTests[type] : TypeOfString(L(s)) = type
  /\ RtlDetermineDosPathNameType_U([i \in 0..5 |-> CharAt(<<"", ":", "f", "o", "o">>, i)])
       = "Relative"

ASSUME DeviceTestsPass ==
  /\ \A t \in DeviceTests :
       RtlIsDosDeviceName_Ustr(L(t[1])) = MAKELONG(t[3] * SizeofWCHAR, t[2] * SizeofWCHAR)
  /\ \A s \in NoDeviceTests : RtlIsDosDeviceName_Ustr(L(s)) = 0

ASSUME FilePartTestsPass ==
  \A t \in FilePartTests :
    \A full \in {Full(L(t[1]), TestCurDir)}, part \in {FilePart(L(t[1]), TestCurDir)} :
      /\ full = L(t[2])
      /\ L(t[3]) = IF part = 0 THEN <<>> ELSE SubSeq(full, part + 1, Len(full))
=============================================================================
