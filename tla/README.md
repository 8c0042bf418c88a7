# A TLA+ model of zigpaths

zigpaths ports ReactOS' conversion of DOS paths to NT paths to a plain C
program, with the beginnings of the same in Zig.  This directory holds a model
of both, the TLC runs that check it and the TLAPS proofs about it.

## 1. The system

One process calls the functions below; there are no threads in the repository.
What makes them hard is sequences: of cursors moving in one buffer, of
components, of calls that call each other again, of failures on the way out.

| Component | Code | State | Operations | Hard part |
|---|---|---|---|---|
| Path collapse | `path.c` `RtlpCollapsePath` | the caller's buffer, cursors `p`, `next`, `EndPath` | one call: squeeze separators, remove `.` and `..`, trim | in-place moves whose sizes rest on `EndPath`; `..` against the mark; termination |
| Path types, UNC prefix, devices | `path.c` 12-248, 417-437, `unicode.c`, `windows.h` | none | type of a path (two variants), `\\share\dir` prefix, device search | reads behind the terminator; lengths recomputed from counts; two words packed into one |
| Full path | `path.c` `RtlGetFullPathName_Ustr`, `_U`, `_UEx` | the current directory, the PEB lock | compose prefix and name, collapse, file part; answer a length or a size | which meaning an answer has; results that are passed in again |
| NT path, existence | `path.c` `RtlpDosPathNameToRelativeNtPathName_Ustr`, `RtlpCheckDeviceName`, `doesfileexists.c` | PEB lock, heap blocks, the call stack | NT name, quick path, device check, existence | mutual recursion; blocks handed over; every failure exit |
| Relative names | `RtlReleaseRelativeName`, `RtlpCurDirRef` | a reference count, a handle | take, release | names outlive a change of the directory |
| Environment | `env.c` | the environment block, a cursor | look up a variable | scan of a block of strings with 16-bit lengths |
| Unicode strings | `unicode.c` | case tables (never loaded) | equal, upcase, init | table look-ups, 16-bit lengths |
| Run-time stubs | `rtl.h`, `windows.h` | none | heap, memory, `NT_SUCCESS`, `MAKELONG` | signs and words |
| Zig port | `zigwinpath.zig` | a slice, two indices | replace slashes, collapse repeats, remove dot directories | reads and writes in one slice; write index backing up |
| Test driver | `zigpaths.c`, `go` | - | - | what it expects is checked of the model |

How they interact: an exported function initialises a counted string and calls
`RtlGetFullPathName_Ustr` (F) or the NT path function (N).  N takes the PEB
lock and calls F.  F asks the device search; for a device at an offset it calls
`RtlpCheckDeviceName` (C), which calls `RtlDoesFileExists_UstrEx` (E), which
calls N.  For a path, F takes the PEB lock, puts the current directory or a
drive in front and calls the collapse.

What makes each correct:

* collapse: it returns; no cursor leaves the buffer; `EndPath` is the length
  before each move; the marked part survives; the result is canonical and is
  what one gets by reading the path as a list of components;
* types and devices: both type functions agree; the search finds the device the
  name names and no other; the prefix is two names;
* full path: fixed points; no drive left by `..`, and no share by a name that does
  not climb above its directory; answers that can be acted on;
* NT path: lock released and blocks accounted for on every way out; recursion
  bounded; errors propagated; a resolved name, the same by the quick path;
* relative names: the count is the number of users, and the last one closes the
  handle (which nothing in this repository ensures: section 5);
* environment: only whole strings are read, only the caller's memory written,
  the first variable of the name is answered;
* Zig port: nothing unread is overwritten; no dot directory is left; what is
  left is the path without them.

F also looks up the directory of another drive in the environment, and finds
none: `RtlGetCurrentPeb()` is NULL.  The Zig port shares no code with the rest.

## 2. Modules

| Module | Models | Correspondence |
|---|---|---|
| `PathChars` | characters, C strings, buffers | a C string is the sequence in front of its terminator; a buffer is a function from C indices |
| `CollapsePath` | `RtlpCollapsePath` | one behaviour is one call; variables are the C locals; a step is an iteration of a loop that moves characters, and a loop that only moves a cursor is one step |
| `PathComponents` | the same function over a list of components | a reference for the first, and what callers are modelled on |
| `CollapseReference` | - | the property that the two agree |
| `DosPath` | type functions, `RtlpSkipUNCPrefix`, `RtlIsDosDeviceName_Ustr`, `MAKELONG`, equality | operators; offsets and lengths in bytes where the code has bytes |
| `DosPathNames` | - | every name put together from pieces, and the properties of `DosPath` |
| `FullPath` | `RtlGetFullPathName_Ustr` | composition, answer, file part, stored device, name checked |
| `FullPathNames` | - | every name in each current directory, and the properties of `FullPath` |
| `NtName` | the text of an NT name and its part name, and the same by the quick path | operators on the full path of `FullPath` |
| `NtNames` | - | the properties of `NtName`, on the names of `FullPathNames` |
| `CurDirRef` | `RtlReleaseRelativeName` and the reference N takes | one block per reference, one record per relative name of a caller; a release is one step, as there are no threads; what changes the directory is external |
| `EnvBlock` | `RtlQueryEnvironmentVariable_U` | one behaviour is one call; a step is an iteration over a string of the block |
| `EnvReference` | - | the strings of the block, and the answer they call for |
| `ZigWinPath` | `replaceElem`, `collapseRepeats`, `removeDotDirsSanitized` | one behaviour is one path through the three; a step is an iteration of a loop |
| `ZigReference` | the same over a list of components | its properties compare the two |
| `RepositoryTests`, `ZigTests` | the tables of `zigpaths.c` and `zigwinpath.zig` | assumptions about the operators, evaluated by TLC |
| `NtPathCall` | N, F, C and E | a stack of activation records; one action per stretch of code between two calls or returns, with its allocations, lock operations and early returns |
| `NtPathService` | - | what a call promises: the abstract specification `NtPathCall` implements |
| `ComponentLemmas` | - | lemmas about least and greatest indices, folds over sequences, and the operators of `PathComponents` |
| `PathLemmas` | - | lemmas about the operators of `DosPath` and `FullPath`, for every set of characters |
| `PathNamesProofs` | - | theorems about `DosPathNames`, `FullPathNames` and `NtNames` |
| other `...Proofs` | - | theorems about the module of that name, or the one with its properties (`EnvReference`, `ZigReference`) |
| `MC...` | - | values of the constants for TLC |

`FullPath` builds on `DosPath` and `PathComponents`; `NtName` and `NtPathCall` on
`FullPath`; `EnvBlock` on the comparison in `DosPath`.
That a caller may use `PathComponents!Collapsed` for the function is what
`AgreesWithComponents` says of `CollapsePath`, checked and proved.

`NtPathCall` knows a name by the class it falls into (`Blank`, `DosDevice`,
`PathName`, `TooLong`, `Uncut`, `OnOtherDrive`, `Quick`, `Unexpected`,
`IsCurDir`), and each class is computed from the characters of the name with
the operators of `FullPath`; none is postulated.  Every allocation may fail.
The assertion failures of the code end the process as `"aborted"`, the stack's
exhaustion as `"overflowed"`, and the use of variables that a failed conversion
never set as `"undefined"`.

Some choices that are properties of this build and not of Windows:
`sizeof(WCHAR)` is 4 (the constant `SizeofWCHAR`); the error statuses are
positive; the PEB lock does nothing, so the model counts how often it would be
held; `RtlGetCurrentPeb()` is NULL, so no environment variable is found;
`ZwQueryAttributesFile` answers `STATUS_NOT_IMPL`, a positive status, so every file
exists and the branch of `SucceedIfBusy` is not reached; `InterlockedDecrement`
returns no value, so `CurDirRef` branches on it either way.

## 3. Runs

| Run | Question | Answer |
|---|---|---|
| `collapse` | is `RtlpCollapsePath` right on every path of up to 5 characters behind its marked part? | yes: 8 properties |
| `collapse_share_glued` | does a separator stay behind `\\share\dir`? (`path.c:422`) | no: `\\s\d\..\a` gives `\\s\da` |
| `slash_con` | is the offset in the high word? (`path.c:114`) | no: `MAKELONG` swaps |
| `full_path_names` | types, devices, prefixes, fixed points, sizes, roots, file parts, buffers and NT names: right on every name of up to 4 pieces? | yes: 11 properties |
| `nt_path_call` | lock, blocks, recursion, promise, for a name of every class | yes: 6 properties |
| `con_loop` | does the stack suffice? (`zigpaths.c:449`) | no: `CON` |
| `check_buffer` | is the buffer large enough? (`path.c:259`) | no: a device without extension |
| `cur_dir_ref` | is the count right, however the decrement is read? | yes: 2 properties |
| `cur_dir_closed` | is the block closed that no one uses? (`doesfileexists.c:29`) | no: the decrement returns nothing |
| `env_block` | does the search stay in step with the strings, in the caller's memory, and answer right? | yes: 5 properties |
| `zig_win_path` | is the Zig port right on every path of up to 8 characters? | yes: 5 properties |
| `zig_glued` | are its components removed, and only that? (`zigwinpath.zig:52`) | no: `a\a\..\a` gives `aa` |

What the properties of the passing runs say beyond their names:

* `AgreesWithComponents` ties the cursors to a second, independent reading of
  the function.  The reference states the function's two oddities openly: a
  directory name loses one dot, and the last component does not.
* `DeviceFound` compares the backward search with a declarative statement of
  where a device word may stand, so it checks that no device is missed either.
* `FullPathIsFixedPoint` leaves out two results that are not final: one with a
  component that still ends in a dot, and `\\?` (section 5).
* `ComposedInBuffer`, `ExpectedType` and `NtNameResolved` state each assertion or
  comment of the code together with the names it does not hold of (section 5).
* `QuickPathAgrees` makes the NT name of a full path, gives it back as a
  `\\?\` name, and compares both names and both searches for the part name.
* `FirstMatchAnswered` compares the scan with the strings of the block read
  independently, including what is copied when the memory is one character
  short of the terminator; `CopyFits` holds also where lengths wrap.
* `ShallowAgrees` and `NoDotDirLeft` divide what the Zig function promises: the
  result is the one of the reference until a `..` leaves a nested directory
  (`zig_glued` shows what happens then), and no dot directory is left in any case.
* `RootKept` holds of every name on a drive.  On a share it compares up to the
  separator behind `\\share\dir`, so that `\\s\dx` is not in `\\s\d`, and for that it
  leaves out names that climb above the directory on their way
  (`collapse_share_glued`, section 5).
* `FilePartInDirectory` reads a full path back as its caller does: a directory
  and a name in it.  It has the start of the file part; any lower bound (`path.c:766`)
  would satisfy it.
* `AssertHolds` is about the moves of the cursors and takes the mark to be inside
  the path (`CallsAssumption`).  `ComposedInBuffer` says of which names it is, and
  section 5 of which it is not.
* `LockCounted` and `KeepsPromise` cover every return of N but the one at
  `path.c:1087-1091`, which `CallersAgree` excludes (section 5).
* `AskedSizeIsEnough` quantifies over the sizes of buffer 0 and those next to the length
  of the path and to the size it needs: the boundaries at which an answer could
  be read both as a length and as a size.
* `KeepsPromise` is a refinement: seen between two outermost calls, the lock is
  free, the caller has a block exactly when an NT path was asked for and the
  status says success, and no other block stays behind.
* `EveryCallAnswered` is the promise's liveness: every call returns, or the
  process ends.  A process that ends because its stack is exhausted has ended, so
  this says nothing of a runaway recursion; `con_loop` does.
* `CountIsUsers` leaves out the blocks that a decrement read as zero has closed
  under somebody; the history variable `dangling` has them.

### Bounds

* `collapse`: `MaxRest` = 5 characters of `a`, `.`, space and backslash behind
  the marked part, `MaxSlashRest` = 3 when slashes take part; marks: none, `C:\`,
  `\\.\`, `\\s\d`, `\\s\d.`.  Five characters hold `..` behind a name and a
  separator, a name ending in dots, and `..\..`; the proofs remove the bound
  from all but termination.
* `full_path_names`: names of `MaxPieces` pieces, a piece being a character, a
  device, `..` or two backslashes.  Every type of path, every terminator
  of a device word and every pair of components occurs with four; the device is
  one with a digit, and `RepositoryTests` has those without.  (`slash_con`: five
  pieces, which `\\.\CON` takes.)  The proofs remove the bound.  Current
  directories: a root, a directory, a directory in a share, and a share's
  directory whose name ends in a dot.
* `cur_dir_ref`: three relative names and four blocks, so that each name may have
  one and the process another.  Names are interchangeable, and so are blocks
  (`MCSymmetry`).
* `env_block`: blocks of two strings of three characters, three of two, and one
  of six, of `a`, `A` and `=`; `WordSize` is 16 instead of 65536, which four
  characters reach, so lengths wrap; memory for none, one, two and a half, and
  three characters.
* `zig_win_path`: paths of eight characters of `a`, `.` and backslash, of five
  with slashes, and of eight pieces when a piece may be `..`: the assertion of
  `zigwinpath.zig:80` fails of seven.
* `nt_path_call`: one name per way through the functions, and every name a
  check derives from one.  `MAX_PATH` is 12 instead of 260, so that a name of
  nine characters is too long; `MaxStack` is 12 (40 in `con_loop`), past the
  seven calls an ending recursion takes and the start of a second circle.
  Statuses are the values of `windows.h` that the code can return here.

### Fairness

`CollapsePath`, `EnvBlock` and `ZigWinPath` assume that a call that can take a
step takes one (`WF_vars(Next)`): the functions run on one thread and wait for
nothing.  `CurDirRef` has no fairness: nobody need give a reference back.
`NtPathCall` assumes the same of `Step`, the steps of a call in progress, and
nothing of the caller, who need never call nor free.  Its `Fairness` spells out
`WF_vars(Step)` with `Active` for `ENABLED <<Step>>_vars`, because TLC takes
exponential time to evaluate ENABLED through the folds of `PathComponents`; an
`Active` state without a step would be reported as a deadlock, and none is.

Deadlock is checked in all runs but `full_path_names` and `slash_con`, which end
at their longest names.

## 4. Proofs

All theorems hold for every value of the constants that satisfies the named
assumptions of the modules: alphabets, sets of names, blocks, buffer sizes and
stack depths of any size.

* `CollapsePathProofs`: `TypeCorrect`, `LengthTracked`, `AssertionHolds`,
  `ResultCanonical`, `MarkedPartSurvives`, `ScanTerminates` and
  `ComputesComponents`, for every alphabet,
  path and mark inside the path (`CallsAssumption`; section 5 has the caller that
  breaks it).  None of them is inductive.  The invariant `IInv`
  adds what the loops keep: while separators are squeezed, `next` is at most `p`
  and what is in front of it is squeezed already; in the scan, `EndPath` is the
  index of the first terminator, `p` is between the mark and `EndPath`, at the
  start of a component or at the end, what is in front of the mark is as
  converted, and no separator behind it is doubled, which a removal keeps
  because it starts behind a separator or at the mark.
  `ComputesComponents` says that the result is what `PathComponents` computes
  from the components of the path, and needs `Agreement` besides.  While
  separators are squeezed, what was read and what was kept of it are the same
  names with the same flags (`Matching`), and the rest is as converted.  In the
  scan, what is between the mark and `p` spells the directories of a stack that
  is the list of the components read so far, `.` and `..` carried out, and the
  components behind `p`, entered into that stack, leave the components of the
  whole path (`Scans`).  `..` pops the stack where the code searches backwards
  for a separator (`ParentIs`), a removal joins what is in front of it to what is
  behind (`JoinCut`), and the three loops at the end stop where `Trimmed` cuts
  (`StopsAtTrimmed`).
* `PathNamesProofs`, about a function's result for a name and not about steps.
  * `TypesAlwaysAgree`, by cases on the first four characters: each answer of the
    uncounted variant is given before it looks behind the terminator.
  * `PrefixAlwaysShareAndDir` and `DeviceAlwaysFound`: a backward search in C is
    an operator that chooses a least or a greatest index; `PathLemmas` states of
    each what is at the index and on both sides of it (`CharsLeftIs`,
    `WordEndIs`, `NameStartIs`, ...).  A device named anywhere by the declarative
    statement is then the one the search stops at, and the other way round.
  * `AskedSizeAlwaysEnough`: the size a call asks for suffices for the next call,
    whatever the first size was.  The collapsed path must be no longer than the
    one put together, which `CollapsedIs` proves.
  * `AlwaysComposedInBuffer`: the mark is inside the path put together, and the
    path with its terminator fits the size asked for, by cases on the seven types.
  * `AlwaysExpectedType`: what the type of a full path is read from is marked, with
    a separator behind it, so that neither `..` nor the trim reaches it
    (`FullStays`): the drive's or the device's own, the one behind the share of the
    name (`ShareIs`), or that of the current directory (`CurDirFirst`).  A name that
    is nothing but a share has no such separator, and is left as it is because it
    ends in neither a dot nor a space (`WholeShareTyped`).
  * `RootAlwaysKept`: behind a collapse the marked part is there, and only dots and
    spaces at its end are missing (`FullFromMark`).  On a drive the mark is `C:\`,
    which ends in neither (`FullOnDrive`).  On a share the mark stands in front of
    the separator behind `\\share\dir` (`ShareMarked`, `SeparatorBehind`), so what
    the path is split into there starts with an empty name, the root of the
    directories entered behind it.  As long as no more `..` have been read than
    names (`Climbs` counts both), that empty name is at the bottom of the stack
    (`StackOf`, `RootStays`), and the separator with it (`FullOnShare`); if nothing
    stays behind the mark, the path is the directory with its end trimmed.
  * `FullPathAlwaysFixedPoint`: a path is collapsed already when it is `Steady`: no
    slash, no two separators in a row behind the mark and no dot at the end of a
    component there, nothing to trim at its end (`CollapsedSame`).  A full path is
    (`CollapsedSingle`, `CollapsedClean`, `FullClean`), behind the mark of
    the second call, which is no earlier than that of the first (`MarkGrows`,
    from `PrefixGrows` about a `\\share\dir` read again after the collapse); and the
    second call puts together the path itself (`ComposedAgain`).
  * `FilePartAlwaysInDirectory`: the directory in front of the file part is marked as
    the full path is (`DirectoryMarked`), the two are put together to the full
    path (`FileComposed`), and that is `Steady`.
  * `QuickPathAlwaysAgrees`, by the root the full path has (`RootIs`: a drive, the device
    root or a share): the root says which prefix an NT name has, what is behind it
    is copied, and so the last separator from the one end is the first from the
    other (`QuickPartIs`, `NtPartIs`).
  * `NtNameAlwaysResolved`: a collapse leaves no `.`, `..` or empty name behind the mark
    (`CollapsedDotless`, `CollapsedSingle`) when there are no three dots there, and
    behind each of the roots the NT name is what the full path is.  The part of a
    current directory's share that is marked is as it was, hence `ShareResolved`.
  * Each holds of the names that its property is about: section 5 has the others.
  * The last six need of a current directory that it is absolute, ends in a
    backslash and, in a share, has a directory (`CurDirAssumption`): what Windows
    takes for one.
* `NtPathCallProofs`, for every set of C strings as names, current directory,
  buffer size and depth, assuming `CallersAgree`: who asks for a relative name
  takes the reference with it, as every call in the repository does (section 5
  has the other case).
  * `LockIsCounted`, `HeapIsCounted`, `RecursionAlwaysEnds`.  The
    counts are sums over the stack, so the proof counts a stack with one call more
    or less (`CountAppend`, `Returned`, `Called`).  They need `Linked`: each call
    was made by the one below it, for the right name, so that a block N hands out
    is E's exactly when N is not outermost.  `Linked` also gives the bound of
    seven: in a deeper stack there are two checks, and the second is of the name
    the first one asks for.
  * `ImplementsService`: every step is a step of `NtPathService` or stutters there
    (`KeepsPromise`, the refinement).  A step that leaves a call on the stack is
    not seen (`SeenInside`); one that empties the stack is seen as the answer
    (`SeenReturn`), and the counts say that the lock is free and who has the block
    at that moment; one that ends the process is seen as that (`SeenEnd`).
  * `TypeCorrect`: no register holds anything but a natural number.  F's answer is
    the length of a collapsed path, so this rests on `CollapsedIs` too, with
    `Bounded` as the part of the invariant for the depth of the stack.
* `ZigWinPathProofs`: `TypeCorrect`, `NothingOverwritten`, `NoDotDirEverLeft` and
  `ShallowAlwaysAgrees`.  The first two need that the write index is at most the read index, and strictly
  behind it once a component is removed, which is why a name may be copied down
  in place.  For the third, `DotInv` says of what is written so far that no
  component of it that a separator ends is `.` or `..`, that the last one is none
  when the function stands between components, and that while a name is copied
  the dots written last are the start of a name that goes on.  For the fourth,
  `AgreeInv` follows the reference along the path: while repeats are dropped, what
  is written is `Sanitized` of what was read (`SqueezeInv`); then what is read is
  the rest of the sanitized path (`GivenRest`), and what is written is the
  directories the path has entered so far, one behind the other, and the
  characters of the name that has begun, unless a `..` has left a nested
  directory (`WalkInv`, `Follows`).  With at most one directory in front of it, a
  `..` backs up to the start; with none, nothing is written, and the error the
  function returns is the reference's for the whole path (`BeforeAll`).
* `EnvBlockProofs`: `TypeCorrect`, `StringsInStep`, `CopyAlwaysFits` and
  `FirstMatchAlwaysAnswered`, for every block whose last string, and no other, is
  empty (`BlocksAssumption`; it is how an environment block ends).  A string's
  end is never the last index, so the cursor stays in the block one behind it.
  That the first match is answered needs that no string in front of the cursor is
  a variable of the name, and that in a `Countable` block the 16-bit lengths of an
  iteration are those of its name and its value (`NameAndValue`).
* `CurDirRefProofs`: `CountsAreRight` and `TypeCorrect`, for any finite set of
  relative names, any set of blocks and either reading of each decrement.  They
  are inductive with `ClosedUnused`: a block that is not open has no users, unless
  it was closed under one.  So a block that becomes the current directory's
  starts with a count of one.

### Folds and indices

`PathComponents` splits and joins with `FoldLeft`, whose definition chooses a
recursive function; the library has no theorem about it.  `ComponentLemmas`
shows that the recursive function exists when the fold's step is a function
from `V \X E` to `V` (`RunExists`: runs of length n, put together), and from it what
`FoldLeft` gives for the empty sequence and for one element more.  Induction is
over concrete sets: a set of naturals that contains 0 and each next number is
`Nat` (`AllNaturals`, from `WFMin` of the library, which has no operator
parameter), and likewise for sequences (`AllSequences`).  On that rest

* `JoinSplit`: the components of a path, joined, are the path;
* `CollapsedCut`: the collapse of a path is a path that starts with the marked part, cut
  behind its last character that is neither dot nor space;
* `CollapsedIs`: it is a path, no longer than the one collapsed, and keeps the
  marked part up to its last separator;
* `PiecesIs`: each component of a path stands in it behind a separator or at its
  start, and in front of one or at its end; `DotsAreFound`, `DotlessNames`: so
  what is said of the components can be said of characters, and back;
* `CollapsedSingle`, `CollapsedDotless`, `CollapsedSame`: which components a
  collapsed path has, and which paths a collapse leaves as they are;
* `FullIs`: so is the full path, of any name of any type.

`ZigWinPathProofs` treats the folds of `ZigReference` in the same way (`SqueezedIs`,
`WayIs`), and `FlattenSeq`, a recursive function on the sequence's indices of which
there is exactly one (`FlattensAll`, `FlattensOnce`, `FlattenIs`).

### Checked by TLC only

* Liveness: `Returns`, `Ended` (both) and `EveryCallAnswered`.  Fairness and ENABLED
  are out of the prover's reach; `ScanTerminates` has the part of `Returns` that
  is a step's.

## 5. What holds with a condition, and what is not modelled

* A caller of the exported N that passes `HaveRelative` FALSE with a
  `RelativeName` while the current directory is open, and names that directory,
  gets the PEB lock with the answer (`path.c:1087-1091`): `ReturnsLocked`.  The
  runs and theorems of `NtPathCall` assume `CallersAgree`, which excludes it.
* A device check that runs out of memory does not stop F, because
  `STATUS_NO_MEMORY` is positive and `NT_SUCCESS` tests the sign
  (`path.c:524`); `FullPathChecked` does the same.  For the same reason E goes
  on when N fails (`doesfileexists.c:55`): `ExistsUnbuilt`, `"undefined"`.
  `HeapCounted` does not see this, as the process ends there.
* For a relative name in a directory of a share, the file part is looked for
  behind character 3 and not behind the share (`path.c:766`), against the comment
  at `path.c:764`: `..` in `\\s\d\e\` has the file part `d`.  It still means the same
  file in its directory, which is what `FilePartInDirectory` says.  For such a name the part
  name may be the share's directory too, which `QuickPathAgrees` allows.
* A `..` that leaves the directory of a share takes the separator behind it, and the
  next name is glued on: `\..\x` in `\\s\d\e\` gives `\\s\dx` (`path.c:350-358`),
  another directory.  `collapse_share_glued` has it of the collapse; `RootKept` is
  about names that are not `Climbs`.
* `\\a` and two spaces (`path.c:573`): `RtlpSkipUNCPrefix` counts the trailing
  spaces that the copy leaves out, the mark is behind the terminator, and
  `ASSERT(EndBuffer >= p)` (`path.c:408`) fails.  And behind any trailing space
  the size asked for has no room for a terminator (`path.c:729`, `740`): one
  character behind the name is copied for it, which is the space.
  `ComposedInBuffer` is about names that end otherwise; the action
  `FullPathAssertion` of `NtPathCall` has the failing call.
* `\\?.` (`path.c:1000`, "Nothing else is expected"): a UNC path whose trailing
  dot is trimmed to `\\?`, which has no NT name.  `ExpectedType` is about names
  that do not end in a dot or space; `NtPathUnexpected` has the failing call.
* `...\` (`path.c:296`, "Gets rid of . and .. components"): the component loses one
  dot after `..` was looked for, and stays as `..`.  `NtNameResolved` leaves out
  names and current directories with three dots.
* The `\\share\dir` of a name or of the current directory is copied as it is
  (`path.c:417-437` says where it ends): `\\.a\..\b` keeps its `..`.  `NtNameResolved` is about other names, and
  about current directories whose share and directory are resolved
  (`ShareResolved`).
* `..` in the current directory `\\s\d.\` gives `\\s\d`, because the trim at the end of
  the collapse (`path.c:401`) also takes the dots and spaces that the name of a
  share's directory ends in.  `RootKept` is about the root without them.
* The string lengths of `env.c` wrap at 16 bits (`env.c:52`, `59`): a value too
  long to count is taken for a shorter one.  `FirstMatchAnswered` is about
  `Countable` blocks, `CopyFits` about all.
* `a\b\..\..` fails `std.debug.assert(write_idx >= 2)` (`zigwinpath.zig:80`): `..`
  leaves `a` without its separator.  `AssertFails`, `"abort"`; `ShallowAgrees`.
* `RtlReleaseRelativeName` branches on the value of `InterlockedDecrement`, and the
  one in `windows.h:162-166` returns none, so the branch is undefined.  `CurDirRef`
  takes both: the last user may leave the block open (`cur_dir_closed`), and an
  earlier one may close it under the others (`dangling`).  With gcc, what `src/go`
  builds never closes it, and with `-O2` every release does.  In this build
  nothing assigns `RtlpCurDirRef`, so that the branch is not reached; a caller and
  what changes the directory are external.
* `\\?\` alone does not take the quick path (`path.c:910`, `HasNtRootSlash`);
  `QuickPathAgrees` is about longer names.

Not modelled:

* The text of relative names.  N compares the whole path with the current
  directory, with its trailing backslash (`path.c:1073`, "File is in current
  directory"), so only the directory itself has one, and it is empty.
* Names of 65532 bytes and more, and the wrap of their 16-bit maximum length.
* Characters above `z`: `unicode.c` looks them up through a NULL table.
* The branches of F behind an environment variable that is found (`path.c:611-668`):
  this build has no environment to look in (`RtlGetCurrentPeb()` is NULL).
  `EnvBlock` has blocks because the function is exported to callers that pass one.
* `toNtPath` of the Zig port calls `collapseElem`, which does not exist.
* The rest of the test driver: its disabled tests call functions of Windows.

## 6. Plan

1. Done: the modules of section 2, and the theorems of section 4.
2. `CurDirRef` composed with `NtPathCall`, so that the holder is the existence
   check and the PEB lock guards the taking of the reference.
