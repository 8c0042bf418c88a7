------------------------------ MODULE NtPathCall ------------------------------
(***************************************************************************)
(* The four functions that call each other in a circle, one step per       *)
(* stretch of code between two calls:                                      *)
(*                                                                         *)
(*   N  RtlpDosPathNameToRelativeNtPathName_Ustr  calls F                  *)
(*   F  RtlGetFullPathName_Ustr                   calls C for a device     *)
(*   C  RtlpCheckDeviceName                       calls E                  *)
(*   E  RtlDoesFileExists_UstrEx                  calls N                  *)
(*                                                                         *)
(* with the heap blocks and the PEB lock they take and give back, and an   *)
(* allocation that may fail at each place there is one.                    *)
(***************************************************************************)
EXTENDS FullPath

CONSTANTS
  Name,          \* the names that callers ask about, and C after them
  CurDir,        \* the current directory, with its trailing backslash
  CurDirHandle,  \* whether that directory has been opened
  CallFlags,     \* what callers of N ask for, subsets of NtFlags
  MAX_PATH,      \* 260 in windows.h
  MaxStack       \* the calls that fit on the stack

NtFlags == {"HaveRelative", "RelativeName"}
Flags   == NtFlags \cup {"InvalidName"}

IsDosDevice(s) == RtlIsDosDeviceName_Ustr(s) # 0

\* A name is a C string.
Text == Seq(STRING \ {UNICODE_NULL})

ASSUME NameAssumption ==
  \A s \in Name : s \in Text /\ (IsDosDevice(s) => CheckedName(s) \in Name)
ASSUME CurDirAssumption ==
  /\ CurDir \in Text /\ Len(CurDir) >= 3
  /\ TypeOfString(CurDir) \in {"DriveAbsolute", "UncAbsolute"}
ASSUME CallFlagsAssumption == CallFlags \subseteq SUBSET NtFlags
ASSUME CurDirHandleAssumption == CurDirHandle \in BOOLEAN
ASSUME BoundsAssumption == MAX_PATH \in Nat /\ MaxStack \in Nat \ {0}

VARIABLES
  stack,    \* the active calls, the innermost last
  ret,      \* what the last call to return returned, and its *InvalidName
  lock,     \* how often the PEB lock is held
  heap,     \* how many blocks are allocated
  owned,    \* how many of them the outermost caller was given
  process   \* "running", or how it ended

vars == <<stack, ret, lock, heap, owned, process>>

Entry  == {"N", "F", "C", "E"}
Label  == Entry \cup {"N-full", "F-locked", "F-checked", "C-exists", "E-nt"}

STATUS_SUCCESS             == 0
STATUS_OBJECT_NAME_INVALID == 1
STATUS_NO_MEMORY           == 2
STATUS_SHARING_VIOLATION   == 5
STATUS_ACCESS_DENIED       == 6
STATUS_NOT_IMPL            == 8

\* The sign Windows gives its errors, which those of windows.h do not have.
NT_SUCCESS(status) == status >= 0

(***************************************************************************)
(* The kinds of names there are for F, and what it returns and stores for  *)
(* them in a buffer of MAX_PATH characters, which all calls pass.          *)
(***************************************************************************)
MaxBytes == MAX_PATH * SizeofWCHAR

Blank     == {s \in Name : CharsKept(s) = 0}
DosDevice == {s \in Name \ Blank : IsDosDevice(s)}
PathName  == Name \ (Blank \cup DosDevice)
TooLong   == {s \in PathName : Needed(s, CurDir) > MaxBytes}
Uncut     == {s \in PathName \ TooLong : ~CutInside(s, CurDir)}

OnOtherDrive ==
  {s \in PathName : TypeOfString(s) = "DriveRelative" /\ ~OnCurrentDrive(s, CurDir)}

Answer ==
  [s \in Name \ Uncut |-> RtlGetFullPathName_Ustr(s, MaxBytes, CurDir)]

Checkable == {s \in DosDevice : HIWORD(RtlIsDosDeviceName_Ustr(s)) # 0}

\* The name itself, with nothing cut off.
ChecksWhole == [s \in DosDevice |-> s]

Checks == [s \in DosDevice |-> CheckedName(s)]

Storable == Name \ (Blank \cup TooLong \cup Uncut)

Quick      == {s \in Name : HasNtRootSlash(s)}
Unexpected == {s \in Storable : ~HasNtName(Stored(s, CurDir))}

IsCurDir ==
  {s \in PathName \cap Storable :
     /\ TypeOfString(s) = "Relative"
     /\ RtlEqualUnicodeString(Stored(s, CurDir), CurDir)}

Frame(at, name, flags) == [at |-> at, name |-> name, flags |-> flags]

Init ==
  /\ stack = <<>>
  /\ ret = [value |-> 0, invalid |-> FALSE]
  /\ lock = 0 /\ heap = 0 /\ owned = 0
  /\ process = "running"
-----------------------------------------------------------------------------
top    == stack[Len(stack)]
below  == SubSeq(stack, 1, Len(stack) - 1)
called == top.name

At(label) == process = "running" /\ stack # <<>> /\ top.at = label

Entered(label) == At(label) /\ Len(stack) < MaxStack

Call(next, frame) ==
  /\ stack' = Append(Append(below, [top EXCEPT !.at = next]), frame)
  /\ UNCHANGED <<ret, owned, process>>

Return(value, invalid) ==
  /\ stack' = below
  /\ ret' = [value |-> value, invalid |-> invalid]
  /\ UNCHANGED process

\* The block counted as the outermost caller's although E is between them.
ReturnPathToAll ==
  /\ Return(STATUS_SUCCESS, FALSE)
  /\ owned' = owned + 1

\* The block N puts the path in goes to its caller: to E, or out.
ReturnPath ==
  /\ Return(STATUS_SUCCESS, FALSE)
  /\ owned' = IF Len(stack) = 1 THEN owned + 1 ELSE owned

End(how) == process' = how /\ UNCHANGED <<stack, ret, lock, heap, owned>>
-----------------------------------------------------------------------------
(***************************************************************************)
(* The caller: one call at a time, and what it was given it frees.         *)
(***************************************************************************)
Idle == process = "running" /\ stack = <<>> /\ owned = 0

Start(frame) == Idle /\ stack' = <<frame>> /\ UNCHANGED <<ret, lock, heap, owned, process>>

AskNtPath   == \E s \in Name, f \in CallFlags : Start(Frame("N", s, f))
AskFullPath == \E s \in Name : Start(Frame("F", s, {}))
AskExists   == \E s \in Name : Start(Frame("E", s, {}))

FreePath ==
  /\ process = "running" /\ owned > 0
  /\ heap' = heap - 1 /\ owned' = owned - 1
  /\ UNCHANGED <<stack, ret, lock, process>>
-----------------------------------------------------------------------------
(***************************************************************************)
(* N.  A name with the prefix \\?\ takes the quick path.                   *)
(***************************************************************************)
QuickPathBuilt ==
  /\ Entered("N") /\ called \in Quick
  /\ heap' = heap + 1
  /\ ReturnPath
  /\ UNCHANGED lock

QuickPathNoMemory ==
  /\ Entered("N") /\ called \in Quick
  /\ Return(STATUS_NO_MEMORY, FALSE)
  /\ UNCHANGED <<lock, heap, owned>>

NtPathNoMemory ==
  /\ Entered("N") /\ called \notin Quick
  /\ Return(STATUS_NO_MEMORY, FALSE)
  /\ UNCHANGED <<lock, heap, owned>>

NtPathFull ==
  /\ Entered("N") /\ called \notin Quick
  /\ heap' = heap + 1
  /\ lock' = lock + 1
  /\ Call("N-full", Frame("F", called, {"InvalidName"}))

Rejected == ret.invalid \/ ret.value = 0 \/ ret.value > MaxBytes

NtPathRejectedLocked ==
  /\ At("N-full") /\ Rejected
  /\ heap' = heap - 1
  /\ Return(STATUS_OBJECT_NAME_INVALID, FALSE)
  /\ UNCHANGED <<lock, owned>>

NtPathRejected ==
  /\ At("N-full") /\ Rejected
  /\ heap' = heap - 1
  /\ lock' = lock - 1
  /\ Return(STATUS_OBJECT_NAME_INVALID, FALSE)
  /\ UNCHANGED owned

NtPathUnexpected ==
  /\ At("N-full") /\ ~Rejected
  /\ called \in Unexpected
  /\ End("aborted")

(***************************************************************************)
(* The path is the current directory and its handle is to be given without *)
(* a reference: the function returns before it reaches the release.        *)
(***************************************************************************)
ReturnsLocked ==
  /\ CurDirHandle
  /\ "RelativeName" \in top.flags /\ "HaveRelative" \notin top.flags
  /\ called \in IsCurDir

NtPathBuilt ==
  /\ At("N-full") /\ ~Rejected
  /\ called \notin Unexpected
  /\ lock' = IF ReturnsLocked THEN lock ELSE lock - 1
  /\ ReturnPath
  /\ UNCHANGED heap
-----------------------------------------------------------------------------
(***************************************************************************)
(* F.  A device is checked when the caller wants to know of a bad name.    *)
(***************************************************************************)
FullPathOfNothing ==
  /\ Entered("F") /\ called \in Blank
  /\ Return(0, FALSE)
  /\ UNCHANGED <<lock, heap, owned>>

WantsCheck == "InvalidName" \in top.flags /\ called \in Checkable

FullPathOfDevice ==
  /\ Entered("F") /\ called \in DosDevice
  /\ ~WantsCheck
  /\ Return(Answer[called], FALSE)
  /\ UNCHANGED <<lock, heap, owned>>

FullPathCheck ==
  /\ Entered("F") /\ called \in DosDevice
  /\ WantsCheck
  /\ Call("F-checked", Frame("C", called, {}))
  /\ UNCHANGED <<lock, heap>>

\* The name is looked at again from the start, and so is the device in it.
FullPathCheckedAgain ==
  /\ At("F-checked")
  /\ stack' = Append(below, [top EXCEPT !.at = "F"])
  /\ UNCHANGED <<ret, lock, heap, owned, process>>

FullPathChecked ==
  /\ At("F-checked")
  /\ Return(IF ~NT_SUCCESS(ret.value) \/ ret.invalid THEN 0
            ELSE Answer[called],
            ret.invalid)
  /\ UNCHANGED <<lock, heap, owned>>

FullPathLock ==
  /\ Entered("F") /\ called \in PathName
  /\ lock' = lock + 1
  /\ stack' = Append(below, [top EXCEPT !.at = "F-locked"])
  /\ UNCHANGED <<ret, heap, owned, process>>

\* The block for the directory of another drive is freed on every way out.
FullPathNoMemory ==
  /\ At("F-locked")
  /\ called \in OnOtherDrive
  /\ lock' = lock - 1
  /\ Return(0, FALSE)
  /\ UNCHANGED <<heap, owned>>

FullPathAssertion == At("F-locked") /\ called \in Uncut /\ End("aborted")

FullPathReturned ==
  /\ At("F-locked") /\ called \notin Uncut
  /\ lock' = lock - 1
  /\ Return(Answer[called], FALSE)
  /\ UNCHANGED <<heap, owned>>
-----------------------------------------------------------------------------
(***************************************************************************)
(* C.  RtlFreeHeap returns TRUE, and that is the status.                   *)
(***************************************************************************)
CheckNoMemory ==
  /\ Entered("C")
  /\ Return(STATUS_NO_MEMORY, FALSE)
  /\ UNCHANGED <<lock, heap, owned>>

CheckExists ==
  /\ Entered("C")
  /\ heap' = heap + 1
  /\ Call("C-exists", Frame("E", Checks[called], {}))
  /\ UNCHANGED lock

CheckedUnfreed ==
  /\ At("C-exists")
  /\ Return(1, ret.value = 0)
  /\ UNCHANGED <<lock, heap, owned>>

Checked ==
  /\ At("C-exists")
  /\ heap' = heap - 1
  /\ Return(1, ret.value = 0)
  /\ UNCHANGED <<lock, owned>>
-----------------------------------------------------------------------------
(***************************************************************************)
(* E.                                                                      *)
(***************************************************************************)
ZwQueryAttributesFile == STATUS_NOT_IMPL

\* What every caller in the repository passes.
SucceedIfBusy == TRUE

\* STATUS_NOT_IMPL is 8, and that counts as success: every file exists.
FileExists ==
  \/ NT_SUCCESS(ZwQueryAttributesFile)
  \/ /\ ZwQueryAttributesFile \in {STATUS_SHARING_VIOLATION, STATUS_ACCESS_DENIED}
     /\ SucceedIfBusy

ExistsNtPath ==
  /\ Entered("E")
  /\ Call("E-nt", Frame("N", called, NtFlags))
  /\ UNCHANGED <<lock, heap>>

ExistsAnsweredUnfreed ==
  /\ At("E-nt") /\ ret.value = STATUS_SUCCESS
  /\ Return(IF FileExists THEN 1 ELSE 0, FALSE)
  /\ UNCHANGED <<lock, heap, owned>>

ExistsAnswered ==
  /\ At("E-nt") /\ ret.value = STATUS_SUCCESS
  /\ heap' = heap - 1
  /\ Return(IF FileExists THEN 1 ELSE 0, FALSE)
  /\ UNCHANGED <<lock, owned>>

(***************************************************************************)
(* N has failed and left NtPathName and RelativeName as they were, without *)
(* a value: they are used all the same when the status counts as success.  *)
(***************************************************************************)
ExistsUnbuilt ==
  /\ At("E-nt") /\ ret.value # STATUS_SUCCESS
  /\ IF NT_SUCCESS(ret.value) THEN End("undefined")
     ELSE Return(0, FALSE) /\ UNCHANGED <<lock, heap, owned>>
-----------------------------------------------------------------------------
StackExhausted ==
  /\ process = "running" /\ Len(stack) = MaxStack /\ top.at \in Entry
  /\ End("overflowed")

NtPath   == \/ QuickPathBuilt \/ QuickPathNoMemory \/ NtPathNoMemory \/ NtPathFull
            \/ NtPathRejected \/ NtPathUnexpected \/ NtPathBuilt
FullPathSteps == \/ FullPathOfNothing \/ FullPathOfDevice \/ FullPathCheck
                 \/ FullPathChecked \/ FullPathLock \/ FullPathNoMemory
                 \/ FullPathAssertion \/ FullPathReturned
Check    == CheckNoMemory \/ CheckExists \/ Checked
Exists   == ExistsNtPath \/ ExistsAnswered \/ ExistsUnbuilt

Step   == NtPath \/ FullPathSteps \/ Check \/ Exists \/ StackExhausted
Caller == AskNtPath \/ AskFullPath \/ AskExists \/ FreePath

\* What is left when the process has ended; a running one can always go on.
Ended == process # "running" /\ UNCHANGED vars

Next == Step \/ Caller \/ Ended

(***************************************************************************)
(* A call that has been made runs on; no one has to make one.  This is     *)
(* WF_vars(Step) with ENABLED <<Step>>_vars written as Active, which is    *)
(* the same: Ended and Caller need a process that has ended or an empty    *)
(* stack, so TLC would report an Active state without a Step as deadlock.  *)
(***************************************************************************)
Active   == process = "running" /\ stack # <<>>
Fairness == []<>(~Active) \/ []<><<Step>>_vars

Spec == Init /\ [][Next]_vars /\ Fairness
-----------------------------------------------------------------------------
TypeOK ==
  /\ stack \in Seq([at : Label, name : Name, flags : SUBSET Flags])
  /\ Len(stack) <= MaxStack
  /\ ret.value \in Nat /\ ret.invalid \in BOOLEAN
  /\ lock \in Nat /\ heap \in Nat /\ owned \in 0..1
  /\ process \in {"running", "aborted", "undefined", "overflowed"}

\* The calls in a stack that are at one of the labels.
Count(calls, labels) == Cardinality({i \in DOMAIN calls : calls[i].at \in labels})

\* Where a call has the lock, and where it has a block.
LockLabels == {"N-full", "F-locked"}
HeapLabels == {"N-full", "C-exists"}

GivenToE ==
  IF stack # <<>> /\ top.at = "E-nt" /\ ret.value = STATUS_SUCCESS THEN 1 ELSE 0

(***************************************************************************)
(* Who asks for a relative name takes a reference to the directory with it *)
(* ("HaveRelative"), as every call in the repository does.                 *)
(***************************************************************************)
CallersAgree ==
  \A flags \in CallFlags : "RelativeName" \in flags => "HaveRelative" \in flags

(***************************************************************************)
(* The PEB lock is held once for each call of N and F that is between its  *)
(* acquire and its release, however deep the calls are nested and however  *)
(* each of them ends.                                                      *)
(***************************************************************************)
LockCounted == lock = Count(stack, LockLabels)

(***************************************************************************)
(* No block is lost or freed twice: each one belongs to a call of N or C   *)
(* in progress, to the E that was just given its path, or to the outermost *)
(* caller.                                                                 *)
(***************************************************************************)
HeapCounted ==
  heap = Count(stack, HeapLabels) + GivenToE + owned

(***************************************************************************)
(* The check of a device asks for another name, which may be a device too; *)
(* one that is none ends the recursion of E, N, F, C, E, N and F.          *)
(***************************************************************************)
Runaway == {s \in DosDevice : CheckedName(s) \in DosDevice}

RecursionEnds ==
  stack # <<>> /\ stack[1].name \notin Runaway => Len(stack) <= 7

(***************************************************************************)
(* The call that the caller waits for, as NtPathService sees it.           *)
(***************************************************************************)
Asked ==
  IF stack = <<>> THEN "none"
  ELSE CASE stack[1].at \in {"N", "N-full"} -> "nt"
         [] OTHER                           -> "other"

Service ==
  INSTANCE NtPathService WITH
    asked   <- Asked,
    success <- stack = <<>> /\ ret.value = STATUS_SUCCESS,
    given   <- IF stack = <<>> THEN heap ELSE 0,
    locked  <- stack = <<>> /\ lock # 0,
    ended   <- process # "running"

(***************************************************************************)
(* However deep the functions call each other and whatever fails in them,  *)
(* the caller sees one call that keeps to NtPathService: every step is one *)
(* of its steps, or changes nothing that the caller sees.                  *)
(***************************************************************************)
KeepsPromise == Service!SafeSpec

(***************************************************************************)
(* And the call ends: the circle of calls does not go on for ever.         *)
(***************************************************************************)
EveryCallAnswered == Service!Answered
-----------------------------------------------------------------------------
(***************************************************************************)
(* "TODO: this is causing an infinite loop!": no call exhausts the stack.  *)
(***************************************************************************)
StackSuffices == process # "overflowed"

(***************************************************************************)
(* "Allocate a large enough buffer": the block of the name's length that C *)
(* allocates has room for the cut name, its dot and its terminator.        *)
(***************************************************************************)
CheckBufferSuffices ==
  \A i \in DOMAIN stack :
    stack[i].at = "C-exists" =>
      Len(CheckedName(stack[i].name)) + 1 <= Len(stack[i].name)
=============================================================================
