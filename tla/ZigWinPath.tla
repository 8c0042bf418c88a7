----------------------------- MODULE ZigWinPath -----------------------------
(***************************************************************************)
(* The Zig port (zigwinpath.zig): a caller's path goes through             *)
(* replaceElem, collapseRepeats and removeDotDirsSanitized, the first      *)
(* three steps toNtPath names.  Each works in place on one slice; the last *)
(* two read at read_idx and write at write_idx.                            *)
(*                                                                         *)
(* A step is one iteration of a loop that writes to the slice; loops that  *)
(* only move an index are one step.  Indices are from 0 and, in            *)
(* removeDotDirsSanitizedRelative, behind the leading backslash.           *)
(***************************************************************************)
EXTENDS PathChars

CONSTANTS
  Char,   \* the characters of a path
  Texts   \* the paths of the callers

ASSUME CharAssumption == {BackSlash, Slash, Dot} \subseteq Char
ASSUME TextsAssumption == Texts \subseteq Seq(Char)

VARIABLES
  text,       \* the caller's path
  slice,      \* its memory
  given,      \* what the function that runs found there (history)
  base,       \* where the slice of the function that runs starts
  len,        \* its length
  read_idx,
  write_idx,
  pc          \* the part that runs, or how it ended

vars == <<text, slice, given, base, len, read_idx, write_idx, pc>>

At(i) == slice[base + i]

Init ==
  /\ text \in Texts
  /\ slice = [i \in 0..(Len(text) - 1) |-> text[i + 1]]
  /\ given = slice
  /\ base = 0
  /\ len = Len(text)
  /\ read_idx = 0
  /\ write_idx = 0
  /\ pc = "replace"
-----------------------------------------------------------------------------
(***************************************************************************)
(* Slashes become backslashes; collapseRepeats starts behind the first     *)
(* character, or returns 0 for an empty slice.                             *)
(***************************************************************************)
Replaced == [i \in DOMAIN slice |-> IF slice[i] = Slash THEN BackSlash ELSE slice[i]]

StartCollapse ==
  /\ pc = "replace"
  /\ slice' = Replaced
  /\ given' = slice'
  /\ write_idx' = IF len = 0 THEN 0 ELSE 1
  /\ read_idx' = write_idx'
  /\ pc' = "repeats"
  /\ UNCHANGED <<text, base, len>>

\* The element goes behind write_idx.
CopyElemBehind ==
  /\ read_idx < len
  /\ slice' = [slice EXCEPT ![base + write_idx + 1] = At(read_idx)]
  /\ write_idx' = write_idx + 1
  /\ read_idx' = read_idx + 1
  /\ UNCHANGED <<text, given, base, len>>

\* The element at read_idx goes to write_idx.
CopyElem ==
  /\ read_idx < len
  /\ slice' = [slice EXCEPT ![base + write_idx] = At(read_idx)]
  /\ write_idx' = write_idx + 1
  /\ read_idx' = read_idx + 1
  /\ UNCHANGED <<text, given, base, len>>

IsRepeat == At(read_idx - 1) = BackSlash /\ At(read_idx) = BackSlash

KeepElem ==
  /\ pc = "repeats"
  /\ read_idx < len
  /\ ~IsRepeat
  /\ CopyElem
  /\ UNCHANGED pc

DropRepeat ==
  /\ pc = "repeats"
  /\ read_idx < len
  /\ IsRepeat
  /\ read_idx' = read_idx + 1
  /\ UNCHANGED <<text, slice, given, base, len, write_idx, pc>>

\* collapseRepeats returns; removeDotDirsSanitized leaves out a leading backslash.
StartRemoval ==
  /\ pc = "repeats"
  /\ read_idx = len
  /\ base' = IF write_idx > 0 /\ slice[0] = BackSlash THEN 1 ELSE 0
  /\ len' = write_idx - base'
  /\ given' = slice
  /\ read_idx' = 0
  /\ write_idx' = 0
  /\ pc' = "dirs"
  /\ UNCHANGED <<text, slice>>
-----------------------------------------------------------------------------
(***************************************************************************)
(* removeDotDirsSanitizedRelative: read_idx stands at the start of a       *)
(* component.                                                              *)
(***************************************************************************)
AtDot == read_idx < len /\ At(read_idx) = Dot

AtFinalDot == AtDot /\ read_idx + 1 = len

AtDotDir == AtDot /\ read_idx + 1 < len /\ At(read_idx + 1) = BackSlash

AtFinalDotDotOnly ==
  /\ AtDot
  /\ read_idx + 1 < len /\ At(read_idx + 1) = Dot
  /\ read_idx + 2 = len

AtDotDot ==
  /\ AtDot
  /\ read_idx + 1 < len /\ At(read_idx + 1) = Dot
  /\ read_idx + 2 < len => At(read_idx + 2) = BackSlash

AtName == read_idx < len /\ ~(AtFinalDot \/ AtDotDir \/ AtDotDot)

Ends(outcome) ==
  /\ pc' = outcome
  /\ UNCHANGED <<text, slice, given, base, len, read_idx, write_idx>>

FinalDot == pc = "dirs" /\ AtFinalDot /\ Ends("done")

DotDirRereads ==
  /\ pc = "dirs"
  /\ AtDotDir
  /\ UNCHANGED vars

DotDir ==
  /\ pc = "dirs"
  /\ AtDotDir
  /\ read_idx' = read_idx + 2
  /\ UNCHANGED <<text, slice, given, base, len, write_idx, pc>>

TooManyParentDirs == pc = "dirs" /\ AtDotDot /\ write_idx = 0 /\ Ends("TooManyParentDirs")

\* std.debug.assert(write_idx >= 2)
AssertFails == pc = "dirs" /\ AtDotDot /\ write_idx = 1 /\ Ends("abort")

\* Stops at the separator behind the directory, which is written already.
BacksUpToOwnSeparator(q) ==
  /\ q > 0 => At(q) = BackSlash
  /\ \A i \in (q + 1)..(write_idx - 1) : At(i) # BackSlash

\* The last separator in front of the one just written, or the start.
BacksUpTo(q) ==
  /\ q \in 0..(write_idx - 2)
  /\ q > 0 => At(q) = BackSlash
  /\ \A i \in (q + 1)..(write_idx - 2) : At(i) # BackSlash

ParentDirReadsOn ==
  /\ pc = "dirs"
  /\ AtDotDot
  /\ write_idx >= 2
  /\ \E q \in 0..write_idx : BacksUpTo(q) /\ write_idx' = q
  /\ read_idx' = read_idx + 3
  /\ UNCHANGED <<text, slice, given, base, len, pc>>

ParentDir ==
  /\ pc = "dirs"
  /\ AtDotDot
  /\ write_idx >= 2
  /\ \E q \in 0..write_idx : BacksUpTo(q) /\ write_idx' = q
  /\ IF read_idx + 2 = len
     THEN pc' = "done" /\ UNCHANGED read_idx
     ELSE read_idx' = read_idx + 3 /\ UNCHANGED pc
  /\ UNCHANGED <<text, slice, given, base, len>>

\* The name's characters, up to and with its separator.
CopyName ==
  /\ pc = "name" \/ (pc = "dirs" /\ AtName)
  /\ CopyElem
  /\ pc' = IF At(read_idx) = BackSlash THEN "dirs" ELSE "name"

Return == pc \in {"dirs", "name"} /\ read_idx = len /\ Ends("done")

Outcomes == {"done", "TooManyParentDirs", "abort"}

Returned == pc \in Outcomes /\ UNCHANGED vars

CollapseRepeats == StartCollapse \/ KeepElem \/ DropRepeat

RemoveDotDirs ==
  \/ StartRemoval \/ FinalDot \/ DotDir \/ TooManyParentDirs \/ AssertFails
  \/ ParentDir \/ CopyName \/ Return

Next == CollapseRepeats \/ RemoveDotDirs \/ Returned

Spec == Init /\ [][Next]_vars /\ WF_vars(Next)

\* The path the caller has in the end: the function returns its length.
Result == [i \in 1..(base + write_idx) |-> slice[i - 1]]
-----------------------------------------------------------------------------
TypeOK ==
  /\ text \in Seq(Char)
  /\ slice \in [0..(Len(text) - 1) -> Char]
  /\ given \in [0..(Len(text) - 1) -> Char]
  /\ base \in {0, 1}
  /\ len \in 0..(Len(text) - base)
  /\ read_idx \in 0..len
  /\ write_idx \in 0..len
  /\ pc \in {"replace", "repeats", "dirs", "name"} \cup Outcomes

(***************************************************************************)
(* Reading and writing in one slice is safe: what is still to be read is   *)
(* what the caller put there, and so is the element the comparison of      *)
(* collapseRepeats looks back at.                                          *)
(***************************************************************************)
UnreadKept ==
  /\ \A i \in read_idx..(len - 1) : At(i) = given[base + i]
  /\ pc = "repeats" /\ read_idx > 0 => At(read_idx - 1) = given[base + read_idx - 1]

\* The component of s that starts at i is "." or "..".
DotDirAt(s, i) ==
  /\ i = 1 \/ s[i - 1] = BackSlash
  /\ \E n \in {1, 2} :
       /\ i + n - 1 <= Len(s)
       /\ s[i] = Dot /\ s[i + n - 1] = Dot
       /\ i + n <= Len(s) => s[i + n] = BackSlash

(***************************************************************************)
(* "Removes '.' and '..' path components": none is left, however deep the  *)
(* directories were that ".." left, and whatever was written behind a name *)
(* that ".." took the separator from.                                      *)
(***************************************************************************)
NoDotDirLeft == pc = "done" => \A i \in DOMAIN Result : ~DotDirAt(Result, i)

(***************************************************************************)
(* The functions return.                                                   *)
(***************************************************************************)
Ended == <>(pc \in Outcomes)
=============================================================================
