---------------------------- MODULE CollapsePath ----------------------------
(***************************************************************************)
(* RtlpCollapsePath (path.c): puts the path of a buffer in canonical form, *)
(* in place.  One call is one behaviour.  The C code works on three        *)
(* cursors into one buffer: p reads, next writes, EndPath is kept on the   *)
(* terminator while pieces of the path are moved over each other.          *)
(*                                                                         *)
(* Cursors are C indices.  A step is one iteration of the two loops that   *)
(* move characters; loops that only move a cursor are one step.            *)
(***************************************************************************)
EXTENDS PathChars

CONSTANTS
  Char,  \* the characters of a path
  Calls  \* the arguments of the calls: [text, mark, skip]

ASSUME CharAssumption ==
  /\ {BackSlash, Slash, Dot, Space} \subseteq Char
  /\ UNICODE_NULL \notin Char

(***************************************************************************)
(* What the function expects of its callers: a terminated, non-empty path  *)
(* whose first mark characters are the part it must not touch.             *)
(***************************************************************************)
ASSUME CallsAssumption ==
  \A c \in Calls :
    /\ c.text \in Seq(Char)
    /\ c.text # <<>>
    /\ c.mark \in 0..Len(c.text)
    /\ c.skip \in BOOLEAN

VARIABLES
  call,     \* the arguments
  Path,     \* the caller's buffer, up to the terminator of the original path
  p,        \* the reading cursor
  next,     \* the writing cursor
  EndPath,  \* where the path ends at present
  pc        \* the part of the function that runs

vars == <<call, Path, p, next, EndPath, pc>>

mark == call.mark

SkipTrailingPathSeparators == call.skip

EndBufferShort == Len(call.text) - 1

EndBuffer == Len(call.text)

FirstSqueezed == IF mark >= 1 THEN mark ELSE 1

Init ==
  /\ call \in Calls
  /\ Path = BufferOf(call.text)
  /\ p = 0 /\ next = 0 /\ EndPath = 0
  /\ pc = "slashes"
-----------------------------------------------------------------------------
(***************************************************************************)
(* Slashes become backslashes, then runs of backslashes become one.        *)
(***************************************************************************)
ConvertSlashes ==
  /\ pc = "slashes"
  /\ Path' = [i \in DOMAIN Path |->
                IF Path[i] = Slash THEN BackSlash ELSE Path[i]]
  /\ next' = FirstSqueezed
  /\ p' = next'
  /\ pc' = "squeeze"
  /\ UNCHANGED <<call, EndPath>>

KeptBySqueezeAlways == TRUE

KeptBySqueeze == Path[p] # BackSlash \/ Path[next - 1] # BackSlash

SqueezeKeep ==
  /\ pc = "squeeze"
  /\ Path[p] # UNICODE_NULL
  /\ KeptBySqueeze
  /\ Path' = [Path EXCEPT ![next] = Path[p]]
  /\ next' = next + 1
  /\ p' = p + 1
  /\ UNCHANGED <<call, EndPath, pc>>

SqueezeDrop ==
  /\ pc = "squeeze"
  /\ Path[p] # UNICODE_NULL
  /\ ~KeptBySqueeze
  /\ p' = p + 1
  /\ UNCHANGED <<call, Path, next, EndPath, pc>>

SqueezeEnd ==
  /\ pc = "squeeze"
  /\ Path[p] = UNICODE_NULL
  /\ Path' = [Path EXCEPT ![next] = UNICODE_NULL]
  /\ EndPath' = next
  /\ p' = mark
  /\ pc' = "scan"
  /\ UNCHANGED <<call, next>>
-----------------------------------------------------------------------------
(***************************************************************************)
(* The scan: p stands at the start of a component.                         *)
(***************************************************************************)

MoveDownNotCounted(to, from) ==
  /\ Path' = [i \in DOMAIN Path |->
                IF i \in to..(to + EndPath - from)
                THEN Path[i + (from - to)] ELSE Path[i]]
  /\ EndPath' = EndPath

MoveDownOvercounted(to, from) ==
  /\ Path' = [i \in DOMAIN Path |->
                IF i \in to..(to + EndPath - from)
                THEN Path[i + (from - to)] ELSE Path[i]]
  /\ EndPath' = EndPath + (from - to)

\* Moves the rest of the path, terminator included, from index from to index to.
MoveDown(to, from) ==
  /\ Path' = [i \in DOMAIN Path |->
                IF i \in to..(to + EndPath - from)
                THEN Path[i + (from - to)] ELSE Path[i]]
  /\ EndPath' = EndPath - (from - to)

CutAt(q) ==
  /\ Path' = [Path EXCEPT ![q] = UNICODE_NULL]
  /\ EndPath' = q
  /\ p' = q

IsParentStartKept(q) == q = p

\* q is where the component in front of the one at p starts; p when there is none.
IsParentStart(q) ==
  \/ p = mark /\ q = p
  \/ /\ q < p
     /\ q > mark => Path[q - 1] = BackSlash
     /\ \A i \in q..(p - 2) : Path[i] # BackSlash

\* q is the separator or terminator that ends the component at p.
IsComponentEnd(q) ==
  /\ Path[q] \in {BackSlash, UNICODE_NULL}
  /\ \A i \in p..(q - 1) : Path[i] \notin {BackSlash, UNICODE_NULL}

AtDot(next_) == Path[p] = Dot /\ Path[p + 1] = next_

AtDotDot(next_) == AtDot(Dot) /\ Path[p + 2] = next_

AtName ==
  /\ Path[p] # UNICODE_NULL
  /\ ~\E c \in {BackSlash, UNICODE_NULL} : AtDot(c) \/ AtDotDot(c)

FinalDot ==
  /\ pc = "scan"
  /\ AtDot(UNICODE_NULL)
  /\ CutAt(IF p > mark THEN p - 1 ELSE p)
  /\ UNCHANGED <<call, next, pc>>

DotComponent ==
  /\ pc = "scan"
  /\ AtDot(BackSlash)
  /\ next' = p + 2
  /\ MoveDown(p, p + 2)
  /\ UNCHANGED <<call, p, pc>>

DotDotComponent ==
  /\ pc = "scan"
  /\ AtDotDot(BackSlash)
  /\ next' = p + 3
  /\ \E q \in mark..p :
       /\ IsParentStart(q)
       /\ MoveDown(q, p + 3)
       /\ p' = q
  /\ UNCHANGED <<call, pc>>

FinalDotDot ==
  /\ pc = "scan"
  /\ AtDotDot(UNICODE_NULL)
  /\ \E q \in mark..p :
       /\ IsParentStart(q)
       /\ CutAt(IF q > mark THEN q - 1 ELSE q)
  /\ UNCHANGED <<call, next, pc>>

\* Skips the component at p, which ends at q.
SkipName(q) ==
  /\ pc = "scan"
  /\ AtName
  /\ IsComponentEnd(q)
  /\ UNCHANGED <<call, next, pc>>

LastName ==
  \E q \in p..EndPath :
    /\ SkipName(q)
    /\ Path[q] = UNICODE_NULL
    /\ p' = q
    /\ UNCHANGED <<Path, EndPath>>

DotBefore(q) == q > mark /\ Path[q - 1] = Dot

DirectoryNameNotPassed ==
  \E q \in p..EndPath :
    /\ SkipName(q)
    /\ Path[q] = BackSlash
    /\ ~DotBefore(q)
    /\ p' = q
    /\ UNCHANGED <<Path, EndPath>>

DirectoryName ==
  \E q \in p..EndPath :
    /\ SkipName(q)
    /\ Path[q] = BackSlash
    /\ ~DotBefore(q)
    /\ p' = q + 1
    /\ UNCHANGED <<Path, EndPath>>

\* The dot in front of the separator goes; p is then behind the separator.
DirectoryNameWithDot ==
  \E q \in p..EndPath :
    /\ SkipName(q)
    /\ Path[q] = BackSlash
    /\ DotBefore(q)
    /\ MoveDown(q - 1, q)
    /\ p' = q
-----------------------------------------------------------------------------
(***************************************************************************)
(* The end of the path: a cursor at q that moves down over characters of S *)
(* and never below floor stops at r.                                       *)
(***************************************************************************)
StopsAt(r, q, floor, S) ==
  /\ r >= floor
  /\ \A i \in r..(q - 1) : Path[i] \in S
  /\ r > floor => Path[r - 1] \notin S

TrimSeparatorsAll(q) ==
  IF SkipTrailingPathSeparators
  THEN StopsAt(q, p, 0, {BackSlash, Slash})
  ELSE q = p

TrimSeparators(q) ==
  IF SkipTrailingPathSeparators
  THEN StopsAt(q, p, mark, {BackSlash, Slash})
  ELSE q = p

Trim ==
  /\ pc = "scan"
  /\ Path[p] = UNICODE_NULL
  /\ \E q \in 0..p : \E r \in 0..q :
       /\ TrimSeparators(q)
       /\ StopsAt(r, q, 0, {Space, Dot})
       /\ p' = r
  /\ pc' = "zero"
  /\ UNCHANGED <<call, Path, next, EndPath>>

\* The process ends when ASSERT(EndBuffer >= p) fails.
ZeroTail ==
  /\ pc = "zero"
  /\ IF EndBuffer >= p
     THEN /\ Path' = [i \in DOMAIN Path |->
                        IF i \in p..EndBuffer THEN UNICODE_NULL ELSE Path[i]]
          /\ pc' = "done"
     ELSE pc' = "abort" /\ UNCHANGED Path
  /\ UNCHANGED <<call, p, next, EndPath>>

Squeeze == SqueezeKeep \/ SqueezeDrop \/ SqueezeEnd

Scan ==
  \/ FinalDot \/ DotComponent \/ DotDotComponent \/ FinalDotDot
  \/ LastName \/ DirectoryName \/ DirectoryNameWithDot

Returned == pc \in {"done", "abort"} /\ UNCHANGED vars

Next == ConvertSlashes \/ Squeeze \/ Scan \/ Trim \/ ZeroTail \/ Returned

Spec == Init /\ [][Next]_vars /\ WF_vars(Next)
-----------------------------------------------------------------------------
TypeOK ==
  /\ call.text \in Seq(Char)
  /\ Path \in [0..EndBuffer -> Char \cup {UNICODE_NULL}]
  /\ p \in 0..EndBuffer
  /\ next \in 0..EndBuffer
  /\ EndPath \in 0..EndBuffer
  /\ pc \in {"slashes", "squeeze", "scan", "zero", "done", "abort"}

IsLengthOf(n, buf) ==
  /\ n \in DOMAIN buf
  /\ buf[n] = UNICODE_NULL
  /\ \A i \in 0..(n - 1) : buf[i] # UNICODE_NULL

(***************************************************************************)
(* While pieces are moved about, EndPath stays the length of the path: the *)
(* condition of the assertions the function carries as comments, on which  *)
(* the size of every RtlMoveMemory rests.                                  *)
(***************************************************************************)
EndPathIsLength == pc = "scan" => IsLengthOf(EndPath, Path)

(***************************************************************************)
(* ASSERT(EndBuffer >= p) never fails: no cursor leaves the buffer.        *)
(***************************************************************************)
AssertHolds == pc # "abort"

NoSlash(buf) == \A i \in 0..EndBuffer : buf[i] # Slash

NoDoubled(n, buf) ==
  \A i \in FirstSqueezed..(n - 1) : buf[i] # BackSlash \/ buf[i - 1] # BackSlash

(***************************************************************************)
(* Step 1) of the function's comment, for the result: no slash is left, no *)
(* removal of a component made two backslashes meet behind the mark, and   *)
(* the value returned is the length of what is in the buffer.              *)
(***************************************************************************)
Canonical ==
  pc = "done" =>
    /\ NoSlash(Path)
    /\ NoDoubled(p, Path)
    /\ IsLengthOf(p, Path)

\* The marked part, of which a trim to n characters took spaces and dots only.
MarkKept(n) ==
  \A i \in 0..(mark - 1) :
    IF i < n
    THEN \/ Path[i] = call.text[i + 1]
         \/ Path[i] = BackSlash /\ call.text[i + 1] = Slash
    ELSE call.text[i + 1] \in {Space, Dot}

(***************************************************************************)
(* The marked part of the path, "C:\" or "\\.\" or "\\share\dir", survives *)
(* every "..": only the last trim, of spaces and dots, may reach into it.  *)
(***************************************************************************)
MarkedPartKept == pc = "done" => MarkKept(p)

(***************************************************************************)
(* Every iteration of the scan shortens the path or moves on in it, so the *)
(* scan cannot loop.                                                       *)
(***************************************************************************)
ScanProgress ==
  [][pc = "scan" /\ pc' = "scan" =>
       \/ EndPath' < EndPath
       \/ EndPath' = EndPath /\ p' > p]_vars

(***************************************************************************)
(* The function returns.                                                   *)
(***************************************************************************)
Returns == <>(pc = "done")
-----------------------------------------------------------------------------
(***************************************************************************)
(* The mark stands for "the \\share\dir part" (RtlpSkipUNCPrefix), which   *)
(* a separator follows when anything does: it is not glued to a component. *)
(***************************************************************************)
MarkedPartSeparate ==
  pc = "done" /\ p > mark /\ IS_PATH_SEPARATOR(CharAt(call.text, mark))
    => Path[mark] = BackSlash \/ Path[mark - 1] = BackSlash
=============================================================================
