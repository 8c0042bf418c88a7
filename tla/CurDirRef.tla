------------------------------ MODULE CurDirRef ------------------------------
(***************************************************************************)
(* The counted reference to the current directory, RtlpCurDirRef.  A       *)
(* relative name takes it along (RtlpDosPathNameToRelativeNtPathName_Ustr) *)
(* until RtlReleaseRelativeName gives it back, and the last one to do so   *)
(* is to close the directory's handle.  Whether it does is open: the       *)
(* InterlockedDecrement of windows.h returns no value, so what is read as  *)
(* the new count is undefined.  The caller is external, and so is what     *)
(* sets the current directory, which nothing under src/ does.  Nothing     *)
(* runs concurrently, so a release is one step.                            *)
(***************************************************************************)
EXTENDS Integers, FiniteSets

CONSTANTS
  Holder,  \* the relative names callers have, RTL_RELATIVE_NAME_U
  Ref,     \* the blocks a reference may be in, RTLP_CURDIR_REF
  NULL

ASSUME HolderAssumption == IsFiniteSet(Holder)
ASSUME NULLAssumption == NULL \notin Ref

VARIABLES
  RtlpCurDirRef,  \* the reference to the current directory
  RefCount,       \* the count in each block
  CurDirRef,      \* the reference that each relative name has
  open,           \* the blocks that are allocated, their handles open
  dangling        \* history: the blocks closed while somebody still had them

vars == <<RtlpCurDirRef, RefCount, CurDirRef, open, dangling>>

Init ==
  /\ RtlpCurDirRef = NULL
  /\ RefCount = [r \in Ref |-> 0]
  /\ CurDirRef = [h \in Holder |-> NULL]
  /\ open = {}
  /\ dangling = {}
-----------------------------------------------------------------------------
\* The counts with r counted by n more, if there is a reference at all.
Counted(r, n) == [q \in Ref |-> IF q = r THEN RefCount[q] + n ELSE RefCount[q]]

\* The relative names that have a reference to r.
HoldersOf(r) == {h \in Holder : CurDirRef[h] = r}

\* Taken along, but not counted.
NameUncounted(h, inCurDir) ==
  /\ CurDirRef[h] = NULL
  /\ CurDirRef' = [CurDirRef EXCEPT ![h] = IF inCurDir THEN RtlpCurDirRef ELSE NULL]
  /\ UNCHANGED <<RtlpCurDirRef, RefCount, open, dangling>>

(***************************************************************************)
(* The caller gets relative name h.  Only one that is in the current       *)
(* directory takes the reference along, if there is one.  (A caller that   *)
(* would use a relative name again gives it back first.)                   *)
(***************************************************************************)
Name(h, inCurDir) ==
  /\ CurDirRef[h] = NULL
  /\ CurDirRef' = [CurDirRef EXCEPT ![h] = IF inCurDir THEN RtlpCurDirRef ELSE NULL]
  /\ RefCount' = IF inCurDir THEN Counted(RtlpCurDirRef, 1) ELSE RefCount
  /\ UNCHANGED <<RtlpCurDirRef, open, dangling>>

\* NtClose and RtlFreeHeap of what h has, if the decrement is read as zero.
Closed(h, zero) ==
  LET given == {r \in Ref : zero /\ r = CurDirRef[h]}
  IN  /\ open' = open \ given
      /\ dangling' = dangling \cup
           {r \in given : r = RtlpCurDirRef \/ HoldersOf(r) # {h}}

\* The relative name would still have the reference it gave back.
ReleaseUnreset(h, zero) ==
  /\ RefCount' = Counted(CurDirRef[h], -1)
  /\ Closed(h, zero)
  /\ UNCHANGED <<RtlpCurDirRef, CurDirRef>>

(***************************************************************************)
(* RtlReleaseRelativeName, which may be called more than once of a name.   *)
(* The answer of its decrement is undefined, zero or not.  (So is          *)
(* the count in a block that has been freed; it goes on as it was, and no  *)
(* property speaks of it.)                                                 *)
(***************************************************************************)
Release(h, zero) ==
  /\ RefCount' = Counted(CurDirRef[h], -1)
  /\ Closed(h, zero)
  /\ CurDirRef' = [CurDirRef EXCEPT ![h] = NULL]
  /\ UNCHANGED RtlpCurDirRef

\* Another directory becomes current; its setter gives back the old one, by its count.
SetCurrentDirectory(r) ==
  /\ r \notin open
  /\ RefCount' = [Counted(RtlpCurDirRef, -1) EXCEPT ![r] = 1]
  /\ open' = (open \ {q \in Ref : q = RtlpCurDirRef /\ RefCount[q] = 1}) \cup {r}
  /\ RtlpCurDirRef' = r
  /\ UNCHANGED <<CurDirRef, dangling>>

Next ==
  \/ \E h \in Holder, inCurDir \in BOOLEAN : Name(h, inCurDir)
  \/ \E h \in Holder, zero \in BOOLEAN : Release(h, zero)
  \/ \E r \in Ref : SetCurrentDirectory(r)

Spec == Init /\ [][Next]_vars
-----------------------------------------------------------------------------
(***************************************************************************)
(* The type invariant: no count falls below 0, however often a name is     *)
(* given back.                                                             *)
(***************************************************************************)
TypeOK ==
  /\ RtlpCurDirRef \in Ref \cup {NULL}
  /\ RefCount \in [Ref -> Int] /\ \A r \in Ref \ dangling : RefCount[r] >= 0
  /\ CurDirRef \in [Holder -> Ref \cup {NULL}]
  /\ open \subseteq Ref /\ dangling \subseteq Ref

(***************************************************************************)
(* However names are taken, given back (also twice) and overtaken by a     *)
(* change of the directory, a count is the number of those who use the     *)
(* reference: the relative names that have it, and the process.  Only of a *)
(* block that was closed under somebody it is not.                         *)
(***************************************************************************)
CountIsUsers ==
  \A r \in Ref \ dangling :
    RefCount[r] = Cardinality(HoldersOf(r)) + (IF RtlpCurDirRef = r THEN 1 ELSE 0)

(***************************************************************************)
(* "If no one uses it any longer, close handle & free": a block that is    *)
(* open is the current directory's, or a relative name has it.             *)
(***************************************************************************)
ClosedWhenUnused ==
  \A r \in open : r = RtlpCurDirRef \/ HoldersOf(r) # {}
=============================================================================
