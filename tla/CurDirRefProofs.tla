--------------------------- MODULE CurDirRefProofs ---------------------------
(***************************************************************************)
(* The counts of CurDirRef, for any finite number of relative names and    *)
(* any number of blocks, whatever the decrement is taken to answer.        *)
(***************************************************************************)
EXTENDS CurDirRef, FiniteSetTheorems, TLAPS

\* A block that is closed, and was not closed too early, is nobody's.
ClosedUnused ==
  \A r \in Ref \ dangling : r \notin open => r # RtlpCurDirRef /\ HoldersOf(r) = {}

Inv == TypeOK /\ CountIsUsers /\ ClosedUnused

\* The relative names that have a reference are as many as can be counted.
LEMMA HoldersFinite ==
  ASSUME NEW r
  PROVE  IsFiniteSet(HoldersOf(r)) /\ Cardinality(HoldersOf(r)) \in Nat
<1>1. HoldersOf(r) \in SUBSET Holder
  BY DEF HoldersOf
<1>2. IsFiniteSet(HoldersOf(r))
  BY <1>1, HolderAssumption, FS_Subset
<1> QED
  BY <1>2, FS_CardinalityType

\* A relative name more has the reference: one more is counted.
LEMMA HolderMore ==
  ASSUME NEW h \in Holder, NEW r, CurDirRef \in [Holder -> Ref \cup {NULL}],
         CurDirRef[h] = NULL, r # NULL,
         CurDirRef' = [CurDirRef EXCEPT ![h] = r],
         r \in Ref
  PROVE  /\ Cardinality(HoldersOf(r)') = Cardinality(HoldersOf(r)) + 1
         /\ \A q \in Ref \ {r} : HoldersOf(q)' = HoldersOf(q)
<1>1. HoldersOf(r)' = HoldersOf(r) \cup {h}
  BY DEF HoldersOf
<1>2. h \notin HoldersOf(r)
  BY DEF HoldersOf
<1>3. \A q \in Ref \ {r} : HoldersOf(q)' = HoldersOf(q)
  BY NULLAssumption DEF HoldersOf
<1> QED
  BY <1>1, <1>2, <1>3, HoldersFinite, FS_AddElement

\* A relative name has given its reference back: one less is counted.
LEMMA HolderLess ==
  ASSUME NEW h \in Holder, CurDirRef \in [Holder -> Ref \cup {NULL}],
         CurDirRef' = [CurDirRef EXCEPT ![h] = NULL]
  PROVE  \A q \in Ref :
           /\ HoldersOf(q)' = HoldersOf(q) \ {h}
           /\ Cardinality(HoldersOf(q)') =
                Cardinality(HoldersOf(q)) - (IF CurDirRef[h] = q THEN 1 ELSE 0)
<1> TAKE q \in Ref
<1>1. HoldersOf(q)' = HoldersOf(q) \ {h}
  BY NULLAssumption DEF HoldersOf
<1>2. h \in HoldersOf(q) <=> CurDirRef[h] = q
  BY DEF HoldersOf
<1>3. Cardinality(HoldersOf(q) \ {h}) =
        IF h \in HoldersOf(q) THEN Cardinality(HoldersOf(q)) - 1
        ELSE Cardinality(HoldersOf(q))
  BY HoldersFinite, FS_RemoveElement
<1> QED
  BY <1>1, <1>2, <1>3, HoldersFinite

\* Nobody has the reference exactly when none are counted.
LEMMA NoHolders ==
  ASSUME NEW r
  PROVE  Cardinality(HoldersOf(r)) = 0 <=> HoldersOf(r) = {}
BY HoldersFinite, FS_EmptySet

\* At first there is no reference at all.
LEMMA InitInv == Init => Inv
<1> SUFFICES ASSUME Init PROVE Inv
  OBVIOUS
<1>1. \A r \in Ref : HoldersOf(r) = {}
  BY NULLAssumption DEF Init, HoldersOf
<1>2. \A r \in Ref : RtlpCurDirRef # r
  BY NULLAssumption DEF Init
<1>3. TypeOK
  BY DEF Init, TypeOK
<1>4. CountIsUsers
  BY <1>1, <1>2, FS_EmptySet DEF Init, CountIsUsers
<1>5. ClosedUnused
  BY <1>1, <1>2 DEF ClosedUnused
<1> QED
  BY <1>3, <1>4, <1>5 DEF Inv

\* A relative name that takes the reference along is counted.
LEMMA NameInv ==
  ASSUME Inv, NEW h \in Holder, NEW inCurDir \in BOOLEAN, Name(h, inCurDir)
  PROVE  Inv'
<1> DEFINE r == RtlpCurDirRef
<1> USE DEF Inv, Name
<1>1. CASE inCurDir /\ r # NULL
  <2>1. r \in Ref
    BY <1>1 DEF TypeOK
  <2>2. CurDirRef' = [CurDirRef EXCEPT ![h] = r]
    BY <1>1
  <2>3. /\ Cardinality(HoldersOf(r)') = Cardinality(HoldersOf(r)) + 1
        /\ \A q \in Ref \ {r} : HoldersOf(q)' = HoldersOf(q)
    BY <1>1, <2>1, <2>2, HolderMore DEF TypeOK
  <2>4. RefCount' = [q \in Ref |-> IF q = r THEN RefCount[q] + 1 ELSE RefCount[q]]
    BY <1>1 DEF Counted
  <2>5. TypeOK'
    <3>1. RefCount' \in [Ref -> Int] /\ \A q \in Ref \ dangling : RefCount'[q] >= 0
      BY <2>4 DEF TypeOK
    <3>2. CurDirRef' \in [Holder -> Ref \cup {NULL}]
      BY <2>1, <2>2 DEF TypeOK
    <3> QED
      BY <3>1, <3>2 DEF TypeOK
  <2>6. CountIsUsers'
    <3> SUFFICES ASSUME NEW q \in Ref \ dangling
                 PROVE  RefCount'[q] = Cardinality(HoldersOf(q)')
                          + (IF RtlpCurDirRef' = q THEN 1 ELSE 0)
      BY DEF CountIsUsers
    <3>1. RefCount[q] = Cardinality(HoldersOf(q)) + (IF r = q THEN 1 ELSE 0)
      BY DEF CountIsUsers
    <3>2. RefCount'[q] = IF q = r THEN RefCount[q] + 1 ELSE RefCount[q]
      BY <2>4
    <3> QED
      BY <2>3, <3>1, <3>2, HoldersFinite
  <2>7. ClosedUnused'
    BY <2>3 DEF ClosedUnused
  <2> QED
    BY <2>5, <2>6, <2>7
<1>2. CASE ~(inCurDir /\ r # NULL)
  <2>1. CurDirRef' = CurDirRef
    BY <1>2 DEF TypeOK
  <2>2. RefCount' = RefCount
    BY <1>2, NULLAssumption DEF TypeOK, Counted
  <2>3. \A q : HoldersOf(q)' = HoldersOf(q)
    BY <2>1 DEF HoldersOf
  <2> QED
    BY <2>1, <2>2, <2>3 DEF TypeOK, CountIsUsers, ClosedUnused
<1> QED
  BY <1>1, <1>2

\* A release takes its name from the count, whatever it does to the block.
LEMMA ReleaseInv ==
  ASSUME Inv, NEW h \in Holder, NEW zero \in BOOLEAN, Release(h, zero)
  PROVE  Inv'
<1> DEFINE r == CurDirRef[h]
           given == {q \in Ref : zero /\ q = r}
<1> USE DEF Inv, Release
<1>1. \A q \in Ref :
        /\ HoldersOf(q)' = HoldersOf(q) \ {h}
        /\ Cardinality(HoldersOf(q)') =
             Cardinality(HoldersOf(q)) - (IF r = q THEN 1 ELSE 0)
  BY HolderLess DEF TypeOK
<1>2. /\ RefCount' \in [Ref -> Int]
      /\ \A q \in Ref : RefCount'[q] = IF q = r THEN RefCount[q] - 1 ELSE RefCount[q]
  BY DEF Counted, TypeOK
<1>3. /\ open' = open \ given
      /\ dangling' = dangling \cup {q \in given : q = RtlpCurDirRef \/ HoldersOf(q) # {h}}
  BY Zenon DEF Closed
<1>4. CountIsUsers'
  <2> SUFFICES ASSUME NEW q \in Ref \ dangling'
               PROVE  RefCount'[q] = Cardinality(HoldersOf(q)')
                        + (IF RtlpCurDirRef' = q THEN 1 ELSE 0)
    BY DEF CountIsUsers
  <2>1. q \in Ref \ dangling
    BY <1>3
  <2>2. RefCount[q] = Cardinality(HoldersOf(q)) + (IF RtlpCurDirRef = q THEN 1 ELSE 0)
    BY <2>1 DEF CountIsUsers
  <2> QED
    BY <1>1, <1>2, <2>2, HoldersFinite
<1>5. \A q \in Ref \ dangling' : RefCount'[q] >= 0
  <2> SUFFICES ASSUME NEW q \in Ref \ dangling' PROVE RefCount'[q] >= 0
    OBVIOUS
  <2>1. IsFiniteSet(HoldersOf(q) \ {h}) /\ Cardinality(HoldersOf(q) \ {h}) \in Nat
    BY HoldersFinite, FS_RemoveElement, FS_CardinalityType
  <2>2. Cardinality(HoldersOf(q)') \in Nat
    <3>1. HoldersOf(q)' = HoldersOf(q) \ {h}
      BY <1>1
    <3> QED
      BY <2>1, <3>1
  <2>3. RefCount'[q] = Cardinality(HoldersOf(q)') + (IF RtlpCurDirRef' = q THEN 1 ELSE 0)
    BY <1>4 DEF CountIsUsers
  <2> QED
    BY <2>2, <2>3
<1>6. TypeOK'
  <2>1. CurDirRef' \in [Holder -> Ref \cup {NULL}]
    BY DEF TypeOK
  <2>2. open' \subseteq Ref /\ dangling' \subseteq Ref
    BY <1>3 DEF TypeOK
  <2> QED
    BY <1>2, <1>5, <2>1, <2>2 DEF TypeOK
<1>7. ClosedUnused'
  <2> SUFFICES ASSUME NEW q \in Ref \ dangling', q \notin open'
               PROVE  q # RtlpCurDirRef' /\ HoldersOf(q)' = {}
    BY DEF ClosedUnused
  <2>1. q \notin dangling /\ HoldersOf(q)' = HoldersOf(q) \ {h} /\ RtlpCurDirRef' = RtlpCurDirRef
    BY <1>1, <1>3
  <2>2. CASE q \in given
    BY <1>3, <2>1, <2>2
  <2>3. CASE q \notin given
    BY <1>3, <2>1, <2>3 DEF ClosedUnused
  <2> QED
    BY <2>2, <2>3
<1> QED
  BY <1>4, <1>6, <1>7

\* A change of the directory moves the process from one block to another.
LEMMA SetInv ==
  ASSUME Inv, NEW r \in Ref, SetCurrentDirectory(r)
  PROVE  Inv'
<1> USE DEF Inv, SetCurrentDirectory
<1>1. \A q : HoldersOf(q)' = HoldersOf(q)
  BY DEF HoldersOf
<1>2. r \notin dangling => r # RtlpCurDirRef /\ HoldersOf(r) = {}
  BY DEF ClosedUnused
<1>3. /\ RefCount' \in [Ref -> Int]
      /\ \A q \in Ref :
           RefCount'[q] = IF q = r THEN 1
                          ELSE IF q = RtlpCurDirRef THEN RefCount[q] - 1 ELSE RefCount[q]
  BY DEF Counted, TypeOK
<1>4. CountIsUsers'
  <2> SUFFICES ASSUME NEW q \in Ref \ dangling
               PROVE  RefCount'[q] = Cardinality(HoldersOf(q)') + (IF r = q THEN 1 ELSE 0)
    BY DEF CountIsUsers
  <2>1. RefCount[q] = Cardinality(HoldersOf(q)) + (IF RtlpCurDirRef = q THEN 1 ELSE 0)
    BY DEF CountIsUsers
  <2>2. q = r => Cardinality(HoldersOf(q)) = 0
    BY <1>2, FS_EmptySet
  <2> QED
    BY <1>1, <1>2, <1>3, <2>1, <2>2, HoldersFinite
<1>5. \A q \in Ref \ dangling : RefCount'[q] >= 0
  <2> SUFFICES ASSUME NEW q \in Ref \ dangling PROVE RefCount'[q] >= 0
    OBVIOUS
  <2>1. RefCount'[q] = Cardinality(HoldersOf(q)) + (IF r = q THEN 1 ELSE 0)
    BY <1>1, <1>4 DEF CountIsUsers
  <2> QED
    BY <2>1, HoldersFinite
<1>6. TypeOK'
  BY <1>3, <1>5 DEF TypeOK
<1>7. ClosedUnused'
  <2> SUFFICES ASSUME NEW q \in Ref \ dangling, q \notin open'
               PROVE  q # r /\ HoldersOf(q) = {}
    BY <1>1 DEF ClosedUnused
  <2>1. q # r /\ (q \notin open \/ (q = RtlpCurDirRef /\ RefCount[q] = 1))
    OBVIOUS
  <2>2. CASE q \notin open
    BY <2>1, <2>2 DEF ClosedUnused
  <2>3. CASE q = RtlpCurDirRef /\ RefCount[q] = 1
    <3>1. RefCount[q] = Cardinality(HoldersOf(q)) + 1
      BY <2>3 DEF CountIsUsers
    <3>2. Cardinality(HoldersOf(q)) = 0
      BY <2>3, <3>1, HoldersFinite
    <3> QED
      BY <2>1, <3>2, NoHolders
  <2> QED
    BY <2>1, <2>2, <2>3
<1> QED
  BY <1>4, <1>6, <1>7

\* Every step keeps the counts.
LEMMA NextInv == Inv /\ [Next]_vars => Inv'
<1> SUFFICES ASSUME Inv, [Next]_vars PROVE Inv'
  OBVIOUS
<1>1. CASE \E h \in Holder, inCurDir \in BOOLEAN : Name(h, inCurDir)
  BY <1>1, NameInv
<1>2. CASE \E h \in Holder, zero \in BOOLEAN : Release(h, zero)
  BY <1>2, ReleaseInv
<1>3. CASE \E r \in Ref : SetCurrentDirectory(r)
  BY <1>3, SetInv
<1>4. CASE UNCHANGED vars
  BY <1>4 DEF vars, Inv, TypeOK, CountIsUsers, ClosedUnused, HoldersOf
<1> QED
  BY <1>1, <1>2, <1>3, <1>4 DEF Next

\* The three together are inductive.
LEMMA Always == Spec => []Inv
BY InitInv, NextInv, PTL DEF Spec

(***************************************************************************)
(* A count is the number of relative names that have the reference, and    *)
(* one for the process (path.c:1094-1098, doesfileexists.c:27), of every   *)
(* block that no release has closed under somebody.                        *)
(***************************************************************************)
THEOREM CountsAreRight == Spec => []CountIsUsers
<1>1. Inv => CountIsUsers
  BY DEF Inv
<1> QED
  BY <1>1, Always, PTL

(***************************************************************************)
(* No count of such a block falls below 0, however often a name is given   *)
(* back (doesfileexists.c:24-34).                                          *)
(***************************************************************************)
THEOREM TypeCorrect == Spec => []TypeOK
<1>1. Inv => TypeOK
  BY DEF Inv
<1> QED
  BY <1>1, Always, PTL
=============================================================================
