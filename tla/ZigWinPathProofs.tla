-------------------------- MODULE ZigWinPathProofs --------------------------
(***************************************************************************)
(* The Zig port's functions on one slice, for every alphabet and path.     *)
(* What makes the invariant inductive is that the write index never passes *)
(* the read index, however far ".." backs up.  That the functions return   *)
(* what the reference says, whose folds go over the whole path, is by an   *)
(* invariant on the folds of what has been read so far.                    *)
(***************************************************************************)
EXTENDS ZigReference, ComponentLemmas

Collapsing == pc \in {"replace", "repeats"}

IInv ==
  /\ TypeOK
  /\ UnreadKept
  /\ write_idx <= read_idx
  /\ Collapsing => base = 0 /\ len = Len(text)

\* What the steps that only move the indices or end leave alone.
MovesOn ==
  /\ UNCHANGED <<text, slice, given, base, len>>
  /\ read_idx' \in read_idx..len
  /\ write_idx' \in 0..write_idx
  /\ pc' \in {"repeats", "dirs", "name"} \cup Outcomes
  /\ Collapsing' => Collapsing /\ read_idx' = read_idx + 1
-----------------------------------------------------------------------------
\* The slice is within the text.
LEMMA TextFacts ==
  ASSUME TypeOK
  PROVE  /\ text \in Seq(Char) /\ Len(text) \in Nat
         /\ len \in Nat /\ base + len <= Len(text)
         /\ \A i \in 0..(len - 1) : base + i \in 0..(Len(text) - 1)
  BY DEF TypeOK

(***************************************************************************)
(* The initial states satisfy the invariant.                               *)
(***************************************************************************)
LEMMA InitIInv == Init => IInv
  <1>1. SUFFICES ASSUME Init PROVE IInv
    OBVIOUS
  <1>2. text \in Seq(Char) /\ Len(text) \in Nat
    BY <1>1, TextsAssumption DEF Init
  <1>3. slice \in [0..(Len(text) - 1) -> Char] /\ given = slice
    BY <1>1, <1>2 DEF Init
  <1>. QED
    BY <1>1, <1>2, <1>3 DEF Init, IInv, TypeOK, UnreadKept, Collapsing, At

(***************************************************************************)
(* Steps that write nothing keep it.                                       *)
(***************************************************************************)
LEMMA MovingKeeps == IInv /\ MovesOn => IInv'
  <1>1. SUFFICES ASSUME IInv, MovesOn PROVE IInv'
    OBVIOUS
  <1>2. /\ text' = text /\ slice' = slice /\ given' = given /\ base' = base /\ len' = len
        /\ len \in Nat /\ read_idx \in 0..len /\ write_idx \in 0..read_idx /\ base \in {0, 1}
        /\ read_idx' \in read_idx..len /\ write_idx' \in 0..write_idx
    BY <1>1, TextFacts DEF IInv, MovesOn, TypeOK
  <1>3. TypeOK' /\ write_idx' <= read_idx'
    BY <1>1, <1>2 DEF IInv, MovesOn, TypeOK
  <1>4. \A i \in read_idx..(len - 1) : slice[base + i] = given[base + i]
    BY <1>1 DEF IInv, UnreadKept, At
  <1>5. \A i \in read_idx'..(len - 1) : slice[base + i] = given[base + i]
    BY <1>2, <1>4
  <1>6. pc' = "repeats" /\ read_idx' > 0 =>
          slice[base + (read_idx' - 1)] = given[base + read_idx' - 1]
    <2>1. SUFFICES ASSUME pc' = "repeats"
                   PROVE  slice[base + (read_idx' - 1)] = given[base + read_idx' - 1]
      OBVIOUS
    <2>2. read_idx' = read_idx + 1 /\ read_idx \in read_idx..(len - 1)
      BY <1>1, <1>2, <2>1 DEF MovesOn, Collapsing
    <2>3. read_idx' - 1 = read_idx /\ base + read_idx' - 1 = base + read_idx
      BY <1>2, <2>2
    <2>. QED
      BY <1>4, <2>2, <2>3
  <1>7. UnreadKept'
    BY <1>2, <1>5, <1>6 DEF UnreadKept, At
  <1>8. Collapsing' => base' = 0 /\ len' = Len(text')
    BY <1>1, <1>2 DEF IInv, MovesOn
  <1>. QED
    BY <1>3, <1>7, <1>8 DEF IInv

(***************************************************************************)
(* So does a copy: it writes where was read already, or what is there.     *)
(***************************************************************************)
LEMMA CopyKeeps ==
  ASSUME IInv, CopyElem, pc # "replace",
         pc' = pc \/ (pc' \in {"dirs", "name"} /\ ~Collapsing)
  PROVE  IInv'
  <1>1. /\ read_idx \in 0..(len - 1) /\ write_idx \in 0..read_idx
        /\ base \in {0, 1} /\ len \in Nat
        /\ base + read_idx \in 0..(Len(text) - 1)
        /\ base + write_idx \in 0..(Len(text) - 1)
    BY TextFacts DEF IInv, TypeOK, CopyElem
  <1>2. At(read_idx) = given[base + read_idx] /\ At(read_idx) \in Char
    <2>1. read_idx \in read_idx..(len - 1)
      BY <1>1
    <2>2. At(read_idx) = given[base + read_idx]
      BY <2>1 DEF IInv, UnreadKept
    <2>. QED
      BY <1>1, <2>2 DEF IInv, TypeOK, At
  <1>3. slice' \in [0..(Len(text) - 1) -> Char]
    BY <1>1, <1>2 DEF IInv, TypeOK, CopyElem
  <1>4. \A i \in read_idx..(len - 1) : slice'[base + i] = given[base + i]
    <2>1. TAKE i \in read_idx..(len - 1)
    <2>2. base + i \in 0..(Len(text) - 1) /\ slice[base + i] = given[base + i]
      <3>1. TypeOK /\ i \in 0..(len - 1)
        BY <1>1 DEF IInv
      <3>2. base + i \in 0..(Len(text) - 1)
        BY <3>1, TextFacts
      <3>3. At(i) = given[base + i]
        BY DEF IInv, UnreadKept
      <3>. QED
        BY <3>2, <3>3 DEF At
    <2>3. CASE base + i = base + write_idx
      BY <1>1, <1>2, <2>2, <2>3 DEF CopyElem, IInv, TypeOK
    <2>4. CASE base + i # base + write_idx
      BY <1>1, <2>2, <2>4 DEF CopyElem, IInv, TypeOK
    <2>. QED
      BY <2>3, <2>4
  <1>5. TypeOK' /\ write_idx' <= read_idx'
    BY <1>1, <1>3 DEF IInv, TypeOK, CopyElem, Collapsing, Outcomes
  <1>6. UnreadKept'
    BY <1>1, <1>4 DEF UnreadKept, At, CopyElem
  <1>. QED
    BY <1>5, <1>6 DEF IInv, Collapsing, CopyElem
-----------------------------------------------------------------------------
\* Every step keeps the invariant.
LEMMA NextIInv == IInv /\ [Next]_vars => IInv'
  <1>1. SUFFICES ASSUME IInv, [Next]_vars PROVE IInv'
    OBVIOUS
  <1>2. read_idx \in 0..len /\ write_idx \in 0..read_idx /\ len \in Nat /\ base \in {0, 1}
    BY <1>1, TextFacts DEF IInv, TypeOK
  <1>3. CASE StartCollapse
    <2>1. /\ base = 0 /\ len = Len(text) /\ Len(text) \in Nat
          /\ slice \in [0..(Len(text) - 1) -> Char]
      BY <1>1, <1>3, TextFacts DEF IInv, TypeOK, StartCollapse, Collapsing
    <2>2. slice' \in [0..(Len(text) - 1) -> Char]
      BY <1>3, <2>1, CharAssumption DEF StartCollapse, Replaced
    <2>. QED
      BY <1>1, <1>2, <1>3, <2>1, <2>2
      DEF StartCollapse, IInv, TypeOK, UnreadKept, Collapsing, At
  <1>4. CASE KeepElem
    BY <1>1, <1>4, CopyKeeps DEF KeepElem
  <1>5. CASE DropRepeat
    BY <1>1, <1>2, <1>5, MovingKeeps DEF DropRepeat, MovesOn, Collapsing
  <1>6. CASE StartRemoval
    <2>1. base' \in {0, 1} /\ len' \in 0..(Len(text) - base') /\ write_idx <= Len(text)
      BY <1>1, <1>2, <1>6, TextFacts DEF StartRemoval, IInv, Collapsing
    <2>. QED
      BY <1>1, <1>2, <1>6, <2>1 DEF StartRemoval, IInv, TypeOK, UnreadKept, Collapsing, At
  <1>7. CASE FinalDot \/ TooManyParentDirs \/ AssertFails \/ Return
    BY <1>1, <1>2, <1>7, MovingKeeps
    DEF FinalDot, TooManyParentDirs, AssertFails, Return, Ends, MovesOn, Collapsing, Outcomes
  <1>8. CASE DotDir
    BY <1>1, <1>2, <1>8, MovingKeeps DEF DotDir, AtDotDir, MovesOn, Collapsing
  <1>9. CASE ParentDir
    <2>1. write_idx' \in 0..write_idx
      BY <1>2, <1>9 DEF ParentDir, BacksUpTo
    <2>2. read_idx' \in read_idx..len /\ pc' \in {"dirs", "done"}
      BY <1>2, <1>9 DEF ParentDir, AtDotDot
    <2>. QED
      BY <1>1, <1>9, <2>1, <2>2, MovingKeeps DEF ParentDir, MovesOn, Collapsing, Outcomes
  <1>10. CASE CopyName
    BY <1>1, <1>10, CopyKeeps DEF CopyName, Collapsing
  <1>11. CASE UNCHANGED vars
    BY <1>1, <1>11 DEF vars, IInv, TypeOK, UnreadKept, Collapsing, At
  <1>. QED
    BY <1>1, <1>3, <1>4, <1>5, <1>6, <1>7, <1>8, <1>9, <1>10, <1>11
    DEF Next, CollapseRepeats, RemoveDotDirs, Returned

\* So it always holds.
LEMMA Invariance == Spec => []IInv
  BY InitIInv, NextIInv, PTL DEF Spec
-----------------------------------------------------------------------------
(***************************************************************************)
(* No index leaves the slice of the function that runs.                    *)
(***************************************************************************)
THEOREM TypeCorrect == Spec => []TypeOK
  BY Invariance, PTL DEF IInv

(***************************************************************************)
(* What is still to be read is what was given: writing in the slice that   *)
(* is read loses nothing.                                                  *)
(***************************************************************************)
THEOREM NothingOverwritten == Spec => []UnreadKept
  BY Invariance, PTL DEF IInv
-----------------------------------------------------------------------------
(***************************************************************************)
(* What has been written, and the dots in it: DottedAt(i, n) is a          *)
(* component that starts with n dots at i; it is a dot directory when      *)
(* nothing but a separator, or nothing at all, is behind them.             *)
(***************************************************************************)
Removing == pc \in {"dirs", "name", "done"}

DottedAt(i, n) ==
  /\ i + n <= write_idx
  /\ i = 0 \/ At(i - 1) = BackSlash
  /\ At(i) = Dot /\ At(i + n - 1) = Dot

\* A dot directory in what there was to read.
GivenDotDir(r) ==
  \E n \in {1, 2} :
    /\ r + n <= len
    /\ given[base + r] = Dot /\ given[base + (r + n - 1)] = Dot
    /\ r + n < len => given[base + (r + n)] = BackSlash

\* No separator follows a dot directory.
NoneInside ==
  \A i \in 0..write_idx, n \in {1, 2} :
    DottedAt(i, n) /\ i + n < write_idx => At(i + n) # BackSlash

\* None is at the end.
NoneAtEnd == \A i \in 0..write_idx, n \in {1, 2} : DottedAt(i, n) => i + n # write_idx

\* Dots at the end were read as the start of a longer name.
NameGoesOn ==
  /\ write_idx > 0 /\ At(write_idx - 1) # BackSlash
  /\ \A i \in 0..write_idx, n \in {1, 2} :
       DottedAt(i, n) /\ i + n = write_idx =>
         /\ n <= read_idx
         /\ given[base + (read_idx - n)] = Dot /\ given[base + (read_idx - 1)] = Dot
         /\ ~GivenDotDir(read_idx - n)

DotInv ==
  Removing =>
    /\ base = 1 => slice[0] = BackSlash
    /\ NoneInside
    /\ pc \in {"dirs", "done"} => NoneAtEnd
    /\ pc = "name" => NameGoesOn

\* A copy puts what is given at the end of what is written.
LEMMA CopyWrites ==
  ASSUME IInv, CopyElem, base = 1 => slice[0] = BackSlash
  PROVE  /\ \A i \in 0..(write_idx - 1) : At(i)' = At(i)
         /\ slice'[base + write_idx] = given[base + read_idx]
         /\ At(read_idx) = given[base + read_idx]
         /\ base' = 1 => slice'[0] = BackSlash
         /\ UNCHANGED <<given, base, len>>
         /\ write_idx' = write_idx + 1 /\ read_idx' = read_idx + 1
         /\ read_idx \in Nat /\ len \in Nat /\ read_idx < len
         /\ write_idx \in Nat /\ write_idx <= read_idx
  <1>1. /\ read_idx \in 0..(len - 1) /\ write_idx \in 0..read_idx /\ len \in Nat
        /\ base \in {0, 1} /\ base + write_idx \in 0..(Len(text) - 1)
        /\ Len(text) \in Nat
    BY TextFacts DEF IInv, TypeOK, CopyElem
  <1>2. At(read_idx) = given[base + read_idx]
    BY <1>1 DEF IInv, UnreadKept
  <1>3. slice' = [slice EXCEPT ![base + write_idx] = At(read_idx)] /\ base' = base
    BY DEF CopyElem
  <1>4. DOMAIN slice = 0..(Len(text) - 1)
    BY DEF IInv, TypeOK
  <1>5. slice'[base + write_idx] = At(read_idx)
    BY <1>1, <1>3, <1>4
  <1>6. ASSUME NEW i \in 0..(write_idx - 1) PROVE At(i)' = At(i)
    <2>1. base + i # base + write_idx /\ base + i \in 0..(Len(text) - 1)
      BY <1>1
    <2>. QED
      BY <1>3, <1>4, <2>1 DEF At
  <1>7. base = 1 => slice'[0] = slice[0]
    <2>. SUFFICES ASSUME base = 1 PROVE slice'[0] = slice[0]
      OBVIOUS
    <2>1. 0 # base + write_idx /\ 0 \in DOMAIN slice
      BY <1>1, <1>4
    <2>. QED
      BY <1>3, <2>1
  <1>8. /\ UNCHANGED <<given, base, len>>
        /\ write_idx' = write_idx + 1 /\ read_idx' = read_idx + 1
    BY DEF CopyElem
  <1>9. slice'[base + write_idx] = given[base + read_idx]
    BY <1>2, <1>5, Zenon
  <1>10. base' = 1 => slice'[0] = BackSlash
    BY <1>7, <1>8, Zenon
  <1>11. read_idx \in Nat /\ read_idx < len /\ write_idx \in Nat /\ write_idx <= read_idx
    BY <1>1
  <1>. QED
    BY <1>1, <1>2, <1>6, <1>8, <1>9, <1>10, <1>11, Zenon

(***************************************************************************)
(* The start of a name: it is none of the dot directories that were given. *)
(***************************************************************************)
LEMMA NameIsNoDotDir ==
  ASSUME IInv, AtName
  PROVE  ~GivenDotDir(read_idx)
  <1>1. read_idx \in Nat /\ len \in Nat /\ read_idx < len /\ base \in {0, 1}
    BY TextFacts DEF IInv, TypeOK, AtName
  <1>2. \A i \in read_idx..(len - 1) : At(i) = given[base + i]
    BY DEF IInv, UnreadKept
  <1>3. ASSUME NEW n \in {1, 2}, read_idx + n <= len,
               given[base + read_idx] = Dot, given[base + (read_idx + n - 1)] = Dot,
               read_idx + n < len => given[base + (read_idx + n)] = BackSlash
        PROVE  FALSE
    <2>1. At(read_idx) = Dot
      BY <1>1, <1>2, <1>3
    <2>2. CASE n = 1
      <3>1. CASE read_idx + 1 = len
        BY <1>1, <2>1, <3>1 DEF AtName, AtFinalDot, AtDot
      <3>2. CASE read_idx + 1 < len
        BY <1>1, <1>2, <1>3, <2>1, <2>2, <3>2 DEF AtName, AtDotDir, AtDot
      <3>. QED
        BY <1>1, <1>3, <2>2, <3>1, <3>2
    <2>3. CASE n = 2
      <3>1. read_idx + 1 \in read_idx..(len - 1) /\ read_idx + 2 - 1 = read_idx + 1
        BY <1>1, <1>3, <2>3
      <3>2. At(read_idx + 1) = Dot
        BY <1>2, <1>3, <2>3, <3>1
      <3>3. read_idx + 2 < len => At(read_idx + 2) = BackSlash
        BY <1>1, <1>2, <1>3, <2>3
      <3>. QED
        BY <1>1, <2>1, <3>1, <3>2, <3>3 DEF AtName, AtDotDot, AtDot
    <2>. QED
      BY <2>2, <2>3
  <1>. QED
    BY <1>3 DEF GivenDotDir

(***************************************************************************)
(* A name is written behind a component that is none, or behind none.      *)
(***************************************************************************)
LEMMA CopyNameClean ==
  ASSUME IInv, DotInv, CopyName
  PROVE  DotInv'
  <1>1. /\ Removing /\ (base = 1 => slice[0] = BackSlash) /\ NoneInside
        /\ pc = "dirs" => AtName /\ NoneAtEnd
        /\ pc = "name" => NameGoesOn
        /\ pc \in {"dirs", "name"}
    BY DEF CopyName, DotInv, Removing
  <1>2. /\ \A i \in 0..(write_idx - 1) : At(i)' = At(i)
        /\ slice'[base + write_idx] = given[base + read_idx]
        /\ At(read_idx) = given[base + read_idx]
        /\ base' = 1 => slice'[0] = BackSlash
        /\ UNCHANGED <<given, base, len>>
        /\ write_idx' = write_idx + 1 /\ read_idx' = read_idx + 1
        /\ read_idx \in Nat /\ len \in Nat /\ read_idx < len
        /\ write_idx \in Nat /\ write_idx <= read_idx
    BY <1>1, CopyWrites DEF CopyName
  <1> DEFINE c == given[base + read_idx]
             w == write_idx
  <1>3. \A i \in Nat : i = w => At(i)' = c
    BY <1>2 DEF At
  <1>4. pc' = IF c = BackSlash THEN "dirs" ELSE "name"
    BY <1>2 DEF CopyName
  <1>5. BackSlash # Dot
    BY DEF BackSlash, Dot
  <1> HIDE DEF c, w
  \* What starts with dots now did so before, but for dots just written.
  <1>6. ASSUME NEW i \in Nat, NEW n \in {1, 2}, DottedAt(i, n)', i + n <= w
        PROVE  i \in 0..w /\ DottedAt(i, n)
    <2>1. i + n - 1 \in 0..(w - 1) /\ i \in 0..(w - 1) /\ (i # 0 => i - 1 \in 0..(w - 1))
      BY <1>2, <1>6 DEF w
    <2>2. At(i) = Dot /\ At(i + n - 1) = Dot /\ (i # 0 => At(i - 1) = BackSlash)
      BY <1>2, <1>6, <2>1 DEF DottedAt, w
    <2>. QED
      BY <1>2, <1>6, <2>1, <2>2 DEF DottedAt, w
  <1>7. ASSUME NEW i \in 0..w, NEW n \in {1, 2}, DottedAt(i, n), i + n = w
        PROVE  /\ pc = "name"
               /\ n <= read_idx
               /\ given[base + (read_idx - n)] = Dot /\ given[base + (read_idx - 1)] = Dot
               /\ ~GivenDotDir(read_idx - n)
    BY <1>1, <1>7 DEF NoneAtEnd, NameGoesOn, w
  <1>8. NoneInside'
    <2> SUFFICES ASSUME NEW i \in Nat, NEW n \in {1, 2}, DottedAt(i, n)', i + n < w + 1,
                        At(i + n)' = BackSlash
                 PROVE  FALSE
      BY <1>2 DEF NoneInside, w
    <2>1. i \in 0..w /\ DottedAt(i, n)
      BY <1>2, <1>6 DEF w
    <2>2. CASE i + n < w
      <3>1. At(i + n) = BackSlash
        BY <1>2, <2>2 DEF w
      <3>. QED
        BY <1>1, <2>1, <2>2, <3>1 DEF NoneInside, w
    <2>3. CASE i + n = w
      <3>1. c = BackSlash
        BY <1>2, <1>3, <2>3
      <3>2. /\ n <= read_idx /\ ~GivenDotDir(read_idx - n)
            /\ given[base + (read_idx - n)] = Dot /\ given[base + (read_idx - 1)] = Dot
        BY <1>7, <2>1, <2>3
      <3>3. GivenDotDir(read_idx - n)
        <4>1. /\ read_idx - n + n = read_idx /\ read_idx - n + n - 1 = read_idx - 1
          BY <1>2
        <4>. QED
          BY <1>2, <3>1, <3>2, <4>1 DEF GivenDotDir, c
      <3>. QED
        BY <3>2, <3>3
    <2>. QED
      BY <1>2, <2>2, <2>3 DEF w
  <1>9. CASE c = BackSlash
    <2>1. NoneAtEnd'
      <3> SUFFICES ASSUME NEW i \in Nat, NEW n \in {1, 2}, DottedAt(i, n)', i + n = w + 1
                   PROVE  FALSE
        BY <1>2 DEF NoneAtEnd, w
      <3>1. At(i + n - 1)' = c
        BY <1>2, <1>3 DEF w
      <3>. QED
        BY <1>5, <1>9, <3>1 DEF DottedAt
    <2>. QED
      BY <1>2, <1>4, <1>8, <1>9, <2>1 DEF DotInv
  <1>10. CASE c # BackSlash
    <2>1. write_idx' > 0 /\ At(write_idx - 1)' = c
      BY <1>2 DEF At, c
    <2>2. ASSUME NEW i \in Nat, NEW n \in {1, 2}, DottedAt(i, n)', i + n = w + 1
          PROVE  /\ n <= read_idx + 1
                 /\ given[base + (read_idx + 1 - n)] = Dot /\ given[base + read_idx] = Dot
                 /\ ~GivenDotDir(read_idx + 1 - n)
      <3>1. c = Dot
        <4>1. At(i + n - 1)' = c
          BY <1>2, <1>3, <2>2 DEF w
        <4>. QED
          BY <2>2, <4>1 DEF DottedAt
      <3>2. CASE n = 1
        <4>1. i = w /\ read_idx + 1 - n = read_idx
          BY <1>2, <2>2, <3>2 DEF w
        <4>2. w # 0 => At(w - 1) = BackSlash
          BY <1>2, <2>2, <4>1 DEF DottedAt, w
        <4>3. pc = "dirs"
          BY <1>1, <1>2, <4>2 DEF NameGoesOn, w
        <4>4. ~GivenDotDir(read_idx)
          BY <1>1, <4>3, NameIsNoDotDir
        <4>. QED
          BY <1>2, <3>1, <3>2, <4>1, <4>4 DEF c
      <3>3. CASE n = 2
        <4>1. i + 1 = w /\ i \in 0..w /\ read_idx + 1 - n = read_idx - 1
          BY <1>2, <2>2, <3>3 DEF w
        <4>2. DottedAt(i, 1)
          <5>1. At(i) = Dot /\ (i # 0 => At(i - 1) = BackSlash)
            BY <1>2, <2>2, <4>1 DEF DottedAt, w
          <5>. QED
            BY <1>2, <4>1, <5>1 DEF DottedAt, w
        <4>3. /\ 1 <= read_idx
              /\ given[base + (read_idx - 1)] = Dot
              /\ ~GivenDotDir(read_idx - 1)
          BY <1>7, <4>1, <4>2
        <4>. QED
          BY <1>2, <3>1, <3>3, <4>1, <4>3 DEF c
      <3>. QED
        BY <3>2, <3>3
    <2>4. ASSUME NEW i \in 0..(w + 1), NEW n \in {1, 2}, DottedAt(i, n)', i + n = w + 1
          PROVE  /\ n <= read_idx'
                 /\ given'[base' + (read_idx' - n)] = Dot /\ given'[base' + (read_idx' - 1)] = Dot
                 /\ ~GivenDotDir(read_idx - n)'
      <3>1. i \in Nat /\ w \in Nat
        BY <1>2 DEF w
      <3>2. /\ n <= read_idx + 1
            /\ given[base + (read_idx + 1 - n)] = Dot /\ given[base + read_idx] = Dot
            /\ ~GivenDotDir(read_idx + 1 - n)
        BY <2>2, <2>4, <3>1
      <3>3. read_idx' = read_idx + 1 /\ read_idx + 1 - 1 = read_idx /\ given' = given /\ base' = base
        BY <1>2
      <3>4. GivenDotDir(read_idx - n)' <=> GivenDotDir(read_idx + 1 - n)
        BY <1>2, <3>3 DEF GivenDotDir
      <3>5. /\ base' + (read_idx' - n) = base + (read_idx + 1 - n)
            /\ base' + (read_idx' - 1) = base + read_idx
        <4>1. base \in {0, 1} /\ read_idx \in Nat
          BY <1>2 DEF IInv, TypeOK
        <4>. QED
          BY <3>3, <4>1
      <3>6. n <= read_idx'
        BY <3>2, <3>3, Zenon
      <3>7. given'[base' + (read_idx' - n)] = Dot
        BY <3>2, <3>3, <3>5
      <3>8. given'[base' + (read_idx' - 1)] = Dot
        BY <3>2, <3>3, <3>5
      <3>. QED
        BY <3>2, <3>4, <3>6, <3>7, <3>8, Zenon
    <2>5. NameGoesOn'
      BY <1>2, <1>10, <2>1, <2>4 DEF NameGoesOn, w
    <2>. QED
      BY <1>2, <1>4, <1>8, <1>10, <2>5 DEF DotInv
  <1>. QED
    BY <1>9, <1>10

(***************************************************************************)
(* ".." leaves a beginning of what was written that ends in front of a     *)
(* separator, and no separator is behind a dot directory.                  *)
(***************************************************************************)
LEMMA ParentDirClean ==
  ASSUME IInv, DotInv, ParentDir
  PROVE  DotInv'
  <1>1. /\ (base = 1 => slice[0] = BackSlash) /\ NoneInside
        /\ pc = "dirs"
    BY DEF ParentDir, DotInv, Removing
  <1>2. PICK q \in 0..write_idx : BacksUpTo(q) /\ write_idx' = q
    BY DEF ParentDir
  <1>3. write_idx \in Nat /\ q \in 0..(write_idx - 2) /\ (q > 0 => At(q) = BackSlash)
    BY <1>2, TextFacts DEF BacksUpTo, IInv, TypeOK
  <1>4. slice' = slice /\ base' = base /\ pc' \in {"dirs", "done"}
    BY <1>1 DEF ParentDir
  <1>5. ASSUME NEW i \in 0..q, NEW n \in {1, 2}, DottedAt(i, n)'
        PROVE  DottedAt(i, n) /\ i \in 0..write_idx /\ i + n < write_idx
               /\ i + n <= q /\ At(i + n)' = At(i + n) /\ At(i + n) # BackSlash
    <2>1. i + n <= q /\ DottedAt(i, n) /\ i \in 0..write_idx /\ i + n < write_idx
      BY <1>2, <1>3, <1>4, <1>5 DEF DottedAt, At
    <2>. QED
      BY <1>1, <1>4, <2>1 DEF NoneInside, At
  <1>6. NoneInside'
    BY <1>2, <1>5 DEF NoneInside
  <1>7. NoneAtEnd'
    <2> SUFFICES ASSUME NEW i \in 0..q, NEW n \in {1, 2}, DottedAt(i, n)', i + n = q
                 PROVE  FALSE
      BY <1>2 DEF NoneAtEnd
    <2>1. At(q) # BackSlash
      BY <1>5
    <2>2. q > 0
      BY <1>3
    <2>. QED
      BY <1>3, <2>1, <2>2
  <1>. QED
    BY <1>1, <1>4, <1>6, <1>7 DEF DotInv

(***************************************************************************)
(* A name that ends where the path ends is longer than its dots.           *)
(***************************************************************************)
LEMMA ReturnClean ==
  ASSUME IInv, DotInv, Return
  PROVE  DotInv'
  <1>1. /\ (base = 1 => slice[0] = BackSlash) /\ NoneInside
        /\ pc = "dirs" => NoneAtEnd
        /\ pc = "name" => NameGoesOn
        /\ pc \in {"dirs", "name"} /\ read_idx = len /\ len \in Nat /\ write_idx \in Nat
    BY TextFacts DEF Return, DotInv, Removing, IInv, TypeOK
  <1>2. NoneAtEnd
    <2>1. SUFFICES ASSUME NEW i \in 0..write_idx, NEW n \in {1, 2}, pc = "name",
                          DottedAt(i, n), i + n = write_idx
                   PROVE  FALSE
      BY <1>1 DEF NoneAtEnd
    <2>2. /\ n <= len /\ ~GivenDotDir(len - n)
          /\ given[base + (len - n)] = Dot /\ given[base + (len - 1)] = Dot
      BY <1>1, <2>1 DEF NameGoesOn
    <2>3. len - n + n = len /\ len - n + n - 1 = len - 1
      BY <1>1
    <2>. QED
      BY <1>1, <2>2, <2>3 DEF GivenDotDir
  <1>3. UNCHANGED <<slice, base, write_idx>> /\ pc' = "done"
    BY DEF Return, Ends
  <1>4. NoneInside' /\ NoneAtEnd'
    BY <1>1, <1>2, <1>3 DEF NoneInside, NoneAtEnd, DottedAt, At
  <1>. QED
    BY <1>1, <1>3, <1>4 DEF DotInv

\* Every step keeps what is known of the dots.
LEMMA NextDotInv == IInv /\ DotInv /\ [Next]_vars => DotInv'
  <1>1. SUFFICES ASSUME IInv, DotInv, [Next]_vars PROVE DotInv'
    OBVIOUS
  <1>2. CASE CollapseRepeats
    BY <1>2 DEF CollapseRepeats, StartCollapse, KeepElem, DropRepeat, DotInv, Removing
  <1>3. CASE StartRemoval
    <2>1. pc' = "dirs" /\ write_idx' = 0 /\ (base' = 1 => slice'[0] = BackSlash)
      BY <1>3 DEF StartRemoval
    <2>2. NoneInside' /\ NoneAtEnd'
      BY <2>1 DEF NoneInside, NoneAtEnd, DottedAt
    <2>. QED
      BY <2>1, <2>2 DEF DotInv
  <1>4. CASE FinalDot \/ DotDir \/ UNCHANGED vars
    <2>1. UNCHANGED <<slice, given, base, len, write_idx>>
      BY <1>4 DEF FinalDot, DotDir, Ends, vars
    <2>2. (NoneInside => NoneInside') /\ (NoneAtEnd => NoneAtEnd')
      BY <2>1 DEF NoneInside, NoneAtEnd, DottedAt, At
    <2>3. CASE pc = "dirs"
      <3>1. pc' \in {"dirs", "done"}
        BY <1>4, <2>3 DEF FinalDot, DotDir, Ends, vars
      <3>. QED
        BY <1>1, <2>1, <2>2, <2>3, <3>1 DEF DotInv, Removing
    <2>4. CASE pc # "dirs"
      <3>1. UNCHANGED vars
        BY <1>4, <2>4 DEF FinalDot, DotDir
      <3>. QED
        BY <1>1, <3>1
        DEF vars, DotInv, Removing, NoneInside, NoneAtEnd, NameGoesOn, GivenDotDir, DottedAt, At
    <2>. QED
      BY <2>3, <2>4
  <1>5. CASE TooManyParentDirs \/ AssertFails
    BY <1>5 DEF TooManyParentDirs, AssertFails, Ends, DotInv, Removing
  <1>6. CASE ParentDir
    BY <1>1, <1>6, ParentDirClean
  <1>7. CASE CopyName
    BY <1>1, <1>7, CopyNameClean
  <1>8. CASE Return
    BY <1>1, <1>8, ReturnClean
  <1>. QED
    BY <1>1, <1>2, <1>3, <1>4, <1>5, <1>6, <1>7, <1>8 DEF Next, RemoveDotDirs, Returned

\* An index into what is written, seen from the start of the result.
LEMMA InsideBase ==
  ASSUME NEW i \in Int, NEW n \in Int, NEW b \in Int, NEW w \in Int, i >= 1, n >= 1,
         ((i - 1) - b) + n < w
  PROVE  i + n \in 1..(b + w)
  OBVIOUS

(***************************************************************************)
(* A dot directory of the result is one of what was written.               *)
(***************************************************************************)
LEMMA CleanResult == IInv /\ DotInv => NoDotDirLeft
  <1>1. SUFFICES ASSUME IInv, DotInv, pc = "done", NEW i \in DOMAIN Result, NEW n \in {1, 2},
                        i = 1 \/ Result[i - 1] = BackSlash,
                        i + n - 1 <= Len(Result),
                        Result[i] = Dot, Result[i + n - 1] = Dot,
                        i + n <= Len(Result) => Result[i + n] = BackSlash
                 PROVE  FALSE
    BY DEF NoDotDirLeft, DotDirAt
  <1>2. /\ base \in {0, 1} /\ write_idx \in Nat
        /\ (base = 1 => slice[0] = BackSlash) /\ NoneInside /\ NoneAtEnd
    BY <1>1, TextFacts DEF IInv, TypeOK, DotInv, Removing
  <1>3. /\ i \in 1..(base + write_idx)
        /\ Len(Result) = base + write_idx
        /\ \A k \in 1..(base + write_idx) : Result[k] = slice[k - 1]
    BY <1>1, <1>2 DEF Result
  <1>4. slice[i - 1] = Dot /\ BackSlash # Dot
    BY <1>1, <1>3 DEF BackSlash, Dot
  <1> DEFINE j == i - 1 - base
  <1>5. j \in 0..write_idx /\ base + j = i - 1 /\ j + n <= write_idx
    BY <1>1, <1>2, <1>3, <1>4
  <1>6. j = 0 \/ At(j - 1) = BackSlash
    <2>1. CASE i = 1
      BY <1>2, <1>5, <2>1
    <2>2. CASE i # 1
      <3>1. slice[i - 1 - 1] = BackSlash
        BY <1>1, <1>2, <1>3, <2>2
      <3>2. base + (j - 1) = i - 1 - 1
        BY <1>2, <1>3
      <3>. QED
        BY <3>1, <3>2 DEF At
    <2>. QED
      BY <2>1, <2>2
  <1>7. At(j) = Dot /\ At(j + n - 1) = Dot
    <2>1. Result[i + n - 1] = slice[i + n - 1 - 1]
      <3>1. i + n - 1 \in 1..Len(Result) /\ i \in Int /\ n \in {1, 2}
        BY <1>1, <1>2, <1>3
      <3>2. Result[i + n - 1] = slice[(i + n - 1) - 1]
        BY <1>3, <3>1, Zenon
      <3>3. (i + n - 1) - 1 = i + n - 1 - 1
        BY <3>1
      <3>. QED
        BY <3>2, <3>3, Zenon
    <2>2. base + (j + n - 1) = i + n - 1 - 1
      BY <1>2, <1>3
    <2>. QED
      BY <1>1, <1>4, <1>5, <2>1, <2>2 DEF At
  <1>8. DottedAt(j, n)
    BY <1>5, <1>6, <1>7 DEF DottedAt
  <1>9. j + n < write_idx
    BY <1>2, <1>5, <1>8 DEF NoneAtEnd
  <1>10. At(j + n) = BackSlash
    <2>0. i \in Int /\ n \in Int /\ base \in Int /\ write_idx \in Int /\ i >= 1 /\ n >= 1
      BY <1>2, <1>3
    <2>1. i + n \in 1..(base + write_idx) /\ i + n <= Len(Result)
      <3>1. ((i - 1) - base) + n < write_idx
        BY <1>9, Zenon
      <3>2. i + n \in 1..(base + write_idx)
        BY <2>0, <3>1, InsideBase
      <3>. QED
        BY <1>3, <3>2
    <2>2. slice[(i + n) - 1] = BackSlash
      <3> DEFINE k == i + n
      <3>1. k \in 1..(base + write_idx) /\ Result[k] = BackSlash
        BY <1>1, <2>1, Zenon
      <3> HIDE DEF k
      <3>2. slice[k - 1] = BackSlash
        BY <1>3, <3>1
      <3>. QED
        BY <3>2, Zenon DEF k
    <2>3. base + (j + n) = (i + n) - 1
      BY <1>2, <1>3
    <2>. QED
      BY <2>2, <2>3, Zenon DEF At
  <1>. QED
    BY <1>5, <1>8, <1>9, <1>10, <1>2 DEF NoneInside

(***************************************************************************)
(* "Removes '.' and '..' path components": whatever removeDotDirsSanitized *)
(* returns has none, for paths of every length.                            *)
(***************************************************************************)
THEOREM NoDotDirEverLeft == Spec => []NoDotDirLeft
  <1>1. Init => DotInv
    BY DEF Init, DotInv, Removing
  <1>2. IInv /\ DotInv /\ [Next]_vars => DotInv'
    BY NextDotInv
  <1>3. IInv /\ DotInv => NoDotDirLeft
    BY CleanResult
  <1>. QED
    BY Invariance, <1>1, <1>2, <1>3, PTL DEF Spec
-----------------------------------------------------------------------------
(***************************************************************************)
(* The folds of the reference, one step per element.                       *)
(***************************************************************************)
Kept(kept, c) ==
  IF c = BackSlash /\ kept # <<>> /\ Last(kept) = BackSlash THEN kept ELSE Append(kept, c)

Squeezed(s) == FoldLeft(Kept, <<>>, s)

\* A character is kept or not; what is kept is a string.
LEMMA KeptType ==
  ASSUME NEW S, NEW kept \in Seq(S), NEW c \in S
  PROVE  Kept(kept, c) \in Seq(S)
BY DEF Kept

\* Sanitized keeps one character after the other.
LEMMA SqueezedIs ==
  ASSUME NEW S
  PROVE  /\ Squeezed(<<>>) = <<>>
         /\ \A s \in Seq(S) : Squeezed(s) \in Seq(S)
         /\ \A s \in Seq(S), e \in S : Squeezed(Append(s, e)) = Kept(Squeezed(s), e)
  <1> DEFINE V == Seq(S)
             E == S
             step == [x \in V \X E |-> Kept(x[1], x[2])]
             first == <<>>
             Run(it, s) == [t \in SUBSET (DOMAIN s) |->
                              IF t = {} THEN first ELSE Kept(it[t \ {Max(t)}], s[Max(t)])]
             f(s) == CHOOSE it : it = Run(it, s)
  <1>1. \A v \in V, e \in E : step[<<v, e>>] = Kept(v, e) /\ step[<<v, e>>] \in V
    BY KeptType
  <1>2. step \in Steps(V, E)
    BY KeptType DEF Steps
  <1>3. first \in V
    OBVIOUS
  <1>4. \A s : Squeezed(s) = f(s)[DOMAIN s]
    BY DEF Squeezed, FoldLeft, MapThenFoldSet
  <1>. HIDE DEF step, first, V, E
  <1>5. ASSUME NEW s \in Seq(E)
        PROVE  RunsIn(f(s), V, step, first, s) /\ Squeezed(s) = f(s)[1..Len(s)]
    <2>1. DOMAIN s = 1..Len(s)
      OBVIOUS
    <2>2. ASSUME NEW t \in SUBSET (1..Len(s)), t # {}
          PROVE  t \ {Max(t)} \in SUBSET (1..Len(s)) /\ s[Max(t)] \in E
      BY <2>2, MaxBelow
    <2>3. PICK it \in Runs(V, Len(s)) : IsRun(it, step, first, s)
      BY <1>2, <1>3, RunExists, Zenon
    <2>4. it = Run(it, s)
      BY <1>1, <2>1, <2>2, <2>3 DEF Runs, IsRun
    <2>5. f(s) = Run(f(s), s)
      <3>. HIDE DEF Run
      <3>. QED
        BY <2>4
    <2>. HIDE DEF f
    <2>6. RunsIn(f(s), V, step, first, s)
      BY <1>1, <2>1, <2>2, <2>5, ZenonT(60) DEF RunsIn
    <2>. QED
      BY <1>4, <2>1, <2>6
  <1>. HIDE DEF f
  <1>6. ASSUME NEW s \in Seq(E)
        PROVE  Squeezed(s) \in V /\ (s = <<>> => Squeezed(s) = first)
    <2>1. GoesForward(f(s), V, step, first, s)
      BY <1>2, <1>3, <1>5, RunForward, Zenon
    <2>. QED
      BY <1>5, <2>1 DEF GoesForward
  <1>7. ASSUME NEW s \in Seq(E), NEW e \in E
        PROVE  Squeezed(Append(s, e)) = Kept(Squeezed(s), e)
    <2>1. Append(s, e) \in Seq(E)
      OBVIOUS
    <2>2. Squeezed(Append(s, e)) = step[<<Squeezed(s), e>>]
      <3>1. RunsIn(f(s), V, step, first, s) /\ RunsIn(f(Append(s, e)), V, step, first, Append(s, e))
        BY <1>5, <2>1
      <3>2. GoesOn(f(s), f(Append(s, e)), step, s, e)
        BY <1>2, <1>3, <3>1, RunLonger, Zenon
      <3>. QED
        BY <1>5, <2>1, <3>2 DEF GoesOn
    <2>. QED
      BY <1>1, <1>6, <2>2
  <1>8. <<>> \in Seq(E)
    OBVIOUS
  <1>. QED
    BY <1>6, <1>7, <1>8 DEF first, V, E

Places(S) == [dirs : Seq(Seq(S)), ok : BOOLEAN, shallow : BOOLEAN]

Into(at, n) == Goes(at, n, <<BackSlash>>)

Way(names) == FoldLeft(Into, Nowhere, names)

\* A name leads from a place to a place.
LEMMA GoesType ==
  ASSUME NEW S, NEW at \in Places(S), NEW n \in Seq(S), NEW separator \in Seq(S)
  PROVE  Goes(at, n, separator) \in Places(S)
  <1>1. Pop(at.dirs) \in Seq(Seq(S))
    BY PopIs DEF Places
  <1>2. Append(at.dirs, n \o separator) \in Seq(Seq(S))
    BY DEF Places
  <1>. QED
    BY <1>1, <1>2 DEF Goes, Places

\* So does a directory.
LEMMA IntoType ==
  ASSUME NEW S, BackSlash \in S, NEW at \in Places(S), NEW n \in Seq(S)
  PROVE  Into(at, n) \in Places(S)
  <1>1. <<BackSlash>> \in Seq(S)
    OBVIOUS
  <1>. QED
    BY <1>1, GoesType DEF Into

\* Walk enters one directory after the other.
LEMMA WayIs ==
  ASSUME NEW S, BackSlash \in S
  PROVE  /\ Way(<<>>) = Nowhere
         /\ \A s \in Seq(Seq(S)) : Way(s) \in Places(S)
         /\ \A s \in Seq(Seq(S)), e \in Seq(S) : Way(Append(s, e)) = Into(Way(s), e)
  <1> DEFINE V == Places(S)
             E == Seq(S)
             step == [x \in V \X E |-> Into(x[1], x[2])]
             first == Nowhere
             Run(it, s) == [t \in SUBSET (DOMAIN s) |->
                              IF t = {} THEN first ELSE Into(it[t \ {Max(t)}], s[Max(t)])]
             f(s) == CHOOSE it : it = Run(it, s)
  <1>1. \A v \in V, e \in E : step[<<v, e>>] = Into(v, e) /\ step[<<v, e>>] \in V
    BY IntoType
  <1>2. step \in Steps(V, E)
    BY IntoType DEF Steps
  <1>3. first \in V
    BY DEF Nowhere, Places
  <1>4. \A s : Way(s) = f(s)[DOMAIN s]
    BY DEF Way, FoldLeft, MapThenFoldSet
  <1>. HIDE DEF step, first, V, E
  <1>5. ASSUME NEW s \in Seq(E)
        PROVE  RunsIn(f(s), V, step, first, s) /\ Way(s) = f(s)[1..Len(s)]
    <2>1. DOMAIN s = 1..Len(s)
      OBVIOUS
    <2>2. ASSUME NEW t \in SUBSET (1..Len(s)), t # {}
          PROVE  t \ {Max(t)} \in SUBSET (1..Len(s)) /\ s[Max(t)] \in E
      BY <2>2, MaxBelow
    <2>3. PICK it \in Runs(V, Len(s)) : IsRun(it, step, first, s)
      BY <1>2, <1>3, RunExists, Zenon
    <2>4. it = Run(it, s)
      BY <1>1, <2>1, <2>2, <2>3 DEF Runs, IsRun
    <2>5. f(s) = Run(f(s), s)
      <3>. HIDE DEF Run
      <3>. QED
        BY <2>4
    <2>. HIDE DEF f
    <2>6. RunsIn(f(s), V, step, first, s)
      BY <1>1, <2>1, <2>2, <2>5, ZenonT(60) DEF RunsIn
    <2>. QED
      BY <1>4, <2>1, <2>6
  <1>. HIDE DEF f
  <1>6. ASSUME NEW s \in Seq(E)
        PROVE  Way(s) \in V /\ (s = <<>> => Way(s) = first)
    <2>1. GoesForward(f(s), V, step, first, s)
      BY <1>2, <1>3, <1>5, RunForward, Zenon
    <2>. QED
      BY <1>5, <2>1 DEF GoesForward
  <1>7. ASSUME NEW s \in Seq(E), NEW e \in E
        PROVE  Way(Append(s, e)) = Into(Way(s), e)
    <2>1. Append(s, e) \in Seq(E)
      OBVIOUS
    <2>2. Way(Append(s, e)) = step[<<Way(s), e>>]
      <3>1. RunsIn(f(s), V, step, first, s) /\ RunsIn(f(Append(s, e)), V, step, first, Append(s, e))
        BY <1>5, <2>1
      <3>2. GoesOn(f(s), f(Append(s, e)), step, s, e)
        BY <1>2, <1>3, <3>1, RunLonger, Zenon
      <3>. QED
        BY <1>5, <2>1, <3>2 DEF GoesOn
    <2>. QED
      BY <1>1, <1>6, <2>2
  <1>8. <<>> \in Seq(E)
    OBVIOUS
  <1>. QED
    BY <1>6, <1>7, <1>8 DEF first, V, E

\* What the two are for.
LEMMA FoldsAre ==
  /\ \A s : Sanitized(s) = Squeezed(Converted(s))
  /\ \A s : Walk(s) = LET names == Split(IF Rooted(s) THEN Tail(s) ELSE s)
                      IN  Goes(Way(Front(names)), Last(names), <<>>)
BY DEF Sanitized, Squeezed, Kept, Walk, Way, Into, FoldLeft, MapThenFoldSet

-----------------------------------------------------------------------------
(***************************************************************************)
(* FlattenSeq puts directories one behind the other.  It is a recursive    *)
(* function, of which there is one, and which goes on as it started.       *)
(***************************************************************************)
Flattens(f, s) == f = [i \in 1..Len(s) |-> IF i = 1 THEN s[i] ELSE f[i - 1] \o s[i]]

\* One more sequence, one more entry.
LEMMA FlattensAppend ==
  ASSUME NEW S, NEW s \in Seq(Seq(S)), NEW e \in Seq(S),
         NEW f \in [1..Len(s) -> Seq(S)], Flattens(f, s)
  PROVE  \E g \in [1..Len(Append(s, e)) -> Seq(S)] : Flattens(g, Append(s, e))
  <1> DEFINE t == Append(s, e)
             n == Len(s)
             g == [i \in 1..Len(t) |-> IF i <= n THEN f[i] ELSE IF n = 0 THEN e ELSE f[n] \o e]
  <1>1. n \in Nat /\ Len(t) = n + 1 /\ t[n + 1] = e /\ \A i \in 1..n : t[i] = s[i]
    OBVIOUS
  <1>2. \A i \in 1..n : f[i] = IF i = 1 THEN s[i] ELSE f[i - 1] \o s[i]
    BY DEF Flattens
  <1>. HIDE DEF t, n
  <1>3. ASSUME NEW i \in 1..Len(t) PROVE g[i] \in Seq(S)
    <2>1. CASE i <= n
      BY <1>1, <2>1 DEF n
    <2>2. CASE ~(i <= n)
      <3>1. n # 0 => n \in 1..Len(s)
        BY <1>1 DEF n
      <3>2. n # 0 => f[n] \in Seq(S)
        BY <3>1
      <3>. QED
        BY <2>2, <3>2
    <2>. QED
      BY <2>1, <2>2
  <1>4. ASSUME NEW i \in 1..Len(t)
        PROVE  g[i] = IF i = 1 THEN t[i] ELSE g[i - 1] \o t[i]
    <2>1. CASE i <= n
      <3>1. i \in 1..n /\ (i # 1 => i - 1 \in 1..Len(t) /\ i - 1 <= n)
        BY <1>1, <2>1
      <3>. QED
        BY <1>1, <1>2, <2>1, <3>1
    <2>2. CASE ~(i <= n)
      <3>1. i = n + 1 /\ (n # 0 => i - 1 = n /\ n \in 1..Len(t) /\ i # 1) /\ (n = 0 => i = 1)
        BY <1>1, <2>2
      <3>. QED
        BY <1>1, <2>2, <3>1
    <2>. QED
      BY <2>1, <2>2
  <1>5. g \in [1..Len(t) -> Seq(S)]
    BY <1>3
  <1>6. g = [i \in 1..Len(t) |-> IF i = 1 THEN t[i] ELSE g[i - 1] \o t[i]]
    <2> DEFINE h == [i \in 1..Len(t) |-> IF i = 1 THEN t[i] ELSE g[i - 1] \o t[i]]
    <2>1. \A i \in 1..Len(t) : g[i] = h[i]
      BY <1>4
    <2>. QED
      BY <2>1
  <1>. HIDE DEF g
  <1>. QED
    BY <1>5, <1>6 DEF Flattens, t

\* So there is one for every sequence.
LEMMA FlattensAll ==
  ASSUME NEW S, NEW s \in Seq(Seq(S))
  PROVE  \E f \in [1..Len(s) -> Seq(S)] : Flattens(f, s)
  <1> DEFINE T == {t \in Seq(Seq(S)) : \E f \in [1..Len(t) -> Seq(S)] : Flattens(f, t)}
  <1>1. <<>> \in T
    <2> DEFINE f == [i \in 1..0 |-> <<>>]
    <2>1. Len(<<>>) = 0 /\ f \in [1..0 -> Seq(S)] /\ <<>> \in Seq(Seq(S))
      OBVIOUS
    <2>2. Flattens(f, <<>>)
      BY <2>1 DEF Flattens
    <2>. HIDE DEF f
    <2>. QED
      BY <2>1, <2>2
  <1>2. ASSUME NEW t \in Seq(Seq(S)), NEW e \in Seq(S), t \in T PROVE Append(t, e) \in T
    <2>1. PICK f \in [1..Len(t) -> Seq(S)] : Flattens(f, t)
      BY <1>2
    <2>2. \E g \in [1..Len(Append(t, e)) -> Seq(S)] : Flattens(g, Append(t, e))
      BY <2>1, FlattensAppend
    <2>3. Append(t, e) \in Seq(Seq(S))
      OBVIOUS
    <2>. QED
      BY <2>2, <2>3
  <1>. HIDE DEF T
  <1>3. \A t \in Seq(Seq(S)) : t \in T
    BY <1>1, <1>2, AllSequences
  <1>. QED
    BY <1>3 DEF T

\* As far as the sequences are the same, so is what they give.
Alike(n, s, t) == \A i \in 1..n : s[i] = t[i]

\* Two such functions agree as far as the sequences do.
LEMMA FlattensOnce ==
  ASSUME NEW s, NEW t, NEW f, NEW g, Flattens(f, s), Flattens(g, t), NEW n \in Nat,
         Len(s) \in Nat, Len(t) \in Nat, n <= Len(s), n <= Len(t), Alike(n, s, t)
  PROVE  Alike(n, f, g)
  <1> DEFINE T == {m \in Nat : m \in 1..n => f[m] = g[m]}
  <1>1. /\ \A i \in 1..n : f[i] = IF i = 1 THEN s[i] ELSE f[i - 1] \o s[i]
        /\ \A i \in 1..n : g[i] = IF i = 1 THEN t[i] ELSE g[i - 1] \o t[i]
    <2>1. \A i \in 1..n : i \in 1..Len(s) /\ i \in 1..Len(t)
      OBVIOUS
    <2>. QED
      BY <2>1 DEF Flattens
  <1>0. \A i \in 1..n : s[i] = t[i]
    BY DEF Alike
  <1>2. 0 \in T
    OBVIOUS
  <1>3. ASSUME NEW m \in Nat, m \in T PROVE m + 1 \in T
    <2> SUFFICES ASSUME m + 1 \in 1..n PROVE f[m + 1] = g[m + 1]
      OBVIOUS
    <2>1. CASE m = 0
      BY <1>0, <1>1, <2>1
    <2>2. CASE m # 0
      <3>1. m \in 1..n /\ m + 1 - 1 = m /\ m + 1 # 1
        BY <2>2
      <3>. QED
        BY <1>0, <1>1, <1>3, <3>1
    <2>. QED
      BY <2>1, <2>2
  <1>. HIDE DEF T
  <1>4. \A m \in Nat : m \in T
    BY <1>2, <1>3, AllNaturals
  <1>. QED
    BY <1>4 DEF T, Alike

\* One more directory goes behind them.
LEMMA FlattenIs ==
  ASSUME NEW S, NEW s \in Seq(Seq(S)), NEW e \in Seq(S)
  PROVE  /\ FlattenSeq(<<>>) = <<>> /\ FlattenSeq(s) \in Seq(S)
         /\ FlattenSeq(Append(s, e)) = FlattenSeq(s) \o e
  <1> DEFINE f(x) == CHOOSE y : Flattens(y, x)
  <1>1. \A x : FlattenSeq(x) = IF Len(x) = 0 THEN x ELSE f(x)[Len(x)]
    BY DEF FlattenSeq, Flattens
  <1>2. ASSUME NEW x \in Seq(Seq(S)) PROVE Flattens(f(x), x) /\ FlattenSeq(x) \in Seq(S)
    <2>1. PICK y \in [1..Len(x) -> Seq(S)] : Flattens(y, x)
      BY FlattensAll
    <2>2. Flattens(f(x), x)
      <3>. HIDE DEF Flattens
      <3>. QED
        BY <2>1
    <2>. HIDE DEF f
    <2>3. Len(x) \in Nat /\ Len(x) <= Len(x) /\ Alike(Len(x), x, x)
      BY DEF Alike
    <2>4. Alike(Len(x), f(x), y)
      BY <2>1, <2>2, <2>3, FlattensOnce
    <2>5. ASSUME Len(x) = 0 PROVE FlattenSeq(x) \in Seq(S)
      <3>1. x = <<>> /\ <<>> \in Seq(S)
        BY <2>5
      <3>2. FlattenSeq(x) = x
        BY <1>1, <2>5
      <3>. QED
        BY <3>1, <3>2
    <2>6. ASSUME Len(x) # 0 PROVE FlattenSeq(x) \in Seq(S)
      <3>1. Len(x) \in 1..Len(x)
        BY <2>3, <2>6
      <3>2. f(x)[Len(x)] = y[Len(x)] /\ y[Len(x)] \in Seq(S)
        BY <2>4, <3>1 DEF Alike
      <3>. QED
        BY <1>1, <2>6, <3>2
    <2>. QED
      BY <2>2, <2>5, <2>6
  <1>. HIDE DEF f
  <1> DEFINE t == Append(s, e)
             n == Len(s)
  <1>3. /\ t \in Seq(Seq(S)) /\ n \in Nat /\ Len(s) = n /\ Len(t) = n + 1 /\ t[n + 1] = e
        /\ \A i \in 1..n : s[i] = t[i]
    OBVIOUS
  <1>. HIDE DEF t, n
  <1>4. PICK g : Flattens(g, s) /\ FlattenSeq(s) = IF n = 0 THEN s ELSE g[n]
    BY <1>1, <1>2, <1>3
  <1>5. PICK h : Flattens(h, t) /\ FlattenSeq(t) = h[n + 1]
    <2>1. n + 1 # 0
      BY <1>3
    <2>. QED
      BY <1>1, <1>2, <1>3, <2>1
  <1>6. Alike(n, g, h)
    <2>1. n \in Nat /\ Len(s) \in Nat /\ Len(t) \in Nat /\ n <= Len(s) /\ n <= Len(t)
      BY <1>3
    <2>2. Alike(n, s, t)
      BY <1>3 DEF Alike
    <2>. QED
      BY <1>4, <1>5, <2>1, <2>2, FlattensOnce
  <1>7. h[n + 1] = IF n + 1 = 1 THEN t[n + 1] ELSE h[n] \o t[n + 1]
    <2>1. n + 1 \in 1..Len(t) /\ n + 1 - 1 = n
      BY <1>3
    <2>2. \A i \in 1..Len(t) : (i = 1 => h[i] = t[i]) /\ (i # 1 => h[i] = h[i - 1] \o t[i])
      BY <1>5 DEF Flattens
    <2>3. \A i \in 1..Len(t) : \A j : i # 1 /\ j = i - 1 => h[i] = h[j] \o t[i]
      BY <2>2, Zenon
    <2>4. n = (n + 1) - 1
      BY <1>3
    <2>5. n + 1 # 1 => h[n + 1] = h[n] \o t[n + 1]
      BY <2>1, <2>3, <2>4, Zenon
    <2>6. n + 1 = 1 => h[n + 1] = t[n + 1]
      BY <2>1, <2>2, Zenon
    <2>. QED
      BY <2>5, <2>6, Zenon
  <1>8. FlattenSeq(t) = FlattenSeq(s) \o e
    <2>1. CASE n = 0
      <3>1. FlattenSeq(s) = s /\ s = <<>>
        BY <1>3, <1>4, <2>1
      <3>2. FlattenSeq(t) = e
        BY <1>3, <1>5, <1>7, <2>1
      <3>3. <<>> \o e = e
        OBVIOUS
      <3>. QED
        BY <3>1, <3>2, <3>3, Zenon
    <2>2. CASE n # 0
      <3>1. FlattenSeq(s) = g[n]
        BY <1>4, <2>2, Zenon
      <3>2. n \in 1..n /\ n + 1 # 1
        BY <1>3, <2>2
      <3>3. g[n] = h[n]
        BY <1>6, <3>2, Zenon DEF Alike
      <3>4. h[n + 1] = h[n] \o t[n + 1]
        BY <1>7, <3>2, Zenon
      <3>5. t[n + 1] = e
        BY <1>3
      <3>. QED
        BY <1>5, <3>1, <3>3, <3>4, <3>5, Zenon
    <2>. QED
      BY <2>1, <2>2
  <1>9. FlattenSeq(<<>>) = <<>>
    BY <1>1
  <1>. QED
    BY <1>2, <1>8, <1>9 DEF t

-----------------------------------------------------------------------------
(***************************************************************************)
(* The reference while the path is read: where the directories read so far *)
(* lead, and what has been read of the next one.                           *)
(***************************************************************************)
Place(s) == Way(Front(Split(s)))

Begun(s) == Last(Split(s))

ReadAs(S, s, at, n) == Place(s) = at /\ Begun(s) = n /\ at \in Places(S) /\ n \in Seq(S)

\* The names read lead somewhere.
LEMMA PlaceRead ==
  ASSUME NEW S, BackSlash \in S, NEW s, NEW names, NEW l, Reads(S, s, names, l)
  PROVE  ReadAs(S, s, Way(names), l)
  <1>1. /\ names \in Seq(Seq(S)) /\ l \in Seq(S) /\ Split(s) = Append(names, l)
    BY DEF Reads
  <1>2. Front(Split(s)) = names /\ Last(Split(s)) = l
    BY <1>1, OfAppend
  <1>3. Way(names) \in Places(S)
    BY <1>1, WayIs
  <1>. QED
    BY <1>1, <1>2, <1>3 DEF ReadAs, Place, Begun

\* Before anything is read, nowhere.
LEMMA PlaceNothing ==
  ASSUME NEW S, BackSlash \in S
  PROVE  ReadAs(S, <<>>, Nowhere, <<>>)
  <1>1. Way(<<>>) = Nowhere
    BY WayIs
  <1>. QED
    BY <1>1, ReadsNothing, PlaceRead

\* A character goes on with the name that has begun.
LEMMA PlaceChar ==
  ASSUME NEW S, BackSlash \in S, NEW s \in Seq(S), NEW c \in S, c # BackSlash
  PROVE  ReadAs(S, Append(s, c), Place(s), Append(Begun(s), c))
  <1>1. PICK names, l : Pieces(S, s, names, l)
    BY ComponentsRead
  <1>2. Reads(S, s, names, l)
    BY <1>1 DEF Pieces
  <1>3. ReadAs(S, s, Way(names), l)
    BY <1>2, PlaceRead
  <1>4. Reads(S, Append(s, c), names, Append(l, c))
    BY <1>2, ReadsChar
  <1>5. ReadAs(S, Append(s, c), Way(names), Append(l, c))
    BY <1>4, PlaceRead
  <1>. QED
    BY <1>3, <1>5 DEF ReadAs

\* A separator ends it, and enters the directory.
LEMMA PlaceSeparator ==
  ASSUME NEW S, BackSlash \in S, NEW s \in Seq(S)
  PROVE  ReadAs(S, Append(s, BackSlash), Into(Place(s), Begun(s)), <<>>)
  <1>1. PICK names, l : Pieces(S, s, names, l)
    BY ComponentsRead
  <1>2. Reads(S, s, names, l) /\ names \in Seq(Seq(S)) /\ l \in Seq(S)
    BY <1>1 DEF Pieces, Reads
  <1>3. ReadAs(S, s, Way(names), l)
    BY <1>2, PlaceRead
  <1>4. Reads(S, Append(s, BackSlash), Append(names, l), <<>>)
    BY <1>2, ReadsSeparator
  <1>5. ReadAs(S, Append(s, BackSlash), Way(Append(names, l)), <<>>)
    BY <1>4, PlaceRead
  <1>6. Way(Append(names, l)) = Into(Way(names), l)
    BY <1>2, WayIs
  <1>. QED
    BY <1>3, <1>5, <1>6 DEF ReadAs

\* What has been read of a name is the end of what has been read.
EndsIn(s, n) ==
  /\ Len(n) \in Nat /\ Len(s) \in Nat /\ Len(n) <= Len(s)
  /\ \A j \in 1..Len(n) : n[j] = s[(Len(s) - Len(n)) + j]

\* The name that has begun is the end of what was read, and has no separator.
LEMMA BegunIs ==
  ASSUME NEW S, BackSlash \in S, NEW s \in Seq(S)
  PROVE  /\ Begun(s) \in PlainNames(S) /\ EndsIn(s, Begun(s)) /\ Place(s) \in Places(S)
         /\ s # <<>> /\ Begun(s) = <<>> => s[Len(s)] = BackSlash
  <1>1. PICK names, l : Pieces(S, s, names, l)
    BY ComponentsRead
  <1>2. Reads(S, s, names, l) /\ l \in PlainNames(S) /\ l \in Seq(S)
    BY <1>1 DEF Pieces, Reads
  <1>3. ReadAs(S, s, Way(names), l)
    BY <1>2, PlaceRead
  <1>4. PICK b \in 0..Len(s) : NameAt(s, l, Len(names) + 1, b)
    BY <1>1 DEF Pieces
  <1>5. /\ Len(l) \in Nat /\ Len(s) \in Nat /\ b \in Nat /\ b + Len(l) = Len(s)
        /\ \A j \in 1..Len(l) : l[j] = s[b + j]
    BY <1>2, <1>4 DEF NameAt, Spelled
  <1>6. Len(s) - Len(l) = b
    BY <1>5
  <1>7. EndsIn(s, l)
    <2>1. Len(l) <= Len(s)
      BY <1>5
    <2>2. \A j \in 1..Len(l) : l[j] = s[(Len(s) - Len(l)) + j]
      BY <1>5, <1>6, Zenon
    <2>. QED
      BY <1>5, <2>1, <2>2, Zenon DEF EndsIn
  <1>8. ASSUME s # <<>>, l = <<>> PROVE s[Len(s)] = BackSlash
    <2>1. Front(s) \in Seq(S) /\ Last(s) \in S /\ s = Append(Front(s), Last(s))
      BY <1>8, FrontLast
    <2>2. CASE Last(s) # BackSlash
      <3>1. ReadAs(S, s, Place(Front(s)), Append(Begun(Front(s)), Last(s))) /\ Begun(Front(s)) \in Seq(S)
        <4>1. ReadAs(S, Append(Front(s), Last(s)), Place(Front(s)), Append(Begun(Front(s)), Last(s)))
          BY <2>1, <2>2, PlaceChar
        <4>2. PICK names1, l1 : Pieces(S, Front(s), names1, l1)
          BY <2>1, ComponentsRead
        <4>3. ReadAs(S, Front(s), Way(names1), l1)
          BY <4>2, PlaceRead DEF Pieces
        <4>. QED
          BY <2>1, <4>1, <4>3 DEF ReadAs
      <3>2. Append(Begun(Front(s)), Last(s)) # <<>>
        BY <2>1, <3>1
      <3>. QED
        BY <1>3, <1>8, <3>1, <3>2 DEF ReadAs
    <2>3. CASE Last(s) = BackSlash
      BY <2>3 DEF Last
    <2>. QED
      BY <2>2, <2>3
  <1>. QED
    BY <1>2, <1>3, <1>7, <1>8 DEF ReadAs

\* A path that went wrong stays so.
LEMMA GoesOnward ==
  ASSUME NEW S, NEW at \in Places(S), NEW n, NEW separator
  PROVE  /\ Goes(at, n, separator).ok => at.ok
         /\ Goes(at, n, separator).shallow => at.shallow
BY DEF Goes, Places

\* What holds of the way to the end held on the way.
Before(s, t) == (Place(t).ok => Place(s).ok) /\ (Place(t).shallow => Place(s).shallow)

\* One character more does not make it right.
LEMMA BeforeAppend ==
  ASSUME NEW S, BackSlash \in S, NEW s \in Seq(S), NEW c \in S
  PROVE  Before(s, Append(s, c))
  <1>0. Place(s) \in Places(S)
    BY BegunIs
  <1>1. CASE c = BackSlash
    <2>1. ReadAs(S, Append(s, BackSlash), Into(Place(s), Begun(s)), <<>>)
      BY PlaceSeparator
    <2>2. Place(Append(s, c)) = Goes(Place(s), Begun(s), <<BackSlash>>)
      BY <1>1, <2>1 DEF ReadAs, Into
    <2>. QED
      BY <1>0, <2>2, GoesOnward DEF Before
  <1>2. CASE c # BackSlash
    <2>1. ReadAs(S, Append(s, c), Place(s), Append(Begun(s), c))
      BY <1>2, PlaceChar
    <2>. QED
      BY <2>1 DEF ReadAs, Before
  <1>. QED
    BY <1>1, <1>2

\* A string up to one of its characters.
LEMMA UpTo ==
  ASSUME NEW S, NEW s \in Seq(S)
  PROVE  /\ SubSeq(s, 1, 0) = <<>> /\ SubSeq(s, 1, Len(s)) = s
         /\ \A k \in 0..Len(s) : SubSeq(s, 1, k) \in Seq(S) /\ Len(SubSeq(s, 1, k)) = k
         /\ \A k \in 0..Len(s), i \in Nat : i \in 1..k => SubSeq(s, 1, k)[i] = s[i]
         /\ \A k \in 0..Len(s) : k < Len(s) =>
              s[k + 1] \in S /\ SubSeq(s, 1, k + 1) = Append(SubSeq(s, 1, k), s[k + 1])
  <1>1. Len(s) \in Nat /\ \A i \in 1..Len(s) : s[i] \in S
    OBVIOUS
  <1>2. SubSeq(s, 1, 0) = <<>>
    OBVIOUS
  <1>3. ASSUME NEW k \in 0..Len(s)
        PROVE  /\ SubSeq(s, 1, k) \in Seq(S) /\ Len(SubSeq(s, 1, k)) = k
               /\ \A i \in Nat : i \in 1..k => SubSeq(s, 1, k)[i] = s[i]
    OBVIOUS
  <1>4. SubSeq(s, 1, Len(s)) = s
    <2>1. /\ Len(s) \in 0..Len(s) /\ SubSeq(s, 1, Len(s)) \in Seq(S) /\ Len(SubSeq(s, 1, Len(s))) = Len(s)
          /\ \A i \in 1..Len(s) : SubSeq(s, 1, Len(s))[i] = s[i]
      BY <1>1, <1>3
    <2>. QED
      BY <2>1
  <1>5. ASSUME NEW k \in 0..Len(s), k < Len(s)
        PROVE  s[k + 1] \in S /\ SubSeq(s, 1, k + 1) = Append(SubSeq(s, 1, k), s[k + 1])
    <2> DEFINE a == SubSeq(s, 1, k + 1)
               b == SubSeq(s, 1, k)
    <2>1. k + 1 \in 1..Len(s) /\ k + 1 \in 0..Len(s)
      BY <1>1, <1>5
    <2>2. /\ a \in Seq(S) /\ Len(a) = k + 1 /\ b \in Seq(S) /\ Len(b) = k
          /\ \A i \in Nat : i \in 1..(k + 1) => a[i] = s[i]
          /\ \A i \in Nat : i \in 1..k => b[i] = s[i]
      BY <1>3, <2>1
    <2>. HIDE DEF a, b
    <2>3. a = Append(b, s[k + 1])
      BY <1>1, <2>1, <2>2
    <2>. QED
      BY <1>1, <2>1, <2>3 DEF a, b
  <1>. QED
    BY <1>2, <1>3, <1>4, <1>5

\* Nor does all that follows.
LEMMA BeforeAll ==
  ASSUME NEW S, BackSlash \in S, NEW s \in Seq(S), NEW k \in 0..Len(s)
  PROVE  Before(SubSeq(s, 1, k), s)
  <1> DEFINE T == {n \in Nat : k + n <= Len(s) => Before(SubSeq(s, 1, k), SubSeq(s, 1, k + n))}
  <1>0. Len(s) \in Nat /\ k \in Nat /\ k <= Len(s)
    OBVIOUS
  <1>1. 0 \in T
    <2>1. k + 0 = k
      BY <1>0
    <2>. QED
      BY <2>1 DEF Before
  <1>2. ASSUME NEW n \in Nat, n \in T PROVE n + 1 \in T
    <2> SUFFICES ASSUME k + (n + 1) <= Len(s)
                 PROVE  Before(SubSeq(s, 1, k), SubSeq(s, 1, k + (n + 1)))
      OBVIOUS
    <2>1. k + n \in 0..Len(s) /\ k + n < Len(s) /\ (k + n) + 1 = k + (n + 1) /\ k + n <= Len(s)
      BY <1>0
    <2>2. /\ SubSeq(s, 1, k + n) \in Seq(S) /\ s[(k + n) + 1] \in S
          /\ SubSeq(s, 1, k + (n + 1)) = Append(SubSeq(s, 1, k + n), s[(k + n) + 1])
      BY <2>1, UpTo
    <2>3. Before(SubSeq(s, 1, k + n), SubSeq(s, 1, k + (n + 1)))
      BY <2>2, BeforeAppend
    <2>4. Before(SubSeq(s, 1, k), SubSeq(s, 1, k + n))
      BY <1>2, <2>1
    <2>. QED
      BY <2>3, <2>4 DEF Before
  <1>. HIDE DEF T
  <1>3. \A n \in Nat : n \in T
    BY <1>1, <1>2, AllNaturals
  <1>4. Len(s) - k \in Nat /\ k + (Len(s) - k) = Len(s)
    BY <1>0
  <1>5. Before(SubSeq(s, 1, k), SubSeq(s, 1, Len(s)))
    BY <1>0, <1>3, <1>4 DEF T
  <1>. QED
    BY <1>5, UpTo

-----------------------------------------------------------------------------
(***************************************************************************)
(* What is written while no nested directory was left: the directories, a  *)
(* separator at the end of each and nowhere else, and the start of a name. *)
(***************************************************************************)
Named(d) == Len(d) >= 2 /\ d[Len(d)] = BackSlash /\ \A j \in 1..(Len(d) - 1) : d[j] # BackSlash

AllNamed(dirs) == \A k \in 1..Len(dirs) : Named(dirs[k])

Follows(at, n, w) ==
  at.shallow => at.ok /\ AllNamed(at.dirs) /\ w = FlattenSeq(at.dirs) \o n

\* And in the end, when the last name has no separator.
Leads(at, w) == at.shallow => at.ok /\ w = FlattenSeq(at.dirs)

\* Nothing is written of nothing.
LEMMA FollowsStart == Follows(Nowhere, <<>>, <<>>)
  <1>1. FlattenSeq(<<>>) = <<>>
    <2>1. <<>> \in Seq(Seq({})) /\ <<>> \in Seq({})
      OBVIOUS
    <2>. QED
      BY <2>1, FlattenIs
  <1>. QED
    BY <1>1 DEF Follows, AllNamed, Nowhere

\* A character of a name is written as it is read.
LEMMA FollowsChar ==
  ASSUME NEW S, NEW at \in Places(S), NEW n \in Seq(S), NEW w, Follows(at, n, w), NEW c \in S
  PROVE  Follows(at, Append(n, c), Append(w, c))
  <1> SUFFICES ASSUME at.shallow PROVE Append(w, c) = FlattenSeq(at.dirs) \o Append(n, c)
    BY DEF Follows
  <1>1. at.dirs \in Seq(Seq(S)) /\ w = FlattenSeq(at.dirs) \o n /\ <<>> \in Seq(S)
    BY DEF Follows, Places
  <1> DEFINE flat == FlattenSeq(at.dirs)
  <1>2. flat \in Seq(S)
    BY <1>1, FlattenIs
  <1>. HIDE DEF flat
  <1>3. Append(flat \o n, c) = flat \o Append(n, c)
    BY <1>2
  <1>. QED
    BY <1>1, <1>3 DEF flat

\* A name with a separator behind it is a directory.
LEMMA FollowsName ==
  ASSUME NEW S, BackSlash \in S, NEW at \in Places(S), NEW n \in PlainNames(S), NEW w, Follows(at, n, w),
         n \notin {<<>>, <<Dot>>, <<Dot, Dot>>}
  PROVE  Follows(Into(at, n), <<>>, Append(w, BackSlash))
  <1> DEFINE d == n \o <<BackSlash>>
             dirs == Append(at.dirs, d)
             flat == FlattenSeq(at.dirs)
  <1>1. n \in Seq(S) /\ Len(n) \in Nat /\ Len(n) >= 1 /\ \A j \in 1..Len(n) : n[j] # BackSlash
    <2>1. n \in Seq(S) /\ n # <<>> /\ \A j \in 1..Len(n) : n[j] # BackSlash
      BY DEF PlainNames
    <2>. QED
      BY <2>1
  <1>2. at.dirs \in Seq(Seq(S)) /\ at.shallow \in BOOLEAN /\ at.ok \in BOOLEAN
    BY DEF Places
  <1>3. d \in Seq(S) /\ Len(d) = Len(n) + 1 /\ d[Len(n) + 1] = BackSlash /\ \A j \in 1..Len(n) : d[j] = n[j]
    BY <1>1
  <1>4. Into(at, n) = [at EXCEPT !.dirs = dirs]
    BY DEF Into, Goes
  <1>5. Into(at, n).dirs = dirs /\ Into(at, n).ok = at.ok /\ Into(at, n).shallow = at.shallow
    BY <1>4 DEF Places
  <1>. HIDE DEF d
  <1>6. Named(d)
    BY <1>1, <1>3 DEF Named
  <1>7. flat \in Seq(S) /\ FlattenSeq(dirs) = flat \o d
    BY <1>2, <1>3, FlattenIs
  <1>8. ASSUME at.shallow
        PROVE  at.ok /\ AllNamed(dirs) /\ Append(w, BackSlash) = FlattenSeq(dirs) \o <<>>
    <2>1. at.ok /\ AllNamed(at.dirs) /\ w = flat \o n
      BY <1>8 DEF Follows
    <2>2. AllNamed(dirs)
      <3>1. /\ Len(at.dirs) \in Nat /\ Len(dirs) = Len(at.dirs) + 1 /\ dirs[Len(at.dirs) + 1] = d
            /\ \A k \in 1..Len(at.dirs) : dirs[k] = at.dirs[k]
        BY <1>2, <1>3
      <3>. QED
        BY <1>6, <2>1, <3>1 DEF AllNamed
    <2>. HIDE DEF flat, dirs
    <2>3. flat \o d = (flat \o n) \o <<BackSlash>>
      BY <1>1, <1>7 DEF d
    <2>4. (flat \o n) \in Seq(S) /\ (flat \o n) \o <<BackSlash>> = Append(flat \o n, BackSlash)
      BY <1>1, <1>7
    <2>5. (flat \o d) \o <<>> = flat \o d
      BY <1>3, <1>7
    <2>. QED
      BY <1>7, <2>1, <2>2, <2>3, <2>4, <2>5
  <1>. QED
    BY <1>5, <1>8 DEF Follows

\* Nothing is written of an empty name or a ".".
LEMMA FollowsNone ==
  ASSUME NEW at, NEW n \in {<<>>, <<Dot>>}, NEW separator
  PROVE  Goes(at, n, separator) = at
BY DEF Goes

\* Directories that are written are there, and each has two characters.
LEMMA FollowsLong ==
  ASSUME NEW S, NEW at \in Places(S), NEW w \in Seq(S), Follows(at, <<>>, w), at.shallow
  PROVE  /\ w = FlattenSeq(at.dirs)
         /\ at.dirs = <<>> <=> w = <<>>
         /\ Len(w) # 1
  <1>1. /\ at.dirs \in Seq(Seq(S)) /\ AllNamed(at.dirs) /\ w = FlattenSeq(at.dirs) \o <<>>
        /\ <<>> \in Seq(S)
    BY DEF Follows, Places
  <1>2. FlattenSeq(at.dirs) \in Seq(S) /\ FlattenSeq(<<>>) = <<>>
    BY <1>1, FlattenIs
  <1>3. w = FlattenSeq(at.dirs)
    BY <1>1, <1>2
  <1>4. CASE at.dirs = <<>>
    <2>1. w = <<>> /\ Len(<<>>) # 1
      BY <1>2, <1>3, <1>4
    <2>. QED
      BY <1>3, <1>4, <2>1
  <1>5. CASE at.dirs # <<>>
    <2> DEFINE f == Front(at.dirs)
               d == Last(at.dirs)
    <2>1. f \in Seq(Seq(S)) /\ d \in Seq(S) /\ at.dirs = Append(f, d)
      BY <1>1, <1>5, FrontLast
    <2>2. FlattenSeq(f) \in Seq(S) /\ w = FlattenSeq(f) \o d
      BY <1>3, <2>1, FlattenIs
    <2>3. Len(at.dirs) \in 1..Len(at.dirs) /\ d = at.dirs[Len(at.dirs)]
      BY <1>1, <1>5 DEF Last
    <2>4. Len(d) >= 2
      BY <1>1, <2>3 DEF AllNamed, Named
    <2>. HIDE DEF f, d
    <2>5. Len(w) = Len(FlattenSeq(f)) + Len(d) /\ Len(FlattenSeq(f)) \in Nat /\ Len(d) \in Nat
      BY <2>1, <2>2
    <2>6. Len(w) >= 2
      BY <2>4, <2>5
    <2>7. w # <<>> /\ Len(w) # 1
      BY <2>5, <2>6
    <2>. QED
      BY <1>3, <1>5, <2>7
  <1>. QED
    BY <1>4, <1>5

\* ".." takes the only directory there is, when it takes what is written back to a separator.
LEMMA FollowsParent ==
  ASSUME NEW S, NEW at \in Places(S), NEW w \in Seq(S), Follows(at, <<>>, w), NEW separator,
         Len(w) >= 2, NEW q \in 0..(Len(w) - 2), q > 0 => w[q + 1] = BackSlash
  PROVE  LET to == Goes(at, <<Dot, Dot>>, separator)
         IN  Follows(to, <<>>, SubSeq(w, 1, q)) /\ Leads(to, SubSeq(w, 1, q))
  <1> DEFINE to == Goes(at, <<Dot, Dot>>, separator)
  <1>1. to = [dirs |-> Pop(at.dirs), ok |-> at.ok /\ at.dirs # <<>>,
              shallow |-> at.shallow /\ Len(at.dirs) <= 1]
    BY DEF Goes
  <1>2. /\ to.dirs = Pop(at.dirs) /\ to.ok = (at.ok /\ at.dirs # <<>>)
        /\ to.shallow = (at.shallow /\ Len(at.dirs) <= 1)
    BY <1>1
  <1>. HIDE DEF to
  <1> SUFFICES ASSUME to.shallow
               PROVE  /\ to.ok /\ AllNamed(to.dirs)
                      /\ SubSeq(w, 1, q) = FlattenSeq(to.dirs) \o <<>>
                      /\ SubSeq(w, 1, q) = FlattenSeq(to.dirs)
    BY DEF Follows, Leads, to
  <1>3. at.shallow /\ Len(at.dirs) <= 1 /\ at.dirs \in Seq(Seq(S)) /\ at.ok /\ AllNamed(at.dirs)
    BY <1>2 DEF Follows, Places
  <1>4. w = FlattenSeq(at.dirs) /\ at.dirs # <<>>
    <2>1. w # <<>>
      OBVIOUS
    <2>. QED
      BY <1>3, <2>1, FollowsLong
  <1>5. PICK d \in Seq(S) : at.dirs = <<d>> /\ Named(d)
    <2> DEFINE dirs == at.dirs
    <2>0. dirs \in Seq(Seq(S)) /\ Len(dirs) <= 1 /\ dirs # <<>>
      BY <1>3, <1>4
    <2>. HIDE DEF dirs
    <2>3. Len(dirs) = 1
      <3>1. Front(dirs) \in Seq(Seq(S)) /\ Len(dirs) \in Nat /\ Len(Front(dirs)) = Len(dirs) - 1
        BY <2>0, FrontLast
      <3>2. Len(Front(dirs)) \in Nat
        BY <3>1
      <3>. QED
        BY <2>0, <3>1, <3>2
    <2>1. Len(at.dirs) = 1
      BY <2>3 DEF dirs
    <2>2. at.dirs = <<at.dirs[1]>> /\ at.dirs[1] \in Seq(S)
      BY <1>3, <2>1
    <2>. QED
      BY <1>3, <2>1, <2>2 DEF AllNamed
  <1>6. FlattenSeq(<<>>) = <<>> /\ FlattenSeq(<<d>>) = d
    <2>1. <<>> \in Seq(Seq(S)) /\ <<d>> = Append(<<>>, d) /\ <<>> \o d = d
      OBVIOUS
    <2>. QED
      BY <2>1, FlattenIs
  <1>7. w = d
    BY <1>4, <1>5, <1>6
  <1>8. q = 0
    <2>1. q > 0 => q + 1 \in 1..(Len(w) - 1)
      OBVIOUS
    <2>. QED
      BY <1>5, <1>7, <2>1 DEF Named
  <1>9. SubSeq(w, 1, q) = <<>>
    BY <1>8
  <1>10. to.dirs = <<>>
    <2>1. Front(<<d>>) = <<>>
      BY DEF Front
    <2>. QED
      BY <1>2, <1>5, <2>1 DEF Pop
  <1>11. AllNamed(<<>>) /\ <<>> \o <<>> = <<>>
    BY DEF AllNamed
  <1>. QED
    BY <1>2, <1>3, <1>4, <1>6, <1>9, <1>10, <1>11

\* A last name has no separator.
LEMMA LeadsName ==
  ASSUME NEW S, NEW at \in Places(S), NEW n \in Seq(S), NEW w, Follows(at, n, w),
         n \notin {<<Dot>>, <<Dot, Dot>>}
  PROVE  Leads(Goes(at, n, <<>>), w)
  <1>1. at.dirs \in Seq(Seq(S)) /\ n \o <<>> = n /\ at.shallow \in BOOLEAN /\ at.ok \in BOOLEAN
    BY DEF Places
  <1>2. FlattenSeq(at.dirs) \in Seq(S) /\ FlattenSeq(Append(at.dirs, n)) = FlattenSeq(at.dirs) \o n
    BY <1>1, FlattenIs
  <1>3. CASE n = <<>>
    <2>1. Goes(at, n, <<>>) = at
      BY <1>3, FollowsNone
    <2>2. FlattenSeq(at.dirs) \o <<>> = FlattenSeq(at.dirs)
      BY <1>2
    <2>. QED
      BY <1>3, <2>1, <2>2 DEF Follows, Leads
  <1>4. CASE n # <<>>
    <2>1. Goes(at, n, <<>>) = [at EXCEPT !.dirs = Append(at.dirs, n)]
      BY <1>1, <1>4 DEF Goes
    <2>2. /\ Goes(at, n, <<>>).dirs = Append(at.dirs, n) /\ Goes(at, n, <<>>).ok = at.ok
          /\ Goes(at, n, <<>>).shallow = at.shallow
      BY <2>1 DEF Places
    <2>. QED
      BY <1>2, <2>2 DEF Follows, Leads
  <1>. QED
    BY <1>3, <1>4

-----------------------------------------------------------------------------
\* One character, and two.
LEMMA Singles ==
  ASSUME NEW S, NEW c \in S
  PROVE  Append(<<>>, c) = <<c>> /\ Append(<<c>>, c) = <<c, c>>
  <1>1. Append(<<>>, c) = <<c>> /\ <<c>> \in Seq(S) /\ Len(<<c>>) = 1
    OBVIOUS
  <1>2. Append(<<c>>, c) \in Seq(S) /\ Len(Append(<<c>>, c)) = 2
    BY <1>1
  <1>3. Append(<<c>>, c)[1] = c /\ Append(<<c>>, c)[2] = c
    BY <1>1
  <1>4. <<c, c>> \in Seq(S) /\ Len(<<c, c>>) = 2 /\ <<c, c>>[1] = c /\ <<c, c>>[2] = c
    OBVIOUS
  <1>5. ASSUME NEW s \in Seq(S), NEW t \in Seq(S),
               Len(s) = 2, Len(t) = 2, s[1] = t[1], s[2] = t[2]
        PROVE  s = t
    BY <1>5
  <1>. QED
    BY <1>1, <1>2, <1>3, <1>4, <1>5

\* Dot directories that are read behind a separator.
LEMMA DotsRead ==
  ASSUME NEW S, BackSlash \in S, Dot \in S, NEW s \in Seq(S), Begun(s) = <<>>
  PROVE  LET dot    == Append(s, Dot)
             dotdot == Append(dot, Dot)
         IN  /\ ReadAs(S, dot, Place(s), <<Dot>>)
             /\ ReadAs(S, Append(dot, BackSlash), Place(s), <<>>)
             /\ ReadAs(S, dotdot, Place(s), <<Dot, Dot>>)
             /\ ReadAs(S, Append(dotdot, BackSlash), Into(Place(s), <<Dot, Dot>>), <<>>)
  <1> DEFINE dot    == Append(s, Dot)
             dotdot == Append(dot, Dot)
  <1>1. Dot # BackSlash /\ dot \in Seq(S) /\ dotdot \in Seq(S)
    BY DEF Dot, BackSlash
  <1>2. ReadAs(S, dot, Place(s), Append(<<>>, Dot))
    BY <1>1, PlaceChar
  <1>3. Append(<<>>, Dot) = <<Dot>> /\ Append(<<Dot>>, Dot) = <<Dot, Dot>>
    BY Singles
  <1>4. Place(dot) = Place(s) /\ Begun(dot) = <<Dot>>
    BY <1>2, <1>3 DEF ReadAs
  <1>. HIDE DEF dot
  <1>5. ReadAs(S, Append(dot, BackSlash), Place(s), <<>>)
    <2>1. Into(Place(s), <<Dot>>) = Place(s)
      BY FollowsNone DEF Into
    <2>. QED
      BY <1>1, <1>4, <2>1, PlaceSeparator
  <1>6. ReadAs(S, dotdot, Place(s), <<Dot, Dot>>)
    BY <1>1, <1>3, <1>4, PlaceChar
  <1>7. Place(dotdot) = Place(s) /\ Begun(dotdot) = <<Dot, Dot>>
    BY <1>6 DEF ReadAs
  <1>. HIDE DEF dotdot
  <1>8. ReadAs(S, Append(dotdot, BackSlash), Into(Place(s), <<Dot, Dot>>), <<>>)
    BY <1>1, <1>7, PlaceSeparator
  <1>. QED
    BY <1>2, <1>3, <1>5, <1>6, <1>8 DEF dot, dotdot

\* Sanitized leaves no two separators in a row.
NoDouble(s) == \A i \in 2..Len(s) : s[i - 1] # BackSlash \/ s[i] # BackSlash

\* So there is a name between any two.
LEMMA SqueezedSingle ==
  ASSUME NEW S, NEW s \in Seq(S)
  PROVE  Squeezed(s) \in Seq(S) /\ NoDouble(Squeezed(s))
  <1> DEFINE T == {t \in Seq(S) : NoDouble(Squeezed(t))}
  <1>1. <<>> \in T
    BY SqueezedIs DEF NoDouble
  <1>2. ASSUME NEW t \in Seq(S), NEW c \in S, t \in T PROVE Append(t, c) \in T
    <2> DEFINE q == Squeezed(t)
               q2 == Squeezed(Append(t, c))
    <2>1. q \in Seq(S) /\ q2 = Kept(q, c) /\ NoDouble(q) /\ Append(t, c) \in Seq(S)
      BY <1>2, SqueezedIs
    <2>. HIDE DEF q, q2
    <2>2. CASE c = BackSlash /\ q # <<>> /\ Last(q) = BackSlash
      BY <2>1, <2>2 DEF Kept, q2
    <2>3. CASE ~(c = BackSlash /\ q # <<>> /\ Last(q) = BackSlash)
      <3>1. q2 = Append(q, c)
        BY <2>1, <2>3 DEF Kept
      <3>2. /\ Len(q) \in Nat /\ Len(q2) = Len(q) + 1 /\ q2[Len(q) + 1] = c
            /\ \A i \in 1..Len(q) : q2[i] = q[i]
        BY <2>1, <3>1
      <3>3. ASSUME NEW i \in 2..Len(q2) PROVE q2[i - 1] # BackSlash \/ q2[i] # BackSlash
        <4>1. CASE i <= Len(q)
          <5>1. i \in 2..Len(q) /\ i \in 1..Len(q) /\ i - 1 \in 1..Len(q)
            BY <3>2, <4>1
          <5>. QED
            BY <2>1, <3>2, <5>1 DEF NoDouble
        <4>2. CASE ~(i <= Len(q))
          <5>1. i = Len(q) + 1 /\ i - 1 = Len(q) /\ Len(q) \in 1..Len(q) /\ q # <<>>
            BY <2>1, <3>2, <4>2
          <5>2. q2[i] = c /\ q2[i - 1] = Last(q)
            BY <3>2, <5>1 DEF Last
          <5>. QED
            BY <2>3, <5>1, <5>2
        <4>. QED
          BY <4>1, <4>2
      <3>4. NoDouble(q2)
        BY <3>3 DEF NoDouble
      <3>. QED
        BY <2>1, <3>4 DEF q2
    <2>. QED
      BY <2>2, <2>3
  <1>. HIDE DEF T
  <1>3. \A t \in Seq(S) : t \in T
    BY <1>1, <1>2, AllSequences
  <1>. QED
    BY <1>3, SqueezedIs DEF T
-----------------------------------------------------------------------------
\* The path removeDotDirsSanitized is for, and what it reads of it.
Path == Sanitized(text)

Root == IF Rooted(Path) THEN 1 ELSE 0

Rest == IF Rooted(Path) THEN Tail(Path) ELSE Path

Read == SubSeq(Rest, 1, read_idx)

Written == [i \in 1..write_idx |-> At(i - 1)]

\* The path and what is read of it are strings, and the rest is all of it but the root.
LEMMA RestFacts ==
  ASSUME TypeOK
  PROVE  /\ Converted(text) \in Seq(Char) /\ Len(Converted(text)) = Len(text)
         /\ Path \in Seq(Char) /\ Path = Squeezed(Converted(text))
         /\ Rest \in Seq(Char) /\ Len(Rest) \in Nat /\ Len(Path) = Root + Len(Rest)
         /\ \A i \in 1..Len(Rest) : Rest[i] = Path[Root + i]
         /\ NoDouble(Rest)
         /\ Rest # <<>> => Rest[1] # BackSlash
         /\ Walk(Path) = Goes(Place(Rest), Begun(Rest), <<>>)
  <1>1. text \in Seq(Char) /\ BackSlash \in Char
    BY CharAssumption DEF TypeOK
  <1>2. Converted(text) \in Seq(Char) /\ Len(Converted(text)) = Len(text)
    BY <1>1, ConvertedIs
  <1>3. Path = Squeezed(Converted(text))
    BY FoldsAre DEF Path
  <1>4. Path \in Seq(Char) /\ NoDouble(Path)
    BY <1>2, <1>3, SqueezedSingle
  <1>5. Walk(Path) = Goes(Place(Rest), Begun(Rest), <<>>)
    BY FoldsAre DEF Rest, Place, Begun
  <1>. HIDE DEF Path
  <1>6. CASE Rooted(Path)
    <2>1. Path # <<>> /\ Path[1] = BackSlash /\ Rest = Tail(Path) /\ Root = 1
      BY <1>6 DEF Rooted, Rest, Root
    <2>2. /\ Rest \in Seq(Char) /\ Len(Rest) \in Nat /\ Len(Path) = 1 + Len(Rest)
          /\ \A i \in 1..Len(Rest) : Rest[i] = Path[1 + i]
      BY <1>4, <2>1
    <2>3. NoDouble(Rest)
      <3> SUFFICES ASSUME NEW i \in 2..Len(Rest) PROVE Rest[i - 1] # BackSlash \/ Rest[i] # BackSlash
        BY DEF NoDouble
      <3>1. /\ i - 1 \in 1..Len(Rest) /\ i \in 1..Len(Rest) /\ 1 + i \in 2..Len(Path)
            /\ 1 + (i - 1) = (1 + i) - 1
        BY <2>2
      <3>. QED
        BY <1>4, <2>2, <3>1 DEF NoDouble
    <2>4. ASSUME Rest # <<>> PROVE Rest[1] # BackSlash
      <3>1. 1 \in 1..Len(Rest) /\ 2 \in 2..Len(Path) /\ 2 - 1 = 1 /\ 1 + 1 = 2
        BY <2>2, <2>4
      <3>. QED
        BY <1>4, <2>1, <2>2, <3>1 DEF NoDouble
    <2>. QED
      BY <1>2, <1>3, <1>4, <1>5, <2>1, <2>2, <2>3, <2>4
  <1>7. CASE ~Rooted(Path)
    <2>1. Rest = Path /\ Root = 0
      BY <1>7 DEF Rest, Root
    <2>2. Path # <<>> => Path[1] # BackSlash
      BY <1>7 DEF Rooted
    <2>3. Len(Path) \in Nat /\ Len(Path) = 0 + Len(Path) /\ \A i \in 1..Len(Path) : 0 + i = i
      BY <1>4
    <2>. QED
      BY <1>2, <1>3, <1>4, <1>5, <2>1, <2>2, <2>3
  <1>. QED
    BY <1>6, <1>7

\* What is written is a string of write_idx characters.
LEMMA WrittenIs ==
  ASSUME TypeOK
  PROVE  /\ Written \in Seq(Char) /\ Len(Written) = write_idx
         /\ \A i \in 1..write_idx : Written[i] = At(i - 1)
  <1>1. write_idx \in Nat /\ len \in Nat /\ write_idx <= len
    BY TextFacts DEF TypeOK
  <1>2. ASSUME NEW i \in 1..write_idx PROVE At(i - 1) \in Char
    <2>1. i - 1 \in 0..(len - 1)
      BY <1>1
    <2>2. base + (i - 1) \in 0..(Len(text) - 1)
      BY <2>1, TextFacts
    <2>. QED
      BY <2>2 DEF At, TypeOK
  <1>. HIDE DEF At
  <1>. QED
    BY <1>1, <1>2 DEF Written

-----------------------------------------------------------------------------
(***************************************************************************)
(* While separators are collapsed, what is written is what was read        *)
(* without the repeated ones, and ends in the same character.              *)
(***************************************************************************)
SqueezeInv ==
  /\ pc = "replace" => \A i \in 1..Len(text) : slice[i - 1] = text[i]
  /\ pc = "repeats" =>
       /\ \A i \in 1..Len(text) : given[i - 1] = Converted(text)[i]
       /\ Written = Squeezed(SubSeq(Converted(text), 1, read_idx))
       /\ IF read_idx = 0 THEN len = 0
          ELSE write_idx > 0 /\ slice[write_idx - 1] = given[read_idx - 1]

(***************************************************************************)
(* While dot directories are removed, what there is to read is the rest of *)
(* the sanitized path, and what is written is where it has led so far, and *)
(* the start of a name that is no dot directory.                           *)
(***************************************************************************)
GivenRest ==
  /\ base = Root /\ len = Len(Rest)
  /\ \A i \in 1..len : given[base + (i - 1)] = Rest[i]
  /\ base = 1 => slice[0] = BackSlash

WalkInv ==
  pc \in {"dirs", "name"} =>
    /\ GivenRest
    /\ IF pc = "dirs" THEN Begun(Read) = <<>>
       ELSE Begun(Read) # <<>> /\ ~GivenDotDir(read_idx - Len(Begun(Read)))
    /\ Follows(Place(Read), Begun(Read), Written)

AgreeInv == SqueezeInv /\ WalkInv /\ ShallowAgrees

-----------------------------------------------------------------------------
\* One more entry is one more character.
LEMMA OneEntryMore ==
  ASSUME NEW S, NEW s \in Seq(S), NEW c \in S, NEW n \in Nat, Len(s) = n, NEW b, NEW f, NEW g,
         \A i \in 1..n : s[i] = g[b + (i - 1)],
         \A i \in 0..(n - 1) : f[b + i] = g[b + i], f[b + n] = c
  PROVE  [i \in 1..(n + 1) |-> f[b + (i - 1)]] = Append(s, c)
  <1>1. ASSUME NEW i \in 1..(n + 1) PROVE f[b + (i - 1)] = Append(s, c)[i]
    <2>1. CASE i <= n
      <3>1. i \in 1..n /\ i - 1 \in 0..(n - 1)
        BY <2>1
      <3>2. Append(s, c)[i] = s[i]
        BY <3>1
      <3>. QED
        BY <3>1, <3>2
    <2>2. CASE ~(i <= n)
      <3>1. i = n + 1 /\ i - 1 = n
        BY <2>2
      <3>2. Append(s, c)[n + 1] = c
        OBVIOUS
      <3>. QED
        BY <3>1, <3>2, Zenon
    <2>. QED
      BY <2>1, <2>2
  <1> DEFINE h == [i \in 1..(n + 1) |-> f[b + (i - 1)]]
  <1>2. Append(s, c) \in Seq(S) /\ Len(Append(s, c)) = n + 1
    OBVIOUS
  <1>3. ASSUME NEW i \in 1..(n + 1) PROVE Append(s, c)[i] \in S
    BY <1>2
  <1>4. h \in Seq(S) /\ Len(h) = n + 1 /\ \A i \in 1..(n + 1) : h[i] = Append(s, c)[i]
    <2>1. \A i \in 1..(n + 1) : f[b + (i - 1)] \in S
      BY <1>1, <1>3
    <2>2. h \in [1..(n + 1) -> S]
      BY <2>1
    <2>3. \A i \in 1..(n + 1) : h[i] = Append(s, c)[i]
      BY <1>1
    <2>. QED
      BY <2>2, <2>3
  <1>. HIDE DEF h
  <1>5. h = Append(s, c)
    BY <1>2, <1>3, <1>4
  <1>. QED
    BY <1>5 DEF h

\* A copy is one more character behind what is written.
LEMMA CopyWritten ==
  ASSUME IInv, CopyElem, base = 1 => slice[0] = BackSlash
  PROVE  Written' = Append(Written, given[base + read_idx])
  <1>1. /\ Written \in Seq(Char) /\ Len(Written) = write_idx
        /\ \A i \in 1..write_idx : Written[i] = At(i - 1)
    BY WrittenIs DEF IInv
  <1>2. /\ \A i \in 0..(write_idx - 1) : slice'[base + i] = slice[base + i]
        /\ slice'[base + write_idx] = given[base + read_idx]
        /\ base' = base /\ write_idx \in Nat /\ write_idx' = write_idx + 1
        /\ read_idx \in Nat /\ read_idx < len
    BY CopyWrites DEF At
  <1>3. given[base + read_idx] \in Char
    <2>1. read_idx \in 0..(len - 1) /\ len \in Nat
      BY <1>2, TextFacts DEF IInv
    <2>2. base + read_idx \in 0..(Len(text) - 1)
      BY <2>1, TextFacts DEF IInv
    <2>. QED
      BY <2>2 DEF IInv, TypeOK
  <1>4. Written' = [i \in 1..(write_idx + 1) |-> slice'[base + (i - 1)]]
    BY <1>2 DEF Written, At
  <1>5. \A i \in 1..write_idx : Written[i] = slice[base + (i - 1)]
    BY <1>1 DEF At
  <1>6. [i \in 1..(write_idx + 1) |-> slice'[base + (i - 1)]] = Append(Written, given[base + read_idx])
    <2> DEFINE w == Written
               c == given[base + read_idx]
               n == write_idx
    <2>1. /\ w \in Seq(Char) /\ Len(w) = n /\ n \in Nat /\ c \in Char
          /\ \A i \in 1..n : w[i] = slice[base + (i - 1)]
          /\ \A i \in 0..(n - 1) : slice'[base + i] = slice[base + i]
          /\ slice'[base + n] = c
      BY <1>1, <1>2, <1>3, <1>5
    <2>. HIDE DEF w, c, n
    <2>2. [i \in 1..(n + 1) |-> slice'[base + (i - 1)]] = Append(w, c)
      BY <2>1, OneEntryMore
    <2>. QED
      BY <2>2 DEF w, c, n
  <1>. QED
    BY <1>4, <1>6, Zenon

(***************************************************************************)
(* collapseRepeats keeps what Sanitized keeps.                             *)
(***************************************************************************)
LEMMA StartCollapseSqueezes ==
  ASSUME IInv, SqueezeInv, StartCollapse
  PROVE  SqueezeInv'
  <1> DEFINE C == Converted(text)
  <1>1. C \in Seq(Char) /\ Len(C) = Len(text) /\ Len(text) \in Nat
    BY RestFacts, TextFacts DEF IInv
  <1>2. ASSUME NEW i \in 1..Len(text) PROVE slice'[i - 1] = C[i]
    <2>1. slice[i - 1] = text[i] /\ i - 1 \in DOMAIN slice /\ text \in Seq(Char)
      BY <1>1 DEF SqueezeInv, StartCollapse, IInv, TypeOK
    <2>. QED
      BY <2>1 DEF StartCollapse, Replaced, Converted
  <1>3. /\ pc' = "repeats" /\ text' = text /\ given' = slice' /\ base' = 0 /\ len' = Len(text)
        /\ write_idx' = (IF Len(text) = 0 THEN 0 ELSE 1) /\ read_idx' = write_idx'
    BY DEF StartCollapse, IInv, Collapsing
  <1>4. Written' = [i \in 1..write_idx' |-> slice'[0 + (i - 1)]]
    BY <1>3 DEF Written, At
  <1>. HIDE DEF C
  <1>5. Written' = Squeezed(SubSeq(C, 1, read_idx'))
    <2>1. CASE Len(text) = 0
      <3>1. SubSeq(C, 1, 0) = <<>>
        BY <1>1, UpTo
      <3>2. Squeezed(<<>>) = <<>>
        BY SqueezedIs
      <3>3. Written' = [i \in 1..0 |-> slice'[0 + (i - 1)]] /\ read_idx' = 0
        BY <1>3, <1>4, <2>1
      <3>4. Written' = <<>>
        BY <3>3
      <3>. QED
        BY <3>1, <3>2, <3>3, <3>4, Zenon
    <2>2. CASE Len(text) # 0
      <3>1. C[1] \in Char /\ 0 \in 0..Len(C) /\ 0 < Len(C) /\ 0 + 1 = 1 /\ 1 \in 1..Len(text) /\ 1 - 1 = 0
        BY <1>1, <2>2
      <3>2. SubSeq(C, 1, 1) = Append(<<>>, C[1])
        <4>1. SubSeq(C, 1, 0) = <<>>
          BY <1>1, UpTo, Zenon
        <4>2. SubSeq(C, 1, 0 + 1) = Append(SubSeq(C, 1, 0), C[0 + 1])
          BY <1>1, <3>1, UpTo, Zenon
        <4>. QED
          BY <3>1, <4>1, <4>2, Zenon
      <3>3. Squeezed(Append(<<>>, C[1])) = Kept(<<>>, C[1]) /\ Kept(<<>>, C[1]) = Append(<<>>, C[1])
        <4>1. <<>> \in Seq(Char)
          OBVIOUS
        <4>2. Squeezed(Append(<<>>, C[1])) = Kept(Squeezed(<<>>), C[1]) /\ Squeezed(<<>>) = <<>>
          BY <3>1, <4>1, SqueezedIs
        <4>. QED
          BY <4>2 DEF Kept
      <3>4. slice'[0] = C[1]
        <4>1. slice'[1 - 1] = C[1]
          BY <1>2, <3>1, Zenon
        <4>. QED
          BY <3>1, <4>1, Zenon
      <3>5. Written' = <<C[1]>>
        <4>1. Written' = [i \in 1..1 |-> C[1]]
          BY <1>3, <1>4, <2>2, <3>4
        <4>. QED
          BY <4>1
      <3>6. Append(<<>>, C[1]) = <<C[1]>>
        BY <3>1, Singles
      <3>7. read_idx' = 1
        BY <1>3, <2>2
      <3>. QED
        BY <3>2, <3>3, <3>5, <3>6, <3>7, Zenon
    <2>. QED
      BY <2>1, <2>2
  <1>6. IF read_idx' = 0 THEN len' = 0
        ELSE write_idx' > 0 /\ slice'[write_idx' - 1] = given'[read_idx' - 1]
    BY <1>1, <1>3
  <1>. QED
    BY <1>2, <1>3, <1>5, <1>6 DEF SqueezeInv, C

\* What collapseRepeats looks at, and what Sanitized does with it.
LEMMA RepeatsRead ==
  ASSUME IInv, SqueezeInv, pc = "repeats", read_idx < len
  PROVE  /\ write_idx > 0 /\ read_idx > 0 /\ read_idx \in Nat /\ write_idx \in Nat /\ base = 0
         /\ read_idx + 1 \in 1..Len(text)
         /\ At(read_idx) = given[read_idx]
         /\ At(write_idx - 1) = At(read_idx - 1)
         /\ Squeezed(SubSeq(Converted(text), 1, read_idx + 1)) = Kept(Written, At(read_idx))
         /\ Written \in Seq(Char) /\ Written # <<>> /\ Last(Written) = At(read_idx - 1)
  <1> DEFINE C == Converted(text)
  <1>1. /\ C \in Seq(Char) /\ Len(C) = Len(text) /\ Len(text) \in Nat
        /\ base = 0 /\ len = Len(text) /\ read_idx \in Nat /\ write_idx \in Nat
        /\ \A i \in 1..Len(text) : given[i - 1] = C[i]
    BY RestFacts, TextFacts DEF IInv, Collapsing, SqueezeInv, TypeOK
  <1>2. read_idx > 0 /\ write_idx > 0 /\ slice[write_idx - 1] = given[read_idx - 1]
    BY <1>1 DEF SqueezeInv
  <1>3. /\ read_idx \in read_idx..(len - 1) /\ base + read_idx = read_idx
        /\ base + read_idx - 1 = read_idx - 1 /\ base + (write_idx - 1) = write_idx - 1
    BY <1>1
  <1>4. At(read_idx) = given[read_idx] /\ At(read_idx - 1) = given[read_idx - 1]
    BY <1>2, <1>3 DEF IInv, UnreadKept
  <1>5. At(write_idx - 1) = At(read_idx - 1)
    BY <1>2, <1>3, <1>4 DEF At
  <1>6. read_idx + 1 \in 1..Len(text) /\ (read_idx + 1) - 1 = read_idx
    BY <1>1
  <1>7. At(read_idx) = C[read_idx + 1]
    BY <1>1, <1>4, <1>6
  <1>. HIDE DEF C, At
  <1>8. Squeezed(SubSeq(C, 1, read_idx + 1)) = Kept(Written, At(read_idx))
    <2>1. read_idx \in 0..Len(C) /\ read_idx < Len(C)
      BY <1>1
    <2>2. /\ SubSeq(C, 1, read_idx) \in Seq(Char) /\ C[read_idx + 1] \in Char
          /\ SubSeq(C, 1, read_idx + 1) = Append(SubSeq(C, 1, read_idx), C[read_idx + 1])
      BY <1>1, <2>1, UpTo
    <2>3. Written = Squeezed(SubSeq(C, 1, read_idx))
      BY DEF SqueezeInv, C
    <2>. QED
      BY <1>7, <2>2, <2>3, SqueezedIs
  <1>9. Written \in Seq(Char) /\ Len(Written) = write_idx /\ Written[write_idx] = At(write_idx - 1)
    BY <1>1, <1>2, WrittenIs DEF IInv
  <1>10. Written # <<>> /\ Last(Written) = At(read_idx - 1)
    BY <1>2, <1>5, <1>9 DEF Last
  <1>. QED
    BY <1>1, <1>2, <1>4, <1>5, <1>6, <1>8, <1>9, <1>10 DEF C

\* An element that is copied is one Sanitized keeps.
LEMMA KeepElemSqueezes ==
  ASSUME IInv, SqueezeInv, KeepElem
  PROVE  SqueezeInv'
  <1>1. pc = "repeats" /\ read_idx < len /\ CopyElem /\ ~IsRepeat /\ pc' = pc
    BY DEF KeepElem
  <1>2. /\ base = 0 /\ write_idx > 0 /\ read_idx > 0 /\ read_idx \in Nat /\ write_idx \in Nat
        /\ At(read_idx) = given[read_idx]
        /\ Squeezed(SubSeq(Converted(text), 1, read_idx + 1)) = Kept(Written, At(read_idx))
        /\ Last(Written) = At(read_idx - 1)
    BY <1>1, RepeatsRead
  <1>3. Written' = Append(Written, given[read_idx]) /\ base + read_idx = read_idx
    <2>1. base + read_idx = read_idx
      BY <1>2
    <2>. QED
      BY <1>1, <1>2, <2>1, CopyWritten
  <1>4. /\ slice'[base + write_idx] = given[read_idx]
        /\ UNCHANGED <<given, base, len>>
        /\ write_idx' = write_idx + 1 /\ read_idx' = read_idx + 1
    BY <1>1, <1>2, <1>3, CopyWrites
  <1>5. Kept(Written, At(read_idx)) = Append(Written, At(read_idx))
    BY <1>1, <1>2 DEF Kept, IsRepeat
  <1>6. text' = text
    BY <1>1 DEF CopyElem
  <1>7. Written' = Squeezed(SubSeq(Converted(text'), 1, read_idx'))
    BY <1>2, <1>3, <1>4, <1>5, <1>6
  <1>8. \A i \in 1..Len(text') : given'[i - 1] = Converted(text')[i]
    BY <1>1, <1>4, <1>6 DEF SqueezeInv
  <1>9. read_idx' # 0 /\ write_idx' > 0 /\ slice'[write_idx' - 1] = given'[read_idx' - 1]
    BY <1>2, <1>4
  <1>. QED
    BY <1>1, <1>7, <1>8, <1>9 DEF SqueezeInv

\* One that is not is one it leaves out.
LEMMA DropRepeatSqueezes ==
  ASSUME IInv, SqueezeInv, DropRepeat
  PROVE  SqueezeInv'
  <1>1. /\ pc = "repeats" /\ read_idx < len /\ IsRepeat /\ read_idx' = read_idx + 1
        /\ UNCHANGED <<text, slice, given, base, len, write_idx, pc>>
    BY DEF DropRepeat
  <1>2. /\ base = 0 /\ write_idx > 0 /\ read_idx > 0 /\ read_idx \in Nat /\ write_idx \in Nat
        /\ At(read_idx) = given[read_idx] /\ At(write_idx - 1) = At(read_idx - 1)
        /\ Squeezed(SubSeq(Converted(text), 1, read_idx + 1)) = Kept(Written, At(read_idx))
        /\ Written # <<>> /\ Last(Written) = At(read_idx - 1)
    BY <1>1, RepeatsRead
  <1>3. Kept(Written, At(read_idx)) = Written
    BY <1>1, <1>2 DEF Kept, IsRepeat
  <1>4. Written' = Written
    BY <1>1 DEF Written, At
  <1>5. \A i \in 1..Len(text') : given'[i - 1] = Converted(text')[i]
    BY <1>1 DEF SqueezeInv
  <1>6. read_idx' # 0 /\ write_idx' > 0 /\ slice'[write_idx' - 1] = given'[read_idx' - 1]
    <2>1. base + (write_idx - 1) = write_idx - 1 /\ read_idx' - 1 = read_idx /\ read_idx' # 0
      BY <1>1, <1>2
    <2>2. slice[write_idx - 1] = At(write_idx - 1)
      BY <2>1 DEF At
    <2>3. At(read_idx) = At(read_idx - 1)
      BY <1>1 DEF IsRepeat
    <2>. QED
      BY <1>1, <1>2, <2>1, <2>2, <2>3
  <1>. QED
    BY <1>1, <1>2, <1>3, <1>4, <1>5, <1>6 DEF SqueezeInv

-----------------------------------------------------------------------------
(***************************************************************************)
(* removeDotDirsSanitized starts on the sanitized path, behind a leading   *)
(* separator.                                                              *)
(***************************************************************************)
LEMMA StartRemovalWalks ==
  ASSUME IInv, SqueezeInv, StartRemoval
  PROVE  WalkInv'
  <1>1. /\ pc = "repeats" /\ read_idx = len /\ base = 0 /\ len = Len(text)
        /\ text' = text /\ slice' = slice /\ given' = slice /\ read_idx' = 0 /\ write_idx' = 0
        /\ base' = (IF write_idx > 0 /\ slice[0] = BackSlash THEN 1 ELSE 0)
        /\ len' = write_idx - base' /\ pc' = "dirs"
    BY DEF StartRemoval, IInv, Collapsing
  <1>2. /\ Written \in Seq(Char) /\ Len(Written) = write_idx /\ write_idx \in Nat
        /\ \A i \in 1..write_idx : Written[i] = slice[i - 1]
    <2>1. /\ Written \in Seq(Char) /\ Len(Written) = write_idx
          /\ \A i \in 1..write_idx : Written[i] = At(i - 1)
      BY WrittenIs DEF IInv
    <2>2. write_idx \in Nat
      BY TextFacts DEF IInv, TypeOK
    <2>3. \A i \in 1..write_idx : At(i - 1) = slice[i - 1]
      BY <1>1, <2>2 DEF At
    <2>. QED
      BY <2>1, <2>2, <2>3
  <1>3. Written = Path
    <2>1. /\ Converted(text) \in Seq(Char) /\ Len(Converted(text)) = Len(text)
          /\ Path = Squeezed(Converted(text))
      BY RestFacts DEF IInv
    <2>2. SubSeq(Converted(text), 1, Len(Converted(text))) = Converted(text)
      BY <2>1, UpTo
    <2>. QED
      BY <1>1, <2>1, <2>2 DEF SqueezeInv
  <1>4. Path' = Path /\ Root' = Root /\ Rest' = Rest
    BY <1>1 DEF Path, Root, Rest
  <1>5. /\ Len(Path) = Root + Len(Rest) /\ Rest \in Seq(Char) /\ Len(Rest) \in Nat
        /\ \A i \in 1..Len(Rest) : Rest[i] = Path[Root + i]
    BY RestFacts DEF IInv
  <1>. HIDE DEF Written, Path
  <1>6. base' = Root
    <2>1. Path # <<>> <=> write_idx > 0
      BY <1>2, <1>3
    <2>2. write_idx > 0 => Path[1] = slice[0]
      BY <1>2, <1>3
    <2>. QED
      BY <1>1, <2>1, <2>2 DEF Root, Rooted
  <1>7. Root \in {0, 1}
    BY DEF Root
  <1>8. len' = Len(Rest)
    BY <1>1, <1>2, <1>3, <1>5, <1>6, <1>7
  <1>9. ASSUME NEW i \in 1..Len(Rest) PROVE given'[Root + (i - 1)] = Rest[i]
    <2>1. Root + i \in 1..write_idx /\ (Root + i) - 1 = Root + (i - 1)
      BY <1>2, <1>3, <1>5, <1>7
    <2>. QED
      BY <1>1, <1>2, <1>3, <1>5, <2>1
  <1>10. GivenRest'
    <2>1. base' = 1 => slice'[0] = BackSlash
      BY <1>1
    <2>. QED
      BY <1>4, <1>6, <1>8, <1>9, <2>1 DEF GivenRest
  <1>11. Read' = <<>>
    BY <1>1, <1>4, <1>5, UpTo DEF Read
  <1>12. Written' = <<>>
    BY <1>1 DEF Written
  <1>13. ReadAs(Char, <<>>, Nowhere, <<>>)
    BY PlaceNothing, CharAssumption
  <1>14. Place(Read') = Nowhere /\ Begun(Read') = <<>>
    BY <1>11, <1>13 DEF ReadAs
  <1>15. Follows(Place(Read'), Begun(Read'), Written')
    BY <1>12, <1>14, FollowsStart
  <1>. QED
    BY <1>1, <1>10, <1>14, <1>15 DEF WalkInv

\* What is ahead of read_idx, and what has been read when it has passed.
LEMMA Reading ==
  ASSUME IInv, GivenRest
  PROVE  /\ Rest \in Seq(Char) /\ Len(Rest) = len /\ len \in Nat /\ read_idx \in 0..len
         /\ Read \in Seq(Char) /\ Len(Read) = read_idx /\ SubSeq(Rest, 1, read_idx) = Read
         /\ read_idx = len => Read = Rest
         /\ SubSeq(Rest, 1, len) = Rest
         /\ \A i \in read_idx..(len - 1) :
              /\ At(i) = given[base + i] /\ At(i) = Rest[i + 1] /\ At(i) \in Char
              /\ SubSeq(Rest, 1, i + 1) = Append(SubSeq(Rest, 1, i), At(i))
  <1>1. /\ Rest \in Seq(Char) /\ Len(Rest) = len /\ len \in Nat /\ read_idx \in 0..len
        /\ \A i \in 1..len : given[base + (i - 1)] = Rest[i]
    BY RestFacts, TextFacts DEF IInv, TypeOK, GivenRest
  <1>2. /\ Read \in Seq(Char) /\ Len(Read) = read_idx /\ SubSeq(Rest, 1, read_idx) = Read
        /\ SubSeq(Rest, 1, len) = Rest /\ (read_idx = len => Read = Rest)
    BY <1>1, UpTo DEF Read
  <1>3. ASSUME NEW i \in read_idx..(len - 1)
        PROVE  /\ At(i) = given[base + i] /\ At(i) = Rest[i + 1] /\ At(i) \in Char
               /\ SubSeq(Rest, 1, i + 1) = Append(SubSeq(Rest, 1, i), At(i))
    <2>1. At(i) = given[base + i]
      BY DEF IInv, UnreadKept
    <2>2. i + 1 \in 1..len /\ (i + 1) - 1 = i /\ i \in 0..Len(Rest) /\ i < Len(Rest)
      BY <1>1
    <2>3. Rest[i + 1] \in Char /\ SubSeq(Rest, 1, i + 1) = Append(SubSeq(Rest, 1, i), Rest[i + 1])
      BY <1>1, <2>2, UpTo
    <2>4. given[base + ((i + 1) - 1)] = Rest[i + 1]
      BY <1>1, <2>2
    <2>5. given[base + i] = Rest[i + 1]
      BY <2>2, <2>4
    <2>. QED
      BY <2>1, <2>3, <2>5
  <1>. QED
    BY <1>1, <1>2, <1>3

\* A name that has been read to its end is a dot directory only where one was given.
LEMMA NameNoDots ==
  ASSUME IInv, GivenRest, Begun(Read) \in {<<Dot>>, <<Dot, Dot>>},
         read_idx < len => At(read_idx) = BackSlash
  PROVE  GivenDotDir(read_idx - Len(Begun(Read)))
  <1> DEFINE n == Begun(Read)
             r == read_idx - Len(n)
  <1>1. /\ Rest \in Seq(Char) /\ Len(Rest) = len /\ len \in Nat /\ read_idx \in 0..len
        /\ Read \in Seq(Char) /\ Len(Read) = read_idx /\ SubSeq(Rest, 1, read_idx) = Read
        /\ \A i \in 1..len : given[base + (i - 1)] = Rest[i]
    BY Reading DEF GivenRest
  <1>2. EndsIn(Read, n)
    BY <1>1, BegunIs, CharAssumption
  <1>3. n \in {<<Dot>>, <<Dot, Dot>>}
    OBVIOUS
  <1>. HIDE DEF n
  <1>4. Len(n) \in {1, 2} /\ n[1] = Dot /\ n[Len(n)] = Dot
    BY <1>3
  <1>5. /\ 1 \in 1..Len(n) /\ Len(n) \in 1..Len(n) /\ Len(n) <= read_idx
        /\ n[1] = Read[r + 1] /\ n[Len(n)] = Read[read_idx]
    BY <1>1, <1>2, <1>4 DEF EndsIn
  <1>6. r + 1 \in 1..read_idx /\ read_idx \in 1..read_idx /\ r + 1 \in 1..len /\ read_idx \in 1..len
    BY <1>1, <1>4, <1>5
  <1>7. Rest[r + 1] = Dot /\ Rest[read_idx] = Dot
    BY <1>1, <1>4, <1>5, <1>6, UpTo
  <1>8. given[base + ((r + 1) - 1)] = Dot /\ given[base + (read_idx - 1)] = Dot
    BY <1>1, <1>6, <1>7
  <1>9. (r + 1) - 1 = r /\ r + Len(n) = read_idx /\ r + Len(n) - 1 = read_idx - 1 /\ read_idx <= len
    BY <1>1, <1>4
  <1>10. read_idx < len => given[base + read_idx] = BackSlash
    BY <1>1, Reading
  <1>. HIDE DEF r
  <1>11. GivenDotDir(r)
    BY <1>4, <1>8, <1>9, <1>10 DEF GivenDotDir
  <1>. QED
    BY <1>11 DEF r, n

-----------------------------------------------------------------------------
\* What is read, and where it leads, does not change with what is written.
LEMMA RestKept ==
  ASSUME UNCHANGED <<text, given, base, len>>, base = 1 => slice'[0] = BackSlash
  PROVE  /\ Path' = Path /\ Root' = Root /\ Rest' = Rest
         /\ GivenRest => GivenRest'
         /\ \A r : GivenDotDir(r)' <=> GivenDotDir(r)
  <1>1. Path' = Path /\ Root' = Root /\ Rest' = Rest
    BY DEF Path, Root, Rest
  <1>2. GivenRest => GivenRest'
    BY <1>1 DEF GivenRest
  <1>3. \A r : GivenDotDir(r)' <=> GivenDotDir(r)
    BY DEF GivenDotDir
  <1>. QED
    BY <1>1, <1>2, <1>3

(***************************************************************************)
(* A "." with a separator is read and nothing written.                     *)
(***************************************************************************)
LEMMA DotDirWalks ==
  ASSUME IInv, WalkInv, DotDir
  PROVE  WalkInv'
  <1>1. /\ pc = "dirs" /\ pc' = "dirs" /\ read_idx' = read_idx + 2
        /\ UNCHANGED <<text, slice, given, base, len, write_idx>>
        /\ read_idx + 1 < len /\ At(read_idx) = Dot /\ At(read_idx + 1) = BackSlash
    BY DEF DotDir, AtDotDir, AtDot
  <1>2. GivenRest /\ Begun(Read) = <<>> /\ Follows(Place(Read), <<>>, Written)
    BY <1>1 DEF WalkInv
  <1>3. Rest' = Rest /\ GivenRest'
    BY <1>1, <1>2, RestKept DEF GivenRest
  <1>4. Written' = Written
    BY <1>1 DEF Written, At
  <1>5. /\ Read \in Seq(Char) /\ SubSeq(Rest, 1, read_idx) = Read /\ read_idx \in Nat /\ len \in Nat
        /\ \A i \in read_idx..(len - 1) :
             SubSeq(Rest, 1, i + 1) = Append(SubSeq(Rest, 1, i), At(i))
    BY <1>2, Reading
  <1>6. Read' = Append(Append(Read, Dot), BackSlash)
    <2>1. /\ read_idx \in read_idx..(len - 1) /\ read_idx + 1 \in read_idx..(len - 1)
          /\ (read_idx + 1) + 1 = read_idx + 2
      BY <1>1, <1>5
    <2>2. SubSeq(Rest, 1, read_idx + 1) = Append(Read, Dot)
      BY <1>1, <1>5, <2>1
    <2>3. SubSeq(Rest, 1, read_idx + 2) = Append(SubSeq(Rest, 1, read_idx + 1), BackSlash)
      BY <1>1, <1>5, <2>1
    <2>. QED
      BY <1>1, <1>3, <2>2, <2>3 DEF Read
  <1>7. ReadAs(Char, Append(Append(Read, Dot), BackSlash), Place(Read), <<>>)
    BY <1>2, <1>5, DotsRead, CharAssumption
  <1>8. Place(Read') = Place(Read) /\ Begun(Read') = <<>>
    BY <1>6, <1>7 DEF ReadAs
  <1>9. Follows(Place(Read'), Begun(Read'), Written')
    BY <1>2, <1>4, <1>8
  <1>. QED
    BY <1>1, <1>3, <1>8, <1>9 DEF WalkInv

(***************************************************************************)
(* A name is written as it is read; a separator behind it makes it a       *)
(* directory, since it is no dot directory.                                *)
(***************************************************************************)
LEMMA CopyNameWalks ==
  ASSUME IInv, WalkInv, CopyName
  PROVE  WalkInv'
  <1> DEFINE c == At(read_idx)
  <1>1. /\ pc \in {"dirs", "name"} /\ (pc = "dirs" => AtName) /\ CopyElem
        /\ pc' = IF c = BackSlash THEN "dirs" ELSE "name"
    BY DEF CopyName
  <1>2. /\ GivenRest /\ Follows(Place(Read), Begun(Read), Written)
        /\ pc = "dirs" => Begun(Read) = <<>>
        /\ pc = "name" => Begun(Read) # <<>> /\ ~GivenDotDir(read_idx - Len(Begun(Read)))
    BY <1>1 DEF WalkInv
  <1>3. base = 1 => slice[0] = BackSlash
    BY <1>2 DEF GivenRest
  <1>4. /\ c = given[base + read_idx] /\ (base' = 1 => slice'[0] = BackSlash)
        /\ UNCHANGED <<text, given, base, len>> /\ read_idx' = read_idx + 1
        /\ read_idx < len
    BY <1>1, <1>3, CopyWrites DEF CopyElem
  <1>5. Written' = Append(Written, c)
    BY <1>1, <1>3, <1>4, CopyWritten
  <1>6. Rest' = Rest /\ GivenRest' /\ \A r : GivenDotDir(r)' <=> GivenDotDir(r)
    BY <1>2, <1>4, RestKept
  <1>7. /\ Rest \in Seq(Char) /\ Read \in Seq(Char) /\ Len(Read) = read_idx
        /\ SubSeq(Rest, 1, read_idx) = Read
        /\ read_idx \in Nat /\ len \in Nat /\ Len(Rest) = len
        /\ c \in Char /\ c = Rest[read_idx + 1]
        /\ SubSeq(Rest, 1, read_idx + 1) = Append(Read, c)
    <2>1. read_idx \in read_idx..(len - 1)
      BY <1>2, <1>4, Reading
    <2>. QED
      BY <1>2, <2>1, Reading
  <1>8. Read' = Append(Read, c)
    BY <1>4, <1>6, <1>7 DEF Read
  <1>9. /\ Begun(Read) \in PlainNames(Char) /\ Place(Read) \in Places(Char)
        /\ Begun(Read) \in Seq(Char)
        /\ Read # <<>> /\ Begun(Read) = <<>> => Read[Len(Read)] = BackSlash
    BY <1>7, BegunIs, CharAssumption DEF PlainNames
  <1>. HIDE DEF c
  <1>10. CASE c # BackSlash
    <2>1. ReadAs(Char, Append(Read, c), Place(Read), Append(Begun(Read), c))
      BY <1>7, <1>10, PlaceChar, CharAssumption
    <2>2. Place(Read') = Place(Read) /\ Begun(Read') = Append(Begun(Read), c)
      BY <1>8, <2>1 DEF ReadAs
    <2>3. Follows(Place(Read'), Begun(Read'), Written')
      BY <1>2, <1>5, <1>7, <1>9, <2>2, FollowsChar
    <2>4. Len(Begun(Read')) = Len(Begun(Read)) + 1 /\ Begun(Read') # <<>> /\ Len(Begun(Read)) \in Nat
      BY <1>7, <1>9, <2>2
    <2>5. ~GivenDotDir(read_idx - Len(Begun(Read)))
      <3>1. CASE pc = "dirs"
        <4>1. Begun(Read) = <<>> /\ read_idx - Len(Begun(Read)) = read_idx
          BY <1>2, <1>7, <3>1
        <4>2. ~GivenDotDir(read_idx)
          BY <1>1, <3>1, NameIsNoDotDir
        <4>. QED
          BY <4>1, <4>2
      <3>. QED
        BY <1>1, <1>2, <3>1
    <2>6. read_idx' - Len(Begun(Read')) = read_idx - Len(Begun(Read))
      BY <1>4, <1>7, <2>4
    <2>7. ~GivenDotDir(read_idx - Len(Begun(Read)))'
      <3>1. GivenDotDir(read_idx - Len(Begun(Read)))' <=> GivenDotDir(read_idx - Len(Begun(Read)))
        BY <1>4, <2>6 DEF GivenDotDir
      <3>. QED
        BY <2>5, <3>1
    <2>. QED
      BY <1>1, <1>6, <1>10, <2>3, <2>4, <2>7 DEF WalkInv
  <1>11. CASE c = BackSlash
    <2>1. pc = "name"
      <3>. SUFFICES ASSUME pc = "dirs" PROVE FALSE
        BY <1>1
      <3>1. NoDouble(Rest) /\ (Rest # <<>> => Rest[1] # BackSlash)
        BY RestFacts DEF IInv
      <3>2. CASE read_idx = 0
        BY <1>4, <1>7, <1>11, <3>1, <3>2
      <3>3. CASE read_idx # 0
        <4>1. Read # <<>> /\ read_idx \in 1..read_idx /\ read_idx \in 0..Len(Rest)
          BY <1>4, <1>7, <3>3
        <4>2. Read[read_idx] = BackSlash
          BY <1>2, <1>7, <1>9, <4>1
        <4>3. Rest[read_idx] = BackSlash
          BY <1>7, <4>1, <4>2, UpTo
        <4>4. read_idx + 1 \in 2..Len(Rest) /\ (read_idx + 1) - 1 = read_idx
          BY <1>4, <1>7, <3>3
        <4>. QED
          BY <1>7, <1>11, <3>1, <4>3, <4>4 DEF NoDouble
      <3>. QED
        BY <3>2, <3>3
    <2>2. Begun(Read) \notin {<<>>, <<Dot>>, <<Dot, Dot>>}
      BY <1>2, <1>11, <2>1, NameNoDots DEF c
    <2>3. ReadAs(Char, Append(Read, BackSlash), Into(Place(Read), Begun(Read)), <<>>)
      BY <1>7, PlaceSeparator, CharAssumption
    <2>4. Place(Read') = Into(Place(Read), Begun(Read)) /\ Begun(Read') = <<>>
      BY <1>8, <1>11, <2>3 DEF ReadAs
    <2>5. Follows(Place(Read'), Begun(Read'), Written')
      BY <1>2, <1>5, <1>7, <1>9, <1>11, <2>2, <2>4, FollowsName
    <2>. QED
      BY <1>1, <1>6, <1>11, <2>4, <2>5 DEF WalkInv
  <1>. QED
    BY <1>10, <1>11

-----------------------------------------------------------------------------
\* ".." backs up to a separator: what is left is a beginning of what was written.
LEMMA ParentWrites ==
  ASSUME IInv, NEW q \in 0..write_idx, BacksUpTo(q), UNCHANGED <<slice, base>>, write_idx' = q
  PROVE  /\ Written \in Seq(Char) /\ Len(Written) = write_idx /\ write_idx \in Nat
         /\ q \in 0..(Len(Written) - 2) /\ (q > 0 => Written[q + 1] = BackSlash)
         /\ Written' = SubSeq(Written, 1, q)
  <1>1. /\ Written \in Seq(Char) /\ Len(Written) = write_idx
        /\ \A i \in 1..write_idx : Written[i] = At(i - 1)
    BY WrittenIs DEF IInv
  <1>2. write_idx \in Nat /\ q \in 0..(write_idx - 2) /\ (q > 0 => At(q) = BackSlash)
    BY TextFacts DEF IInv, TypeOK, BacksUpTo
  <1>3. q > 0 => Written[q + 1] = BackSlash
    <2>1. q + 1 \in 1..write_idx /\ (q + 1) - 1 = q
      BY <1>2
    <2>. QED
      BY <1>1, <1>2, <2>1
  <1>4. Written' = [i \in 1..q |-> At(i - 1)]
    BY DEF Written, At
  <1>. HIDE DEF At, Written
  <1>5. Written' = SubSeq(Written, 1, q)
    BY <1>1, <1>2, <1>4
  <1>. QED
    BY <1>1, <1>2, <1>3, <1>5

\* The two dots, and what is behind them.
LEMMA ParentRead ==
  ASSUME IInv, WalkInv, pc = "dirs", AtDotDot
  PROVE  /\ GivenRest /\ Begun(Read) = <<>> /\ Follows(Place(Read), <<>>, Written)
         /\ Read \in Seq(Char) /\ Place(Read) \in Places(Char)
         /\ read_idx + 2 = len =>
              Place(Rest) = Place(Read) /\ Begun(Rest) = <<Dot, Dot>>
         /\ read_idx + 2 # len =>
              /\ read_idx + 3 \in 0..Len(Rest)
              /\ Place(SubSeq(Rest, 1, read_idx + 3)) = Into(Place(Read), <<Dot, Dot>>)
              /\ Begun(SubSeq(Rest, 1, read_idx + 3)) = <<>>
  <1> DEFINE dotdot == Append(Append(Read, Dot), Dot)
  <1>1. GivenRest /\ Begun(Read) = <<>> /\ Follows(Place(Read), <<>>, Written)
    BY DEF WalkInv
  <1>2. /\ Read \in Seq(Char) /\ SubSeq(Rest, 1, read_idx) = Read /\ read_idx \in Nat /\ len \in Nat
        /\ Len(Rest) = len /\ SubSeq(Rest, 1, len) = Rest
        /\ \A i \in read_idx..(len - 1) :
             SubSeq(Rest, 1, i + 1) = Append(SubSeq(Rest, 1, i), At(i))
    BY <1>1, Reading
  <1>3. /\ read_idx + 1 < len /\ At(read_idx) = Dot /\ At(read_idx + 1) = Dot
        /\ read_idx + 2 < len => At(read_idx + 2) = BackSlash
    BY DEF AtDotDot, AtDot
  <1>4. SubSeq(Rest, 1, read_idx + 2) = dotdot
    <2>1. /\ read_idx \in read_idx..(len - 1) /\ read_idx + 1 \in read_idx..(len - 1)
          /\ (read_idx + 1) + 1 = read_idx + 2
      BY <1>2, <1>3
    <2>2. SubSeq(Rest, 1, read_idx + 1) = Append(Read, Dot)
      BY <1>2, <1>3, <2>1
    <2>. QED
      BY <1>2, <1>3, <2>1, <2>2
  <1>5. /\ ReadAs(Char, dotdot, Place(Read), <<Dot, Dot>>)
        /\ ReadAs(Char, Append(dotdot, BackSlash), Into(Place(Read), <<Dot, Dot>>), <<>>)
    BY <1>1, <1>2, DotsRead, CharAssumption
  <1>6. Place(Read) \in Places(Char)
    BY <1>5 DEF ReadAs
  <1>. HIDE DEF dotdot
  <1>7. ASSUME read_idx + 2 = len
        PROVE  Place(Rest) = Place(Read) /\ Begun(Rest) = <<Dot, Dot>>
    <2>1. Rest = dotdot
      BY <1>2, <1>4, <1>7
    <2>. QED
      BY <1>5, <2>1 DEF ReadAs
  <1>8. ASSUME read_idx + 2 # len
        PROVE  /\ read_idx + 3 \in 0..Len(Rest)
               /\ Place(SubSeq(Rest, 1, read_idx + 3)) = Into(Place(Read), <<Dot, Dot>>)
               /\ Begun(SubSeq(Rest, 1, read_idx + 3)) = <<>>
    <2>1. /\ read_idx + 2 < len /\ read_idx + 2 \in read_idx..(len - 1)
          /\ (read_idx + 2) + 1 = read_idx + 3 /\ read_idx + 3 \in 0..Len(Rest)
      BY <1>2, <1>3, <1>8
    <2>2. SubSeq(Rest, 1, read_idx + 3) = Append(dotdot, BackSlash)
      BY <1>2, <1>3, <1>4, <2>1
    <2>. QED
      BY <1>5, <2>1, <2>2 DEF ReadAs
  <1>. QED
    BY <1>1, <1>2, <1>6, <1>7, <1>8

(***************************************************************************)
(* ".." takes the last directory, if it is the only one.                   *)
(***************************************************************************)
LEMMA ParentDirWalks ==
  ASSUME IInv, WalkInv, ParentDir, read_idx + 2 # len
  PROVE  WalkInv'
  <1>1. /\ pc = "dirs" /\ AtDotDot /\ write_idx >= 2
        /\ UNCHANGED <<text, slice, given, base, len>>
        /\ read_idx' = read_idx + 3 /\ pc' = "dirs"
    BY DEF ParentDir
  <1>2. PICK q \in 0..write_idx : BacksUpTo(q) /\ write_idx' = q
    BY DEF ParentDir
  <1>3. /\ GivenRest /\ Follows(Place(Read), <<>>, Written) /\ Place(Read) \in Places(Char)
        /\ Place(SubSeq(Rest, 1, read_idx + 3)) = Into(Place(Read), <<Dot, Dot>>)
        /\ Begun(SubSeq(Rest, 1, read_idx + 3)) = <<>>
    BY <1>1, ParentRead
  <1>4. Rest' = Rest /\ GivenRest'
    BY <1>1, <1>3, RestKept DEF GivenRest
  <1>5. Read' = SubSeq(Rest, 1, read_idx + 3)
    BY <1>1, <1>4 DEF Read
  <1>6. /\ Written \in Seq(Char) /\ Len(Written) = write_idx
        /\ q \in 0..(Len(Written) - 2) /\ (q > 0 => Written[q + 1] = BackSlash)
        /\ Written' = SubSeq(Written, 1, q)
    BY <1>1, <1>2, ParentWrites
  <1>7. Follows(Into(Place(Read), <<Dot, Dot>>), <<>>, SubSeq(Written, 1, q))
    BY <1>1, <1>3, <1>6, FollowsParent DEF Into
  <1>8. Place(Read') = Into(Place(Read), <<Dot, Dot>>) /\ Begun(Read') = <<>>
    BY <1>3, <1>5
  <1>9. Follows(Place(Read'), Begun(Read'), Written')
    BY <1>6, <1>7, <1>8
  <1>. QED
    BY <1>1, <1>4, <1>8, <1>9 DEF WalkInv
-----------------------------------------------------------------------------
\* A character of two strings is one of the first or of the second.
LEMMA OfEither ==
  ASSUME NEW S, NEW s \in Seq(S), NEW t \in Seq(S), NEW m, Len(s) = m, NEW n, Len(t) = n
  PROVE  /\ s \o t \in Seq(S) /\ Len(s \o t) = m + n
         /\ \A i \in 1..m : (s \o t)[i] = s[i]
         /\ \A i \in 1..n : (s \o t)[m + i] = t[i]
  OBVIOUS

\* What the caller has is what is written, behind a leading separator.
LEMMA ResultIs ==
  ASSUME IInv, GivenRest, NEW q \in 0..write_idx
  PROVE  [i \in 1..(base + q) |-> slice[i - 1]]
           = (IF Rooted(Path) THEN <<BackSlash>> ELSE <<>>) \o SubSeq(Written, 1, q)
  <1> DEFINE root == IF Rooted(Path) THEN <<BackSlash>> ELSE <<>>
             w    == SubSeq(Written, 1, q)
             h    == [i \in 1..(base + q) |-> slice[i - 1]]
  <1>1. /\ Written \in Seq(Char) /\ Len(Written) = write_idx /\ write_idx \in Nat
        /\ \A i \in 1..write_idx : Written[i] = slice[base + (i - 1)]
    BY WrittenIs, TextFacts DEF IInv, TypeOK, At
  <1>2. /\ w \in Seq(Char) /\ Len(w) = q /\ q \in Nat
        /\ \A i \in 1..q : w[i] = slice[base + (i - 1)]
    <2>1. q \in 0..Len(Written) /\ q \in Nat /\ \A i \in 1..q : i \in 1..write_idx /\ i \in Nat
      BY <1>1
    <2>. QED
      BY <1>1, <2>1, UpTo
  <1>3. base \in {0, 1} /\ base = Root /\ (base = 1 => slice[0] = BackSlash)
    BY DEF IInv, TypeOK, GivenRest
  <1>4. root \in Seq(Char) /\ Len(root) = base /\ (base = 1 => root[1] = BackSlash)
    BY <1>3, CharAssumption DEF Root
  <1>. HIDE DEF root, w, Written
  <1>5. /\ root \o w \in Seq(Char) /\ Len(root \o w) = base + q
        /\ \A i \in 1..base : (root \o w)[i] = root[i]
        /\ \A i \in 1..q : (root \o w)[base + i] = w[i]
    <2>1. root \in Seq(Char) /\ w \in Seq(Char) /\ Len(root) = base /\ Len(w) = q
      BY <1>2, <1>4
    <2>. QED
      BY <2>1, OfEither
  <1>6. ASSUME NEW i \in 1..(base + q) PROVE slice[i - 1] = (root \o w)[i]
    <2>1. CASE i <= base
      <3>1. base = 1 /\ i = 1 /\ i - 1 = 0 /\ 1 \in 1..base
        BY <1>2, <1>3, <1>4, <2>1
      <3>2. (root \o w)[1] = root[1]
        BY <1>5, <3>1, Zenon
      <3>. QED
        BY <1>3, <1>4, <3>1, <3>2, Zenon
    <2>2. CASE ~(i <= base)
      <3>1. i - base \in 1..q /\ base + (i - base) = i /\ base + ((i - base) - 1) = i - 1
        BY <1>2, <1>3, <2>2
      <3>2. (root \o w)[base + (i - base)] = w[i - base]
        BY <1>5, <3>1, Zenon
      <3>3. w[i - base] = slice[base + ((i - base) - 1)]
        BY <1>2, <3>1, Zenon
      <3>. QED
        BY <3>1, <3>2, <3>3, Zenon
    <2>. QED
      BY <2>1, <2>2
  <1>7. h \in Seq(Char) /\ Len(h) = base + q /\ \A i \in 1..(base + q) : h[i] = (root \o w)[i]
    <2>1. ASSUME NEW i \in 1..(base + q) PROVE slice[i - 1] \in Char
      <3>1. (root \o w)[i] \in Char
        BY <1>5
      <3>. QED
        BY <1>6, <3>1
    <2>2. h \in [1..(base + q) -> Char] /\ base + q \in Nat
      BY <1>2, <1>3, <2>1
    <2>3. \A i \in 1..(base + q) : h[i] = (root \o w)[i]
      BY <1>6
    <2>. HIDE DEF h
    <2>4. h \in Seq(Char) /\ Len(h) = base + q
      BY <2>2
    <2>. QED
      BY <2>3, <2>4
  <1>. HIDE DEF h
  <1>8. h = root \o w
    BY <1>5, <1>7
  <1>. QED
    BY <1>8 DEF h, root, w

(***************************************************************************)
(* What is done where the path has led is what WithoutDotDirs says.        *)
(***************************************************************************)
LEMMA DoneAgrees ==
  ASSUME IInv, GivenRest, UNCHANGED <<text, slice, base>>, pc' = "done",
         NEW q \in 0..write_idx, write_idx' = q, Leads(Walk(Path), SubSeq(Written, 1, q))
  PROVE  ShallowAgrees'
  <1>1. Sanitized(text') = Path
    BY DEF Path
  <1>2. Result' = (IF Rooted(Path) THEN <<BackSlash>> ELSE <<>>) \o SubSeq(Written, 1, q)
    <2>1. Result' = [i \in 1..(base + q) |-> slice[i - 1]]
      BY DEF Result
    <2>. QED
      BY <2>1, ResultIs
  <1>. HIDE DEF Path, Written
  <1>3. Walk(Path).shallow => Walk(Path).ok /\ pc' = "done" /\ Result' = WithoutDotDirs(Path)
    BY <1>2 DEF Leads, WithoutDotDirs
  <1>. QED
    BY <1>1, <1>3 DEF ShallowAgrees

-----------------------------------------------------------------------------
(***************************************************************************)
(* The path ends, in a ".", in a "..", or in a name.                       *)
(***************************************************************************)
LEMMA FinalDotAgrees ==
  ASSUME IInv, WalkInv, FinalDot
  PROVE  ShallowAgrees'
  <1>1. /\ pc = "dirs" /\ pc' = "done" /\ read_idx + 1 = len /\ At(read_idx) = Dot
        /\ UNCHANGED <<text, slice, given, base, len, write_idx>>
    BY DEF FinalDot, AtFinalDot, AtDot, Ends
  <1>2. GivenRest /\ Begun(Read) = <<>> /\ Follows(Place(Read), <<>>, Written)
    BY <1>1 DEF WalkInv
  <1>3. /\ Read \in Seq(Char) /\ read_idx \in Nat /\ SubSeq(Rest, 1, read_idx) = Read
        /\ SubSeq(Rest, 1, len) = Rest
        /\ \A i \in read_idx..(len - 1) :
             SubSeq(Rest, 1, i + 1) = Append(SubSeq(Rest, 1, i), At(i))
    BY <1>2, Reading
  <1>4. Rest = Append(Read, Dot)
    <2>1. read_idx \in read_idx..(len - 1)
      BY <1>1, <1>3
    <2>. QED
      BY <1>1, <1>3, <2>1
  <1>5. ReadAs(Char, Append(Read, Dot), Place(Read), <<Dot>>)
    BY <1>2, <1>3, DotsRead, CharAssumption
  <1>6. Walk(Path) = Goes(Place(Read), <<Dot>>, <<>>)
    BY <1>4, <1>5, RestFacts DEF IInv, ReadAs
  <1>7. Walk(Path) = Place(Read) /\ Place(Read) \in Places(Char)
    BY <1>5, <1>6, FollowsNone DEF ReadAs
  <1>8. /\ Written \in Seq(Char) /\ Len(Written) = write_idx /\ write_idx \in 0..write_idx
        /\ SubSeq(Written, 1, write_idx) = Written
    BY WrittenIs, TextFacts, UpTo DEF IInv, TypeOK
  <1>9. Leads(Walk(Path), SubSeq(Written, 1, write_idx))
    <2>1. Place(Read).shallow => Place(Read).ok /\ Written = FlattenSeq(Place(Read).dirs)
      BY <1>2, <1>7, <1>8, FollowsLong DEF Follows
    <2>. QED
      BY <1>7, <1>8, <2>1 DEF Leads
  <1>. QED
    BY <1>1, <1>2, <1>8, <1>9, DoneAgrees

\* A final ".." takes the only directory, as the reference does.
LEMMA ParentDirAgrees ==
  ASSUME IInv, WalkInv, ParentDir, read_idx + 2 = len
  PROVE  ShallowAgrees'
  <1>1. /\ pc = "dirs" /\ AtDotDot /\ write_idx >= 2
        /\ UNCHANGED <<text, slice, given, base, len>> /\ pc' = "done"
    BY DEF ParentDir
  <1>2. PICK q \in 0..write_idx : BacksUpTo(q) /\ write_idx' = q
    BY DEF ParentDir
  <1>3. /\ GivenRest /\ Follows(Place(Read), <<>>, Written) /\ Place(Read) \in Places(Char)
        /\ Place(Rest) = Place(Read) /\ Begun(Rest) = <<Dot, Dot>>
    BY <1>1, ParentRead
  <1>4. Walk(Path) = Goes(Place(Read), <<Dot, Dot>>, <<>>)
    BY <1>3, RestFacts DEF IInv
  <1>5. /\ Written \in Seq(Char) /\ Len(Written) = write_idx
        /\ q \in 0..(Len(Written) - 2) /\ (q > 0 => Written[q + 1] = BackSlash)
    BY <1>1, <1>2, ParentWrites
  <1>6. Leads(Goes(Place(Read), <<Dot, Dot>>, <<>>), SubSeq(Written, 1, q))
    BY <1>1, <1>3, <1>5, FollowsParent
  <1>. QED
    BY <1>1, <1>2, <1>3, <1>4, <1>6, DoneAgrees

\* A final name is the last there is.
LEMMA ReturnAgrees ==
  ASSUME IInv, WalkInv, Return
  PROVE  ShallowAgrees'
  <1>1. /\ pc \in {"dirs", "name"} /\ pc' = "done" /\ read_idx = len
        /\ UNCHANGED <<text, slice, given, base, len, write_idx>>
    BY DEF Return, Ends
  <1>2. /\ GivenRest /\ Follows(Place(Read), Begun(Read), Written)
        /\ pc = "dirs" => Begun(Read) = <<>>
        /\ pc = "name" => Begun(Read) # <<>> /\ ~GivenDotDir(read_idx - Len(Begun(Read)))
    BY <1>1 DEF WalkInv
  <1>3. Rest = Read /\ Read \in Seq(Char) /\ len \in Nat
    BY <1>1, <1>2, Reading
  <1>4. Walk(Path) = Goes(Place(Read), Begun(Read), <<>>)
    BY <1>3, RestFacts DEF IInv
  <1>5. Place(Read) \in Places(Char) /\ Begun(Read) \in Seq(Char)
    BY <1>3, BegunIs, CharAssumption DEF PlainNames
  <1>6. Begun(Read) \notin {<<Dot>>, <<Dot, Dot>>}
    <2>1. CASE pc = "dirs"
      BY <1>2, <2>1
    <2>2. CASE pc = "name"
      BY <1>1, <1>2, <1>3, <2>2, NameNoDots
    <2>. QED
      BY <1>1, <2>1, <2>2
  <1>7. /\ Written \in Seq(Char) /\ write_idx \in 0..write_idx
        /\ SubSeq(Written, 1, write_idx) = Written
    BY WrittenIs, TextFacts, UpTo DEF IInv, TypeOK
  <1>8. Leads(Goes(Place(Read), Begun(Read), <<>>), Written)
    BY <1>2, <1>5, <1>6, LeadsName
  <1>. QED
    BY <1>1, <1>2, <1>4, <1>7, <1>8, DoneAgrees

(***************************************************************************)
(* ".." has less than two characters to take: none when there is no        *)
(* directory, and then none for the whole path, and never one.             *)
(***************************************************************************)
LEMMA TooManyAgrees ==
  ASSUME IInv, WalkInv, TooManyParentDirs \/ AssertFails
  PROVE  ShallowAgrees'
  <1>1. /\ pc = "dirs" /\ AtDotDot /\ text' = text
        /\ \/ write_idx = 0 /\ pc' = "TooManyParentDirs"
           \/ write_idx = 1 /\ pc' = "abort"
    BY DEF TooManyParentDirs, AssertFails, Ends
  <1>2. /\ GivenRest /\ Follows(Place(Read), <<>>, Written)
        /\ Read \in Seq(Char) /\ Place(Read) \in Places(Char)
        /\ read_idx + 2 = len => Place(Rest) = Place(Read) /\ Begun(Rest) = <<Dot, Dot>>
        /\ read_idx + 2 # len =>
             /\ read_idx + 3 \in 0..Len(Rest)
             /\ Place(SubSeq(Rest, 1, read_idx + 3)) = Into(Place(Read), <<Dot, Dot>>)
    BY <1>1, ParentRead
  <1>3. /\ Rest \in Seq(Char) /\ Walk(Path) = Goes(Place(Rest), Begun(Rest), <<>>)
        /\ Place(Rest) \in Places(Char)
    BY RestFacts, BegunIs, CharAssumption DEF IInv
  <1>4. Written \in Seq(Char) /\ Len(Written) = write_idx
    BY WrittenIs DEF IInv
  <1>. HIDE DEF Path, Rest, Read, Written
  <1>5. /\ Walk(Path).ok => Place(Rest).ok
        /\ Walk(Path).shallow => Place(Rest).shallow
    BY <1>3, GoesOnward
  <1>6. PICK separator : LET to == Goes(Place(Read), <<Dot, Dot>>, separator)
                         IN  (Walk(Path).ok => to.ok) /\ (Walk(Path).shallow => to.shallow)
    <2>1. CASE read_idx + 2 = len
      BY <1>2, <1>3, <2>1
    <2>2. CASE read_idx + 2 # len
      <3>1. Before(SubSeq(Rest, 1, read_idx + 3), Rest)
        BY <1>2, <1>3, <2>2, BeforeAll, CharAssumption
      <3>2. LET to == Goes(Place(Read), <<Dot, Dot>>, <<BackSlash>>)
            IN  (Walk(Path).ok => to.ok) /\ (Walk(Path).shallow => to.shallow)
        BY <1>2, <1>5, <2>2, <3>1 DEF Before, Into
      <3>. QED
        BY <3>2
    <2>. QED
      BY <2>1, <2>2
  <1>7. Walk(Path).shallow => Place(Read).shallow
    BY <1>2, <1>6, GoesOnward
  <1>8. Walk(Path).shallow => write_idx # 1
    BY <1>2, <1>4, <1>7, FollowsLong
  <1>9. Walk(Path).shallow /\ write_idx = 0 => ~Walk(Path).ok
    <2>. SUFFICES ASSUME Walk(Path).shallow, write_idx = 0 PROVE ~Walk(Path).ok
      OBVIOUS
    <2>1. Written = <<>>
      BY <1>4
    <2>2. Place(Read).dirs = <<>>
      BY <1>2, <1>4, <1>7, <2>1, FollowsLong
    <2>3. ~Goes(Place(Read), <<Dot, Dot>>, separator).ok
      <3>1. <<Dot, Dot>> \notin {<<>>, <<Dot>>}
        OBVIOUS
      <3>. QED
        BY <2>2, <3>1 DEF Goes
    <2>. QED
      BY <1>6, <2>3
  <1>10. Sanitized(text') = Path
    BY <1>1 DEF Path
  <1>. QED
    BY <1>1, <1>8, <1>9, <1>10 DEF ShallowAgrees
-----------------------------------------------------------------------------
\* Nothing has been read at the start.
LEMMA InitAgree == Init => AgreeInv
  <1>1. SUFFICES ASSUME Init PROVE AgreeInv
    OBVIOUS
  <1>2. /\ pc = "replace" /\ Len(text) \in Nat
        /\ slice = [i \in 0..(Len(text) - 1) |-> text[i + 1]]
    BY <1>1, TextsAssumption DEF Init
  <1>3. ASSUME NEW i \in 1..Len(text) PROVE slice[i - 1] = text[i]
    <2>1. i - 1 \in 0..(Len(text) - 1) /\ (i - 1) + 1 = i
      BY <1>2
    <2>2. slice[i - 1] = text[(i - 1) + 1]
      BY <1>2, <2>1
    <2>. QED
      BY <2>1, <2>2
  <1>. QED
    BY <1>2, <1>3 DEF AgreeInv, SqueezeInv, WalkInv, ShallowAgrees, Outcomes

\* Every step keeps the three parts.
LEMMA NextAgreeInv == IInv /\ AgreeInv /\ [Next]_vars => AgreeInv'
  <1>1. SUFFICES ASSUME IInv, AgreeInv, [Next]_vars PROVE AgreeInv'
    OBVIOUS
  <1>2. SqueezeInv /\ WalkInv /\ ShallowAgrees
    BY <1>1 DEF AgreeInv
  \* The three parts are about different parts of the functions.
  <1>3. pc' \in {"repeats"} => WalkInv' /\ ShallowAgrees'
    BY DEF WalkInv, ShallowAgrees, Outcomes
  <1>4. pc' \in {"dirs", "name"} => SqueezeInv' /\ ShallowAgrees'
    BY DEF SqueezeInv, ShallowAgrees, Outcomes
  <1>5. pc' \in Outcomes => SqueezeInv' /\ WalkInv'
    BY DEF SqueezeInv, WalkInv, Outcomes
  <1>6. CASE StartCollapse
    BY <1>1, <1>2, <1>3, <1>6, StartCollapseSqueezes DEF AgreeInv, StartCollapse
  <1>7. CASE KeepElem
    BY <1>1, <1>2, <1>3, <1>7, KeepElemSqueezes DEF AgreeInv, KeepElem
  <1>8. CASE DropRepeat
    BY <1>1, <1>2, <1>3, <1>8, DropRepeatSqueezes DEF AgreeInv, DropRepeat
  <1>9. CASE StartRemoval
    BY <1>1, <1>2, <1>4, <1>9, StartRemovalWalks DEF AgreeInv, StartRemoval
  <1>10. CASE DotDir
    BY <1>1, <1>2, <1>4, <1>10, DotDirWalks DEF AgreeInv, DotDir
  <1>11. CASE CopyName
    BY <1>1, <1>2, <1>4, <1>11, CopyNameWalks DEF AgreeInv, CopyName
  <1>12. CASE ParentDir /\ read_idx + 2 # len
    BY <1>1, <1>2, <1>4, <1>12, ParentDirWalks DEF AgreeInv, ParentDir
  <1>13. CASE ParentDir /\ read_idx + 2 = len
    BY <1>1, <1>2, <1>5, <1>13, ParentDirAgrees DEF AgreeInv, ParentDir, Outcomes
  <1>14. CASE FinalDot
    BY <1>1, <1>2, <1>5, <1>14, FinalDotAgrees DEF AgreeInv, FinalDot, Ends, Outcomes
  <1>15. CASE Return
    BY <1>1, <1>2, <1>5, <1>15, ReturnAgrees DEF AgreeInv, Return, Ends, Outcomes
  <1>16. CASE TooManyParentDirs \/ AssertFails
    BY <1>1, <1>2, <1>5, <1>16, TooManyAgrees
    DEF AgreeInv, TooManyParentDirs, AssertFails, Ends, Outcomes
  <1>17. CASE UNCHANGED vars
    <2>1. SqueezeInv' /\ WalkInv' /\ ShallowAgrees'
      BY <1>2, <1>17
      DEF vars, SqueezeInv, WalkInv, ShallowAgrees, GivenRest, GivenDotDir, Path, Root, Rest, Read,
          Written, Result, At
    <2>. QED
      BY <2>1 DEF AgreeInv
  <1>. QED
    BY <1>1, <1>6, <1>7, <1>8, <1>9, <1>10, <1>11, <1>12, <1>13, <1>14, <1>15, <1>16, <1>17
    DEF Next, CollapseRepeats, RemoveDotDirs, Returned

(***************************************************************************)
(* As long as no ".." leaves a nested directory, the functions return the  *)
(* path without its dot directories, and the error exactly when ".." has   *)
(* no directory to leave: for every path.                                  *)
(***************************************************************************)
THEOREM ShallowAlwaysAgrees == Spec => []ShallowAgrees
  <1>1. AgreeInv => ShallowAgrees
    BY DEF AgreeInv
  <1>. QED
    BY Invariance, InitAgree, NextAgreeInv, <1>1, PTL DEF Spec
=============================================================================
