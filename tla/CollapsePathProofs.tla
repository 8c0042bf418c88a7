------------------------- MODULE CollapsePathProofs -------------------------
(***************************************************************************)
(* The safety of RtlpCollapsePath for every alphabet and every call that   *)
(* respects CallsAssumption.  IInv is the inductive invariant: per part of *)
(* the function, where the cursors are and what the buffer holds.          *)
(* Agreement, inductive with it, relates the buffer to the components of   *)
(* the path.                                                               *)
(***************************************************************************)
EXTENDS CollapseReference, ComponentLemmas

BufferType == [0..EndBuffer -> Char \cup {UNICODE_NULL}]

CallOK == call \in Calls

InSlashes == Path = BufferOf(call.text)

InSqueeze ==
  /\ next \in FirstSqueezed..p
  /\ p \in 0..EndBuffer
  /\ IsLengthOf(EndBuffer, Path)
  /\ NoSlash(Path)
  /\ NoDoubled(next, Path)

InScan ==
  /\ p \in mark..EndPath
  /\ EndPath \in 0..EndBuffer
  /\ IsLengthOf(EndPath, Path)
  /\ NoSlash(Path)
  /\ NoDoubled(EndPath, Path)
  /\ p > mark /\ p # EndPath => Path[p - 1] = BackSlash

InZero ==
  /\ p \in 0..EndBuffer
  /\ NoSlash(Path)
  /\ NoDoubled(p, Path)
  /\ \A i \in 0..(p - 1) : Path[i] # UNICODE_NULL

InDone ==
  /\ NoSlash(Path)
  /\ NoDoubled(p, Path)
  /\ IsLengthOf(p, Path)

IInv ==
  /\ CallOK
  /\ TypeOK
  /\ pc = "slashes" => InSlashes
  /\ pc = "squeeze" => InSqueeze /\ MarkKept(mark)
  /\ pc = "scan" => InScan /\ MarkKept(mark)
  /\ pc = "zero" => InZero /\ MarkKept(p)
  /\ pc = "done" => InDone /\ MarkKept(p)
  /\ pc # "abort"
-----------------------------------------------------------------------------
(***************************************************************************)
(* What the arguments are.                                                 *)
(***************************************************************************)
LEMMA CallFacts ==
  ASSUME CallOK
  PROVE  /\ EndBuffer \in Nat \ {0}
         /\ mark \in 0..EndBuffer
         /\ FirstSqueezed \in 1..EndBuffer
         /\ FirstSqueezed >= mark
         /\ FirstSqueezed > mark => mark = 0
         /\ call.text \in Seq(Char)
         /\ \A i \in 1..EndBuffer : call.text[i] \in Char
  <1>1. call.text \in Seq(Char) /\ call.text # <<>> /\ mark \in 0..Len(call.text)
    BY CallsAssumption DEF CallOK, mark
  <1>2. Len(call.text) \in Nat \ {0}
    BY <1>1
  <1>. QED
    BY <1>1, <1>2 DEF EndBuffer, FirstSqueezed, mark

LEMMA CharFacts ==
  /\ {BackSlash, Slash, Dot, Space} \subseteq Char
  /\ UNICODE_NULL \notin Char
  /\ BackSlash # Slash /\ BackSlash # Dot /\ Slash # Dot
  /\ BackSlash # Space /\ Slash # Space /\ UNICODE_NULL # Slash
  BY CharAssumption DEF BackSlash, Slash, Dot, Space

(***************************************************************************)
(* The initial states satisfy the invariant.                               *)
(***************************************************************************)
LEMMA InitIInv == Init => IInv
  <1>. SUFFICES ASSUME Init PROVE IInv
    OBVIOUS
  <1>1. CallOK
    BY DEF Init, CallOK
  <1>2. Path \in BufferType
    BY <1>1, CallFacts, CharFacts DEF Init, BufferType, BufferOf, CharAt, EndBuffer
  <1>3. TypeOK
    BY <1>1, <1>2, CallFacts DEF Init, TypeOK, BufferType
  <1>. QED
    BY <1>1, <1>3 DEF Init, IInv, InSlashes
-----------------------------------------------------------------------------
(***************************************************************************)
(* Slashes and runs of backslashes.                                        *)
(***************************************************************************)
LEMMA ConvertSlashesIInv == IInv /\ ConvertSlashes => IInv'
  <1>. SUFFICES ASSUME IInv, ConvertSlashes PROVE IInv'
    OBVIOUS
  <1>0. /\ CallOK /\ TypeOK /\ InSlashes
        /\ call' = call /\ pc' = "squeeze" /\ EndPath' = EndPath
        /\ next' = FirstSqueezed /\ p' = FirstSqueezed
        /\ Path' = [i \in DOMAIN Path |->
                       IF Path[i] = Slash THEN BackSlash ELSE Path[i]]
    BY DEF IInv, ConvertSlashes
  <1>1. CallOK' /\ EndBuffer' = EndBuffer /\ mark' = mark /\ FirstSqueezed' = FirstSqueezed
    BY <1>0 DEF CallOK, EndBuffer, mark, FirstSqueezed
  <1>2. /\ EndBuffer \in Nat \ {0} /\ mark \in 0..EndBuffer
        /\ FirstSqueezed \in 1..EndBuffer
        /\ \A i \in 1..EndBuffer : call.text[i] \in Char
    BY <1>0, CallFacts
  <1>3. /\ Path \in [0..EndBuffer -> Char \cup {UNICODE_NULL}]
        /\ Path[EndBuffer] = UNICODE_NULL
        /\ \A i \in 0..(EndBuffer - 1) : Path[i] = call.text[i + 1] /\ Path[i] \in Char
    BY <1>0, <1>2 DEF TypeOK, InSlashes, BufferOf, CharAt, EndBuffer
  <1>4. /\ Path' \in [0..EndBuffer -> Char \cup {UNICODE_NULL}]
        /\ Path'[EndBuffer] = UNICODE_NULL
        /\ \A i \in 0..(EndBuffer - 1) : Path'[i] # UNICODE_NULL
        /\ \A i \in 0..EndBuffer : Path'[i] # Slash
        /\ \A i \in 0..(EndBuffer - 1) :
              \/ Path'[i] = call.text[i + 1]
              \/ Path'[i] = BackSlash /\ call.text[i + 1] = Slash
    BY <1>0, <1>2, <1>3, CharFacts
  <1>5. TypeOK'
    BY <1>0, <1>1, <1>2, <1>4 DEF TypeOK
  <1>6. InSqueeze'
    <2>1. IsLengthOf(EndBuffer, Path)'
      BY <1>1, <1>2, <1>4 DEF IsLengthOf
    <2>2. NoSlash(Path)'
      BY <1>1, <1>4 DEF NoSlash
    <2>3. NoDoubled(next, Path)'
      BY <1>0, <1>1, <1>2 DEF NoDoubled
    <2>. QED
      BY <1>0, <1>1, <1>2, <2>1, <2>2, <2>3 DEF InSqueeze
  <1>7. MarkKept(mark)'
    BY <1>0, <1>1, <1>2, <1>4 DEF MarkKept
  <1>. QED
    BY <1>0, <1>1, <1>5, <1>6, <1>7 DEF IInv

LEMMA SqueezeIInv == IInv /\ Squeeze => IInv'
  <1>. SUFFICES ASSUME IInv, Squeeze PROVE IInv'
    OBVIOUS
  <1>0. /\ pc = "squeeze" /\ call' = call
        /\ CallOK /\ TypeOK /\ InSqueeze /\ MarkKept(mark)
    BY DEF IInv, Squeeze, SqueezeKeep, SqueezeDrop, SqueezeEnd
  <1>1. CallOK' /\ EndBuffer' = EndBuffer /\ mark' = mark /\ FirstSqueezed' = FirstSqueezed
    BY <1>0 DEF CallOK, EndBuffer, mark, FirstSqueezed
  <1>2. /\ EndBuffer \in Nat \ {0} /\ mark \in 0..EndBuffer
        /\ FirstSqueezed \in 1..EndBuffer /\ FirstSqueezed >= mark
    BY <1>0, CallFacts
  <1>3. /\ Path \in [0..EndBuffer -> Char \cup {UNICODE_NULL}]
        /\ next \in FirstSqueezed..p /\ p \in 0..EndBuffer
        /\ Path[EndBuffer] = UNICODE_NULL
        /\ \A i \in 0..(EndBuffer - 1) : Path[i] # UNICODE_NULL
        /\ \A i \in 0..EndBuffer : Path[i] # Slash
        /\ NoDoubled(next, Path)
    BY <1>0 DEF TypeOK, InSqueeze, IsLengthOf, NoSlash
  <1>4. CASE SqueezeKeep
    <2>1. /\ p \in 0..(EndBuffer - 1) /\ next \in 1..p
          /\ Path' = [Path EXCEPT ![next] = Path[p]]
          /\ next' = next + 1 /\ p' = p + 1 /\ EndPath' = EndPath /\ pc' = "squeeze"
          /\ Path[p] # BackSlash \/ Path[next - 1] # BackSlash
      BY <1>0, <1>2, <1>3, <1>4 DEF SqueezeKeep, KeptBySqueeze
    <2>2. TypeOK'
      BY <1>0, <1>1, <1>2, <1>3, <2>1 DEF TypeOK
    <2>3. InSqueeze'
      BY <1>1, <1>2, <1>3, <2>1 DEF InSqueeze, IsLengthOf, NoSlash, NoDoubled
    <2>4. MarkKept(mark)'
      BY <1>0, <1>1, <1>2, <1>3, <2>1 DEF MarkKept
    <2>. QED
      BY <1>1, <2>1, <2>2, <2>3, <2>4 DEF IInv
  <1>5. CASE SqueezeDrop
    <2>1. /\ p \in 0..(EndBuffer - 1)
          /\ UNCHANGED <<Path, next, EndPath, pc>> /\ p' = p + 1
      BY <1>2, <1>3, <1>5 DEF SqueezeDrop
    <2>2. TypeOK'
      BY <1>0, <1>1, <1>2, <1>3, <2>1 DEF TypeOK
    <2>3. InSqueeze'
      BY <1>0, <1>1, <1>2, <1>3, <2>1 DEF InSqueeze, IsLengthOf, NoSlash, NoDoubled
    <2>4. MarkKept(mark)'
      BY <1>0, <1>1, <2>1 DEF MarkKept
    <2>. QED
      BY <1>0, <1>1, <2>1, <2>2, <2>3, <2>4 DEF IInv
  <1>6. CASE SqueezeEnd
    <2>1. /\ Path' = [Path EXCEPT ![next] = UNICODE_NULL]
          /\ next' = next /\ EndPath' = next /\ p' = mark /\ pc' = "scan"
      BY <1>6 DEF SqueezeEnd
    <2>2. TypeOK'
      BY <1>0, <1>1, <1>2, <1>3, <2>1 DEF TypeOK
    <2>3. InScan'
      BY <1>1, <1>2, <1>3, <2>1, CharFacts
      DEF InScan, IsLengthOf, NoSlash, NoDoubled
    <2>4. MarkKept(mark)'
      BY <1>0, <1>1, <1>2, <1>3, <2>1 DEF MarkKept
    <2>. QED
      BY <1>1, <2>1, <2>2, <2>3, <2>4 DEF IInv
  <1>. QED
    BY <1>4, <1>5, <1>6 DEF Squeeze
-----------------------------------------------------------------------------
(***************************************************************************)
(* The scan.  The buffer stays well formed when the rest of the path moves *)
(* down onto a place where it does not bring two backslashes together, and *)
(* when the path is cut.                                                   *)
(***************************************************************************)
InBuffer ==
  /\ call \in Calls
  /\ Path \in [0..EndBuffer -> Char \cup {UNICODE_NULL}]
  /\ EndPath \in mark..EndBuffer
  /\ Path[EndPath] = UNICODE_NULL
  /\ \A i \in 0..(EndPath - 1) : Path[i] # UNICODE_NULL
  /\ NoSlash(Path)
  /\ NoDoubled(EndPath, Path)
  /\ MarkKept(mark)

LEMMA ScanFacts ==
  ASSUME IInv, pc = "scan"
  PROVE  /\ InBuffer
         /\ p \in mark..EndPath
         /\ p > mark /\ p # EndPath => Path[p - 1] = BackSlash
         /\ next \in 0..EndBuffer
         /\ EndBuffer \in Nat \ {0} /\ mark \in 0..EndBuffer /\ EndPath \in 0..EndBuffer
         /\ FirstSqueezed \in 1..EndBuffer /\ FirstSqueezed >= mark
         /\ FirstSqueezed > mark => mark = 0
  <1>1. CallOK /\ TypeOK /\ InScan /\ MarkKept(mark)
    BY DEF IInv
  <1>2. /\ EndBuffer \in Nat \ {0} /\ mark \in 0..EndBuffer
        /\ FirstSqueezed \in 1..EndBuffer /\ FirstSqueezed >= mark
        /\ FirstSqueezed > mark => mark = 0
    BY <1>1, CallFacts
  <1>3. EndPath \in mark..EndBuffer
    BY <1>1, <1>2 DEF InScan
  <1>. QED
    BY <1>1, <1>2, <1>3 DEF InScan, InBuffer, IsLengthOf, TypeOK, CallOK

LEMMA SameCall ==
  ASSUME call' = call
  PROVE  EndBuffer' = EndBuffer /\ mark' = mark /\ FirstSqueezed' = FirstSqueezed
  BY DEF EndBuffer, mark, FirstSqueezed

LEMMA MoveDownInBuffer ==
  ASSUME InBuffer, call' = call,
         NEW to \in mark..EndPath, NEW from \in (to + 1)..EndPath,
         to >= FirstSqueezed => Path[from] # BackSlash \/ Path[to - 1] # BackSlash,
         MoveDown(to, from)
  PROVE  /\ InBuffer'
         /\ EndPath' = EndPath - (from - to)
         /\ \A i \in 0..(to - 1) : Path'[i] = Path[i]
         /\ Path'[to] = Path[from]
  <1>1. /\ EndBuffer \in Nat \ {0} /\ mark \in 0..EndBuffer
        /\ FirstSqueezed \in 1..EndBuffer /\ FirstSqueezed >= mark
        /\ FirstSqueezed > mark => mark = 0
    BY CallFacts DEF InBuffer, CallOK
  <1>2. EndBuffer' = EndBuffer /\ mark' = mark /\ FirstSqueezed' = FirstSqueezed
    BY SameCall
  <1>3. /\ EndPath \in mark..EndBuffer
        /\ EndPath' = EndPath - (from - to)
        /\ EndPath' \in to..(EndPath - 1)
    BY <1>1 DEF InBuffer, MoveDown
  <1>4. /\ Path' \in [0..EndBuffer -> Char \cup {UNICODE_NULL}]
        /\ \A i \in 0..(to - 1) : Path'[i] = Path[i]
        /\ \A i \in to..EndPath' : Path'[i] = Path[i + (from - to)]
        /\ \A i \in (EndPath' + 1)..EndBuffer : Path'[i] = Path[i]
    BY <1>1, <1>3 DEF InBuffer, MoveDown
  <1>5. /\ Path'[EndPath'] = UNICODE_NULL
        /\ \A i \in 0..(EndPath' - 1) : Path'[i] # UNICODE_NULL
    BY <1>1, <1>3, <1>4 DEF InBuffer
  <1>6. NoSlash(Path)'
    BY <1>1, <1>2, <1>3, <1>4 DEF InBuffer, NoSlash
  <1>7. NoDoubled(EndPath, Path)'
    <2>. SUFFICES ASSUME NEW i \in FirstSqueezed..(EndPath' - 1)
                  PROVE  Path'[i] # BackSlash \/ Path'[i - 1] # BackSlash
      BY <1>2 DEF NoDoubled
    <2>1. CASE i < to
      BY <2>1, <1>1, <1>3, <1>4 DEF InBuffer, NoDoubled
    <2>2. CASE i = to
      BY <2>2, <1>1, <1>3, <1>4
    <2>3. CASE i > to
      <3>1. /\ Path'[i] = Path[i + (from - to)]
            /\ Path'[i - 1] = Path[i + (from - to) - 1]
            /\ i + (from - to) \in FirstSqueezed..(EndPath - 1)
        BY <2>3, <1>1, <1>3, <1>4
      <3>. QED
        BY <3>1 DEF InBuffer, NoDoubled
    <2>. QED
      BY <2>1, <2>2, <2>3, <1>1, <1>3
  <1>8. MarkKept(mark)'
    BY <1>1, <1>2, <1>3, <1>4 DEF InBuffer, MarkKept
  <1>9. call' \in Calls /\ EndPath' \in mark..EndBuffer /\ Path'[to] = Path[from]
    BY <1>1, <1>3, <1>4 DEF InBuffer
  <1>. QED
    BY <1>2, <1>3, <1>4, <1>5, <1>6, <1>7, <1>8, <1>9 DEF InBuffer

LEMMA CutAtInBuffer ==
  ASSUME InBuffer, call' = call, NEW q \in mark..EndPath, CutAt(q)
  PROVE  InBuffer' /\ EndPath' = q /\ p' = q
  <1>1. /\ EndBuffer \in Nat \ {0} /\ mark \in 0..EndBuffer
        /\ FirstSqueezed \in 1..EndBuffer /\ FirstSqueezed >= mark
    BY CallFacts DEF InBuffer, CallOK
  <1>2. EndBuffer' = EndBuffer /\ mark' = mark /\ FirstSqueezed' = FirstSqueezed
    BY SameCall
  <1>3. /\ EndPath \in mark..EndBuffer /\ EndPath' = q /\ p' = q
        /\ Path' \in [0..EndBuffer -> Char \cup {UNICODE_NULL}]
        /\ Path'[q] = UNICODE_NULL
        /\ \A i \in 0..EndBuffer : i # q => Path'[i] = Path[i]
    BY <1>1 DEF InBuffer, CutAt
  <1>4. \A i \in 0..(q - 1) : Path'[i] # UNICODE_NULL
    BY <1>1, <1>3 DEF InBuffer
  <1>5. NoSlash(Path)'
    BY <1>1, <1>2, <1>3, CharFacts DEF InBuffer, NoSlash, UNICODE_NULL
  <1>6. NoDoubled(EndPath, Path)'
    BY <1>1, <1>2, <1>3 DEF InBuffer, NoDoubled
  <1>7. MarkKept(mark)'
    <2>1. \A i \in 0..(mark - 1) : Path'[i] = Path[i]
      BY <1>1, <1>3
    <2>2. \A i \in 0..(mark - 1) : i < mark
      BY <1>1
    <2>3. \A i \in 0..(mark - 1) :
            \/ Path'[i] = call.text[i + 1]
            \/ Path'[i] = BackSlash /\ call.text[i + 1] = Slash
      BY <2>1, <2>2 DEF InBuffer, MarkKept
    <2>. QED
      BY <1>2, <2>2, <2>3 DEF MarkKept
  <1>. QED
    BY <1>1, <1>2, <1>3, <1>4, <1>5, <1>6, <1>7 DEF InBuffer

LEMMA StillInScan ==
  ASSUME InBuffer', pc' = "scan",
         p' \in mark'..EndPath',
         p' > mark' /\ p' # EndPath' => Path'[p' - 1] = BackSlash,
         next' \in 0..EndBuffer'
  PROVE  IInv'
  <1>1. /\ EndBuffer' \in Nat \ {0} /\ mark' \in 0..EndBuffer'
        /\ CallOK' /\ call'.text \in Seq(Char)
    <2>1. CallOK'
      BY DEF InBuffer, CallOK
    <2>2. call'.text \in Seq(Char) /\ call'.text # <<>> /\ mark' \in 0..Len(call'.text)
      BY <2>1, CallsAssumption DEF CallOK, mark
    <2>. QED
      BY <2>1, <2>2 DEF EndBuffer
  <1>2. /\ EndPath' \in mark'..EndBuffer' /\ EndPath' \in 0..EndBuffer'
        /\ p' \in 0..EndBuffer'
    BY <1>1 DEF InBuffer
  <1>3. TypeOK'
    BY <1>1, <1>2 DEF TypeOK, InBuffer
  <1>4. InScan'
    BY <1>1, <1>2 DEF InScan, InBuffer, IsLengthOf
  <1>. QED
    BY <1>1, <1>3, <1>4 DEF IInv, InBuffer

(***************************************************************************)
(* Each action of the scan stays in it and makes progress.                 *)
(***************************************************************************)
Progress == \/ EndPath' < EndPath
            \/ EndPath' = EndPath /\ p' > p

LEMMA FinalDotScan == IInv /\ FinalDot => IInv' /\ Progress
  <1>. SUFFICES ASSUME IInv, FinalDot PROVE IInv' /\ Progress
    OBVIOUS
  <1>1. pc = "scan" /\ call' = call /\ pc' = pc /\ next' = next /\ Path[p] = Dot
    BY DEF FinalDot, AtDot
  <1>. DEFINE q == IF p > mark THEN p - 1 ELSE p
  <1>2. CutAt(q)
    BY DEF FinalDot
  <1>3. q \in mark..EndPath /\ q < EndPath
    BY <1>1, ScanFacts, CharFacts DEF InBuffer
  <1>4. InBuffer' /\ EndPath' = q /\ p' = q
    BY <1>1, <1>2, <1>3, ScanFacts, CutAtInBuffer
  <1>5. mark' = mark /\ EndBuffer' = EndBuffer
    BY <1>1, SameCall
  <1>6. IInv'
    BY <1>1, <1>3, <1>4, <1>5, ScanFacts, StillInScan
  <1>. QED
    BY <1>3, <1>4, <1>6 DEF Progress

LEMMA DotComponentScan == IInv /\ DotComponent => IInv' /\ Progress
  <1>. SUFFICES ASSUME IInv, DotComponent PROVE IInv' /\ Progress
    OBVIOUS
  <1>1. /\ pc = "scan" /\ call' = call /\ pc' = pc /\ p' = p /\ next' = p + 2
        /\ Path[p] = Dot /\ Path[p + 1] = BackSlash
        /\ MoveDown(p, p + 2)
    BY DEF DotComponent, AtDot
  <1>2. /\ p \in mark..EndPath /\ p + 2 \in (p + 1)..EndPath
        /\ p >= FirstSqueezed => Path[p + 2] # BackSlash
    <2>1. /\ p \in mark..EndPath /\ mark \in Nat /\ EndPath \in Nat /\ FirstSqueezed \in Nat
          /\ Path[EndPath] = UNICODE_NULL /\ NoDoubled(EndPath, Path)
      BY <1>1, ScanFacts DEF InBuffer
    <2>2. Path[p] # UNICODE_NULL /\ Path[p + 1] # UNICODE_NULL
      BY <1>1, CharFacts
    <2>3. p \in mark..EndPath /\ p + 2 \in (p + 1)..EndPath
      <3>1. p # EndPath
        BY <2>1, <2>2
      <3>2. p + 1 # EndPath
        BY <2>1, <2>2
      <3>. QED
        BY <2>1, <3>1, <3>2
    <2>4. ASSUME p >= FirstSqueezed PROVE Path[p + 2] # BackSlash
      <3>1. CASE p + 2 = EndPath
        BY <2>1, <3>1, CharFacts
      <3>2. CASE p + 2 # EndPath
        BY <1>1, <2>1, <2>3, <2>4, <3>2 DEF NoDoubled
      <3>. QED
        BY <3>1, <3>2
    <2>. QED
      BY <2>3, <2>4
  <1>3. /\ InBuffer' /\ EndPath' = EndPath - 2
        /\ \A i \in 0..(p - 1) : Path'[i] = Path[i]
    BY <1>1, <1>2, ScanFacts, MoveDownInBuffer
  <1>4. mark' = mark /\ EndBuffer' = EndBuffer
    BY <1>1, SameCall
  <1>5. /\ p' \in mark'..EndPath' /\ next' \in 0..EndBuffer'
        /\ p' > mark' => Path'[p' - 1] = BackSlash
    BY <1>1, <1>2, <1>3, <1>4, ScanFacts DEF InBuffer
  <1>6. IInv'
    BY <1>1, <1>3, <1>5, StillInScan
  <1>. QED
    BY <1>1, <1>3, <1>6, ScanFacts DEF Progress

LEMMA DotDotComponentScan == IInv /\ DotDotComponent => IInv' /\ Progress
  <1>. SUFFICES ASSUME IInv, DotDotComponent PROVE IInv' /\ Progress
    OBVIOUS
  <1>1. /\ pc = "scan" /\ call' = call /\ pc' = pc /\ next' = p + 3
        /\ Path[p] = Dot /\ Path[p + 1] = Dot /\ Path[p + 2] = BackSlash
    BY DEF DotDotComponent, AtDotDot, AtDot
  <1>2. PICK q \in mark..p : IsParentStart(q) /\ MoveDown(q, p + 3) /\ p' = q
    BY <1>1 DEF DotDotComponent
  <1>3. q = mark \/ Path[q - 1] = BackSlash
    BY <1>2, ScanFacts, <1>1 DEF IsParentStart
  <1>4. /\ q \in mark..EndPath /\ p + 3 \in (q + 1)..EndPath
        /\ q >= FirstSqueezed => Path[p + 3] # BackSlash
    <2>1. p \in mark..EndPath /\ EndPath \in Nat /\ mark \in Nat /\ EndPath <= EndBuffer
      BY <1>1, ScanFacts
    <2>2. p < EndPath /\ p + 1 < EndPath /\ p + 2 < EndPath
      BY <1>1, <2>1, ScanFacts, CharFacts DEF InBuffer
    <2>3. ASSUME q >= FirstSqueezed PROVE Path[p + 3] # BackSlash
      <3>1. p + 3 < EndPath => p + 3 \in FirstSqueezed..(EndPath - 1)
        BY <1>1, <1>2, <2>1, <2>2, <2>3, ScanFacts
      <3>2. p + 3 = EndPath => Path[p + 3] = UNICODE_NULL
        BY <1>1, ScanFacts DEF InBuffer
      <3>. QED
        BY <1>1, <2>1, <2>2, <3>1, <3>2, ScanFacts, CharFacts DEF InBuffer, NoDoubled
    <2>. QED
      BY <1>2, <2>1, <2>2, <2>3
  <1>5. /\ InBuffer' /\ EndPath' = EndPath - (p + 3 - q)
        /\ \A i \in 0..(q - 1) : Path'[i] = Path[i]
    BY <1>1, <1>2, <1>4, ScanFacts, MoveDownInBuffer
  <1>6. mark' = mark /\ EndBuffer' = EndBuffer
    BY <1>1, SameCall
  <1>7. /\ p' \in mark'..EndPath' /\ next' \in 0..EndBuffer'
        /\ p' > mark' => Path'[p' - 1] = BackSlash
    BY <1>1, <1>2, <1>3, <1>4, <1>5, <1>6, ScanFacts
  <1>8. IInv'
    BY <1>1, <1>5, <1>7, StillInScan
  <1>. QED
    BY <1>1, <1>2, <1>4, <1>5, <1>8, ScanFacts DEF Progress

LEMMA FinalDotDotScan == IInv /\ FinalDotDot => IInv' /\ Progress
  <1>. SUFFICES ASSUME IInv, FinalDotDot PROVE IInv' /\ Progress
    OBVIOUS
  <1>1. pc = "scan" /\ call' = call /\ pc' = pc /\ next' = next /\ Path[p] = Dot
    BY DEF FinalDotDot, AtDotDot, AtDot
  <1>2. PICK q \in mark..p : CutAt(IF q > mark THEN q - 1 ELSE q)
    BY DEF FinalDotDot
  <1>. DEFINE r == IF q > mark THEN q - 1 ELSE q
  <1>3. r \in mark..EndPath /\ r < EndPath
    BY <1>1, <1>2, ScanFacts, CharFacts DEF InBuffer
  <1>4. InBuffer' /\ EndPath' = r /\ p' = r
    BY <1>1, <1>2, <1>3, ScanFacts, CutAtInBuffer
  <1>5. mark' = mark /\ EndBuffer' = EndBuffer
    BY <1>1, SameCall
  <1>6. IInv'
    BY <1>1, <1>3, <1>4, <1>5, ScanFacts, StillInScan
  <1>. QED
    BY <1>3, <1>4, <1>6 DEF Progress

LEMMA LastNameScan == IInv /\ LastName => IInv' /\ Progress
  <1>. SUFFICES ASSUME IInv, LastName PROVE IInv' /\ Progress
    OBVIOUS
  <1>1. PICK q \in p..EndPath :
          /\ pc = "scan" /\ UNCHANGED <<call, next, pc, Path, EndPath>>
          /\ Path[p] # UNICODE_NULL /\ Path[q] = UNICODE_NULL /\ p' = q
    BY DEF LastName, SkipName, AtName
  <1>2. q = EndPath /\ q > p
    BY <1>1, ScanFacts DEF InBuffer
  <1>3. InBuffer' /\ mark' = mark /\ EndBuffer' = EndBuffer
    BY <1>1, ScanFacts, SameCall
    DEF InBuffer, NoSlash, NoDoubled, MarkKept, mark, EndBuffer, FirstSqueezed
  <1>4. IInv'
    BY <1>1, <1>2, <1>3, ScanFacts, StillInScan
  <1>. QED
    BY <1>1, <1>2, <1>4 DEF Progress

LEMMA DirectoryNameScan == IInv /\ DirectoryName => IInv' /\ Progress
  <1>. SUFFICES ASSUME IInv, DirectoryName PROVE IInv' /\ Progress
    OBVIOUS
  <1>1. PICK q \in p..EndPath :
          /\ pc = "scan" /\ UNCHANGED <<call, next, pc, Path, EndPath>>
          /\ Path[q] = BackSlash /\ p' = q + 1
    BY DEF DirectoryName, SkipName
  <1>2. p \in mark..EndPath /\ EndPath \in Nat /\ mark \in Nat /\ q < EndPath
    BY <1>1, ScanFacts, CharFacts DEF InBuffer
  <1>3. InBuffer' /\ mark' = mark /\ EndBuffer' = EndBuffer
    BY <1>1, ScanFacts, SameCall
    DEF InBuffer, NoSlash, NoDoubled, MarkKept, mark, EndBuffer, FirstSqueezed
  <1>4. p' \in mark'..EndPath' /\ Path'[p' - 1] = BackSlash /\ next' \in 0..EndBuffer'
    BY <1>1, <1>2, <1>3, ScanFacts
  <1>5. IInv'
    BY <1>1, <1>3, <1>4, StillInScan
  <1>. QED
    BY <1>1, <1>2, <1>5 DEF Progress

(***************************************************************************)
(* The dot that goes is not a component of its own, or the separator would *)
(* meet the one in front of it: that case is the action DotComponent.      *)
(***************************************************************************)
LEMMA DirectoryNameWithDotScan == IInv /\ DirectoryNameWithDot => IInv' /\ Progress
  <1>. SUFFICES ASSUME IInv, DirectoryNameWithDot PROVE IInv' /\ Progress
    OBVIOUS
  <1>1. PICK q \in p..EndPath :
          /\ pc = "scan" /\ call' = call /\ next' = next /\ pc' = pc
          /\ AtName /\ IsComponentEnd(q)
          /\ Path[q] = BackSlash /\ q > mark /\ Path[q - 1] = Dot
          /\ MoveDown(q - 1, q) /\ p' = q
    BY DEF DirectoryNameWithDot, SkipName, DotBefore
  <1>2. /\ p \in mark..EndPath /\ EndPath \in Nat /\ mark \in Nat /\ q < EndPath
        /\ Path[p] # UNICODE_NULL /\ p # EndPath
    BY <1>1, ScanFacts, CharFacts DEF InBuffer, AtName
  <1>3. q # p
    BY <1>1, <1>2, ScanFacts, CharFacts
  <1>4. q - 1 # p
    BY <1>1, <1>2 DEF AtName, AtDot
  <1>5. Path[q - 2] # BackSlash
    BY <1>1, <1>2, <1>3, <1>4 DEF IsComponentEnd
  <1>6. q - 1 \in mark..EndPath /\ q \in ((q - 1) + 1)..EndPath /\ (q - 1) - 1 = q - 2
    BY <1>1, <1>2
  <1>7. /\ InBuffer' /\ EndPath' = EndPath - (q - (q - 1)) /\ Path'[q - 1] = Path[q]
    BY <1>1, <1>5, <1>6, ScanFacts, MoveDownInBuffer
  <1>8. mark' = mark /\ EndBuffer' = EndBuffer
    BY <1>1, SameCall
  <1>9. p' \in mark'..EndPath' /\ Path'[p' - 1] = BackSlash /\ next' \in 0..EndBuffer'
    BY <1>1, <1>2, <1>7, <1>8, ScanFacts
  <1>10. IInv'
    BY <1>1, <1>7, <1>9, StillInScan
  <1>. QED
    BY <1>2, <1>1, <1>7, <1>10 DEF Progress

LEMMA ScanIInv == IInv /\ Scan => IInv' /\ Progress
  BY FinalDotScan, DotComponentScan, DotDotComponentScan, FinalDotDotScan,
     LastNameScan, DirectoryNameScan, DirectoryNameWithDotScan
  DEF Scan
-----------------------------------------------------------------------------
(***************************************************************************)
(* The end of the path.                                                    *)
(***************************************************************************)
LEMMA TrimIInv == IInv /\ Trim => IInv'
  <1>. SUFFICES ASSUME IInv, Trim PROVE IInv'
    OBVIOUS
  <1>1. /\ pc = "scan" /\ pc' = "zero" /\ UNCHANGED <<call, Path, next, EndPath>>
        /\ CallOK /\ TypeOK
    BY DEF Trim, IInv
  <1>2. PICK q \in 0..p, r \in 0..p :
          /\ r <= q /\ q >= mark /\ p' = r
          /\ \A i \in r..(q - 1) : Path[i] \in {Space, Dot}
    <2>1. PICK q \in 0..p :
            /\ TrimSeparators(q)
            /\ \E r \in 0..q : StopsAt(r, q, 0, {Space, Dot}) /\ p' = r
      BY DEF Trim
    <2>2. PICK r \in 0..q : StopsAt(r, q, 0, {Space, Dot}) /\ p' = r
      BY <2>1
    <2>3. q >= mark
      BY <1>1, <2>1, ScanFacts DEF TrimSeparators, StopsAt
    <2>. QED
      BY <1>1, <2>1, <2>2, <2>3, ScanFacts DEF StopsAt
  <1>3. /\ mark' = mark /\ EndBuffer' = EndBuffer /\ FirstSqueezed' = FirstSqueezed
    BY <1>1, SameCall
  <1>4. CallOK' /\ TypeOK'
    BY <1>1, <1>2, <1>3, ScanFacts DEF CallOK, TypeOK
  <1>5. InZero'
    BY <1>1, <1>2, <1>3, ScanFacts DEF InZero, InBuffer, NoSlash, NoDoubled
  <1>6. MarkKept(p)'
    <2>. SUFFICES ASSUME NEW i \in 0..(mark - 1)
                  PROVE  IF i < p' THEN \/ Path[i] = call.text[i + 1]
                                        \/ Path[i] = BackSlash /\ call.text[i + 1] = Slash
                         ELSE call.text[i + 1] \in {Space, Dot}
      BY <1>1, <1>3 DEF MarkKept
    <2>1. \/ Path[i] = call.text[i + 1]
          \/ Path[i] = BackSlash /\ call.text[i + 1] = Slash
      BY <1>1, ScanFacts DEF InBuffer, MarkKept
    <2>2. CASE i >= p'
      BY <2>1, <2>2, <1>1, <1>2, ScanFacts, CharFacts
    <2>. QED
      BY <2>1, <2>2, <1>1, <1>2, ScanFacts
  <1>. QED
    BY <1>1, <1>4, <1>5, <1>6 DEF IInv

LEMMA ZeroTailIInv == IInv /\ ZeroTail => IInv'
  <1>. SUFFICES ASSUME IInv, ZeroTail PROVE IInv'
    OBVIOUS
  <1>1. /\ pc = "zero" /\ CallOK /\ TypeOK /\ InZero /\ MarkKept(p)
        /\ UNCHANGED <<call, p, next, EndPath>>
    BY DEF ZeroTail, IInv
  <1>2. /\ EndBuffer \in Nat \ {0} /\ mark \in 0..EndBuffer
        /\ FirstSqueezed \in 1..EndBuffer
        /\ p \in 0..EndBuffer
    BY <1>1, CallFacts DEF InZero
  <1>3. /\ mark' = mark /\ EndBuffer' = EndBuffer /\ FirstSqueezed' = FirstSqueezed
    BY <1>1, SameCall
  <1>4. /\ pc' = "done"
        /\ Path' \in [0..EndBuffer -> Char \cup {UNICODE_NULL}]
        /\ \A i \in 0..(p - 1) : Path'[i] = Path[i]
        /\ \A i \in p..EndBuffer : Path'[i] = UNICODE_NULL
    BY <1>1, <1>2 DEF ZeroTail, TypeOK
  <1>5. CallOK' /\ TypeOK'
    BY <1>1, <1>3, <1>4 DEF CallOK, TypeOK
  <1>6. InDone'
    <2>1. NoSlash(Path)'
      BY <1>1, <1>2, <1>3, <1>4, CharFacts DEF InZero, NoSlash
    <2>2. NoDoubled(p, Path)'
      BY <1>1, <1>2, <1>3, <1>4 DEF InZero, NoDoubled
    <2>3. IsLengthOf(p, Path)'
      BY <1>1, <1>2, <1>4 DEF InZero, IsLengthOf
    <2>. QED
      BY <2>1, <2>2, <2>3 DEF InDone
  <1>7. MarkKept(p)'
    BY <1>1, <1>2, <1>3, <1>4 DEF MarkKept
  <1>. QED
    BY <1>4, <1>5, <1>6, <1>7 DEF IInv

LEMMA StutterIInv == IInv /\ UNCHANGED vars => IInv'
  <1>. SUFFICES ASSUME IInv, UNCHANGED vars PROVE IInv'
    OBVIOUS
  <1>1. UNCHANGED <<call, Path, p, next, EndPath, pc>>
    BY DEF vars
  <1>. QED
    BY <1>1 DEF IInv, CallOK, TypeOK, InSlashes, InSqueeze, InScan, InZero, InDone,
                MarkKept, IsLengthOf, NoSlash, NoDoubled, mark, EndBuffer, FirstSqueezed

LEMMA NextIInv == IInv /\ [Next]_vars => IInv'
  BY ConvertSlashesIInv, SqueezeIInv, ScanIInv, TrimIInv, ZeroTailIInv, StutterIInv
  DEF Next, Returned

(***************************************************************************)
(* The invariant of every call.                                            *)
(***************************************************************************)
THEOREM Invariance == Spec => []IInv
  BY InitIInv, NextIInv, PTL DEF Spec

(***************************************************************************)
(* Type correctness: no cursor leaves the buffer, no value that is not a   *)
(* character gets into it.                                                 *)
(***************************************************************************)
THEOREM TypeCorrect == Spec => []TypeOK
  BY Invariance, PTL DEF IInv

(***************************************************************************)
(* EndPath is the length of the path wherever RtlMoveMemory uses it.       *)
(***************************************************************************)
THEOREM LengthTracked == Spec => []EndPathIsLength
  <1>1. IInv => EndPathIsLength
    BY DEF IInv, InScan, EndPathIsLength
  <1>. QED
    BY <1>1, Invariance, PTL

(***************************************************************************)
(* ASSERT(EndBuffer >= p) holds for every call within the contract.        *)
(***************************************************************************)
THEOREM AssertionHolds == Spec => []AssertHolds
  <1>1. IInv => AssertHolds
    BY DEF IInv, AssertHolds
  <1>. QED
    BY <1>1, Invariance, PTL

(***************************************************************************)
(* The path returned has no slash and no doubled backslash, and its length *)
(* is the value returned.                                                  *)
(***************************************************************************)
THEOREM ResultCanonical == Spec => []Canonical
  <1>1. IInv => Canonical
    BY DEF IInv, InDone, Canonical
  <1>. QED
    BY <1>1, Invariance, PTL

(***************************************************************************)
(* No ".." eats the marked part of a path.                                 *)
(***************************************************************************)
THEOREM MarkedPartSurvives == Spec => []MarkedPartKept
  <1>1. IInv => MarkedPartKept
    BY DEF IInv, MarkedPartKept
  <1>. QED
    BY <1>1, Invariance, PTL

(***************************************************************************)
(* The scan makes progress with every iteration.                           *)
(***************************************************************************)
THEOREM ScanTerminates == Spec => ScanProgress
  <1>. DEFINE A == pc = "scan" /\ pc' = "scan" => Progress
  <1>1. IInv /\ [Next]_vars => [A]_vars
    <2>. SUFFICES ASSUME IInv, Next, pc = "scan", pc' = "scan", ~UNCHANGED vars
                  PROVE  Progress
      OBVIOUS
    <2>1. Scan
      BY DEF Next, ConvertSlashes, Squeeze, SqueezeKeep, SqueezeDrop, SqueezeEnd,
             Trim, ZeroTail, Returned
    <2>. QED
      BY <2>1, ScanIInv
  <1>2. [A]_vars => [pc = "scan" /\ pc' = "scan" =>
                       \/ EndPath' < EndPath
                       \/ EndPath' = EndPath /\ p' > p]_vars
    BY DEF Progress
  <1>. QED
    BY <1>1, <1>2, Invariance, PTL DEF Spec, ScanProgress
-----------------------------------------------------------------------------
(***************************************************************************)
(* What the function computes is what the list of components says.  Until  *)
(* the scan the buffer holds, behind the mark, the part of the path that   *)
(* was read with its runs of separators squeezed; in the scan, in front of *)
(* p, the directories that are left of the components that were read; then *)
(* the result.                                                             *)
(***************************************************************************)
Slashed == [i \in 0..(EndBuffer - 1) |->
              IF call.text[i + 1] = Slash THEN BackSlash ELSE call.text[i + 1]]

Marked == Between(Slashed, 0, mark)

Rest == Between(Slashed, mark, EndBuffer)

Left == Done(Components(Marked, Rest))

MarkedHeld == \A i \in 0..(mark - 1) : Path[i] = Slashed[i]

SqueezeAgrees ==
  /\ \A i \in p..(EndBuffer - 1) : Path[i] = Slashed[i]
  /\ Matching(Char, FirstKept(Marked), Between(Slashed, mark, p), Between(Path, mark, next))

\* The stack of the components in front of index i, and how those behind leave it.
ReadUpTo(i, stack, left, m, buf, e) ==
  /\ stack \in Seq(PlainNames(Char))
  /\ Between(buf, m, i) = Directories(stack)
  /\ Scans(Char, left, stack, Between(buf, i, e))

ScanAgrees ==
  \/ p = EndPath /\ Between(Path, mark, EndPath) = Join(Left)
  \/ \E stack : ReadUpTo(p, stack, Left, mark, Path, EndPath)

ResultAgrees == Between(Path, 0, p) = Collapsed(call.text, mark, SkipTrailingPathSeparators)

Agreement ==
  /\ pc \in {"squeeze", "scan"} => MarkedHeld
  /\ pc = "squeeze" => SqueezeAgrees
  /\ pc = "scan" => ScanAgrees
  /\ pc \in {"zero", "done"} => ResultAgrees

LEMMA SlashedIs ==
  ASSUME CallOK
  PROVE  /\ Slashed \in [0..(EndBuffer - 1) -> Char]
         /\ Holds(Char, Slashed, 0, EndBuffer)
         /\ Marked \in Seq(Char) /\ Len(Marked) = mark
         /\ \A i \in 1..mark : Marked[i] = Slashed[i - 1]
  <1>1. /\ EndBuffer \in Nat \ {0} /\ mark \in 0..EndBuffer
        /\ \A i \in 1..EndBuffer : call.text[i] \in Char
    BY CallFacts
  <1>2. Slashed \in [0..(EndBuffer - 1) -> Char]
    BY <1>1, CharFacts DEF Slashed
  <1>3. Holds(Char, Slashed, 0, EndBuffer)
    BY <1>1, <1>2 DEF Holds
  <1>4. Spells(Char, Marked, Slashed, 0, mark)
    BY <1>1, <1>3, HoldsParts, CharsBetween DEF Marked
  <1>. QED
    BY <1>1, <1>2, <1>3, <1>4 DEF Spells

LEMMA SameReference ==
  ASSUME call' = call
  PROVE  /\ EndBuffer' = EndBuffer /\ mark' = mark /\ FirstSqueezed' = FirstSqueezed
         /\ Slashed' = Slashed /\ Marked' = Marked /\ Left' = Left
  <1>1. EndBuffer' = EndBuffer /\ mark' = mark /\ FirstSqueezed' = FirstSqueezed
    BY SameCall
  <1>2. Slashed' = Slashed
    BY <1>1 DEF Slashed
  <1>. QED
    BY <1>1, <1>2 DEF Marked, Left, Rest

LEMMA ReferenceIs ==
  ASSUME CallOK
  PROVE  Collapsed(call.text, mark, SkipTrailingPathSeparators)
           = LET whole == Marked \o Join(Left)
             IN  Trimmed(IF SkipTrailingPathSeparators THEN Trimmed(whole, {BackSlash}, mark) ELSE whole,
                         {Space, Dot}, 0)
  <1>. DEFINE path == Converted(call.text)
  <1>1. /\ EndBuffer \in Nat \ {0} /\ mark \in 0..EndBuffer
        /\ call.text \in Seq(Char) /\ Len(call.text) = EndBuffer
    BY CallFacts DEF EndBuffer
  <1>2. /\ path \in Seq(Char) /\ Len(path) = EndBuffer
        /\ \A i \in 1..EndBuffer : path[i] = Slashed[i - 1]
    <2>1. path \in Seq(Char) /\ Len(path) = EndBuffer
      BY <1>1, CharFacts, ConvertedIs
    <2>2. \A i \in 1..EndBuffer : path[i] = IF call.text[i] = Slash THEN BackSlash ELSE call.text[i]
      BY <1>1 DEF Converted
    <2>3. \A i \in 1..EndBuffer : i - 1 \in 0..(EndBuffer - 1) /\ (i - 1) + 1 = i
      BY <1>1
    <2>. QED
      BY <2>1, <2>2, <2>3 DEF Slashed
  <1>. HIDE DEF path
  <1>3. Holds(Char, Slashed, 0, mark) /\ Holds(Char, Slashed, mark, EndBuffer)
    BY <1>1, SlashedIs, HoldsParts
  <1>4. SubSeq(path, 1, mark) = Marked
    <2>1. Spells(Char, SubSeq(path, 1, mark), Slashed, 0, mark)
      BY <1>1, <1>2 DEF Spells
    <2>. QED
      BY <1>3, <2>1, IsBetween DEF Marked
  <1>5. SubSeq(path, mark + 1, Len(path)) = Rest
    <2>1. Spells(Char, SubSeq(path, mark + 1, Len(path)), Slashed, mark, EndBuffer)
      <3>1. /\ SubSeq(path, mark + 1, Len(path)) \in Seq(Char)
            /\ Len(SubSeq(path, mark + 1, Len(path))) = EndBuffer - mark
        BY <1>1, <1>2
      <3>2. ASSUME NEW k \in 1..(EndBuffer - mark)
            PROVE  SubSeq(path, mark + 1, Len(path))[k] = Slashed[(mark + k) - 1]
        <4>1. mark + k \in 1..EndBuffer
          BY <1>1
        <4>2. SubSeq(path, mark + 1, Len(path))[k] = path[mark + k]
          BY <1>1, <1>2
        <4>. QED
          BY <1>2, <4>1, <4>2
      <3>. QED
        BY <3>1, <3>2 DEF Spells
    <2>. QED
      BY <1>3, <2>1, IsBetween DEF Rest
  <1>. QED
    BY <1>4, <1>5 DEF Collapsed, Left, Done, path
-----------------------------------------------------------------------------
(***************************************************************************)
(* The squeeze.                                                            *)
(***************************************************************************)
LEMMA ConvertSlashesAgrees == IInv /\ ConvertSlashes => Agreement'
  <1>. SUFFICES ASSUME IInv, ConvertSlashes PROVE Agreement'
    OBVIOUS
  <1>0. /\ CallOK /\ TypeOK /\ InSlashes
        /\ call' = call /\ pc' = "squeeze"
        /\ next' = FirstSqueezed /\ p' = FirstSqueezed
        /\ Path' = [i \in DOMAIN Path |->
                       IF Path[i] = Slash THEN BackSlash ELSE Path[i]]
    BY DEF IInv, ConvertSlashes
  <1>1. /\ EndBuffer' = EndBuffer /\ mark' = mark /\ Slashed' = Slashed /\ Marked' = Marked
    BY <1>0, SameReference
  <1>2. /\ EndBuffer \in Nat \ {0} /\ mark \in 0..EndBuffer
        /\ FirstSqueezed \in 1..EndBuffer
        /\ FirstSqueezed = IF mark >= 1 THEN mark ELSE 1
        /\ \A i \in 1..EndBuffer : call.text[i] \in Char
    BY <1>0, CallFacts DEF FirstSqueezed
  <1>3. \A i \in 0..(EndBuffer - 1) : Path'[i] = Slashed[i]
    <2>1. /\ DOMAIN Path = 0..EndBuffer
          /\ \A i \in 0..(EndBuffer - 1) : Path[i] = call.text[i + 1]
      BY <1>0, <1>2 DEF TypeOK, InSlashes, BufferOf, CharAt, EndBuffer
    <2>. QED
      BY <1>0, <1>2, <2>1 DEF Slashed
  <1>4. MarkedHeld'
    BY <1>1, <1>2, <1>3 DEF MarkedHeld
  <1>5. \A i \in p'..(EndBuffer' - 1) : Path'[i] = Slashed'[i]
    BY <1>0, <1>1, <1>2, <1>3
  <1>. DEFINE Matched(s, x) == Matching(Char, FirstKept(Marked), s, x)
  <1>6. Matched(Between(Slashed, mark, FirstSqueezed), Between(Path', mark, FirstSqueezed))
    <2>1. Matched(<<>>, <<>>)
      BY MatchingNothing
    <2>2. CASE mark >= 1
      <3>1. FirstSqueezed = mark /\ mark \in Nat
        BY <1>2, <2>2
      <3>2. Between(Slashed, mark, mark) = <<>> /\ Between(Path', mark, mark) = <<>>
        BY <3>1, BetweenNone
      <3>. QED
        BY <2>1, <3>1, <3>2
    <2>3. CASE mark = 0
      <3>. DEFINE c == Slashed[0]
      <3>1. FirstSqueezed = 0 + 1 /\ mark = 0
        BY <1>2, <2>3
      <3>2. Holds(Char, Slashed, 0, 0 + 1) /\ c \in Char
        BY <1>0, <1>2, SlashedIs DEF Holds
      <3>3. Path'[0] = c
        BY <1>2, <1>3
      <3>4. Holds(Char, Path', 0, 0 + 1)
        BY <3>2, <3>3 DEF Holds
      <3>5. Between(Slashed, 0, 0 + 1) = <<c>> /\ Between(Path', 0, 0 + 1) = <<c>>
        BY <3>2, <3>3, <3>4, BetweenOne
      <3>6. FirstKept(Marked) = {1} /\ FirstKept(Marked) \in SUBSET {1}
        <4>1. Marked = <<>>
          BY <1>0, <2>3, SlashedIs
        <4>. QED
          BY <4>1 DEF FirstKept
      <3>. HIDE DEF c
      <3>7. <<c>> = Append(<<>>, c)
        OBVIOUS
      <3>8. CASE c = BackSlash
        <4>1. BackSlash \in Char
          BY CharFacts
        <4>2. Matched(Append(<<>>, BackSlash), Append(<<>>, BackSlash))
          BY <2>1, <3>6, <4>1, MatchingKept
        <4>. QED
          BY <3>1, <3>5, <3>7, <3>8, <4>2
      <3>9. CASE c # BackSlash
        <4>1. Matched(Append(<<>>, c), Append(<<>>, c))
          BY <2>1, <3>2, <3>9, MatchingChar
        <4>. QED
          BY <3>1, <3>5, <3>7, <4>1
      <3>. QED
        BY <3>8, <3>9
    <2>. QED
      BY <1>2, <2>2, <2>3
  <1>7. SqueezeAgrees'
    BY <1>0, <1>1, <1>5, <1>6 DEF SqueezeAgrees
  <1>. QED
    BY <1>0, <1>4, <1>7 DEF Agreement

LEMMA SqueezeFacts ==
  ASSUME IInv, pc = "squeeze"
  PROVE  /\ CallOK
         /\ EndBuffer \in Nat \ {0} /\ mark \in 0..EndBuffer
         /\ FirstSqueezed \in 1..EndBuffer /\ FirstSqueezed >= mark
         /\ next \in FirstSqueezed..p /\ p \in 0..EndBuffer
         /\ Path \in [0..EndBuffer -> Char \cup {UNICODE_NULL}]
         /\ Path[EndBuffer] = UNICODE_NULL
         /\ \A i \in 0..(EndBuffer - 1) : Path[i] \in Char
         /\ Holds(Char, Path, mark, next)
  <1>1. CallOK /\ TypeOK /\ InSqueeze
    BY DEF IInv
  <1>2. /\ EndBuffer \in Nat \ {0} /\ mark \in 0..EndBuffer
        /\ FirstSqueezed \in 1..EndBuffer /\ FirstSqueezed >= mark
    BY <1>1, CallFacts
  <1>3. /\ next \in FirstSqueezed..p /\ p \in 0..EndBuffer
        /\ Path \in [0..EndBuffer -> Char \cup {UNICODE_NULL}]
        /\ Path[EndBuffer] = UNICODE_NULL
        /\ \A i \in 0..(EndBuffer - 1) : Path[i] # UNICODE_NULL
    BY <1>1 DEF TypeOK, InSqueeze, IsLengthOf
  <1>4. \A i \in 0..(EndBuffer - 1) : Path[i] \in Char
    BY <1>2, <1>3
  <1>5. Holds(Char, Path, mark, next)
    <2>1. \A i \in mark..(next - 1) : i \in 0..(EndBuffer - 1)
      BY <1>2, <1>3
    <2>. QED
      BY <1>2, <1>3, <1>4, <2>1 DEF Holds
  <1>. QED
    BY <1>1, <1>2, <1>3, <1>4, <1>5

\* The character in front of the writing cursor, as Matching tells it.
LEMMA InFront ==
  ASSUME IInv, pc = "squeeze", MarkedHeld
  PROVE  LET x == Between(Path, mark, next)
         IN  /\ FirstKept(Marked) \in SUBSET {1}
             /\ Path[next - 1] # BackSlash =>
                  IF x = <<>> THEN FirstKept(Marked) = {1} ELSE x[Len(x)] # BackSlash
             /\ Path[next - 1] = BackSlash =>
                  IF x = <<>> THEN FirstKept(Marked) = {} ELSE x[Len(x)] = BackSlash
  <1>. DEFINE x == Between(Path, mark, next)
  <1>1. /\ mark \in Nat /\ next \in Nat /\ next >= 1 /\ next >= mark /\ Holds(Char, Path, mark, next)
        /\ CallOK
    BY SqueezeFacts
  <1>2. Spells(Char, x, Path, mark, next)
    BY <1>1, CharsBetween
  <1>3. FirstKept(Marked) \in {{}, {1}}
    BY DEF FirstKept
  <1>. HIDE DEF x
  <1>4. CASE x = <<>>
    <2>1. next = mark /\ mark >= 1
      BY <1>1, <1>2, <1>4 DEF Spells
    <2>2. Marked \in Seq(Char) /\ Len(Marked) = mark /\ Marked[mark] = Slashed[mark - 1]
      BY <1>1, <2>1, SlashedIs
    <2>3. Path[mark - 1] = Slashed[mark - 1]
      BY <1>1, <2>1 DEF MarkedHeld
    <2>4. Marked # <<>> /\ Last(Marked) = Path[next - 1]
      BY <1>1, <2>1, <2>2, <2>3 DEF Last
    <2>. QED
      BY <1>3, <1>4, <2>4 DEF x, FirstKept
  <1>5. CASE x # <<>>
    <2>1. Len(x) # 0 /\ Len(x) \in Nat /\ Len(x) = next - mark
      BY <1>1, <1>2, <1>5 DEF Spells
    <2>2. Len(x) \in 1..(next - mark) /\ (mark + Len(x)) - 1 = next - 1
      BY <1>1, <2>1
    <2>3. x[Len(x)] = Path[next - 1]
      BY <1>2, <2>2 DEF Spells
    <2>. QED
      BY <1>3, <1>5, <2>3 DEF x
  <1>. QED
    BY <1>4, <1>5

LEMMA SqueezeKeepAgrees == IInv /\ Agreement /\ SqueezeKeep => Agreement'
  <1>. SUFFICES ASSUME IInv, Agreement, SqueezeKeep PROVE Agreement'
    OBVIOUS
  <1>1. /\ pc = "squeeze" /\ call' = call /\ pc' = "squeeze"
        /\ Path[p] # UNICODE_NULL /\ KeptBySqueeze
        /\ Path' = [Path EXCEPT ![next] = Path[p]]
        /\ next' = next + 1 /\ p' = p + 1
        /\ MarkedHeld /\ SqueezeAgrees
    BY DEF SqueezeKeep, Agreement
  <1>2. /\ EndBuffer' = EndBuffer /\ mark' = mark /\ Slashed' = Slashed /\ Marked' = Marked
    BY <1>1, SameReference
  <1>3. /\ CallOK
        /\ EndBuffer \in Nat /\ mark \in Nat /\ p \in Nat /\ next \in Nat
        /\ mark <= next /\ next <= p /\ p < EndBuffer /\ Path[p] \in Char
        /\ Holds(Char, Path, mark, next)
        /\ \A i \in 0..EndBuffer : Path'[i] = IF i = next THEN Path[p] ELSE Path[i]
    <2>1. /\ CallOK /\ EndBuffer \in Nat /\ mark \in Nat /\ p \in Nat /\ next \in Nat
          /\ mark <= next /\ next <= p /\ p <= EndBuffer
      BY <1>1, SqueezeFacts
    <2>2. /\ Path \in [0..EndBuffer -> Char \cup {UNICODE_NULL}]
          /\ Path[EndBuffer] = UNICODE_NULL
          /\ \A i \in 0..(EndBuffer - 1) : Path[i] \in Char
          /\ Holds(Char, Path, mark, next)
      BY <1>1, SqueezeFacts
    <2>3. p < EndBuffer
      BY <1>1, <2>1, <2>2
    <2>4. Path[p] \in Char
      BY <2>1, <2>2, <2>3
    <2>5. \A i \in 0..EndBuffer : Path'[i] = IF i = next THEN Path[p] ELSE Path[i]
      BY <1>1, <2>2
    <2>. QED
      BY <2>1, <2>2, <2>3, <2>4, <2>5
  <1>4. MarkedHeld'
    BY <1>1, <1>2, <1>3 DEF MarkedHeld
  <1>5. \A i \in p'..(EndBuffer' - 1) : Path'[i] = Slashed'[i]
    BY <1>1, <1>2, <1>3 DEF SqueezeAgrees
  <1>. DEFINE Matched(s, x) == Matching(Char, FirstKept(Marked), s, x)
              s == Between(Slashed, mark, p)
              x == Between(Path, mark, next)
              c == Path[p]
  <1>6. Between(Slashed, mark, p + 1) = Append(s, c)
    <2>1. Slashed[p] = c
      BY <1>1, <1>3 DEF SqueezeAgrees
    <2>2. Holds(Char, Slashed, mark, p + 1)
      BY <1>3, SlashedIs DEF Holds
    <2>. QED
      BY <1>3, <2>1, <2>2, BetweenMore
  <1>7. Between(Path', mark, next + 1) = Append(x, c)
    <2>1. Between(Path', mark, next) = x
      <3>1. \A k \in mark..(next - 1) : Path'[k] = Path[k]
        BY <1>3
      <3>. QED
        BY <1>3, <3>1, BetweenSame
    <2>2. Path'[next] = c
      BY <1>3
    <2>3. Holds(Char, Path', mark, next + 1)
      <3>1. \A k \in mark..((next + 1) - 1) : Path'[k] = IF k = next THEN c ELSE Path[k]
        BY <1>3
      <3>2. \A k \in mark..((next + 1) - 1) : k = next \/ k \in mark..(next - 1)
        BY <1>3
      <3>. QED
        BY <1>3, <3>1, <3>2 DEF Holds
    <2>4. Between(Path', mark, next + 1) = Append(Between(Path', mark, next), Path'[next])
      BY <1>3, <2>3, BetweenMore
    <2>. QED
      BY <2>1, <2>2, <2>4
  <1>8. Matched(s, x)
    BY <1>1 DEF SqueezeAgrees
  <1>9. Matched(Append(s, c), Append(x, c))
    <2>1. CASE c # BackSlash
      BY <1>3, <1>8, <2>1, MatchingChar
    <2>2. CASE c = BackSlash
      <3>1. Path[next - 1] # BackSlash
        BY <1>1, <2>2 DEF KeptBySqueeze
      <3>2. /\ FirstKept(Marked) \in SUBSET {1}
            /\ IF x = <<>> THEN FirstKept(Marked) = {1} ELSE x[Len(x)] # BackSlash
        BY <1>1, <3>1, InFront
      <3>3. BackSlash \in Char
        BY CharFacts
      <3>. HIDE DEF s, x
      <3>4. Matched(Append(s, BackSlash), Append(x, BackSlash))
        BY <1>8, <3>2, <3>3, MatchingKept
      <3>. QED
        BY <2>2, <3>4
    <2>. QED
      BY <2>1, <2>2
  <1>10. SqueezeAgrees'
    <2>. HIDE DEF s, x, c
    <2>1. Matched(Between(Slashed, mark, p + 1), Between(Path', mark, next + 1))
      BY <1>6, <1>7, <1>9
    <2>. QED
      BY <1>1, <1>2, <1>5, <2>1 DEF SqueezeAgrees
  <1>. QED
    BY <1>1, <1>4, <1>10 DEF Agreement

LEMMA SqueezeDropAgrees == IInv /\ Agreement /\ SqueezeDrop => Agreement'
  <1>. SUFFICES ASSUME IInv, Agreement, SqueezeDrop PROVE Agreement'
    OBVIOUS
  <1>1. /\ pc = "squeeze" /\ call' = call /\ pc' = "squeeze"
        /\ Path[p] # UNICODE_NULL /\ ~KeptBySqueeze
        /\ Path' = Path /\ next' = next /\ p' = p + 1
        /\ MarkedHeld /\ SqueezeAgrees
    BY DEF SqueezeDrop, Agreement
  <1>2. /\ EndBuffer' = EndBuffer /\ mark' = mark /\ Slashed' = Slashed /\ Marked' = Marked
    BY <1>1, SameReference
  <1>3. /\ CallOK
        /\ EndBuffer \in Nat /\ mark \in Nat /\ p \in Nat /\ next \in Nat
        /\ mark <= next /\ next <= p /\ p < EndBuffer
    BY <1>1, SqueezeFacts
  <1>4. MarkedHeld'
    BY <1>1, <1>2 DEF MarkedHeld
  <1>5. \A i \in p'..(EndBuffer' - 1) : Path'[i] = Slashed'[i]
    BY <1>1, <1>2, <1>3 DEF SqueezeAgrees
  <1>6. Path[p] = BackSlash /\ Path[next - 1] = BackSlash
    BY <1>1 DEF KeptBySqueeze
  <1>. DEFINE s == Between(Slashed, mark, p)
              x == Between(Path, mark, next)
  <1>7. Between(Slashed, mark, p + 1) = Append(s, BackSlash)
    <2>1. Slashed[p] = BackSlash
      BY <1>1, <1>3, <1>6 DEF SqueezeAgrees
    <2>2. Holds(Char, Slashed, mark, p + 1)
      BY <1>3, SlashedIs DEF Holds
    <2>3. Between(Slashed, mark, p + 1) = Append(s, Slashed[p])
      BY <1>3, <2>2, BetweenMore
    <2>. QED
      BY <2>1, <2>3
  <1>8. Matching(Char, FirstKept(Marked), s, x)
    BY <1>1 DEF SqueezeAgrees
  <1>9. /\ FirstKept(Marked) \in SUBSET {1}
        /\ IF x = <<>> THEN FirstKept(Marked) = {} ELSE x[Len(x)] = BackSlash
    BY <1>1, <1>6, InFront
  <1>10. BackSlash \in Char
    BY CharFacts
  <1>. HIDE DEF s, x
  <1>11. Matching(Char, FirstKept(Marked), Append(s, BackSlash), x)
    BY <1>8, <1>9, <1>10, MatchingDropped
  <1>12. SqueezeAgrees'
    <2>1. Matching(Char, FirstKept(Marked), Between(Slashed, mark, p + 1), Between(Path, mark, next))
      BY <1>7, <1>11 DEF x
    <2>. QED
      BY <1>1, <1>2, <1>5, <2>1 DEF SqueezeAgrees
  <1>. QED
    BY <1>1, <1>4, <1>12 DEF Agreement

LEMMA SqueezeEndAgrees == IInv /\ Agreement /\ SqueezeEnd => Agreement'
  <1>. SUFFICES ASSUME IInv, Agreement, SqueezeEnd PROVE Agreement'
    OBVIOUS
  <1>1. /\ pc = "squeeze" /\ call' = call /\ pc' = "scan"
        /\ Path[p] = UNICODE_NULL
        /\ Path' = [Path EXCEPT ![next] = UNICODE_NULL]
        /\ EndPath' = next /\ p' = mark
        /\ MarkedHeld /\ SqueezeAgrees
    BY DEF SqueezeEnd, Agreement
  <1>2. EndBuffer' = EndBuffer /\ mark' = mark /\ Slashed' = Slashed /\ Left' = Left
    BY <1>1, SameReference
  <1>3. /\ CallOK
        /\ EndBuffer \in Nat /\ mark \in Nat /\ p \in Nat /\ next \in Nat
        /\ mark <= next /\ next <= p /\ p = EndBuffer
        /\ Holds(Char, Path, mark, next)
        /\ \A i \in 0..EndBuffer : i # next => Path'[i] = Path[i]
    <2>1. /\ CallOK /\ EndBuffer \in Nat /\ mark \in Nat /\ p \in Nat /\ next \in Nat
          /\ mark <= next /\ next <= p /\ p <= EndBuffer
      BY <1>1, SqueezeFacts
    <2>2. /\ Path \in [0..EndBuffer -> Char \cup {UNICODE_NULL}]
          /\ \A i \in 0..(EndBuffer - 1) : Path[i] \in Char
          /\ Holds(Char, Path, mark, next)
      BY <1>1, SqueezeFacts
    <2>3. p = EndBuffer
      BY <1>1, <2>1, <2>2, CharFacts
    <2>4. \A i \in 0..EndBuffer : i # next => Path'[i] = Path[i]
      BY <1>1, <2>2
    <2>. QED
      BY <2>1, <2>2, <2>3, <2>4
  <1>4. MarkedHeld'
    BY <1>1, <1>2, <1>3 DEF MarkedHeld
  <1>. DEFINE x == Between(Path, mark, next)
  <1>5. Between(Path', mark, next) = x
    <2>1. \A k \in mark..(next - 1) : Path'[k] = Path[k]
      BY <1>3
    <2>. QED
      BY <1>3, <2>1, BetweenSame
  <1>6. Matching(Char, FirstKept(Marked), Rest, x)
    BY <1>1, <1>3 DEF SqueezeAgrees, Rest
  <1>. HIDE DEF x
  <1>7. Scans(Char, Left, <<>>, x)
    BY <1>6, MatchingLeaves, ScansStart DEF Left
  <1>8. Between(Path', mark, mark) = <<>> /\ Directories(<<>>) = <<>>
    BY <1>3, CharFacts, BetweenNone, DirectoriesIs
  <1>9. ReadUpTo(mark, <<>>, Left, mark, Path', next)
    <2>1. <<>> \in Seq(PlainNames(Char))
      OBVIOUS
    <2>. QED
      BY <1>5, <1>7, <1>8, <2>1 DEF ReadUpTo
  <1>10. ScanAgrees'
    BY <1>1, <1>2, <1>9 DEF ScanAgrees
  <1>. QED
    BY <1>1, <1>4, <1>10 DEF Agreement
-----------------------------------------------------------------------------
(***************************************************************************)
(* The scan.  A component that is read goes to the stack; what the moves   *)
(* leave in front of p is the directories of the stack.                    *)
(***************************************************************************)
LEMMA ScanCursors ==
  ASSUME IInv, pc = "scan"
  PROVE  /\ InBuffer /\ CallOK
         /\ p \in Nat /\ mark \in Nat /\ EndPath \in Nat /\ EndBuffer \in Nat
         /\ mark <= p /\ p <= EndPath /\ EndPath <= EndBuffer
         /\ Path[EndPath] = UNICODE_NULL
         /\ p < EndPath <=> Path[p] # UNICODE_NULL
         /\ Holds(Char, Path, mark, EndPath) /\ Holds(Char, Path, 0, EndPath)
  <1>1. /\ InBuffer /\ p \in mark..EndPath
        /\ EndBuffer \in Nat /\ mark \in Nat /\ EndPath \in Nat
    BY ScanFacts
  <1>2. /\ Path[EndPath] = UNICODE_NULL
        /\ \A i \in 0..(EndPath - 1) : Path[i] # UNICODE_NULL /\ Path[i] \in Char
        /\ EndPath <= EndBuffer /\ CallOK
    BY <1>1 DEF InBuffer, CallOK
  <1>3. Holds(Char, Path, mark, EndPath) /\ Holds(Char, Path, 0, EndPath)
    BY <1>1, <1>2 DEF Holds
  <1>. QED
    BY <1>1, <1>2, <1>3

LEMMA Reading ==
  ASSUME IInv, Agreement, pc = "scan", Path[p] # UNICODE_NULL
  PROVE  \E stack : ReadUpTo(p, stack, Left, mark, Path, EndPath)
  <1>1. p # EndPath
    BY ScanCursors
  <1>. QED
    BY <1>1 DEF Agreement, ScanAgrees

\* A move in the scan leaves the marked part, and p or the path's end behind the mark.
LEMMA StillAgrees ==
  ASSUME Agreement, pc = "scan", call' = call, pc' = pc,
         \A i \in 0..(mark - 1) : Path'[i] = Path[i],
         \/ p' = EndPath' /\ Between(Path', mark, EndPath') = Join(Left)
         \/ \E stack : ReadUpTo(p', stack, Left, mark, Path', EndPath')
  PROVE  Agreement'
  <1>1. mark' = mark /\ Slashed' = Slashed /\ Left' = Left
    BY SameReference
  <1>2. MarkedHeld'
    BY <1>1 DEF Agreement, MarkedHeld
  <1>3. ScanAgrees'
    BY <1>1 DEF ScanAgrees
  <1>. QED
    BY <1>2, <1>3 DEF Agreement

LEMMA MovedDown ==
  ASSUME IInv, pc = "scan", NEW to \in mark..EndPath, NEW from \in (to + 1)..EndPath,
         MoveDown(to, from)
  PROVE  /\ \A i \in 0..(mark - 1) : Path'[i] = Path[i]
         /\ Between(Path', mark, to) = Between(Path, mark, to)
         /\ \A c \in from..EndPath :
              Between(Path', c - (from - to), EndPath') = Between(Path, c, EndPath)
         /\ Path'[to] = Path[from]
  <1>1. /\ mark \in Nat /\ EndPath \in Nat /\ EndBuffer \in Nat /\ EndPath <= EndBuffer
        /\ Holds(Char, Path, mark, EndPath)
        /\ to \in Nat /\ from \in Nat /\ mark <= to /\ to < from /\ from <= EndPath
    BY ScanCursors
  <1>2. Path \in [0..EndBuffer -> Char \cup {UNICODE_NULL}]
    BY ScanCursors DEF InBuffer
  <1>. DEFINE n == from - to
  <1>3. /\ EndPath' = EndPath - n
        /\ \A i \in 0..(to - 1) : Path'[i] = Path[i]
        /\ \A i \in to..(EndPath - n) : Path'[i] = Path[i + n]
    BY <1>1, <1>2 DEF MoveDown
  <1>4. \A i \in 0..(mark - 1) : Path'[i] = Path[i]
    BY <1>1, <1>3
  <1>5. Between(Path', mark, to) = Between(Path, mark, to)
    <2>1. Holds(Char, Path, mark, to)
      BY <1>1, HoldsParts
    <2>2. \A i \in mark..(to - 1) : Path'[i] = Path[i]
      BY <1>1, <1>3
    <2>. QED
      BY <2>1, <2>2, BetweenSame
  <1>6. ASSUME NEW c \in from..EndPath
        PROVE  Between(Path', c - n, EndPath') = Between(Path, c, EndPath)
    <2>1. Holds(Char, Path, c, EndPath)
      <3>1. c \in mark..EndPath
        BY <1>1
      <3>. QED
        BY <1>1, <3>1, HoldsParts
    <2>2. n \in Nat /\ n <= c
      BY <1>1
    <2>3. \A i \in (c - n)..((EndPath - n) - 1) : Path'[i] = Path[i + n]
      <3>1. \A i \in (c - n)..((EndPath - n) - 1) : i \in to..(EndPath - n)
        BY <1>1
      <3>. QED
        BY <1>3, <3>1
    <2>. HIDE DEF n
    <2>4. Between(Path', c - n, EndPath - n) = Between(Path, c, EndPath)
      BY <2>1, <2>2, <2>3, BetweenMoved
    <2>. QED
      BY <1>3, <2>4
  <1>7. Path'[to] = Path[from]
    <2>1. to \in to..(EndPath - n) /\ to + n = from
      BY <1>1
    <2>. QED
      BY <1>3, <2>1
  <1>. QED
    BY <1>4, <1>5, <1>6, <1>7

LEMMA WasCut ==
  ASSUME IInv, pc = "scan", NEW c \in mark..EndPath, CutAt(c)
  PROVE  /\ \A i \in 0..(mark - 1) : Path'[i] = Path[i]
         /\ p' = EndPath' /\ EndPath' = c
         /\ Between(Path', mark, c) = Between(Path, mark, c)
  <1>1. /\ mark \in Nat /\ EndPath \in Nat /\ EndBuffer \in Nat /\ EndPath <= EndBuffer
        /\ Holds(Char, Path, mark, EndPath) /\ c \in Nat
    BY ScanCursors
  <1>2. Path \in [0..EndBuffer -> Char \cup {UNICODE_NULL}]
    BY ScanCursors DEF InBuffer
  <1>3. /\ p' = c /\ EndPath' = c
        /\ \A i \in 0..(c - 1) : Path'[i] = Path[i]
    BY <1>1, <1>2 DEF CutAt
  <1>4. Holds(Char, Path, mark, c)
    BY <1>1, HoldsParts
  <1>5. \A i \in mark..(c - 1) : i \in 0..(c - 1)
    BY <1>1
  <1>6. Between(Path', mark, c) = Between(Path, mark, c)
    BY <1>3, <1>4, <1>5, BetweenSame
  <1>. QED
    BY <1>1, <1>3, <1>6

LEMMA EnterDots ==
  ASSUME NEW stack
  PROVE  /\ Enter(stack, <<Dot>>) = stack /\ EnterLast(stack, <<Dot>>) = stack
         /\ Enter(stack, <<Dot, Dot>>) = Pop(stack) /\ EnterLast(stack, <<Dot, Dot>>) = Pop(stack)
  <1>1. <<Dot>> # <<Dot, Dot>>
    OBVIOUS
  <1>. QED
    BY <1>1 DEF Enter, EnterLast

\* The characters of "." and of ".." at p.
LEMMA DotHere ==
  ASSUME IInv, pc = "scan", NEW c \in {BackSlash, UNICODE_NULL}, AtDot(c)
  PROVE  /\ p + 1 <= EndPath /\ Path[p] # UNICODE_NULL /\ Path[p + 1] = c
         /\ \A i \in p..((p + 1) - 1) : Path[i] # BackSlash
         /\ Between(Path, p, p + 1) = <<Dot>>
  <1>1. /\ p \in Nat /\ mark \in Nat /\ EndPath \in Nat /\ mark <= p
        /\ p < EndPath <=> Path[p] # UNICODE_NULL
        /\ Holds(Char, Path, mark, EndPath)
    BY ScanCursors
  <1>2. Path[p] = Dot /\ Path[p + 1] = c /\ Path[p] # UNICODE_NULL
    BY CharFacts DEF AtDot
  <1>3. p + 1 <= EndPath
    BY <1>1, <1>2
  <1>4. \A i \in p..((p + 1) - 1) : i = p
    BY <1>1
  <1>5. Holds(Char, Path, p, p + 1)
    BY <1>1, <1>3 DEF Holds
  <1>6. Between(Path, p, p + 1) = <<Dot>>
    BY <1>2, <1>5, BetweenOne
  <1>. QED
    BY <1>2, <1>3, <1>4, <1>6, CharFacts

LEMMA DotDotHere ==
  ASSUME IInv, pc = "scan", NEW c \in {BackSlash, UNICODE_NULL}, AtDotDot(c)
  PROVE  /\ p + 2 <= EndPath /\ Path[p] # UNICODE_NULL /\ Path[p + 2] = c
         /\ \A i \in p..((p + 2) - 1) : Path[i] # BackSlash
         /\ Between(Path, p, p + 2) = <<Dot, Dot>>
  <1>1. /\ p \in Nat /\ mark \in Nat /\ EndPath \in Nat /\ mark <= p /\ p <= EndPath
        /\ Path[EndPath] = UNICODE_NULL
        /\ Holds(Char, Path, mark, EndPath)
    BY ScanCursors
  <1>2. Path[p] = Dot /\ Path[p + 1] = Dot /\ Path[p + 2] = c
    BY DEF AtDotDot, AtDot
  <1>3. p + 2 <= EndPath /\ Path[p] # UNICODE_NULL
    BY <1>1, <1>2, CharFacts
  <1>4. \A i \in p..((p + 2) - 1) : i = p \/ i = p + 1
    BY <1>1
  <1>5. Between(Path, p, p + 2) = <<Dot, Dot>>
    <2>1. Holds(Char, Path, p, p + 2)
      BY <1>1, <1>3 DEF Holds
    <2>. DEFINE s == <<Dot, Dot>>
    <2>2. s \in Seq(Char) /\ Len(s) = 2 /\ s[1] = Dot /\ s[2] = Dot
      BY CharFacts
    <2>. HIDE DEF s
    <2>3. \A k \in 1..((p + 2) - p) : (k = 1 /\ (p + k) - 1 = p) \/ (k = 2 /\ (p + k) - 1 = p + 1)
      BY <1>1
    <2>4. (p + 2) - p = 2
      BY <1>1
    <2>5. Spells(Char, s, Path, p, p + 2)
      BY <1>2, <2>2, <2>3, <2>4 DEF Spells
    <2>. QED
      BY <2>1, <2>5, IsBetween DEF s
  <1>. QED
    BY <1>2, <1>3, <1>4, <1>5, CharFacts

LEMMA DotComponentAgrees == IInv /\ Agreement /\ DotComponent => Agreement'
  <1>. SUFFICES ASSUME IInv, Agreement, DotComponent PROVE Agreement'
    OBVIOUS
  <1>1. /\ pc = "scan" /\ call' = call /\ pc' = pc /\ p' = p
        /\ AtDot(BackSlash) /\ MoveDown(p, p + 2)
    BY DEF DotComponent
  <1>2. /\ p \in Nat /\ mark \in Nat /\ EndPath \in Nat /\ mark <= p /\ p <= EndPath
        /\ Path[EndPath] = UNICODE_NULL /\ Holds(Char, Path, mark, EndPath)
    BY <1>1, ScanCursors
  <1>3. /\ Path[p] # UNICODE_NULL /\ Path[p + 1] = BackSlash /\ p + 2 <= EndPath
        /\ \A i \in p..((p + 1) - 1) : Path[i] # BackSlash
        /\ Between(Path, p, p + 1) = <<Dot>>
    <2>1. /\ Path[p] # UNICODE_NULL /\ Path[p + 1] = BackSlash /\ p + 1 <= EndPath
          /\ \A i \in p..((p + 1) - 1) : Path[i] # BackSlash
          /\ Between(Path, p, p + 1) = <<Dot>>
      BY <1>1, DotHere
    <2>. QED
      BY <1>2, <2>1, CharFacts
  <1>4. PICK stack : ReadUpTo(p, stack, Left, mark, Path, EndPath)
    BY <1>1, <1>3, Reading
  <1>5. Scans(Char, Left, stack, Between(Path, p + 2, EndPath))
    <2>. DEFINE q == p + 1
    <2>1. q \in p..(EndPath - 1) /\ q + 1 = p + 2 /\ Holds(Char, Path, p, EndPath)
      BY <1>2, <1>3 DEF Holds
    <2>2. Path[q] = BackSlash /\ \A i \in p..(q - 1) : Path[i] # BackSlash
      BY <1>3
    <2>3. Scans(Char, Left, stack, Between(Path, p, EndPath))
      BY <1>4 DEF ReadUpTo
    <2>4. Between(Path, p, q) = <<Dot>>
      BY <1>3
    <2>. HIDE DEF q
    <2>5. Scans(Char, Left, Enter(stack, Between(Path, p, q)), Between(Path, q + 1, EndPath))
      BY <2>1, <2>2, <2>3, CharFacts, ReadDirectory
    <2>. QED
      BY <2>1, <2>4, <2>5, EnterDots
  <1>6. /\ \A i \in 0..(mark - 1) : Path'[i] = Path[i]
        /\ Between(Path', mark, p) = Between(Path, mark, p)
        /\ Between(Path', p, EndPath') = Between(Path, p + 2, EndPath)
    <2>1. p \in mark..EndPath /\ p + 2 \in (p + 1)..EndPath /\ p + 2 \in (p + 2)..EndPath
      BY <1>2, <1>3
    <2>2. (p + 2) - ((p + 2) - p) = p
      BY <1>2
    <2>. QED
      BY <1>1, <2>1, <2>2, MovedDown
  <1>7. ReadUpTo(p', stack, Left, mark, Path', EndPath')
    BY <1>1, <1>4, <1>5, <1>6 DEF ReadUpTo
  <1>. QED
    BY <1>1, <1>6, <1>7, StillAgrees

\* The parent that IsParentStart finds is the last of the stack.
LEMMA ParentRead ==
  ASSUME IInv, pc = "scan", NEW stack, ReadUpTo(p, stack, Left, mark, Path, EndPath),
         NEW q \in mark..p, IsParentStart(q)
  PROVE  Pop(stack) \in Seq(PlainNames(Char)) /\ Between(Path, mark, q) = Directories(Pop(stack))
  <1>1. /\ p \in Nat /\ mark \in Nat /\ EndPath \in Nat /\ mark <= p /\ p <= EndPath
        /\ Holds(Char, Path, mark, EndPath)
    BY ScanCursors
  <1>2. Holds(Char, Path, mark, p) /\ BackSlash \in Char
    BY <1>1, CharFacts DEF Holds
  <1>3. stack \in Seq(PlainNames(Char)) /\ Between(Path, mark, p) = Directories(stack)
    BY DEF ReadUpTo
  <1>4. \/ p = mark /\ q = p
        \/ /\ q < p
           /\ q > mark => Path[q - 1] = BackSlash
           /\ \A i \in q..(p - 2) : Path[i] # BackSlash
    BY DEF IsParentStart
  <1>5. Between(Path, mark, q) = Directories(Pop(stack))
    BY <1>2, <1>3, <1>4, ParentIs
  <1>. QED
    BY <1>3, <1>5, PopIs

LEMMA DotDotComponentAgrees == IInv /\ Agreement /\ DotDotComponent => Agreement'
  <1>. SUFFICES ASSUME IInv, Agreement, DotDotComponent PROVE Agreement'
    OBVIOUS
  <1>1. /\ pc = "scan" /\ call' = call /\ pc' = pc /\ AtDotDot(BackSlash)
    BY DEF DotDotComponent
  <1>2. PICK q \in mark..p : IsParentStart(q) /\ MoveDown(q, p + 3) /\ p' = q
    BY DEF DotDotComponent
  <1>3. /\ p \in Nat /\ mark \in Nat /\ EndPath \in Nat /\ mark <= p /\ p <= EndPath
        /\ Path[EndPath] = UNICODE_NULL /\ Holds(Char, Path, mark, EndPath)
    BY <1>1, ScanCursors
  <1>4. /\ Path[p] # UNICODE_NULL /\ Path[p + 2] = BackSlash /\ p + 3 <= EndPath
        /\ \A i \in p..((p + 2) - 1) : Path[i] # BackSlash
        /\ Between(Path, p, p + 2) = <<Dot, Dot>>
    <2>1. /\ Path[p] # UNICODE_NULL /\ Path[p + 2] = BackSlash /\ p + 2 <= EndPath
          /\ \A i \in p..((p + 2) - 1) : Path[i] # BackSlash
          /\ Between(Path, p, p + 2) = <<Dot, Dot>>
      BY <1>1, DotDotHere
    <2>. QED
      BY <1>3, <2>1, CharFacts
  <1>5. PICK stack : ReadUpTo(p, stack, Left, mark, Path, EndPath)
    BY <1>1, <1>4, Reading
  <1>6. Scans(Char, Left, Pop(stack), Between(Path, p + 3, EndPath))
    <2>. DEFINE e == p + 2
    <2>1. e \in p..(EndPath - 1) /\ e + 1 = p + 3 /\ Holds(Char, Path, p, EndPath)
      BY <1>3, <1>4 DEF Holds
    <2>2. Path[e] = BackSlash /\ \A i \in p..(e - 1) : Path[i] # BackSlash
      BY <1>4
    <2>3. Scans(Char, Left, stack, Between(Path, p, EndPath))
      BY <1>5 DEF ReadUpTo
    <2>4. Between(Path, p, e) = <<Dot, Dot>>
      BY <1>4
    <2>. HIDE DEF e
    <2>5. Scans(Char, Left, Enter(stack, Between(Path, p, e)), Between(Path, e + 1, EndPath))
      BY <2>1, <2>2, <2>3, CharFacts, ReadDirectory
    <2>. QED
      BY <2>1, <2>4, <2>5, EnterDots
  <1>7. Pop(stack) \in Seq(PlainNames(Char)) /\ Between(Path, mark, q) = Directories(Pop(stack))
    BY <1>1, <1>2, <1>5, ParentRead
  <1>8. /\ \A i \in 0..(mark - 1) : Path'[i] = Path[i]
        /\ Between(Path', mark, q) = Between(Path, mark, q)
        /\ Between(Path', q, EndPath') = Between(Path, p + 3, EndPath)
    <2>1. q \in mark..EndPath /\ p + 3 \in (q + 1)..EndPath /\ p + 3 \in (p + 3)..EndPath
      BY <1>3, <1>4
    <2>2. (p + 3) - ((p + 3) - q) = q
      BY <1>3
    <2>. QED
      BY <1>1, <1>2, <2>1, <2>2, MovedDown
  <1>9. ReadUpTo(p', Pop(stack), Left, mark, Path', EndPath')
    BY <1>2, <1>6, <1>7, <1>8 DEF ReadUpTo
  <1>. QED
    BY <1>1, <1>8, <1>9, StillAgrees

LEMMA FinalDotAgrees == IInv /\ Agreement /\ FinalDot => Agreement'
  <1>. SUFFICES ASSUME IInv, Agreement, FinalDot PROVE Agreement'
    OBVIOUS
  <1>. DEFINE c == IF p > mark THEN p - 1 ELSE p
  <1>1. /\ pc = "scan" /\ call' = call /\ pc' = pc /\ AtDot(UNICODE_NULL) /\ CutAt(c)
    BY DEF FinalDot
  <1>2. /\ p \in Nat /\ mark \in Nat /\ EndPath \in Nat /\ mark <= p /\ p <= EndPath
        /\ Path[EndPath] = UNICODE_NULL /\ Holds(Char, Path, mark, EndPath)
        /\ Holds(Char, Path, 0, EndPath)
    BY <1>1, ScanCursors
  <1>3. /\ Path[p] # UNICODE_NULL /\ EndPath = p + 1
        /\ \A i \in p..((p + 1) - 1) : Path[i] # BackSlash
        /\ Between(Path, p, p + 1) = <<Dot>>
    <2>1. /\ Path[p] # UNICODE_NULL /\ Path[p + 1] = UNICODE_NULL /\ p + 1 <= EndPath
          /\ \A i \in p..((p + 1) - 1) : Path[i] # BackSlash
          /\ Between(Path, p, p + 1) = <<Dot>>
      BY <1>1, DotHere
    <2>2. ~(p + 1 < EndPath)
      BY <1>2, <2>1, CharFacts DEF Holds
    <2>. QED
      BY <1>2, <2>1, <2>2
  <1>4. PICK stack : ReadUpTo(p, stack, Left, mark, Path, EndPath)
    BY <1>1, <1>3, Reading
  <1>5. stack \in Seq(Seq(Char)) /\ Between(Path, mark, p) = Directories(stack)
    BY <1>4, NamesAreStrings DEF ReadUpTo
  <1>6. Left = stack
    <2>1. Holds(Char, Path, p, EndPath)
      BY <1>2 DEF Holds
    <2>2. Left = EnterLast(stack, Between(Path, p, EndPath))
      BY <1>3, <1>4, <2>1, ReadLast DEF ReadUpTo
    <2>. QED
      BY <1>3, <2>2, EnterDots
  <1>7. Between(Path, mark, c) = Join(Left)
    <2>1. Holds(Char, Path, mark, p) /\ BackSlash \in Char
      BY <1>2, CharFacts DEF Holds
    <2>. QED
      BY <1>5, <1>6, <2>1, JoinCut
  <1>8. c \in mark..EndPath
    BY <1>2
  <1>. HIDE DEF c
  <1>9. /\ \A i \in 0..(mark - 1) : Path'[i] = Path[i]
        /\ p' = EndPath' /\ EndPath' = c
        /\ Between(Path', mark, c) = Between(Path, mark, c)
    BY <1>1, <1>8, WasCut
  <1>. QED
    BY <1>1, <1>7, <1>9, StillAgrees

LEMMA FinalDotDotAgrees == IInv /\ Agreement /\ FinalDotDot => Agreement'
  <1>. SUFFICES ASSUME IInv, Agreement, FinalDotDot PROVE Agreement'
    OBVIOUS
  <1>1. pc = "scan" /\ call' = call /\ pc' = pc /\ AtDotDot(UNICODE_NULL)
    BY DEF FinalDotDot
  <1>2. PICK q \in mark..p : IsParentStart(q) /\ CutAt(IF q > mark THEN q - 1 ELSE q)
    BY DEF FinalDotDot
  <1>. DEFINE c == IF q > mark THEN q - 1 ELSE q
  <1>3. /\ p \in Nat /\ mark \in Nat /\ EndPath \in Nat /\ mark <= p /\ p <= EndPath
        /\ Path[EndPath] = UNICODE_NULL /\ Holds(Char, Path, mark, EndPath)
        /\ Holds(Char, Path, 0, EndPath)
    BY <1>1, ScanCursors
  <1>4. /\ Path[p] # UNICODE_NULL /\ EndPath = p + 2
        /\ \A i \in p..((p + 2) - 1) : Path[i] # BackSlash
        /\ Between(Path, p, p + 2) = <<Dot, Dot>>
    <2>1. /\ Path[p] # UNICODE_NULL /\ Path[p + 2] = UNICODE_NULL /\ p + 2 <= EndPath
          /\ \A i \in p..((p + 2) - 1) : Path[i] # BackSlash
          /\ Between(Path, p, p + 2) = <<Dot, Dot>>
      BY <1>1, DotDotHere
    <2>2. ~(p + 2 < EndPath)
      BY <1>3, <2>1, CharFacts DEF Holds
    <2>. QED
      BY <1>3, <2>1, <2>2
  <1>5. PICK stack : ReadUpTo(p, stack, Left, mark, Path, EndPath)
    BY <1>1, <1>4, Reading
  <1>6. Pop(stack) \in Seq(PlainNames(Char)) /\ Between(Path, mark, q) = Directories(Pop(stack))
    BY <1>1, <1>2, <1>5, ParentRead
  <1>7. Left = Pop(stack)
    <2>1. Holds(Char, Path, p, EndPath)
      BY <1>3 DEF Holds
    <2>2. Left = EnterLast(stack, Between(Path, p, EndPath))
      BY <1>4, <1>5, <2>1, ReadLast DEF ReadUpTo
    <2>. QED
      BY <1>4, <2>2, EnterDots
  <1>8. Between(Path, mark, c) = Join(Left)
    <2>1. Holds(Char, Path, mark, q) /\ BackSlash \in Char
      BY <1>3, CharFacts DEF Holds
    <2>2. Pop(stack) \in Seq(Seq(Char))
      BY <1>6, NamesAreStrings
    <2>. QED
      BY <1>6, <1>7, <2>1, <2>2, JoinCut
  <1>9. c \in mark..EndPath /\ CutAt(c)
    BY <1>2, <1>3
  <1>. HIDE DEF c
  <1>10. /\ \A i \in 0..(mark - 1) : Path'[i] = Path[i]
         /\ p' = EndPath' /\ EndPath' = c
         /\ Between(Path', mark, c) = Between(Path, mark, c)
    BY <1>1, <1>9, WasCut
  <1>. QED
    BY <1>1, <1>8, <1>10, StillAgrees

\* A name that is neither "." nor "..", from p to q.
LEMMA NameHere ==
  ASSUME IInv, pc = "scan", AtName, NEW q \in p..EndPath, IsComponentEnd(q)
  PROVE  /\ \A i \in p..(q - 1) : Path[i] # BackSlash
         /\ Between(Path, p, q) \in PlainNames(Char)
         /\ Between(Path, p, q) # <<Dot>> /\ Between(Path, p, q) # <<Dot, Dot>>
         /\ IF q = p THEN Between(Path, p, q) = <<>>
            ELSE Between(Path, p, q) # <<>> /\ Last(Between(Path, p, q)) = Path[q - 1]
  <1>. DEFINE n == Between(Path, p, q)
  <1>1. /\ p \in Nat /\ mark \in Nat /\ EndPath \in Nat /\ mark <= p /\ p <= EndPath
        /\ Holds(Char, Path, mark, EndPath)
    BY ScanCursors
  <1>2. Holds(Char, Path, p, q) /\ q \in Nat /\ p <= q
    BY <1>1 DEF Holds
  <1>3. Spells(Char, n, Path, p, q)
    BY <1>2, CharsBetween
  <1>4. /\ \A i \in p..(q - 1) : Path[i] # BackSlash
        /\ Path[q] \in {BackSlash, UNICODE_NULL}
    BY DEF IsComponentEnd
  <1>5. n \in PlainNames(Char)
    BY <1>2, <1>4, NamesBetween
  <1>. HIDE DEF n
  <1>6. /\ Len(n) = q - p /\ Len(n) \in Nat
        /\ \A k \in 1..(q - p) : n[k] = Path[(p + k) - 1]
    BY <1>2, <1>3 DEF Spells
  <1>7. n # <<Dot>>
    <2>. SUFFICES ASSUME n = <<Dot>> PROVE FALSE
      OBVIOUS
    <2>1. Len(n) = 1 /\ n[1] = Dot
      OBVIOUS
    <2>2. q = p + 1 /\ 1 \in 1..(q - p) /\ (p + 1) - 1 = p
      BY <1>1, <1>2, <1>6, <2>1
    <2>3. Path[p] = Dot
      BY <1>6, <2>1, <2>2
    <2>. QED
      BY <1>4, <2>2, <2>3 DEF AtName, AtDot
  <1>8. n # <<Dot, Dot>>
    <2>. SUFFICES ASSUME n = <<Dot, Dot>> PROVE FALSE
      OBVIOUS
    <2>1. Len(n) = 2 /\ n[1] = Dot /\ n[2] = Dot
      OBVIOUS
    <2>2. /\ q = p + 2 /\ 1 \in 1..(q - p) /\ (p + 1) - 1 = p
          /\ 2 \in 1..(q - p) /\ (p + 2) - 1 = p + 1
      BY <1>1, <1>2, <1>6, <2>1
    <2>3. Path[p] = Dot /\ Path[p + 1] = Dot
      BY <1>6, <2>1, <2>2
    <2>. QED
      BY <1>4, <2>2, <2>3 DEF AtName, AtDotDot, AtDot
  <1>9. IF q = p THEN n = <<>> ELSE n # <<>> /\ Last(n) = Path[q - 1]
    <2>1. CASE q = p
      BY <1>1, <2>1, BetweenNone DEF n
    <2>2. CASE q # p
      <3>1. Len(n) > 0 /\ Len(n) \in 1..(q - p) /\ (p + Len(n)) - 1 = q - 1
        BY <1>1, <1>2, <1>6, <2>2
      <3>2. n # <<>>
        BY <3>1
      <3>. QED
        BY <1>6, <2>2, <3>1, <3>2 DEF Last
    <2>. QED
      BY <2>1, <2>2
  <1>. QED
    BY <1>4, <1>5, <1>7, <1>8, <1>9 DEF n

\* The directories of a stack and of the name at m, in a buffer.
LEMMA Pushed ==
  ASSUME NEW stack, NEW buf, NEW i, NEW j, NEW m, m \in i..j, Holds(Char, buf, i, j),
         stack \in Seq(PlainNames(Char)),
         Between(buf, i, m) = Directories(stack),
         Between(buf, m, j) \in PlainNames(Char)
  PROVE  Append(Between(buf, i, j), BackSlash) = Directories(Append(stack, Between(buf, m, j)))
  <1>0. Between(buf, i, j) = Between(buf, i, m) \o Between(buf, m, j)
    <2>1. m \in i..j /\ Holds(Char, buf, i, j)
      OBVIOUS
    <2>. QED
      BY ONLY <2>1, BetweenJoins
  <1>. DEFINE n == Between(buf, m, j)
              d == Directories(stack)
  <1>1. BackSlash \in Char
    BY CharFacts
  <1>2. stack \in Seq(Seq(Char)) /\ n \in Seq(Char)
    BY NamesAreStrings DEF PlainNames
  <1>3. Between(buf, i, j) = d \o n
    BY <1>0, Zenon
  <1>. HIDE DEF n
  <1>4. Directories(Append(stack, n)) = (d \o n) \o <<BackSlash>> /\ d \in Seq(Char)
    BY <1>1, <1>2, DirectoriesAppend
  <1>. HIDE DEF d
  <1>5. d \o n \in Seq(Char)
    BY <1>2, <1>4
  <1>6. \A s \in Seq(Char), c \in Char : s \o <<c>> = Append(s, c)
    OBVIOUS
  <1>7. (d \o n) \o <<BackSlash>> = Append(d \o n, BackSlash)
    BY <1>1, <1>5, <1>6, Zenon
  <1>. QED
    BY <1>3, <1>4, <1>7 DEF n

LEMMA LastNameAgrees == IInv /\ Agreement /\ LastName => Agreement'
  <1>. SUFFICES ASSUME IInv, Agreement, LastName PROVE Agreement'
    OBVIOUS
  <1>1. PICK q \in p..EndPath :
          /\ pc = "scan" /\ UNCHANGED <<call, next, pc, Path, EndPath>>
          /\ AtName /\ IsComponentEnd(q) /\ Path[q] = UNICODE_NULL /\ p' = q
    BY DEF LastName, SkipName
  <1>2. /\ p \in Nat /\ mark \in Nat /\ EndPath \in Nat /\ mark <= p /\ p <= EndPath
        /\ Holds(Char, Path, mark, EndPath) /\ Path[p] # UNICODE_NULL
    BY <1>1, ScanCursors DEF AtName
  <1>3. q = EndPath
    BY <1>1, <1>2, CharFacts DEF Holds
  <1>4. PICK stack : ReadUpTo(p, stack, Left, mark, Path, EndPath)
    BY <1>1, <1>2, Reading
  <1>. DEFINE n == Between(Path, p, EndPath)
              d == Directories(stack)
  <1>5. /\ \A i \in p..(EndPath - 1) : Path[i] # BackSlash
        /\ n \in PlainNames(Char) /\ n # <<Dot>> /\ n # <<Dot, Dot>>
    BY <1>1, <1>3, NameHere
  <1>6. stack \in Seq(Seq(Char)) /\ n \in Seq(Char) /\ Between(Path, mark, p) = d
    BY <1>4, <1>5, NamesAreStrings DEF ReadUpTo, PlainNames
  <1>7. Left = EnterLast(stack, n)
    <2>1. Holds(Char, Path, p, EndPath)
      BY <1>2 DEF Holds
    <2>. QED
      BY <1>4, <1>5, <2>1, ReadLast DEF ReadUpTo
  <1>8. Between(Path, mark, EndPath) = d \o n
    <2>1. p \in mark..EndPath
      BY <1>2
    <2>2. Between(Path, mark, EndPath) = Between(Path, mark, p) \o Between(Path, p, EndPath)
      BY <1>2, <2>1, BetweenJoins
    <2>. QED
      BY <1>6, <2>2
  <1>. HIDE DEF n
  <1>9. Left = Append(stack, n)
    BY <1>5, <1>7 DEF EnterLast
  <1>10. Join(Left) = d \o n
    BY <1>6, <1>9, JoinAppend
  <1>. QED
    BY <1>1, <1>3, <1>8, <1>10, StillAgrees

LEMMA DirectoryNameAgrees == IInv /\ Agreement /\ DirectoryName => Agreement'
  <1>. SUFFICES ASSUME IInv, Agreement, DirectoryName PROVE Agreement'
    OBVIOUS
  <1>1. PICK q \in p..EndPath :
          /\ pc = "scan" /\ UNCHANGED <<call, next, pc, Path, EndPath>>
          /\ AtName /\ IsComponentEnd(q) /\ Path[q] = BackSlash /\ ~DotBefore(q) /\ p' = q + 1
    BY DEF DirectoryName, SkipName
  <1>2. /\ p \in Nat /\ mark \in Nat /\ EndPath \in Nat /\ mark <= p /\ p <= EndPath
        /\ Holds(Char, Path, mark, EndPath) /\ Path[EndPath] = UNICODE_NULL
        /\ Path[p] # UNICODE_NULL
    BY <1>1, ScanCursors DEF AtName
  <1>3. q \in p..(EndPath - 1) /\ q \in Nat
    BY <1>1, <1>2, CharFacts
  <1>4. PICK stack : ReadUpTo(p, stack, Left, mark, Path, EndPath)
    BY <1>1, <1>2, Reading
  <1>. DEFINE n == Between(Path, p, q)
  <1>5. /\ \A i \in p..(q - 1) : Path[i] # BackSlash
        /\ n \in PlainNames(Char) /\ n # <<Dot>> /\ n # <<Dot, Dot>>
        /\ IF q = p THEN n = <<>> ELSE n # <<>> /\ Last(n) = Path[q - 1]
    BY <1>1, NameHere
  <1>6. WithoutLastDot(n) = n
    <2>. HIDE DEF n
    <2>1. q # p => Path[q - 1] # Dot
      BY <1>1, <1>2, <1>3 DEF DotBefore
    <2>. QED
      BY <1>5, <2>1 DEF WithoutLastDot
  <1>7. Enter(stack, n) = Append(stack, n)
    <2>. HIDE DEF n
    <2>. QED
      BY <1>5, <1>6 DEF Enter
  <1>8. Scans(Char, Left, Enter(stack, n), Between(Path, q + 1, EndPath))
    <2>1. Holds(Char, Path, p, EndPath)
      BY <1>2 DEF Holds
    <2>2. Scans(Char, Left, stack, Between(Path, p, EndPath))
      BY <1>4 DEF ReadUpTo
    <2>. QED
      BY <1>1, <1>3, <1>5, <2>1, <2>2, CharFacts, ReadDirectory
  <1>9. Between(Path, mark, q + 1) = Directories(Append(stack, n))
    <2>1. Holds(Char, Path, mark, q) /\ Holds(Char, Path, mark, q + 1) /\ p \in mark..q /\ mark <= q
      BY <1>2, <1>3 DEF Holds
    <2>2. Between(Path, mark, q + 1) = Append(Between(Path, mark, q), Path[q])
      BY <1>3, <2>1, BetweenMore
    <2>3. Append(Between(Path, mark, q), BackSlash) = Directories(Append(stack, n))
      BY <1>4, <1>5, <2>1, Pushed DEF ReadUpTo
    <2>. QED
      BY <1>1, <2>2, <2>3
  <1>10. Append(stack, n) \in Seq(PlainNames(Char))
    <2>. HIDE DEF n
    <2>. QED
      BY <1>4, <1>5 DEF ReadUpTo
  <1>11. ReadUpTo(q + 1, Append(stack, n), Left, mark, Path, EndPath)
    BY <1>7, <1>8, <1>9, <1>10 DEF ReadUpTo
  <1>. QED
    BY <1>1, <1>11, StillAgrees

LEMMA DirectoryNameWithDotAgrees == IInv /\ Agreement /\ DirectoryNameWithDot => Agreement'
  <1>. SUFFICES ASSUME IInv, Agreement, DirectoryNameWithDot PROVE Agreement'
    OBVIOUS
  <1>1. PICK q \in p..EndPath :
          /\ pc = "scan" /\ call' = call /\ pc' = pc
          /\ AtName /\ IsComponentEnd(q) /\ Path[q] = BackSlash /\ q > mark /\ Path[q - 1] = Dot
          /\ MoveDown(q - 1, q) /\ p' = q
    BY DEF DirectoryNameWithDot, SkipName, DotBefore
  <1>2. /\ p \in Nat /\ mark \in Nat /\ EndPath \in Nat /\ mark <= p /\ p <= EndPath
        /\ Holds(Char, Path, mark, EndPath) /\ Path[EndPath] = UNICODE_NULL
        /\ Path[p] # UNICODE_NULL
    BY <1>1, ScanCursors DEF AtName
  <1>3. q \in p..(EndPath - 1) /\ q \in Nat /\ q # p
    <2>1. q \in p..(EndPath - 1) /\ q \in Nat
      BY <1>1, <1>2, CharFacts
    <2>2. p > mark /\ p # EndPath => Path[p - 1] = BackSlash
      BY <1>1, ScanFacts
    <2>. QED
      BY <1>1, <1>2, <2>1, <2>2, CharFacts
  <1>4. PICK stack : ReadUpTo(p, stack, Left, mark, Path, EndPath)
    BY <1>1, <1>2, Reading
  <1>. DEFINE n == Between(Path, p, q)
              r == q - 1
              f == Between(Path, p, r)
  <1>5. /\ \A i \in p..(q - 1) : Path[i] # BackSlash
        /\ n \in PlainNames(Char) /\ n # <<Dot>> /\ n # <<Dot, Dot>>
        /\ n # <<>> /\ Last(n) = Dot
    BY <1>1, <1>3, NameHere
  <1>6. r \in Nat /\ p <= r /\ r + 1 = q /\ Holds(Char, Path, p, r + 1) /\ Holds(Char, Path, p, r)
    BY <1>2, <1>3 DEF Holds
  <1>7. f \in PlainNames(Char)
    BY <1>5, <1>6, NamesBetween
  <1>8. WithoutLastDot(n) = f
    <2>1. n = Append(f, Path[r])
      BY <1>6, BetweenMore
    <2>2. f \in Seq(Char) /\ Path[r] \in Char
      BY <1>6, <1>7 DEF PlainNames, Holds
    <2>. HIDE DEF f, n, r
    <2>3. Front(n) = f
      BY <2>1, <2>2, OfAppend
    <2>. QED
      BY <1>5, <2>3 DEF WithoutLastDot
  <1>9. Enter(stack, n) = Append(stack, f)
    <2>. HIDE DEF n, f
    <2>. QED
      BY <1>5, <1>8 DEF Enter
  <1>10. Scans(Char, Left, Enter(stack, n), Between(Path, q + 1, EndPath))
    <2>1. Holds(Char, Path, p, EndPath)
      BY <1>2 DEF Holds
    <2>2. Scans(Char, Left, stack, Between(Path, p, EndPath))
      BY <1>4 DEF ReadUpTo
    <2>. QED
      BY <1>1, <1>3, <1>5, <2>1, <2>2, CharFacts, ReadDirectory
  <1>11. Append(Between(Path, mark, r), BackSlash) = Directories(Append(stack, f))
    <2>1. Holds(Char, Path, mark, r) /\ p \in mark..r
      BY <1>2, <1>3, <1>6 DEF Holds
    <2>. QED
      BY <1>4, <1>7, <2>1, Pushed DEF ReadUpTo
  <1>12. /\ \A i \in 0..(mark - 1) : Path'[i] = Path[i]
         /\ Between(Path', mark, r) = Between(Path, mark, r)
         /\ Between(Path', q, EndPath') = Between(Path, q + 1, EndPath)
         /\ Path'[r] = BackSlash
    <2>1. r \in mark..EndPath /\ q \in (r + 1)..EndPath /\ q + 1 \in q..EndPath
      BY <1>2, <1>3, <1>6
    <2>2. (q + 1) - (q - r) = q
      BY <1>2, <1>3
    <2>3. MoveDown(r, q)
      BY <1>1
    <2>. HIDE DEF r
    <2>. QED
      BY <1>1, <2>1, <2>2, <2>3, MovedDown
  <1>13. Between(Path', mark, q) = Append(Between(Path, mark, r), BackSlash)
    <2>1. Holds(Char, Path', mark, r + 1) /\ mark <= r
      <3>1. \A i \in mark..(r - 1) : Path'[i] = Path[i] /\ Path[i] \in Char
        BY <1>1, <1>2, <1>3, ScanCursors DEF InBuffer, MoveDown, Holds
      <3>2. \A i \in mark..((r + 1) - 1) : i \in mark..(r - 1) \/ i = r
        BY <1>2, <1>6
      <3>. QED
        BY <1>2, <1>6, <1>12, <3>1, <3>2, CharFacts DEF Holds
    <2>2. Between(Path', mark, r + 1) = Append(Between(Path', mark, r), Path'[r])
      BY <1>6, <2>1, BetweenMore
    <2>. QED
      BY <1>6, <1>12, <2>2
  <1>14. Append(stack, f) \in Seq(PlainNames(Char))
    <2>. HIDE DEF f
    <2>. QED
      BY <1>4, <1>7 DEF ReadUpTo
  <1>15. ReadUpTo(q, Append(stack, f), Left, mark, Path', EndPath')
    <2>. HIDE DEF f, n, r
    <2>. QED
      BY <1>9, <1>10, <1>11, <1>12, <1>13, <1>14 DEF ReadUpTo
  <1>. QED
    BY <1>1, <1>12, <1>15, StillAgrees

LEMMA ScanAgreesOn == IInv /\ Agreement /\ Scan => Agreement'
  BY FinalDotAgrees, DotComponentAgrees, DotDotComponentAgrees, FinalDotDotAgrees,
     LastNameAgrees, DirectoryNameAgrees, DirectoryNameWithDotAgrees
  DEF Scan
-----------------------------------------------------------------------------
(***************************************************************************)
(* The end of the path.  Where a cursor stops is what Trimmed keeps.       *)
(***************************************************************************)
LEMMA StopsAtTrimmed ==
  ASSUME NEW T, NEW j, NEW floor \in 0..j, Holds(Char, Path, 0, j),
         NEW r \in 0..j, StopsAt(r, j, floor, T)
  PROVE  Trimmed(Between(Path, 0, j), T, floor) = Between(Path, 0, r)
  <1>. DEFINE s == Between(Path, 0, j)
  <1>1. j \in Nat /\ Spells(Char, s, Path, 0, j)
    BY CharsBetween DEF Holds
  <1>. HIDE DEF s
  <1>2. s \in Seq(Char) /\ Len(s) = j /\ \A k \in 1..j : s[k] = Path[k - 1]
    <2>1. \A k \in 1..j : (0 + k) - 1 = k - 1
      OBVIOUS
    <2>. QED
      BY <1>1, <2>1 DEF Spells
  <1>3. PICK n \in floor..Len(s) :
           /\ Trimmed(s, T, floor) = SubSeq(s, 1, n)
           /\ SubSeq(s, 1, n) \in Seq(Char) /\ Len(SubSeq(s, 1, n)) = n
           /\ n = floor \/ s[n] \notin T
           /\ \A i \in (n + 1)..Len(s) : s[i] \in T
    BY <1>2, TrimmedIs, Zenon
  <1>4. n = r
    <2>1. /\ r \in Nat /\ r >= floor /\ \A i \in r..(j - 1) : Path[i] \in T
          /\ r > floor => Path[r - 1] \notin T
      <3>1. r \in Nat
        BY <1>1
      <3>2. r >= floor /\ \A i \in r..(j - 1) : Path[i] \in T
        BY Zenon DEF StopsAt
      <3>3. r > floor => Path[r - 1] \notin T
        BY Zenon DEF StopsAt
      <3>. QED
        BY <3>1, <3>2, <3>3
    <2>2. ~(n < r)
      <3>. SUFFICES ASSUME n < r PROVE FALSE
        OBVIOUS
      <3>1. r \in (n + 1)..Len(s) /\ r \in 1..j /\ r > floor
        BY <1>1, <1>2, <1>3, <2>1
      <3>. QED
        BY <1>2, <1>3, <2>1, <3>1
    <2>3. ~(n > r)
      <3>. SUFFICES ASSUME n > r PROVE FALSE
        OBVIOUS
      <3>1. n \in 1..j /\ n - 1 \in r..(j - 1) /\ n # floor
        BY <1>1, <1>2, <1>3, <2>1
      <3>. QED
        BY <1>2, <1>3, <2>1, <3>1
    <2>. QED
      BY <1>1, <1>3, <2>1, <2>2, <2>3
  <1>5. SubSeq(s, 1, r) = Between(Path, 0, r)
    <2>1. Holds(Char, Path, 0, r)
      BY HoldsParts
    <2>2. \A k \in 1..(r - 0) : SubSeq(s, 1, r)[k] = Path[(0 + k) - 1]
      <3>1. \A k \in 1..r : SubSeq(s, 1, r)[k] = s[k]
        BY <1>1, <1>2
      <3>2. \A k \in 1..(r - 0) : k \in 1..r /\ k \in 1..j /\ (0 + k) - 1 = k - 1
        BY <1>1
      <3>. QED
        BY <1>2, <3>1, <3>2
    <2>3. Spells(Char, SubSeq(s, 1, r), Path, 0, r)
      BY <1>3, <1>4, <2>2 DEF Spells
    <2>. QED
      BY <2>1, <2>3, IsBetween
  <1>. QED
    BY <1>3, <1>4, <1>5 DEF s

\* What the scan leaves, the marked part and the components behind it.
LEMMA Scanned ==
  ASSUME IInv, Agreement, pc = "scan", Path[p] = UNICODE_NULL
  PROVE  p = EndPath /\ Between(Path, 0, p) = Marked \o Join(Left)
  <1>1. /\ CallOK /\ p \in Nat /\ mark \in Nat /\ EndPath \in Nat /\ mark <= p
        /\ p = EndPath /\ Holds(Char, Path, 0, p) /\ Holds(Char, Path, mark, p)
    <2>1. p < EndPath <=> Path[p] # UNICODE_NULL
      BY ScanCursors
    <2>2. p <= EndPath /\ p \in Nat /\ EndPath \in Nat
      BY ScanCursors
    <2>3. p = EndPath
      BY <2>1, <2>2
    <2>. QED
      BY <2>3, ScanCursors
  <1>2. Between(Path, mark, p) = Join(Left)
    <2>1. CASE Between(Path, mark, EndPath) = Join(Left)
      BY <1>1, <2>1
    <2>2. CASE \E stack : ReadUpTo(p, stack, Left, mark, Path, EndPath)
      <3>1. PICK stack : ReadUpTo(p, stack, Left, mark, Path, EndPath)
        BY <2>2
      <3>2. /\ stack \in Seq(Seq(Char)) /\ Between(Path, mark, p) = Directories(stack)
            /\ Scans(Char, Left, stack, Between(Path, p, p))
        BY <1>1, <3>1, NamesAreStrings DEF ReadUpTo
      <3>3. Between(Path, p, p) = <<>> /\ <<>> \in PlainNames(Char) /\ <<>> \in Seq(Char)
        BY <1>1, BetweenNone DEF PlainNames
      <3>4. Left = EnterLast(stack, <<>>)
        BY <3>2, <3>3, ScansLast
      <3>5. Left = Append(stack, <<>>)
        <4>1. <<>> # <<Dot>> /\ <<>> # <<Dot, Dot>>
          OBVIOUS
        <4>. QED
          BY <3>4, <4>1 DEF EnterLast
      <3>6. Join(Left) = Directories(stack) \o <<>>
        BY <3>2, <3>3, <3>5, JoinAppend
      <3>7. Directories(stack) \in Seq(Char)
        BY <3>2, CharFacts, DirectoriesIs
      <3>. DEFINE d == Directories(stack)
      <3>8. d \o <<>> = d
        <4>. HIDE DEF d
        <4>1. \A t \in Seq(Char) : t \o <<>> = t
          OBVIOUS
        <4>. QED
          BY <3>7, <4>1 DEF d
      <3>. QED
        BY <3>2, <3>6, <3>8
    <2>. QED
      BY <2>1, <2>2 DEF Agreement, ScanAgrees
  <1>3. Between(Path, 0, mark) = Marked
    <2>1. Holds(Char, Slashed, 0, mark)
      <3>1. mark \in 0..EndBuffer
        BY <1>1, CallFacts
      <3>. QED
        BY <1>1, <3>1, SlashedIs, HoldsParts
    <2>2. \A i \in 0..(mark - 1) : Path[i] = Slashed[i]
      BY DEF Agreement, MarkedHeld
    <2>. QED
      BY <2>1, <2>2, BetweenSame DEF Marked
  <1>4. Between(Path, 0, p) = Between(Path, 0, mark) \o Between(Path, mark, p)
    <2>1. mark \in 0..p
      BY <1>1
    <2>. QED
      BY <1>1, <2>1, BetweenJoins
  <1>. QED
    BY <1>1, <1>2, <1>3, <1>4

LEMMA TrimAgrees == IInv /\ Agreement /\ Trim => Agreement'
  <1>. SUFFICES ASSUME IInv, Agreement, Trim PROVE Agreement'
    OBVIOUS
  <1>1. /\ pc = "scan" /\ pc' = "zero" /\ call' = call /\ Path' = Path
        /\ Path[p] = UNICODE_NULL
    BY DEF Trim
  <1>2. /\ CallOK /\ p \in Nat /\ mark \in Nat /\ mark <= p /\ p <= EndBuffer /\ EndBuffer \in Nat
        /\ Holds(Char, Path, 0, p)
    BY <1>1, ScanCursors, Scanned
  <1>3. PICK q \in 0..p : TrimSeparators(q) /\ \E r \in 0..q : StopsAt(r, q, 0, {Space, Dot}) /\ p' = r
    BY DEF Trim
  <1>4. PICK r \in 0..q : StopsAt(r, q, 0, {Space, Dot}) /\ p' = r
    BY <1>3
  <1>. DEFINE whole == Between(Path, 0, p)
              kept == IF SkipTrailingPathSeparators THEN Trimmed(whole, {BackSlash}, mark) ELSE whole
  <1>5. kept = Between(Path, 0, q)
    <2>1. CASE ~SkipTrailingPathSeparators
      BY <1>3, <2>1 DEF TrimSeparators
    <2>2. CASE SkipTrailingPathSeparators
      <3>1. StopsAt(q, p, mark, {BackSlash, Slash})
        BY <1>3, <2>2 DEF TrimSeparators
      <3>2. \A i \in 0..EndBuffer : Path[i] # Slash
        BY <1>1, ScanCursors DEF InBuffer, NoSlash
      <3>3. StopsAt(q, p, mark, {BackSlash})
        BY <1>2, <3>1, <3>2 DEF StopsAt
      <3>4. mark \in 0..p
        BY <1>2
      <3>5. Trimmed(whole, {BackSlash}, mark) = Between(Path, 0, q)
        BY <1>2, <3>3, <3>4, StopsAtTrimmed
      <3>. QED
        BY <2>2, <3>5
    <2>. QED
      BY <2>1, <2>2
  <1>6. Trimmed(Between(Path, 0, q), {Space, Dot}, 0) = Between(Path, 0, r)
    <2>1. Holds(Char, Path, 0, q) /\ 0 \in 0..q
      BY <1>2, HoldsParts
    <2>. QED
      BY <1>4, <2>1, StopsAtTrimmed
  <1>7. whole = Marked \o Join(Left)
    BY <1>1, Scanned
  <1>8. Collapsed(call.text, mark, SkipTrailingPathSeparators) = Trimmed(kept, {Space, Dot}, 0)
    <2>. HIDE DEF whole
    <2>. QED
      BY <1>2, <1>7, ReferenceIs
  <1>9. Between(Path, 0, r) = Collapsed(call.text, mark, SkipTrailingPathSeparators)
    BY <1>5, <1>6, <1>8
  <1>10. ResultAgrees'
    <2>1. mark' = mark /\ SkipTrailingPathSeparators' = SkipTrailingPathSeparators
      BY <1>1 DEF mark, SkipTrailingPathSeparators
    <2>. QED
      BY <1>1, <1>4, <1>9, <2>1 DEF ResultAgrees
  <1>. QED
    BY <1>1, <1>10 DEF Agreement

LEMMA ZeroTailAgrees == IInv /\ Agreement /\ ZeroTail => Agreement'
  <1>. SUFFICES ASSUME IInv, Agreement, ZeroTail PROVE Agreement'
    OBVIOUS
  <1>1. /\ pc = "zero" /\ pc' \in {"done", "abort"} /\ call' = call /\ p' = p
        /\ IInv /\ ResultAgrees
    BY DEF ZeroTail, Agreement
  <1>2. /\ Path \in [0..EndBuffer -> Char \cup {UNICODE_NULL}]
        /\ p \in 0..EndBuffer /\ EndBuffer \in Nat
        /\ \A i \in 0..(p - 1) : Path[i] # UNICODE_NULL
    BY <1>1, CallFacts DEF IInv, TypeOK, InZero
  <1>3. \A i \in 0..(p - 1) : Path'[i] = Path[i]
    BY <1>2 DEF ZeroTail
  <1>4. Holds(Char, Path, 0, p)
    BY <1>2 DEF Holds
  <1>5. Between(Path', 0, p) = Between(Path, 0, p)
    BY <1>3, <1>4, BetweenSame
  <1>6. mark' = mark /\ SkipTrailingPathSeparators' = SkipTrailingPathSeparators
    BY <1>1 DEF mark, SkipTrailingPathSeparators
  <1>7. ResultAgrees'
    BY <1>1, <1>5, <1>6 DEF ResultAgrees
  <1>. QED
    BY <1>1, <1>7 DEF Agreement

LEMMA StutterAgrees == Agreement /\ UNCHANGED vars => Agreement'
  <1>. SUFFICES ASSUME Agreement, UNCHANGED vars PROVE Agreement'
    OBVIOUS
  <1>1. call' = call /\ Path' = Path /\ p' = p /\ next' = next /\ EndPath' = EndPath /\ pc' = pc
    BY DEF vars
  <1>2. /\ EndBuffer' = EndBuffer /\ mark' = mark
        /\ Slashed' = Slashed /\ Marked' = Marked /\ Left' = Left
    BY <1>1, SameReference
  <1>3. MarkedHeld' <=> MarkedHeld
    BY <1>1, <1>2 DEF MarkedHeld
  <1>4. SqueezeAgrees' <=> SqueezeAgrees
    BY <1>1, <1>2 DEF SqueezeAgrees
  <1>5. ScanAgrees' <=> ScanAgrees
    BY <1>1, <1>2 DEF ScanAgrees
  <1>6. ResultAgrees' <=> ResultAgrees
    BY <1>1, <1>2 DEF ResultAgrees, SkipTrailingPathSeparators
  <1>. QED
    BY <1>1, <1>3, <1>4, <1>5, <1>6 DEF Agreement

LEMMA NextAgrees == IInv /\ Agreement /\ [Next]_vars => Agreement'
  BY ConvertSlashesAgrees, SqueezeKeepAgrees, SqueezeDropAgrees, SqueezeEndAgrees,
     ScanAgreesOn, TrimAgrees, ZeroTailAgrees, StutterAgrees
  DEF Next, Squeeze, Returned

(***************************************************************************)
(* The moves within the buffer compute what the list of components says,   *)
(* for every path, mark and choice of SkipTrailingPathSeparators.          *)
(***************************************************************************)
THEOREM ComputesComponents == Spec => []AgreesWithComponents
  <1>1. Init => Agreement
    BY DEF Init, Agreement
  <1>2. Agreement => AgreesWithComponents
    BY DEF Agreement, ResultAgrees, AgreesWithComponents
  <1>. QED
    BY <1>1, <1>2, NextAgrees, Invariance, PTL DEF Spec
=============================================================================
