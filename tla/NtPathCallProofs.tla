--------------------------- MODULE NtPathCallProofs ---------------------------
(***************************************************************************)
(* The PEB lock and the heap blocks of NtPathCall are counted right, and   *)
(* the recursion ends, for every set of names, buffer size and depth.      *)
(*                                                                         *)
(* The counts need to know more than themselves: which function called     *)
(* which, since the block a path is in passes from N to the E below it,    *)
(* and which name each was called with.                                    *)
(***************************************************************************)
EXTENDS NtPathCall, PathLemmas, FiniteSetTheorems, SequenceTheorems

InN == {"N", "N-full"}
InF == {"F", "F-locked", "F-checked"}
InC == {"C", "C-exists"}
InE == {"E", "E-nt"}

\* Call g was made by call f.
Link(f, g) ==
  \/ f.at = "N-full"    /\ g.at \in InF /\ g.name = f.name
  \/ f.at = "F-checked" /\ g.at \in InC /\ g.name = f.name
  \/ f.at = "C-exists"  /\ g.at \in InE /\ g.name = Checks[f.name]
  \/ f.at = "E-nt"      /\ g.at \in InN /\ g.name = f.name

Linked(calls) == \A i \in 1..(Len(calls) - 1) : Link(calls[i], calls[i + 1])

GoodCall ==
  {f \in [at : Label, name : Name, flags : SUBSET Flags] :
     /\ f.at \in InC \cup {"F-checked"} => f.name \in DosDevice
     /\ f.at \in InN => ("RelativeName" \in f.flags => "HaveRelative" \in f.flags)}

Stacked == stack \in Seq(GoodCall) /\ Linked(stack)

IInv ==
  /\ Stacked
  /\ lock \in Int /\ heap \in Int /\ owned \in Nat
  /\ LockCounted
  /\ HeapCounted
-----------------------------------------------------------------------------
\* A count of calls is a number.
LEMMA CountType ==
  ASSUME NEW s \in Seq(GoodCall), NEW L
  PROVE  Count(s, L) \in Nat
<1>1. IsFiniteSet(1..Len(s))
  BY FS_Interval
<1>2. {i \in DOMAIN s : s[i].at \in L} \in SUBSET (1..Len(s))
  OBVIOUS
<1> QED
  BY <1>1, <1>2, FS_Subset, FS_CardinalityType DEF Count

\* The count of a stack with one more call on it.
LEMMA CountAppend ==
  ASSUME NEW s \in Seq(GoodCall), NEW f, NEW L
  PROVE  Count(Append(s, f), L) = Count(s, L) + (IF f.at \in L THEN 1 ELSE 0)
<1> DEFINE T == {i \in DOMAIN s : s[i].at \in L}
           U == {i \in DOMAIN Append(s, f) : Append(s, f)[i].at \in L}
<1>1. IsFiniteSet(T)
  <2>1. T \in SUBSET (1..Len(s))
    OBVIOUS
  <2> QED
    BY <2>1, FS_Interval, FS_Subset
<1>2. U = IF f.at \in L THEN T \cup {Len(s) + 1} ELSE T
  <2>1. DOMAIN Append(s, f) = 1..(Len(s) + 1)
    OBVIOUS
  <2>2. \A i \in 1..Len(s) : Append(s, f)[i] = s[i]
    OBVIOUS
  <2>3. Append(s, f)[Len(s) + 1] = f
    OBVIOUS
  <2> QED
    BY <2>1, <2>2, <2>3
<1>3. Len(s) + 1 \notin T
  OBVIOUS
<1>4. Cardinality(T) \in Nat
  BY <1>1, FS_CardinalityType
<1>5. Cardinality(T \cup {Len(s) + 1}) = Cardinality(T) + 1
  BY <1>1, <1>3, FS_AddElement
<1>6. Count(s, L) = Cardinality(T) /\ Count(Append(s, f), L) = Cardinality(U)
  BY DEF Count
<1> HIDE DEF T, U
<1> QED
  BY <1>2, <1>4, <1>5, <1>6

\* The length of all elements but the last, as SubSeqProperties gives it.
LEMMA LengthBelow ==
  ASSUME NEW n \in Nat, n >= 1, NEW m, m = IF 1 <= n - 1 THEN n - 1 - 1 + 1 ELSE 0
  PROVE  m = n - 1
OBVIOUS

\* A stack is the calls below the innermost one, and that one.
LEMMA TopAndBelow ==
  ASSUME NEW s \in Seq(GoodCall), s # <<>>, Linked(s)
  PROVE  LET b == SubSeq(s, 1, Len(s) - 1)
             t == s[Len(s)]
         IN  /\ b \in Seq(GoodCall) /\ t \in GoodCall
             /\ s = Append(b, t) /\ Len(s) = Len(b) + 1
             /\ Linked(b)
             /\ b # <<>> => Link(b[Len(b)], t)
<1> DEFINE b == SubSeq(s, 1, Len(s) - 1)
           t == s[Len(s)]
<1>1. Len(s) \in Nat /\ Len(s) >= 1
  OBVIOUS
<1>2. /\ b \in Seq(GoodCall) /\ Len(b) = Len(s) - 1
      /\ \A i \in 1..Len(b) : b[i] = s[i]
  <2>1. 1 \in Int /\ Len(s) - 1 \in Int /\ \A i \in 1..(Len(s) - 1) : s[i] \in GoodCall
    BY <1>1
  <2>2. /\ b \in Seq(GoodCall)
        /\ Len(b) = IF 1 <= Len(s) - 1 THEN Len(s) - 1 - 1 + 1 ELSE 0
        /\ \A i \in 1..(Len(s) - 1 - 1 + 1) : b[i] = s[1 + i - 1]
    BY <2>1, SubSeqProperties
  <2> HIDE DEF b
  <2>3. Len(b) = Len(s) - 1
    BY <1>1, <2>2, LengthBelow
  <2>4. ASSUME NEW i \in 1..Len(b) PROVE b[i] = s[i]
    <3>1. i \in 1..(Len(s) - 1 - 1 + 1) /\ 1 + i - 1 = i
      BY <1>1, <2>3
    <3> QED
      BY <3>1, <2>2
  <2> QED
    BY <2>2, <2>3, <2>4
<1>3. t \in GoodCall
  BY <1>1
<1>4. s = Append(b, t)
  BY <1>1, <1>2, <1>3
<1>5. Linked(b)
  BY <1>1, <1>2 DEF Linked
<1>6. ASSUME b # <<>> PROVE Link(b[Len(b)], t)
  <2>1. Len(b) \in 1..(Len(s) - 1) /\ Len(b) + 1 = Len(s)
    BY <1>1, <1>2, <1>6
  <2> QED
    BY <2>1, <1>2 DEF Linked
<1> QED
  BY <1>1, <1>2, <1>3, <1>4, <1>5, <1>6

\* A call is linked to the stack below it when it is linked to its top.
LEMMA LinkedAppend ==
  ASSUME NEW s \in Seq(GoodCall), NEW f \in GoodCall, Linked(s),
         s # <<>> => Link(s[Len(s)], f)
  PROVE  Append(s, f) \in Seq(GoodCall) /\ Linked(Append(s, f))
<1>1. \A i \in 1..Len(s) : Append(s, f)[i] = s[i]
  OBVIOUS
<1>2. Append(s, f)[Len(s) + 1] = f /\ Len(Append(s, f)) = Len(s) + 1
  OBVIOUS
<1>3. ASSUME NEW i \in 1..Len(s) PROVE Link(Append(s, f)[i], Append(s, f)[i + 1])
  <2>1. CASE i = Len(s)
    BY <2>1, <1>1, <1>2
  <2>2. CASE i # Len(s)
    <3>1. i \in 1..(Len(s) - 1) /\ i + 1 \in 1..Len(s)
      BY <2>2
    <3> QED
      BY <3>1, <1>1 DEF Linked
  <2> QED
    BY <2>1, <2>2
<1> QED
  BY <1>2, <1>3 DEF Linked
-----------------------------------------------------------------------------
\* What is known of the stack while a call is active.
LEMMA TopFacts ==
  ASSUME Stacked, stack # <<>>
  PROVE  /\ below \in Seq(GoodCall) /\ top \in GoodCall
         /\ Linked(below)
         /\ below # <<>> => Link(below[Len(below)], top)
         /\ Len(below) \in Nat /\ Len(stack) = Len(below) + 1
         /\ \A L : /\ Count(below, L) \in Nat
                   /\ Count(stack, L) =
                        Count(below, L) + (IF top.at \in L THEN 1 ELSE 0)
<1>1. /\ below \in Seq(GoodCall) /\ top \in GoodCall
      /\ stack = Append(below, top) /\ Len(stack) = Len(below) + 1
      /\ Linked(below)
      /\ below # <<>> => Link(below[Len(below)], top)
  BY TopAndBelow DEF Stacked, below, top
<1>2. Len(below) \in Nat
  BY <1>1
<1>3. ASSUME NEW L
      PROVE  /\ Count(below, L) \in Nat
             /\ Count(Append(below, top), L) =
                  Count(below, L) + (IF top.at \in L THEN 1 ELSE 0)
  BY <1>1, CountType, CountAppend
<1> QED
  BY <1>1, <1>2, <1>3, Zenon

\* A call that returns leaves the stack below it; only N gives E a path.
LEMMA Returned ==
  ASSUME Stacked, stack # <<>>, NEW v, stack' = below, ret'.value = v
  PROVE  /\ Stacked'
         /\ \A L : Count(stack', L) =
                     Count(stack, L) - (IF top.at \in L THEN 1 ELSE 0)
         /\ GivenToE' = IF top.at \in InN /\ v = STATUS_SUCCESS /\ Len(stack) # 1
                        THEN 1 ELSE 0
<1>1. stack' = below /\ ret'.value = v
  OBVIOUS
<1>2. Stacked'
  BY <1>1, TopFacts DEF Stacked
<1>3. ASSUME NEW L
      PROVE  Count(below, L) = Count(stack, L) - (IF top.at \in L THEN 1 ELSE 0)
  BY TopFacts
<1>4. Len(stack) # 1 <=> below # <<>>
  <2>1. below \in Seq(GoodCall) /\ Len(stack) = Len(below) + 1
    BY TopFacts, Zenon
  <2> HIDE DEF below
  <2> QED
    BY <2>1
<1>5. ASSUME below # <<>>
      PROVE  below[Len(below)].at = "E-nt" <=> top.at \in InN
  BY <1>5, TopFacts DEF Link, InN, InF, InC, InE
<1>6. GivenToE' = IF below # <<>> /\ below[Len(below)].at = "E-nt" /\ v = STATUS_SUCCESS
                  THEN 1 ELSE 0
  BY <1>1 DEF GivenToE, top, STATUS_SUCCESS
<1> QED
  BY <1>1, <1>2, <1>3, <1>4, <1>5, <1>6, Zenon

\* A call is pushed on the stack, and its caller waits at the label n.
LEMMA Called ==
  ASSUME Stacked, stack # <<>>, NEW n \in Label, NEW f \in GoodCall, Call(n, f),
         [top EXCEPT !.at = n] \in GoodCall,
         Link([top EXCEPT !.at = n], f),
         below # <<>> => Link(below[Len(below)], [top EXCEPT !.at = n]),
         f.at # "E-nt"
  PROVE  /\ Stacked'
         /\ \A L : Count(stack', L) =
                     Count(stack, L) - (IF top.at \in L THEN 1 ELSE 0)
                       + (IF n \in L THEN 1 ELSE 0) + (IF f.at \in L THEN 1 ELSE 0)
         /\ GivenToE' = 0
<1> DEFINE t == [top EXCEPT !.at = n]
           c == Append(below, t)
<1>1. stack' = Append(c, f)
  BY DEF Call
<1>2. c \in Seq(GoodCall) /\ Linked(c) /\ c[Len(c)] = t /\ t.at = n
  <2>1. c \in Seq(GoodCall) /\ Linked(c)
    BY TopFacts, LinkedAppend
  <2>2. c[Len(c)] = t
    BY TopFacts
  <2>3. t.at = n
    BY TopFacts DEF GoodCall
  <2> QED
    BY <2>1, <2>2, <2>3
<1>3. Append(c, f) \in Seq(GoodCall) /\ Linked(Append(c, f))
  BY <1>2, LinkedAppend
<1>4. Stacked'
  BY <1>1, <1>3 DEF Stacked
<1>5. Append(c, f) # <<>> /\ Append(c, f)[Len(Append(c, f))] = f
  BY <1>2
<1>6. GivenToE' = 0
  BY <1>1, <1>5 DEF GivenToE, top
<1>7. ASSUME NEW L
      PROVE  Count(Append(c, f), L) =
               Count(stack, L) - (IF top.at \in L THEN 1 ELSE 0)
                 + (IF n \in L THEN 1 ELSE 0) + (IF f.at \in L THEN 1 ELSE 0)
  <2> HIDE DEF c
  <2>1. Count(Append(c, f), L) = Count(c, L) + (IF f.at \in L THEN 1 ELSE 0)
    BY <1>2, CountAppend
  <2>2. Count(c, L) = Count(below, L) + (IF t.at \in L THEN 1 ELSE 0)
    <3>1. below \in Seq(GoodCall)
      BY TopFacts, Zenon
    <3> QED
      BY <3>1, CountAppend, Zenon DEF c
  <2>3. /\ Count(below, L) \in Nat
        /\ Count(stack, L) = Count(below, L) + (IF top.at \in L THEN 1 ELSE 0)
    BY TopFacts
  <2> HIDE DEF t
  <2> QED
    BY <2>1, <2>2, <2>3, <1>2
<1> QED
  BY <1>1, <1>4, <1>6, <1>7, Zenon
-----------------------------------------------------------------------------
LEMMA SumsMove ==
  ASSUME NEW h \in Int, NEW g \in Int, NEW C \in Int, NEW G \in Int, NEW D \in Int, NEW H \in Int,
         NEW a \in Int, NEW b \in Int, NEW o \in Int, NEW q \in Int,
         a - o = b - q - G - h + g, b = C + G + q, D = C - h, H = g
  PROVE  a = D + H + o
  OBVIOUS

\* A return keeps the invariant when it gives back what its call held.
LEMMA ReturnKeeps ==
  ASSUME IInv, stack # <<>>, NEW v, stack' = below, ret'.value = v,
         lock' = lock - (IF top.at \in LockLabels THEN 1 ELSE 0),
         heap' \in Int, owned' \in Nat,
         heap' - owned' =
           heap - owned - GivenToE - (IF top.at \in HeapLabels THEN 1 ELSE 0)
             + (IF top.at \in InN /\ v = STATUS_SUCCESS /\ Len(stack) # 1
                THEN 1 ELSE 0)
  PROVE  IInv'
<1>1. Stacked /\ lock \in Int /\ heap \in Int /\ owned \in Nat
  BY DEF IInv
<1>2. /\ lock = Count(stack, LockLabels)
      /\ heap = Count(stack, HeapLabels) + GivenToE + owned
  BY DEF IInv, LockCounted, HeapCounted
<1>3. /\ Count(stack, LockLabels) \in Nat
      /\ Count(stack, HeapLabels) \in Nat
      /\ GivenToE \in Nat
  BY <1>1, CountType DEF Stacked, GivenToE
<1>4. /\ Stacked'
      /\ Count(stack', LockLabels) =
           Count(stack, LockLabels) - (IF top.at \in LockLabels THEN 1 ELSE 0)
      /\ Count(stack', HeapLabels) =
           Count(stack, HeapLabels) - (IF top.at \in HeapLabels THEN 1 ELSE 0)
      /\ GivenToE' = IF top.at \in InN /\ v = STATUS_SUCCESS /\ Len(stack) # 1
                     THEN 1 ELSE 0
  BY <1>1, Returned, Zenon
<1>5. lock' = Count(stack', LockLabels)
  BY <1>2, <1>4
<1>6. heap' = Count(stack', HeapLabels) + GivenToE' + owned'
  <2> DEFINE h == IF top.at \in HeapLabels THEN 1 ELSE 0
             g == IF top.at \in InN /\ v = STATUS_SUCCESS /\ Len(stack) # 1 THEN 1 ELSE 0
             C == Count(stack, HeapLabels)
             D == Count(stack', HeapLabels)
             G == GivenToE
             H == GivenToE'
  <2>1. /\ h \in Int /\ g \in Int /\ C \in Int /\ G \in Int /\ D \in Int /\ H \in Int
        /\ owned \in Int /\ owned' \in Int /\ D = C - h /\ H = g
    BY <1>1, <1>3, <1>4
  <2>2. heap' - owned' = heap - owned - G - h + g /\ heap = C + G + owned
    BY <1>2
  <2> HIDE DEF h, g, C, D, G, H
  <2>3. heap \in Int /\ heap' \in Int
    BY <1>1
  <2>4. heap' = D + H + owned'
    <3> DEFINE a == heap'
               o == owned'
    <3>1. /\ a \in Int /\ o \in Int
          /\ a - o = heap - owned - G - h + g
      BY <2>1, <2>2, <2>3
    <3> HIDE DEF a, o
    <3>2. a = D + H + o
      BY <2>1, <2>2, <2>3, <3>1, SumsMove
    <3> QED
      BY <3>2 DEF a, o
  <2> QED
    BY <2>4 DEF D, H
<1>7. lock' \in Int
  BY <1>1
<1> QED
  BY <1>4, <1>5, <1>6, <1>7, Zenon DEF IInv, LockCounted, HeapCounted

\* A call keeps it when its caller and itself hold what their labels say.
LEMMA CallKeeps ==
  ASSUME IInv, stack # <<>>, NEW n \in Label, NEW f \in GoodCall, Call(n, f),
         [top EXCEPT !.at = n] \in GoodCall,
         Link([top EXCEPT !.at = n], f),
         below # <<>> => Link(below[Len(below)], [top EXCEPT !.at = n]),
         f.at \in Entry, top.at \in Entry,
         lock' = lock + (IF n \in LockLabels THEN 1 ELSE 0),
         heap' = heap + (IF n \in HeapLabels THEN 1 ELSE 0)
  PROVE  IInv'
<1>1. Stacked /\ lock \in Int /\ heap \in Int /\ owned \in Nat
  BY DEF IInv
<1>2. /\ lock = Count(stack, LockLabels)
      /\ heap = Count(stack, HeapLabels) + GivenToE + owned
  BY DEF IInv, LockCounted, HeapCounted
<1>3. /\ Count(stack, LockLabels) \in Nat
      /\ Count(stack, HeapLabels) \in Nat
  BY <1>1, CountType DEF Stacked
<1>4. /\ f.at \notin LockLabels /\ f.at \notin HeapLabels /\ f.at # "E-nt"
      /\ top.at \notin LockLabels /\ top.at \notin HeapLabels
      /\ GivenToE = 0
  BY DEF Entry, LockLabels, HeapLabels, GivenToE
<1>5. /\ Stacked'
      /\ \A L : Count(stack', L) =
                  Count(stack, L) - (IF top.at \in L THEN 1 ELSE 0)
                    + (IF n \in L THEN 1 ELSE 0) + (IF f.at \in L THEN 1 ELSE 0)
      /\ GivenToE' = 0
  BY <1>1, <1>4, Called, Zenon
<1>6. /\ Count(stack', LockLabels) =
           Count(stack, LockLabels) + (IF n \in LockLabels THEN 1 ELSE 0)
      /\ Count(stack', HeapLabels) =
           Count(stack, HeapLabels) + (IF n \in HeapLabels THEN 1 ELSE 0)
  BY <1>3, <1>4, <1>5
<1>7. owned' = owned
  BY DEF Call
<1>8. lock' = Count(stack', LockLabels) /\ lock' \in Int
  BY <1>1, <1>2, <1>6
<1>9. heap' = Count(stack', HeapLabels) + GivenToE' + owned' /\ heap' \in Int
  BY <1>1, <1>2, <1>3, <1>4, <1>5, <1>6, <1>7
<1> QED
  BY <1>1, <1>5, <1>7, <1>8, <1>9, Zenon DEF IInv, LockCounted, HeapCounted
-----------------------------------------------------------------------------
\* The name a device is checked with is one of the names.
LEMMA CheckedNameKnown ==
  ASSUME NEW s \in DosDevice
  PROVE  Checks[s] \in Name
BY NameAssumption DEF Checks, DosDevice

\* No caller of N has it return with the lock.
LEMMA CallerAgrees ==
  ASSUME Stacked, CallersAgree, stack # <<>>, top.at = "N-full"
  PROVE  ~ReturnsLocked
<1>1. top \in GoodCall
  BY TopFacts, Zenon
<1> QED
  BY <1>1 DEF GoodCall, InN, ReturnsLocked

\* The step of F that takes the lock keeps it.
LEMMA LockKeeps ==
  ASSUME IInv, FullPathLock
  PROVE  IInv'
<1>0. /\ lock \in Int /\ heap \in Int /\ owned \in Nat /\ Stacked
      /\ LockCounted /\ HeapCounted
  BY DEF IInv
<1>1. stack # <<>> /\ top.at = "F" /\ lock' = lock + 1 /\ heap' = heap /\ owned' = owned
  BY DEF FullPathLock, Entered, At
<1> DEFINE t == [top EXCEPT !.at = "F-locked"]
<1>2. stack' = Append(below, t)
  BY DEF FullPathLock
<1>3. /\ below \in Seq(GoodCall) /\ Linked(below) /\ top \in GoodCall
      /\ below # <<>> => Link(below[Len(below)], top)
  BY <1>0, <1>1, TopFacts, Zenon
<1>4. t \in GoodCall /\ t.at = "F-locked" /\ t.name = top.name
  BY <1>1, <1>3 DEF GoodCall, Label, InC, InN
<1>5. below # <<>> => Link(below[Len(below)], t)
  BY <1>1, <1>3, <1>4 DEF Link, InF, InC, InE, InN
<1> HIDE DEF t
<1>6. Append(below, t) \in Seq(GoodCall) /\ Linked(Append(below, t))
  BY <1>3, <1>4, <1>5, LinkedAppend, Zenon
<1>7. Append(below, t)[Len(Append(below, t))] = t
  BY <1>3
<1>8. Stacked' /\ GivenToE = 0 /\ GivenToE' = 0
  BY <1>1, <1>2, <1>4, <1>6, <1>7 DEF Stacked, GivenToE, top
<1>9. /\ Count(Append(below, t), LockLabels) = Count(stack, LockLabels) + 1
      /\ Count(Append(below, t), HeapLabels) = Count(stack, HeapLabels)
  <2>1. ASSUME NEW L
        PROVE  Count(Append(below, t), L) = Count(below, L) + (IF t.at \in L THEN 1 ELSE 0)
    BY <1>3, CountAppend, Zenon
  <2>2. ASSUME NEW L
        PROVE  /\ Count(below, L) \in Nat
               /\ Count(stack, L) = Count(below, L) + (IF top.at \in L THEN 1 ELSE 0)
    BY <1>0, <1>1, TopFacts, Zenon
  <2> QED
    BY <1>1, <1>4, <2>1, <2>2 DEF LockLabels, HeapLabels
<1> QED
  BY <1>0, <1>1, <1>2, <1>8, <1>9 DEF IInv, LockCounted, HeapCounted

\* So does a step that leaves the stack and the counts alone.
LEMMA UnchangedKeeps ==
  ASSUME IInv, UNCHANGED <<stack, ret, lock, heap, owned>>
  PROVE  IInv'
BY DEF IInv, Stacked, LockCounted, HeapCounted, GivenToE, top

\* Every step of a call keeps the invariant.
LEMMA StepKeeps ==
  ASSUME IInv, CallersAgree, Step
  PROVE  IInv'
<1> USE DEF STATUS_SUCCESS, STATUS_NO_MEMORY, STATUS_OBJECT_NAME_INVALID
<1>0. /\ lock \in Int /\ heap \in Int /\ owned \in Nat /\ Stacked
  BY DEF IInv
<1>1. CASE QuickPathBuilt
  <2>1. stack # <<>> /\ top.at = "N"
    BY <1>1 DEF QuickPathBuilt, Entered, At
  <2>2. GivenToE = 0
    BY <2>1 DEF GivenToE
  <2>3. /\ stack' = below /\ ret'.value = STATUS_SUCCESS
        /\ lock' = lock /\ heap' = heap + 1
        /\ owned' = IF Len(stack) = 1 THEN owned + 1 ELSE owned
    BY <1>1 DEF QuickPathBuilt, ReturnPath, Return
  <2> QED
    BY <1>0, <2>1, <2>2, <2>3, ReturnKeeps DEF LockLabels, HeapLabels, InN
<1>2. CASE QuickPathNoMemory
  <2>1. stack # <<>> /\ top.at = "N"
    BY <1>2 DEF QuickPathNoMemory, Entered, At
  <2>2. GivenToE = 0
    BY <2>1 DEF GivenToE
  <2>3. /\ stack' = below /\ ret'.value = STATUS_NO_MEMORY
        /\ lock' = lock /\ heap' = heap
        /\ owned' = owned
    BY <1>2 DEF QuickPathNoMemory, Return
  <2> QED
    BY <1>0, <2>1, <2>2, <2>3, ReturnKeeps DEF LockLabels, HeapLabels, InN
<1>3. CASE NtPathNoMemory
  <2>1. stack # <<>> /\ top.at = "N"
    BY <1>3 DEF NtPathNoMemory, Entered, At
  <2>2. GivenToE = 0
    BY <2>1 DEF GivenToE
  <2>3. /\ stack' = below /\ ret'.value = STATUS_NO_MEMORY
        /\ lock' = lock /\ heap' = heap
        /\ owned' = owned
    BY <1>3 DEF NtPathNoMemory, Return
  <2> QED
    BY <1>0, <2>1, <2>2, <2>3, ReturnKeeps DEF LockLabels, HeapLabels, InN
<1>4. CASE NtPathRejected
  <2>1. stack # <<>> /\ top.at = "N-full"
    BY <1>4 DEF NtPathRejected, At
  <2>2. GivenToE = 0
    BY <2>1 DEF GivenToE
  <2>3. /\ stack' = below /\ ret'.value = STATUS_OBJECT_NAME_INVALID
        /\ lock' = lock - 1 /\ heap' = heap - 1
        /\ owned' = owned
    BY <1>4 DEF NtPathRejected, Return
  <2> QED
    BY <1>0, <2>1, <2>2, <2>3, ReturnKeeps DEF LockLabels, HeapLabels, InN
<1>5. CASE NtPathBuilt
  <2>1. stack # <<>> /\ top.at = "N-full"
    BY <1>5 DEF NtPathBuilt, At
  <2>2. GivenToE = 0
    BY <2>1 DEF GivenToE
  <2>3. /\ stack' = below /\ ret'.value = STATUS_SUCCESS
        /\ lock' = lock - 1 /\ heap' = heap
        /\ owned' = IF Len(stack) = 1 THEN owned + 1 ELSE owned
    BY <1>5, <2>1, CallerAgrees, <1>0 DEF NtPathBuilt, ReturnPath, Return
  <2> QED
    BY <1>0, <2>1, <2>2, <2>3, ReturnKeeps DEF LockLabels, HeapLabels, InN
<1>6. CASE FullPathOfNothing
  <2>1. stack # <<>> /\ top.at = "F"
    BY <1>6 DEF FullPathOfNothing, Entered, At
  <2>2. GivenToE = 0
    BY <2>1 DEF GivenToE
  <2>3. /\ stack' = below /\ ret'.value = 0
        /\ lock' = lock /\ heap' = heap
        /\ owned' = owned
    BY <1>6 DEF FullPathOfNothing, Return
  <2> QED
    BY <1>0, <2>1, <2>2, <2>3, ReturnKeeps DEF LockLabels, HeapLabels, InN
<1>7. CASE FullPathOfDevice
  <2>1. stack # <<>> /\ top.at = "F"
    BY <1>7 DEF FullPathOfDevice, Entered, At
  <2>2. GivenToE = 0
    BY <2>1 DEF GivenToE
  <2>3. /\ stack' = below /\ ret'.value = Answer[called]
        /\ lock' = lock /\ heap' = heap
        /\ owned' = owned
    BY <1>7 DEF FullPathOfDevice, Return
  <2> QED
    BY <1>0, <2>1, <2>2, <2>3, ReturnKeeps DEF LockLabels, HeapLabels, InN
<1>8. CASE FullPathChecked
  <2>1. stack # <<>> /\ top.at = "F-checked"
    BY <1>8 DEF FullPathChecked, At
  <2>2. GivenToE = 0
    BY <2>1 DEF GivenToE
  <2>3. /\ stack' = below
        /\ ret'.value = IF ~NT_SUCCESS(ret.value) \/ ret.invalid THEN 0
                        ELSE Answer[called]
        /\ lock' = lock /\ heap' = heap
        /\ owned' = owned
    BY <1>8 DEF FullPathChecked, Return
  <2> QED
    BY <1>0, <2>1, <2>2, <2>3, ReturnKeeps DEF LockLabels, HeapLabels, InN
<1>9. CASE FullPathNoMemory
  <2>1. stack # <<>> /\ top.at = "F-locked"
    BY <1>9 DEF FullPathNoMemory, At
  <2>2. GivenToE = 0
    BY <2>1 DEF GivenToE
  <2>3. /\ stack' = below /\ ret'.value = 0
        /\ lock' = lock - 1 /\ heap' = heap
        /\ owned' = owned
    BY <1>9 DEF FullPathNoMemory, Return
  <2> QED
    BY <1>0, <2>1, <2>2, <2>3, ReturnKeeps DEF LockLabels, HeapLabels, InN
<1>10. CASE FullPathReturned
  <2>1. stack # <<>> /\ top.at = "F-locked"
    BY <1>10 DEF FullPathReturned, At
  <2>2. GivenToE = 0
    BY <2>1 DEF GivenToE
  <2>3. /\ stack' = below /\ ret'.value = Answer[called]
        /\ lock' = lock - 1 /\ heap' = heap
        /\ owned' = owned
    BY <1>10 DEF FullPathReturned, Return
  <2> QED
    BY <1>0, <2>1, <2>2, <2>3, ReturnKeeps DEF LockLabels, HeapLabels, InN
<1>11. CASE CheckNoMemory
  <2>1. stack # <<>> /\ top.at = "C"
    BY <1>11 DEF CheckNoMemory, Entered, At
  <2>2. GivenToE = 0
    BY <2>1 DEF GivenToE
  <2>3. /\ stack' = below /\ ret'.value = STATUS_NO_MEMORY
        /\ lock' = lock /\ heap' = heap
        /\ owned' = owned
    BY <1>11 DEF CheckNoMemory, Return
  <2> QED
    BY <1>0, <2>1, <2>2, <2>3, ReturnKeeps DEF LockLabels, HeapLabels, InN
<1>12. CASE Checked
  <2>1. stack # <<>> /\ top.at = "C-exists"
    BY <1>12 DEF Checked, At
  <2>2. GivenToE = 0
    BY <2>1 DEF GivenToE
  <2>3. /\ stack' = below /\ ret'.value = 1
        /\ lock' = lock /\ heap' = heap - 1
        /\ owned' = owned
    BY <1>12 DEF Checked, Return
  <2> QED
    BY <1>0, <2>1, <2>2, <2>3, ReturnKeeps DEF LockLabels, HeapLabels, InN
<1>13. CASE ExistsAnswered
  <2>1. stack # <<>> /\ top.at = "E-nt"
    BY <1>13 DEF ExistsAnswered, At
  <2>2. GivenToE = 1
    BY <1>13, <2>1 DEF ExistsAnswered, GivenToE
  <2>3. /\ stack' = below /\ ret'.value = IF FileExists THEN 1 ELSE 0
        /\ lock' = lock /\ heap' = heap - 1
        /\ owned' = owned
    BY <1>13 DEF ExistsAnswered, Return
  <2> QED
    BY <1>0, <2>1, <2>2, <2>3, ReturnKeeps DEF LockLabels, HeapLabels, InN
<1>14. CASE NtPathFull
  <2>1. stack # <<>> /\ top.at = "N"
    BY <1>14 DEF NtPathFull, Entered, At
  <2>2. top \in GoodCall /\ (below # <<>> => Link(below[Len(below)], top))
    BY <1>0, <2>1, TopFacts, Zenon
  <2> DEFINE t == [top EXCEPT !.at = "N-full"]
             f == Frame("F", called, {"InvalidName"})
  <2>3. t \in GoodCall /\ t.at = "N-full" /\ t.name = top.name
    BY <1>14, <2>1, <2>2 DEF NtPathFull, GoodCall, Label, Entry, InC, InN, called
  <2>4. f \in GoodCall /\ f.at \in Entry
    BY <1>14, <2>1, <2>2 DEF NtPathFull, Frame, GoodCall, Label, Entry, Flags, NtFlags, InC, InN, called
  <2>5. Link(t, f)
    BY <2>3 DEF Link, Frame, InF, InC, InE, InN, called
  <2>6. below # <<>> => Link(below[Len(below)], t)
    BY <2>1, <2>2, <2>3 DEF Link, InF, InC, InE, InN
  <2>7. /\ Call("N-full", f)
        /\ lock' = lock + 1 /\ heap' = heap + 1
    BY <1>14 DEF NtPathFull
  <2> HIDE DEF f
  <2> QED
    BY <1>0, <2>1, <2>3, <2>4, <2>5, <2>6, <2>7, CallKeeps DEF LockLabels, HeapLabels, Label, Entry
<1>15. CASE FullPathCheck
  <2>1. stack # <<>> /\ top.at = "F"
    BY <1>15 DEF FullPathCheck, Entered, At
  <2>2. top \in GoodCall /\ (below # <<>> => Link(below[Len(below)], top))
    BY <1>0, <2>1, TopFacts, Zenon
  <2> DEFINE t == [top EXCEPT !.at = "F-checked"]
             f == Frame("C", called, {})
  <2>3. t \in GoodCall /\ t.at = "F-checked" /\ t.name = top.name
    BY <1>15, <2>1, <2>2 DEF FullPathCheck, GoodCall, Label, Entry, InC, InN, called
  <2>4. f \in GoodCall /\ f.at \in Entry
    BY <1>15, <2>1, <2>2 DEF FullPathCheck, Frame, GoodCall, Label, Entry, Flags, NtFlags, InC, InN, called
  <2>5. Link(t, f)
    BY <2>3 DEF Link, Frame, InF, InC, InE, InN, called
  <2>6. below # <<>> => Link(below[Len(below)], t)
    BY <2>1, <2>2, <2>3 DEF Link, InF, InC, InE, InN
  <2>7. /\ Call("F-checked", f)
        /\ lock' = lock /\ heap' = heap
    BY <1>15 DEF FullPathCheck
  <2> HIDE DEF f
  <2> QED
    BY <1>0, <2>1, <2>3, <2>4, <2>5, <2>6, <2>7, CallKeeps DEF LockLabels, HeapLabels, Label, Entry
<1>16. CASE CheckExists
  <2>1. stack # <<>> /\ top.at = "C"
    BY <1>16 DEF CheckExists, Entered, At
  <2>2. top \in GoodCall /\ (below # <<>> => Link(below[Len(below)], top))
    BY <1>0, <2>1, TopFacts, Zenon
  <2> DEFINE t == [top EXCEPT !.at = "C-exists"]
             f == Frame("E", Checks[called], {})
  <2>3. t \in GoodCall /\ t.at = "C-exists" /\ t.name = top.name
    BY <1>16, <2>1, <2>2 DEF CheckExists, GoodCall, Label, Entry, InC, InN, called
  <2>4. f \in GoodCall /\ f.at \in Entry
    BY <1>16, <2>1, <2>2, CheckedNameKnown DEF CheckExists, Frame, GoodCall, Label, Entry, Flags, NtFlags, InC, InN, called
  <2>5. Link(t, f)
    BY <2>3 DEF Link, Frame, InF, InC, InE, InN, called
  <2>6. below # <<>> => Link(below[Len(below)], t)
    BY <2>1, <2>2, <2>3 DEF Link, InF, InC, InE, InN
  <2>7. /\ Call("C-exists", f)
        /\ lock' = lock /\ heap' = heap + 1
    BY <1>16 DEF CheckExists
  <2> HIDE DEF f
  <2> QED
    BY <1>0, <2>1, <2>3, <2>4, <2>5, <2>6, <2>7, CallKeeps DEF LockLabels, HeapLabels, Label, Entry
<1>17. CASE ExistsNtPath
  <2>1. stack # <<>> /\ top.at = "E"
    BY <1>17 DEF ExistsNtPath, Entered, At
  <2>2. top \in GoodCall /\ (below # <<>> => Link(below[Len(below)], top))
    BY <1>0, <2>1, TopFacts, Zenon
  <2> DEFINE t == [top EXCEPT !.at = "E-nt"]
             f == Frame("N", called, NtFlags)
  <2>3. t \in GoodCall /\ t.at = "E-nt" /\ t.name = top.name
    BY <1>17, <2>1, <2>2 DEF ExistsNtPath, GoodCall, Label, Entry, InC, InN, called
  <2>4. f \in GoodCall /\ f.at \in Entry
    BY <1>17, <2>1, <2>2 DEF ExistsNtPath, Frame, GoodCall, Label, Entry, Flags, NtFlags, InC, InN, called
  <2>5. Link(t, f)
    BY <2>3 DEF Link, Frame, InF, InC, InE, InN, called
  <2>6. below # <<>> => Link(below[Len(below)], t)
    BY <2>1, <2>2, <2>3 DEF Link, InF, InC, InE, InN
  <2>7. /\ Call("E-nt", f)
        /\ lock' = lock /\ heap' = heap
    BY <1>17 DEF ExistsNtPath
  <2> HIDE DEF f
  <2> QED
    BY <1>0, <2>1, <2>3, <2>4, <2>5, <2>6, <2>7, CallKeeps DEF LockLabels, HeapLabels, Label, Entry
<1>18. CASE FullPathLock
  BY <1>18, LockKeeps
<1>19. CASE NtPathUnexpected
  BY <1>19, UnchangedKeeps, Zenon DEF NtPathUnexpected, End
<1>20. CASE FullPathAssertion
  BY <1>20, UnchangedKeeps, Zenon DEF FullPathAssertion, End
<1>21. CASE ExistsUnbuilt
  <2>1. CASE NT_SUCCESS(ret.value)
    BY <1>21, <2>1, UnchangedKeeps, Zenon DEF ExistsUnbuilt, End
  <2>2. CASE ~NT_SUCCESS(ret.value)
    <3>1. stack # <<>> /\ top.at = "E-nt" /\ ret.value # STATUS_SUCCESS
      BY <1>21 DEF ExistsUnbuilt, At
    <3>2. GivenToE = 0
      BY <3>1 DEF GivenToE
    <3>3. stack' = below /\ ret'.value = 0 /\ lock' = lock /\ heap' = heap /\ owned' = owned
      BY <1>21, <2>2 DEF ExistsUnbuilt, Return
    <3> QED
      BY <1>0, <3>1, <3>2, <3>3, ReturnKeeps DEF LockLabels, HeapLabels, InN
  <2> QED
    BY <2>1, <2>2
<1>22. CASE StackExhausted
  BY <1>22, UnchangedKeeps, Zenon DEF StackExhausted, End
<1> QED
  BY <1>1, <1>2, <1>3, <1>4, <1>5, <1>6, <1>7, <1>8, <1>9, <1>10, <1>11, <1>12,
     <1>13, <1>14, <1>15, <1>16, <1>17, <1>18, <1>19, <1>20, <1>21, <1>22
     DEF Step, NtPath, FullPathSteps, Check, Exists

\* So does every step of the caller.
LEMMA CallerKeeps ==
  ASSUME IInv, CallersAgree, Caller
  PROVE  IInv'
<1>0. /\ lock \in Int /\ heap \in Int /\ owned \in Nat /\ Stacked
      /\ LockCounted /\ HeapCounted
  BY DEF IInv
<1>1. ASSUME NEW f \in GoodCall, f.at \in Entry, Start(f) PROVE IInv'
  <2>1. /\ stack = <<>> /\ stack' = Append(<<>>, f)
        /\ ret' = ret /\ lock' = lock /\ heap' = heap /\ owned' = owned
    BY <1>1 DEF Start, Idle
  <2>2. <<>> \in Seq(GoodCall) /\ Linked(<<>>)
    BY DEF Linked
  <2>3. Append(<<>>, f) \in Seq(GoodCall) /\ Linked(Append(<<>>, f))
    BY <2>2, LinkedAppend
  <2>4. f.at \notin LockLabels /\ f.at \notin HeapLabels /\ f.at # "E-nt"
    BY <1>1 DEF Entry, LockLabels, HeapLabels
  <2>5. /\ Count(Append(<<>>, f), LockLabels) = Count(<<>>, LockLabels)
        /\ Count(Append(<<>>, f), HeapLabels) = Count(<<>>, HeapLabels)
    <3>1. ASSUME NEW L, f.at \notin L PROVE Count(Append(<<>>, f), L) = Count(<<>>, L)
      <4>1. Count(<<>>, L) \in Nat
        BY <2>2, CountType
      <4>2. Count(Append(<<>>, f), L) =
              Count(<<>>, L) + (IF f.at \in L THEN 1 ELSE 0)
        BY <2>2, CountAppend
      <4> QED
        BY <3>1, <4>1, <4>2
    <3> QED
      BY <2>4, <3>1
  <2>6. GivenToE = 0 /\ GivenToE' = 0
    <3>1. Append(<<>>, f)[Len(Append(<<>>, f))] = f
      OBVIOUS
    <3> QED
      BY <2>1, <2>4, <3>1 DEF GivenToE, top
  <2>7. Stacked'
    BY <2>1, <2>3 DEF Stacked
  <2>8. lock' = Count(stack', LockLabels)
    BY <1>0, <2>1, <2>5 DEF LockCounted
  <2>9. heap' = Count(stack', HeapLabels) + GivenToE' + owned'
    BY <1>0, <2>1, <2>5, <2>6 DEF HeapCounted
  <2> QED
    BY <1>0, <2>1, <2>7, <2>8, <2>9 DEF IInv, LockCounted, HeapCounted
<1>2. CASE AskNtPath
  <2>1. PICK s \in Name, f \in CallFlags : Start(Frame("N", s, f))
    BY <1>2 DEF AskNtPath
  <2>2. Frame("N", s, f) \in GoodCall /\ Frame("N", s, f).at \in Entry
    BY CallFlagsAssumption DEF CallersAgree, Frame, GoodCall, Label, Entry, Flags,
       NtFlags, InC, InN
  <2> QED
    BY <1>1, <2>1, <2>2
<1>3. CASE AskFullPath
  <2>1. PICK s \in Name : Start(Frame("F", s, {}))
    BY <1>3 DEF AskFullPath
  <2>2. Frame("F", s, {}) \in GoodCall /\ Frame("F", s, {}).at \in Entry
    BY DEF Frame, GoodCall, Label, Entry, InC, InN
  <2> QED
    BY <1>1, <2>1, <2>2
<1>4. CASE AskExists
  <2>1. PICK s \in Name : Start(Frame("E", s, {}))
    BY <1>4 DEF AskExists
  <2>2. Frame("E", s, {}) \in GoodCall /\ Frame("E", s, {}).at \in Entry
    BY DEF Frame, GoodCall, Label, Entry, InC, InN
  <2> QED
    BY <1>1, <2>1, <2>2
<1>5. CASE FreePath
  <2>1. /\ stack' = stack /\ ret' = ret /\ lock' = lock
        /\ heap' = heap - 1 /\ owned' = owned - 1 /\ owned' \in Nat
    BY <1>0, <1>5 DEF FreePath
  <2>2. Stacked' /\ GivenToE' = GivenToE /\ LockCounted'
    BY <1>0, <2>1 DEF Stacked, GivenToE, LockCounted, top
  <2>3. Count(stack, HeapLabels) \in Nat /\ GivenToE \in Nat
    BY <1>0, CountType DEF Stacked, GivenToE
  <2>4. heap' = Count(stack', HeapLabels) + GivenToE' + owned'
    BY <1>0, <2>1, <2>2, <2>3 DEF HeapCounted
  <2> QED
    BY <1>0, <2>1, <2>2, <2>4 DEF IInv, HeapCounted
<1> QED
  BY <1>2, <1>3, <1>4, <1>5 DEF Caller
-----------------------------------------------------------------------------
\* The invariant holds of every behaviour whose callers agree.
LEMMA Invariance ==
  ASSUME CallersAgree
  PROVE  Spec => []IInv
<1>1. Init => IInv
  <2> SUFFICES ASSUME Init PROVE IInv
    OBVIOUS
  <2>1. /\ stack = <<>> /\ lock = 0 /\ heap = 0 /\ owned = 0
    BY DEF Init
  <2>2. Stacked /\ GivenToE = 0
    BY <2>1 DEF Stacked, Linked, GivenToE
  <2>3. Count(<<>>, LockLabels) = 0 /\ Count(<<>>, HeapLabels) = 0
    BY FS_EmptySet DEF Count
  <2> QED
    BY <2>1, <2>2, <2>3 DEF IInv, LockCounted, HeapCounted
<1>2. IInv /\ [Next]_vars => IInv'
  <2> SUFFICES ASSUME IInv, [Next]_vars PROVE IInv'
    OBVIOUS
  <2>1. CASE Step
    BY <2>1, StepKeeps
  <2>2. CASE Caller
    BY <2>2, CallerKeeps
  <2>3. CASE UNCHANGED vars
    BY <2>3, UnchangedKeeps, Zenon DEF vars
  <2> QED
    BY <2>1, <2>2, <2>3 DEF Next, Ended
<1> QED
  BY <1>1, <1>2, PTL DEF Spec

(***************************************************************************)
(* Whatever fails inside, a call that returns has given back the PEB lock. *)
(***************************************************************************)
THEOREM LockIsCounted ==
  ASSUME CallersAgree
  PROVE  Spec => []LockCounted
<1>1. IInv => LockCounted
  BY DEF IInv
<1> QED
  BY <1>1, Invariance, PTL

(***************************************************************************)
(* And every block it has allocated, but the path its caller asked for.    *)
(***************************************************************************)
THEOREM HeapIsCounted ==
  ASSUME CallersAgree
  PROVE  Spec => []HeapCounted
<1>1. IInv => HeapCounted
  BY DEF IInv
<1> QED
  BY <1>1, Invariance, PTL

\* A device whose check comes to a check again is one with a device in its check.
LEMMA CircleRuns ==
  ASSUME NEW c \in GoodCall, NEW e \in GoodCall, NEW n \in GoodCall,
         NEW f \in GoodCall, NEW d \in GoodCall,
         c.at \in InC, Link(c, e), Link(e, n), Link(n, f), Link(f, d)
  PROVE  c.name \in Runaway
<1>1. c.name \in DosDevice
  BY DEF GoodCall
<1>2. e.name = Checks[c.name] /\ e.at \in InE
  BY DEF Link, InN, InF, InC, InE
<1>3. n.name = e.name /\ n.at \in InN
  BY <1>2 DEF Link, InN, InF, InC, InE
<1>4. f.name = n.name /\ f.at \in InF
  BY <1>3 DEF Link, InN, InF, InC, InE
<1>5. d.name = f.name /\ d.at \in InC
  BY <1>4 DEF Link, InN, InF, InC, InE
<1>6. Checks[c.name] = CheckedName(c.name)
  BY <1>1 DEF Checks
<1>7. d.name \in DosDevice
  BY <1>5 DEF GoodCall
<1> QED
  BY <1>1, <1>2, <1>3, <1>4, <1>5, <1>6, <1>7 DEF Runaway

\* The first check in a stack of eight calls is one of its first four.
LEMMA DeepRunsAway ==
  ASSUME Stacked, stack # <<>>, ~(Len(stack) <= 7)
  PROVE  stack[1].name \in Runaway
<1>1. Len(stack) \in Nat /\ Len(stack) >= 8
  BY DEF Stacked
<1>2. \A i \in 1..8 : stack[i] \in GoodCall
  BY <1>1 DEF Stacked
<1>3. \A i \in 1..7 : Link(stack[i], stack[i + 1])
  BY <1>1 DEF Stacked, Linked
<1>4. /\ stack[1] \in GoodCall /\ stack[2] \in GoodCall /\ stack[3] \in GoodCall
      /\ stack[4] \in GoodCall /\ stack[5] \in GoodCall /\ stack[6] \in GoodCall
      /\ stack[7] \in GoodCall /\ stack[8] \in GoodCall
  BY <1>2
<1>5. /\ Link(stack[1], stack[2]) /\ Link(stack[2], stack[3])
      /\ Link(stack[3], stack[4]) /\ Link(stack[4], stack[5])
      /\ Link(stack[5], stack[6]) /\ Link(stack[6], stack[7])
      /\ Link(stack[7], stack[8])
  BY <1>3
<1>6. CASE stack[1].at = "C-exists"
  BY <1>4, <1>5, <1>6, CircleRuns DEF InC
<1>7. CASE stack[1].at = "F-checked"
  <2>1. stack[2].at \in InC /\ stack[2].name = stack[1].name
    BY <1>5, <1>7 DEF Link
  <2> QED
    BY <1>4, <1>5, <2>1, CircleRuns
<1>8. CASE stack[1].at = "N-full"
  <2>1. stack[2].at \in InF /\ stack[2].name = stack[1].name
    BY <1>5, <1>8 DEF Link
  <2>2. stack[3].at \in InC /\ stack[3].name = stack[2].name
    BY <1>5, <2>1 DEF Link, InF
  <2> QED
    BY <1>4, <1>5, <2>1, <2>2, CircleRuns
<1>9. CASE stack[1].at = "E-nt"
  <2>1. stack[2].at \in InN /\ stack[2].name = stack[1].name
    BY <1>5, <1>9 DEF Link
  <2>2. stack[3].at \in InF /\ stack[3].name = stack[2].name
    BY <1>5, <2>1 DEF Link, InN
  <2>3. stack[4].at \in InC /\ stack[4].name = stack[3].name
    BY <1>5, <2>2 DEF Link, InF
  <2> QED
    BY <1>4, <1>5, <2>1, <2>2, <2>3, CircleRuns
<1> QED
  BY <1>5, <1>6, <1>7, <1>8, <1>9 DEF Link

(***************************************************************************)
(* The functions call each other seven deep at most, unless the first name *)
(* is a device that the check of it finds to be a device again.            *)
(***************************************************************************)
THEOREM RecursionAlwaysEnds ==
  ASSUME CallersAgree
  PROVE  Spec => []RecursionEnds
<1>1. IInv => RecursionEnds
  BY DeepRunsAway DEF IInv, RecursionEnds
<1> QED
  BY <1>1, Invariance, PTL
-----------------------------------------------------------------------------
\* What the caller sees of a step: the process ends, the calls below go on, or
\* the outermost call returns, with a block exactly when N says that it succeeds.
SeenEnd ==
  /\ process = "running" /\ process' # "running" /\ stack # <<>>
  /\ UNCHANGED <<stack, ret, lock, heap, owned>>

SeenInside ==
  /\ stack # <<>> /\ stack' # <<>>
  /\ stack'[1].at \in InN <=> stack[1].at \in InN
  /\ owned' = owned /\ process' = process

SeenReturn ==
  /\ process = "running" /\ process' = process
  /\ stack # <<>> /\ stack' = <<>>
  /\ owned' = IF stack[1].at \in InN /\ ret'.value = STATUS_SUCCESS
              THEN owned + 1 ELSE owned

LEMMA NoneBelowOne == \A n \in Nat : 1 = n + 1 => n = 0
  OBVIOUS

\* A return is seen when no call is below.
LEMMA ReturnSeen ==
  ASSUME Stacked, stack # <<>>, stack' = below,
         process = "running", process' = process,
         owned' = IF top.at \in InN /\ ret'.value = STATUS_SUCCESS /\ Len(stack) = 1
                  THEN owned + 1 ELSE owned
  PROVE  SeenInside \/ SeenReturn
<1>1. /\ Len(stack) \in Nat /\ Len(stack) >= 1
      /\ below \in Seq(GoodCall) /\ Len(below) \in Nat /\ Len(stack) = Len(below) + 1
  <2>1. stack \in Seq(GoodCall)
    BY DEF Stacked
  <2>2. below \in Seq(GoodCall) /\ Len(below) \in Nat /\ Len(stack) = Len(below) + 1
    BY TopFacts, Zenon
  <2> QED
    BY <2>1, <2>2
<1>2. CASE Len(stack) = 1
  <2>1. Len(below) = 0
    BY <1>1, <1>2, NoneBelowOne, Zenon
  <2>2. below = <<>>
    BY <1>1, <2>1, EmptySeq
  <2>3. top = stack[1]
    BY <1>2 DEF top
  <2> QED
    BY <1>2, <2>2, <2>3 DEF SeenReturn
<1>3. CASE Len(stack) # 1
  <2>1. below # <<>> /\ 1 \in 1..(Len(stack) - 1)
    BY <1>1, <1>3
  <2>2. below[1] = stack[1]
    BY <1>1, <2>1 DEF below
  <2> QED
    BY <1>3, <2>1, <2>2 DEF SeenInside
<1> QED
  BY <1>2, <1>3

\* A call that goes on, as itself or with another on top, is not.
LEMMA InsideSeen ==
  ASSUME Stacked, stack # <<>>, NEW t, NEW f,
         \/ stack' = Append(below, t)
         \/ stack' = Append(Append(below, t), f),
         t.at \in InN <=> top.at \in InN,
         owned' = owned, process' = process
  PROVE  SeenInside
<1> DEFINE S == GoodCall \cup {t, f}
<1>1. /\ below \in Seq(S) /\ Len(stack) = Len(below) + 1
      /\ Len(below) \in Nat
  <2>1. /\ below \in Seq(GoodCall) /\ Len(stack) = Len(below) + 1
        /\ Len(below) \in Nat
    BY TopFacts, Zenon
  <2>2. \A s \in Seq(GoodCall) : s \in Seq(S)
    OBVIOUS
  <2> QED
    BY <2>1, <2>2
<1>2. stack' # <<>> /\ stack'[1] = Append(below, t)[1]
  <2>1. Append(below, t) \in Seq(S) /\ Len(Append(below, t)) >= 1
    BY <1>1
  <2> QED
    BY <2>1
<1>3. CASE Len(below) = 0
  <2>1. Append(below, t)[1] = t
    BY <1>1, <1>3
  <2>2. stack[1] = top
    BY <1>1, <1>3 DEF top
  <2> QED
    BY <1>2, <2>1, <2>2 DEF SeenInside
<1>4. CASE Len(below) # 0
  <2>1. Append(below, t)[1] = below[1]
    BY <1>1, <1>4
  <2>2. below[1] = stack[1]
    BY <1>1, <1>4 DEF below
  <2> QED
    BY <1>2, <2>1, <2>2 DEF SeenInside
<1> QED
  BY <1>3, <1>4

\* Every step of a call is one of the three.
LEMMA StepSeen ==
  ASSUME Stacked, Step
  PROVE  SeenEnd \/ SeenInside \/ SeenReturn
<1> USE DEF STATUS_SUCCESS, STATUS_NO_MEMORY, STATUS_OBJECT_NAME_INVALID
<1>1. ASSUME NEW n, NEW f, stack # <<>>, Call(n, f), n \in InN <=> top.at \in InN
      PROVE  SeenInside
  <2>1. [top EXCEPT !.at = n].at = n
    BY <1>1, TopFacts DEF GoodCall
  <2>2. /\ stack' = Append(Append(below, [top EXCEPT !.at = n]), f)
        /\ owned' = owned /\ process' = process
    BY <1>1 DEF Call
  <2> QED
    BY <1>1, <2>1, <2>2, InsideSeen, Zenon
<1>2. ASSUME NEW how, how # "running", End(how), process = "running", stack # <<>>
      PROVE  SeenEnd
  BY <1>2 DEF SeenEnd, End
<1>3. ASSUME stack # <<>>, process = "running", NEW v, NEW invalid, Return(v, invalid),
             owned' = owned, top.at \in InN => v # STATUS_SUCCESS
      PROVE  SeenInside \/ SeenReturn
  <2>1. stack' = below /\ ret'.value = v /\ process' = process
    BY <1>3 DEF Return
  <2> QED
    BY <1>3, <2>1, ReturnSeen
<1>4. ASSUME stack # <<>>, process = "running", top.at \in InN, ReturnPath
      PROVE  SeenInside \/ SeenReturn
  <2>1. /\ stack' = below /\ ret'.value = STATUS_SUCCESS /\ process' = process
        /\ owned' = IF Len(stack) = 1 THEN owned + 1 ELSE owned
    BY <1>4 DEF ReturnPath, Return
  <2> QED
    BY <1>4, <2>1, ReturnSeen
<1>5. CASE NtPath
  <2>1. process = "running" /\ stack # <<>> /\ top.at \in InN
    BY <1>5 DEF NtPath, QuickPathBuilt, QuickPathNoMemory, NtPathNoMemory, NtPathFull,
       NtPathRejected, NtPathUnexpected, NtPathBuilt, Entered, At, InN
  <2>2. CASE QuickPathBuilt \/ NtPathBuilt
    BY <1>4, <2>1, <2>2, Zenon DEF QuickPathBuilt, NtPathBuilt
  <2>3. CASE QuickPathNoMemory \/ NtPathNoMemory \/ NtPathRejected
    <3>1. STATUS_NO_MEMORY # STATUS_SUCCESS /\ STATUS_OBJECT_NAME_INVALID # STATUS_SUCCESS
      OBVIOUS
    <3> HIDE DEF STATUS_SUCCESS, STATUS_NO_MEMORY, STATUS_OBJECT_NAME_INVALID
    <3> QED
      BY <1>3, <2>1, <2>3, <3>1, Zenon
         DEF QuickPathNoMemory, NtPathNoMemory, NtPathRejected
  <2>4. CASE NtPathFull
    BY <1>1, <2>1, <2>4 DEF NtPathFull, InN
  <2>5. CASE NtPathUnexpected
    BY <1>2, <2>1, <2>5 DEF NtPathUnexpected
  <2> QED
    BY <1>5, <2>2, <2>3, <2>4, <2>5, Zenon DEF NtPath
<1>6. CASE FullPathSteps
  <2>1. process = "running" /\ stack # <<>> /\ top.at \in InF
    BY <1>6 DEF FullPathSteps, FullPathOfNothing, FullPathOfDevice, FullPathCheck,
       FullPathChecked, FullPathLock, FullPathNoMemory, FullPathAssertion,
       FullPathReturned, Entered, At, InF
  <2>2. top.at \notin InN /\ "F-checked" \notin InN /\ "F-locked" \notin InN
    BY <2>1 DEF InF, InN
  <2>3. CASE FullPathOfNothing \/ FullPathOfDevice \/ FullPathChecked
    BY <1>3, <2>1, <2>2, <2>3, Zenon
       DEF FullPathOfNothing, FullPathOfDevice, FullPathChecked
  <2>4. CASE FullPathNoMemory \/ FullPathReturned
    BY <1>3, <2>1, <2>2, <2>4, Zenon DEF FullPathNoMemory, FullPathReturned
  <2>5. CASE FullPathCheck
    BY <1>1, <2>1, <2>2, <2>5, Zenon DEF FullPathCheck
  <2>6. CASE FullPathLock
    <3>1. [top EXCEPT !.at = "F-locked"].at = "F-locked"
      BY <2>1, TopFacts DEF GoodCall
    <3>2. /\ stack' = Append(below, [top EXCEPT !.at = "F-locked"])
          /\ owned' = owned /\ process' = process
      BY <2>6 DEF FullPathLock
    <3> QED
      BY <2>1, <2>2, <3>1, <3>2, InsideSeen, Zenon
  <2>7. CASE FullPathAssertion
    BY <1>2, <2>1, <2>7 DEF FullPathAssertion
  <2> QED
    BY <1>6, <2>3, <2>4, <2>5, <2>6, <2>7, Zenon DEF FullPathSteps
<1>7. CASE Check
  <2>1. process = "running" /\ stack # <<>> /\ top.at \in InC
    BY <1>7 DEF Check, CheckNoMemory, CheckExists, Checked, Entered, At, InC
  <2>2. top.at \notin InN /\ "C-exists" \notin InN
    BY <2>1 DEF InC, InN
  <2>3. CASE CheckNoMemory \/ Checked
    BY <1>3, <2>1, <2>2, <2>3, Zenon DEF CheckNoMemory, Checked
  <2>4. CASE CheckExists
    BY <1>1, <2>1, <2>2, <2>4, Zenon DEF CheckExists
  <2> QED
    BY <1>7, <2>3, <2>4, Zenon DEF Check
<1>8. CASE Exists
  <2>1. process = "running" /\ stack # <<>> /\ top.at \in InE
    BY <1>8 DEF Exists, ExistsNtPath, ExistsAnswered, ExistsUnbuilt, Entered, At, InE
  <2>2. top.at \notin InN /\ "E-nt" \notin InN
    BY <2>1 DEF InE, InN
  <2>3. CASE ExistsAnswered
    BY <1>3, <2>1, <2>2, <2>3, Zenon DEF ExistsAnswered
  <2>4. CASE ExistsNtPath
    BY <1>1, <2>1, <2>2, <2>4, Zenon DEF ExistsNtPath
  <2>5. CASE ExistsUnbuilt
    <3>1. CASE NT_SUCCESS(ret.value)
      BY <1>2, <2>1, <2>5, <3>1 DEF ExistsUnbuilt
    <3>2. CASE ~NT_SUCCESS(ret.value)
      BY <1>3, <2>1, <2>2, <2>5, <3>2, Zenon DEF ExistsUnbuilt
    <3> QED
      BY <3>1, <3>2
  <2> QED
    BY <1>8, <2>3, <2>4, <2>5, Zenon DEF Exists
<1>9. CASE StackExhausted
  <2>1. stack # <<>>
    BY <1>9, BoundsAssumption DEF StackExhausted, Stacked
  <2> QED
    BY <1>2, <1>9, <2>1 DEF StackExhausted
<1> QED
  BY <1>5, <1>6, <1>7, <1>8, <1>9, Zenon DEF Step
-----------------------------------------------------------------------------
\* The caller has at most one block, and none while it waits.
Owner ==
  /\ owned \in 0..1
  /\ stack # <<>> => owned = 0

\* A call is started only without a block, and only the outermost one gives one.
LEMMA OwnerKept ==
  ASSUME IInv, Owner, [Next]_vars
  PROVE  Owner'
<1>1. Stacked
  BY DEF IInv
<1>2. CASE Step
  <2>1. SeenEnd \/ SeenInside \/ SeenReturn
    BY <1>1, <1>2, StepSeen
  <2> QED
    BY <2>1 DEF Owner, SeenEnd, SeenInside, SeenReturn
<1>3. CASE Caller
  BY <1>3 DEF Owner, Caller, AskNtPath, AskFullPath, AskExists, Start, Idle, FreePath
<1>4. CASE UNCHANGED vars
  BY <1>4 DEF Owner, vars
<1> QED
  BY <1>2, <1>3, <1>4 DEF Next, Ended

\* Between two calls no call holds anything.
LEMMA NothingCounted ==
  ASSUME NEW L
  PROVE  Count(<<>>, L) = 0
BY FS_EmptySet DEF Count

LEMMA BetweenCalls ==
  ASSUME IInv, stack = <<>>
  PROVE  lock = 0 /\ heap = owned
<1>1. GivenToE = 0 /\ owned \in Nat
  BY DEF GivenToE, IInv
<1> QED
  BY <1>1, NothingCounted DEF IInv, LockCounted, HeapCounted

LEMMA BetweenNextCalls ==
  ASSUME IInv', stack' = <<>>
  PROVE  lock' = 0 /\ heap' = owned'
<1>1. GivenToE' = 0 /\ owned' \in Nat
  BY DEF GivenToE, IInv
<1> QED
  BY <1>1, NothingCounted DEF IInv, LockCounted, HeapCounted

\* What the caller waits for is the function it has called.
LEMMA AskedOutermost ==
  /\ Asked = IF stack = <<>> THEN "none"
             ELSE IF stack[1].at \in InN THEN "nt" ELSE "other"
  /\ Asked' = IF stack' = <<>> THEN "none"
              ELSE IF stack'[1].at \in InN THEN "nt" ELSE "other"
BY DEF Asked, InN

\* A step of a call is an answer, the end, or nothing to the caller.
LEMMA StepPromised ==
  ASSUME IInv, Owner, IInv', Step
  PROVE  [Service!Next]_(Service!vars)
<1> USE AskedOutermost
<1>1. SeenEnd \/ SeenInside \/ SeenReturn
  BY StepSeen DEF IInv
<1>2. CASE SeenEnd
  <2>1. /\ process = "running" /\ process' # "running" /\ stack # <<>>
        /\ stack' = stack /\ ret' = ret /\ lock' = lock /\ heap' = heap
    BY <1>2 DEF SeenEnd
  <2>2. Service!End
    BY <2>1 DEF Service!End
  <2> QED
    BY <2>2 DEF Service!Next
<1>3. CASE SeenInside
  <2>1. stack # <<>> /\ stack' # <<>> /\ process' = process /\ Asked' = Asked
    BY <1>3 DEF SeenInside
  <2> QED
    BY <2>1 DEF Service!vars
<1>4. CASE SeenReturn
  <2>1. /\ process = "running" /\ process' = "running"
        /\ stack # <<>> /\ stack' = <<>> /\ owned = 0
    BY <1>4 DEF SeenReturn, Owner
  <2>2. lock' = 0 /\ heap' = owned'
    BY <2>1, BetweenNextCalls
  <2>3. owned' = IF Asked = "nt" /\ ret'.value = STATUS_SUCCESS THEN 1 ELSE 0
    BY <1>4, <2>1 DEF SeenReturn
  <2>4. Service!Answer
    BY <2>1, <2>2, <2>3 DEF Service!Answer
  <2> QED
    BY <2>4 DEF Service!Next
<1> QED
  BY <1>1, <1>2, <1>3, <1>4

\* A step of the caller is a call or the return of a block.
LEMMA CallerPromised ==
  ASSUME IInv, Owner, IInv', Caller
  PROVE  [Service!Next]_(Service!vars)
<1> USE AskedOutermost
<1>1. ASSUME NEW f, Start(f)
      PROVE  Service!Ask(IF f.at \in InN THEN "nt" ELSE "other")
  <2>1. /\ process = "running" /\ process' = process /\ stack = <<>> /\ owned = 0
        /\ stack' = <<f>> /\ lock' = lock /\ heap' = heap
    BY <1>1 DEF Start, Idle
  <2>2. lock = 0 /\ heap = 0
    BY <2>1, BetweenCalls
  <2>3. <<f>> # <<>> /\ <<f>>[1] = f
    OBVIOUS
  <2> QED
    BY <2>1, <2>2, <2>3 DEF Service!Ask
<1>2. CASE AskNtPath
  <2>1. PICK s \in Name, g \in CallFlags : Start(Frame("N", s, g))
    BY <1>2 DEF AskNtPath
  <2>2. Frame("N", s, g).at \in InN
    BY DEF Frame, InN
  <2> QED
    BY <1>1, <2>1, <2>2 DEF Service!Next
<1>3. CASE AskFullPath
  <2>1. PICK s \in Name : Start(Frame("F", s, {}))
    BY <1>3 DEF AskFullPath
  <2>2. Frame("F", s, {}).at \notin InN
    BY DEF Frame, InN
  <2> QED
    BY <1>1, <2>1, <2>2 DEF Service!Next
<1>4. CASE AskExists
  <2>1. PICK s \in Name : Start(Frame("E", s, {}))
    BY <1>4 DEF AskExists
  <2>2. Frame("E", s, {}).at \notin InN
    BY DEF Frame, InN
  <2> QED
    BY <1>1, <2>1, <2>2 DEF Service!Next
<1>5. CASE FreePath
  <2>1. /\ process = "running" /\ process' = process /\ owned = 1 /\ owned' = 0
        /\ stack' = stack /\ stack = <<>> /\ ret' = ret /\ lock' = lock
    BY <1>5 DEF FreePath, Owner
  <2>2. heap = 1 /\ heap' = 0
    BY <2>1, BetweenCalls, BetweenNextCalls
  <2>3. Service!Free
    BY <2>1, <2>2 DEF Service!Free
  <2> QED
    BY <2>3 DEF Service!Next
<1> QED
  BY <1>2, <1>3, <1>4, <1>5 DEF Caller

(***************************************************************************)
(* NtPathCall implements NtPathService: whatever is called inside and      *)
(* whatever fails there, the caller gets an answer without the lock, and a *)
(* block exactly with an NT path, or the process ends (path.c:931-1100).   *)
(***************************************************************************)
THEOREM ImplementsService ==
  ASSUME CallersAgree
  PROVE  Spec => KeepsPromise
<1>1. Init => Service!Init
  <2> SUFFICES ASSUME Init PROVE Service!Init
    OBVIOUS
  <2> QED
    BY DEF Init, Service!Init, Asked, STATUS_SUCCESS
<1>2. Init => Owner
  BY DEF Init, Owner
<1>3. IInv /\ Owner /\ [Next]_vars => Owner'
  BY OwnerKept
<1>4. IInv /\ Owner /\ IInv' /\ [Next]_vars => [Service!Next]_(Service!vars)
  <2> SUFFICES ASSUME IInv, Owner, IInv', [Next]_vars
               PROVE  [Service!Next]_(Service!vars)
    OBVIOUS
  <2>1. CASE Step
    BY <2>1, StepPromised
  <2>2. CASE Caller
    BY <2>2, CallerPromised
  <2>3. CASE UNCHANGED vars
    BY <2>3 DEF vars, Service!vars, Asked
  <2> QED
    BY <2>1, <2>2, <2>3 DEF Next, Ended
<1> QED
  BY <1>1, <1>2, <1>3, <1>4, Invariance, PTL DEF Spec, KeepsPromise, Service!SafeSpec
-----------------------------------------------------------------------------
(***************************************************************************)
(* The values that calls return and the depth they reach.                  *)
(***************************************************************************)
LEMMA AnswerNatural ==
  ASSUME NEW s \in Name \ Uncut
  PROVE  Answer[s] \in Nat
<1> DEFINE S == STRING \ {UNICODE_NULL}
<1>1. s \in Seq(S) /\ CurDir \in Directory(S) /\ UNICODE_NULL \notin S
  BY NameAssumption, CurDirAssumption DEF Text, Directory
<1>2. MaxBytes \in Nat
  BY BoundsAssumption, SizeofWCHARAssumption DEF MaxBytes
<1>3. Answer[s] = RtlGetFullPathName_Ustr(s, MaxBytes, CurDir)
  BY DEF Answer
<1> HIDE DEF S
<1>4. CASE CharsKept(s) = 0
  BY <1>3, <1>4 DEF RtlGetFullPathName_Ustr
<1>5. CASE CharsKept(s) # 0
  <2>1. RtlIsDosDeviceName_Ustr(s) = 0 => Needed(s, CurDir) > MaxBytes \/ CutInside(s, CurDir)
    BY <1>5 DEF Uncut, TooLong, PathName, DosDevice, Blank, IsDosDevice
  <2> QED
    BY <1>1, <1>2, <1>3, <2>1, AnswerIs
<1> QED
  BY <1>4, <1>5

Answered(r) == r.value \in Nat /\ r.invalid \in BOOLEAN

Bounded ==
  /\ Len(stack) <= MaxStack
  /\ Answered(ret)
  /\ process \in {"running", "aborted", "undefined", "overflowed"}

LEMMA TwoMore ==
  ASSUME NEW S, NEW s \in Seq(S), NEW a, NEW b
  PROVE  Len(Append(Append(s, a), b)) = Len(s) + 2
<1>1. s \in Seq(S \cup {a, b})
  OBVIOUS
<1> QED
  BY <1>1

\* What a step may do to the three.
LEMMA BoundedCall ==
  ASSUME Stacked, Bounded, stack # <<>>, Len(stack) < MaxStack, NEW n, NEW f, Call(n, f)
  PROVE  Bounded'
<1>1. Len(stack) \in Nat /\ below \in Seq(GoodCall) /\ Len(below) = Len(stack) - 1
  BY TopFacts DEF Stacked
<1> DEFINE g == [top EXCEPT !.at = n]
<1> HIDE DEF g
<1>2. Len(Append(Append(below, g), f)) = Len(stack) + 1
  <2>1. Len(Append(Append(below, g), f)) = Len(below) + 2
    BY <1>1, TwoMore
  <2> QED
    BY <1>1, <2>1
<1>3. Len(stack') <= MaxStack
  BY <1>1, <1>2, BoundsAssumption DEF Call, g
<1> QED
  BY <1>3 DEF Bounded, Answered, Call

LEMMA BoundedReturn ==
  ASSUME Stacked, Bounded, stack # <<>>, NEW v \in Nat, NEW invalid \in BOOLEAN,
         Return(v, invalid)
  PROVE  Bounded'
<1>1. Len(stack) \in Nat /\ Len(below) = Len(stack) - 1
  BY TopFacts DEF Stacked
<1>2. Len(stack') <= MaxStack
  BY <1>1, BoundsAssumption DEF Bounded, Return
<1> QED
  BY <1>2 DEF Bounded, Answered, Return

LEMMA BoundedEnd ==
  ASSUME Bounded, NEW how \in {"aborted", "undefined", "overflowed"}, End(how)
  PROVE  Bounded'
BY DEF Bounded, Answered, End

LEMMA StepBounded ==
  ASSUME IInv, CallersAgree, Bounded, Step
  PROVE  Bounded'
<1>0. Stacked
  BY DEF IInv
<1>1. ASSUME NEW n, NEW f, NEW l, Entered(l), Call(n, f) PROVE Bounded'
  <2>1. stack # <<>> /\ Len(stack) < MaxStack
    BY <1>1 DEF Entered, At
  <2> QED
    BY <1>0, <1>1, <2>1, BoundedCall, Zenon
<1>2. ASSUME stack # <<>>, NEW v \in Nat, NEW invalid \in BOOLEAN, Return(v, invalid)
      PROVE  Bounded'
  BY <1>0, <1>2, BoundedReturn, Zenon
<1>3. CASE NtPath
  <2>1. stack # <<>>
    BY <1>3 DEF NtPath, QuickPathBuilt, QuickPathNoMemory, NtPathNoMemory, NtPathFull,
       NtPathRejected, NtPathUnexpected, NtPathBuilt, Entered, At
  <2>2. CASE NtPathFull
    BY <1>1, <2>2, Zenon DEF NtPathFull
  <2>3. CASE NtPathUnexpected
    BY <2>3, BoundedEnd DEF NtPathUnexpected
  <2>4. CASE ~NtPathFull /\ ~NtPathUnexpected
    <3>1. /\ STATUS_SUCCESS \in Nat /\ STATUS_NO_MEMORY \in Nat
          /\ STATUS_OBJECT_NAME_INVALID \in Nat /\ FALSE \in BOOLEAN
      BY DEF STATUS_SUCCESS, STATUS_NO_MEMORY, STATUS_OBJECT_NAME_INVALID
    <3>2. \E v \in Nat : Return(v, FALSE)
      BY <1>3, <2>4, <3>1, Zenon
         DEF NtPath, QuickPathBuilt, QuickPathNoMemory, NtPathNoMemory, NtPathRejected,
             NtPathBuilt, ReturnPath
    <3> QED
      BY <1>2, <2>1, <3>1, <3>2, Zenon
  <2> QED
    BY <2>2, <2>3, <2>4
<1>4. CASE FullPathSteps
  <2>1. stack # <<>> /\ top \in GoodCall /\ called \in Name /\ process = "running"
    <3>1. stack # <<>> /\ process = "running"
      BY <1>4 DEF FullPathSteps, FullPathOfNothing, FullPathOfDevice, FullPathCheck,
         FullPathChecked, FullPathLock, FullPathNoMemory, FullPathAssertion,
         FullPathReturned, Entered, At
    <3>2. top \in GoodCall
      BY <1>0, <3>1, TopFacts, Zenon
    <3> QED
      BY <3>1, <3>2 DEF GoodCall, called
  <2>2. \A s \in DosDevice : s \in Name \ Uncut
    BY DEF DosDevice, Uncut, PathName
  <2>3. ret.invalid \in BOOLEAN
    BY DEF Bounded, Answered
  <2>4. CASE FullPathOfNothing \/ FullPathNoMemory
    BY <1>2, <2>1, <2>4 DEF FullPathOfNothing, FullPathNoMemory
  <2>5. CASE FullPathOfDevice
    <3>1. Answer[called] \in Nat
      BY <2>2, <2>5, AnswerNatural DEF FullPathOfDevice
    <3> QED
      BY <1>2, <2>1, <2>5, <3>1 DEF FullPathOfDevice
  <2>6. CASE FullPathCheck
    BY <1>1, <2>6, Zenon DEF FullPathCheck
  <2>7. CASE FullPathChecked
    <3>1. called \in DosDevice
      BY <2>1, <2>7 DEF FullPathChecked, At, GoodCall, called
    <3>2. Answer[called] \in Nat
      BY <2>2, <3>1, AnswerNatural
    <3>3. (IF ~NT_SUCCESS(ret.value) \/ ret.invalid THEN 0 ELSE Answer[called]) \in Nat
      BY <3>2
    <3> QED
      BY <1>2, <2>1, <2>3, <2>7, <3>3, Zenon DEF FullPathChecked
  <2>8. CASE FullPathLock
    <3>1. /\ stack' = Append(below, [top EXCEPT !.at = "F-locked"])
          /\ Len(stack) < MaxStack /\ ret' = ret /\ process' = process
      BY <2>8 DEF FullPathLock, Entered
    <3>2. below \in Seq(GoodCall) /\ Len(stack) = Len(below) + 1 /\ Len(below) \in Nat
      BY <1>0, <2>1, TopFacts
    <3> DEFINE g == [top EXCEPT !.at = "F-locked"]
    <3>3. below \in Seq(GoodCall \cup {g})
      BY <3>2
    <3> HIDE DEF g
    <3>4. Len(Append(below, g)) = Len(below) + 1
      BY <3>3
    <3>5. Len(stack') <= MaxStack
      BY <3>1, <3>2, <3>4, BoundsAssumption DEF g
    <3> QED
      BY <3>1, <3>5 DEF Bounded, Answered
  <2>9. CASE FullPathAssertion
    BY <2>9, BoundedEnd DEF FullPathAssertion
  <2>10. CASE FullPathReturned
    <3>1. Answer[called] \in Nat
      BY <2>1, <2>10, AnswerNatural DEF FullPathReturned
    <3> QED
      BY <1>2, <2>1, <2>10, <3>1 DEF FullPathReturned
  <2> QED
    BY <1>4, <2>4, <2>5, <2>6, <2>7, <2>8, <2>9, <2>10, Zenon DEF FullPathSteps
<1>5. CASE Check
  <2>1. CASE CheckExists
    BY <1>1, <2>1, Zenon DEF CheckExists
  <2>2. CASE CheckNoMemory
    BY <1>2, <2>2 DEF CheckNoMemory, Entered, At, STATUS_NO_MEMORY
  <2>3. CASE Checked
    BY <1>2, <2>3 DEF Checked, At
  <2> QED
    BY <1>5, <2>1, <2>2, <2>3 DEF Check
<1>6. CASE Exists
  <2>1. CASE ExistsNtPath
    BY <1>1, <2>1, Zenon DEF ExistsNtPath
  <2>2. CASE ExistsAnswered
    BY <1>2, <2>2 DEF ExistsAnswered, At
  <2>3. CASE ExistsUnbuilt
    BY <1>2, <2>3, BoundedEnd DEF ExistsUnbuilt, At
  <2> QED
    BY <1>6, <2>1, <2>2, <2>3 DEF Exists
<1>7. CASE StackExhausted
  BY <1>7, BoundedEnd DEF StackExhausted
<1> QED
  BY <1>3, <1>4, <1>5, <1>6, <1>7 DEF Step

LEMMA CallerBounded ==
  ASSUME Bounded, Caller
  PROVE  Bounded'
<1>1. ASSUME NEW f, Start(f) PROVE Bounded'
  <2>1. Len(<<f>>) = 1 /\ 1 <= MaxStack
    BY BoundsAssumption
  <2> QED
    BY <1>1, <2>1 DEF Start, Bounded, Answered
<1>2. CASE FreePath
  BY <1>2 DEF FreePath, Bounded, Answered
<1> QED
  BY <1>1, <1>2 DEF Caller, AskNtPath, AskFullPath, AskExists

(***************************************************************************)
(* TypeOK: no call goes deeper than the stack, the lock is never released  *)
(* more often than taken nor a block freed that is not there, and what the *)
(* outermost caller is given is at most one path (path.c:931-1100).        *)
(***************************************************************************)
THEOREM TypeCorrect ==
  ASSUME CallersAgree
  PROVE  Spec => []TypeOK
<1>1. Init => Bounded /\ Owner
  <2>1. Len(<<>>) = 0
    OBVIOUS
  <2> QED
    BY <2>1, BoundsAssumption DEF Init, Bounded, Answered, Owner
<1>2. IInv /\ Owner /\ Bounded /\ [Next]_vars => (Owner /\ Bounded)'
  <2> SUFFICES ASSUME IInv, Owner, Bounded, [Next]_vars PROVE Owner' /\ Bounded'
    OBVIOUS
  <2>1. Owner'
    BY OwnerKept
  <2>2. CASE Step
    BY <2>1, <2>2, StepBounded
  <2>3. CASE Caller
    BY <2>1, <2>3, CallerBounded
  <2>4. CASE UNCHANGED vars
    BY <2>1, <2>4 DEF vars, Bounded, Answered
  <2> QED
    BY <2>2, <2>3, <2>4 DEF Next, Ended
<1>3. IInv /\ Owner /\ Bounded => TypeOK
  <2> SUFFICES ASSUME IInv, Owner, Bounded PROVE TypeOK
    OBVIOUS
  <2>1. stack \in Seq(GoodCall) /\ owned \in 0..1
    BY DEF IInv, Stacked, Owner
  <2>2. Count(stack, LockLabels) \in Nat /\ Count(stack, HeapLabels) \in Nat
    BY <2>1, CountType
  <2>3. GivenToE \in Nat
    BY DEF GivenToE
  <2>4. lock \in Nat /\ heap \in Nat
    BY <2>1, <2>2, <2>3 DEF IInv, LockCounted, HeapCounted
  <2>5. stack \in Seq([at : Label, name : Name, flags : SUBSET Flags])
    <3> DEFINE Calls == [at : Label, name : Name, flags : SUBSET Flags]
    <3>1. GoodCall \subseteq Calls
      BY DEF GoodCall
    <3> HIDE DEF Calls
    <3>2. stack \in Seq(Calls)
      BY <2>1, <3>1
    <3> QED
      BY <3>2 DEF Calls
  <2> QED
    BY <2>1, <2>4, <2>5 DEF Bounded, Answered, TypeOK
<1> QED
  BY <1>1, <1>2, <1>3, Invariance, PTL DEF Spec
=============================================================================
